--------------------------- MODULE ChatSyncProofs ---------------------------
(* ChatSync for any number of devices, chats and faults, after the order    *)
(* behind conflict resolution, which it rests on, for all instants and      *)
(* precisions.                                                             *)
EXTENDS ChatSync, MCResolve, TLAPS

-----------------------------------------------------------------------------
(* Conflict resolution *)

\* Truncation yields an instant.
LEMMA TruncNat == \A t \in Nat : truncateToMillisecond(t) \in Nat
  BY MilliAssumption DEF truncateToMillisecond

\* The latest action of a version has an instant and a kind.
LEMMA ActionType ==
    ASSUME NEW r \in Stamps
    PROVE  /\ latestRecordAction(r).when \in Nat
           /\ latestRecordAction(r).deleted \in BOOLEAN
           /\ Rank(r) \in 0..2
  <1>1. truncateToMillisecond(r.upd) \in Nat /\ truncateToMillisecond(r.del) \in Nat
    BY TruncNat DEF Stamps
  <1> QED
    BY <1>1 DEF latestRecordAction, Rank

\* Rank tells apart what the tie-breaking cases of ResolveRecordWinner tell apart.
LEMMA RankFacts ==
    ASSUME NEW r \in Stamps
    PROVE  /\ latestRecordAction(r).deleted <=> Rank(r) = 0
           /\ r.del = NoTime <=> Rank(r) = 2
  <1>1. r.del = NoTime => ~latestRecordAction(r).deleted
    BY DEF latestRecordAction
  <1> QED
    BY <1>1 DEF Rank

\* ResolveRecordWinner is the reference order: the side that Beats wins.
THEOREM WinnerIsBeats ==
    ASSUME NEW a \in Stamps, NEW b \in Stamps
    PROVE  /\ ResolveRecordWinner(a, b) = "local" <=> Beats(a, b)
           /\ ResolveRecordWinner(a, b) = "remote" <=> Beats(b, a)
           /\ ResolveRecordWinner(a, b) \in {"local", "remote", "equal"}
  <1> DEFINE la == latestRecordAction(a)
             lb == latestRecordAction(b)
  <1>1. la.when \in Nat /\ lb.when \in Nat /\ Rank(a) \in 0..2 /\ Rank(b) \in 0..2
    BY ActionType
  <1>2. /\ la.deleted <=> Rank(a) = 0
        /\ lb.deleted <=> Rank(b) = 0
        /\ a.del = NoTime <=> Rank(a) = 2
        /\ b.del = NoTime <=> Rank(b) = 2
        /\ la.deleted \in BOOLEAN /\ lb.deleted \in BOOLEAN
    BY RankFacts, ActionType
  <1> HIDE DEF la, lb
  <1>3. CASE la.when # lb.when
    BY <1>1, <1>3 DEF ResolveRecordWinner, Beats, la, lb
  <1>4. CASE la.when = lb.when
    BY <1>1, <1>2, <1>4 DEF ResolveRecordWinner, Beats, recordIsMoreActive, la, lb
  <1> QED
    BY <1>3, <1>4

\* The two sides of a sync compute mirrored verdicts.
THEOREM WinnerMirrored ==
    ASSUME NEW a \in Stamps, NEW b \in Stamps
    PROVE  /\ ResolveRecordWinner(a, b) = "local" <=> ResolveRecordWinner(b, a) = "remote"
           /\ ResolveRecordWinner(a, b) = "equal" <=> ResolveRecordWinner(b, a) = "equal"
  BY WinnerIsBeats

\* Winning is transitive, and so is being equal.
THEOREM WinnerTransitive ==
    ASSUME NEW a \in Stamps, NEW b \in Stamps, NEW c \in Stamps
    PROVE  /\ ResolveRecordWinner(a, b) = "local" /\ ResolveRecordWinner(b, c) = "local"
                 => ResolveRecordWinner(a, c) = "local"
           /\ ResolveRecordWinner(a, b) = "equal" /\ ResolveRecordWinner(b, c) = "equal"
                 => ResolveRecordWinner(a, c) = "equal"
  <1>1. Beats(a, b) /\ Beats(b, c) => Beats(a, c)
    BY ActionType DEF Beats
  <1>2. /\ ~Beats(a, b) /\ ~Beats(b, a) /\ ~Beats(b, c) /\ ~Beats(c, b)
           => ~Beats(a, c) /\ ~Beats(c, a)
    BY ActionType DEF Beats
  <1> QED
    BY <1>1, <1>2, WinnerIsBeats

\* A version the cursor filter drops loses against every version it keeps, when
\* a delete stamps updated_at as well (the auto_update_updated_at triggers).
THEOREM DroppedLoses ==
    ASSUME NEW a \in Stamps, NEW b \in Stamps, NEW cut \in Nat,
           a.del <= a.upd, ~UpdatedSince(a, cut), UpdatedSince(b, cut)
    PROVE  ResolveRecordWinner(a, b) = "remote"
  <1> DEFINE T(t) == truncateToMillisecond(t)
  <1>1. \A s, t \in Nat : s <= t => s \div Milli <= t \div Milli
    BY MilliAssumption
  <1>2. T(a.del) <= T(a.upd)
    <2>1. a.del \div Milli <= a.upd \div Milli
      BY <1>1 DEF Stamps
    <2> QED
      BY <2>1, MilliAssumption DEF truncateToMillisecond, Stamps
  <1>3. T(a.upd) \in Nat /\ T(a.del) \in Nat /\ T(b.upd) \in Nat /\ T(b.del) \in Nat
        /\ T(cut) \in Nat
    BY TruncNat DEF Stamps
  <1>4. T(a.upd) < T(cut) /\ T(cut) <= T(b.upd)
    BY <1>3 DEF UpdatedSince
  <1>5. latestRecordAction(a).when = T(a.upd)
    BY <1>2, <1>3 DEF latestRecordAction
  <1>6. latestRecordAction(b).when >= T(b.upd)
    BY <1>3 DEF latestRecordAction
  <1>7. Beats(b, a)
    BY <1>3, <1>4, <1>5, <1>6, ActionType DEF Beats
  <1> QED
    BY <1>7, WinnerIsBeats

-----------------------------------------------------------------------------
(* The predicates that MCResolve checks of a pair of versions, for every bound *)
(* on the instants.                                                            *)

\* The versions that the checks enumerate are versions.
LEMMA VersionsAreStamps == Version \subseteq Stamps
  BY MaxTimeAssumption DEF Version, Stamps

\* The versions and the cursor never change, so they stay as they were chosen.
LEMMA ChosenOnce == PairSpec => [](x \in Version /\ y \in Version /\ since \in 0..MaxTime)
  <1>1. ChoosePair => x \in Version /\ y \in Version /\ since \in 0..MaxTime
    BY DEF ChoosePair
  <1>2. x \in Version /\ y \in Version /\ since \in 0..MaxTime /\ [KeepPair]_pair
        => (x \in Version /\ y \in Version /\ since \in 0..MaxTime)'
    BY DEF KeepPair, pair
  <1> QED
    BY <1>1, <1>2, PTL DEF PairSpec

\* ResolveRecordWinner agrees with the reference rule on every pair of versions.
THEOREM ReferenceHolds == PairSpec => []AgreesWithReference
  <1>1. x \in Version /\ y \in Version => AgreesWithReference
    BY VersionsAreStamps, WinnerIsBeats DEF AgreesWithReference
  <1> QED
    BY <1>1, ChosenOnce, PTL

\* The cursor filter of FilterRecordsUpdatedSince never hides a version that
\* would win.
THEOREM FilterHidesNoWinner == PairSpec => []DroppedNeverWins
  <1>1. x \in Version /\ y \in Version /\ since \in 0..MaxTime => DroppedNeverWins
    BY VersionsAreStamps, DroppedLoses, MaxTimeAssumption DEF DroppedNeverWins
  <1> QED
    BY <1>1, ChosenOnce, PTL

-----------------------------------------------------------------------------
(* Chat sync *)

(***************************************************************************)
(* The inductive invariant.  A run of syncs is correct because rows are    *)
(* only ever copied (a version is known by its updated_at), because the    *)
(* listing of a pass does not go stale while the pass works on it, and     *)
(* because what a cursor hides has been settled before.                    *)
(***************************************************************************)

\* Devices sync one after the other.
OneSync == \A d, e \in Device : job[d].pc # "idle" /\ job[e].pc # "idle" => d = e

\* A row is dated by a past instant, its deletion not after its update.
Dated ==
    \A s \in Store, c \in Chat :
        /\ row[s][c].upd < clock /\ row[s][c].del <= row[s][c].upd
        /\ row[s][c] # NoRow => row[s][c].upd # NoTime

\* The instant of its update tells the version of a chat.
OneVersion ==
    \A s, t \in Store, c \in Chat : row[s][c].upd = row[t][c].upd => row[s][c] = row[t][c]

\* What a pass still has to do is listed with the row that it reads from.
ListingCurrent ==
    \A d \in Device :
        /\ job[d].pc = "idle" => job[d] = NoJob
        /\ job[d].pc \notin {"idle", "done"} => job[d].last = cursor[d]
        /\ job[d].started <= clock /\ cursor[d] <= clock
        /\ \A c \in Chat : job[d].todo[c] # NoRow =>
              /\ job[d].pc \notin {"list", "done"}
              /\ job[d].todo[c] = row[From(d)][c]
              /\ job[d].todo[c].upd >= job[d].last

\* Where a sync stands with the chat it is busy with.
Carried ==
    \A d \in Device : LET c == job[d].chat IN
        /\ job[d].pc \in {"upload", "items", "upsert"} => row[Target(d)][c].upd < job[d].todo[c].upd
        /\ job[d].pc = "upload" => job[d].push /\ job[d].todo[c].del = NoTime
        /\ job[d].pc = "upsert" => job[d].items = row[From(d)][c].items
        /\ job[d].pc = "download" => ~job[d].push /\ row[d][c] = row[Cloud][c] /\ row[d][c].del = NoTime
        /\ job[d].pc = "done" => ~job[d].push

\* A chat that the push pass is through with: the cloud has no older version of it,
\* unless the cursor hid it.
Pushed(d, c) == row[d][c].upd >= job[d].last => row[d][c].upd <= row[Cloud][c].upd

\* A chat that the pull pass is through with: device and cloud agree on it.
Agree(d, c) ==
    /\ row[d][c] = row[Cloud][c]
    /\ row[d][c] # NoRow /\ row[d][c].del = NoTime /\ obj[c] # 0 /\ c \notin ahead => raw[d][c] = obj[c]

Settled ==
    \A d \in Device, c \in Chat :
        /\ job[d].pc \notin {"idle", "list"} /\ job[d].push /\ job[d].todo[c] = NoRow => Pushed(d, c)
        /\ job[d].pc \notin {"idle", "done"} /\ ~job[d].push => Pushed(d, c)
        /\ job[d].pc \notin {"idle", "list"} /\ ~job[d].push /\ job[d].todo[c] = NoRow /\ c \notin late
              => Agree(d, c)

\* What device and cloud do not agree on is in the reach of the device's cursor.
CursorReaches ==
    \A d \in Device, c \in Chat \ late :
        Agree(d, c) \/ row[d][c].upd >= cursor[d] \/ row[Cloud][c].upd >= cursor[d]

\* A live row on its way to the cloud has its object there.
ObjectFirst ==
    \A d \in Device : LET c == job[d].chat IN
        job[d].pc \in {"items", "upsert"} /\ job[d].push /\ job[d].todo[c].del = NoTime =>
            /\ c \notin missing => obj[c] # 0
            /\ c \notin torn \cup missing /\ row[d][c].items # 0 => obj[c] = row[d][c].items

\* The raw sources of the devices, and of the cloud.
DeviceRaw ==
    \A d \in Device, c \in Chat \ (torn \cup missing) :
        ~(job[d].pc = "download" /\ job[d].chat = c) /\ row[d][c].items # 0 => raw[d][c] = row[d][c].items

CloudRaw ==
    \A c \in Chat \ (torn \cup missing \cup ahead) :
        row[Cloud][c].items # 0 /\ row[Cloud][c].del = NoTime => obj[c] = row[Cloud][c].items

Rows == TypeOK /\ OneSync /\ Dated /\ OneVersion /\ ListingCurrent /\ Carried

Progress == Settled /\ CursorReaches

Sources == CloudRowHasObject /\ ObjectFirst /\ DeviceRaw /\ CloudRaw

IInv == Rows /\ Progress /\ Sources

-----------------------------------------------------------------------------
(* Resolution, for rows whose deletion is not after their update *)

\* In whole milliseconds, truncation changes nothing.
LEMMA TruncIdentity == \A t \in Nat : truncateToMillisecond(t) = t
  BY ChatSyncAssumption DEF truncateToMillisecond

\* The later update wins.
LEMMA LaterWins ==
    ASSUME NEW r \in Row, NEW t \in Row, r.del <= r.upd, t.del <= t.upd
    PROVE  /\ r.upd > t.upd => ResolveRecordWinner(r, t) = "local"
           /\ r.upd < t.upd => ResolveRecordWinner(r, t) = "remote"
           /\ r = t => ResolveRecordWinner(r, t) = "equal"
  <1>3. r.upd \in Nat /\ r.del \in Nat /\ t.upd \in Nat /\ t.del \in Nat
    BY DEF Row
  <1>4. /\ truncateToMillisecond(r.upd) = r.upd /\ truncateToMillisecond(r.del) = r.del
        /\ truncateToMillisecond(t.upd) = t.upd /\ truncateToMillisecond(t.del) = t.del
    BY <1>3, TruncIdentity
  <1>1. latestRecordAction(r) = [when |-> r.upd, deleted |-> FALSE]
    BY <1>3, <1>4 DEF latestRecordAction
  <1>2. latestRecordAction(t) = [when |-> t.upd, deleted |-> FALSE]
    BY <1>3, <1>4 DEF latestRecordAction
  <1> QED
    BY <1>1, <1>2, <1>3 DEF ResolveRecordWinner, recordIsMoreActive

\* So the side that is copied from wins exactly when it is later.
LEMMA Direction ==
    ASSUME NEW d \in Device, NEW r \in Row, NEW t \in Row, r.del <= r.upd, t.del <= t.upd,
           r.upd = t.upd => r = t, job[d].push \in BOOLEAN
    PROVE  resolveChatWinnerForDirection(d, r, t) =
             IF r.upd > t.upd THEN "source" ELSE IF r.upd < t.upd THEN "target" ELSE "none"
  <1>1. /\ r.upd > t.upd => ResolveRecordWinner(r, t) = "local"
        /\ r.upd < t.upd => ResolveRecordWinner(r, t) = "remote"
        /\ r = t => ResolveRecordWinner(r, t) = "equal"
    BY LaterWins
  <1>2. /\ t.upd > r.upd => ResolveRecordWinner(t, r) = "local"
        /\ t.upd < r.upd => ResolveRecordWinner(t, r) = "remote"
        /\ r = t => ResolveRecordWinner(t, r) = "equal"
    BY LaterWins
  <1>3. r.upd \in Nat /\ t.upd \in Nat
    BY DEF Row
  <1> QED
    BY <1>1, <1>2, <1>3 DEF resolveChatWinnerForDirection

-----------------------------------------------------------------------------
(* Types *)

\* No row is a row, no job is a job.
LEMMA NoJobType == NoRow \in Row /\ NoJob \in Job
  BY DEF NoRow, Row, NoTime, NoJob, Job

\* The chat a sync is busy with.
LEMMA BusyChat ==
    ASSUME TypeOK, NEW d \in Device, job[d].pc \in {"upload", "items", "upsert", "download"}
    PROVE  job[d].chat \in Chat /\ job[d].todo[job[d].chat] \in Row /\ job[d].todo[job[d].chat] # NoRow
  BY DEF TypeOK, Job, BusyWithListed


-----------------------------------------------------------------------------
(* What the steps of a sync do to the jobs, field by field *)

\* The job of d becomes a job with these fields and keeps its timestamps.
Becomes(d, pc, push, todo, chat, items) ==
    /\ job' \in [Device -> Job]
    /\ \A e \in Device \ {d} : job'[e] = job[e]
    /\ job'[d].pc = pc /\ job'[d].push = push /\ job'[d].todo = todo
    /\ job'[d].chat = chat /\ job'[d].items = items
    /\ job'[d].last = job[d].last /\ job'[d].started = job[d].started

\* The jobs are jobs.
LEMMA JobType == ASSUME TypeOK, NEW d \in Device PROVE job \in [Device -> Job] /\ job[d] \in Job
  BY DEF TypeOK

\* A job is replaced by one with the same timestamps.
LEMMA BecomesJob ==
    ASSUME job \in [Device -> Job], NEW d \in Device, NEW J \in Job, job' = [job EXCEPT ![d] = J],
           J.last = job[d].last, J.started = job[d].started
    PROVE  Becomes(d, J.pc, J.push, J.todo, J.chat, J.items)
  BY DEF Becomes

\* What listChanged lists of the chat c.
Listed(d, c) ==
    LET r == row[From(d)][c] IN IF r # NoRow /\ UpdatedSince(r, job[d].last) THEN r ELSE NoRow

\* listChanged fills the listing.
LEMMA ListJob ==
    ASSUME TypeOK, NEW d \in Device, listChanged(d)
    PROVE  Becomes(d, "next", job[d].push, [c \in Chat |-> Listed(d, c)], job[d].chat, job[d].items)
  <1> DEFINE T == [c \in Chat |-> Listed(d, c)]
             J == [job[d] EXCEPT !.pc = "next", !.todo = T]
  <1>1. T \in [Chat -> Row]
    BY NoJobType DEF TypeOK, From, Store, Listed
  <1>2. job' = [job EXCEPT ![d] = J]
    BY DEF listChanged, Listed
  <1> HIDE DEF T
  <1>3. J \in Job
    BY <1>1, JobType DEF Job
  <1>4. /\ J.pc = "next" /\ J.push = job[d].push /\ J.todo = T /\ J.chat = job[d].chat
        /\ J.items = job[d].items /\ J.last = job[d].last /\ J.started = job[d].started
    BY JobType DEF Job
  <1> HIDE DEF J
  <1> QED
    BY <1>2, <1>3, <1>4, JobType, BecomesJob DEF T

\* What loadChatSession does next.
Verdict(d, c) ==
    AfterResolve(d, job[d].todo[c], IF row[Target(d)][c] = NoRow THEN "source"
                     ELSE resolveChatWinnerForDirection(d, job[d].todo[c], row[Target(d)][c]))

\* A chat that needs nothing is passed over, any other becomes the current one.
LEMMA LoadJob ==
    ASSUME TypeOK, NEW d \in Device, NEW c \in Chat, loadChatSession(d, c)
    PROVE  /\ Verdict(d, c) \in {"upload", "items", "download", "next"}
           /\ Verdict(d, c) = "next" =>
                 Becomes(d, "next", job[d].push, [job[d].todo EXCEPT ![c] = NoRow], NoChat, job[d].items)
           /\ Verdict(d, c) # "next" =>
                 Becomes(d, Verdict(d, c), job[d].push, job[d].todo, c, job[d].items)
  <1> DEFINE p == Verdict(d, c)
             T == [job[d].todo EXCEPT ![c] = IF p = "next" THEN NoRow ELSE @]
             C == IF p = "next" THEN NoChat ELSE c
             J == [job[d] EXCEPT !.pc = p, !.chat = C, !.todo = T]
  <1>1. p \in {"upload", "items", "download", "next"}
    BY DEF AfterResolve, Verdict
  <1>2. job' = [job EXCEPT ![d] = J]
    BY ZenonT(60) DEF loadChatSession, Verdict
  <1> HIDE DEF p
  <1>3. T \in [Chat -> Row] /\ (p # "next" => T = job[d].todo) /\ C \in Chat \cup {NoChat}
    BY JobType, NoJobType DEF Job
  <1>4. p = "next" => T = [job[d].todo EXCEPT ![c] = NoRow] /\ C = NoChat
    OBVIOUS
  <1>5. p # "next" => C = c
    OBVIOUS
  <1> HIDE DEF T, C
  <1>6. J \in Job
    BY <1>1, <1>3, JobType DEF Job
  <1>7. /\ J.pc = p /\ J.push = job[d].push /\ J.todo = T /\ J.chat = C
        /\ J.items = job[d].items /\ J.last = job[d].last /\ J.started = job[d].started
    BY JobType DEF Job
  <1> HIDE DEF J
  <1>8. Becomes(d, p, job[d].push, T, C, job[d].items)
    BY <1>2, <1>6, <1>7, JobType, BecomesJob
  <1> QED
    BY <1>1, <1>3, <1>4, <1>5, <1>8 DEF p

\* After the upload, the items are next.
LEMMA UploadJob ==
    ASSUME TypeOK, NEW d \in Device, uploadChatSource(d)
    PROVE  Becomes(d, "items", job[d].push, job[d].todo, job[d].chat, job[d].items)
  <1>1. job' = [job EXCEPT ![d] = [job[d] EXCEPT !.pc = "items"]]
    BY DEF uploadChatSource
  <1>2. [job[d] EXCEPT !.pc = "items"] \in Job
    BY JobType DEF Job
  <1> QED
    BY <1>1, <1>2, JobType DEF Becomes, Job

\* The items that the source has are carried.
LEMMA ItemsJob ==
    ASSUME TypeOK, NEW d \in Device, ListChatItems(d)
    PROVE  Becomes(d, "upsert", job[d].push, job[d].todo, job[d].chat, row[From(d)][job[d].chat].items)
  <1> DEFINE n == row[From(d)][job[d].chat].items
  <1>1. job' = [job EXCEPT ![d] = [job[d] EXCEPT !.pc = "upsert", !.items = n]]
    BY DEF ListChatItems
  <1>2. n \in Nat
    <2>1. row[From(d)][job[d].chat] \in Row
      BY BusyChat DEF ListChatItems, TypeOK, From, Store
    <2> QED
      BY <2>1 DEF Row
  <1> HIDE DEF n
  <1>3. [job[d] EXCEPT !.pc = "upsert", !.items = n] \in Job
    BY <1>2, JobType DEF Job
  <1> QED
    BY <1>1, <1>2, <1>3, JobType DEF Becomes, Job, n

\* The current chat is done.
LEMMA NextJob ==
    ASSUME TypeOK, NEW d \in Device, NextChat(d)
    PROVE  Becomes(d, "next", job[d].push, [job[d].todo EXCEPT ![job[d].chat] = NoRow], NoChat, job[d].items)
  <1> DEFINE T == [job[d].todo EXCEPT ![job[d].chat] = NoRow]
             J == [job[d] EXCEPT !.pc = "next", !.chat = NoChat, !.todo = T]
  <1>1. T \in [Chat -> Row]
    BY JobType, NoJobType DEF Job
  <1>2. job' = [job EXCEPT ![d] = J]
    BY DEF NextChat
  <1> HIDE DEF T
  <1>3. J \in Job
    BY <1>1, JobType DEF Job
  <1>4. /\ J.pc = "next" /\ J.push = job[d].push /\ J.todo = T /\ J.chat = NoChat
        /\ J.items = job[d].items /\ J.last = job[d].last /\ J.started = job[d].started
    BY JobType DEF Job
  <1> HIDE DEF J
  <1> QED
    BY <1>2, <1>3, <1>4, JobType, BecomesJob DEF T

\* The row is in; a live chat that is pulled still needs its raw source.
LEMMA UpsertJob ==
    ASSUME TypeOK, NEW d \in Device, UpsertChatSessionWithItems(d)
    PROVE  IF ~job[d].push /\ job[d].todo[job[d].chat].del = NoTime
           THEN Becomes(d, "download", job[d].push, job[d].todo, job[d].chat, job[d].items)
           ELSE Becomes(d, "next", job[d].push, [job[d].todo EXCEPT ![job[d].chat] = NoRow], NoChat, job[d].items)
  <1>1. CASE ~job[d].push /\ job[d].todo[job[d].chat].del = NoTime
    <2>1. job' = [job EXCEPT ![d] = [job[d] EXCEPT !.pc = "download"]]
      BY <1>1 DEF UpsertChatSessionWithItems, shouldTransferRaw
    <2>2. [job[d] EXCEPT !.pc = "download"] \in Job
      BY JobType DEF Job
    <2> QED
      BY <1>1, <2>1, <2>2, JobType DEF Becomes, Job
  <1>2. CASE ~(~job[d].push /\ job[d].todo[job[d].chat].del = NoTime)
    <2>1. NextChat(d)
      BY <1>2 DEF UpsertChatSessionWithItems, shouldTransferRaw
    <2> QED
      BY <1>2, <2>1, NextJob
  <1> QED
    BY <1>1, <1>2

\* Pull follows push, and then the sync is done.
LEMMA EndJob ==
    ASSUME TypeOK, NEW d \in Device, endPass(d)
    PROVE  Becomes(d, IF job[d].push THEN "list" ELSE "done", FALSE, job[d].todo, job[d].chat, job[d].items)
  <1>1. CASE job[d].push
    <2>1. job' = [job EXCEPT ![d] = [job[d] EXCEPT !.pc = "list", !.push = FALSE]]
      BY <1>1 DEF endPass
    <2>2. [job[d] EXCEPT !.pc = "list", !.push = FALSE] \in Job
      BY JobType DEF Job
    <2> QED
      BY <1>1, <2>1, <2>2, JobType DEF Becomes, Job
  <1>2. CASE ~job[d].push
    <2>1. job' = [job EXCEPT ![d] = [job[d] EXCEPT !.pc = "done"]]
      BY <1>2 DEF endPass
    <2>2. [job[d] EXCEPT !.pc = "done"] \in Job
      BY JobType DEF Job
    <2> QED
      BY <1>2, <2>1, <2>2, JobType DEF Becomes, Job
  <1> QED
    BY <1>1, <1>2

\* The job of d is given up, or not begun.
LEMMA NoJobStep ==
    ASSUME TypeOK, NEW d \in Device, job' = [job EXCEPT ![d] = NoJob]
    PROVE  job' \in [Device -> Job] /\ job'[d] = NoJob /\ \A e \in Device \ {d} : job'[e] = job[e]
  BY JobType, NoJobType

\* The fields of no job.
LEMMA NoJobFields ==
    /\ NoJob.pc = "idle" /\ NoJob.push = TRUE /\ NoJob.last = NoTime /\ NoJob.started = NoTime
    /\ NoJob.chat = NoChat /\ \A c \in Chat : NoJob.todo[c] = NoRow
  BY DEF NoJob

\* A sync begins with the push pass, at the cursor of the device.
LEMMA BeginJob ==
    ASSUME TypeOK, NEW d \in Device, Begin(d)
    PROVE  /\ job' \in [Device -> Job]
           /\ \A e \in Device \ {d} : job'[e] = job[e]
           /\ job'[d].pc = "list" /\ job'[d].push = TRUE /\ job'[d].chat = NoChat
           /\ job'[d].last = cursor[d] /\ job'[d].started = clock
           /\ \A c \in Chat : job'[d].todo[c] = NoRow
  <1> DEFINE J == [NoJob EXCEPT !.pc = "list", !.last = cursor[d], !.started = clock]
  <1>1. J \in Job
    BY NoJobType DEF Job, TypeOK
  <1>2. /\ J.pc = "list" /\ J.push = TRUE /\ J.chat = NoChat /\ J.last = cursor[d] /\ J.started = clock
        /\ \A c \in Chat : J.todo[c] = NoRow
    BY DEF NoJob
  <1>3. job' = [job EXCEPT ![d] = J]
    BY DEF Begin
  <1> HIDE DEF J
  <1> QED
    BY <1>1, <1>2, <1>3, JobType

-----------------------------------------------------------------------------
(* Types *)

\* The initial state is well typed.
LEMMA TypeInit == Init => TypeOK
  BY NoJobType, NoJobFields DEF Init, TypeOK, BusyWithListed, Store, NoTime

\* A step of one job leaves the other jobs as they are.
LEMMA BusyStep ==
    ASSUME TypeOK, NEW d \in Device, job' \in [Device -> Job], BusyWithListed(job'[d]),
           \A e \in Device \ {d} : job'[e] = job[e]
    PROVE  (job \in [Device -> Job] /\ \A e \in Device : BusyWithListed(job[e]))'
  BY DEF TypeOK, BusyWithListed

\* Storing a row.
LEMMA PutRow ==
    ASSUME TypeOK, NEW s \in Store, NEW c \in Chat, NEW r \in Row, row' = [row EXCEPT ![s][c] = r]
    PROVE  /\ row' \in [Store -> [Chat -> Row]]
           /\ \A t \in Store, e \in Chat : row'[t][e] = IF t = s /\ e = c THEN r ELSE row[t][e]
  BY DEF TypeOK

\* The row that a sync stores.
LEMMA UpsertRow ==
    ASSUME TypeOK, NEW d \in Device, UpsertChatSessionWithItems(d)
    PROVE  LET c == job[d].chat
               r == job[d].todo[c]
               n == [upd |-> autoUpdateUpdatedAt(row[Target(d)][c].upd, r), del |-> r.del, items |-> job[d].items]
           IN  /\ n \in Row /\ Target(d) \in Store
               /\ row' = [row EXCEPT ![Target(d)][c] = n]
  <1> DEFINE c == job[d].chat
             r == job[d].todo[c]
  <1>1. c \in Chat /\ r \in Row /\ Target(d) \in Store
    BY BusyChat DEF UpsertChatSessionWithItems, Target, Store
  <1>2. r.upd \in Nat /\ r.del \in Nat /\ job[d].items \in Nat /\ clock \in Nat
    BY <1>1, JobType DEF Row, Job, TypeOK
  <1>3. row' = [row EXCEPT ![Target(d)][c] =
                   [upd |-> autoUpdateUpdatedAt(row[Target(d)][c].upd, r), del |-> r.del, items |-> job[d].items]]
    BY DEF UpsertChatSessionWithItems
  <1> QED
    BY <1>1, <1>2, <1>3 DEF Row, autoUpdateUpdatedAt

\* What the commands of users do: a row dated now.
LEMMA ImportRow ==
    ASSUME TypeOK, NEW d \in Device, NEW c \in Chat, Import(d, c)
    PROVE  \E r \in Row : r.upd = clock /\ r.del = NoTime /\ r.items = imports' /\ row' = [row EXCEPT ![d][c] = r]
  <1>1. [upd |-> clock, del |-> NoTime, items |-> imports'] \in Row
    BY DEF Import, TypeOK, Row, NoTime
  <1> QED
    BY <1>1 DEF Import

\* Delete and restore keep the items.
LEMMA ToggleRow ==
    ASSUME TypeOK, NEW d \in Device, NEW c \in Chat, NEW del \in Nat, Toggle(d, c, del)
    PROVE  \E r \in Row : /\ r.upd = clock /\ r.del = del /\ r.items = row[d][c].items
                          /\ row' = [row EXCEPT ![d][c] = r]
  <1>1. row[d][c] \in Row /\ clock \in Nat
    BY DEF TypeOK, Store
  <1>2. [row[d][c] EXCEPT !.upd = clock, !.del = del] \in Row
    BY <1>1 DEF Row
  <1>3. row' = [row EXCEPT ![d][c] = [row[d][c] EXCEPT !.upd = clock, !.del = del]]
    BY <1>1 DEF Toggle, Row
  <1> QED
    BY <1>1, <1>2, <1>3 DEF Row

\* Delete and restore date the deletion by now, by an earlier instant, or not at all.
LEMMA DeleteToggles ==
    ASSUME TypeOK, NEW d \in Device, NEW c \in Chat, SoftDeleteChatSession(d, c) \/ RestoreChatSession(d, c)
    PROVE  /\ row[d][c] # NoRow
           /\ \E del \in {NoTime, clock, row[d][c].del} : del \in Nat /\ Toggle(d, c, del)
  <1>1. row[d][c] \in Row /\ clock \in Nat /\ row[d][c].del \in Nat
    BY DEF TypeOK, Store, Row
  <1> QED
    BY <1>1 DEF SoftDeleteChatSession, RestoreChatSession, NoTime, NoRow

\* Every step keeps the types.
LEMMA TypeStep == TypeOK /\ [Next]_vars => TypeOK'
  <1> SUFFICES ASSUME TypeOK, [Next]_vars PROVE TypeOK'
    OBVIOUS
  <1> DEFINE Jobs == job \in [Device -> Job] /\ \A e \in Device : BusyWithListed(job[e])
  <1>1. ASSUME NEW d \in Device, Begin(d) PROVE TypeOK'
    <2>1. Jobs'
      BY <1>1, BeginJob, BusyStep DEF BusyWithListed
    <2> QED
      BY <1>1, <2>1 DEF Begin, TypeOK, store, bounds, history
  <1>2. ASSUME NEW d \in Device, listChanged(d) PROVE TypeOK'
    <2>1. job[d].pc = "list" /\ job[d].chat = NoChat
      BY <1>2 DEF listChanged, TypeOK, BusyWithListed
    <2>2. Jobs'
      BY <1>2, <2>1, ListJob, BusyStep DEF Becomes, BusyWithListed
    <2> QED
      BY <1>2, <2>2 DEF listChanged, TypeOK, store, bounds, history
  <1>3. ASSUME NEW d \in Device, NEW c \in Chat, loadChatSession(d, c) PROVE TypeOK'
    <2>0. job[d].todo[c] # NoRow /\ c # NoChat
      BY <1>3, ChatSyncAssumption DEF loadChatSession
    <2>1. BusyWithListed(job'[d])
      BY <1>3, <2>0, LoadJob DEF Becomes, BusyWithListed
    <2>2. Jobs'
      BY <1>3, <2>1, LoadJob, BusyStep DEF Becomes
    <2> QED
      BY <1>3, <2>2 DEF loadChatSession, TypeOK, store, bounds, history
  <1>4. ASSUME NEW d \in Device, job' = [job EXCEPT ![d] = NoJob] PROVE Jobs'
    BY <1>4, NoJobStep, NoJobFields, BusyStep DEF BusyWithListed
  <1>5. ASSUME NEW d \in Device, NEW c \in Chat, refuse(d, c) PROVE TypeOK'
    BY <1>4, <1>5 DEF refuse, TypeOK, store, bounds, history
  <1>6. ASSUME NEW d \in Device, uploadChatSource(d) PROVE TypeOK'
    <2>1. BusyWithListed(job[d]) /\ job[d].pc = "upload" /\ job[d].chat \in Chat
      BY <1>6, BusyChat DEF uploadChatSource, TypeOK
    <2>2. Jobs'
      BY <1>6, <2>1, UploadJob, BusyStep DEF Becomes, BusyWithListed
    <2>3. obj' \in [Chat -> Nat]
      BY <1>6, <2>1 DEF uploadChatSource, TypeOK
    <2>4. missing' \subseteq Chat /\ ahead' \subseteq Chat
      BY <1>6, <2>1 DEF uploadChatSource, TypeOK
    <2> QED
      BY <1>6, <2>2, <2>3, <2>4 DEF uploadChatSource, TypeOK, bounds
  <1>7. ASSUME NEW d \in Device, ListChatItems(d) PROVE TypeOK'
    <2>1. BusyWithListed(job[d]) /\ job[d].pc = "items"
      BY <1>7 DEF ListChatItems, TypeOK
    <2>2. Jobs'
      BY <1>7, <2>1, ItemsJob, BusyStep DEF Becomes, BusyWithListed
    <2> QED
      BY <1>7, <2>2 DEF ListChatItems, TypeOK, store, bounds, history
  <1>8. ASSUME NEW d \in Device, UpsertChatSessionWithItems(d) PROVE TypeOK'
    <2>1. row' \in [Store -> [Chat -> Row]]
      BY <1>8, UpsertRow, PutRow, BusyChat DEF UpsertChatSessionWithItems
    <2>2. late' \subseteq Chat /\ torn' \subseteq Chat /\ ahead' \subseteq Chat
      BY <1>8, BusyChat DEF UpsertChatSessionWithItems, TypeOK
    <2>3. BusyWithListed(job[d]) /\ job[d].pc = "upsert"
      BY <1>8 DEF UpsertChatSessionWithItems, TypeOK
    <2>4. BusyWithListed(job'[d])
      BY <1>8, <2>3, UpsertJob DEF Becomes, BusyWithListed
    <2>5. Jobs'
      BY <1>8, <2>4, UpsertJob, BusyStep DEF Becomes
    <2> QED
      BY SMTT(40), <1>8, <2>1, <2>2, <2>5 DEF UpsertChatSessionWithItems, TypeOK, bounds
  <1>9. ASSUME NEW d \in Device, downloadChatSource(d) PROVE TypeOK'
    <2>1. raw' \in [Device -> [Chat -> Nat]] /\ torn' \subseteq Chat
      BY <1>9, BusyChat DEF downloadChatSource, TypeOK
    <2>2. NextChat(d)
      BY <1>9 DEF downloadChatSource
    <2>3. Jobs'
      BY <2>2, NextJob, BusyStep DEF Becomes, BusyWithListed
    <2> QED
      BY <1>9, <2>1, <2>3 DEF downloadChatSource, TypeOK, bounds
  <1>10. ASSUME NEW d \in Device, endPass(d) PROVE TypeOK'
    <2>1. cursor' \in [Device -> Nat]
      BY <1>10, JobType DEF endPass, TypeOK, Job
    <2>2. BusyWithListed(job[d]) /\ job[d].pc = "next"
      BY <1>10 DEF endPass, TypeOK
    <2>3. Jobs'
      BY <1>10, <2>2, EndJob, BusyStep DEF Becomes, BusyWithListed
    <2> QED
      BY <1>10, <2>1, <2>3 DEF endPass, TypeOK, store, bounds, history
  <1>11. ASSUME NEW d \in Device, Release(d) PROVE TypeOK'
    BY <1>4, <1>11 DEF Release, TypeOK, store, bounds, history
  <1>12. ASSUME NEW d \in Device, Fail(d) PROVE TypeOK'
    <2>1. torn' \subseteq Chat
      BY <1>12, BusyChat DEF Fail, TypeOK
    <2>2. faults' \in Nat /\ job' = [job EXCEPT ![d] = NoJob]
      BY <1>12 DEF Fail, TypeOK
    <2>3. Jobs'
      BY <1>4, <2>2
    <2> QED
      BY <1>12, <2>1, <2>2, <2>3 DEF Fail, TypeOK, store
  <1>13. ASSUME NEW d \in Device, NEW c \in Chat, Import(d, c) PROVE TypeOK'
    <2>1. PICK r \in Row : row' = [row EXCEPT ![d][c] = r]
      BY <1>13, ImportRow
    <2>2. row' \in [Store -> [Chat -> Row]]
      BY <2>1, PutRow DEF Store
    <2>3. imports' \in Nat /\ faults' \in Nat
      BY <1>13 DEF Import, TypeOK
    <2>4. raw' \in [Device -> [Chat -> Nat]]
      <3>1. raw' = [raw EXCEPT ![d][c] = imports'] \/ raw' = raw
        BY <1>13 DEF Import
      <3>2. raw \in [Device -> [Chat -> Nat]]
        BY DEF TypeOK
      <3>3. [raw EXCEPT ![d][c] = imports'] \in [Device -> [Chat -> Nat]]
        BY <2>3, <3>2
      <3> QED
        BY <3>1, <3>2, <3>3
    <2>5. torn' \subseteq Chat
      BY <1>13 DEF Import, TypeOK
    <2> QED
      BY <1>13, <2>2, <2>3, <2>4, <2>5 DEF Import, TypeOK, Spend
  <1>14. ASSUME NEW d \in Device, NEW c \in Chat, SoftDeleteChatSession(d, c) \/ RestoreChatSession(d, c)
         PROVE  TypeOK'
    <2>1. PICK del \in Nat : Toggle(d, c, del)
      BY <1>14, DeleteToggles
    <2>2. PICK r \in Row : row' = [row EXCEPT ![d][c] = r]
      BY <2>1, ToggleRow
    <2>3. row' \in [Store -> [Chat -> Row]]
      BY <2>2, PutRow DEF Store
    <2> QED
      BY <2>1, <2>3 DEF Toggle, TypeOK, Spend, history
  <1>15. ASSUME Tick PROVE TypeOK'
    BY <1>15 DEF Tick, TypeOK, Spend, store, bounds, history
  <1>16. CASE UNCHANGED vars
    BY <1>16 DEF vars, TypeOK, store, bounds, history
  <1> QED
    BY <1>1, <1>2, <1>3, <1>5, <1>6, <1>7, <1>8, <1>9, <1>10, <1>11, <1>12, <1>13, <1>14, <1>15, <1>16
       DEF Next, Sync, User

\* A sync of chats keeps to its state machine: every store holds rows, and a sync
\* is busy with a listed chat exactly between its first and last call for it.
THEOREM TypeCorrect == Spec => []TypeOK
  BY TypeInit, TypeStep, PTL DEF Spec

-----------------------------------------------------------------------------
(* Facts that the steps below share *)

\* What is stored, and counted, is a number.
LEMMA Numbers ==
    ASSUME TypeOK
    PROVE  /\ Device \subseteq Store /\ Cloud \in Store /\ clock \in Nat
           /\ \A s \in Store, c \in Chat : /\ row[s][c] \in Row
                                           /\ row[s][c].upd \in Nat /\ row[s][c].del \in Nat /\ row[s][c].items \in Nat
           /\ \A d \in Device : /\ job[d].last \in Nat /\ job[d].started \in Nat /\ cursor[d] \in Nat
                                /\ job[d].push \in BOOLEAN /\ From(d) \in Store /\ Target(d) \in Store
                                /\ \A c \in Chat : raw[d][c] \in Nat
           /\ \A c \in Chat : obj[c] \in Nat
  <1>1. Device \subseteq Store /\ Cloud \in Store /\ clock \in Nat
    BY DEF Store, TypeOK
  <1>2. \A s \in Store, c \in Chat : row[s][c] \in Row
    BY DEF TypeOK
  <1>3. \A r \in Row : r.upd \in Nat /\ r.del \in Nat /\ r.items \in Nat
    BY DEF Row
  <1>4. \A d \in Device : job[d].last \in Nat /\ job[d].started \in Nat /\ job[d].push \in BOOLEAN
    BY JobType DEF Job
  <1>5. \A d \in Device : cursor[d] \in Nat /\ \A c \in Chat : raw[d][c] \in Nat
    BY DEF TypeOK
  <1>6. \A d \in Device : From(d) \in Store /\ Target(d) \in Store
    BY <1>1 DEF From, Target
  <1>7. \A c \in Chat : obj[c] \in Nat
    BY DEF TypeOK
  <1> QED
    BY <1>1, <1>2, <1>3, <1>4, <1>5, <1>6, <1>7

\* The fields of no row.
LEMMA NoRowFields == NoRow.upd = 0 /\ NoRow.del = 0 /\ NoRow.items = 0 /\ NoTime = 0
  BY DEF NoRow, NoTime

\* While a device syncs, no other does.
LEMMA OthersIdle ==
    ASSUME OneSync, ListingCurrent, NEW d \in Device, job[d].pc # "idle"
    PROVE  \A e \in Device \ {d} : job[e].pc = "idle" /\ job[e] = NoJob
  BY DEF OneSync, ListingCurrent

\* The listing skips what the cursor hides.
LEMMA ListedFacts ==
    ASSUME TypeOK, NEW d \in Device, NEW c \in Chat
    PROVE  /\ Listed(d, c) = NoRow => row[From(d)][c] = NoRow \/ row[From(d)][c].upd < job[d].last
           /\ Listed(d, c) # NoRow => Listed(d, c) = row[From(d)][c] /\ row[From(d)][c].upd >= job[d].last
  <1> DEFINE r == row[From(d)][c]
  <1>1. r.upd \in Nat /\ job[d].last \in Nat
    BY Numbers
  <1>2. truncateToMillisecond(r.upd) = r.upd /\ truncateToMillisecond(job[d].last) = job[d].last
    BY <1>1, TruncIdentity
  <1>3. UpdatedSince(r, job[d].last) <=> (job[d].last # 0 => r.upd >= job[d].last)
    BY <1>2, NoRowFields DEF UpdatedSince
  <1>4. Listed(d, c) = IF r # NoRow /\ UpdatedSince(r, job[d].last) THEN r ELSE NoRow
    BY DEF Listed
  <1>5. job[d].last = 0 => r.upd >= job[d].last
    BY <1>1
  <1> HIDE DEF r
  <1>6. ~UpdatedSince(r, job[d].last) => r.upd < job[d].last
    BY <1>1, <1>3
  <1>7. UpdatedSince(r, job[d].last) => r.upd >= job[d].last
    BY <1>3, <1>5
  <1> QED
    BY <1>4, <1>6, <1>7 DEF r

\* What the verdict on a listed chat says about its two rows.
LEMMA VerdictFacts ==
    ASSUME Rows, NEW d \in Device, NEW c \in Chat, job[d].todo[c] # NoRow
    PROVE  LET f == row[From(d)][c]
               t == row[Target(d)][c]
               v == Verdict(d, c)
           IN  /\ v \in {"upload", "items"} => t.upd < f.upd
               /\ v = "upload" => job[d].push /\ f.del = NoTime
               /\ v = "items" /\ job[d].push => f.del # NoTime
               /\ v = "download" => ~job[d].push /\ f = t /\ f.del = NoTime
               /\ v = "next" => f.upd <= t.upd /\ (~job[d].push => f.upd < t.upd \/ (f = t /\ f.del # NoTime))
               /\ v \in {"upload", "items", "download", "next"}
  <1> DEFINE f == row[From(d)][c]
             t == row[Target(d)][c]
             w == IF t = NoRow THEN "source" ELSE resolveChatWinnerForDirection(d, f, t)
  <1>1. job[d].todo[c] = f /\ f # NoRow
    BY DEF Rows, ListingCurrent
  <1>2. /\ f \in Row /\ t \in Row /\ f.upd \in Nat /\ t.upd \in Nat /\ job[d].push \in BOOLEAN
        /\ From(d) \in Store /\ Target(d) \in Store
    BY Numbers DEF Rows
  <1>3. /\ f.del <= f.upd /\ t.del <= t.upd /\ f.upd # 0
        /\ f.upd = t.upd => f = t
    BY <1>1, <1>2, NoRowFields DEF Rows, Dated, OneVersion
  <1>4. w = IF f.upd > t.upd THEN "source" ELSE IF f.upd < t.upd THEN "target" ELSE "none"
    <2>1. CASE t = NoRow
      BY <1>2, <1>3, <2>1, NoRowFields
    <2>2. CASE t # NoRow
      <3>1. resolveChatWinnerForDirection(d, f, t) =
              IF f.upd > t.upd THEN "source" ELSE IF f.upd < t.upd THEN "target" ELSE "none"
        BY <1>2, <1>3, Direction
      <3> QED
        BY <2>2, <3>1
    <2> QED
      BY <2>1, <2>2
  <1>5. Verdict(d, c) = AfterResolve(d, f, w)
    BY <1>1 DEF Verdict
  <1> HIDE DEF w, f, t
  <1>6. CASE f.upd > t.upd
    <2>1. w = "source"
      BY <1>4, <1>6
    <2> QED
      BY <1>2, <1>5, <1>6, <2>1 DEF AfterResolve, shouldTransferRaw, f, t
  <1>7. CASE f.upd < t.upd
    <2>1. w = "target"
      BY <1>2, <1>4, <1>7
    <2> QED
      BY <1>2, <1>5, <1>7, <2>1 DEF AfterResolve, shouldTransferRaw, f, t
  <1>8. CASE f.upd = t.upd
    <2>1. w = "none" /\ f = t
      BY <1>2, <1>3, <1>4, <1>8
    <2> QED
      BY <1>2, <1>5, <1>8, <2>1 DEF AfterResolve, shouldTransferRaw, f, t
  <1> QED
    BY <1>2, <1>6, <1>7, <1>8

\* A sync stores the row that it read, as it is.
LEMMA UpsertCopies ==
    ASSUME Rows, NEW d \in Device, UpsertChatSessionWithItems(d)
    PROVE  /\ job[d].chat \in Chat /\ job[d].todo[job[d].chat] = row[From(d)][job[d].chat]
           /\ \A s \in Store, e \in Chat :
                 row'[s][e] = IF s = Target(d) /\ e = job[d].chat THEN row[From(d)][e] ELSE row[s][e]
  <1> DEFINE c == job[d].chat
             f == row[From(d)][c]
             n == [upd |-> autoUpdateUpdatedAt(row[Target(d)][c].upd, f), del |-> f.del, items |-> job[d].items]
  <1>1. c \in Chat /\ job[d].todo[c] # NoRow /\ job[d].pc = "upsert"
    BY BusyChat DEF UpsertChatSessionWithItems, Rows
  <1>2. job[d].todo[c] = f
    BY <1>1 DEF Rows, ListingCurrent
  <1>3. f \in Row /\ f.upd \in Nat /\ row[Target(d)][c].upd \in Nat
    BY <1>1, Numbers DEF Rows
  <1>4. row[Target(d)][c].upd < f.upd /\ job[d].items = f.items
    BY <1>1, <1>2 DEF Rows, Carried
  <1>5. n.upd = f.upd
    BY <1>3, <1>4 DEF autoUpdateUpdatedAt
  <1>6. n = f
    BY <1>3, <1>4, <1>5 DEF Row
  <1>7. Target(d) \in Store /\ row' = [row EXCEPT ![Target(d)][c] = n]
    BY <1>2, UpsertRow DEF Rows
  <1>8. \A s \in Store, e \in Chat : row'[s][e] = IF s = Target(d) /\ e = c THEN f ELSE row[s][e]
    BY <1>1, <1>3, <1>6, <1>7, PutRow DEF Rows
  <1> QED
    BY <1>1, <1>2, <1>8

-----------------------------------------------------------------------------
(* Every step keeps the invariant *)

\* The invariant holds at first.
LEMMA InitIInv == Init => IInv
  <1> SUFFICES ASSUME Init PROVE IInv
    OBVIOUS
  <1>1. /\ \A d \in Device : job[d] = NoJob /\ job[d].pc = "idle" /\ cursor[d] = 0 /\ job[d].started = 0
        /\ \A d \in Device, c \in Chat : job[d].todo[c] = NoRow
        /\ \A s \in Store, c \in Chat : row[s][c] = NoRow
        /\ Cloud \in Store /\ Device \subseteq Store /\ clock = 1
    BY NoJobFields, NoRowFields DEF Init, Store
  <1>2. Rows
    BY <1>1, NoRowFields, TypeInit DEF Rows, OneSync, Dated, OneVersion, ListingCurrent, Carried
  <1>3. Progress
    BY <1>1, NoRowFields DEF Progress, Settled, CursorReaches, Agree
  <1>4. Sources
    BY <1>1, NoRowFields DEF Sources, CloudRowHasObject, ObjectFirst, DeviceRaw, CloudRaw
  <1> QED
    BY <1>2, <1>3, <1>4 DEF IInv

\* A sync begins.
LEMMA BeginStep ==
    ASSUME IInv, TypeOK', NEW d \in Device, Begin(d)
    PROVE  IInv'
  <1>1. /\ \A e \in Device : job[e].pc = "idle"
        /\ UNCHANGED <<sourceOf, row, raw, obj, cursor, clock, late, missing, torn, ahead>>
    BY DEF Begin, store, history
  <1>2. /\ \A e \in Device \ {d} : job'[e] = job[e]
        /\ job'[d].pc = "list" /\ job'[d].push = TRUE /\ job'[d].chat = NoChat
        /\ job'[d].last = cursor[d] /\ job'[d].started = clock
        /\ \A c \in Chat : job'[d].todo[c] = NoRow
    BY BeginJob DEF IInv, Rows
  <1>3. OneSync' /\ Dated' /\ OneVersion'
    BY <1>1, <1>2 DEF IInv, Rows, OneSync, Dated, OneVersion
  <1>4. ListingCurrent'
    BY <1>1, <1>2, Numbers DEF IInv, Rows, ListingCurrent, From
  <1>5. Carried'
    BY <1>1, <1>2 DEF Carried
  <1>6. Progress'
    BY <1>1, <1>2 DEF IInv, Progress, Settled, CursorReaches, Agree
  <1>7. Sources'
    BY <1>1, <1>2 DEF IInv, Sources, CloudRowHasObject, ObjectFirst, DeviceRaw, CloudRaw
  <1> QED
    BY <1>3, <1>4, <1>5, <1>6, <1>7 DEF IInv, Rows

\* A listing: what it leaves out is settled, because the cursor reaches all that is not.
LEMMA ListStep ==
    ASSUME IInv, TypeOK', NEW d \in Device, listChanged(d)
    PROVE  IInv'
  <1>1. /\ job[d].pc = "list"
        /\ UNCHANGED <<sourceOf, row, raw, obj, cursor, clock, late, missing, torn, ahead>>
    BY DEF listChanged, store, history
  <1>2. \A e \in Device \ {d} : job[e].pc = "idle" /\ job[e] = NoJob
    BY <1>1, OthersIdle DEF IInv, Rows
  <1>3. /\ \A e \in Device \ {d} : job'[e] = job[e]
        /\ job'[d].pc = "next" /\ job'[d].push = job[d].push /\ job'[d].chat = job[d].chat
        /\ job'[d].last = job[d].last /\ job'[d].started = job[d].started
        /\ \A c \in Chat : job'[d].todo[c] = Listed(d, c)
    BY ListJob DEF IInv, Rows, Becomes
  <1>4. \A c \in Chat :
           /\ Listed(d, c) = NoRow => row[From(d)][c] = NoRow \/ row[From(d)][c].upd < job[d].last
           /\ Listed(d, c) # NoRow => Listed(d, c) = row[From(d)][c] /\ row[From(d)][c].upd >= job[d].last
    BY ListedFacts DEF IInv, Rows
  <1>5. OneSync' /\ Dated' /\ OneVersion'
    BY <1>1, <1>2, <1>3 DEF IInv, Rows, OneSync, Dated, OneVersion
  <1>6. ListingCurrent'
    BY <1>1, <1>2, <1>3, <1>4, NoJobFields DEF IInv, Rows, ListingCurrent, From
  <1>7. Carried'
    BY <1>1, <1>2, <1>3 DEF Carried
  <1>8. Settled'
    <2>1. ASSUME NEW c \in Chat, job[d].push, Listed(d, c) = NoRow PROVE Pushed(d, c)'
      BY <1>1, <1>3, <1>4, <2>1, Numbers, NoRowFields DEF IInv, Rows, Pushed, From
    <2>2. ASSUME NEW c \in Chat, ~job[d].push PROVE Pushed(d, c)'
      BY <1>1, <1>3, <2>2 DEF IInv, Progress, Settled, Pushed
    <2>3. ASSUME NEW c \in Chat, ~job[d].push, Listed(d, c) = NoRow, c \notin late PROVE Agree(d, c)'
      <3>1. Pushed(d, c) /\ job[d].last = cursor[d]
        BY <1>1, <2>3 DEF IInv, Rows, ListingCurrent, Progress, Settled
      <3>2. row[Cloud][c] = NoRow \/ row[Cloud][c].upd < job[d].last
        BY <1>4, <2>3 DEF From
      <3>3. row[d][c].upd \in Nat /\ row[Cloud][c].upd \in Nat /\ job[d].last \in Nat /\ d \in Store
        BY Numbers DEF IInv, Rows
      <3>4. Agree(d, c) \/ row[d][c].upd >= cursor[d] \/ row[Cloud][c].upd >= cursor[d]
        BY <2>3 DEF IInv, Progress, CursorReaches
      <3>5. row[d][c] = NoRow \/ row[d][c].upd # 0
        BY <3>3, NoRowFields DEF IInv, Rows, Dated
      <3>6. Agree(d, c)
        <4>1. CASE row[Cloud][c].upd < job[d].last
          BY <3>1, <3>3, <3>4, <4>1 DEF Pushed
        <4>2. CASE row[Cloud][c] = NoRow /\ ~(row[Cloud][c].upd < job[d].last)
          <5>1. row[d][c].upd = 0
            BY <3>1, <3>3, <4>2, NoRowFields DEF Pushed
          <5> QED
            BY <3>5, <4>2, <5>1 DEF Agree
        <4> QED
          BY <3>2, <4>1, <4>2
      <3> QED
        BY <1>1, <3>6 DEF Agree
    <2> QED
      BY <1>2, <1>3, <2>1, <2>2, <2>3, <1>1 DEF Settled
  <1>9. CursorReaches'
    BY <1>1 DEF IInv, Progress, CursorReaches, Agree
  <1>10. Sources'
    BY <1>1, <1>2, <1>3 DEF IInv, Sources, CloudRowHasObject, ObjectFirst, DeviceRaw, CloudRaw
  <1> QED
    BY <1>5, <1>6, <1>7, <1>8, <1>9, <1>10 DEF IInv, Rows, Progress

\* A chat is taken up, or passed over because nothing is to be done for it.
LEMMA LoadStep ==
    ASSUME IInv, TypeOK', NEW d \in Device, NEW c \in Chat, loadChatSession(d, c)
    PROVE  IInv'
  <1>1. /\ job[d].pc = "next" /\ job[d].todo[c] # NoRow
        /\ UNCHANGED <<sourceOf, row, raw, obj, cursor, clock, late, missing, torn, ahead>>
    BY DEF loadChatSession, store, history
  <1>2. \A e \in Device \ {d} : job[e].pc = "idle" /\ job[e] = NoJob
    BY <1>1, OthersIdle DEF IInv, Rows
  <1> DEFINE v == Verdict(d, c)
             f == row[From(d)][c]
             t == row[Target(d)][c]
  <1>3. /\ v \in {"upload", "items"} => t.upd < f.upd
        /\ v = "upload" => job[d].push /\ f.del = NoTime
        /\ v = "items" /\ job[d].push => f.del # NoTime
        /\ v = "download" => ~job[d].push /\ f = t /\ f.del = NoTime
        /\ v = "next" => f.upd <= t.upd /\ (~job[d].push => f.upd < t.upd \/ (f = t /\ f.del # NoTime))
        /\ v \in {"upload", "items", "download", "next"}
    BY <1>1, VerdictFacts DEF IInv
  <1>4. job[d].todo[c] = f /\ f.upd >= job[d].last
    BY <1>1 DEF IInv, Rows, ListingCurrent
  <1>5. job[d].todo \in [Chat -> Row]
    BY JobType DEF IInv, Rows, Job
  <1>6. /\ \A e \in Device \ {d} : job'[e] = job[e]
        /\ job'[d].pc = v /\ job'[d].push = job[d].push /\ (v # "next" => job'[d].chat = c)
        /\ job'[d].last = job[d].last /\ job'[d].started = job[d].started
        /\ \A e \in Chat : job'[d].todo[e] = IF e = c /\ v = "next" THEN NoRow ELSE job[d].todo[e]
    <2>1. CASE v = "next"
      <3>1. Becomes(d, "next", job[d].push, [job[d].todo EXCEPT ![c] = NoRow], NoChat, job[d].items)
        BY <2>1, LoadJob DEF IInv, Rows
      <3> QED
        BY <1>5, <2>1, <3>1 DEF Becomes
    <2>2. CASE v # "next"
      <3>1. Becomes(d, v, job[d].push, job[d].todo, c, job[d].items)
        BY <2>2, LoadJob DEF IInv, Rows
      <3> QED
        BY <2>2, <3>1 DEF Becomes
    <2> QED
      BY <2>1, <2>2
  <1> HIDE DEF v
  <1>7. OneSync' /\ Dated' /\ OneVersion'
    BY <1>1, <1>2, <1>6 DEF IInv, Rows, OneSync, Dated, OneVersion
  <1>8. ListingCurrent'
    BY <1>1, <1>2, <1>3, <1>6, NoJobFields DEF IInv, Rows, ListingCurrent, From
  <1>9. Carried'
    BY <1>1, <1>2, <1>3, <1>4, <1>6 DEF Carried, From, Target
  <1>10. Settled'
    <2>1. ASSUME NEW e \in Chat, e # c \/ v # "next"
          PROVE  /\ job'[d].todo[e] = job[d].todo[e]
                 /\ Pushed(d, e) <=> Pushed(d, e)'
                 /\ Agree(d, e) <=> Agree(d, e)'
      BY <1>1, <1>6, <2>1 DEF Pushed, Agree
    <2>2. ASSUME v = "next", job[d].push PROVE Pushed(d, c)'
      BY <1>1, <1>3, <1>6, <2>2 DEF Pushed, From, Target
    <2>3. ASSUME ~job[d].push, NEW e \in Chat PROVE Pushed(d, e) /\ Pushed(d, e)'
      BY <1>1, <1>6, <2>3 DEF IInv, Progress, Settled, Pushed
    <2>4. ASSUME v = "next", ~job[d].push PROVE Agree(d, c)'
      <3>1. f = row[Cloud][c] /\ t = row[d][c]
        BY <2>4 DEF From, Target
      <3>2. row[d][c].upd \in Nat /\ row[Cloud][c].upd \in Nat /\ job[d].last \in Nat
        BY Numbers DEF IInv, Rows
      <3>3. ~(f.upd < t.upd)
        BY <1>4, <2>3, <2>4, <3>1, <3>2 DEF Pushed
      <3>4. row[d][c] = row[Cloud][c] /\ row[d][c].del # NoTime
        BY <1>3, <2>4, <3>1, <3>3
      <3> QED
        BY <1>1, <3>4 DEF Agree
    <2> QED
      BY <1>1, <1>2, <1>3, <1>6, <2>1, <2>2, <2>3, <2>4 DEF IInv, Progress, Settled
  <1>11. CursorReaches'
    BY <1>1 DEF IInv, Progress, CursorReaches, Agree
  <1>12. Sources'
    <2>1. ObjectFirst'
      BY <1>1, <1>2, <1>3, <1>4, <1>6 DEF ObjectFirst
    <2>2. DeviceRaw'
      BY <1>1, <1>2, <1>6 DEF IInv, Sources, DeviceRaw
    <2> QED
      BY <1>1, <2>1, <2>2 DEF IInv, Sources, CloudRowHasObject, CloudRaw
  <1> QED
    BY <1>7, <1>8, <1>9, <1>10, <1>11, <1>12 DEF IInv, Rows, Progress

\* The raw source goes up before the row.
LEMMA UploadStep ==
    ASSUME IInv, TypeOK', NEW d \in Device, uploadChatSource(d)
    PROVE  IInv'
  <1>0. PICK c \in Chat : c = job[d].chat
    BY BusyChat DEF uploadChatSource, IInv, Rows
  <1>1. /\ job[d].pc = "upload" /\ job[d].push /\ job[d].todo[c].del = NoTime
        /\ UNCHANGED <<sourceOf, row, raw, cursor, clock, late, torn>>
    BY <1>0 DEF uploadChatSource, IInv, Rows, Carried
  <1>3. \A e \in Device \ {d} : job[e].pc = "idle" /\ job[e] = NoJob
    BY <1>1, OthersIdle DEF IInv, Rows
  <1>4. /\ \A e \in Device \ {d} : job'[e] = job[e]
        /\ job'[d].pc = "items" /\ job'[d].push = job[d].push /\ job'[d].push = TRUE /\ job'[d].chat = c
        /\ job'[d].last = job[d].last /\ job'[d].started = job[d].started /\ job'[d].todo = job[d].todo
    BY <1>0, <1>1, UploadJob, Numbers DEF IInv, Rows, Becomes
  <1>5. \/ /\ raw[d][c] # 0 /\ ahead' = ahead \cup {c} /\ missing' = missing
           /\ \A e \in Chat : obj'[e] = IF e = c THEN raw[d][c] ELSE obj[e]
        \/ /\ missing' = missing \cup {c} /\ obj' = obj /\ ahead' = ahead
    BY <1>0 DEF uploadChatSource, IInv, Rows, TypeOK
  <1>6. OneSync' /\ Dated' /\ OneVersion'
    BY <1>1, <1>3, <1>4 DEF IInv, Rows, OneSync, Dated, OneVersion
  <1>7. ListingCurrent'
    <2>1. \A e \in Device : From(e)' = From(e)
      BY <1>3, <1>4 DEF From
    <2> QED
      BY <1>1, <1>3, <1>4, <2>1, NoJobFields DEF IInv, Rows, ListingCurrent
  <1>8. Carried'
    <2>1. From(d)' = From(d) /\ Target(d)' = Target(d)
      BY <1>4 DEF From, Target
    <2>2. row[Target(d)][c].upd < job[d].todo[c].upd
      BY <1>0, <1>1 DEF IInv, Rows, Carried
    <2> QED
      BY <1>1, <1>3, <1>4, <2>1, <2>2 DEF Carried
  <1>9. Settled'
    <2>1. \A e \in Chat : Pushed(d, e) <=> Pushed(d, e)'
      BY <1>1, <1>4 DEF Pushed
    <2>2. \A e \in Chat : job'[d].todo[e] = NoRow => Pushed(d, e)'
      BY <1>1, <1>4, <2>1 DEF IInv, Progress, Settled
    <2>3. job'[d].push = TRUE /\ \A e \in Device \ {d} : job'[e].pc = "idle"
      BY <1>3, <1>4
    <2> QED
      BY <2>2, <2>3 DEF Settled
  <1>10. CursorReaches'
    <2>1. \A o \in Device, e \in Chat : Agree(o, e) => Agree(o, e)'
      BY <1>1, <1>5 DEF Agree
    <2> QED
      BY <1>1, <2>1 DEF IInv, Progress, CursorReaches
  <1>11. CloudRowHasObject'
    BY <1>1, <1>5 DEF IInv, Sources, CloudRowHasObject
  <1>12. ObjectFirst'
    <2>1. c \notin torn \cup missing /\ row[d][c].items # 0 => raw[d][c] = row[d][c].items
      BY <1>1 DEF IInv, Sources, DeviceRaw
    <2>2. /\ c \notin missing' => obj'[c] # 0
          /\ c \notin torn \cup missing' /\ row[d][c].items # 0 => obj'[c] = row[d][c].items
      BY <1>5, <2>1
    <2> QED
      BY <1>1, <1>3, <1>4, <2>2 DEF ObjectFirst
  <1>13. DeviceRaw'
    BY <1>1, <1>3, <1>4, <1>5 DEF IInv, Sources, DeviceRaw
  <1>14. CloudRaw'
    BY <1>1, <1>5 DEF IInv, Sources, CloudRaw
  <1> QED
    BY <1>6, <1>7, <1>8, <1>9, <1>10, <1>11, <1>12, <1>13, <1>14 DEF IInv, Rows, Progress, Sources

\* The items are read from a row that did not change since the listing.
LEMMA ItemsStep ==
    ASSUME IInv, TypeOK', NEW d \in Device, ListChatItems(d)
    PROVE  IInv'
  <1>0. PICK c \in Chat : c = job[d].chat
    BY BusyChat DEF ListChatItems, IInv, Rows
  <1>1. /\ job[d].pc = "items"
        /\ UNCHANGED <<sourceOf, row, raw, obj, cursor, clock, late, missing, torn, ahead>>
    BY DEF ListChatItems, store, history
  <1>2. \A e \in Device \ {d} : job[e].pc = "idle" /\ job[e] = NoJob
    BY <1>1, OthersIdle DEF IInv, Rows
  <1>3. /\ \A e \in Device \ {d} : job'[e] = job[e]
        /\ job'[d].pc = "upsert" /\ job'[d].push = job[d].push /\ job'[d].chat = c
        /\ job'[d].last = job[d].last /\ job'[d].started = job[d].started /\ job'[d].todo = job[d].todo
        /\ job'[d].items = row[From(d)][c].items
    BY <1>0, ItemsJob DEF IInv, Rows, Becomes
  <1>4. OneSync' /\ Dated' /\ OneVersion'
    BY <1>1, <1>2, <1>3 DEF IInv, Rows, OneSync, Dated, OneVersion
  <1>5. ListingCurrent'
    BY <1>1, <1>2, <1>3, NoJobFields DEF IInv, Rows, ListingCurrent, From
  <1>6. Carried'
    BY <1>0, <1>1, <1>2, <1>3 DEF IInv, Rows, Carried, From, Target
  <1>7. Settled'
    BY <1>1, <1>2, <1>3 DEF IInv, Progress, Settled, Pushed, Agree
  <1>8. CursorReaches'
    BY <1>1 DEF IInv, Progress, CursorReaches, Agree
  <1>9. Sources'
    BY <1>0, <1>1, <1>2, <1>3 DEF IInv, Sources, CloudRowHasObject, ObjectFirst, DeviceRaw, CloudRaw
  <1> QED
    BY <1>4, <1>5, <1>6, <1>7, <1>8, <1>9 DEF IInv, Rows, Progress

\* The raw source comes down after the row.
LEMMA DownloadStep ==
    ASSUME IInv, TypeOK', NEW d \in Device, downloadChatSource(d)
    PROVE  IInv'
  <1>0. PICK c \in Chat : c = job[d].chat
    BY BusyChat DEF downloadChatSource, IInv, Rows
  <1>1. /\ job[d].pc = "download" /\ ~job[d].push /\ row[d][c] = row[Cloud][c] /\ row[d][c].del = NoTime
        /\ UNCHANGED <<sourceOf, row, obj, cursor, clock, late, missing, ahead>>
    BY <1>0 DEF downloadChatSource, IInv, Rows, Carried
  <1>3. \A e \in Device \ {d} : job[e].pc = "idle" /\ job[e] = NoJob
    BY <1>1, OthersIdle DEF IInv, Rows
  <1>4. /\ \A e \in Device \ {d} : job'[e] = job[e]
        /\ job'[d].pc = "next" /\ job'[d].push = job[d].push /\ job'[d].chat = NoChat
        /\ job'[d].last = job[d].last /\ job'[d].started = job[d].started
        /\ \A e \in Chat : job'[d].todo[e] = IF e = c THEN NoRow ELSE job[d].todo[e]
    <2>1. Becomes(d, "next", job[d].push, [job[d].todo EXCEPT ![c] = NoRow], NoChat, job[d].items)
      BY <1>0, NextJob DEF downloadChatSource, IInv, Rows
    <2>2. job[d].todo \in [Chat -> Row]
      BY JobType DEF IInv, Rows, Job
    <2> QED
      BY <2>1, <2>2 DEF Becomes
  <1>5. \A o \in Device, e \in Chat : raw'[o][e] = IF o = d /\ e = c /\ obj[c] # 0 THEN obj[c] ELSE raw[o][e]
    <2>1. raw \in [Device -> [Chat -> Nat]]
      BY DEF IInv, Rows, TypeOK
    <2> QED
      BY <1>0, <2>1 DEF downloadChatSource
  <1>6. torn \subseteq torn' /\ (c \in ahead => c \in torn')
    BY <1>0 DEF downloadChatSource
  <1>7. OneSync' /\ Dated' /\ OneVersion'
    BY <1>1, <1>3, <1>4 DEF IInv, Rows, OneSync, Dated, OneVersion
  <1>8. ListingCurrent'
    BY <1>1, <1>3, <1>4, NoJobFields DEF IInv, Rows, ListingCurrent, From
  <1>9. Carried'
    BY <1>1, <1>3, <1>4 DEF Carried
  <1>10. Agree(d, c)' /\ \A o \in Device, e \in Chat : Agree(o, e) => Agree(o, e)'
    <2>1. Agree(d, c)'
      <3>1. obj[c] # 0 => raw'[d][c] = obj[c]
        BY <1>5
      <3> QED
        BY <1>1, <3>1 DEF Agree
    <2>2. ASSUME NEW o \in Device, NEW e \in Chat, Agree(o, e), ~(o = d /\ e = c) PROVE Agree(o, e)'
      BY <1>1, <1>5, <2>2 DEF Agree
    <2>3. ASSUME NEW o \in Device, NEW e \in Chat, Agree(o, e) PROVE Agree(o, e)'
      <3>1. CASE o = d /\ e = c
        BY <2>1, <3>1
      <3>2. CASE ~(o = d /\ e = c)
        BY <2>2, <2>3, <3>2
      <3> QED
        BY <3>1, <3>2
    <2> QED
      BY <2>1, <2>3
  <1>11. Settled'
    <2>1. \A e \in Chat : Pushed(d, e) <=> Pushed(d, e)'
      BY <1>1, <1>4 DEF Pushed
    <2>2. \A e \in Chat : Pushed(d, e)'
      BY <1>1, <2>1 DEF IInv, Progress, Settled
    <2>3. \A e \in Chat : job'[d].todo[e] = NoRow /\ e \notin late => Agree(d, e)'
      BY <1>1, <1>4, <1>10 DEF IInv, Progress, Settled
    <2> QED
      BY <1>1, <1>3, <1>4, <2>2, <2>3 DEF Settled
  <1>12. CursorReaches'
    BY <1>1, <1>10 DEF IInv, Progress, CursorReaches
  <1>13. CloudRowHasObject' /\ ObjectFirst'
    BY <1>1, <1>3, <1>4 DEF IInv, Sources, CloudRowHasObject, ObjectFirst
  <1>14. DeviceRaw'
    <2>1. c \notin torn' \cup missing /\ row[d][c].items # 0 => obj[c] = row[d][c].items
      BY <1>1, <1>6 DEF IInv, Sources, CloudRaw
    <2>2. c \notin torn' \cup missing /\ row[d][c].items # 0 => raw'[d][c] = row[d][c].items
      BY <1>5, <2>1
    <2> QED
      BY <1>0, <1>1, <1>3, <1>4, <1>5, <1>6, <2>2 DEF IInv, Sources, DeviceRaw
  <1>15. CloudRaw'
    BY <1>1, <1>6 DEF IInv, Sources, CloudRaw
  <1> QED
    BY <1>7, <1>8, <1>9, <1>11, <1>12, <1>13, <1>14, <1>15 DEF IInv, Rows, Progress, Sources

\* A pass ends with all its chats settled, so the cursor may move.
LEMMA EndStep ==
    ASSUME IInv, TypeOK', NEW d \in Device, endPass(d)
    PROVE  IInv'
  <1>1. /\ job[d].pc = "next" /\ \A c \in Chat : job[d].todo[c] = NoRow
        /\ UNCHANGED <<sourceOf, row, raw, obj, clock, late, missing, torn, ahead>>
    BY DEF endPass, store, history
  <1>2. \A e \in Device \ {d} : job[e].pc = "idle" /\ job[e] = NoJob
    BY <1>1, OthersIdle DEF IInv, Rows
  <1>3. /\ \A e \in Device \ {d} : job'[e] = job[e]
        /\ job'[d].pc = (IF job[d].push THEN "list" ELSE "done") /\ job'[d].push = FALSE
        /\ job'[d].chat = job[d].chat /\ job'[d].todo = job[d].todo
        /\ job'[d].last = job[d].last /\ job'[d].started = job[d].started
    BY EndJob DEF IInv, Rows, Becomes
  <1>4. \A e \in Device : cursor'[e] = IF e = d /\ ~job[d].push THEN job[d].started ELSE cursor[e]
    BY DEF endPass, IInv, Rows, TypeOK
  <1>5. OneSync' /\ Dated' /\ OneVersion'
    BY <1>1, <1>2, <1>3 DEF IInv, Rows, OneSync, Dated, OneVersion
  <1>6. ListingCurrent'
    BY <1>1, <1>2, <1>3, <1>4, NoJobFields DEF IInv, Rows, ListingCurrent
  <1>7. Carried'
    BY <1>1, <1>2, <1>3 DEF Carried
  <1>8. \A o \in Device, c \in Chat : Agree(o, c) <=> Agree(o, c)'
    BY <1>1 DEF Agree
  <1>9. ASSUME NEW c \in Chat PROVE Pushed(d, c)'
    BY <1>1, <1>3 DEF IInv, Progress, Settled, Pushed
  <1>10. ASSUME NEW c \in Chat \ late, ~job[d].push PROVE Agree(d, c)
    BY <1>1, <1>10 DEF IInv, Progress, Settled
  <1>11. Settled'
    BY <1>1, <1>2, <1>3, <1>8, <1>9, <1>10 DEF Settled
  <1>12. CursorReaches'
    BY <1>1, <1>4, <1>8, <1>10 DEF IInv, Progress, CursorReaches
  <1>13. Sources'
    BY <1>1, <1>2, <1>3 DEF IInv, Sources, CloudRowHasObject, ObjectFirst, DeviceRaw, CloudRaw
  <1> QED
    BY <1>5, <1>6, <1>7, <1>11, <1>12, <1>13 DEF IInv, Rows, Progress

\* A sync that ends, or stops: refuse, Release, Fail.
LEMMA StopStep ==
    ASSUME IInv, TypeOK', NEW d \in Device, job' = [job EXCEPT ![d] = NoJob],
           UNCHANGED <<sourceOf, row, raw, obj, cursor, clock, late, missing, ahead>>,
           torn \subseteq torn', job[d].pc = "download" => job[d].chat \in torn'
    PROVE  IInv'
  <1>1. job'[d] = NoJob /\ \A e \in Device \ {d} : job'[e] = job[e]
    BY NoJobStep DEF IInv, Rows
  <1>2. OneSync' /\ Dated' /\ OneVersion'
    BY <1>1, NoJobFields DEF IInv, Rows, OneSync, Dated, OneVersion
  <1>3. ListingCurrent'
    BY <1>1, NoJobFields, NoRowFields, Numbers DEF IInv, Rows, ListingCurrent, From
  <1>4. Carried'
    BY <1>1, NoJobFields DEF IInv, Rows, Carried, From, Target
  <1>5. Progress'
    BY <1>1, NoJobFields DEF IInv, Progress, Settled, CursorReaches, Agree, Pushed
  <1>6. Sources'
    BY <1>1, NoJobFields DEF IInv, Sources, CloudRowHasObject, ObjectFirst, DeviceRaw, CloudRaw
  <1> QED
    BY <1>2, <1>3, <1>4, <1>5, <1>6 DEF IInv, Rows

\* A pushed row: the cloud has the version of the device now.
LEMMA PushUpsertStep ==
    ASSUME IInv, TypeOK', NEW d \in Device, UpsertChatSessionWithItems(d), job[d].push
    PROVE  IInv'
  <1>0. PICK c \in Chat : c = job[d].chat
    BY BusyChat DEF UpsertChatSessionWithItems, IInv, Rows
  <1> DEFINE r == row[d][c]
  <1>1. /\ job[d].pc = "upsert" /\ UNCHANGED <<sourceOf, raw, obj, cursor, clock, missing, torn>>
        /\ ahead' = ahead \ {c}
    BY <1>0 DEF UpsertChatSessionWithItems
  <1>2. \A e \in Device \ {d} : job[e].pc = "idle" /\ job[e] = NoJob
    BY <1>1, OthersIdle DEF IInv, Rows
  <1>3. job[d].todo[c] = r /\ r.upd >= job[d].last /\ job[d].last = cursor[d] /\ From(d) = d /\ Target(d) = Cloud
    BY <1>0, <1>1, UpsertCopies, BusyChat DEF IInv, Rows, ListingCurrent, From, Target
  <1>4. /\ \A e \in Device \ {d} : job'[e] = job[e]
        /\ job'[d].pc = "next" /\ job'[d].push = job[d].push /\ job'[d].push = TRUE /\ job'[d].chat = NoChat
        /\ job'[d].last = job[d].last /\ job'[d].started = job[d].started
        /\ \A e \in Chat : job'[d].todo[e] = IF e = c THEN NoRow ELSE job[d].todo[e]
    <2>1. Becomes(d, "next", job[d].push, [job[d].todo EXCEPT ![c] = NoRow], NoChat, job[d].items)
      BY <1>0, UpsertJob DEF IInv, Rows
    <2>2. job[d].todo \in [Chat -> Row] /\ job[d].push = TRUE
      BY JobType DEF IInv, Rows, Job
    <2> QED
      BY <2>1, <2>2 DEF Becomes
  <1>5. /\ \A s \in Store, e \in Chat : row'[s][e] = IF s = Cloud /\ e = c THEN r ELSE row[s][e]
        /\ \A o \in Device, e \in Chat : row'[o][e] = row[o][e]
    <2>1. \A s \in Store, e \in Chat : row'[s][e] = IF s = Cloud /\ e = c THEN r ELSE row[s][e]
      BY <1>0, <1>3, UpsertCopies DEF IInv
    <2> QED
      BY <2>1, ChatSyncAssumption DEF Store
  <1>6. late \subseteq late' /\ (c \notin late' => \A o \in Device \ {d} : ~(r.upd < cursor[o]))
    BY <1>0, <1>3 DEF UpsertChatSessionWithItems
  <1>7. /\ Device \subseteq Store /\ Cloud \in Store /\ d \in Store
        /\ \A o \in Device : cursor[o] \in Nat
        /\ r.upd \in Nat
    BY Numbers DEF IInv, Rows
  <1> HIDE DEF r
  <1>8. OneSync'
    BY <1>2, <1>4 DEF OneSync
  <1>9. Dated'
    BY <1>1, <1>5, <1>7 DEF IInv, Rows, Dated, r
  <1>10. OneVersion'
    BY <1>5, <1>7 DEF IInv, Rows, OneVersion, r
  <1>11. ListingCurrent'
    <2>1. \A e \in Chat : job'[d].todo[e] # NoRow => job'[d].todo[e] = row'[d][e] /\ job'[d].todo[e].upd >= job'[d].last
      BY <1>3, <1>4, <1>5 DEF IInv, Rows, ListingCurrent
    <2>2. From(d)' = d
      BY <1>4 DEF From
    <2> QED
      BY <1>1, <1>2, <1>4, <2>1, <2>2, NoJobFields DEF IInv, Rows, ListingCurrent
  <1>12. Carried'
    BY <1>2, <1>4 DEF Carried
  <1>13. Settled'
    <2>1. \A e \in Chat : job'[d].todo[e] = NoRow => Pushed(d, e)'
      <3>1. Pushed(d, c)'
        BY <1>5, <1>7 DEF Pushed, r
      <3>2. ASSUME NEW e \in Chat, e # c, job'[d].todo[e] = NoRow PROVE Pushed(d, e)'
        BY <1>1, <1>4, <1>5, <1>7, <3>2 DEF IInv, Progress, Settled, Pushed
      <3> QED
        BY <3>1, <3>2
    <2> QED
      BY ZenonT(60), <1>2, <1>4, <2>1 DEF Settled
  <1>14. CursorReaches'
    <2>1. ASSUME NEW o \in Device, c \notin late' PROVE row'[Cloud][c].upd >= cursor'[o]
      <3>1. row'[Cloud][c] = r
        BY <1>5, <1>7
      <3>2. CASE o = d
        BY <1>1, <1>3, <3>1, <3>2
      <3>3. CASE o # d
        BY <1>1, <1>6, <1>7, <2>1, <3>1, <3>3
      <3> QED
        BY <3>2, <3>3
    <2>2. ASSUME NEW o \in Device, NEW e \in Chat, e # c PROVE Agree(o, e) => Agree(o, e)'
      BY <1>1, <1>5, <1>7, <2>2 DEF Agree
    <2>3. ASSUME NEW o \in Device, NEW e \in Chat \ late', e # c
          PROVE  (Agree(o, e) \/ row[o][e].upd >= cursor[o] \/ row[Cloud][e].upd >= cursor[o])'
      BY <1>1, <1>5, <1>6, <1>7, <2>2, <2>3 DEF IInv, Progress, CursorReaches
    <2> QED
      BY <2>1, <2>3 DEF CursorReaches
  <1>15. CloudRowHasObject'
    <2>1. r.del = NoTime /\ c \notin missing => obj[c] # 0
      BY <1>0, <1>1, <1>3 DEF IInv, Sources, ObjectFirst
    <2> QED
      BY <1>1, <1>5, <1>7, <2>1 DEF IInv, Sources, CloudRowHasObject
  <1>16. ObjectFirst'
    BY <1>2, <1>4 DEF ObjectFirst
  <1>17. DeviceRaw'
    BY <1>1, <1>2, <1>4, <1>5 DEF IInv, Sources, DeviceRaw
  <1>18. CloudRaw'
    <2>1. r.del = NoTime /\ c \notin torn \cup missing /\ r.items # 0 => obj[c] = r.items
      BY <1>0, <1>1, <1>3 DEF IInv, Sources, ObjectFirst, r
    <2> QED
      BY <1>1, <1>5, <1>7, <2>1 DEF IInv, Sources, CloudRaw
  <1> QED
    BY <1>8, <1>9, <1>10, <1>11, <1>12, <1>13, <1>14, <1>15, <1>16, <1>17, <1>18
       DEF IInv, Rows, Progress, Sources

\* A pulled row: the device has the version of the cloud now.
LEMMA PullUpsertStep ==
    ASSUME IInv, TypeOK', NEW d \in Device, UpsertChatSessionWithItems(d), ~job[d].push
    PROVE  IInv'
  <1>0. PICK c \in Chat : c = job[d].chat
    BY BusyChat DEF UpsertChatSessionWithItems, IInv, Rows
  <1> DEFINE r == row[Cloud][c]
  <1>1. job[d].pc = "upsert" /\ UNCHANGED <<sourceOf, raw, obj, cursor, clock, missing, ahead, late>>
    BY <1>0 DEF UpsertChatSessionWithItems
  <1>2. \A e \in Device \ {d} : job[e].pc = "idle" /\ job[e] = NoJob
    BY <1>1, OthersIdle DEF IInv, Rows
  <1>3. /\ job[d].todo[c] = r /\ r.upd >= job[d].last /\ job[d].last = cursor[d]
        /\ From(d) = Cloud /\ Target(d) = d /\ r # NoRow
    BY <1>0, <1>1, UpsertCopies, BusyChat DEF IInv, Rows, ListingCurrent, From, Target
  <1>4. /\ \A e \in Device \ {d} : job'[e] = job[e]
        /\ job'[d].push = job[d].push /\ job'[d].push = FALSE
        /\ job'[d].last = job[d].last /\ job'[d].started = job[d].started
        /\ r.del = NoTime => job'[d].pc = "download" /\ job'[d].chat = c /\ job'[d].todo = job[d].todo
        /\ r.del # NoTime => /\ job'[d].pc = "next"
                             /\ \A e \in Chat : job'[d].todo[e] = IF e = c THEN NoRow ELSE job[d].todo[e]
    <2>1. job[d].todo \in [Chat -> Row] /\ job[d].push = FALSE
      BY JobType DEF IInv, Rows, Job
    <2>2. CASE r.del = NoTime
      <3>1. Becomes(d, "download", job[d].push, job[d].todo, c, job[d].items)
        BY <1>0, <1>3, <2>2, UpsertJob DEF IInv, Rows
      <3> QED
        BY <2>1, <2>2, <3>1 DEF Becomes
    <2>3. CASE r.del # NoTime
      <3>1. Becomes(d, "next", job[d].push, [job[d].todo EXCEPT ![c] = NoRow], NoChat, job[d].items)
        BY <1>0, <1>3, <2>3, UpsertJob DEF IInv, Rows
      <3> QED
        BY <2>1, <2>3, <3>1 DEF Becomes
    <2> QED
      BY <2>2, <2>3
  <1>5. /\ \A s \in Store, e \in Chat : row'[s][e] = IF s = d /\ e = c THEN r ELSE row[s][e]
        /\ \A e \in Chat : row'[Cloud][e] = row[Cloud][e]
    <2>1. \A s \in Store, e \in Chat : row'[s][e] = IF s = d /\ e = c THEN r ELSE row[s][e]
      BY <1>0, <1>3, UpsertCopies DEF IInv
    <2> QED
      BY <2>1, ChatSyncAssumption DEF Store
  <1>6. torn \subseteq torn' /\ (r.del # NoTime /\ raw[d][c] # r.items => c \in torn')
    <2>1. job[d].items = r.items
      BY <1>0, <1>1, <1>3 DEF IInv, Rows, Carried
    <2> QED
      BY <1>0, <1>3, <2>1 DEF UpsertChatSessionWithItems, shouldTransferRaw
  <1>7. /\ Device \subseteq Store /\ Cloud \in Store /\ d \in Store
        /\ \A o \in Device : cursor[o] \in Nat
        /\ r.upd \in Nat
    BY Numbers DEF IInv, Rows
  <1> HIDE DEF r
  <1>8. OneSync'
    BY <1>2, <1>4 DEF OneSync
  <1>9. Dated'
    BY <1>1, <1>5, <1>7 DEF IInv, Rows, Dated, r
  <1>10. OneVersion'
    BY <1>5, <1>7 DEF IInv, Rows, OneVersion, r
  <1>11. ListingCurrent'
    <2>1. \A e \in Chat : job'[d].todo[e] # NoRow =>
             job'[d].todo[e] = row'[Cloud][e] /\ job'[d].todo[e].upd >= job'[d].last
      BY <1>3, <1>4, <1>5 DEF IInv, Rows, ListingCurrent
    <2>2. From(d)' = Cloud
      BY <1>4 DEF From
    <2>3. job'[d].pc \in {"download", "next"}
      BY <1>4
    <2> QED
      BY <1>1, <1>2, <1>4, <2>1, <2>2, <2>3, NoJobFields DEF IInv, Rows, ListingCurrent
  <1>12. Carried'
    <2>1. row'[d][c] = row'[Cloud][c] /\ row'[d][c] = r
      BY <1>5, <1>7 DEF r
    <2> QED
      BY <1>2, <1>4, <2>1 DEF Carried
  <1>13. \A e \in Chat : Pushed(d, e)'
    <2>1. Pushed(d, c)'
      BY <1>5, <1>7 DEF Pushed, r
    <2>2. ASSUME NEW e \in Chat, e # c PROVE Pushed(d, e)'
      BY <1>1, <1>4, <1>5, <1>7, <2>2 DEF IInv, Progress, Settled, Pushed
    <2> QED
      BY <2>1, <2>2
  <1>14. ASSUME NEW o \in Device, NEW e \in Chat, ~(o = d /\ e = c) PROVE Agree(o, e) <=> Agree(o, e)'
    BY <1>1, <1>5, <1>7, <1>14 DEF Agree
  <1>15. r.del # NoTime => Agree(d, c)'
    BY <1>5, <1>7 DEF Agree, r
  <1>16. Settled'
    <2>1. ASSUME NEW e \in Chat \ late, job'[d].todo[e] = NoRow PROVE Agree(d, e)'
      <3>1. CASE e = c
        BY <1>3, <1>4, <1>15, <2>1, <3>1
      <3>2. CASE e # c
        BY <1>1, <1>4, <1>14, <2>1, <3>2 DEF IInv, Progress, Settled
      <3> QED
        BY <3>1, <3>2
    <2> QED
      BY <1>1, <1>2, <1>4, <1>13, <2>1 DEF Settled
  <1>17. CursorReaches'
    <2>1. row'[d][c].upd >= cursor'[d]
      BY <1>1, <1>3, <1>5, <1>7
    <2>2. ASSUME NEW o \in Device, NEW e \in Chat \ late, ~(o = d /\ e = c)
          PROVE  (Agree(o, e) \/ row[o][e].upd >= cursor[o] \/ row[Cloud][e].upd >= cursor[o])'
      BY <1>1, <1>5, <1>7, <1>14, <2>2 DEF IInv, Progress, CursorReaches
    <2> QED
      BY <1>1, <2>1, <2>2 DEF CursorReaches
  <1>18. CloudRowHasObject'
    BY <1>1, <1>5 DEF IInv, Sources, CloudRowHasObject
  <1>19. ObjectFirst'
    BY <1>2, <1>4 DEF ObjectFirst
  <1>20. DeviceRaw'
    <2>1. ASSUME r.del # NoTime, c \notin torn' PROVE raw'[d][c] = row'[d][c].items
      BY <1>1, <1>5, <1>6, <1>7, <2>1
    <2>2. ASSUME NEW o \in Device, NEW e \in Chat \ (torn' \cup missing'), row'[o][e].items # 0, ~(o = d /\ e = c)
          PROVE  raw'[o][e] = row'[o][e].items
      BY <1>0, <1>1, <1>2, <1>5, <1>6, <1>7, <2>2 DEF IInv, Sources, DeviceRaw
    <2> QED
      BY <1>4, <2>1, <2>2 DEF DeviceRaw
  <1>21. CloudRaw'
    BY <1>1, <1>5, <1>6 DEF IInv, Sources, CloudRaw
  <1> QED
    BY <1>8, <1>9, <1>10, <1>11, <1>12, <1>16, <1>17, <1>18, <1>19, <1>20, <1>21
       DEF IInv, Rows, Progress, Sources

\* A command of the user of d: a row dated now, on a device that is not syncing.
LEMMA UserStep ==
    ASSUME IInv, TypeOK', NEW d \in Device, NEW c \in Chat, NEW r \in Row, job[d].pc = "idle",
           r.upd = clock, r.del <= clock, clock # 0, row' = [row EXCEPT ![d][c] = r], clock' = clock + 1,
           UNCHANGED <<sourceOf, obj, cursor, job, late, missing, ahead>>, torn \subseteq torn',
           \A o \in Device, e \in Chat : ~(o = d /\ e = c) => raw'[o][e] = raw[o][e],
           c \notin torn' \cup missing /\ r.items # 0 => raw'[d][c] = r.items
    PROVE  IInv'
  <1>1. /\ Device \subseteq Store /\ Cloud \in Store /\ d \in Store /\ Cloud # d
        /\ \A o \in Device : cursor[o] \in Nat /\ job[o].started \in Nat
        /\ clock \in Nat /\ r.upd \in Nat /\ r.del \in Nat
        /\ \A s \in Store, e \in Chat : row[s][e].upd \in Nat
    BY Numbers, ChatSyncAssumption DEF IInv, Rows, Row
  <1>2. \A s \in Store, e \in Chat : row'[s][e] = IF s = d /\ e = c THEN r ELSE row[s][e]
    BY ZenonT(60), <1>1, PutRow DEF IInv, Rows
  <1>3. /\ \A e \in Chat : row'[Cloud][e] = row[Cloud][e]
        /\ \A o \in Device \ {d}, e \in Chat : row'[o][e] = row[o][e] /\ raw'[o][e] = raw[o][e]
    BY <1>1, <1>2
  <1>4. job[d] = NoJob /\ \A e \in Chat : job[d].todo[e] = NoRow
    BY NoJobFields DEF IInv, Rows, ListingCurrent
  <1>5. OneSync' /\ Dated'
    BY <1>1, <1>2, NoRowFields DEF IInv, Rows, OneSync, Dated
  <1>6. OneVersion'
    <2>1. \A s \in Store, e \in Chat : row[s][e].upd # clock
      BY <1>1 DEF IInv, Rows, Dated
    <2> QED
      BY <1>1, <1>2, <2>1 DEF IInv, Rows, OneVersion
  <1>7. ListingCurrent'
    <2>1. \A o \in Device : From(o)' = From(o) /\ (o # d => \A e \in Chat : row'[From(o)][e] = row[From(o)][e])
      BY <1>3 DEF From
    <2>2. \A o \in Device : job[o].started <= clock + 1 /\ cursor[o] <= clock + 1
      BY <1>1 DEF IInv, Rows, ListingCurrent
    <2> QED
      BY <1>4, <2>1, <2>2 DEF IInv, Rows, ListingCurrent
  <1>8. Carried'
    <2>1. \A o \in Device : o # d => \A e \in Chat : /\ row'[From(o)][e] = row[From(o)][e]
                                                     /\ row'[Target(o)][e] = row[Target(o)][e]
      BY <1>3 DEF From, Target
    <2>2. \A o \in Device : job[o].pc \in {"upload", "items", "upsert", "download"} => job[o].chat \in Chat
      BY BusyChat DEF IInv, Rows
    <2>3. \A o \in Device : From(o)' = From(o) /\ Target(o)' = Target(o)
      BY DEF From, Target
    <2> QED
      BY <1>3, <2>1, <2>2, <2>3 DEF IInv, Rows, Carried
  <1>9. \A o \in Device \ {d}, e \in Chat : (Pushed(o, e) <=> Pushed(o, e)') /\ (Agree(o, e) <=> Agree(o, e)')
    BY <1>3 DEF Pushed, Agree
  <1>10. Settled'
    BY <1>9 DEF IInv, Progress, Settled
  <1>11. CursorReaches'
    <2>1. row'[d][c].upd >= cursor'[d]
      BY <1>1, <1>2 DEF IInv, Rows, ListingCurrent
    <2>2. \A e \in Chat \ {c} : Agree(d, e) <=> Agree(d, e)'
      BY <1>1, <1>2 DEF Agree
    <2>3. ASSUME NEW e \in Chat \ late, e # c
          PROVE  (Agree(d, e) \/ row[d][e].upd >= cursor[d] \/ row[Cloud][e].upd >= cursor[d])'
      BY <1>1, <1>2, <2>2, <2>3 DEF IInv, Progress, CursorReaches
    <2>4. ASSUME NEW o \in Device \ {d}, NEW e \in Chat \ late
          PROVE  (Agree(o, e) \/ row[o][e].upd >= cursor[o] \/ row[Cloud][e].upd >= cursor[o])'
      BY <1>3, <1>9 DEF IInv, Progress, CursorReaches
    <2> QED
      BY <2>1, <2>3, <2>4 DEF CursorReaches
  <1>12. CloudRowHasObject' /\ CloudRaw'
    BY <1>3 DEF IInv, Sources, CloudRowHasObject, CloudRaw
  <1>13. ObjectFirst'
    <2>1. \A o \in Device : job[o].pc \in {"upload", "items", "upsert", "download"} => job[o].chat \in Chat
      BY BusyChat DEF IInv, Rows
    <2> QED
      BY <1>3, <2>1 DEF IInv, Sources, ObjectFirst
  <1>14. DeviceRaw'
    BY <1>1, <1>2 DEF IInv, Sources, DeviceRaw
  <1> QED
    BY <1>5, <1>6, <1>7, <1>8, <1>10, <1>11, <1>12, <1>13, <1>14 DEF IInv, Rows, Progress, Sources

\* pc chat import.
LEMMA ImportStep ==
    ASSUME IInv, TypeOK', NEW d \in Device, NEW c \in Chat, Import(d, c)
    PROVE  IInv'
  <1>1. PICK r \in Row : r.upd = clock /\ r.del = NoTime /\ r.items = imports' /\ row' = [row EXCEPT ![d][c] = r]
    BY ImportRow DEF IInv, Rows
  <1>2. clock \in Nat /\ clock # 0
    BY Numbers DEF IInv, Rows, Dated
  <1>3. /\ job[d].pc = "idle" /\ clock' = clock + 1 /\ r.del <= clock
        /\ UNCHANGED <<sourceOf, obj, cursor, job, late, missing, ahead>> /\ torn \subseteq torn'
    BY <1>1, <1>2, NoRowFields DEF Import, Spend
  <1>4. /\ \A o \in Device, e \in Chat : ~(o = d /\ e = c) => raw'[o][e] = raw[o][e]
        /\ c \notin torn' \cup missing => raw'[d][c] = r.items
    <2>1. raw \in [Device -> [Chat -> Nat]]
      BY DEF IInv, Rows, TypeOK
    <2> QED
      BY <1>1, <2>1 DEF Import
  <1> QED
    BY <1>1, <1>2, <1>3, <1>4, UserStep

\* pc chat delete and restore.
LEMMA DeleteStep ==
    ASSUME IInv, TypeOK', NEW d \in Device, NEW c \in Chat, SoftDeleteChatSession(d, c) \/ RestoreChatSession(d, c)
    PROVE  IInv'
  <1>1. PICK del \in {NoTime, clock, row[d][c].del} : del \in Nat /\ Toggle(d, c, del)
    BY DeleteToggles DEF IInv, Rows
  <1>2. PICK r \in Row : r.upd = clock /\ r.del = del /\ r.items = row[d][c].items /\ row' = [row EXCEPT ![d][c] = r]
    BY <1>1, ToggleRow DEF IInv, Rows
  <1>3. clock \in Nat /\ clock # 0 /\ del <= clock
    <2>1. row[d][c].upd \in Nat /\ row[d][c].del \in Nat /\ clock \in Nat /\ d \in Store
      BY Numbers DEF IInv, Rows
    <2>2. row[d][c].upd < clock /\ row[d][c].del <= row[d][c].upd
      BY <2>1 DEF IInv, Rows, Dated
    <2> QED
      BY <1>1, <2>1, <2>2, NoRowFields
  <1>4. /\ job[d].pc = "idle" /\ clock' = clock + 1
        /\ UNCHANGED <<sourceOf, raw, obj, cursor, job, late, missing, ahead, torn>>
    BY <1>1 DEF Toggle, Spend, history
  <1>5. c \notin torn \cup missing /\ r.items # 0 => raw[d][c] = r.items
    BY <1>2, <1>4 DEF IInv, Sources, DeviceRaw
  <1> QED
    BY <1>1, <1>2, <1>3, <1>4, <1>5, UserStep

\* Time passes.
LEMMA TickStep ==
    ASSUME IInv, TypeOK', clock' = clock + 1 \/ clock' = clock,
           UNCHANGED <<sourceOf, row, raw, obj, cursor, job, late, missing, torn, ahead>>
    PROVE  IInv'
  <1>1. /\ clock \in Nat
        /\ \A s \in Store, c \in Chat : row[s][c].upd \in Nat
        /\ \A d \in Device : cursor[d] \in Nat /\ job[d].started \in Nat
    BY Numbers DEF IInv, Rows
  <1>2. OneSync' /\ Dated' /\ OneVersion'
    BY <1>1 DEF IInv, Rows, OneSync, Dated, OneVersion
  <1>3. ListingCurrent'
    BY <1>1 DEF IInv, Rows, ListingCurrent, From
  <1>4. Carried'
    BY DEF IInv, Rows, Carried, From, Target
  <1>5. Progress'
    BY DEF IInv, Progress, Settled, CursorReaches, Pushed, Agree
  <1>6. Sources'
    BY DEF IInv, Sources, CloudRowHasObject, ObjectFirst, DeviceRaw, CloudRaw
  <1> QED
    BY <1>2, <1>3, <1>4, <1>5, <1>6 DEF IInv, Rows

\* All steps.
LEMMA NextStep == IInv /\ TypeOK' /\ [Next]_vars => IInv'
  <1> SUFFICES ASSUME IInv, TypeOK', [Next]_vars PROVE IInv'
    OBVIOUS
  <1>1. ASSUME NEW d \in Device, NEW c \in Chat, refuse(d, c) PROVE IInv'
    BY <1>1, StopStep DEF refuse, store, history
  <1>2. ASSUME NEW d \in Device, Release(d) PROVE IInv'
    BY <1>2, StopStep DEF Release, store, history
  <1>3. ASSUME NEW d \in Device, Fail(d) PROVE IInv'
    BY <1>3, StopStep DEF Fail, store
  <1>4. ASSUME NEW d \in Device, UpsertChatSessionWithItems(d) PROVE IInv'
    BY <1>4, PushUpsertStep, PullUpsertStep
  <1>5. ASSUME NEW d \in Device, Sync(d) PROVE IInv'
    BY <1>1, <1>2, <1>3, <1>4, <1>5, BeginStep, ListStep, LoadStep, UploadStep, ItemsStep, DownloadStep, EndStep
       DEF Sync
  <1>6. ASSUME NEW d \in Device, User(d) PROVE IInv'
    BY <1>6, ImportStep, DeleteStep DEF User
  <1>7. ASSUME Tick PROVE IInv'
    BY <1>7, TickStep DEF Tick, Spend, store, history
  <1>8. CASE UNCHANGED vars
    BY <1>8, TickStep DEF vars, store, history
  <1> QED
    BY <1>5, <1>6, <1>7, <1>8 DEF Next

\* The inductive invariant holds throughout: rows are only copied, listings do
\* not go stale, and what the cursor of a device hides was settled by a sync of it.
THEOREM Invariance == Spec => []IInv
  BY InitIInv, NextStep, TypeCorrect, PTL DEF Spec

-----------------------------------------------------------------------------
(* What the invariant says *)

\* A sync that ends leaves device and cloud with the same chats and raw sources,
\* for any number of devices, chats and faults before it: syncChangedChatsDirected
\* misses nothing that its cursor should have shown it.
THEOREM ChatsAgreeHolds == Spec => []ChatsAgree
  <1>1. IInv => ChatsAgree
    <2> SUFFICES ASSUME IInv, NEW d \in Device, NEW c \in Chat \ late, job[d].pc = "done"
                 PROVE  Agree(d, c)
      BY DEF ChatsAgree, Agree
    <2>1. ~job[d].push /\ job[d].todo[c] = NoRow
      BY DEF IInv, Rows, Carried, ListingCurrent
    <2> QED
      BY <2>1 DEF IInv, Progress, Settled
  <1> QED
    BY <1>1, Invariance, PTL

\* A live row of the cloud has its object, unless the file was missing on the
\* device that pushed it: the upload comes before the row.
THEOREM CloudRowHasObjectHolds == Spec => []CloudRowHasObject
  <1>1. IInv => CloudRowHasObject
    BY DEF IInv, Sources
  <1> QED
    BY <1>1, Invariance, PTL

\* The items of a live chat are those of the raw source beside them.
THEOREM RawFollowsItemsHolds == Spec => []RawFollowsItems
  <1>1. IInv => RawFollowsItems
    BY DEF IInv, Sources, DeviceRaw, CloudRaw, RawFollowsItems
  <1> QED
    BY <1>1, Invariance, PTL
=============================================================================
