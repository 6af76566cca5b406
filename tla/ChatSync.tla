------------------------------ MODULE ChatSync ------------------------------
(***************************************************************************)
(* Synchronisation of chat sessions between devices and the cloud:         *)
(* syncChangedChatsDirected of cli/internal/sync/service.go, with pc chat  *)
(* import, delete and restore between syncs.                               *)
(*                                                                         *)
(* A chat is a row with its items, written in one transaction, and a raw   *)
(* source: a file on a device, an object in S3.  Push moves the raw source *)
(* before the row, pull after it.  A failing call or a crash stops a sync  *)
(* between any two calls.  All parties read one clock, which ticks in      *)
(* milliseconds: a device writes its rows in that precision.               *)
(***************************************************************************)
EXTENDS Resolve, FiniteSets

CONSTANTS Device, Cloud,
          Chat,      \* chat IDs
          NoChat,
          Source,    \* transcripts
          MaxClock, MaxImports, MaxToggles, MaxFaults  \* bounds

ASSUME ChatSyncAssumption ==
    /\ Cloud \notin Device /\ NoChat \notin Chat
    /\ {MaxClock, MaxImports, MaxToggles, MaxFaults} \subseteq Nat
    /\ Milli = 1

VARIABLES sourceOf, \* the transcript that a chat is imported from
          row,      \* chat_session and chat_item of each store
          raw,      \* managed raw sources of each device: version or 0
          obj,      \* raw sources in S3
          cursor, clock, job,
          imports, toggles, faults,  \* counted against the bounds
          late,     \* history: chats pushed behind another device's cursor
          missing,  \* history: chats pushed while the device had no raw source
          torn,     \* history: chats stored on a device without the raw source of their row
          ahead     \* history: chats whose object was uploaded and their row not yet

store == <<row, raw, obj>>
bounds == <<imports, toggles, faults>>
history == <<late, missing, torn, ahead>>
vars == <<sourceOf, store, cursor, clock, job, bounds, history>>

Store == Device \cup {Cloud}

\* items numbers the version of the text that the items hold.
NoRow == [upd |-> NoTime, del |-> NoTime, items |-> 0]

NoJob == [pc |-> "idle", push |-> TRUE, last |-> NoTime, started |-> NoTime,
          todo |-> [c \in Chat |-> NoRow], chat |-> NoChat, items |-> 0]

Target(d) == IF job[d].push THEN Cloud ELSE d
From(d) == IF job[d].push THEN d ELSE Cloud

Init ==
    /\ sourceOf \in [Chat -> Source]
    /\ row = [s \in Store |-> [c \in Chat |-> NoRow]]
    /\ raw = [d \in Device |-> [c \in Chat |-> 0]] /\ obj = [c \in Chat |-> 0]
    /\ cursor = [d \in Device |-> NoTime] /\ clock = 1
    /\ job = [d \in Device |-> NoJob]
    /\ imports = 0 /\ toggles = 0 /\ faults = 0
    /\ late = {} /\ missing = {} /\ torn = {} /\ ahead = {}

\* The row of a store that has the transcript of a chat.
SameSource(s, c) == {e \in Chat : row[s][e] # NoRow /\ sourceOf[e] = sourceOf[c]}

---------------------------------------------------------------------------
(* One sync of a device *)

\* Devices sync one after the other.
Begin(d) ==
    /\ \A e \in Device : job[e].pc = "idle"
    /\ job' = [job EXCEPT ![d] = [NoJob EXCEPT !.pc = "list", !.last = cursor[d], !.started = clock]]
    /\ UNCHANGED <<sourceOf, store, cursor, clock, bounds, history>>

listChanged(d) ==
    /\ job[d].pc = "list"
    /\ job' = [job EXCEPT ![d].pc = "next", ![d].todo = [c \in Chat |->
                  LET r == row[From(d)][c] IN
                  IF r # NoRow /\ UpdatedSince(r, job[d].last) THEN r ELSE NoRow]]
    /\ UNCHANGED <<sourceOf, store, cursor, clock, bounds, history>>

\* session.DeletedAt == nil; every imported chat has a raw source key.
shouldTransferRaw(r) == r.del = NoTime

\* The outcome for the side that is copied from.
resolveChatWinnerForDirection(d, r, t) ==
    LET outcome == IF job[d].push THEN ResolveRecordWinner(r, t) ELSE ResolveRecordWinner(t, r)
    IN  CASE outcome = "equal" -> "none"
          [] outcome = (IF job[d].push THEN "local" ELSE "remote") -> "source"
          [] OTHER -> "target"

\* Mutant: a tie is left alone.
AfterResolveSkipTies(d, r, winner) ==
    IF winner = "source" THEN IF job[d].push /\ shouldTransferRaw(r) THEN "upload" ELSE "items"
    ELSE "next"

\* Mutant: the raw source is left to a later sync.
AfterResolveNoUpload(d, r, winner) ==
    IF winner = "source" THEN "items"
    ELSE IF winner = "none" /\ ~job[d].push /\ shouldTransferRaw(r) THEN "download" ELSE "next"

\* What is done next: a winner is copied, and a tie brings the raw source again.
AfterResolve(d, r, winner) ==
    IF winner = "source" THEN IF job[d].push /\ shouldTransferRaw(r) THEN "upload" ELSE "items"
    ELSE IF winner = "none" /\ ~job[d].push /\ shouldTransferRaw(r) THEN "download" ELSE "next"

\* The next session, if no other ID has its transcript at the target.
loadChatSession(d, c) ==
    LET r == job[d].todo[c]
        t == row[Target(d)][c]
        pc == AfterResolve(d, r, IF t = NoRow THEN "source" ELSE resolveChatWinnerForDirection(d, r, t))
    IN  /\ job[d].pc = "next" /\ r # NoRow
        /\ SameSource(Target(d), c) \subseteq {c}
        /\ job' = [job EXCEPT ![d].pc = pc, ![d].chat = IF pc = "next" THEN NoChat ELSE c,
                              ![d].todo[c] = IF pc = "next" THEN NoRow ELSE @]
        /\ UNCHANGED <<sourceOf, store, cursor, clock, bounds, history>>

\* "cannot be synced without manual resolution": the sync fails.
refuse(d, c) ==
    /\ job[d].pc = "next" /\ job[d].todo[c] # NoRow
    /\ ~(SameSource(Target(d), c) \subseteq {c})
    /\ job' = [job EXCEPT ![d] = NoJob]
    /\ UNCHANGED <<sourceOf, store, cursor, clock, bounds, history>>

\* uploadChatSourceIfPresent: a missing file is a warning.
uploadChatSource(d) ==
    LET c == job[d].chat IN
    /\ job[d].pc = "upload"
    /\ IF raw[d][c] # 0 THEN obj' = [obj EXCEPT ![c] = raw[d][c]] /\ ahead' = ahead \cup {c} /\ UNCHANGED missing
       ELSE missing' = missing \cup {c} /\ UNCHANGED <<obj, ahead>>
    /\ job' = [job EXCEPT ![d].pc = "items"]
    /\ UNCHANGED <<sourceOf, row, raw, cursor, clock, bounds, late, torn>>

ListChatItems(d) ==
    /\ job[d].pc = "items"
    /\ job' = [job EXCEPT ![d].pc = "upsert", ![d].items = row[From(d)][job[d].chat].items]
    /\ UNCHANGED <<sourceOf, store, cursor, clock, bounds, history>>

NextChat(d) == job' = [job EXCEPT ![d].pc = "next", ![d].chat = NoChat, ![d].todo[job[d].chat] = NoRow]

\* The caller's updated_at is kept; the trigger replaces it when it does not move.
autoUpdateUpdatedAt(old, r) == IF old = r.upd THEN clock ELSE r.upd

\* Row and items in one transaction, under the ID: no other has the transcript.
UpsertChatSessionWithItems(d) ==
    LET c == job[d].chat
        r == job[d].todo[c]
    IN  /\ job[d].pc = "upsert"
        /\ row' = [row EXCEPT ![Target(d)][c] =
                      [upd |-> autoUpdateUpdatedAt(@.upd, r), del |-> r.del, items |-> job[d].items]]
        /\ late' = IF job[d].push /\ \E o \in Device : r.upd < cursor[o] /\ o # d THEN late \cup {c} ELSE late
        /\ torn' = IF ~job[d].push /\ ~shouldTransferRaw(r) /\ raw[d][c] # job[d].items THEN torn \cup {c} ELSE torn
        /\ ahead' = IF job[d].push THEN ahead \ {c} ELSE ahead
        /\ IF ~job[d].push /\ shouldTransferRaw(r) THEN job' = [job EXCEPT ![d].pc = "download"] ELSE NextChat(d)
        /\ UNCHANGED <<sourceOf, raw, obj, cursor, clock, bounds, missing>>

\* Mutant: a file that exists is not downloaded again.
downloadAbsentChatSource(d) ==
    LET c == job[d].chat IN
    /\ job[d].pc = "download"
    /\ raw' = IF obj[c] # 0 /\ raw[d][c] = 0 THEN [raw EXCEPT ![d][c] = obj[c]] ELSE raw
    /\ torn' = IF c \in ahead THEN torn \cup {c} ELSE torn
    /\ NextChat(d)
    /\ UNCHANGED <<sourceOf, row, obj, cursor, clock, bounds, late, missing, ahead>>

\* downloadChatSourceIfPresent: a missing object is a warning.
downloadChatSource(d) ==
    LET c == job[d].chat IN
    /\ job[d].pc = "download"
    /\ raw' = IF obj[c] # 0 THEN [raw EXCEPT ![d][c] = obj[c]] ELSE raw
    /\ torn' = IF c \in ahead THEN torn \cup {c} ELSE torn
    /\ NextChat(d)
    /\ UNCHANGED <<sourceOf, row, obj, cursor, clock, bounds, late, missing, ahead>>

\* Push is followed by pull, pull by the cursor.
endPass(d) ==
    /\ job[d].pc = "next" /\ \A c \in Chat : job[d].todo[c] = NoRow
    /\ IF job[d].push
       THEN job' = [job EXCEPT ![d].pc = "list", ![d].push = FALSE] /\ UNCHANGED cursor
       ELSE /\ job' = [job EXCEPT ![d].pc = "done"]
            /\ cursor' = [cursor EXCEPT ![d] = job[d].started]
    /\ UNCHANGED <<sourceOf, store, clock, bounds, history>>

Release(d) ==
    /\ job[d].pc = "done"
    /\ job' = [job EXCEPT ![d] = NoJob]
    /\ UNCHANGED <<sourceOf, store, cursor, clock, bounds, history>>

Fail(d) ==
    /\ job[d].pc \notin {"idle", "done"}
    /\ faults < MaxFaults /\ faults' = faults + 1
    /\ torn' = IF job[d].pc = "download" THEN torn \cup {job[d].chat} ELSE torn
    /\ job' = [job EXCEPT ![d] = NoJob]
    /\ UNCHANGED <<sourceOf, store, cursor, clock, imports, toggles, late, missing, ahead>>

---------------------------------------------------------------------------
(* Users, between the syncs of their device *)

\* A command of a user takes some time.
Spend == clock < MaxClock /\ clock' = clock + 1

Known(c) == \E s \in Store : row[s][c] # NoRow

\* pc chat import: a new chat, or more text for one that is not in the trash.  The
\* raw source is promoted after the commit, which may fail.
Import(d, c) ==
    /\ job[d].pc = "idle" /\ imports < MaxImports /\ imports' = imports + 1 /\ Spend
    /\ IF row[d][c] = NoRow THEN ~Known(c) /\ SameSource(d, c) = {} ELSE row[d][c].del = NoTime
    /\ row' = [row EXCEPT ![d][c] = [upd |-> clock, del |-> NoTime, items |-> imports']]
    /\ \/ /\ raw' = [raw EXCEPT ![d][c] = imports'] /\ UNCHANGED <<faults, torn>>
       \/ /\ faults < MaxFaults /\ faults' = faults + 1
          /\ torn' = torn \cup {c} /\ UNCHANGED raw
    /\ UNCHANGED <<sourceOf, obj, cursor, job, toggles, late, missing, ahead>>

Toggle(d, c, del) ==
    /\ job[d].pc = "idle" /\ toggles < MaxToggles /\ toggles' = toggles + 1 /\ Spend
    /\ row' = [row EXCEPT ![d][c].upd = clock, ![d][c].del = del]
    /\ UNCHANGED <<sourceOf, raw, obj, cursor, job, imports, faults, history>>

\* pc chat delete: an earlier deleted_at stays.
SoftDeleteChatSession(d, c) ==
    row[d][c] # NoRow /\ Toggle(d, c, IF row[d][c].del = NoTime THEN clock ELSE row[d][c].del)

\* pc chat restore, of deleted chats.
RestoreChatSession(d, c) == row[d][c].del # NoTime /\ Toggle(d, c, NoTime)

Tick ==
    /\ Spend
    /\ UNCHANGED <<sourceOf, store, cursor, job, bounds, history>>

---------------------------------------------------------------------------

Sync(d) == \/ Begin(d) \/ listChanged(d) \/ uploadChatSource(d) \/ ListChatItems(d)
           \/ UpsertChatSessionWithItems(d) \/ downloadChatSource(d) \/ endPass(d) \/ Release(d) \/ Fail(d)
           \/ \E c \in Chat : loadChatSession(d, c) \/ refuse(d, c)

User(d) == \E c \in Chat : Import(d, c) \/ SoftDeleteChatSession(d, c) \/ RestoreChatSession(d, c)

Next == (\E d \in Device : Sync(d) \/ User(d)) \/ Tick

Spec == Init /\ [][Next]_vars

---------------------------------------------------------------------------
(* Properties *)

Row == [upd: Nat, del: Nat, items: Nat]

Job == [pc: {"idle", "list", "next", "upload", "items", "upsert", "download", "done"},
        push: BOOLEAN, last: Nat, started: Nat, todo: [Chat -> Row],
        chat: Chat \cup {NoChat}, items: Nat]

\* A sync is busy with a chat of its listing exactly between its first and last call for it.
BusyWithListed(j) ==
    /\ j.chat # NoChat <=> j.pc \in {"upload", "items", "upsert", "download"}
    /\ j.chat # NoChat => j.todo[j.chat] # NoRow

TypeOK ==
    /\ row \in [Store -> [Chat -> Row]] /\ raw \in [Device -> [Chat -> Nat]] /\ obj \in [Chat -> Nat]
    /\ cursor \in [Device -> Nat] /\ clock \in Nat 
    /\ job \in [Device -> Job] /\ \A d \in Device : BusyWithListed(job[d])
    /\ imports \in Nat /\ toggles \in Nat /\ faults \in Nat
    /\ late \subseteq Chat /\ missing \subseteq Chat /\ torn \subseteq Chat /\ ahead \subseteq Chat

\* A sync that ends leaves device and cloud with
\* the same chats and the same raw sources, whatever was interrupted before;
\* except chats that were pushed behind the device's cursor, and objects whose
\* row is still on its way.
ChatsAgree ==
    \A d \in Device, c \in Chat \ late :
        job[d].pc = "done" =>
            /\ row[d][c] = row[Cloud][c]
            /\ row[d][c] # NoRow /\ row[d][c].del = NoTime /\ obj[c] # 0 /\ c \notin ahead => raw[d][c] = obj[c]

\* "the cloud row never advertises a key whose object is absent", unless the
\* warning for a missing file was given.
CloudRowHasObject ==
    \A c \in Chat \ missing : row[Cloud][c] # NoRow /\ row[Cloud][c].del = NoTime => obj[c] # 0

\* The items of a live chat were read from the raw source stored beside them, in
\* the cloud and on a device that is not syncing, unless a device once stored its
\* row without that raw source: a stopped pull, a failed promotion, a pulled
\* deletion of a chat that was imported here too, an object of a stopped push.
RawFollowsItems ==
    \A c \in Chat \ (torn \cup missing \cup ahead) :
        /\ row[Cloud][c].items # 0 /\ row[Cloud][c].del = NoTime => obj[c] = row[Cloud][c].items
        /\ \A d \in Device : job[d].pc \in {"idle", "done"} /\ row[d][c].items # 0 /\ row[d][c].del = NoTime
                             => raw[d][c] = row[d][c].items
=============================================================================
