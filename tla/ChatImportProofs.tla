-------------------------- MODULE ChatImportProofs --------------------------
(* The properties of pc chat import, for any number of files, sessions,     *)
(* writes, faults and user operations.                                      *)
EXTENDS ChatImport, WellFoundedInduction, TLAPS

-----------------------------------------------------------------------------
(* The inductive invariant *)

\* The search index has every item that no run has still to put there.
IndexIsFull ==
    /\ ~unindexed /\ ~mut => AllItems \subseteq indexed
    /\ batch # <<>> => mut
    /\ pc = "idle" => ~mut

\* A batch that is committed is not empty; one that is not yet is not full.
BatchFits == /\ pc = "commit" => batch # <<>>
             /\ pc # "commit" => Len(batch) < BatchSize
             /\ batch # <<>> => pc \in {"scan", "stage", "commit"}

TypeInv == TypeOK /\ BatchFits /\ IndexIsFull

\* No gc deleted the chat, and its agent replaced no text under the import.
Free(s) == s \notin purged \cup Swapped

\* How the text of a session names it: a session of a file name, not at all.
Name(s) == IF s \in Paths THEN None ELSE s

\* b is the text of a at a later time, or a newer text.
AtMost(a, b) == a.ver < b.ver \/ (a.ver = b.ver /\ a.size <= b.size)

Uncommitted == ToSet(batch) \cup (IF pc = "stage" THEN {op} ELSE {})

Pending == Uncommitted \cup ToSet(promoting)

\* What the operation will leave in the managed raw file.
Copy(o) == IF o.stage = None THEN o.text ELSE o.stage

\* The file f was imported as session s, or is about to be.
Owns(f, s) ==
    \/ Stored(s) /\ db[s].orig = f
    \/ idx[s] = f
    \/ \E o \in Pending : o.file = f /\ o.sid = s
    \/ resume # None /\ Files[Min(todo)] = f /\ resume.prior = s

\* The file f holds a transcript of session s now.
Holds(f, s) == src[f] # None /\ SessionOf(f, src[f]) = s

\* The items are the first lines of version v of a text.
TextOf(items, v) ==
    \E n \in 0..MaxSize : items = {[ord |-> o, ver |-> v] : o \in {k \in 0..MaxSize : k < n}}

\* Versions count up: what an agent will write next is newer than everything.
VersionsCount ==
    /\ \A f \in Paths : src[f] # None => src[f].ver < writes + 3
    /\ \A s \in Sids : Free(s) /\ raw[s] # None => raw[s].ver < writes + 3
    /\ \A s \in Sids : Free(s) => \A i \in DbItems(s) : i.ver < writes + 3
    /\ \A o \in Pending : o.text.ver < writes + 3 /\ Copy(o).ver < writes + 3

\* Texts and managed copies name the session they belong to.
NamesAgree ==
    /\ \A f \in Paths : src[f] # None => src[f].sid \notin Paths
    /\ \A f \in Paths, s \in Sids : Owns(f, s) /\ s \in Paths => s = f
    /\ \A s \in Sids : Free(s) /\ raw[s] # None => raw[s].sid = Name(s)

\* A file that has moved on to another session is the only one with it.
MovedAlone ==
    \A f \in Paths, s \in Sids : src[f] # None /\ Owns(f, s) /\ ~Holds(f, s) =>
        \A g \in Paths \ {f} : src[g] # None => SessionOf(g, src[g]) # SessionOf(f, src[f])

\* A file that was imported is never behind what is known of its session.
FileIsAhead ==
    \A f \in Paths, s \in Sids : Free(s) /\ Holds(f, s) /\ (\E t \in Sids : Owns(f, t)) =>
        /\ \A i \in DbItems(s) : i.ver <= src[f].ver
        /\ raw[s] # None => AtMost(raw[s], src[f])
        /\ \A o \in Pending : o.sid = s => AtMost(Copy(o), src[f])

\* The index of the run knows the stored sessions and their files, or will
\* when the committed operations are promoted.
IndexKnows == pc \in {"scan", "stage", "commit", "promote"} =>
    /\ \A s \in Sids : idx[s] # None /\ s \notin purged => Stored(s)
    /\ \A s \in Sids : Stored(s) => idx[s] # None \/ \E o \in ToSet(promoting) : o.sid = s
    /\ \A s \in Sids : Free(s) /\ Stored(s) /\ (\A o \in ToSet(promoting) : o.sid # s) => db[s].orig = idx[s]
    /\ \A o \in ToSet(promoting) : Free(o.sid) => Stored(o.sid) /\ db[o.sid].orig = o.file

\* Another file with the session of an uncommitted operation is new to the import;
\* one that has its version too may be a copy that the import leaves alone.
OthersAreNewer ==
    \A o \in Uncommitted : Free(o.sid) =>
        \A g \in Paths \ {o.file} : Holds(g, o.sid) =>
            /\ Copy(o).ver = src[g].ver => \A t \in Sids : Owns(g, t) => t = o.sid
            /\ idx[o.sid] \in {None, o.file}

\* One operation per session; one that has another chat's ID is for a session
\* that is not stored.
OneEach ==
    /\ \A i, j \in DOMAIN batch : i # j /\ batch[i].sid = batch[j].sid =>
          ~Free(batch[i].sid) /\ idx[batch[i].sid] # None
    /\ pc = "stage" => \A i \in DOMAIN batch : batch[i].sid = op.sid =>
          ~Free(op.sid) /\ idx[op.sid] # None
    /\ \A o \in Uncommitted : o.id # o.sid => idx[o.id] # None /\ idx[o.sid] = None
    /\ \A o \in ToSet(promoting) : o.id # o.sid => o.id \in purged
    /\ \A o \in ToSet(promoting) : Stored(o.sid) \/ o.sid \in purged
    /\ \A i, j \in DOMAIN promoting : i # j /\ promoting[i].sid = promoting[j].sid =>
          ~Free(promoting[i].sid)

\* What a pending operation writes is one text, with what it is added to.
WritesOneText ==
    \A o \in Uncommitted : Free(o.sid) =>
        /\ o.mode = "replace" => TextOf(o.items, o.text.ver)
        /\ o.mode = "append" => Stored(o.sid) /\ TextOf(DbItems(o.sid) \cup o.items, o.text.ver)

\* The copies of a pending operation: that of its text, which is not behind the
\* managed raw file.
CopiesFollow ==
    \A o \in Pending : Free(o.sid) =>
        /\ o.text.sid = Name(o.sid) /\ Copy(o).sid = Name(o.sid)
        /\ Copy(o).ver = o.text.ver /\ AtMost(o.text, Copy(o))
        /\ raw[o.sid] # None => AtMost(raw[o.sid], Copy(o))
        /\ o.backup # None /\ o.id = o.sid =>
                              /\ o.backup.sid = Name(o.sid) /\ AtMost(o.backup, Copy(o))
                              /\ \A i \in DbItems(o.sid) : o.backup.ver <= i.ver

\* A committed text is the text of its operation; the managed raw file is never
\* ahead of the items.
RawIsBehind ==
    /\ \A s \in Sids : Free(s) /\ raw[s] # None =>
          Stored(s) /\ \A i \in DbItems(s) : raw[s].ver <= i.ver
    /\ \A o \in ToSet(promoting) : Free(o.sid) => \A i \in DbItems(o.sid) : i.ver = o.text.ver

\* Shape of a run.
RunShape ==
    /\ pc = "stage" => op.stage = None /\ op.backup = None
    /\ \A i \in DOMAIN batch : batch[i].backup = None
    /\ \A o \in Pending, i \in todo : o.file # Files[i]
    /\ \A i, j \in DOMAIN promoting : i # j => promoting[i].file # promoting[j].file
    /\ \A i, j \in DOMAIN batch : i # j => batch[i].file # batch[j].file
    /\ pc = "stage" => \A i \in DOMAIN batch : batch[i].file # op.file
    /\ pc = "stage" /\ src[op.file] # None /\ src[op.file].ver = op.text.ver =>
          src[op.file].sid = op.text.sid /\ op.text.size <= src[op.file].size
    /\ \A g \in gc : g.at = "raw" => g.sid \in purged

\* The file whose handling goes on after a flush may have grown, moved on or gone.
\* What may be appended to, or replaced as the path's own session, counts no more.
ResumeFollows == resume # None =>
    LET f == Files[Min(todo)]
        c == resume.text
    IN  /\ c.ver < writes + 3 /\ c.sid \notin Paths
        /\ src[f] # None => c.ver < src[f].ver \/ (c.ver = src[f].ver /\ c.sid = src[f].sid /\ c.size <= src[f].size)
        /\ src[f] # None /\ ~Holds(f, resume.sid) =>
              \A g \in Paths \ {f} : src[g] # None => SessionOf(g, src[g]) # SessionOf(f, src[f])
        /\ resume.sid \in Paths => resume.sid = f
        /\ resume.at = "append" \/ resume.prior = resume.sid => ~Free(resume.sid)
        /\ resume.at = "append" => resume.prior = resume.sid
        /\ resume.at = "parsed" => resume.sid = SessionOf(f, c)

IInvText == /\ IsInjective(Files)
            /\ TypeInv /\ VersionsCount /\ NamesAgree /\ MovedAlone /\ FileIsAhead /\ IndexKnows
            /\ OthersAreNewer /\ OneEach /\ WritesOneText /\ CopiesFollow /\ RawIsBehind /\ RunShape
            /\ ResumeFollows /\ OneText

Clean == purged = {} /\ Swapped = {}

\* The file of a pending operation still holds what was copied, or more.
SourceStays ==
    Clean => \A o \in Pending : Copy(o).sid \notin discarded =>
        /\ src[o.file] # None
        /\ src[o.file].sid = Copy(o).sid /\ AtMost(Copy(o), src[o.file])

\* The copies that a pending operation or the managed raw files hold, and the
\* contents of the files that no staged operation is about to remove.
Copies == {c \in Content : (\E s \in Sids : raw[s] = c) \/ (\E o \in Pending : Copy(o) = c)}

Others == {c \in Content : \E f \in Paths : src[f] = c /\ \A o \in Pending : o.stage # None => o.file # f}

Covered(c, K) == \E k \in K : k.sid = c.sid /\ AtMost(c, k)

SeenIsCopied == Clean /\ pc \notin {"idle", "end"} =>
    \A c \in seen : c.sid \notin discarded => Covered(c, Copies)

ReclaimedIsCovered == Clean =>
    \A c \in reclaimed : c.sid \notin discarded => Covered(c, Copies \cup Others)

IInvKept == IInvText /\ SourceStays /\ SeenIsCopied /\ ReclaimedIsCovered

-----------------------------------------------------------------------------
(* Numbers, sequences and folds *)

LEMMA Constants ==
    /\ Files \in Seq(Sids) /\ Paths \subseteq Sids /\ MaxSize \in Nat /\ MaxSize >= 2 /\ MaxWrites \in Nat
    /\ BatchSize \in Nat /\ BatchSize >= 2
    /\ None \notin Sids /\ None \notin Paths /\ None \notin Content /\ None \notin Chat
    /\ None \notin Operation /\ None \notin Resume /\ None \notin [Sids -> Chat \cup {None}]
    /\ \A i \in DOMAIN Files : Files[i] \in Paths
    /\ DOMAIN Files \subseteq Nat
  BY BatchAssumption, FilesAssumption, NoneAssumption DEF Paths, ToSet

\* A path that is listed once has one place.
LEMMA OnePlace ==
    ASSUME IsInjective(Files), NEW i \in DOMAIN Files, NEW j \in DOMAIN Files, Files[i] = Files[j]
    PROVE  i = j
  BY Zenon DEF IsInjective

\* A set of naturals has a least element.
LEMMA Least ==
    ASSUME NEW S \in SUBSET Nat, S # {}
    PROVE  \E x \in S : \A y \in S : x <= y
  <1> DEFINE R == {ss \in Nat \X Nat : ss[1] < ss[2]}
  <1>1. IsWellFoundedOn(R, Nat)
    BY NatLessThanWellFounded DEF OpToRel
  <1>2. \A x, y \in Nat : y < x => <<y, x>> \in R
    OBVIOUS
  <1> HIDE DEF R
  <1>3. PICK x \in S : \A y \in S : ~(<<y, x>> \in R)
    BY <1>1, WFMin
  <1>4. ASSUME NEW y \in S PROVE x <= y
    <2>1. x \in Nat /\ y \in Nat /\ ~(y < x)
      BY <1>2, <1>3
    <2> QED
      BY <2>1
  <1> QED
    BY <1>4

\* The next file of a scan.
LEMMA NextPlace ==
    ASSUME todo \subseteq DOMAIN Files, todo # {}
    PROVE  Min(todo) \in todo /\ Files[Min(todo)] \in Paths
  <1>1. \E x \in todo : \A y \in todo : x <= y
    BY Least, Constants
  <1>2. Min(todo) \in todo
    BY <1>1 DEF Min
  <1> QED
    BY <1>2, Constants

\* The greatest of the first n numbers, and what is left without it.
LEMMA MaxFirst ==
    ASSUME NEW n \in Nat \ {0}
    PROVE  Max(1..n) = n /\ (1..n) \ {n} = 1..(n - 1)
  <1>1. n \in 1..n /\ \A y \in 1..n : n >= y
    OBVIOUS
  <1>2. Max(1..n) \in 1..n /\ \A y \in 1..n : Max(1..n) >= y
    BY <1>1 DEF Max
  <1>3. Max(1..n) >= n /\ n >= Max(1..n) /\ Max(1..n) \in Nat
    BY <1>1, <1>2
  <1>4. Max(1..n) = n
    BY <1>3
  <1>5. \A x \in Int : x \in 1..n /\ x # n <=> x \in 1..(n - 1)
    OBVIOUS
  <1>6. (1..n) \ {n} = 1..(n - 1)
    BY <1>5
  <1> QED
    BY <1>4, <1>6

\* The greatest of a non-empty set of the first n + 1 numbers, and the rest.
LEMMA MaxOf ==
    ASSUME NEW n \in Nat, NEW S \in SUBSET (1..(n + 1)), S # {}
    PROVE  Max(S) \in S /\ S \ {Max(S)} \subseteq 1..n
  <1> DEFINE D == {n + 1 - x : x \in S}
  <1>0. \A x \in S : x \in 1..(n + 1) /\ n + 1 - x \in Nat
    OBVIOUS
  <1>1. D \subseteq Nat /\ D # {}
    BY <1>0
  <1>2. PICK d \in D : \A y \in D : d <= y
    BY <1>1, Least
  <1>3. PICK m \in S : d = n + 1 - m
    BY <1>2
  <1>4. ASSUME NEW y \in S PROVE m >= y
    <2>1. d <= n + 1 - y
      BY <1>2
    <2> QED
      BY <1>3, <2>1
  <1>5. Max(S) \in S /\ \A y \in S : Max(S) >= y
    BY <1>4 DEF Max
  <1>6. ASSUME NEW y \in S \ {Max(S)} PROVE y \in 1..n
    <2>1. y \in 1..(n + 1) /\ Max(S) \in 1..(n + 1) /\ Max(S) >= y /\ y # Max(S)
      BY <1>5, <1>6
    <2> QED
      BY <2>1
  <1> QED
    BY <1>5, <1>6

\* The folding function on the sets of the first k places.
Folded(d, b, k) ==
    \E g : g = [s \in SUBSET (1..k) |-> IF s = {} THEN d ELSE writeOp(g[s \ {Max(s)}], b[Max(s)])]

LEMMA FoldExists ==
    ASSUME NEW d, NEW b, NEW n \in Nat
    PROVE  Folded(d, b, n)
  <1>1. Folded(d, b, 0)
    <2> DEFINE g == [s \in SUBSET (1..0) |-> d]
    <2>1. \A s \in SUBSET (1..0) : s = {}
      OBVIOUS
    <2>2. g = [s \in SUBSET (1..0) |-> IF s = {} THEN d ELSE writeOp(g[s \ {Max(s)}], b[Max(s)])]
      BY <2>1
    <2> QED
      BY <2>2 DEF Folded
  <1>2. ASSUME NEW k \in Nat, Folded(d, b, k) PROVE Folded(d, b, k + 1)
    <2>1. PICK g : g = [s \in SUBSET (1..k) |-> IF s = {} THEN d ELSE writeOp(g[s \ {Max(s)}], b[Max(s)])]
      BY <1>2 DEF Folded
    <2> DEFINE step(s) == IF s = {} THEN d ELSE writeOp(g[s \ {Max(s)}], b[Max(s)])
               h == [s \in SUBSET (1..(k + 1)) |-> step(s)]
    <2>2. \A s \in SUBSET (1..k) : g[s] = step(s)
      BY <2>1
    <2>3. \A s \in SUBSET (1..(k + 1)) : s # {} => s \ {Max(s)} \in SUBSET (1..k)
      BY MaxOf
    <2>4. \A s \in SUBSET (1..k) : s \in SUBSET (1..(k + 1))
      OBVIOUS
    <2> HIDE DEF step
    <2>5. \A s \in SUBSET (1..(k + 1)) : s # {} => h[s \ {Max(s)}] = g[s \ {Max(s)}]
      BY <2>2, <2>3, <2>4
    <2>6. \A s \in SUBSET (1..(k + 1)) :
             step(s) = IF s = {} THEN d ELSE writeOp(h[s \ {Max(s)}], b[Max(s)])
      BY <2>5 DEF step
    <2>7. h = [s \in SUBSET (1..(k + 1)) |-> IF s = {} THEN d ELSE writeOp(h[s \ {Max(s)}], b[Max(s)])]
      BY <2>6
    <2> QED
      BY <2>7 DEF Folded
  <1> DEFINE Bad == {k \in Nat : ~Folded(d, b, k)}
  <1>3. ASSUME Bad # {} PROVE FALSE
    <2>1. PICK k \in Bad : \A y \in Bad : k <= y
      BY <1>3, Least
    <2>2. k # 0
      BY <1>1
    <2>3. k - 1 \in Nat /\ ~(k <= k - 1)
      BY <2>2
    <2>4. Folded(d, b, k - 1)
      BY <2>1, <2>3
    <2>5. Folded(d, b, (k - 1) + 1)
      BY <1>2, <2>3, <2>4
    <2>6. (k - 1) + 1 = k
      BY <2>2
    <2> QED
      BY <2>5, <2>6
  <1> QED
    BY <1>3

\* A batch is written one operation after the other.
LEMMA FoldSteps ==
    ASSUME NEW d, NEW b, NEW n \in Nat, DOMAIN b = 1..n
    PROVE  \E it : /\ it[0] = d /\ it[n] = FoldLeft(writeOp, d, b)
                   /\ \A k \in 1..n : it[k] = writeOp(it[k - 1], b[k])
  <1> DEFINE g == CHOOSE h : h = [s \in SUBSET DOMAIN b |-> IF s = {} THEN d ELSE writeOp(h[s \ {Max(s)}], b[Max(s)])]
             it == [k \in 0..n |-> g[1..k]]
  <1>1. FoldLeft(writeOp, d, b) = g[DOMAIN b]
    BY Zenon DEF FoldLeft, MapThenFoldSet
  <1>2. g = [s \in SUBSET (1..n) |-> IF s = {} THEN d ELSE writeOp(g[s \ {Max(s)}], b[Max(s)])]
    <2>1. Folded(d, b, n) /\ DOMAIN b = 1..n
      BY FoldExists
    <2> QED
      BY <2>1, Zenon DEF Folded
  <1> HIDE DEF g
  <1>3. it[0] = d
    <2>1. 1..0 = {}
      OBVIOUS
    <2>2. g[{}] = d
      BY <1>2
    <2> QED
      BY <2>1, <2>2
  <1>4. it[n] = FoldLeft(writeOp, d, b)
    BY <1>1
  <1>5. ASSUME NEW k \in 1..n PROVE it[k] = writeOp(it[k - 1], b[k])
    <2>1. Max(1..k) = k /\ (1..k) \ {k} = 1..(k - 1) /\ 1..k # {} /\ 1..k \in SUBSET (1..n) /\ k - 1 \in 0..n
      BY MaxFirst
    <2>2. g[1..k] = writeOp(g[1..(k - 1)], b[k])
      BY <1>2, <2>1
    <2> QED
      BY <2>1, <2>2
  <1> HIDE DEF it
  <1> QED
    BY <1>3, <1>4, <1>5

-----------------------------------------------------------------------------
(* What a transaction does *)

Store == [Sids -> Chat \cup {None}]

\* The items that an operation adds to.
Base(chat, o) == IF chat = None \/ o.mode = "replace" THEN {} ELSE chat.items

\* After the first k operations of the batch b on the store d.
Written(d, b, n, w, k) ==
    /\ w \in Store
    /\ \A s \in Sids : (\A i \in 1..k : b[i].sid # s) => w[s] = d[s]
    /\ \A s \in Sids : d[s] # None => w[s] # None
    /\ \A j \in 1..k : /\ w[b[j].sid] # None
                       /\ \E i \in 1..k : b[i].sid = b[j].sid /\ w[b[j].sid].orig = b[i].file
    /\ \A j \in 1..k : (\A i \in 1..n : i # j => b[i].sid # b[j].sid) =>
          /\ w[b[j].sid].orig = b[j].file
          /\ w[b[j].sid].items = Base(d[b[j].sid], b[j]) \cup b[j].items
          /\ b[j].id # b[j].sid /\ d[b[j].sid] = None => d[b[j].id] = None

LEMMA OperationFields ==
    ASSUME NEW o \in Operation
    PROVE  /\ o.id \in Sids /\ o.sid \in Sids /\ o.mode \in {"replace", "append"}
           /\ o.items \in SUBSET Item /\ o.file \in Paths /\ o.text \in Content
           /\ o.stage \in Content \cup {None} /\ o.backup \in Content \cup {None}
  BY DEF Operation

LEMMA WriteEffect ==
    ASSUME NEW store \in Store, NEW o \in Operation, writeOp(store, o) # None
    PROVE  LET w == writeOp(store, o) IN
           /\ w \in Store
           /\ w[o.sid] # None /\ w[o.sid].orig = o.file
           /\ w[o.sid].items = Base(store[o.sid], o) \cup o.items
           /\ \A s \in Sids : s # o.sid => w[s] = store[s]
           /\ o.id # o.sid /\ store[o.sid] = None => store[o.id] = None
  <1> DEFINE chat(items) == [orig |-> o.file, del |-> FALSE, items |-> items]
             w == writeOp(store, o)
  <1>1. store # None
    BY Constants DEF Store
  <1>2. o.id \in Sids /\ o.sid \in Sids /\ o.items \in SUBSET Item /\ o.file \in Paths
    BY OperationFields
  <1>3. \A items \in SUBSET Item : chat(items) \in Chat /\ chat(items) # None
    <2>1. \A items \in SUBSET Item : chat(items) \in Chat
      BY <1>2 DEF Chat
    <2> HIDE DEF chat
    <2> QED
      BY <2>1, Constants
  <1>4. store[o.sid] # None => store[o.sid] \in Chat /\ store[o.sid].items \in SUBSET Item
    BY <1>2 DEF Store, Chat
  <1>5. Base(store[o.sid], o) \cup o.items \in SUBSET Item
    BY <1>2, <1>4 DEF Base
  <1>6. /\ w = [store EXCEPT ![o.sid] = chat(Base(store[o.sid], o) \cup o.items)]
        /\ o.id # o.sid /\ store[o.sid] = None => store[o.id] = None
    <2>1. CASE store[o.sid] = None
      <3>1. Base(store[o.sid], o) \cup o.items = o.items
        BY <2>1 DEF Base
      <3> QED
        BY <1>1, <2>1, <3>1 DEF writeOp
    <2>2. CASE store[o.sid] # None
      <3>1. Base(store[o.sid], o) = IF o.mode = "replace" THEN {} ELSE store[o.sid].items
        BY <2>2 DEF Base
      <3> QED
        BY <1>1, <2>2, <3>1 DEF writeOp
    <2> QED
      BY <2>1, <2>2
  <1> DEFINE new == Base(store[o.sid], o) \cup o.items
  <1>7. chat(new) \in Chat /\ chat(new) # None /\ chat(new).orig = o.file /\ chat(new).items = new
    BY <1>3, <1>5
  <1> HIDE DEF chat, new, w
  <1>8. w = [store EXCEPT ![o.sid] = chat(new)] /\ DOMAIN store = Sids
    BY <1>6 DEF new, Store
  <1>9. w \in Store
    BY <1>7, <1>8 DEF Store
  <1>10. w[o.sid] = chat(new) /\ \A s \in Sids : s # o.sid => w[s] = store[s]
    BY <1>2, <1>8
  <1> QED
    BY <1>6, <1>7, <1>9, <1>10 DEF w, new

LEMMA WrittenNext ==
    ASSUME NEW d \in Store, NEW n \in Nat, NEW b, \A i \in 1..n : b[i] \in Operation,
           NEW k \in 0..(n - 1), NEW v, Written(d, b, n, v, k), writeOp(v, b[k + 1]) # None
    PROVE  Written(d, b, n, writeOp(v, b[k + 1]), k + 1)
  <1> DEFINE w == writeOp(v, b[k + 1])
             o == b[k + 1]
  <1>0. /\ k + 1 \in 1..n /\ o \in Operation /\ v \in Store
        /\ 1..(k + 1) = (1..k) \cup {k + 1} /\ k + 1 \notin 1..k /\ 1..k \subseteq 1..n
    <2>1. k + 1 \in 1..n /\ k + 1 \notin 1..k /\ 1..k \subseteq 1..n
      OBVIOUS
    <2>2. \A i \in Int : i \in 1..(k + 1) <=> i \in 1..k \/ i = k + 1
      OBVIOUS
    <2>3. 1..(k + 1) = (1..k) \cup {k + 1}
      BY <2>2
    <2>4. v \in Store
      BY DEF Written
    <2> QED
      BY <2>1, <2>3, <2>4
  <1>1. /\ w \in Store
        /\ w[o.sid] # None /\ w[o.sid].orig = o.file
        /\ w[o.sid].items = Base(v[o.sid], o) \cup o.items
        /\ \A s \in Sids : s # o.sid => w[s] = v[s]
        /\ o.id # o.sid /\ v[o.sid] = None => v[o.id] = None
    BY <1>0, WriteEffect
  <1>2. \A i \in 1..n : b[i].sid \in Sids /\ b[i].id \in Sids
    BY OperationFields
  <1>3. /\ \A s \in Sids : (\A i \in 1..k : b[i].sid # s) => v[s] = d[s]
        /\ \A s \in Sids : d[s] # None => v[s] # None
        /\ \A j \in 1..k : /\ v[b[j].sid] # None
                           /\ \E i \in 1..k : b[i].sid = b[j].sid /\ v[b[j].sid].orig = b[i].file
        /\ \A j \in 1..k : (\A i \in 1..n : i # j => b[i].sid # b[j].sid) =>
              /\ v[b[j].sid].orig = b[j].file
              /\ v[b[j].sid].items = Base(d[b[j].sid], b[j]) \cup b[j].items
              /\ b[j].id # b[j].sid /\ d[b[j].sid] = None => d[b[j].id] = None
    BY DEF Written
  <1> HIDE DEF w
  <1>4. ASSUME NEW s \in Sids, \A i \in 1..(k + 1) : b[i].sid # s PROVE w[s] = d[s]
    <2>1. o.sid # s /\ \A i \in 1..k : b[i].sid # s
      BY <1>0, <1>4
    <2> QED
      BY <1>1, <1>3, <2>1
  <1>5. ASSUME NEW s \in Sids, d[s] # None PROVE w[s] # None
    BY <1>1, <1>3, <1>5
  <1>6. ASSUME NEW j \in 1..(k + 1)
        PROVE  /\ w[b[j].sid] # None
               /\ \E i \in 1..(k + 1) : b[i].sid = b[j].sid /\ w[b[j].sid].orig = b[i].file
    <2>1. CASE b[j].sid = o.sid
      BY <1>0, <1>1, <2>1
    <2>2. CASE b[j].sid # o.sid
      <3>1. j \in 1..k /\ b[j].sid \in Sids
        BY <1>0, <1>2, <2>2
      <3>2. w[b[j].sid] = v[b[j].sid]
        BY <1>1, <2>2, <3>1
      <3>3. PICK i \in 1..k : b[i].sid = b[j].sid /\ v[b[j].sid].orig = b[i].file
        BY <1>3, <3>1
      <3> QED
        BY <1>0, <1>3, <3>1, <3>2, <3>3
    <2> QED
      BY <2>1, <2>2
  <1>7. ASSUME NEW j \in 1..(k + 1), \A i \in 1..n : i # j => b[i].sid # b[j].sid
        PROVE  /\ w[b[j].sid].orig = b[j].file
               /\ w[b[j].sid].items = Base(d[b[j].sid], b[j]) \cup b[j].items
               /\ b[j].id # b[j].sid /\ d[b[j].sid] = None => d[b[j].id] = None
    <2>1. CASE j = k + 1
      <3>1. \A i \in 1..k : b[i].sid # o.sid
        BY <1>0, <1>7, <2>1
      <3>2. v[o.sid] = d[o.sid] /\ o.sid \in Sids /\ o.id \in Sids
        BY <1>0, <1>2, <1>3, <3>1
      <3>3. d[o.id] # None => v[o.id] # None
        BY <1>3, <3>2
      <3> QED
        BY <1>1, <2>1, <3>2, <3>3
    <2>2. CASE j # k + 1
      <3>1. j \in 1..k /\ b[j].sid \in Sids
        BY <1>0, <1>2, <2>2
      <3>2. b[j].sid # o.sid
        BY <1>0, <1>7, <2>2
      <3>3. w[b[j].sid] = v[b[j].sid]
        BY <1>1, <3>1, <3>2
      <3> QED
        BY <1>3, <1>7, <3>1, <3>3
    <2> QED
      BY <2>1, <2>2
  <1> QED
    BY <1>1, <1>4, <1>5, <1>6, <1>7 DEF Written, w

\* The result of a transaction that does not fail.
LEMMA BatchResult ==
    ASSUME NEW d \in Store, NEW b \in Seq(Operation), FoldLeft(writeOp, d, b) # None
    PROVE  Written(d, b, Len(b), FoldLeft(writeOp, d, b), Len(b))
  <1> DEFINE n == Len(b)
  <1>1. n \in Nat /\ DOMAIN b = 1..n /\ \A i \in 1..n : b[i] \in Operation
    OBVIOUS
  <1> HIDE DEF n
  <1>2. PICK it : /\ it[0] = d /\ it[n] = FoldLeft(writeOp, d, b)
                  /\ \A k \in 1..n : it[k] = writeOp(it[k - 1], b[k])
    BY <1>1, FoldSteps
  <1>3. Written(d, b, n, d, 0)
    <2>1. 1..0 = {}
      OBVIOUS
    <2> QED
      BY <2>1 DEF Written
  <1> DEFINE Bad == {k \in 0..n : it[k] # None /\ ~Written(d, b, n, it[k], k)}
  <1>4. ASSUME Bad # {} PROVE FALSE
    <2>0. Bad \in SUBSET Nat
      BY <1>1
    <2>1. PICK m \in Bad : \A y \in Bad : m <= y
      BY <1>4, <2>0, Least
    <2>2. m \in Nat /\ m # 0
      BY <1>2, <1>3
    <2>3. m \in 1..n /\ m - 1 \in 0..(n - 1) /\ m - 1 \in 0..n /\ (m - 1) + 1 = m /\ ~(m <= m - 1)
      BY <1>1, <2>1, <2>2
    <2>4. m - 1 \notin Bad
      BY <2>1, <2>3
    <2>5. it[m] = writeOp(it[m - 1], b[m]) /\ it[m] # None /\ ~Written(d, b, n, it[m], m)
      BY <1>2, <2>1, <2>3
    <2>6. it[m - 1] # None
      BY Zenon, <2>5 DEF writeOp
    <2>7. Written(d, b, n, it[m - 1], m - 1)
      BY <2>3, <2>4, <2>6
    <2>8. Written(d, b, n, writeOp(it[m - 1], b[(m - 1) + 1]), (m - 1) + 1)
      BY <1>1, <2>3, <2>5, <2>7, WrittenNext
    <2> QED
      BY <2>3, <2>5, <2>8
  <1>5. n \in 0..n
    BY <1>1
  <1> QED
    BY <1>2, <1>4, <1>5 DEF n

-----------------------------------------------------------------------------
(* Sequences of operations, and items *)

LEMMA Appended ==
    ASSUME NEW b \in Seq(Operation), NEW o \in Operation
    PROVE  /\ Append(b, o) \in Seq(Operation) /\ Len(Append(b, o)) = Len(b) + 1
           /\ Append(b, o) # <<>>
           /\ ToSet(Append(b, o)) = ToSet(b) \cup {o}
           /\ DOMAIN Append(b, o) = DOMAIN b \cup {Len(b) + 1} /\ Append(b, o)[Len(b) + 1] = o
           /\ \A i \in DOMAIN b : Append(b, o)[i] = b[i] /\ i # Len(b) + 1
  <1> DEFINE q == Append(b, o)
  <1>1. /\ q \in Seq(Operation) /\ Len(q) = Len(b) + 1
        /\ DOMAIN q = 1..(Len(b) + 1) /\ DOMAIN b = 1..Len(b) /\ Len(b) \in Nat
        /\ q[Len(b) + 1] = o /\ \A i \in DOMAIN b : q[i] = b[i]
    OBVIOUS
  <1> HIDE DEF q
  <1>2. \A i \in Int : i \in 1..(Len(b) + 1) <=> i \in 1..Len(b) \/ i = Len(b) + 1
    BY <1>1
  <1>3. DOMAIN q = DOMAIN b \cup {Len(b) + 1} /\ \A i \in DOMAIN b : i # Len(b) + 1
    BY <1>1, <1>2
  <1>4. ToSet(q) = ToSet(b) \cup {o}
    BY <1>1, <1>3 DEF ToSet
  <1>5. q # <<>>
    BY <1>1
  <1> QED
    BY <1>1, <1>3, <1>4, <1>5 DEF q

LEMMA HeadFirst ==
    ASSUME NEW p \in Seq(Operation), p # <<>>
    PROVE  /\ Head(p) \in Operation /\ Tail(p) \in Seq(Operation) /\ Head(p) = p[1] /\ 1 \in DOMAIN p
           /\ ToSet(p) = {Head(p)} \cup ToSet(Tail(p))
           /\ \A i \in DOMAIN Tail(p) : i + 1 \in DOMAIN p /\ i + 1 # 1 /\ Tail(p)[i] = p[i + 1]
  <1> DEFINE q == Tail(p)
  <1>1. /\ Head(p) \in Operation /\ q \in Seq(Operation) /\ Head(p) = p[1]
        /\ DOMAIN p = 1..Len(p) /\ DOMAIN q = 1..(Len(p) - 1) /\ Len(p) \in Nat /\ Len(p) >= 1
        /\ \A i \in DOMAIN q : q[i] = p[i + 1]
    OBVIOUS
  <1> HIDE DEF q
  <1>2. 1 \in DOMAIN p /\ \A i \in DOMAIN q : i + 1 \in DOMAIN p /\ i + 1 # 1
    BY <1>1
  <1>3. \A j \in DOMAIN p : j = 1 \/ (j - 1 \in DOMAIN q /\ q[j - 1] = p[j])
    <2> TAKE j \in DOMAIN p
    <2>1. j = 1 \/ (j - 1 \in DOMAIN q /\ (j - 1) + 1 = j)
      BY <1>1
    <2> QED
      BY <1>1, <2>1
  <1>4. ASSUME NEW x PROVE x \in ToSet(p) <=> x = Head(p) \/ x \in ToSet(q)
    <2>1. x \in ToSet(p) <=> \E j \in DOMAIN p : x = p[j]
      BY DEF ToSet
    <2>2. x \in ToSet(q) <=> \E j \in DOMAIN q : x = q[j]
      BY DEF ToSet
    <2>3. x \in ToSet(p) => x = Head(p) \/ x \in ToSet(q)
      BY <1>1, <1>3, <2>1, <2>2
    <2>4. x = Head(p) \/ x \in ToSet(q) => x \in ToSet(p)
      BY <1>1, <1>2, <2>1, <2>2
    <2> QED
      BY <2>3, <2>4
  <1>5. ToSet(p) = {Head(p)} \cup ToSet(q)
    BY <1>4
  <1> QED
    BY <1>1, <1>2, <1>5 DEF q

LEMMA HeadReplaced ==
    ASSUME NEW p \in Seq(Operation), p # <<>>, NEW o \in Operation
    PROVE  LET q == <<o>> \o Tail(p) IN
           /\ q \in Seq(Operation) /\ q # <<>> /\ DOMAIN q = DOMAIN p /\ q[1] = o
           /\ \A i \in DOMAIN p : i # 1 => q[i] = p[i]
           /\ ToSet(q) = {o} \cup ToSet(Tail(p))
  <1> DEFINE t == Tail(p)
             q == <<o>> \o t
  <1>1. /\ t \in Seq(Operation) /\ DOMAIN p = 1..Len(p) /\ Len(p) \in Nat /\ Len(p) >= 1
        /\ DOMAIN t = 1..(Len(p) - 1) /\ Len(t) = Len(p) - 1
        /\ \A i \in DOMAIN t : t[i] = p[i + 1]
    OBVIOUS
  <1> HIDE DEF t
  <1>2. /\ q \in Seq(Operation) /\ Len(q) = Len(p) /\ DOMAIN q = 1..Len(p) /\ q[1] = o
        /\ \A i \in 1..Len(p) : i # 1 => q[i] = t[i - 1]
    <2>1. q \in Seq(Operation) /\ Len(q) = 1 + Len(t) /\ q[1] = o /\ DOMAIN q = 1..Len(q)
      <3>1. <<o>> \in Seq(Operation) /\ Len(<<o>>) = 1 /\ <<o>>[1] = o
        OBVIOUS
      <3>2. q \in Seq(Operation)
        BY <1>1, <3>1
      <3>3. Len(q) = 1 + Len(t)
        <4>1. \A x, y \in Seq(Operation) : Len(x \o y) = Len(x) + Len(y)
          OBVIOUS
        <4>2. Len(<<o>> \o t) = Len(<<o>>) + Len(t)
          BY <1>1, <3>1, <4>1, Zenon
        <4> QED
          BY <3>1, <4>2
      <3>4. q[1] = o
        <4>1. Len(t) \in Nat /\ 1 \in 1..(1 + Len(t)) /\ t \in Seq(Operation)
          BY <1>1
        <4>2. q[1] = <<o>>[1]
          BY <3>1, <4>1
        <4> QED
          BY <3>1, <4>2
      <3>5. DOMAIN q = 1..Len(q)
        BY <3>2
      <3> QED
        BY <3>2, <3>3, <3>4, <3>5
    <2>2. 1 + Len(t) = Len(p)
      BY <1>1
    <2>3. \A i \in 1..Len(p) : i # 1 => q[i] = t[i - 1]
      BY <1>1, <2>2
    <2> HIDE DEF q
    <2> QED
      BY <2>1, <2>2, <2>3
  <1> HIDE DEF q
  <1>3. \A i \in DOMAIN p : i # 1 => q[i] = p[i] /\ i - 1 \in DOMAIN t
    <2> TAKE i \in DOMAIN p
    <2>1. i # 1 => i - 1 \in DOMAIN t /\ (i - 1) + 1 = i
      BY <1>1
    <2> QED
      BY <1>1, <1>2, <2>1
  <1>4. \A i \in DOMAIN t : i + 1 \in DOMAIN q /\ q[i + 1] = t[i]
    <2> TAKE i \in DOMAIN t
    <2>1. i + 1 \in 1..Len(p) /\ i + 1 # 1 /\ (i + 1) - 1 = i
      BY <1>1
    <2> QED
      BY <1>2, <2>1
  <1>5. 1 \in DOMAIN q /\ q # <<>>
    BY <1>1, <1>2
  <1>6. ToSet(q) = {o} \cup ToSet(t)
    <2>1. \A i \in DOMAIN q : q[i] = o \/ (i - 1 \in DOMAIN t /\ q[i] = t[i - 1])
      BY <1>1, <1>2, <1>3
    <2> QED
      BY <1>2, <1>4, <1>5, <2>1 DEF ToSet
  <1> QED
    BY <1>1, <1>2, <1>3, <1>5, <1>6 DEF q, t

LEMMA NoOperations == ToSet(<<>>) = {}
  BY DEF ToSet

LEMMA ContentFields ==
    ASSUME NEW c \in Content
    PROVE  /\ c.sid \in Sids \cup {None} /\ c.ver \in 1..(MaxWrites + 2) /\ c.size \in 0..MaxSize
           /\ c.ver \in Nat /\ c.size \in Nat
           /\ Lines(c) \in 0..MaxSize
           /\ ~Torn(c) => c.size = 2 * Lines(c)
  <1>1. c.sid \in Sids \cup {None} /\ c.ver \in 1..(MaxWrites + 2) /\ c.size \in 0..MaxSize
    BY DEF Content
  <1> QED
    BY <1>1, Constants DEF Lines, Torn

LEMMA ItemFields ==
    ASSUME NEW i \in Item
    PROVE  i.ord \in 0..MaxSize /\ i.ver \in Nat /\ i.ord \in Nat /\ i.ver \in 0..(MaxWrites + 2)
  BY Constants DEF Item

\* The items of a transcript are its first lines.
LEMMA ItemsAreText ==
    ASSUME NEW c \in Content
    PROVE  ItemsIn(c) \in SUBSET Item /\ TextOf(ItemsIn(c), c.ver)
  <1>1. ItemsIn(c) = {[ord |-> o, ver |-> c.ver] : o \in {k \in 0..MaxSize : k < Lines(c)}}
    BY DEF ItemsIn
  <1>2. ItemsIn(c) \in SUBSET Item
    BY <1>1, ContentFields DEF Item
  <1> QED
    BY <1>1, <1>2, ContentFields DEF TextOf

\* A text with another version's number is empty.
LEMMA SameVersion ==
    ASSUME NEW items, NEW u, NEW v, TextOf(items, u), \A i \in items : i.ver = v
    PROVE  TextOf(items, v)
  <1>1. PICK n \in 0..MaxSize : items = {[ord |-> o, ver |-> u] : o \in {k \in 0..MaxSize : k < n}}
    BY DEF TextOf
  <1>2. CASE items = {}
    <2>1. 0 \in 0..MaxSize /\ {k \in 0..MaxSize : k < 0} = {}
      BY Constants
    <2>2. items = {[ord |-> o, ver |-> v] : o \in {k \in 0..MaxSize : k < 0}}
      BY <1>2, <2>1
    <2> QED
      BY <2>1, <2>2 DEF TextOf
  <1>3. CASE items # {}
    <2>1. PICK i \in items : TRUE
      BY <1>3
    <2>2. i.ver = u
      BY <1>1, <2>1
    <2>3. u = v
      BY <2>1, <2>2
    <2> QED
      BY <2>3
  <1> QED
    BY <1>2, <1>3

LEMMA TextVersion ==
    ASSUME NEW items, NEW v, TextOf(items, v)
    PROVE  \A i \in items : i.ver = v
  BY DEF TextOf

\* One past the last of the first n items is n.
LEMMA NextIsLength ==
    ASSUME NEW s, NEW n \in 0..MaxSize, NEW v,
           DbItems(s) = {[ord |-> o, ver |-> v] : o \in {k \in 0..MaxSize : k < n}}
    PROVE  NextOrdinal(s) = n
  <1> DEFINE ords == {i.ord : i \in DbItems(s)}
  <1>1. ords = {k \in 0..MaxSize : k < n}
    <2>1. \A k \in 0..MaxSize : k < n => [ord |-> k, ver |-> v] \in DbItems(s) /\ [ord |-> k, ver |-> v].ord = k
      OBVIOUS
    <2>2. \A i \in DbItems(s) : i.ord \in 0..MaxSize /\ i.ord < n
      OBVIOUS
    <2> QED
      BY <2>1, <2>2
  <1>2. CASE n = 0
    <2>1. {k \in 0..MaxSize : k < n} = {}
      BY <1>2
    <2>2. DbItems(s) = {}
      BY <2>1
    <2> QED
      BY <1>2, <2>2 DEF NextOrdinal
  <1>3. CASE n # 0
    <2>0. n - 1 \in 0..MaxSize /\ n - 1 < n
      BY <1>3, Constants
    <2>1. n - 1 \in ords
      BY <1>1, <2>0
    <2>2. DbItems(s) # {}
      BY <2>1
    <2>3. \A o \in ords : o <= n - 1 /\ o \in Nat
      BY <1>1, <1>3, Constants
    <2> DEFINE m == CHOOSE o \in ords : \A i \in DbItems(s) : i.ord <= o
    <2>4. n - 1 \in ords /\ \A i \in DbItems(s) : i.ord <= n - 1
      BY <2>1, <2>3
    <2>5. m \in ords /\ \A i \in DbItems(s) : i.ord <= m
      BY <2>4
    <2>6. n - 1 <= m /\ m <= n - 1 /\ m \in Nat
      BY <2>1, <2>3, <2>5
    <2>7. m = n - 1
      BY <2>6
    <2>8. NextOrdinal(s) = 1 + m
      BY <2>2 DEF NextOrdinal
    <2> HIDE DEF m
    <2> QED
      BY <2>7, <2>8
  <1> QED
    BY <1>2, <1>3

\* An appended suffix continues the text, when what is stored has the lines of
\* the managed copy.
LEMMA SuffixContinues ==
    ASSUME NEW a \in Content, NEW c \in Content, filePrefixMatches(a, c), NEW s,
           TextOf(DbItems(s), c.ver), NextOrdinal(s) = Lines(a), ~Torn(a), ~Torn(c)
    PROVE  TextOf(DbItems(s) \cup (ItemsIn(c) \ ItemsIn(a)), c.ver)
  <1> DEFINE First(n) == {[ord |-> o, ver |-> c.ver] : o \in {k \in 0..MaxSize : k < n}}
  <1>1. PICK n \in 0..MaxSize : DbItems(s) = First(n)
    BY DEF TextOf
  <1>2. n = Lines(a)
    BY <1>1, NextIsLength
  <1>3. a.ver = c.ver /\ a.size < c.size
    BY DEF filePrefixMatches
  <1>4. /\ Lines(a) \in 0..MaxSize /\ Lines(c) \in 0..MaxSize /\ Lines(a) <= Lines(c)
        /\ MaxSize \in Nat
    BY <1>3, ContentFields, Constants
  <1>5. ItemsIn(a) = First(Lines(a)) /\ ItemsIn(c) = First(Lines(c))
    BY <1>3 DEF ItemsIn
  <1>6. First(Lines(a)) \subseteq First(Lines(c))
    BY <1>4
  <1> HIDE DEF First
  <1>7. DbItems(s) \cup (ItemsIn(c) \ ItemsIn(a)) = First(Lines(c))
    BY <1>1, <1>2, <1>5, <1>6
  <1> QED
    BY <1>4, <1>7 DEF TextOf, First

\* What is appended when nothing changed since the comparison: the lines by which
\* the file is longer; in any case, items.
LEMMA AppendsSuffix ==
    ASSUME NEW s \in Sids, NEW f \in Paths, src[f] \in Content, raw[s] \in Content,
           filePrefixMatches(raw[s], src[f])
    PROVE  AppendedItems(s, f, src[f], raw[s]) = ItemsIn(src[f]) \ ItemsIn(raw[s])
  <1> DEFINE a == raw[s]
             c == src[f]
             Lns(n) == {[ord |-> o, ver |-> c.ver] : o \in {k \in 0..MaxSize : k < n}}
  <1>1. a.ver = c.ver
    BY DEF filePrefixMatches
  <1>2. Lines(a) \in Nat /\ Lines(c) \in Nat /\ MaxSize \in Nat
    BY ContentFields, Constants
  <1>3. ItemsIn(a) = Lns(Lines(a)) /\ ItemsIn(c) = Lns(Lines(c))
    BY <1>1 DEF ItemsIn
  <1>4. AppendedItems(s, f, c, a) = {i \in ItemsIn(c) : Lines(a) <= i.ord /\ i.ord < Lines(c)}
    BY DEF AppendedItems
  <1>5. \A i \in Lns(Lines(c)) : i.ord \in Nat /\ i.ord < Lines(c) /\ (i \in Lns(Lines(a)) <=> i.ord < Lines(a))
    BY <1>2
  <1> HIDE DEF Lns, a, c
  <1>6. \A i \in ItemsIn(c) : (Lines(a) <= i.ord /\ i.ord < Lines(c)) <=> i \notin ItemsIn(a)
    BY <1>2, <1>3, <1>5
  <1>7. AppendedItems(s, f, c, a) = ItemsIn(c) \ ItemsIn(a)
    BY <1>4, <1>6
  <1> QED
    BY <1>7 DEF a, c

LEMMA AppendedType ==
    ASSUME NEW s \in Sids, NEW f \in Paths, src[f] \in Content, NEW text, NEW base
    PROVE  AppendedItems(s, f, text, base) \in SUBSET Item
  <1>1. ItemsIn(src[f]) \in SUBSET Item
    BY ItemsAreText
  <1>2. \A o \in 0..MaxSize : [ord |-> o, ver |-> 0] \in Item
    BY Constants DEF Item
  <1> QED
    BY <1>1, <1>2 DEF AppendedItems

\* AtMost orders copies of transcripts.
LEMMA AtMostOrder ==
    ASSUME NEW a \in Content, NEW b \in Content, NEW c \in Content
    PROVE  /\ AtMost(a, a) /\ (AtMost(a, b) /\ AtMost(b, c) => AtMost(a, c))
           /\ AtMost(a, b) => a.ver <= b.ver
           /\ filePrefixMatches(a, b) => AtMost(a, b)
  BY ContentFields DEF AtMost, filePrefixMatches

\* A session has one name.
LEMMA SessionNamed ==
    ASSUME NEW f \in Paths, NEW s \in Sids, NEW c \in Content, c.sid \notin Paths
    PROVE  SessionOf(f, c) = s <=> c.sid = Name(s) /\ (s \in Paths => s = f)
  BY Constants DEF SessionOf, Name

-----------------------------------------------------------------------------
(* What the scan does with a file *)

QueuedAs(o, f, c) ==
    /\ o \in Operation /\ o.file = f /\ o.text = c /\ o.stage = None /\ o.backup = None

QueuedType(o, f) == QueuedAs(o, f, src[f])

\* The managed raw file has what the transcript has.
Repairs(o, f) ==
    /\ raw[o.sid] = src[f] /\ o.id = o.sid /\ o.mode = "replace" /\ o.items = ItemsIn(src[f])

\* The transcript has grown.
Appends(o, f) ==
    LET suffix == ItemsIn(src[f]) \ ItemsIn(raw[o.sid]) IN
    /\ raw[o.sid] # None /\ filePrefixMatches(raw[o.sid], src[f])
    /\ ~Torn(raw[o.sid]) /\ ~Torn(src[f])
    /\ o.id = o.sid /\ o.mode = "append" /\ ~hasSourceSession(o.sid)
    /\ \/ o.items = {} /\ suffix \subseteq DbItems(o.sid)
       \/ NextOrdinal(o.sid) = Lines(raw[o.sid]) /\ o.items = suffix

\* The transcript is new, or new for the session.
Imports(o, f) ==
    /\ o.sid = SessionOf(f, src[f]) /\ ~hasSourceSession(o.sid)
    /\ o.mode = "replace" /\ o.items = ItemsIn(src[f])

\* p is the session that was known at the path, or None.
Route(o, f, p) ==
    \/ p # None /\ (o.sid = p \/ o.sid = SessionOf(f, src[f])) /\ idx[o.sid] # None
          /\ (Repairs(o, f) \/ Appends(o, f))
    \/ p # None /\ idx[o.sid] # None /\ o.id = o.sid /\ Imports(o, f)
    \/ p # None /\ idx[o.sid] = None /\ o.id = p /\ Imports(o, f)
    \/ p = None /\ idx[o.sid] = None /\ o.id = o.sid /\ Imports(o, f)

\* The batch is flushed: r is what the handling of file f still knows.
FlushRight(r, f) ==
    /\ r \in Resume /\ r.text = src[f] /\ hasSourceSession(r.sid)
    /\ r.prior # None => idx[r.prior] = f
    /\ r.at = "append" => r.prior = r.sid /\ raw[r.sid] # None /\ filePrefixMatches(raw[r.sid], src[f])
    /\ r.at = "parsed" => r.sid = SessionOf(f, src[f])

LookRight(l, f) ==
    /\ l.do \in {"skip", "reclaim", "flush", "torn", "mismatch", "queue"}
    /\ l.do # "queue" => l.op = None
    /\ l.do # "flush" => l.resume = None
    /\ l.do = "flush" => FlushRight(l.resume, f)
    /\ l.do = "flush" /\ l.see => l.resume.at = "append"
    /\ l.do = "reclaim" => src[f] \in seen \/ \E s \in Sids : raw[s] = src[f]
    /\ l.see /\ l.do \in {"skip", "reclaim"} => \E s \in Sids : raw[s] = src[f]
    /\ l.do = "queue" =>
          /\ QueuedType(l.op, f)
          /\ \E p \in Sids \cup {None} : (p # None => idx[p] = f) /\ Route(l.op, f, p)

LEMMA QueueType ==
    ASSUME TypeOK, NEW f \in Paths, NEW c \in Content, NEW id \in Sids, NEW s \in Sids,
           NEW mode \in {"replace", "append"}, NEW items \in SUBSET Item
    PROVE  LET l == Queue(id, s, mode, items, f, c) IN
           /\ l.do = "queue" /\ ~l.see /\ l.resume = None /\ QueuedAs(l.op, f, c)
           /\ l.op.id = id /\ l.op.sid = s /\ l.op.mode = mode /\ l.op.items = items
  <1> DEFINE o == [id |-> id, sid |-> s, mode |-> mode, items |-> items, file |-> f, text |-> c,
                   stage |-> None, backup |-> None]
  <1>2. o \in Operation
    BY DEF Operation
  <1>3. /\ o.file = f /\ o.text = c /\ o.stage = None /\ o.backup = None
        /\ o.id = id /\ o.sid = s /\ o.mode = mode /\ o.items = items
    OBVIOUS
  <1>4. Queue(id, s, mode, items, f, c) = [do |-> "queue", see |-> FALSE, resume |-> None, op |-> o]
    BY DEF Queue
  <1> HIDE DEF o
  <1> QED
    BY <1>2, <1>3, <1>4 DEF QueuedAs

\* What the handling of an existing session s comes to.
ExistingRight(l, s, f) ==
    /\ l.do \in {"reclaim", "flush", "torn", "mismatch", "queue", "unhandled"} /\ ~l.see
    /\ l.do # "queue" => l.op = None
    /\ l.do # "flush" => l.resume = None
    /\ l.do = "flush" => /\ hasSourceSession(s) /\ raw[s] # None /\ filePrefixMatches(raw[s], src[f])
                         /\ l.resume = [at |-> "append", sid |-> s, prior |-> s, text |-> src[f], base |-> raw[s]]
    /\ l.do = "reclaim" => raw[s] = src[f]
    /\ l.do = "unhandled" => raw[s] = None \/ (raw[s] # src[f] /\ ~filePrefixMatches(raw[s], src[f]))
    /\ l.do = "queue" => QueuedType(l.op, f) /\ l.op.sid = s /\ (Repairs(l.op, f) \/ Appends(l.op, f))

LEMMA Outcomes ==
    ASSUME NEW do
    PROVE  Outcome(do).do = do /\ Outcome(do).op = None /\ ~Outcome(do).see /\ Outcome(do).resume = None
  BY DEF Outcome

LEMMA Flushes ==
    ASSUME NEW at, NEW s, NEW p, NEW c, NEW base
    PROVE  LET l == FlushFirst(at, s, p, c, base) IN
           /\ l.do = "flush" /\ l.op = None /\ ~l.see
           /\ l.resume = [at |-> at, sid |-> s, prior |-> p, text |-> c, base |-> base]
  BY DEF FlushFirst

LEMMA RepairsBy ==
    ASSUME NEW o, NEW f, o.id = o.sid, o.mode = "replace", o.items = ItemsIn(raw[o.sid]), raw[o.sid] = src[f]
    PROVE  Repairs(o, f)
  BY DEF Repairs

LEMMA AppendsBy ==
    ASSUME NEW o, NEW f, raw[o.sid] # None, filePrefixMatches(raw[o.sid], src[f]),
           ~Torn(raw[o.sid]), ~Torn(src[f]), o.id = o.sid, o.mode = "append", ~hasSourceSession(o.sid),
           \/ o.items = {} /\ (ItemsIn(src[f]) \ ItemsIn(raw[o.sid])) \subseteq DbItems(o.sid)
           \/ NextOrdinal(o.sid) = Lines(raw[o.sid]) /\ o.items = ItemsIn(src[f]) \ ItemsIn(raw[o.sid])
    PROVE  Appends(o, f)
  BY Zenon DEF Appends

LEMMA QueuesRight ==
    ASSUME NEW l, NEW s, NEW f, l.do = "queue", ~l.see, l.resume = None, QueuedType(l.op, f), l.op.sid = s,
           Repairs(l.op, f) \/ Appends(l.op, f)
    PROVE  ExistingRight(l, s, f)
  BY DEF ExistingRight

LEMMA ExistingMeans ==
    ASSUME TypeOK, NEW f \in Paths, src[f] # None, NEW s \in Sids
    PROVE  ExistingRight(handleExistingChatImport(s, f, src[f]), s, f)
  <1> DEFINE c == src[f]
             l == handleExistingChatImport(s, f, c)
             suffix == ItemsIn(c) \ ItemsIn(raw[s])
  <1>0. c \in Content /\ raw[s] \in Content \cup {None} /\ s \in Sids
    BY DEF TypeOK
  <1>1. CASE raw[s] = None
    <2>1. l = Unhandled
      BY <1>1 DEF handleExistingChatImport
    <2> QED
      BY <1>1, <2>1, Outcomes DEF ExistingRight, Unhandled
  <1>2. CASE raw[s] # None /\ raw[s] = c
    <2>1. l = handleExactMatchChatImport(s, f)
      BY <1>2 DEF handleExistingChatImport
    <2>2. CASE Torn(raw[s])
      <3>1. l = Abort("torn")
        BY <2>1, <2>2 DEF handleExactMatchChatImport
      <3> QED
        BY <3>1, Outcomes DEF ExistingRight, Abort
    <2>3. CASE ~Torn(raw[s]) /\ DbItems(s) = ItemsIn(raw[s])
      <3>1. l = Reclaim
        BY <2>1, <2>3 DEF handleExactMatchChatImport
      <3> QED
        BY <1>2, <3>1, Outcomes DEF ExistingRight, Reclaim
    <2>4. CASE ~Torn(raw[s]) /\ DbItems(s) # ItemsIn(raw[s])
      <3>1. l = Queue(s, s, "replace", ItemsIn(raw[s]), f, c)
        BY <2>1, <2>4 DEF handleExactMatchChatImport
      <3>2. ItemsIn(raw[s]) \in SUBSET Item
        BY <1>0, <1>2, ItemsAreText
      <3>3. /\ l.do = "queue" /\ ~l.see /\ l.resume = None /\ QueuedType(l.op, f)
            /\ l.op.id = s /\ l.op.sid = s /\ l.op.mode = "replace" /\ l.op.items = ItemsIn(raw[s])
        BY <1>0, <3>1, <3>2, QueueType DEF QueuedType
      <3> HIDE DEF l
      <3>4. Repairs(l.op, f)
        BY <1>2, <3>3, RepairsBy
      <3>5. ExistingRight(l, s, f)
        BY <3>3, <3>4, QueuesRight
      <3> QED
        BY <3>5 DEF l
    <2> QED
      BY <2>2, <2>3, <2>4
  <1>3. CASE raw[s] # None /\ raw[s] # c /\ ~filePrefixMatches(raw[s], c)
    <2>1. l = Unhandled
      BY <1>3 DEF handleExistingChatImport
    <2> QED
      BY <1>3, <2>1, Outcomes DEF ExistingRight, Unhandled
  <1>4. CASE raw[s] # None /\ raw[s] # c /\ filePrefixMatches(raw[s], c) /\ hasSourceSession(s)
    <2>1. l = FlushFirst("append", s, s, c, raw[s])
      BY <1>4 DEF handleExistingChatImport
    <2>2. /\ l.do = "flush" /\ l.op = None /\ ~l.see
          /\ l.resume = [at |-> "append", sid |-> s, prior |-> s, text |-> c, base |-> raw[s]]
      BY <2>1, Flushes
    <2> HIDE DEF l
    <2>3. ExistingRight(l, s, f)
      BY <1>4, <2>2 DEF ExistingRight
    <2> QED
      BY <2>3 DEF l
  <1>5. CASE raw[s] # None /\ raw[s] # c /\ filePrefixMatches(raw[s], c) /\ ~hasSourceSession(s)
    <2>1. l = queueAppendJSONLChatImport(s, f, c, raw[s])
      BY <1>5 DEF handleExistingChatImport
    <2>0. AppendedItems(s, f, c, raw[s]) = suffix
      BY <1>0, <1>5, AppendsSuffix
    <2>2. suffix \in SUBSET Item /\ {} \in SUBSET Item
      BY <1>0, ItemsAreText
    <2>3. CASE Torn(raw[s]) \/ Torn(c)
      <3>1. l = Abort("torn")
        BY <1>5, <2>1, <2>3 DEF queueAppendJSONLChatImport
      <3> QED
        BY <3>1, Outcomes DEF ExistingRight, Abort
    <2>4. CASE ~Torn(raw[s]) /\ ~Torn(c) /\ suffix \subseteq DbItems(s)
      <3>1. l = Queue(s, s, "append", {}, f, c)
        BY <1>5, <2>0, <2>1, <2>4 DEF queueAppendJSONLChatImport, chatImportItemsAlreadyStored
      <3>2. /\ l.do = "queue" /\ ~l.see /\ l.resume = None /\ QueuedType(l.op, f)
            /\ l.op.id = s /\ l.op.sid = s /\ l.op.mode = "append" /\ l.op.items = {}
        BY <1>0, <2>2, <3>1, QueueType DEF QueuedType
      <3>3. l.op.sid = s /\ l.op.id = l.op.sid
        BY <3>2
      <3>4. l.op.items = {} /\ (ItemsIn(src[f]) \ ItemsIn(raw[l.op.sid])) \subseteq DbItems(l.op.sid)
        BY <2>4, <3>2, <3>3
      <3> HIDE DEF l
      <3>5. Appends(l.op, f)
        BY <1>5, <2>4, <3>2, <3>3, <3>4, AppendsBy
      <3>6. ExistingRight(l, s, f)
        BY <3>2, <3>5, QueuesRight
      <3> QED
        BY <3>6 DEF l
    <2>5. CASE ~Torn(raw[s]) /\ ~Torn(c) /\ ~(suffix \subseteq DbItems(s)) /\ NextOrdinal(s) # Lines(raw[s])
      <3>1. l = Abort("mismatch")
        BY <1>5, <2>0, <2>1, <2>5 DEF queueAppendJSONLChatImport, chatImportItemsAlreadyStored
      <3> QED
        BY <3>1, Outcomes DEF ExistingRight, Abort
    <2>6. CASE ~Torn(raw[s]) /\ ~Torn(c) /\ ~(suffix \subseteq DbItems(s)) /\ NextOrdinal(s) = Lines(raw[s])
      <3>1. l = Queue(s, s, "append", suffix, f, c)
        BY <1>5, <2>0, <2>1, <2>6 DEF queueAppendJSONLChatImport, chatImportItemsAlreadyStored
      <3>2. /\ l.do = "queue" /\ ~l.see /\ l.resume = None /\ QueuedType(l.op, f)
            /\ l.op.id = s /\ l.op.sid = s /\ l.op.mode = "append" /\ l.op.items = suffix
        BY <1>0, <2>2, <3>1, QueueType DEF QueuedType
      <3>3. l.op.sid = s /\ l.op.id = l.op.sid
        BY <3>2
      <3>4. NextOrdinal(l.op.sid) = Lines(raw[l.op.sid]) /\ l.op.items = ItemsIn(src[f]) \ ItemsIn(raw[l.op.sid])
        BY <2>6, <3>2, <3>3
      <3> HIDE DEF l
      <3>5. Appends(l.op, f)
        BY <1>5, <2>6, <3>2, <3>3, <3>4, AppendsBy
      <3>6. ExistingRight(l, s, f)
        BY <3>2, <3>5, QueuesRight
      <3> QED
        BY <3>6 DEF l
    <2> QED
      BY <2>3, <2>4, <2>5, <2>6
  <1> QED
    BY <1>1, <1>2, <1>3, <1>4, <1>5

\* A new file is queued, unless this run has already seen its text.
LEMMA NewMeans ==
    ASSUME TypeOK, NEW f \in Paths, src[f] # None, NEW p \in Sids \cup {None},
           NEW s \in Sids, s = SessionOf(f, src[f]), ~hasSourceSession(s)
    PROVE  LET l == importNewFile(f, src[f], p) IN
           \/ l = Reclaim /\ p = None /\ src[f] \in seen
           \/ /\ l.do = "queue" /\ l.resume = None /\ QueuedType(l.op, f) /\ Imports(l.op, f) /\ l.op.sid = s
              /\ l.op.id = IF p = None THEN s ELSE p
  <1> DEFINE c == src[f]
             known == IF p = None /\ Stored(s) THEN s ELSE p
             l == importNewFile(f, c, p)
             id == IF known = None THEN s ELSE known
  <1>0. c \in Content /\ ItemsIn(c) \in SUBSET Item
    BY ItemsAreText DEF TypeOK
  <1>1. known # None => known \in Sids
    OBVIOUS
  <1>2. id = (IF p = None THEN s ELSE p) /\ id \in Sids
    BY Constants
  <1>3. CASE known = None /\ c \in seen
    <2>1. p = None
      BY <1>3, Constants
    <2> QED
      BY <1>3, <2>1 DEF importNewFile
  <1>4. CASE ~(known = None /\ c \in seen)
    <2> DEFINE q == Queue(id, s, "replace", ItemsIn(c), f, c)
    <2>1. l = [q EXCEPT !.see = known = None]
      BY <1>4 DEF importNewFile
    <2>2. /\ q.do = "queue" /\ q.resume = None /\ QueuedType(q.op, f)
          /\ q.op.id = id /\ q.op.sid = s /\ q.op.mode = "replace" /\ q.op.items = ItemsIn(c)
      BY <1>0, <1>2, QueueType DEF QueuedType
    <2>3. DOMAIN q = {"do", "see", "op", "resume"}
      BY DEF Queue
    <2> HIDE DEF q, known, id
    <2>4. l.do = q.do /\ l.op = q.op /\ l.resume = q.resume
      BY <2>1, <2>3
    <2> HIDE DEF l
    <2>5. Imports(l.op, f)
      BY <2>2, <2>4 DEF Imports
    <2>6. l.do = "queue" /\ l.resume = None /\ QueuedType(l.op, f) /\ l.op.sid = s /\ l.op.id = (IF p = None THEN s ELSE p)
      BY <1>2, <2>2, <2>4
    <2> QED
      BY <2>5, <2>6 DEF l
  <1> QED
    BY <1>3, <1>4

LEMMA ExistingLooksRight ==
    ASSUME TypeOK, NEW l, NEW s \in Sids, NEW f \in Paths, src[f] # None, NEW p \in Sids, idx[p] = f, ExistingRight(l, s, f),
           l.do # "unhandled", s = p \/ s = SessionOf(f, src[f]), idx[s] # None,
           s = p \/ ~hasSourceSession(s)
    PROVE  /\ LookRight(l, f)
           /\ \A m : m.do = l.do /\ m.op = l.op /\ m.resume = l.resume => LookRight(m, f)
  <1>1. p # None
    BY Constants
  <1>2. ASSUME l.do = "queue" PROVE Route(l.op, f, p)
    <2>1. l.op.sid = s /\ (Repairs(l.op, f) \/ Appends(l.op, f))
      BY <1>2 DEF ExistingRight
    <2> QED
      BY <1>1, <2>1, Zenon DEF Route
  <1>3. l.do = "queue" => \E q \in Sids \cup {None} : (q # None => idx[q] = f) /\ Route(l.op, f, q)
    BY <1>2
  <1>4. ASSUME NEW m, m.do = l.do, m.op = l.op, m.resume = l.resume PROVE LookRight(m, f)
    <2>1. /\ m.do \in {"skip", "reclaim", "flush", "torn", "mismatch", "queue"}
          /\ m.do # "queue" => m.op = None
          /\ m.do # "flush" => m.resume = None
          /\ m.do = "reclaim" => raw[s] = src[f]
          /\ m.do # "skip"
          /\ m.do = "queue" => QueuedType(m.op, f)
      BY <1>4 DEF ExistingRight
    <2>2. m.do = "queue" => \E q \in Sids \cup {None} : (q # None => idx[q] = f) /\ Route(m.op, f, q)
      BY <1>3, <1>4
    <2>3. ASSUME m.do = "flush" PROVE FlushRight(m.resume, f) /\ m.resume.at = "append"
      <3>1. /\ hasSourceSession(s) /\ raw[s] # None /\ filePrefixMatches(raw[s], src[f]) /\ s = p
            /\ m.resume = [at |-> "append", sid |-> s, prior |-> s, text |-> src[f], base |-> raw[s]]
        BY <1>4, <2>3 DEF ExistingRight
      <3>2. src[f] \in Content /\ raw[s] \in Content \cup {None}
        BY DEF TypeOK
      <3>3. /\ m.resume \in Resume /\ m.resume.at = "append" /\ m.resume.sid = s /\ m.resume.prior = s
            /\ m.resume.text = src[f]
        BY <3>1, <3>2 DEF Resume
      <3> QED
        BY <3>1, <3>3 DEF FlushRight
    <2> QED
      BY <2>1, <2>2, <2>3, Zenon DEF LookRight
  <1> QED
    BY <1>4

LEMMA ParsedMeans ==
    ASSUME TypeOK, NEW f \in Paths, src[f] # None, NEW p \in Sids \cup {None}, p # None => idx[p] = f
    PROVE  LookRight(importParsed(f, src[f], p), f)
  <1> DEFINE c == src[f]
             s == SessionOf(f, c)
             again == handleExistingChatImport(s, f, c)
             l == importParsed(f, c, p)
  <1>0. c \in Content /\ s \in Sids /\ s # None
    <2>1. c \in Content
      BY DEF TypeOK
    <2>2. s \in Sids
      BY <2>1, ContentFields, Constants DEF SessionOf
    <2> QED
      BY <2>1, <2>2, Constants
  <1>1. CASE Torn(c) \/ c.size = 0
    <2>1. l = Skip
      BY <1>1 DEF importParsed
    <2> QED
      BY <2>1, Outcomes DEF LookRight, Skip
  <1>2. CASE ~(Torn(c) \/ c.size = 0) /\ hasSourceSession(s)
    <2>1. l = FlushFirst("parsed", s, p, c, None)
      BY <1>2 DEF importParsed
    <2>2. /\ l.do = "flush" /\ l.op = None /\ ~l.see
          /\ l.resume = [at |-> "parsed", sid |-> s, prior |-> p, text |-> c, base |-> None]
      BY <2>1, Flushes
    <2> HIDE DEF l
    <2>3. /\ l.resume \in Resume /\ l.resume.at = "parsed" /\ l.resume.sid = s /\ l.resume.prior = p
          /\ l.resume.text = c
      BY <1>0, <2>2 DEF Resume
    <2>5. FlushRight(l.resume, f)
      BY <1>2, <2>3 DEF FlushRight
    <2> HIDE DEF s, c
    <2>4. LookRight(l, f)
      BY <2>2, <2>5 DEF LookRight
    <2> QED
      BY <2>4 DEF l, c
  <1>3. CASE ~(Torn(c) \/ c.size = 0) /\ ~hasSourceSession(s) /\ idx[s] = None
    <2>1. l = importNewFile(f, c, p)
      BY <1>3 DEF importParsed
    <2>2. \/ l = Reclaim /\ p = None /\ c \in seen
          \/ /\ l.do = "queue" /\ l.resume = None /\ QueuedType(l.op, f) /\ Imports(l.op, f) /\ l.op.sid = s
             /\ l.op.id = IF p = None THEN s ELSE p
      BY <1>0, <1>3, <2>1, NewMeans
    <2> HIDE DEF l, s
    <2>3. CASE l = Reclaim /\ c \in seen
      <3>1. l.do = "reclaim" /\ l.op = None /\ l.resume = None /\ ~l.see
        BY <2>3, Outcomes DEF Reclaim
      <3>2. LookRight(l, f)
        BY <2>3, <3>1 DEF LookRight
      <3> QED
        BY <3>2 DEF l
    <2>4. CASE /\ l.do = "queue" /\ l.resume = None /\ QueuedType(l.op, f) /\ Imports(l.op, f) /\ l.op.sid = s
               /\ l.op.id = IF p = None THEN s ELSE p
      <3>1. Route(l.op, f, p)
        BY <1>3, <2>4 DEF Route
      <3>2. LookRight(l, f)
        BY <2>4, <3>1 DEF LookRight
      <3> QED
        BY <3>2 DEF l
    <2> QED
      BY <2>2, <2>3, <2>4
  <1>4. CASE ~(Torn(c) \/ c.size = 0) /\ ~hasSourceSession(s) /\ idx[s] # None /\ p = None
    <2>1. l = defendChatImportCollision(s, c)
      BY <1>4 DEF importParsed
    <2>2. l = (IF raw[s] = c THEN Reclaim ELSE Skip)
      BY <2>1 DEF defendChatImportCollision
    <2>3. l.op = None /\ l.resume = None /\ ~l.see /\ (l.do = "skip" \/ (l.do = "reclaim" /\ raw[s] = c))
      BY <2>2, Outcomes DEF Reclaim, Skip
    <2> HIDE DEF l, s
    <2>4. LookRight(l, f)
      BY <1>0, <2>3 DEF LookRight
    <2> QED
      BY <2>4 DEF l
  <1>5. CASE ~(Torn(c) \/ c.size = 0) /\ ~hasSourceSession(s) /\ idx[s] # None /\ p # None /\ again.do # "unhandled"
    <2>1. l = again
      BY <1>5 DEF importParsed
    <2>2. ExistingRight(again, s, f)
      BY <1>0, ExistingMeans
    <2>3. p \in Sids /\ idx[p] = f
      BY <1>5
    <2> HIDE DEF l, again
    <2>4. LookRight(again, f)
      BY <1>0, <1>5, <2>2, <2>3, ExistingLooksRight
    <2> QED
      BY <2>1, <2>4 DEF l
  <1>6. CASE ~(Torn(c) \/ c.size = 0) /\ ~hasSourceSession(s) /\ idx[s] # None /\ p # None /\ again.do = "unhandled"
    <2>1. l = importNewFile(f, c, s)
      BY <1>6 DEF importParsed
    <2>2. /\ l.do = "queue" /\ l.resume = None /\ QueuedType(l.op, f) /\ Imports(l.op, f) /\ l.op.sid = s
          /\ l.op.id = s
      BY <1>0, <1>6, <2>1, NewMeans
    <2> HIDE DEF l, s, again
    <2>3. Route(l.op, f, p)
      BY <1>6, <2>2 DEF Route
    <2>4. LookRight(l, f)
      BY <1>6, <2>2, <2>3 DEF LookRight
    <2> QED
      BY <2>4 DEF l
  <1> QED
    BY <1>1, <1>2, <1>3, <1>4, <1>5, <1>6

\* What a look at a file with a transcript comes to.
LEMMA LookMeans ==
    ASSUME TypeOK, NEW f \in Paths, src[f] # None
    PROVE  LookRight(Look(f, src[f]), f)
  <1>1. CASE existingByOriginalPath(f) = {}
    <2>1. Look(f, src[f]) = importParsed(f, src[f], None)
      BY <1>1 DEF Look
    <2> QED
      BY <2>1, ParsedMeans
  <1>2. CASE existingByOriginalPath(f) # {}
    <2> DEFINE s == CHOOSE x \in existingByOriginalPath(f) : TRUE
               l == handleExistingChatImport(s, f, src[f])
    <2>1. s \in Sids /\ idx[s] = f
      BY <1>2 DEF existingByOriginalPath
    <2>2. Look(f, src[f]) = IF l.do # "unhandled" THEN [l EXCEPT !.see = TRUE] ELSE importParsed(f, src[f], s)
      BY <1>2 DEF Look
    <2> HIDE DEF s
    <2>3. ExistingRight(l, s, f)
      BY <2>1, ExistingMeans
    <2> DEFINE m == [l EXCEPT !.see = TRUE]
    <2>4. m.do = l.do /\ m.op = l.op /\ m.resume = l.resume
      OBVIOUS
    <2> HIDE DEF l, m
    <2>5. CASE l.do # "unhandled"
      <3>1. s # None /\ f # None
        BY <2>1, Constants
      <3>2. LookRight(m, f)
        BY <2>1, <2>3, <2>4, <2>5, <3>1, ExistingLooksRight DEF existingByOriginalPath
      <3> QED
        BY <2>2, <2>5, <3>2 DEF m
    <2>6. CASE l.do = "unhandled"
      BY <2>1, <2>2, <2>6, ParsedMeans
    <2> QED
      BY <2>5, <2>6
  <1> QED
    BY <1>1, <1>2

\* What the handling of file f comes to when it goes on after a flush: what is
\* queued is for the session it was about, and is the file's text as it is now or
\* as it was before.
AfterRight(l, f) ==
    /\ l.do \in {"skip", "reclaim", "torn", "mismatch", "missing", "queue"}
    /\ l.do # "queue" => l.op = None
    /\ l.resume = None /\ ~l.see
    /\ l.do = "reclaim" => \E s \in Sids : raw[s] = src[f]
    /\ l.do = "queue" =>
          /\ l.op.sid = resume.sid /\ l.op.id = l.op.sid
          /\ QueuedType(l.op, f) \/ QueuedAs(l.op, f, resume.text)
          /\ \/ resume.at = "append"
             \/ /\ resume.at = "parsed" /\ resume.prior # None
                /\ \/ QueuedType(l.op, f) /\ (Repairs(l.op, f) \/ Appends(l.op, f))
                   \/ /\ QueuedAs(l.op, f, resume.text) /\ l.op.mode = "replace"
                      /\ l.op.items = ItemsIn(resume.text)
                      /\ \/ raw[resume.sid] = None
                         \/ raw[resume.sid] # src[f] /\ ~filePrefixMatches(raw[resume.sid], src[f])

LEMMA AppendAfter ==
    ASSUME TypeOK, NEW f \in Paths, src[f] # None, resume # None, resume.at = "append"
    PROVE  AfterRight(queueAppendJSONLChatImport(resume.sid, f, resume.text, resume.base), f)
  <1> DEFINE s == resume.sid
             new == AppendedItems(s, f, resume.text, resume.base)
             l == queueAppendJSONLChatImport(s, f, resume.text, resume.base)
  <1>0. src[f] \in Content /\ s \in Sids /\ resume.text \in Content
    BY DEF TypeOK, Resume
  <1>1. new \in SUBSET Item /\ {} \in SUBSET Item
    BY <1>0, AppendedType
  <1>2. \/ l = Abort("missing") \/ l = Abort("torn") \/ l = Abort("mismatch")
        \/ l = Queue(s, s, "append", {}, f, resume.text)
        \/ l = Queue(s, s, "append", new, f, resume.text)
    BY DEF queueAppendJSONLChatImport
  <1> HIDE DEF new, l
  <1>3. CASE l = Abort("missing") \/ l = Abort("torn") \/ l = Abort("mismatch")
    <2>1. l.do \in {"missing", "torn", "mismatch"} /\ l.op = None /\ l.resume = None /\ ~l.see
      BY <1>3, Outcomes DEF Abort
    <2>2. AfterRight(l, f)
      BY <2>1 DEF AfterRight
    <2> QED
      BY <2>2 DEF l
  <1>4. ASSUME NEW items \in SUBSET Item, l = Queue(s, s, "append", items, f, resume.text)
        PROVE  AfterRight(l, f)
    <2>1. /\ l.do = "queue" /\ ~l.see /\ l.resume = None /\ QueuedAs(l.op, f, resume.text)
          /\ l.op.id = s /\ l.op.sid = s
      BY <1>0, <1>4, QueueType
    <2> QED
      BY <2>1 DEF AfterRight
  <1>5. AfterRight(l, f)
    BY <1>1, <1>2, <1>3, <1>4 DEF l
  <1> QED
    BY <1>5 DEF l

LEMMA ImportAfter ==
    ASSUME TypeOK, NEW f \in Paths, src[f] # None, resume # None, resume.at = "parsed", pc = "scan"
    PROVE  AfterRight(importFlushed(f, src[f]), f)
  <1> DEFINE s == resume.sid
             c == src[f]
             again == handleExistingChatImport(s, f, c)
             l == importFlushed(f, c)
  <1>0. c \in Content /\ s \in Sids /\ resume.text \in Content /\ ~hasSourceSession(s)
    <2>1. batch = <<>>
      BY DEF TypeOK
    <2> QED
      BY <2>1 DEF TypeOK, Resume, hasSourceSession
  <1>1. CASE resume.prior = None
    <2>1. l = (IF raw[s] = c THEN Reclaim ELSE Skip)
      BY <1>1 DEF importFlushed, defendChatImportCollision
    <2>2. l.op = None /\ l.resume = None /\ ~l.see /\ (l.do = "skip" \/ (l.do = "reclaim" /\ raw[s] = c))
      BY <2>1, Outcomes DEF Reclaim, Skip
    <2> HIDE DEF l
    <2>3. AfterRight(l, f)
      BY <1>0, <2>2 DEF AfterRight
    <2> QED
      BY <2>3 DEF l
  <1>2. CASE resume.prior # None /\ again.do # "unhandled"
    <2>1. l = again
      BY <1>2 DEF importFlushed
    <2>2. ExistingRight(again, s, f)
      BY <1>0, ExistingMeans
    <2> HIDE DEF l, again
    <2>3. /\ l.do \in {"reclaim", "torn", "mismatch", "queue"} /\ ~l.see /\ l.resume = None
          /\ l.do # "queue" => l.op = None
          /\ l.do = "reclaim" => raw[s] = c
      BY <1>0, <1>2, <2>1, <2>2 DEF ExistingRight
    <2>4. l.do = "queue" => /\ QueuedType(l.op, f) /\ l.op.sid = s /\ l.op.id = l.op.sid
                           /\ (Repairs(l.op, f) \/ Appends(l.op, f))
      BY <2>1, <2>2 DEF ExistingRight, Repairs, Appends
    <2>5. AfterRight(l, f)
      BY <1>0, <1>2, <2>3, <2>4 DEF AfterRight
    <2> QED
      BY <2>5 DEF l
  <1>3. CASE resume.prior # None /\ again.do = "unhandled"
    <2>1. l = Queue(s, s, "replace", ItemsIn(resume.text), f, resume.text)
      BY <1>3 DEF importFlushed
    <2>2. ItemsIn(resume.text) \in SUBSET Item
      BY <1>0, ItemsAreText
    <2>5. ExistingRight(again, s, f)
      BY <1>0, ExistingMeans
    <2> HIDE DEF l, again
    <2>6. raw[s] = None \/ (raw[s] # c /\ ~filePrefixMatches(raw[s], c))
      BY <1>3, <2>5 DEF ExistingRight
    <2>3. /\ l.do = "queue" /\ ~l.see /\ l.resume = None /\ QueuedAs(l.op, f, resume.text)
          /\ l.op.id = s /\ l.op.sid = s /\ l.op.mode = "replace" /\ l.op.items = ItemsIn(resume.text)
      BY <1>0, <2>1, <2>2, QueueType
    <2>4. AfterRight(l, f)
      BY <1>3, <2>3, <2>6 DEF AfterRight
    <2> QED
      BY <2>4 DEF l
  <1> QED
    BY <1>1, <1>2, <1>3

-----------------------------------------------------------------------------
(* Types and the search index *)

LEMMA InitTypes == Init => TypeInv
  <1> SUFFICES ASSUME Init PROVE TypeInv
    OBVIOUS
  <1>1. AllItems = {}
    BY DEF Init, AllItems, DbItems, Stored
  <1>2. src \in [Paths -> Content \cup {None}]
    BY FilesAssumption DEF Init
  <1>5. /\ db \in [Sids -> Chat \cup {None}] /\ raw \in [Sids -> Content \cup {None}]
        /\ idx \in [Sids -> Paths \cup {None}]
    BY DEF Init
  <1>6. batch \in Seq(Operation) /\ promoting \in Seq(Operation) /\ Len(batch) = 0 /\ DOMAIN batch = {} /\ DOMAIN promoting = {}
    BY DEF Init
  <1>7. /\ (op # None) = (pc = "stage") /\ (promoting # <<>>) = (pc = "promote") /\ op \in Operation \cup {None}
        /\ triggers = (pc = "idle") \/ unindexed
    BY DEF Init
  <1>8. writes \in 0..MaxWrites /\ Len(batch) <= BatchSize
    BY <1>6, Constants DEF Init
  <1>3. TypeOK
    BY <1>2, <1>5, <1>6, <1>7, <1>8 DEF Init, TypeOK
  <1>4. BatchFits /\ IndexIsFull
    BY <1>1, Constants DEF Init, BatchFits, IndexIsFull
  <1> QED
    BY <1>3, <1>4 DEF TypeInv

LEMMA UnchangedTypes == TypeInv /\ UNCHANGED vars => TypeInv'
  BY DEF TypeInv, TypeOK, BatchFits, IndexIsFull, AllItems, DbItems, Stored, vars, importVars, budgets, history

LEMMA StartTypes == ASSUME TypeInv, StartImport PROVE TypeOK' /\ BatchFits'
  <1>1. idx' \in [Sids -> Paths \cup {None}]
    <2>1. \A s \in Sids : Stored(s) => db[s].orig \in Paths
      BY DEF TypeInv, TypeOK, Stored, Chat
    <2> QED
      BY <2>1 DEF StartImport, loadChatImportSessionIndex
  <1>2. expected' \subseteq Sids
    <2>1. \A g \in Paths : src[g] # None => SessionOf(g, src[g]) \in Sids
      BY Constants, ContentFields DEF TypeInv, TypeOK, SessionOf
    <2> QED
      BY <2>1 DEF StartImport, scanChatImportCompleteness
  <1>3. TypeOK'
    BY <1>1, <1>2 DEF TypeInv, TypeOK, StartImport, budgets, history
  <1>4. BatchFits'
    BY DEF TypeInv, BatchFits, StartImport
  <1> QED
    BY <1>3, <1>4

\* What the scan looked at was right, or the run stops.
ScanRight(l, f) ==
    /\ l.do \in {"skip", "reclaim", "flush", "torn", "mismatch", "missing", "queue"}
    /\ src[f] = None => l.do = "missing" /\ ~l.see
    /\ l.do # "queue" => l.op = None
    /\ l.do # "flush" => l.resume = None
    /\ l.do = "flush" => resume = None
    /\ src[f] # None /\ resume = None => LookRight(l, f)
    /\ src[f] # None /\ resume # None => AfterRight(l, f)

\* A step of the scan: file i, outcome l.
ScanStep(i, l) ==
    /\ i = Min(todo) /\ i \in todo /\ Files[i] \in Paths /\ ScanRight(l, Files[i])
    /\ pc = "scan" /\ op' = l.op /\ resume' = l.resume
    /\ pc' = CASE l.do = "queue" -> "stage"
               [] l.do = "flush" -> "commit"
               [] l.do \in {"skip", "reclaim"} -> "scan"
               [] OTHER -> "end"
    /\ todo' = IF l.do = "flush" THEN todo ELSE todo \ {i}
    /\ seen' = IF l.see THEN seen \cup {src[Files[i]]} ELSE seen
    /\ src' = IF l.do = "reclaim" /\ del THEN [src EXCEPT ![Files[i]] = None] ELSE src
    /\ reclaimed' = IF l.do = "reclaim" /\ del THEN reclaimed \cup {src[Files[i]]} ELSE reclaimed
    /\ batch' = IF pc' = "end" THEN <<>> ELSE batch
    /\ raced' = IF l.do = "queue" /\ src[Files[i]].ver # l.op.text.ver
                THEN raced \cup {[sid |-> l.op.sid, whole |-> TRUE]} ELSE raced
    /\ UNCHANGED <<db, raw, triggers, indexed, idx, promoting, expected, mut, del, gc, budgets,
                   purged, unindexed, discarded>>

LEMMA ScanSteps ==
    ASSUME TypeOK, ScanFile
    PROVE  \E i \in todo : \E l : ScanStep(i, l)
  <1> DEFINE i == Min(todo)
             f == Files[i]
             c == src[f]
             l == IF c = None THEN Abort("missing") ELSE IF resume # None THEN AfterFlush(f, c) ELSE Look(f, c)
  <1>1. i \in todo /\ f \in Paths
    BY NextPlace DEF TypeOK, ScanFile
  <1>2. ScanRight(l, f)
    <2>1. CASE c = None
      <3>1. l.do = "missing" /\ l.op = None /\ ~l.see /\ l.resume = None
        BY <2>1, Outcomes DEF Abort
      <3> HIDE DEF l
      <3> QED
        BY <2>1, <3>1 DEF ScanRight
    <2>2. CASE c # None /\ resume = None
      <3>1. LookRight(l, f)
        BY <1>1, <2>2, LookMeans
      <3> HIDE DEF l
      <3> QED
        BY <2>2, <3>1 DEF ScanRight, LookRight
    <2>3. CASE c # None /\ resume # None
      <3>1. l = AfterFlush(f, c) /\ pc = "scan" /\ resume.at \in {"append", "parsed"}
        BY <2>3 DEF ScanFile, TypeOK, Resume
      <3> HIDE DEF l
      <3>2. AfterRight(l, f)
        <4>1. CASE resume.at = "append"
          BY <1>1, <2>3, <3>1, <4>1, AppendAfter DEF AfterFlush
        <4>2. CASE resume.at = "parsed"
          BY <1>1, <2>3, <3>1, <4>2, ImportAfter DEF AfterFlush
        <4> QED
          BY <3>1, <4>1, <4>2
      <3> QED
        BY <2>3, <3>2 DEF ScanRight, AfterRight
    <2> QED
      BY <2>1, <2>2, <2>3
  <1>3. /\ pc = "scan" /\ op' = l.op /\ resume' = l.resume
        /\ pc' = CASE l.do = "queue" -> "stage"
                   [] l.do = "flush" -> "commit"
                   [] l.do \in {"skip", "reclaim"} -> "scan"
                   [] OTHER -> "end"
        /\ todo' = IF l.do = "flush" THEN todo ELSE todo \ {i}
        /\ seen' = IF l.see THEN seen \cup {c} ELSE seen
        /\ src' = IF l.do = "reclaim" /\ del THEN [src EXCEPT ![f] = None] ELSE src
        /\ reclaimed' = IF l.do = "reclaim" /\ del THEN reclaimed \cup {c} ELSE reclaimed
        /\ batch' = IF pc' = "end" THEN <<>> ELSE batch
        /\ raced' = IF l.do = "queue" /\ c.ver # l.op.text.ver
                    THEN raced \cup {[sid |-> l.op.sid, whole |-> TRUE]} ELSE raced
        /\ UNCHANGED <<db, raw, triggers, indexed, idx, promoting, expected, mut, del, gc, budgets,
                       purged, unindexed, discarded>>
    BY Zenon DEF ScanFile
  <1> HIDE DEF l
  <1>4. ScanStep(i, l)
    BY <1>1, <1>2, <1>3, Zenon DEF ScanStep
  <1> QED
    BY <1>1, <1>4, Zenon

LEMMA ScanTypes == ASSUME TypeInv, ScanFile PROVE TypeOK' /\ BatchFits'
  <1>1. TypeOK /\ BatchFits
    BY DEF TypeInv
  <1>2. PICK i, l : i \in todo /\ ScanStep(i, l)
    BY <1>1, ScanSteps
  <1> DEFINE f == Files[i]
  <1>3. /\ f \in Paths /\ ScanRight(l, f)
        /\ pc = "scan" /\ op' = l.op
        /\ pc' = CASE l.do = "queue" -> "stage"
                   [] l.do = "flush" -> "commit"
                   [] l.do \in {"skip", "reclaim"} -> "scan"
                   [] OTHER -> "end"
        /\ todo' \subseteq todo
        /\ seen' = IF l.see THEN seen \cup {src[f]} ELSE seen
        /\ src' = IF l.do = "reclaim" /\ del THEN [src EXCEPT ![f] = None] ELSE src
        /\ reclaimed' = IF l.do = "reclaim" /\ del THEN reclaimed \cup {src[f]} ELSE reclaimed
        /\ batch' = IF pc' = "end" THEN <<>> ELSE batch
    BY <1>2, Zenon DEF ScanStep
  <1>4. UNCHANGED <<db, raw, triggers, indexed, idx, promoting, expected, mut, del, gc, writes,
                    purged, unindexed>>
    BY <1>2 DEF ScanStep, budgets
  <1>5. src[f] \in Content \cup {None} /\ (l.do = "reclaim" => src[f] \in Content) /\ (l.see => src[f] \in Content)
    BY <1>1, <1>3 DEF TypeOK, ScanRight
  <1>6. src' \in [Paths -> Content \cup {None}] /\ seen' \subseteq Content /\ reclaimed' \subseteq Content
    <2>1. src \in [Paths -> Content \cup {None}] /\ seen \subseteq Content /\ reclaimed \subseteq Content
      BY <1>1 DEF TypeOK
    <2>2. src' \in [Paths -> Content \cup {None}]
      BY <1>3, <2>1
    <2>3. seen' \subseteq Content
      BY <1>3, <1>5, <2>1
    <2>4. reclaimed' \subseteq Content
      BY <1>3, <1>5, <2>1
    <2> QED
      BY <2>2, <2>3, <2>4
  <1>7. /\ pc' \in {"scan", "stage", "commit", "end"} /\ (pc' = "stage" <=> l.do = "queue")
        /\ (pc' = "commit" <=> l.do = "flush")
    BY <1>3 DEF ScanRight
  <1>8. op' \in Operation \cup {None} /\ (op' # None) = (pc' = "stage")
    <2>1. CASE l.do = "queue"
      <3>1. l.op \in Operation /\ l.op # None
        BY <1>3, <2>1, Constants DEF ScanRight, LookRight, AfterRight, QueuedType, QueuedAs
      <3> QED
        BY <1>3, <1>7, <2>1, <3>1
    <2>2. CASE l.do # "queue"
      <3>1. l.op = None
        BY <1>3, <2>2 DEF ScanRight
      <3> QED
        BY <1>3, <1>7, <2>2, <3>1
    <2> QED
      BY <2>1, <2>2
  <1>9. /\ batch' \in Seq(Operation) /\ Len(batch') < BatchSize /\ Len(batch') <= BatchSize
        /\ \A j \in DOMAIN batch' : batch'[j].stage # None
    <2>1. Len(batch) < BatchSize
      BY <1>1, <1>3 DEF BatchFits
    <2>2. CASE batch' = batch
      BY <1>1, <2>1, <2>2 DEF TypeOK
    <2>3. CASE batch' = <<>>
      BY <2>3, Constants
    <2> QED
      BY <1>3, <2>2, <2>3
  <1>10. l.do = "flush" => batch # <<>> /\ batch' = batch
    <2>1. ASSUME l.do = "flush" PROVE batch # <<>>
      <3>1. \E s : hasSourceSession(s)
        BY <1>3, <2>1 DEF ScanRight, LookRight, FlushRight
      <3> QED
        BY <3>1 DEF hasSourceSession
    <2> QED
      BY <1>3, <1>7, <2>1
  <1>11. BatchFits'
    BY <1>3, <1>7, <1>9, <1>10 DEF BatchFits
  <1>12. promoting' = promoting /\ (promoting # <<>>) = (pc = "promote") /\ (promoting' # <<>>) = (pc' = "promote")
    BY <1>1, <1>3, <1>4, <1>7 DEF TypeOK
  <1>13. (triggers = (pc = "idle") \/ unindexed)'
    BY <1>1, <1>3, <1>4, <1>7 DEF TypeOK
  <1>15. raced' \subseteq [sid : Sids, whole : BOOLEAN]
    <2> DEFINE z == [sid |-> l.op.sid, whole |-> TRUE]
    <2>1. raced' = raced \/ (l.do = "queue" /\ raced' = raced \cup {z})
      BY <1>2, Zenon DEF ScanStep
    <2>4. l.do = "queue" => l.op.sid \in Sids
      BY <1>3, <1>7, <1>8, OperationFields, Constants
    <2>2. l.do = "queue" => z \in [sid : Sids, whole : BOOLEAN]
      BY <2>4
    <2> HIDE DEF z
    <2>3. raced \subseteq [sid : Sids, whole : BOOLEAN]
      BY <1>1 DEF TypeOK
    <2> QED
      BY <2>1, <2>2, <2>3
  <1>16. /\ resume' \in Resume \cup {None}
         /\ resume' # None => pc' \in {"scan", "commit", "promote"} /\ todo' # {} /\ (pc' = "scan" => batch' = <<>>)
    <2>1. resume' = l.resume
      BY <1>2 DEF ScanStep
    <2>2. CASE l.do = "flush"
      <3>1. l.resume \in Resume /\ pc' = "commit"
        BY <1>3, <1>7, <2>2 DEF ScanRight, LookRight, FlushRight
      <3>2. todo' = todo /\ todo # {}
        BY <1>2, <2>2 DEF ScanStep
      <3> QED
        BY <2>1, <3>1, <3>2
    <2>3. CASE l.do # "flush"
      BY <1>3, <2>1, <2>3 DEF ScanRight
    <2> QED
      BY <2>2, <2>3
  <1>14. TypeOK'
    BY <1>15, <1>16, <1>1, <1>3, <1>4, <1>6, <1>7, <1>8, <1>9, <1>12, <1>13 DEF TypeOK
  <1> QED
    BY <1>11, <1>14

\* Only a scan or a flush knows of a file whose handling goes on.
ResumeFits ==
    /\ resume \in Resume \cup {None}
    /\ resume # None => pc \in {"scan", "commit", "promote"} /\ todo # {} /\ (pc = "scan" => batch = <<>>)

LEMMA ResumeTypes ==
    ASSUME TypeOK,
           \/ resume' = None
           \/ /\ UNCHANGED <<resume, todo>>
              /\ \/ UNCHANGED <<pc, batch>> \/ pc' \in {"commit", "promote"} \/ (pc' = "scan" /\ batch' = <<>>)
    PROVE  ResumeFits'
  BY DEF TypeOK, ResumeFits

LEMMA StartFailsTypes == ASSUME TypeInv, StartImportFails PROVE TypeOK' /\ BatchFits'
  <1>1. /\ TypeOK /\ BatchFits
        /\ UNCHANGED <<src, db, raw, indexed, pc, todo, idx, resume, op, batch, promoting, expected, seen,
                       mut, del, gc, writes, reclaimed, purged, raced>>
    BY DEF TypeInv, StartImportFails
  <1>2. unindexed' \in BOOLEAN /\ triggers' \in BOOLEAN /\ (triggers = (pc = "idle") \/ unindexed)'
    <2>1. triggers' \in {triggers, FALSE} /\ (unindexed' <=> unindexed \/ ~triggers') /\ unindexed' \in BOOLEAN /\ pc' = "idle"
      BY <1>1 DEF StartImportFails, TypeOK
    <2>2. triggers \in BOOLEAN
      BY <1>1 DEF TypeOK
    <2>3. triggers' = TRUE \/ triggers' = FALSE
      BY <2>1, <2>2
    <2> QED
      BY <2>1, <2>3
  <1>3. (op # None)' = (pc = "stage")' /\ (promoting # <<>>)' = (pc = "promote")'
    BY <1>1 DEF TypeOK
  <1>4. TypeOK'
    BY <1>1, <1>2, <1>3 DEF TypeOK
  <1>5. BatchFits'
    BY <1>1 DEF BatchFits
  <1> QED
    BY <1>4, <1>5

LEMMA NotListedTypes == ASSUME TypeInv, NotListed PROVE TypeOK' /\ BatchFits'
  <1>1. /\ TypeOK /\ BatchFits /\ resume' = None /\ todo' \subseteq todo
        /\ UNCHANGED <<src, db, raw, triggers, indexed, pc, idx, op, batch, promoting, expected, seen,
                       mut, del, gc, writes, reclaimed, purged, unindexed, raced>>
    BY DEF TypeInv, NotListed, budgets, history
  <1>2. (op # None)' = (pc = "stage")' /\ (promoting # <<>>)' = (pc = "promote")' /\ (triggers = (pc = "idle") \/ unindexed)'
    BY <1>1 DEF TypeOK
  <1>3. TypeOK'
    BY <1>1, <1>2 DEF TypeOK
  <1>4. BatchFits'
    BY <1>1 DEF BatchFits
  <1> QED
    BY <1>3, <1>4

LEMMA StageTypes == ASSUME TypeInv, StageFile PROVE TypeOK' /\ BatchFits'
  <1>1. TypeOK /\ BatchFits /\ pc = "stage" /\ op \in Operation /\ op.file \in Paths /\ op.sid \in Sids
    BY OperationFields DEF TypeInv, TypeOK, StageFile
  <1> DEFINE c == src[op.file]
  <1>2. c \in Content \cup {None}
    BY <1>1 DEF TypeOK
  <1>3. UNCHANGED <<src, db, raw, triggers, indexed, todo, idx, promoting, expected, seen, del, gc,
                   writes, reclaimed, purged, unindexed>>
    BY DEF StageFile, budgets
  <1>4. op' = None /\ raced' \subseteq [sid : Sids, whole : BOOLEAN]
    <2>1. raced \subseteq [sid : Sids, whole : BOOLEAN]
      BY <1>1 DEF TypeOK
    <2> DEFINE r == [sid |-> op.sid, whole |-> c.ver # op.text.ver]
    <2>2. r \in [sid : Sids, whole : BOOLEAN]
      BY <1>1
    <2>3. op' = None /\ (raced' = raced \/ raced' = raced \cup {r})
      BY Zenon DEF StageFile
    <2> QED
      BY <2>1, <2>2, <2>3
  <1>5. /\ batch' \in Seq(Operation) /\ Len(batch') <= BatchSize
        /\ \A j \in DOMAIN batch' : batch'[j].stage # None
        /\ BatchFits' /\ pc' \in {"scan", "commit", "end"} /\ mut' \in BOOLEAN
    <2>1. CASE c = None
      <3>1. pc' = "end" /\ batch' = <<>> /\ mut' = mut
        BY <2>1 DEF StageFile
      <3> QED
        BY <1>1, <3>1, Constants DEF BatchFits, TypeOK
    <2>2. CASE c # None
      <3> DEFINE o == [op EXCEPT !.stage = c]
      <3>1. batch' = Append(batch, o) /\ pc' = IF Len(batch') >= BatchSize THEN "commit" ELSE "scan"
        BY <2>2 DEF StageFile
      <3>2. mut' = TRUE
        BY <2>2 DEF StageFile
      <3>3. o \in Operation /\ o.stage # None
        <4>1. o \in Operation
          BY <1>1, <1>2, <2>2 DEF Operation
        <4>2. o.stage = c
          BY <1>1 DEF Operation
        <4> QED
          BY <2>2, <4>1, <4>2
      <3>4. batch \in Seq(Operation) /\ Len(batch) \in Nat /\ Len(batch) < BatchSize /\ \A j \in DOMAIN batch : batch[j].stage # None
        BY <1>1 DEF TypeOK, BatchFits
      <3> HIDE DEF o
      <3>5. /\ batch' \in Seq(Operation) /\ Len(batch') = Len(batch) + 1 /\ batch' # <<>>
            /\ DOMAIN batch' = DOMAIN batch \cup {Len(batch) + 1} /\ batch'[Len(batch) + 1] = o
            /\ \A j \in DOMAIN batch : batch'[j] = batch[j]
        BY <3>1, <3>3, <3>4, Appended
      <3>6. \A j \in DOMAIN batch' : batch'[j].stage # None
        BY <3>3, <3>4, <3>5
      <3>7. Len(batch') <= BatchSize
        BY <3>4, <3>5, Constants
      <3>8. BatchFits'
        BY <3>1, <3>4, <3>5, Constants DEF BatchFits
      <3> QED
        BY <3>1, <3>2, <3>5, <3>6, <3>7, <3>8
    <2> QED
      BY <2>1, <2>2
  <1>6. (op # None)' = (pc = "stage")' /\ (promoting # <<>>)' = (pc = "promote")' /\ (triggers = (pc = "idle") \/ unindexed)'
    BY <1>1, <1>3, <1>4, <1>5 DEF TypeOK
  <1>20. ResumeFits'
    BY <1>1, ResumeTypes DEF StageFile, TypeOK
  <1>7. TypeOK'
    BY <1>1, <1>3, <1>4, <1>5, <1>6, <1>20 DEF TypeOK, ResumeFits
  <1> QED
    BY <1>5, <1>7

LEMMA EndOfFilesTypes == ASSUME TypeInv, EndOfFiles PROVE TypeOK' /\ BatchFits'
  <1>1. pc = "scan" /\ pc' = (IF batch = <<>> THEN "end" ELSE "commit")
    BY DEF EndOfFiles
  <1>2. UNCHANGED <<src, db, raw, triggers, indexed, todo, idx, op, batch, promoting, expected, seen,
                    mut, del, err, gc, writes, reclaimed, purged, unindexed, raced>>
    BY DEF EndOfFiles, budgets, history
  <1>3. (op # None)' = (pc = "stage")' /\ (promoting # <<>>)' = (pc = "promote")' /\ (triggers = (pc = "idle") \/ unindexed)'
    BY <1>1, <1>2 DEF TypeInv, TypeOK
  <1>20. ResumeFits'
    BY <1>1, ResumeTypes DEF EndOfFiles, TypeInv, TypeOK
  <1>4. TypeOK'
    BY <1>1, <1>2, <1>3, <1>20 DEF TypeInv, TypeOK, ResumeFits
  <1>5. BatchFits'
    BY <1>1, <1>2 DEF TypeInv, BatchFits
  <1> QED
    BY <1>4, <1>5

LEMMA WriteTypes == ASSUME TypeInv, WriteChatImportBatch PROVE TypeOK' /\ BatchFits'
  <1> DEFINE result == FoldLeft(writeOp, db, batch)
  <1>1. /\ TypeOK /\ pc = "commit" /\ batch # <<>> /\ batch \in Seq(Operation) /\ db \in Store
        /\ \A i \in DOMAIN batch : batch[i].stage # None
    BY DEF TypeInv, TypeOK, BatchFits, WriteChatImportBatch, Store
  <1>2. batch' = <<>> /\ UNCHANGED <<src, raw, triggers, indexed, todo, idx, op, expected, seen, mut, del, gc, writes,
                   reclaimed, purged, unindexed, raced>>
    BY DEF WriteChatImportBatch, history
  <1>3. \/ result # None /\ db' = result /\ promoting' = batch /\ pc' = "promote"
        \/ pc' = "end" /\ UNCHANGED <<db, promoting>>
    BY Zenon DEF WriteChatImportBatch
  <1>4. result # None => result \in Store
    BY <1>1, BatchResult DEF Written
  <1> HIDE DEF result
  <1>5. /\ db' \in Store /\ pc' \in {"promote", "end"}
        /\ promoting' \in Seq(Operation) /\ (promoting' # <<>>) = (pc' = "promote")
        /\ \A i \in DOMAIN promoting' : promoting'[i].stage # None
    <2>1. CASE result # None /\ db' = result /\ promoting' = batch /\ pc' = "promote"
      BY <1>1, <1>4, <2>1
    <2>2. CASE pc' = "end" /\ UNCHANGED <<db, promoting>>
      BY <1>1, <2>2 DEF TypeOK, Store
    <2> QED
      BY <1>3, <2>1, <2>2
  <1>6. (op # None)' = (pc = "stage")' /\ (triggers = (pc = "idle") \/ unindexed)'
    BY <1>1, <1>2, <1>5 DEF TypeOK
  <1>7. batch' \in Seq(Operation) /\ Len(batch') = 0 /\ Len(batch') < BatchSize /\ Len(batch') <= BatchSize /\ DOMAIN batch' = {}
    BY <1>2, Constants
  <1>20. ResumeFits'
    BY <1>1, ResumeTypes DEF WriteChatImportBatch
  <1>8. TypeOK'
    BY <1>1, <1>2, <1>5, <1>6, <1>7, <1>20 DEF TypeOK, Store, ResumeFits
  <1>9. BatchFits'
    BY <1>5, <1>7 DEF BatchFits
  <1> QED
    BY <1>8, <1>9

LEMMA PromotedOperation ==
    ASSUME TypeOK, promoting # <<>>
    PROVE  /\ Head(promoting) \in Operation /\ Head(promoting).stage \in Content
           /\ promoting \in Seq(Operation) /\ Tail(promoting) \in Seq(Operation)
           /\ \A i \in DOMAIN Tail(promoting) : Tail(promoting)[i].stage # None
           /\ pc = "promote"
  <1>1. promoting \in Seq(Operation) /\ pc = "promote" /\ \A i \in DOMAIN promoting : promoting[i].stage # None
    BY DEF TypeOK
  <1>2. Head(promoting) \in Operation /\ Head(promoting).stage # None
    BY <1>1, HeadFirst
  <1>3. Head(promoting).stage \in Content
    BY <1>2, OperationFields
  <1>4. Tail(promoting) \in Seq(Operation) /\ \A i \in DOMAIN Tail(promoting) : Tail(promoting)[i].stage # None
    BY <1>1, HeadFirst
  <1> QED
    BY <1>1, <1>2, <1>3, <1>4

LEMMA BackedUp ==
    ASSUME NEW o \in Operation, NEW c \in Content
    PROVE  LET b == [o EXCEPT !.backup = c] IN
           /\ b \in Operation /\ b.backup = c
           /\ b.id = o.id /\ b.sid = o.sid /\ b.mode = o.mode /\ b.items = o.items /\ b.file = o.file
           /\ b.text = o.text /\ b.stage = o.stage
  BY DEF Operation

LEMMA BackupTypes == ASSUME TypeInv, promoteBackup PROVE TypeOK' /\ BatchFits'
  <1> DEFINE o == Head(promoting)
             b == [o EXCEPT !.backup = raw[o.id]]
             t == Tail(promoting)
  <1>1. TypeOK /\ promoting # <<>> /\ BatchFits
    BY DEF TypeInv, promoteBackup
  <1>2. /\ o \in Operation /\ o.stage \in Content /\ promoting \in Seq(Operation) /\ pc = "promote"
        /\ \A i \in DOMAIN promoting : promoting[i].stage # None
    BY <1>1, PromotedOperation DEF TypeOK
  <1>3. raw[o.id] \in Content /\ raw' = [raw EXCEPT ![o.id] = None]
    BY <1>1, <1>2, OperationFields DEF promoteBackup, TypeOK
  <1>4. b \in Operation /\ b.stage # None
    BY <1>2, <1>3, BackedUp, Constants
  <1>5. promoting' = <<b>> \o t
    BY DEF promoteBackup
  <1>6. UNCHANGED <<src, db, triggers, indexed, pc, todo, idx, op, batch, expected, seen, mut, del, err,
                   gc, writes, reclaimed, purged, unindexed, raced>>
    BY DEF promoteBackup, budgets, history
  <1> HIDE DEF b
  <1>7. /\ promoting' \in Seq(Operation) /\ promoting' # <<>> /\ DOMAIN promoting' = DOMAIN promoting
        /\ promoting'[1] = b /\ \A i \in DOMAIN promoting : i # 1 => promoting'[i] = promoting[i]
    BY <1>1, <1>2, <1>4, <1>5, HeadReplaced
  <1>8. \A i \in DOMAIN promoting' : promoting'[i].stage # None
    BY <1>2, <1>4, <1>7
  <1>9. raw' \in [Sids -> Content \cup {None}]
    BY <1>1, <1>3 DEF TypeOK
  <1>10. (promoting # <<>>)' = (pc = "promote")' /\ (op # None)' = (pc = "stage")' /\ (triggers = (pc = "idle") \/ unindexed)'
    BY <1>1, <1>2, <1>6, <1>7 DEF TypeOK
  <1>20. ResumeFits'
    <2>1. UNCHANGED <<resume, todo, pc, batch>>
      BY DEF promoteBackup
    <2> QED
      BY <1>1, <2>1 DEF TypeOK, ResumeFits
  <1>11. TypeOK'
    BY <1>1, <1>6, <1>7, <1>8, <1>9, <1>10, <1>20 DEF TypeOK, ResumeFits
  <1>12. BatchFits'
    BY <1>1, <1>6 DEF BatchFits
  <1> QED
    BY <1>11, <1>12

LEMMA RenameTypes == ASSUME TypeInv, promoteRename PROVE TypeOK' /\ BatchFits'
  <1> DEFINE o == Head(promoting)
             t == Tail(promoting)
  <1>1. TypeOK /\ promoting # <<>> /\ BatchFits
    BY DEF TypeInv, promoteRename
  <1>2. /\ o \in Operation /\ o.stage \in Content /\ t \in Seq(Operation) /\ pc = "promote"
        /\ \A i \in DOMAIN t : t[i].stage # None
    BY <1>1, PromotedOperation
  <1>3. o.id \in Sids /\ o.sid \in Sids /\ o.file \in Paths
    BY <1>2, OperationFields
  <1>4. /\ raw' = [raw EXCEPT ![o.id] = o.stage]
        /\ idx' = [idx EXCEPT ![o.sid] = o.file]
        /\ src' = (IF del THEN [src EXCEPT ![o.file] = None] ELSE src)
        /\ reclaimed' = (IF del THEN reclaimed \cup {o.stage} ELSE reclaimed)
        /\ promoting' = t
        /\ pc' = (IF t = <<>> THEN "scan" ELSE pc)
    BY Zenon DEF promoteRename
  <1>5. UNCHANGED <<db, triggers, indexed, todo, op, batch, expected, seen, mut, del, gc, writes,
                    purged, unindexed, raced>>
    BY DEF promoteRename, budgets
  <1> HIDE DEF o, t
  <1>6. raw' \in [Sids -> Content \cup {None}] /\ idx' \in [Sids -> Paths \cup {None}]
    BY <1>1, <1>2, <1>3, <1>4 DEF TypeOK
  <1>7. src' \in [Paths -> Content \cup {None}]
    BY <1>1, <1>4 DEF TypeOK
  <1>8. reclaimed' \subseteq Content
    BY <1>1, <1>2, <1>4 DEF TypeOK
  <1>9. pc' \in {"scan", "promote"} /\ (promoting' # <<>>) = (pc' = "promote")
    BY <1>2, <1>4
  <1>10. (op # None)' = (pc = "stage")' /\ (triggers = (pc = "idle") \/ unindexed)'
    BY <1>1, <1>2, <1>5, <1>9 DEF TypeOK
  <1>20. ResumeFits'
    BY <1>1, ResumeTypes DEF promoteRename, TypeInv, BatchFits
  <1>11. TypeOK'
    BY <1>1, <1>2, <1>4, <1>5, <1>6, <1>7, <1>8, <1>9, <1>10, <1>20 DEF TypeOK, ResumeFits
  <1>12. BatchFits'
    BY <1>1, <1>2, <1>5, <1>9 DEF BatchFits
  <1> QED
    BY <1>11, <1>12

LEMMA FailsTypes == ASSUME TypeInv, promoteFails PROVE TypeOK' /\ BatchFits'
  <1> DEFINE o == Head(promoting)
  <1>1. TypeOK /\ promoting # <<>> /\ BatchFits
    BY DEF TypeInv, promoteFails
  <1>2. o \in Operation /\ pc = "promote"
    BY <1>1, PromotedOperation
  <1>3. o.id \in Sids /\ o.backup \in Content \cup {None}
    BY <1>2, OperationFields
  <1>4. /\ raw' = (IF o.backup # None THEN [raw EXCEPT ![o.id] = o.backup] ELSE raw)
        /\ promoting' = <<>> /\ pc' = "end"
        /\ UNCHANGED <<src, db, triggers, indexed, todo, idx, op, batch, expected, seen, mut, del, gc, writes,
                       reclaimed, purged, unindexed, raced>>
    BY DEF promoteFails, history
  <1> HIDE DEF o
  <1>5. raw' \in [Sids -> Content \cup {None}]
    BY <1>1, <1>3, <1>4 DEF TypeOK
  <1>6. promoting' \in Seq(Operation) /\ DOMAIN promoting' = {} /\ (promoting # <<>>)' = (pc = "promote")'
    BY <1>4
  <1>7. (op # None)' = (pc = "stage")' /\ (triggers = (pc = "idle") \/ unindexed)'
    BY <1>1, <1>2, <1>4 DEF TypeOK
  <1>20. ResumeFits'
    BY <1>1, ResumeTypes DEF promoteFails
  <1>8. TypeOK'
    BY <1>1, <1>4, <1>5, <1>6, <1>7, <1>20 DEF TypeOK, ResumeFits
  <1>9. BatchFits'
    BY <1>1, <1>2, <1>4 DEF BatchFits
  <1> QED
    BY <1>8, <1>9

LEMMA StoredItems ==
    ASSUME TypeOK, NEW s \in Sids
    PROVE  DbItems(s) \in SUBSET Item
  BY DEF TypeOK, DbItems, Stored, Chat

LEMMA AllItemsType ==
    ASSUME TypeOK
    PROVE  AllItems \subseteq [sid : Sids, ord : 0..MaxSize, ver : 0..(MaxWrites + 2)]
  BY StoredItems, ItemFields DEF AllItems

LEMMA EndTypes == ASSUME TypeInv, RunChatImportBulkMode PROVE TypeOK' /\ BatchFits'
  <1>1. TypeOK /\ BatchFits /\ pc = "end"
    BY DEF TypeInv, RunChatImportBulkMode
  <1>2. indexed' \subseteq [sid : Sids, ord : 0..MaxSize, ver : 0..(MaxWrites + 2)]
    <2>1. indexed' = AllItems \/ indexed' = indexed
      BY DEF RunChatImportBulkMode, rebuildChatItemFTS
    <2> QED
      BY <1>1, <2>1, AllItemsType DEF TypeOK
  <1>3. /\ triggers' = TRUE /\ unindexed' \in BOOLEAN /\ pc' = "idle" /\ todo' = {} /\ idx' = [s \in Sids |-> None]
        /\ seen' = {} /\ mut' = FALSE /\ del' = FALSE /\ expected' = {}
        /\ UNCHANGED <<src, db, raw, op, batch, promoting, gc, writes, reclaimed, purged, raced>>
    BY <1>1 DEF RunChatImportBulkMode, Reset, createChatItemFTSTriggers, budgets, TypeOK
  <1>4. idx' \in [Sids -> Paths \cup {None}]
    BY <1>3
  <1>5. (op # None)' = (pc = "stage")' /\ (promoting # <<>>)' = (pc = "promote")' /\ (triggers = (pc = "idle") \/ unindexed)'
    BY <1>1, <1>3 DEF TypeOK
  <1>20. ResumeFits'
    BY <1>1, ResumeTypes DEF RunChatImportBulkMode, TypeOK
  <1>6. TypeOK'
    BY <1>1, <1>2, <1>3, <1>4, <1>5, <1>20 DEF TypeOK, ResumeFits
  <1>7. BatchFits'
    BY <1>1, <1>3 DEF BatchFits
  <1> QED
    BY <1>6, <1>7

LEMMA BulkFailsTypes == ASSUME TypeInv, BulkModeFails PROVE TypeOK' /\ BatchFits'
  <1>1. TypeOK /\ BatchFits /\ pc = "end"
    BY DEF TypeInv, BulkModeFails
  <1>2. indexed' \subseteq [sid : Sids, ord : 0..MaxSize, ver : 0..(MaxWrites + 2)]
    <2>1. indexed' = AllItems \/ indexed' = indexed
      BY DEF BulkModeFails, rebuildChatItemFTS
    <2> QED
      BY <1>1, <2>1, AllItemsType DEF TypeOK
  <1>3. /\ unindexed' = TRUE /\ pc' = "idle" /\ todo' = {} /\ idx' = [s \in Sids |-> None]
        /\ seen' = {} /\ mut' = FALSE /\ del' = FALSE /\ expected' = {}
        /\ UNCHANGED <<src, db, raw, resume, op, batch, promoting, gc, writes, reclaimed, purged, raced>>
    BY DEF BulkModeFails, Reset
  <1>8. triggers' \in BOOLEAN
    <2>1. triggers' \in {TRUE, triggers}
      BY Zenon DEF BulkModeFails, createChatItemFTSTriggers
    <2> QED
      BY <1>1, <2>1 DEF TypeOK
  <1>4. idx' \in [Sids -> Paths \cup {None}]
    BY <1>3
  <1>5. (op # None)' = (pc = "stage")' /\ (promoting # <<>>)' = (pc = "promote")' /\ (triggers = (pc = "idle") \/ unindexed)'
    BY <1>1, <1>3, <1>8 DEF TypeOK
  <1>20. ResumeFits'
    BY <1>1, <1>3, ResumeTypes DEF TypeOK
  <1>6. TypeOK'
    BY <1>1, <1>2, <1>3, <1>4, <1>5, <1>8, <1>20 DEF TypeOK, ResumeFits
  <1>7. BatchFits'
    BY <1>1, <1>3 DEF BatchFits
  <1> QED
    BY <1>6, <1>7

LEMMA CrashTypes == ASSUME TypeInv, Crash PROVE TypeOK' /\ BatchFits'
  <1>1. TypeOK
    BY DEF TypeInv
  <1>2. /\ pc' = "idle" /\ todo' = {} /\ idx' = [s \in Sids |-> None] /\ seen' = {}
        /\ op' = None /\ batch' = <<>> /\ promoting' = <<>> /\ mut' = FALSE /\ del' = FALSE
        /\ expected' = {} /\ unindexed' = TRUE
        /\ UNCHANGED <<src, db, raw, triggers, indexed, gc, writes, reclaimed, purged, raced>>
    BY DEF Crash, Reset
  <1>3. idx' \in [Sids -> Paths \cup {None}]
    BY <1>2
  <1>4. /\ batch' \in Seq(Operation) /\ promoting' \in Seq(Operation) /\ Len(batch') = 0 /\ DOMAIN batch' = {}
        /\ DOMAIN promoting' = {} /\ 0 <= BatchSize /\ 0 < BatchSize
    BY <1>2, Constants
  <1>5. (op # None)' = (pc = "stage")' /\ (promoting # <<>>)' = (pc = "promote")' /\ (triggers = (pc = "idle") \/ unindexed)'
    BY <1>2
  <1>20. ResumeFits'
    BY <1>1, ResumeTypes DEF Crash
  <1>6. TypeOK'
    BY <1>1, <1>2, <1>3, <1>4, <1>5, <1>20 DEF TypeOK, ResumeFits
  <1>7. BatchFits'
    BY <1>2, <1>4 DEF BatchFits
  <1> QED
    BY <1>6, <1>7

\* What an agent writes.
LEMMA WrittenContents ==
    ASSUME TypeOK, writes < MaxWrites, NEW f \in Paths, NEW c \in NextContents(f)
    PROVE  /\ src[f] \in Content /\ c \in Content
           /\ \/ c.sid = src[f].sid /\ c.ver = src[f].ver /\ src[f].size < c.size
              \/ /\ c.ver = writes + 3
                 /\ c.sid = src[f].sid \/ (src[f].sid # None /\ c.sid \in FreshSids)
  <1>1. src[f] \in Content
    BY DEF TypeOK, NextContents
  <1>2. src[f] # None
    BY <1>1, Constants
  <1>3. writes \in Nat /\ writes + 3 \in 1..(MaxWrites + 2) /\ 2 \in 0..MaxSize
    BY Constants DEF TypeOK
  <1>4. CASE \E n \in {k \in {src[f].size + 1, src[f].size + 2} : k <= MaxSize} : c = [src[f] EXCEPT !.size = n]
    <2>1. PICK n \in {k \in {src[f].size + 1, src[f].size + 2} : k <= MaxSize} : c = [src[f] EXCEPT !.size = n]
      BY <1>4
    <2>2. n \in 0..MaxSize /\ src[f].size < n
      BY <1>1, ContentFields
    <2>3. c \in Content /\ c.sid = src[f].sid /\ c.ver = src[f].ver /\ c.size = n
      BY <1>1, <2>1, <2>2 DEF Content
    <2> QED
      BY <1>1, <2>2, <2>3
  <1>5. CASE \E s \in {src[f].sid} \cup (IF src[f].sid = None THEN {} ELSE FreshSids) :
                c = [sid |-> s, ver |-> writes + 3, size |-> 2]
    <2>1. PICK s \in {src[f].sid} \cup (IF src[f].sid = None THEN {} ELSE FreshSids) :
                c = [sid |-> s, ver |-> writes + 3, size |-> 2]
      BY <1>5
    <2>2. s \in Sids \cup {None}
      BY <1>1, <2>1, ContentFields DEF FreshSids
    <2>3. c \in Content /\ c.sid = s /\ c.ver = writes + 3
      BY <1>3, <2>1, <2>2 DEF Content
    <2>4. s = src[f].sid \/ (src[f].sid # None /\ s \in FreshSids)
      BY <2>1
    <2> QED
      BY <1>1, <2>3, <2>4
  <1> QED
    BY <1>2, <1>4, <1>5 DEF NextContents

LEMMA AgentTypes == ASSUME TypeInv, AgentWrites \/ AgentRemoves PROVE TypeOK' /\ BatchFits'
  <1>1. TypeOK /\ BatchFits /\ writes < MaxWrites /\ writes' = writes + 1
    BY DEF TypeInv, AgentWrites, AgentRemoves
  <1>2. UNCHANGED <<db, raw, triggers, indexed, pc, todo, idx, op, batch, promoting, expected, seen, mut, del, gc,
                    reclaimed, purged, unindexed, raced>>
    BY DEF AgentWrites, AgentRemoves, importVars
  <1>3. src' \in [Paths -> Content \cup {None}]
    <2>1. CASE AgentWrites
      <3>1. PICK f \in Paths : \E c \in NextContents(f) : src' = [src EXCEPT ![f] = c]
        BY <2>1 DEF AgentWrites
      <3>2. PICK c \in NextContents(f) : src' = [src EXCEPT ![f] = c]
        BY <3>1
      <3>3. c \in Content
        BY <1>1, <3>2, WrittenContents
      <3> QED
        BY <1>1, <3>2, <3>3 DEF TypeOK
    <2>2. CASE AgentRemoves
      <3>1. PICK f \in Paths : src' = [src EXCEPT ![f] = None]
        BY <2>2 DEF AgentRemoves
      <3> QED
        BY <1>1, <3>1 DEF TypeOK
    <2> QED
      BY <2>1, <2>2
  <1>4. writes' \in 0..MaxWrites
    BY <1>1, Constants DEF TypeOK
  <1>5. (op # None)' = (pc = "stage")' /\ (promoting # <<>>)' = (pc = "promote")' /\ (triggers = (pc = "idle") \/ unindexed)'
    BY <1>1, <1>2 DEF TypeOK
  <1>20. ResumeFits'
    <2>1. UNCHANGED <<resume, todo, pc, batch>>
      BY DEF AgentWrites, AgentRemoves, importVars
    <2> QED
      BY <1>1, <2>1 DEF TypeOK, ResumeFits
  <1>6. TypeOK'
    BY <1>1, <1>2, <1>3, <1>4, <1>5, <1>20 DEF TypeOK, ResumeFits
  <1>7. BatchFits'
    BY <1>1, <1>2 DEF BatchFits
  <1> QED
    BY <1>6, <1>7

\* Trashing and restoring touches the mark only.
LEMMA UserEffect ==
    ASSUME TypeOK, NEW s \in Sids, User(s)
    PROVE  /\ db' \in [Sids -> Chat \cup {None}]
           /\ \A t \in Sids : /\ db'[t] = None <=> db[t] = None
                              /\ db[t] # None => db'[t].orig = db[t].orig /\ db'[t].items = db[t].items
           /\ gc' \subseteq [sid : Sids, at : {"row", "raw"}]
           /\ \A g \in gc' : g \in gc \/ g.at = "row"
  <1>1. db \in [Sids -> Chat \cup {None}] /\ db[s] \in Chat /\ gc \subseteq [sid : Sids, at : {"row", "raw"}]
    BY DEF TypeOK, User, Stored
  <1>2. \/ \E m \in BOOLEAN : db' = [db EXCEPT ![s].del = m] /\ gc' = gc
        \/ gc' = gc \cup {[sid |-> s, at |-> "row"]} /\ db' = db
    BY DEF User
  <1>3. CASE gc' = gc \cup {[sid |-> s, at |-> "row"]} /\ db' = db
    BY <1>1, <1>3
  <1>4. CASE \E m \in BOOLEAN : db' = [db EXCEPT ![s].del = m] /\ gc' = gc
    <2>1. PICK m \in BOOLEAN : db' = [db EXCEPT ![s].del = m] /\ gc' = gc
      BY <1>4
    <2> DEFINE chat == [db[s] EXCEPT !.del = m]
    <2>2. chat \in Chat /\ chat # None /\ chat.orig = db[s].orig /\ chat.items = db[s].items
      <3>1. chat \in Chat /\ chat.orig = db[s].orig /\ chat.items = db[s].items
        BY <1>1 DEF Chat
      <3> QED
        BY <3>1, Constants
    <2>3. db' = [db EXCEPT ![s] = chat] /\ db[s] # None
      BY <1>1, <2>1, Constants
    <2> HIDE DEF chat
    <2>4. db' \in [Sids -> Chat \cup {None}] /\ db'[s] = chat /\ \A t \in Sids : t # s => db'[t] = db[t]
      BY <1>1, <2>2, <2>3
    <2> QED
      BY <1>1, <2>1, <2>2, <2>3, <2>4
  <1> QED
    BY <1>2, <1>3, <1>4

LEMMA UserTypes == ASSUME TypeInv, NEW s \in Sids, User(s) PROVE TypeOK' /\ BatchFits'
  <1>1. TypeOK /\ BatchFits
    BY DEF TypeInv
  <1>2. UNCHANGED <<src, raw, triggers, indexed, pc, todo, idx, op, batch, promoting, expected, seen, mut, del,
                    writes, reclaimed, purged, unindexed, raced>>
    BY DEF User, importVars, history
  <1>3. db' \in [Sids -> Chat \cup {None}] /\ gc' \subseteq [sid : Sids, at : {"row", "raw"}]
    BY <1>1, UserEffect
  <1>4. (op # None)' = (pc = "stage")' /\ (promoting # <<>>)' = (pc = "promote")' /\ (triggers = (pc = "idle") \/ unindexed)'
    BY <1>1, <1>2 DEF TypeOK
  <1>20. ResumeFits'
    <2>1. UNCHANGED <<resume, todo, pc, batch>>
      BY DEF User, importVars
    <2> QED
      BY <1>1, <2>1 DEF TypeOK, ResumeFits
  <1>5. TypeOK'
    BY <1>1, <1>2, <1>3, <1>4, <1>20 DEF TypeOK, ResumeFits
  <1>6. BatchFits'
    BY <1>1, <1>2 DEF BatchFits
  <1> QED
    BY <1>5, <1>6

LEMMA CollectTypes == ASSUME TypeInv, NEW s \in Sids, GCRow(s) \/ GCRaw(s) PROVE TypeOK' /\ BatchFits'
  <1>1. TypeOK /\ BatchFits
    BY DEF TypeInv
  <1>2. UNCHANGED <<src, triggers, pc, todo, idx, op, batch, promoting, expected, seen, mut, del,
                    writes, reclaimed, unindexed, raced>>
    BY DEF GCRow, GCRaw, importVars, budgets, history
  <1>3. /\ db \in [Sids -> Chat \cup {None}] /\ raw \in [Sids -> Content \cup {None}]
        /\ indexed \subseteq [sid : Sids, ord : 0..MaxSize, ver : 0..(MaxWrites + 2)]
        /\ gc \subseteq [sid : Sids, at : {"row", "raw"}] /\ purged \subseteq Sids
    BY <1>1 DEF TypeOK
  <1>4. /\ db' = [db EXCEPT ![s] = None] \/ db' = db
        /\ raw' = [raw EXCEPT ![s] = None] \/ raw' = raw
        /\ indexed' = Unindex(s) \/ indexed' = indexed
        /\ purged' = purged \cup {s} \/ purged' = purged
        /\ gc' \subseteq gc \cup {[sid |-> s, at |-> "raw"]}
    BY DEF GCRow, GCRaw, history
  <1>5. db' \in [Sids -> Chat \cup {None}]
    BY <1>3, <1>4
  <1>6. raw' \in [Sids -> Content \cup {None}]
    BY <1>3, <1>4
  <1>7. indexed' \subseteq [sid : Sids, ord : 0..MaxSize, ver : 0..(MaxWrites + 2)]
    BY <1>3, <1>4 DEF Unindex
  <1>8. gc' \subseteq [sid : Sids, at : {"row", "raw"}] /\ purged' \subseteq Sids
    BY <1>3, <1>4
  <1>9. (op # None)' = (pc = "stage")' /\ (promoting # <<>>)' = (pc = "promote")' /\ (triggers = (pc = "idle") \/ unindexed)'
    BY <1>1, <1>2 DEF TypeOK
  <1>20. ResumeFits'
    <2>1. UNCHANGED <<resume, todo, pc, batch>>
      BY DEF GCRow, GCRaw, importVars
    <2> QED
      BY <1>1, <2>1 DEF TypeOK, ResumeFits
  <1>10. TypeOK'
    BY <1>1, <1>2, <1>5, <1>6, <1>7, <1>8, <1>9, <1>20 DEF TypeOK, ResumeFits
  <1>11. BatchFits'
    BY <1>1, <1>2 DEF BatchFits
  <1> QED
    BY <1>10, <1>11

\* The items of a store.
ItemsOf(d) == UNION {{[sid |-> s, ord |-> i.ord, ver |-> i.ver] : i \in IF d[s] # None THEN d[s].items ELSE {}} : s \in Sids}

LEMMA ItemsOfStore == AllItems = ItemsOf(db) /\ AllItems' = ItemsOf(db')
  BY DEF AllItems, ItemsOf, DbItems, Stored

\* A store with no more items than another.
LEMMA FewerItems ==
    ASSUME NEW d, NEW e, \A s \in Sids : e[s] # None => d[s] # None /\ e[s].items = d[s].items
    PROVE  ItemsOf(e) \subseteq ItemsOf(d)
  BY DEF ItemsOf

LEMMA IndexKept == ASSUME TypeInv, Next PROVE IndexIsFull'
  <1>0. TypeOK /\ BatchFits /\ IndexIsFull
    BY DEF TypeInv
  <1>1. CASE UNCHANGED <<db, indexed, unindexed, mut>> /\ (batch' # <<>> => batch # <<>>) /\ (pc' = "idle" => pc = "idle")
    <2>1. AllItems' = AllItems
      BY <1>1, ItemsOfStore
    <2> QED
      BY <1>0, <1>1, <2>1 DEF IndexIsFull
  <1>2. CASE StartImport
    <2>1. AllItems' = AllItems /\ UNCHANGED <<indexed, batch>> /\ mut' = FALSE /\ unindexed' = unindexed /\ pc = "idle"
      BY <1>2, ItemsOfStore DEF StartImport, history
    <2> QED
      BY <1>0, <2>1 DEF IndexIsFull
  <1>3. CASE ScanFile
    <2>1. PICK i, l : i \in todo /\ ScanStep(i, l)
      BY <1>0, <1>3, ScanSteps
    <2>2. UNCHANGED <<db, indexed, unindexed, mut>> /\ batch' \in {batch, <<>>} /\ pc' \in {"stage", "commit", "scan", "end"}
      BY <2>1 DEF ScanStep
    <2> QED
      BY <1>1, <2>2
  <1>4. CASE StageFile
    <2>1. AllItems' = AllItems /\ UNCHANGED <<indexed, unindexed>> /\ pc' # "idle"
      BY <1>4, ItemsOfStore DEF StageFile
    <2>2. (mut' = TRUE) \/ (mut' = mut /\ batch' = <<>>)
      BY <1>4 DEF StageFile
    <2> QED
      BY <1>0, <2>1, <2>2 DEF IndexIsFull, TypeOK
  <1>5. CASE EndOfFiles \/ promoteBackup \/ promoteRename \/ promoteFails \/ AgentWrites \/ AgentRemoves
    <2>1. UNCHANGED <<db, indexed, unindexed, mut, batch>>
      BY <1>5 DEF EndOfFiles, promoteBackup, promoteRename, promoteFails, AgentWrites, AgentRemoves, importVars, history
    <2>2. pc' = "idle" => pc = "idle"
      BY <1>5 DEF EndOfFiles, promoteBackup, promoteRename, promoteFails, AgentWrites, AgentRemoves, importVars
    <2> QED
      BY <1>1, <2>1, <2>2
  <1>6. CASE WriteChatImportBatch
    <2>1. mut /\ mut' = mut /\ batch' = <<>>
      BY <1>0, <1>6 DEF IndexIsFull, BatchFits, WriteChatImportBatch
    <2>2. pc' # "idle"
      BY <1>6 DEF WriteChatImportBatch
    <2> QED
      BY <2>1, <2>2 DEF IndexIsFull
  <1>7. CASE RunChatImportBulkMode
    <2>1. AllItems' = AllItems /\ indexed' = (IF mut THEN AllItems ELSE indexed) /\ unindexed' = (unindexed /\ ~mut)
          /\ mut' = FALSE /\ batch' = batch /\ pc = "end"
      BY <1>7, ItemsOfStore DEF RunChatImportBulkMode, Reset, rebuildChatItemFTS
    <2>2. batch = <<>>
      BY <1>0, <2>1 DEF BatchFits
    <2> QED
      BY <1>0, <2>1, <2>2 DEF IndexIsFull, TypeOK
  <1>8. CASE Crash
    BY <1>8 DEF Crash, Reset, IndexIsFull
  <1>12. CASE StartImportFails
    <2>1. AllItems' = AllItems /\ UNCHANGED <<indexed, mut, batch, pc>> /\ (~unindexed' => ~unindexed)
      BY <1>12, ItemsOfStore DEF StartImportFails
    <2> QED
      BY <1>0, <2>1 DEF IndexIsFull
  <1>13. CASE NotListed
    BY <1>1, <1>13 DEF NotListed, history
  <1>14. CASE BulkModeFails
    <2>1. unindexed' /\ ~mut' /\ batch' = batch /\ pc = "end"
      BY <1>14 DEF BulkModeFails, Reset
    <2>2. batch = <<>>
      BY <1>0, <2>1 DEF BatchFits
    <2> QED
      BY <2>1, <2>2 DEF IndexIsFull
  <1>9. ASSUME NEW s \in Sids, User(s) PROVE IndexIsFull'
    <2>1. \A t \in Sids : db'[t] # None => db[t] # None /\ db'[t].items = db[t].items
      BY <1>0, <1>9, UserEffect
    <2>2. AllItems' \subseteq AllItems
      BY <2>1, FewerItems, ItemsOfStore
    <2>3. UNCHANGED <<indexed, unindexed, mut, batch, pc>>
      BY <1>9 DEF User, importVars, history
    <2> QED
      BY <1>0, <2>2, <2>3 DEF IndexIsFull
  <1>10. ASSUME NEW s \in Sids, GCRow(s) PROVE IndexIsFull'
    <2>1. db' = [db EXCEPT ![s] = None] /\ indexed' = Unindex(s) /\ UNCHANGED <<unindexed, mut, batch, pc>>
      BY <1>10 DEF GCRow, importVars
    <2>2. db'[s] = None /\ \A t \in Sids : db'[t] # None => t # s /\ db'[t] = db[t]
      BY <1>0, <2>1 DEF TypeOK
    <2>3. AllItems' \subseteq AllItems /\ \A i \in AllItems' : i.sid # s
      <3>1. AllItems' \subseteq AllItems
        BY <2>2, FewerItems, ItemsOfStore
      <3>2. \A i \in ItemsOf(db') : i.sid # s
        BY <2>2 DEF ItemsOf
      <3> QED
        BY <3>1, <3>2, ItemsOfStore
    <2>4. AllItems \subseteq indexed => AllItems' \subseteq indexed'
      BY <2>1, <2>3 DEF Unindex
    <2> QED
      BY <1>0, <2>1, <2>4 DEF IndexIsFull
  <1>11. ASSUME NEW s \in Sids, GCRaw(s) PROVE IndexIsFull'
    BY <1>1, <1>11 DEF GCRaw, importVars, history
  <1> QED
    BY <1>2, <1>3, <1>4, <1>5, <1>6, <1>7, <1>8, <1>9, <1>10, <1>11, <1>12, <1>13, <1>14
       DEF Next, ImportStep

LEMMA TypesKept == ASSUME TypeInv, [Next]_vars PROVE TypeInv'
  <1>1. CASE UNCHANGED vars
    BY <1>1, UnchangedTypes
  <1>2. CASE Next
    <2>1. IndexIsFull'
      BY <1>2, IndexKept
    <2>2. TypeOK' /\ BatchFits'
      BY <1>2, StartTypes, ScanTypes, StageTypes, EndOfFilesTypes, WriteTypes, BackupTypes, RenameTypes, FailsTypes,
         EndTypes, BulkFailsTypes, StartFailsTypes, NotListedTypes, CrashTypes, AgentTypes, UserTypes, CollectTypes DEF Next, ImportStep
    <2> QED
      BY <2>1, <2>2 DEF TypeInv
  <1> QED
    BY <1>1, <1>2

\* Every variable has its type in every state of pc chat import, for any files,
\* sessions and bounds.
THEOREM TypeCorrect == Spec => []TypeOK
  <1>1. Spec => []TypeInv
    BY InitTypes, TypesKept, PTL DEF Spec
  <1>2. TypeInv => TypeOK
    BY DEF TypeInv
  <1> QED
    BY <1>1, <1>2, PTL

\* After an import search finds every stored item, whatever failed in it: what a
\* run wrote without the index triggers is rebuilt by the deferred part of
\* RunChatImportBulkMode on every way out.  A crash, and a failing drop, rebuild
\* or creation of the triggers in the bulk mode itself, may leave items without;
\* then it holds again from the end of the next import that changes something.
THEOREM SearchStaysComplete == Spec => []SearchIsComplete
  <1>1. Spec => []TypeInv
    BY InitTypes, TypesKept, PTL DEF Spec
  <1>2. TypeInv => SearchIsComplete
    BY DEF TypeInv, IndexIsFull, SearchIsComplete
  <1> QED
    BY <1>1, <1>2, PTL

-----------------------------------------------------------------------------
(* Steps that add nothing to what the invariant is about *)

Kinds ==
    /\ \A f \in Paths : src[f] # None => src[f] \in Content /\ src[f].ver \in Nat /\ src[f].size \in Nat
    /\ \A s \in Sids : raw[s] # None => raw[s] \in Content /\ raw[s].ver \in Nat
    /\ \A s \in Sids : DbItems(s) \in SUBSET Item /\ \A i \in DbItems(s) : i.ver \in Nat
    /\ \A o \in Pending : /\ o \in Operation /\ o.id \in Sids /\ o.sid \in Sids /\ o.file \in Paths
                          /\ o.text \in Content /\ o.text.ver \in Nat
                          /\ Copy(o) \in Content /\ Copy(o).ver \in Nat
                          /\ o.backup # None => o.backup \in Content /\ o.backup.ver \in Nat
    /\ \A o \in ToSet(promoting) : Copy(o) = o.stage
    /\ \A o \in ToSet(batch) : Copy(o) = o.stage
    /\ writes \in Nat

LEMMA KindsOf == ASSUME TypeOK PROVE Kinds
  <1>1. \A f \in Paths : src[f] # None => src[f] \in Content /\ src[f].ver \in Nat /\ src[f].size \in Nat
    BY ContentFields DEF TypeOK
  <1>2. \A s \in Sids : raw[s] # None => raw[s] \in Content /\ raw[s].ver \in Nat
    BY ContentFields DEF TypeOK
  <1>3. \A s \in Sids : DbItems(s) \in SUBSET Item /\ \A i \in DbItems(s) : i.ver \in Nat
    BY StoredItems, ItemFields
  <1>4. \A o \in Pending : o \in Operation
    <2>1. /\ batch \in Seq(Operation) /\ promoting \in Seq(Operation) /\ op \in Operation \cup {None}
          /\ pc = "stage" => op # None
      BY DEF TypeOK
    <2>2. \A q \in Seq(Operation) : \A o \in ToSet(q) : o \in Operation
      BY DEF ToSet
    <2> QED
      BY <2>1, <2>2 DEF Pending, Uncommitted
  <1>5. ASSUME NEW o \in Pending
        PROVE  /\ o \in Operation /\ o.id \in Sids /\ o.sid \in Sids /\ o.file \in Paths
               /\ o.text \in Content /\ o.text.ver \in Nat
               /\ Copy(o) \in Content /\ Copy(o).ver \in Nat
               /\ o.backup # None => o.backup \in Content /\ o.backup.ver \in Nat
    <2>1. /\ o \in Operation /\ o.id \in Sids /\ o.sid \in Sids /\ o.file \in Paths /\ o.text \in Content
          /\ o.stage \in Content \cup {None} /\ o.backup \in Content \cup {None}
      BY <1>4, OperationFields
    <2>2. Copy(o) \in Content
      BY <2>1 DEF Copy
    <2> QED
      BY <2>1, <2>2, ContentFields
  <1>6. \A o \in ToSet(promoting) : Copy(o) = o.stage
    BY DEF TypeOK, ToSet, Copy
  <1>7. \A o \in ToSet(batch) : Copy(o) = o.stage
    BY DEF TypeOK, ToSet, Copy
  <1>8. writes \in Nat
    BY Constants DEF TypeOK
  <1> QED
    BY <1>1, <1>2, <1>3, <1>5, <1>6, <1>7, <1>8 DEF Kinds

SameWrite(o, q) == o.id = q.id /\ o.sid = q.sid /\ o.file = q.file /\ o.text = q.text /\ o.stage = q.stage

\* A committed operation of a session that counts, promoted or taken back.
RawMoves(s) ==
    \E o \in ToSet(promoting) :
        /\ o.id = s /\ (raw'[s] = o.stage \/ raw'[s] = o.backup)
        /\ \A i \in DOMAIN promoting' : s \in purged' \cup Swapped' \/ promoting'[i].sid # s
        /\ batch' = <<>> /\ pc' # "stage"

\* A flush: the handling of a file goes on after it.
Flushed ==
    LET f == Files[Min(todo)] IN
    /\ resume' # None /\ todo' = todo /\ pc = "scan" /\ f \in Paths /\ src[f] # None
    /\ UNCHANGED <<src, batch, writes, purged, raced>> /\ FlushRight(resume', f)

\* The step forgets: files, sessions, operations and purged chats go, the index
\* learns what is known of a file, and a copy moves between its three places.
Loses ==
    /\ \A f \in Paths : src'[f] = src[f] \/ src'[f] = None
    /\ writes' \in {writes, writes + 1}
    /\ purged \subseteq purged' /\ raced \subseteq raced'
    /\ \A s \in Sids : /\ db'[s] # None => db[s] # None /\ db'[s].orig = db[s].orig /\ db'[s].items = db[s].items
                       /\ db'[s] = None /\ db[s] # None => s \in purged'
    /\ \A s \in Sids : \/ idx'[s] = None \/ idx'[s] = idx[s] \/ (db[s] # None /\ idx'[s] = db[s].orig)
                       \/ \E o \in ToSet(promoting) : o.sid = s /\ idx'[s] = o.file
    /\ batch' = batch \/ batch' = <<>>
    /\ pc' = "stage" => pc = "stage" /\ op' = op /\ batch' = batch
    /\ idx' = idx \/ (batch' = <<>> /\ pc' # "stage")
    /\ \E h \in Nat : \A i \in DOMAIN promoting' :
          /\ i \in Nat /\ i + h \in DOMAIN promoting /\ SameWrite(promoting'[i], promoting[i + h])
          /\ \/ promoting'[i].backup = promoting[i + h].backup
             \/ promoting'[i].backup = raw[promoting[i + h].id]
    /\ \A s \in Sids : raw'[s] = raw[s] \/ raw'[s] = None \/ RawMoves(s)
    /\ todo' \subseteq todo \/ (batch' = <<>> /\ promoting' = <<>> /\ pc' # "stage")
    /\ \A g \in gc' : g \in gc \/ g.at = "row" \/ g.sid \in purged'
    /\ resume' = None \/ UNCHANGED <<resume, todo>> \/ Flushed

LEMMA FreeBefore ==
    ASSUME NEW s, purged \subseteq purged', raced \subseteq raced', Free(s)'
    PROVE  Free(s)
  BY DEF Free, Swapped

LEMMA LosesPending ==
    ASSUME TypeOK, Loses
    PROVE  /\ Uncommitted' \subseteq Uncommitted
           /\ \A o \in ToSet(promoting)' : \E q \in ToSet(promoting) :
                 SameWrite(o, q) /\ (o.backup = q.backup \/ o.backup = raw[q.id])
           /\ \A o \in Pending' : \E q \in Pending : SameWrite(o, q) /\ Copy(o) = Copy(q)
  <1>1. Uncommitted' \subseteq Uncommitted
    <2>1. ToSet(batch') \subseteq ToSet(batch)
      BY NoOperations DEF Loses
    <2>2. pc' = "stage" => pc = "stage" /\ op' = op
      BY DEF Loses
    <2> QED
      BY <2>1, <2>2 DEF Uncommitted
  <1>2. ASSUME NEW o \in ToSet(promoting')
        PROVE  \E q \in ToSet(promoting) : SameWrite(o, q) /\ (o.backup = q.backup \/ o.backup = raw[q.id])
    <2>1. PICK h \in Nat : \A i \in DOMAIN promoting' :
             /\ i + h \in DOMAIN promoting /\ SameWrite(promoting'[i], promoting[i + h])
             /\ \/ promoting'[i].backup = promoting[i + h].backup
                \/ promoting'[i].backup = raw[promoting[i + h].id]
      BY DEF Loses
    <2>2. PICK i \in DOMAIN promoting' : o = promoting'[i]
      BY <1>2 DEF ToSet
    <2>3. promoting[i + h] \in ToSet(promoting)
      BY <2>1 DEF ToSet
    <2> QED
      BY <2>1, <2>2, <2>3
  <1>3. ASSUME NEW o \in Pending' PROVE \E q \in Pending : SameWrite(o, q) /\ Copy(o) = Copy(q)
    <2>1. CASE o \in Uncommitted'
      BY <1>1, <2>1 DEF Pending, SameWrite
    <2>2. CASE o \in ToSet(promoting')
      BY <1>2, <2>2 DEF Pending, SameWrite, Copy
    <2> QED
      BY <2>1, <2>2 DEF Pending
  <1> QED
    BY <1>1, <1>2, <1>3

LEMMA LosesOwners ==
    ASSUME TypeOK, Loses
    PROVE  /\ \A f \in Paths, s \in Sids : Owns(f, s)' => Owns(f, s)
           /\ \A f \in Paths, s \in Sids : Holds(f, s)' => Holds(f, s) /\ src'[f] = src[f]
  <1>1. ASSUME NEW f \in Paths, NEW s \in Sids, Owns(f, s)' PROVE Owns(f, s)
    <2>1. CASE db'[s] # None /\ db'[s].orig = f
      BY <2>1 DEF Loses, Owns, Stored
    <2>2. CASE idx'[s] = f
      <3>1. f # None
        BY Constants
      <3>2. \/ idx[s] = f \/ (db[s] # None /\ f = db[s].orig)
            \/ \E o \in ToSet(promoting) : o.sid = s /\ f = o.file
        BY <2>2, <3>1 DEF Loses
      <3> QED
        BY <3>2 DEF Owns, Stored, Pending
    <2>3. CASE \E o \in Pending' : o.file = f /\ o.sid = s
      <3>1. PICK o \in Pending' : o.file = f /\ o.sid = s
        BY <2>3
      <3>2. PICK q \in Pending : SameWrite(o, q)
        BY <3>1, LosesPending
      <3> QED
        BY <3>1, <3>2 DEF SameWrite, Owns
    <2>4. CASE resume' # None /\ Files[Min(todo')] = f /\ resume'.prior = s
      <3>1. CASE UNCHANGED <<resume, todo>>
        BY <2>4, <3>1 DEF Owns
      <3>2. CASE Flushed
        <4>1. s # None
          BY Constants
        <4>2. idx[s] = f
          BY <2>4, <3>2, <4>1 DEF Flushed, FlushRight
        <4> QED
          BY <4>2 DEF Owns
      <3> QED
        BY <2>4, <3>1, <3>2 DEF Loses
    <2>5. \/ db'[s] # None /\ db'[s].orig = f
          \/ idx'[s] = f
          \/ \E o \in Pending' : o.file = f /\ o.sid = s
          \/ resume' # None /\ Files[Min(todo')] = f /\ resume'.prior = s
      BY <1>1 DEF Owns, Stored
    <2> QED
      BY <2>1, <2>2, <2>3, <2>4, <2>5
  <1>2. ASSUME NEW f \in Paths, NEW s \in Sids, Holds(f, s)' PROVE Holds(f, s) /\ src'[f] = src[f]
    BY <1>2 DEF Holds, Loses
  <1> QED
    BY <1>1, <1>2

\* The chat of a session that still counts is as it was.
LEMMA LosesItems ==
    ASSUME TypeOK, Loses, NEW s \in Sids, Free(s)'
    PROVE  /\ Free(s) /\ DbItems(s)' = DbItems(s) /\ Stored(s)' = Stored(s)
           /\ Stored(s) => db'[s].orig = db[s].orig
  <1>1. Free(s)
    BY FreeBefore DEF Loses
  <1>2. s \notin purged'
    BY DEF Free
  <1>3. /\ db'[s] # None => db[s] # None /\ db'[s].orig = db[s].orig /\ db'[s].items = db[s].items
        /\ db[s] # None => db'[s] # None
    BY <1>2 DEF Loses
  <1>4. DbItems(s)' = DbItems(s)
    BY <1>3 DEF DbItems, Stored
  <1> QED
    BY <1>1, <1>3, <1>4 DEF Stored

\* A managed raw file after the step: as before, or of a committed operation.
LEMMA LosesRaw ==
    ASSUME IInvText, Loses, NEW s \in Sids, Free(s)', raw'[s] # None
    PROVE  /\ raw'[s] \in Content /\ raw'[s].sid = Name(s) /\ raw'[s].ver < writes + 3
           /\ Stored(s) /\ \A i \in DbItems(s) : raw'[s].ver <= i.ver
           /\ \A f \in Paths : Holds(f, s) /\ (\E t \in Sids : Owns(f, t)) => AtMost(raw'[s], src[f])
           /\ \A o \in Pending' : o.sid = s => AtMost(raw'[s], Copy(o))
  <1>0. TypeOK /\ Kinds
    BY KindsOf DEF IInvText, TypeInv
  <1>1. Free(s) /\ s \notin purged'
    BY FreeBefore DEF Free, Loses
  <1>2. CASE raw'[s] = raw[s]
    <2>1. raw'[s] \in Content /\ raw'[s].sid = Name(s) /\ raw'[s].ver < writes + 3
      BY <1>0, <1>1, <1>2 DEF Kinds, IInvText, NamesAgree, VersionsCount
    <2>2. Stored(s) /\ \A i \in DbItems(s) : raw'[s].ver <= i.ver
      BY <1>1, <1>2 DEF IInvText, RawIsBehind
    <2>3. \A f \in Paths : Holds(f, s) /\ (\E t \in Sids : Owns(f, t)) => AtMost(raw'[s], src[f])
      BY <1>1, <1>2 DEF IInvText, FileIsAhead
    <2>4. ASSUME NEW o \in Pending', o.sid = s PROVE AtMost(raw'[s], Copy(o))
      <3>1. PICK q \in Pending : SameWrite(o, q) /\ Copy(o) = Copy(q)
        BY <1>0, LosesPending
      <3>2. q.sid = s
        BY <2>4, <3>1 DEF SameWrite
      <3>3. AtMost(raw[s], Copy(q))
        BY <1>1, <1>2, <3>2 DEF IInvText, CopiesFollow
      <3> QED
        BY <1>2, <3>1, <3>3
    <2> QED
      BY <2>1, <2>2, <2>3, <2>4
  <1>3. CASE RawMoves(s)
    <2>1. PICK o \in ToSet(promoting) :
             /\ o.id = s /\ (raw'[s] = o.stage \/ raw'[s] = o.backup)
             /\ \A i \in DOMAIN promoting' : s \in purged' \cup Swapped' \/ promoting'[i].sid # s
             /\ batch' = <<>> /\ pc' # "stage"
      BY <1>3 DEF RawMoves
    <2>2. o \in Pending /\ o.sid = s
      <3>1. o \in Pending
        BY <2>1 DEF Pending
      <3>2. s \notin purged
        BY <1>1 DEF Loses
      <3> QED
        BY <2>1, <3>1, <3>2 DEF IInvText, OneEach
    <2>3. /\ Copy(o) \in Content /\ Copy(o) = o.stage /\ Copy(o).sid = Name(s) /\ Copy(o).ver < writes + 3
          /\ Copy(o).ver = o.text.ver
      BY <1>0, <1>1, <2>1, <2>2 DEF Kinds, IInvText, CopiesFollow, VersionsCount
    <2>4. Stored(s) /\ \A i \in DbItems(s) : i.ver = o.text.ver
      <3>1. s \notin purged
        BY <1>1 DEF Loses
      <3> QED
        BY <1>1, <2>1, <2>2, <3>1 DEF IInvText, RawIsBehind, OneEach
    <2>5. raw'[s] = o.backup => o.backup \in Content /\ o.backup.sid = Name(s) /\ AtMost(o.backup, Copy(o))
                                /\ \A i \in DbItems(s) : o.backup.ver <= i.ver
      BY <1>0, <1>1, <2>1, <2>2 DEF Kinds, IInvText, CopiesFollow
    <2>6. raw'[s] \in Content /\ raw'[s].sid = Name(s) /\ AtMost(raw'[s], Copy(o)) /\ \A i \in DbItems(s) : raw'[s].ver <= i.ver
      <3>1. CASE raw'[s] = o.stage
        <4>1. AtMost(Copy(o), Copy(o))
          BY <2>3, AtMostOrder
        <4>2. \A i \in DbItems(s) : Copy(o).ver <= i.ver
          BY <1>0, <2>2, <2>3, <2>4 DEF Kinds
        <4> QED
          BY <2>3, <3>1, <4>1, <4>2
      <3>2. CASE raw'[s] = o.backup
        BY <2>5, <3>2
      <3> QED
        BY <2>1, <3>1, <3>2
    <2>7. raw'[s].ver < writes + 3
      <3>1. raw'[s].ver <= Copy(o).ver /\ raw'[s].ver \in Nat /\ Copy(o).ver \in Nat /\ writes \in Nat
        BY <1>0, <2>3, <2>6, AtMostOrder, ContentFields DEF Kinds
      <3> QED
        BY <2>3, <3>1
    <2>8. ASSUME NEW f \in Paths, Holds(f, s), \E t \in Sids : Owns(f, t) PROVE AtMost(raw'[s], src[f])
      <3>1. AtMost(Copy(o), src[f])
        BY <1>1, <2>2, <2>8 DEF IInvText, FileIsAhead
      <3>2. src[f] \in Content
        BY <1>0, <2>8 DEF Kinds, Holds
      <3> QED
        BY <2>3, <2>6, <3>1, <3>2, AtMostOrder
    <2>9. \A q \in Pending' : q.sid # s
      <3>1. Pending' = ToSet(promoting')
        BY <2>1, NoOperations DEF Pending, Uncommitted
      <3>2. \A i \in DOMAIN promoting' : promoting'[i].sid # s
        BY <2>1 DEF Free
      <3> QED
        BY <3>1, <3>2 DEF ToSet
    <2> QED
      BY <2>4, <2>6, <2>7, <2>8, <2>9
  <1> QED
    BY <1>2, <1>3 DEF Loses

LEMMA LosesVersions == ASSUME IInvText, Loses PROVE VersionsCount'
  <1>0. TypeOK /\ Kinds /\ VersionsCount /\ writes' \in {writes, writes + 1} /\ writes \in Nat
    BY KindsOf DEF IInvText, TypeInv, Kinds, Loses
  <1>1. \A n \in Nat : n < writes + 3 => n < writes' + 3
    <2>1. \A a, b, n \in Nat : b \in {a, a + 1} /\ n < a + 3 => n < b + 3
      OBVIOUS
    <2>2. writes \in Nat /\ writes' \in Nat /\ writes' \in {writes, writes + 1}
      BY <1>0
    <2> QED
      BY <2>1, <2>2
  <1>2. \A f \in Paths : src'[f] # None => src'[f].ver < writes' + 3
    BY <1>0, <1>1 DEF VersionsCount, Kinds, Loses
  <1>3. ASSUME NEW s \in Sids, Free(s)', raw'[s] # None PROVE raw'[s].ver < writes' + 3
    BY <1>1, <1>3, LosesRaw, ContentFields
  <1>4. ASSUME NEW s \in Sids, Free(s)', NEW i \in DbItems(s)' PROVE i.ver < writes' + 3
    <2>1. Free(s) /\ i \in DbItems(s)
      BY <1>0, <1>4, LosesItems
    <2> QED
      BY <1>0, <1>1, <2>1 DEF VersionsCount, Kinds
  <1>5. ASSUME NEW o \in Pending' PROVE o.text.ver < writes' + 3 /\ Copy(o).ver < writes' + 3
    <2>1. PICK q \in Pending : SameWrite(o, q) /\ Copy(o) = Copy(q)
      BY <1>0, LosesPending
    <2>2. q.text.ver < writes + 3 /\ Copy(q).ver < writes + 3 /\ q.text.ver \in Nat /\ Copy(q).ver \in Nat /\ o.text = q.text
      BY <1>0, <2>1 DEF VersionsCount, Kinds, SameWrite
    <2> QED
      BY <1>1, <2>1, <2>2
  <1> QED
    BY <1>2, <1>3, <1>4, <1>5 DEF VersionsCount

LEMMA LosesNames == ASSUME IInvText, Loses PROVE NamesAgree'
  <1>0. TypeOK /\ NamesAgree
    BY DEF IInvText, TypeInv
  <1>1. \A f \in Paths : src'[f] # None => src'[f].sid \notin Paths
    BY <1>0 DEF NamesAgree, Loses
  <1>2. ASSUME NEW f \in Paths, NEW s \in Sids, Owns(f, s)', s \in Paths PROVE s = f
    BY <1>0, <1>2, LosesOwners DEF NamesAgree
  <1>3. ASSUME NEW s \in Sids, Free(s)', raw'[s] # None PROVE raw'[s].sid = Name(s)
    BY <1>3, LosesRaw
  <1> QED
    BY <1>1, <1>2, <1>3 DEF NamesAgree

LEMMA LosesMoved == ASSUME IInvText, Loses PROVE MovedAlone'
  <1>0. TypeOK /\ MovedAlone
    BY DEF IInvText, TypeInv
  <1>1. ASSUME NEW f \in Paths, NEW s \in Sids, src'[f] # None, Owns(f, s)', ~Holds(f, s)',
               NEW g \in Paths \ {f}, src'[g] # None
        PROVE  SessionOf(g, src'[g]) # SessionOf(f, src'[f])
    <2>1. src'[f] = src[f] /\ src'[g] = src[g]
      BY <1>1 DEF Loses
    <2>2. Owns(f, s) /\ ~Holds(f, s)
      BY <1>0, <1>1, <2>1, LosesOwners DEF Holds
    <2> QED
      BY <1>0, <1>1, <2>1, <2>2 DEF MovedAlone
  <1> QED
    BY <1>1 DEF MovedAlone

LEMMA LosesAhead == ASSUME IInvText, Loses PROVE FileIsAhead'
  <1>0. TypeOK /\ FileIsAhead
    BY DEF IInvText, TypeInv
  <1>1. ASSUME NEW f \in Paths, NEW s \in Sids, Free(s)', Holds(f, s)', NEW t \in Sids, Owns(f, t)'
        PROVE  /\ \A i \in DbItems(s)' : i.ver <= src'[f].ver
               /\ raw'[s] # None => AtMost(raw'[s], src'[f])
               /\ \A o \in Pending' : o.sid = s => AtMost(Copy(o), src'[f])
    <2>1. Free(s) /\ Holds(f, s) /\ Owns(f, t) /\ src'[f] = src[f] /\ DbItems(s)' = DbItems(s)
      BY <1>0, <1>1, LosesOwners, LosesItems
    <2>2. /\ \A i \in DbItems(s) : i.ver <= src[f].ver
          /\ \A o \in Pending : o.sid = s => AtMost(Copy(o), src[f])
      BY <1>0, <2>1 DEF FileIsAhead
    <2>3. raw'[s] # None => AtMost(raw'[s], src[f])
      BY <1>1, <2>1, LosesRaw
    <2>4. ASSUME NEW o \in Pending', o.sid = s PROVE AtMost(Copy(o), src[f])
      <3>1. PICK q \in Pending : SameWrite(o, q) /\ Copy(o) = Copy(q)
        BY <1>0, LosesPending
      <3>2. q.sid = s
        BY <2>4, <3>1 DEF SameWrite
      <3> QED
        BY <2>2, <3>1, <3>2
    <2> QED
      BY <2>1, <2>2, <2>3, <2>4
  <1> QED
    BY <1>1, Zenon DEF FileIsAhead

LEMMA LosesOthers == ASSUME IInvText, Loses PROVE OthersAreNewer'
  <1>0. TypeOK /\ OthersAreNewer
    BY DEF IInvText, TypeInv
  <1>1. ASSUME NEW o \in Uncommitted', Free(o.sid)', NEW g \in Paths \ {o.file}, Holds(g, o.sid)'
        PROVE  /\ Copy(o).ver = src'[g].ver => \A t \in Sids : Owns(g, t)' => t = o.sid
               /\ idx'[o.sid] \in {None, o.file}
    <2>1. o \in Uncommitted /\ o.sid \in Sids
      <3>1. o \in Uncommitted
        BY <1>0, <1>1, LosesPending
      <3> QED
        BY <1>0, <3>1, KindsOf DEF Kinds, Pending
    <2>2. Free(o.sid) /\ Holds(g, o.sid) /\ src'[g] = src[g] /\ \A t \in Sids : Owns(g, t)' => Owns(g, t)
      <3>1. \A s : Free(s)' => Free(s)
        BY FreeBefore DEF Loses
      <3> QED
        BY <1>0, <1>1, <2>1, <3>1, LosesOwners
    <2>3. idx' = idx
      <3>1. CASE batch' = <<>> /\ pc' # "stage"
        BY <1>1, <3>1, NoOperations DEF Uncommitted
      <3> QED
        BY <3>1 DEF Loses
    <2>4. (Copy(o).ver = src[g].ver => \A t \in Sids : Owns(g, t) => t = o.sid) /\ idx[o.sid] \in {None, o.file}
      BY <1>0, <2>1, <2>2 DEF OthersAreNewer
    <2> QED
      BY <2>2, <2>3, <2>4
  <1> QED
    BY <1>1, Zenon DEF OthersAreNewer

LEMMA LosesWrites == ASSUME IInvText, Loses PROVE WritesOneText'
  <1>0. TypeOK /\ WritesOneText
    BY DEF IInvText, TypeInv
  <1>1. ASSUME NEW o \in Uncommitted', Free(o.sid)'
        PROVE  /\ o.mode = "replace" => TextOf(o.items, o.text.ver)
               /\ o.mode = "append" => Stored(o.sid)' /\ TextOf(DbItems(o.sid)' \cup o.items, o.text.ver)
    <2>1. o \in Uncommitted /\ o.sid \in Sids
      <3>1. o \in Uncommitted
        BY <1>0, <1>1, LosesPending
      <3> QED
        BY <1>0, <3>1, KindsOf DEF Kinds, Pending
    <2>2. Free(o.sid) /\ DbItems(o.sid)' = DbItems(o.sid) /\ Stored(o.sid)' = Stored(o.sid)
      BY <1>0, <1>1, <2>1, LosesItems
    <2> QED
      BY <1>0, <2>1, <2>2 DEF WritesOneText
  <1> QED
    BY <1>1 DEF WritesOneText

LEMMA LosesCopies == ASSUME IInvText, Loses PROVE CopiesFollow'
  <1>0. TypeOK /\ CopiesFollow /\ Kinds
    BY KindsOf DEF IInvText, TypeInv
  <1>1. ASSUME NEW o \in Pending', Free(o.sid)'
        PROVE  /\ o.text.sid = Name(o.sid) /\ Copy(o).sid = Name(o.sid)
               /\ Copy(o).ver = o.text.ver /\ AtMost(o.text, Copy(o))
    <2>1. PICK q \in Pending : SameWrite(o, q) /\ Copy(o) = Copy(q)
      BY <1>0, <1>1, LosesPending
    <2>2. q.sid = o.sid /\ q.text = o.text /\ Free(q.sid)
      <3>1. q.sid = o.sid /\ q.text = o.text
        BY <2>1 DEF SameWrite
      <3>2. \A s : Free(s)' => Free(s)
        BY FreeBefore DEF Loses
      <3> QED
        BY <1>1, <3>1, <3>2
    <2> QED
      BY <1>0, <2>1, <2>2 DEF CopiesFollow
  <1>2. ASSUME NEW o \in Pending', Free(o.sid)', raw'[o.sid] # None PROVE AtMost(raw'[o.sid], Copy(o))
    <2>1. o.sid \in Sids
      <3>1. PICK q \in Pending : SameWrite(o, q)
        BY <1>0, <1>2, LosesPending
      <3> QED
        BY <1>0, <3>1 DEF Kinds, SameWrite
    <2>2. \A s \in Sids : Free(s)' /\ raw'[s] # None => \A q \in Pending' : q.sid = s => AtMost(raw'[s], Copy(q))
      BY LosesRaw
    <2> QED
      BY <1>2, <2>1, <2>2
  <1>3. ASSUME NEW o \in Pending', Free(o.sid)', o.backup # None, o.id = o.sid
        PROVE  /\ o.backup.sid = Name(o.sid) /\ AtMost(o.backup, Copy(o))
               /\ \A i \in DbItems(o.sid)' : o.backup.ver <= i.ver
    <2>1. PICK q \in Pending : SameWrite(o, q) /\ Copy(o) = Copy(q) /\ (o.backup = q.backup \/ o.backup = raw[q.id])
      <3>1. CASE o \in Uncommitted'
        BY <1>0, <3>1, LosesPending DEF Pending, SameWrite
      <3>2. CASE o \in ToSet(promoting')
        <4>1. PICK q \in ToSet(promoting) : SameWrite(o, q) /\ (o.backup = q.backup \/ o.backup = raw[q.id])
          BY <1>0, <3>2, LosesPending
        <4>2. Copy(o) = Copy(q) /\ q \in Pending
          BY <4>1 DEF SameWrite, Copy, Pending
        <4> QED
          BY <4>1, <4>2
      <3> QED
        BY <1>3, <3>1, <3>2 DEF Pending
    <2> DEFINE s == o.sid
    <2>2. q.sid = s /\ q.id = s /\ s \in Sids /\ Free(s) /\ DbItems(s)' = DbItems(s)
      <3>1. q.sid = s /\ q.id = s /\ s \in Sids
        BY <1>0, <1>3, <2>1 DEF SameWrite, Kinds
      <3>2. Free(s)'
        BY <1>3
      <3> HIDE DEF s
      <3> QED
        BY <1>0, <3>1, <3>2, LosesItems
    <2> HIDE DEF s
    <2>3. o.backup.sid = Name(s) /\ AtMost(o.backup, Copy(o)) /\ \A i \in DbItems(s) : o.backup.ver <= i.ver
      <3>1. CASE o.backup = q.backup
        BY <1>0, <1>3, <2>1, <2>2, <3>1 DEF CopiesFollow
      <3>2. CASE o.backup = raw[q.id]
        <4>1. raw[s] # None /\ o.backup = raw[s]
          BY <1>3, <2>2, <3>2
        <4>2. raw[s].sid = Name(s) /\ \A i \in DbItems(s) : raw[s].ver <= i.ver
          BY <2>2, <4>1 DEF IInvText, NamesAgree, RawIsBehind
        <4>3. AtMost(raw[s], Copy(q))
          BY <1>0, <2>2, <4>1 DEF CopiesFollow
        <4> QED
          BY <2>1, <4>1, <4>2, <4>3
      <3> QED
        BY <2>1, <3>1, <3>2
    <2> QED
      BY <2>2, <2>3 DEF s
  <1> QED
    BY <1>1, <1>2, <1>3 DEF CopiesFollow

LEMMA LosesBehind == ASSUME IInvText, Loses PROVE RawIsBehind'
  <1>0. TypeOK /\ Kinds /\ RawIsBehind
    BY KindsOf DEF IInvText, TypeInv
  <1>1. ASSUME NEW s \in Sids, Free(s)', raw'[s] # None
        PROVE  Stored(s)' /\ \A i \in DbItems(s)' : raw'[s].ver <= i.ver
    <2>1. DbItems(s)' = DbItems(s) /\ Stored(s)' = Stored(s)
      BY <1>0, <1>1, LosesItems
    <2>2. Stored(s) /\ \A i \in DbItems(s) : raw'[s].ver <= i.ver
      BY <1>1, LosesRaw
    <2> QED
      BY <2>1, <2>2
  <1>2. ASSUME NEW o \in ToSet(promoting'), Free(o.sid)', NEW i \in DbItems(o.sid)'
        PROVE  i.ver = o.text.ver
    <2>1. PICK q \in ToSet(promoting) : SameWrite(o, q)
      BY <1>0, <1>2, LosesPending
    <2>2. q.sid = o.sid /\ q.text = o.text /\ o.sid \in Sids
      BY <1>0, <2>1 DEF SameWrite, Kinds, Pending
    <2>3. Free(o.sid) /\ DbItems(o.sid)' = DbItems(o.sid)
      BY <1>0, <1>2, <2>2, LosesItems
    <2>4. i \in DbItems(q.sid) /\ Free(q.sid)
      BY <1>2, <2>2, <2>3
    <2> QED
      BY <1>0, <2>1, <2>2, <2>4 DEF RawIsBehind
  <1> QED
    BY <1>1, <1>2 DEF RawIsBehind

LEMMA LosesText == ASSUME IInvText, Loses PROVE OneText'
  <1>0. TypeOK /\ OneText
    BY DEF IInvText, TypeInv
  <1>1. ASSUME NEW s \in Sids, s \notin (purged \cup Swapped)', Stored(s)'
        PROVE  \E n \in 0..MaxSize, v \in 1..(MaxWrites + 2) :
                  db'[s].items = {[ord |-> o, ver |-> v] : o \in {k \in 0..MaxSize : k < n}}
    <2>1. Free(s)'
      BY <1>1 DEF Free
    <2>2. Free(s) /\ DbItems(s)' = DbItems(s) /\ Stored(s)' = Stored(s)
      BY <1>0, <2>1, LosesItems
    <2>3. db'[s].items = db[s].items /\ s \notin purged \cup Swapped /\ Stored(s)
      BY <1>1, <2>2 DEF DbItems, Free
    <2>4. \E n \in 0..MaxSize, v \in 1..(MaxWrites + 2) :
                  db[s].items = {[ord |-> o, ver |-> v] : o \in {k \in 0..MaxSize : k < n}}
      BY <1>0, <2>3 DEF OneText
    <2> QED
      BY <2>3, <2>4
  <1> QED
    BY <1>1 DEF OneText

LEMMA LosesOneEach == ASSUME IInvText, Loses PROVE OneEach'
  <1>0. TypeOK /\ OneEach /\ purged \cup Swapped \subseteq purged' \cup Swapped'
    BY DEF IInvText, TypeInv, Loses, Swapped
  <1>1. (batch' = batch /\ idx' = idx) \/ batch' = <<>>
    BY DEF Loses
  <1>2. ASSUME NEW i \in DOMAIN batch', NEW j \in DOMAIN batch', i # j, batch'[i].sid = batch'[j].sid
        PROVE  batch'[i].sid \in purged' \cup Swapped' /\ idx'[batch'[i].sid] # None
    <2>1. batch' = batch /\ idx' = idx
      BY <1>1, <1>2
    <2>2. batch[i].sid \in purged \cup Swapped /\ idx[batch[i].sid] # None
      BY <1>0, <1>2, <2>1 DEF OneEach, Free
    <2> QED
      BY <1>0, <2>1, <2>2
  <1>3. ASSUME pc' = "stage", NEW i \in DOMAIN batch', batch'[i].sid = op'.sid
        PROVE  op'.sid \in purged' \cup Swapped' /\ idx'[op'.sid] # None
    <2>1. pc = "stage" /\ op' = op /\ batch' = batch /\ idx' = idx
      BY <1>3 DEF Loses
    <2>2. op.sid \in purged \cup Swapped /\ idx[op.sid] # None
      BY <1>0, <1>3, <2>1 DEF OneEach, Free
    <2> QED
      BY <1>0, <2>1, <2>2
  <1>4. ASSUME NEW o \in Uncommitted', o.id # o.sid PROVE idx'[o.id] # None /\ idx'[o.sid] = None
    <2>1. o \in Uncommitted
      BY <1>0, <1>4, LosesPending
    <2>2. idx' = idx
      BY <1>4, NoOperations DEF Loses, Uncommitted
    <2> QED
      BY <1>0, <1>4, <2>1, <2>2 DEF OneEach
  <1>5. ASSUME NEW o \in ToSet(promoting')
        PROVE  /\ o.id # o.sid => o.id \in purged'
               /\ Stored(o.sid)' \/ o.sid \in purged'
    <2>1. PICK q \in ToSet(promoting) : SameWrite(o, q)
      BY <1>0, <1>5, LosesPending
    <2>2. q.sid = o.sid /\ q.id = o.id /\ o.sid \in Sids
      BY <1>0, <2>1, KindsOf DEF SameWrite, Kinds, Pending
    <2>3. /\ o.id # o.sid => o.id \in purged
          /\ Stored(o.sid) \/ o.sid \in purged
      BY <1>0, <2>1, <2>2 DEF OneEach
    <2> QED
      BY <2>2, <2>3 DEF Loses, Stored
  <1>6. ASSUME NEW i \in DOMAIN promoting', NEW j \in DOMAIN promoting', i # j, promoting'[i].sid = promoting'[j].sid
        PROVE  promoting'[i].sid \in purged' \cup Swapped'
    <2>1. PICK h \in Nat : \A k \in DOMAIN promoting' : k \in Nat /\ k + h \in DOMAIN promoting /\ SameWrite(promoting'[k], promoting[k + h])
      BY DEF Loses
    <2> DEFINE a == promoting[i + h]
               b == promoting[j + h]
    <2>2. promoting'[i].sid = a.sid /\ promoting'[j].sid = b.sid /\ i + h \in DOMAIN promoting /\ j + h \in DOMAIN promoting
      BY <2>1 DEF SameWrite
    <2>3. i + h # j + h
      <3>1. i \in Nat /\ j \in Nat
        BY <1>6, <2>1
      <3> QED
        BY <1>6, <3>1
    <2>4. a.sid \in purged \cup Swapped
      BY <1>0, <1>6, <2>2, <2>3 DEF OneEach, Free
    <2> QED
      BY <1>0, <2>2, <2>4
  <1> QED
    BY <1>2, <1>3, <1>4, <1>5, <1>6 DEF OneEach, Free

LEMMA LosesShape == ASSUME IInvText, Loses PROVE RunShape'
  <1>0. TypeOK /\ RunShape
    BY DEF IInvText, TypeInv
  <1>1. batch' = batch \/ batch' = <<>>
    BY DEF Loses
  <1>2. pc' = "stage" => pc = "stage" /\ op' = op /\ batch' = batch
    BY DEF Loses
  <1>3. pc' = "stage" => op'.stage = None /\ op'.backup = None
    BY <1>0, <1>2 DEF RunShape
  <1>4. \A i \in DOMAIN batch' : batch'[i].backup = None
    BY <1>0, <1>1 DEF RunShape
  <1>5. ASSUME NEW o \in Pending', NEW i \in todo' PROVE o.file # Files[i]
    <2>1. PICK q \in Pending : SameWrite(o, q)
      BY <1>0, <1>5, LosesPending
    <2>2. Pending' # {}
      BY <1>5
    <2>3. ~(batch' = <<>> /\ promoting' = <<>> /\ pc' # "stage")
      BY <2>2, NoOperations DEF Pending, Uncommitted
    <2>4. i \in todo
      BY <1>5, <2>3 DEF Loses
    <2> QED
      BY <1>0, <2>1, <2>4 DEF RunShape, SameWrite
  <1>6. ASSUME NEW i \in DOMAIN promoting', NEW j \in DOMAIN promoting', i # j
        PROVE  promoting'[i].file # promoting'[j].file
    <2>1. PICK h \in Nat : \A k \in DOMAIN promoting' : k \in Nat /\ k + h \in DOMAIN promoting /\ SameWrite(promoting'[k], promoting[k + h])
      BY DEF Loses
    <2>2. i + h # j + h
      <3>1. i \in Nat /\ j \in Nat
        BY <1>6, <2>1
      <3> QED
        BY <1>6, <3>1
    <2> QED
      BY <1>0, <1>6, <2>1, <2>2 DEF RunShape, SameWrite
  <1>7. \A i, j \in DOMAIN batch' : i # j => batch'[i].file # batch'[j].file
    BY <1>0, <1>1 DEF RunShape
  <1>8. pc' = "stage" => \A i \in DOMAIN batch' : batch'[i].file # op'.file
    BY <1>0, <1>2 DEF RunShape
  <1>9. ASSUME pc' = "stage", src'[op'.file] # None, src'[op'.file].ver = op'.text.ver
        PROVE  src'[op'.file].sid = op'.text.sid /\ op'.text.size <= src'[op'.file].size
    <2>1. pc = "stage" /\ op' = op /\ op \in Pending
      BY <1>2, <1>9 DEF Pending, Uncommitted
    <2>2. op.file \in Paths
      BY <1>0, <2>1, KindsOf DEF Kinds
    <2>3. src'[op.file] = src[op.file]
      BY <1>9, <2>1, <2>2 DEF Loses
    <2> QED
      BY <1>0, <1>9, <2>1, <2>3 DEF RunShape
  <1>10. \A g \in gc' : g.at = "raw" => g.sid \in purged'
    <2>1. \A g \in gc' : g \in gc \/ g.at = "row" \/ g.sid \in purged'
      BY DEF Loses
    <2>2. \A g \in gc : g.at = "raw" => g.sid \in purged'
      BY <1>0 DEF RunShape, Loses
    <2> QED
      BY <2>1, <2>2
  <1> QED
    BY <1>3, <1>4, <1>5, <1>6, <1>7, <1>8, <1>9, <1>10, Zenon DEF RunShape

\* The index still knows what it knew.
LEMMA LosesIndex ==
    ASSUME IInvText, Loses, idx' = idx, pc \in {"scan", "stage", "commit", "promote"},
           \A o \in ToSet(promoting) : \E q \in ToSet(promoting') : SameWrite(q, o)
    PROVE  IndexKnows'
  <1>0. TypeOK /\ \A s : Free(s)' => Free(s)
    BY FreeBefore DEF IInvText, TypeInv, Loses
  <1>1. /\ \A s \in Sids : idx[s] # None /\ s \notin purged => Stored(s)
        /\ \A s \in Sids : Stored(s) => idx[s] # None \/ \E o \in ToSet(promoting) : o.sid = s
        /\ \A s \in Sids : Free(s) /\ Stored(s) /\ (\A o \in ToSet(promoting) : o.sid # s) => db[s].orig = idx[s]
        /\ \A o \in ToSet(promoting) : Free(o.sid) => Stored(o.sid) /\ db[o.sid].orig = o.file
    BY DEF IInvText, IndexKnows
  <1>2. \A s \in Sids : idx'[s] # None /\ s \notin purged' => Stored(s)'
    BY <1>1 DEF Loses, Stored
  <1>3. ASSUME NEW s \in Sids, Stored(s)' PROVE idx'[s] # None \/ \E o \in ToSet(promoting') : o.sid = s
    <2>1. Stored(s)
      BY <1>3 DEF Loses, Stored
    <2> QED
      BY <1>1, <2>1 DEF SameWrite
  <1>4. ASSUME NEW s \in Sids, Free(s)', Stored(s)', \A o \in ToSet(promoting') : o.sid # s
        PROVE  db'[s].orig = idx'[s]
    <2>1. Free(s) /\ Stored(s) /\ db'[s].orig = db[s].orig
      BY <1>0, <1>4, LosesItems
    <2>2. \A o \in ToSet(promoting) : o.sid # s
      BY <1>4 DEF SameWrite
    <2> QED
      BY <1>1, <2>1, <2>2
  <1>5. ASSUME NEW o \in ToSet(promoting'), Free(o.sid)' PROVE Stored(o.sid)' /\ db'[o.sid].orig = o.file
    <2>1. PICK q \in ToSet(promoting) : SameWrite(o, q)
      BY <1>0, <1>5, LosesPending
    <2>2. q.sid = o.sid /\ q.file = o.file /\ o.sid \in Sids
      BY <1>0, <2>1, KindsOf DEF SameWrite, Kinds, Pending
    <2>3. Free(o.sid) /\ Stored(o.sid)' = Stored(o.sid) /\ (Stored(o.sid) => db'[o.sid].orig = db[o.sid].orig)
      BY <1>0, <1>5, <2>2, LosesItems
    <2>4. Free(q.sid)
      BY <2>2, <2>3
    <2>5. Stored(q.sid) /\ db[q.sid].orig = q.file
      BY <1>1, <2>4
    <2> QED
      BY <2>2, <2>3, <2>5
  <1> QED
    BY <1>2, <1>3, <1>4, <1>5 DEF IndexKnows

\* A session whose batch is flushed for another file of it counts no more, unless
\* the other file is new to the import.
LEMMA FlushedSession ==
    ASSUME IInvText, NEW s \in Sids, NEW f \in Paths, idx[s] = f, Holds(f, s), hasSourceSession(s),
           \A o \in Pending : o.file # f
    PROVE  ~Free(s)
  <1>1. PICK i \in DOMAIN batch : batch[i].sid = s
    BY DEF hasSourceSession
  <1> DEFINE o == batch[i]
  <1>2. o \in Uncommitted /\ o \in Pending /\ o.sid = s
    BY <1>1 DEF Uncommitted, Pending, ToSet
  <1> HIDE DEF o
  <1>3. f \in Paths \ {o.file} /\ f # None
    BY <1>2, Constants
  <1> QED
    BY <1>2, <1>3 DEF IInvText, OthersAreNewer

LEMMA FlushFollows == ASSUME IInvText, Loses, Flushed, TypeOK' PROVE ResumeFollows'
  <1>a. PICK f : f = Files[Min(todo)]
    OBVIOUS
  <1>b. PICK r : r = resume'
    OBVIOUS
  <1>0. /\ TypeOK /\ Kinds /\ r # None /\ todo' = todo /\ f \in Paths /\ src[f] # None
        /\ src' = src /\ writes' = writes /\ purged' = purged /\ raced' = raced
        /\ r \in Resume /\ r.text = src[f] /\ hasSourceSession(r.sid)
        /\ r.prior # None => idx[r.prior] = f
        /\ r.at = "append" => r.prior = r.sid /\ raw[r.sid] # None /\ filePrefixMatches(raw[r.sid], src[f])
        /\ r.at = "parsed" => r.sid = SessionOf(f, src[f])
    BY <1>a, <1>b, KindsOf DEF IInvText, TypeInv, Flushed, FlushRight
  <1>1. Min(todo) \in todo /\ todo # {}
    <2>1. todo # {}
      BY <1>0, <1>b DEF TypeOK
    <2> QED
      BY <1>0, <2>1, NextPlace DEF TypeOK
  <1>2. r.sid \in Sids /\ r.sid # None /\ (r.at = "append" \/ r.at = "parsed")
    BY <1>0, Constants DEF Resume
  <1>3. src[f] \in Content /\ src[f].ver \in Nat /\ src[f].size \in Nat
    BY <1>0 DEF Kinds
  <1>4. src[f].ver < writes + 3 /\ src[f].sid \notin Paths
    BY <1>0 DEF IInvText, VersionsCount, NamesAgree
  <1>5. \A o \in Pending : o.file # f
    BY <1>1, <1>a DEF IInvText, RunShape
  <1>6. r.at = "append" \/ r.prior = r.sid => idx[r.sid] = f
    BY <1>0, <1>2
  <1>7. r.at = "parsed" => Holds(f, r.sid)
    BY <1>0 DEF Holds
  <1>8. r.at = "append" /\ Free(r.sid) => Holds(f, r.sid)
    <2>1. SUFFICES ASSUME r.at = "append", Free(r.sid) PROVE Holds(f, r.sid)
      OBVIOUS
    <2>2. src[f].sid = Name(r.sid)
      BY <1>0, <1>2, <2>1 DEF IInvText, NamesAgree, filePrefixMatches
    <2>3. Owns(f, r.sid)
      BY <1>6, <2>1 DEF Owns
    <2>4. r.sid \in Paths => r.sid = f
      BY <1>0, <1>2, <2>3 DEF IInvText, NamesAgree
    <2>5. SessionOf(f, src[f]) = r.sid
      BY <1>0, <1>2, <1>3, <1>4, <2>2, <2>4, SessionNamed
    <2> QED
      BY <1>0, <2>5 DEF Holds
  <1>9. r.at = "append" \/ r.prior = r.sid => ~Free(r.sid)
    BY <1>0, <1>2, <1>5, <1>6, <1>7, <1>8, FlushedSession
  <1>10. \A s : Free(s)' => Free(s)
    BY <1>0 DEF Free, Swapped
  <1>11. ~Holds(f, r.sid) => \A g \in Paths \ {f} : src[g] # None => SessionOf(g, src[g]) # SessionOf(f, src[f])
    <2>1. ~Holds(f, r.sid) => Owns(f, r.sid)
      BY <1>2, <1>6, <1>7 DEF Owns
    <2> QED
      BY <1>0, <1>2, <2>1 DEF IInvText, MovedAlone
  <1>12. r.sid \in Paths => r.sid = f
    <2>1. CASE r.at = "append"
      BY <1>0, <1>2, <1>6, <2>1 DEF IInvText, NamesAgree, Owns
    <2>2. CASE r.at = "parsed"
      BY <1>0, <1>4, <2>2 DEF SessionOf
    <2> QED
      BY <1>2, <2>1, <2>2
  <1>13. \A s : Holds(f, s) => Holds(f, s)'
    BY <1>0 DEF Holds
  <1>14. src[f].ver = src[f].ver /\ src[f].size <= src[f].size
    BY <1>3
  <1> QED
    BY <1>0, <1>2, <1>4, <1>9, <1>10, <1>11, <1>12, <1>13, <1>14, <1>a, <1>b DEF ResumeFollows

\* The file that a flush left for later may go, and may count no more.
LEMMA LosesResume == ASSUME IInvText, Loses, TypeOK' PROVE ResumeFollows'
  <1>1. ASSUME resume # None, UNCHANGED <<resume, todo>> PROVE ResumeFollows'
    <2>a. PICK f : f = Files[Min(todo)]
      OBVIOUS
    <2>b. PICK r : r = resume
      OBVIOUS
    <2>c. PICK c : c = r.text
      OBVIOUS
    <2>0. TypeOK /\ Kinds /\ writes \in Nat /\ r \in Resume
      BY <1>1, <2>b, KindsOf DEF IInvText, TypeInv, Kinds, TypeOK
    <2>1. f \in Paths
      BY <1>1, <2>0, <2>a, NextPlace DEF TypeOK
    <2>2. src'[f] = src[f] \/ src'[f] = None
      BY <2>1 DEF Loses
    <2>3. \A s : Free(s)' => Free(s)
      BY FreeBefore DEF Loses
    <2>4. c \in Content /\ c.ver \in Nat
      BY <2>0, <2>c, ContentFields DEF Resume
    <2>5. /\ c.ver < writes + 3 /\ c.sid \notin Paths
          /\ src[f] # None => c.ver < src[f].ver \/ (c.ver = src[f].ver /\ c.sid = src[f].sid /\ c.size <= src[f].size)
          /\ src[f] # None /\ ~Holds(f, r.sid) =>
                \A g \in Paths \ {f} : src[g] # None => SessionOf(g, src[g]) # SessionOf(f, src[f])
          /\ r.sid \in Paths => r.sid = f
          /\ r.at = "append" \/ r.prior = r.sid => ~Free(r.sid)
          /\ r.at = "append" => r.prior = r.sid
          /\ r.at = "parsed" => r.sid = SessionOf(f, c)
      BY <1>1, <2>a, <2>b, <2>c DEF IInvText, ResumeFollows
    <2>6. c.ver < writes' + 3
      <3>1. \A a, b, n \in Nat : b \in {a, a + 1} /\ n < a + 3 => n < b + 3
        OBVIOUS
      <3>2. writes' \in Nat /\ writes' \in {writes, writes + 1}
        BY <2>0 DEF Loses
      <3> QED
        BY <2>0, <2>4, <2>5, <3>1, <3>2
    <2>7. src'[f] # None /\ ~Holds(f, r.sid)' =>
             \A g \in Paths \ {f} : src'[g] # None => SessionOf(g, src'[g]) # SessionOf(f, src'[f])
      <3>1. \A g \in Paths : src'[g] # None => src'[g] = src[g]
        BY DEF Loses
      <3>2. src'[f] # None /\ ~Holds(f, r.sid)' => ~Holds(f, r.sid)
        BY <2>2 DEF Holds
      <3> QED
        BY <2>1, <2>5, <3>1, <3>2
    <2>8. r.at = "append" \/ r.prior = r.sid => ~Free(r.sid)'
      BY <2>3, <2>5
    <2>9. resume' = r /\ f = Files[Min(todo')]
      BY <1>1, <2>a, <2>b
    <2> QED
      BY <2>2, <2>5, <2>6, <2>7, <2>8, <2>9, <2>c DEF ResumeFollows
  <1>2. resume' = None => ResumeFollows'
    BY DEF ResumeFollows
  <1> QED
    BY <1>1, <1>2, FlushFollows DEF Loses

\* All parts that a step which loses keeps.
LEMMA LosesKept ==
    ASSUME IInvText, Loses, TypeInv', IndexKnows'
    PROVE  IInvText'
  <1>1. ResumeFollows'
    BY LosesResume DEF TypeInv
  <1> QED
    BY <1>1, LosesVersions, LosesNames, LosesMoved, LosesAhead, LosesOthers, LosesOneEach, LosesWrites, LosesCopies,
       LosesBehind, LosesShape, LosesText DEF IInvText

-----------------------------------------------------------------------------
(* The steps *)

\* The committed operations are those before the step.
LEMMA SamePromoting ==
    ASSUME TypeOK, promoting' = promoting
    PROVE  /\ \E h \in Nat : \A i \in DOMAIN promoting' :
                /\ i \in Nat /\ i + h \in DOMAIN promoting /\ SameWrite(promoting'[i], promoting[i + h])
                /\ \/ promoting'[i].backup = promoting[i + h].backup
                   \/ promoting'[i].backup = raw[promoting[i + h].id]
           /\ \A o \in ToSet(promoting) : \E q \in ToSet(promoting') : SameWrite(q, o)
  <1>1. \A i \in DOMAIN promoting : i \in Nat /\ i + 0 = i
    BY DEF TypeOK
  <1>2. \A o : SameWrite(o, o)
    BY DEF SameWrite
  <1>3. \A i \in DOMAIN promoting' :
                /\ i \in Nat /\ i + 0 \in DOMAIN promoting /\ SameWrite(promoting'[i], promoting[i + 0])
                /\ \/ promoting'[i].backup = promoting[i + 0].backup
                   \/ promoting'[i].backup = raw[promoting[i + 0].id]
    BY <1>1, <1>2
  <1>4. 0 \in Nat
    OBVIOUS
  <1>5. \A o \in ToSet(promoting) : \E q \in ToSet(promoting') : SameWrite(q, o)
    BY <1>2
  <1> QED
    BY <1>3, <1>4, <1>5, Zenon

LEMMA NonePromoting ==
    ASSUME promoting' = <<>>
    PROVE  \E h \in Nat : \A i \in DOMAIN promoting' :
                /\ i \in Nat /\ i + h \in DOMAIN promoting /\ SameWrite(promoting'[i], promoting[i + h])
                /\ \/ promoting'[i].backup = promoting[i + h].backup
                   \/ promoting'[i].backup = raw[promoting[i + h].id]
  <1>1. DOMAIN promoting' = {}
    OBVIOUS
  <1>2. 0 \in Nat
    OBVIOUS
  <1> QED
    BY <1>1, <1>2, Zenon

\* An import that ends, whatever the reason, and one that starts again.
LEMMA StopsLoses ==
    ASSUME IInvText,
           UNCHANGED <<src, db, raw, gc, writes, purged>>, raced \subseteq raced',
           idx' = idx \/ idx' = [s \in Sids |-> None], batch' = <<>>, pc' \in {"end", "idle"},
           promoting' = <<>>, resume' = None
    PROVE  Loses /\ IndexKnows'
  <1>1. Loses
    BY NonePromoting DEF Loses
  <1>2. IndexKnows'
    BY DEF IndexKnows
  <1> QED
    BY <1>1, <1>2

\* Outside of a scan nothing was flushed for a file.
LEMMA NoResume == ASSUME TypeOK, pc \in {"idle", "stage", "end"} PROVE resume = None
  BY DEF TypeOK

LEMMA StartKeeps == ASSUME IInvText, StartImport PROVE Loses /\ IndexKnows'
  <1>0. /\ TypeOK /\ pc = "idle" /\ batch = <<>> /\ promoting = <<>> /\ resume' = None
        /\ UNCHANGED <<src, db, raw, batch, promoting, gc, writes, purged, raced>> /\ pc' = "scan"
        /\ \A s \in Sids : idx'[s] = IF Stored(s) THEN db[s].orig ELSE None
    BY NoResume DEF IInvText, TypeInv, TypeOK, BatchFits, StartImport, budgets, history, loadChatImportSessionIndex
  <1>1. Loses
    BY <1>0, NonePromoting DEF Loses, Stored
  <1>2. \A s \in Sids : Stored(s) => db[s].orig # None
    BY <1>0, Constants DEF TypeOK, Stored, Chat
  <1>3. IndexKnows'
    <2>1. \A s \in Sids : Stored(s)' = Stored(s) /\ (Stored(s) => idx'[s] # None /\ db'[s].orig = idx'[s])
      BY <1>0, <1>2 DEF Stored
    <2>2. ToSet(promoting') = {}
      BY <1>0, NoOperations
    <2>3. \A s \in Sids : idx'[s] # None => Stored(s)
      BY <1>0
    <2> QED
      BY <2>1, <2>2, <2>3 DEF IndexKnows
  <1> QED
    BY <1>1, <1>3

LEMMA EndOfFilesKeeps == ASSUME IInvText, EndOfFiles PROVE Loses /\ IndexKnows'
  <1>0. /\ TypeOK /\ pc = "scan" /\ promoting = <<>>
        /\ UNCHANGED <<src, db, raw, todo, idx, resume, batch, promoting, gc, writes, purged, raced>>
        /\ pc' = IF batch = <<>> THEN "end" ELSE "commit"
    BY DEF IInvText, TypeInv, TypeOK, EndOfFiles, budgets, history
  <1>1. Loses
    BY <1>0, SamePromoting DEF Loses
  <1>2. IndexKnows'
    BY <1>0, <1>1, SamePromoting, LosesIndex
  <1> QED
    BY <1>1, <1>2

\* A scan step that queues nothing.
LEMMA PassKeeps ==
    ASSUME IInvText, NEW i, NEW l, ScanStep(i, l), l.do # "queue"
    PROVE  Loses /\ IndexKnows'
  <1> DEFINE f == Files[i]
  <1>0. /\ TypeOK /\ f \in Paths /\ pc = "scan" /\ promoting = <<>> /\ i = Min(todo)
        /\ UNCHANGED <<db, raw, idx, promoting, gc, writes, purged, raced>>
        /\ todo' \subseteq todo /\ resume' = l.resume /\ l.do \in {"skip", "reclaim", "flush", "torn", "mismatch", "missing"}
        /\ src' = (IF l.do = "reclaim" /\ del THEN [src EXCEPT ![f] = None] ELSE src)
        /\ batch' = (IF pc' = "end" THEN <<>> ELSE batch)
    BY DEF IInvText, TypeInv, TypeOK, ScanStep, ScanRight, budgets
  <1>1. pc' = CASE l.do = "queue" -> "stage"
               [] l.do = "flush" -> "commit"
               [] l.do \in {"skip", "reclaim"} -> "scan"
               [] OTHER -> "end"
    BY DEF ScanStep
  <1>2. pc' \in {"scan", "commit", "end"}
    BY <1>0, <1>1
  <1>3. \A g \in Paths : src'[g] = src[g] \/ src'[g] = None
    BY <1>0 DEF TypeOK
  <1>4. batch' = batch \/ batch' = <<>>
    BY <1>0
  <1>5. Loses
    <2>1. /\ \A s \in Sids : /\ db'[s] # None => db[s] # None /\ db'[s].orig = db[s].orig /\ db'[s].items = db[s].items
                             /\ db'[s] = None /\ db[s] # None => s \in purged'
          /\ \A g \in gc' : g \in gc
      BY <1>0
    <2>2. resume' = None \/ Flushed
      <3>1. CASE l.do # "flush"
        BY <3>1 DEF ScanStep, ScanRight
      <3>2. CASE l.do = "flush"
        <4>1. resume = None /\ src[f] # None /\ LookRight(l, f)
          BY <3>2 DEF ScanStep, ScanRight
        <4>2. FlushRight(l.resume, f) /\ l.resume # None
          BY <3>2, <4>1, Constants DEF LookRight, FlushRight
        <4>3. todo' = todo /\ src' = src /\ batch' = batch
          BY <1>0, <1>1, <3>2 DEF ScanStep
        <4> QED
          BY <1>0, <4>1, <4>2, <4>3 DEF Flushed
      <3> QED
        BY <3>1, <3>2
    <2> QED
      BY <1>0, <1>2, <1>3, <1>4, <2>1, <2>2, SamePromoting DEF Loses
  <1>6. IndexKnows'
    BY <1>0, <1>2, <1>5, SamePromoting, LosesIndex
  <1> QED
    BY <1>5, <1>6

LEMMA MissingKeeps == ASSUME IInvText, StageFile, src[op.file] = None PROVE Loses /\ IndexKnows'
  <1>1. /\ UNCHANGED <<src, db, raw, gc, writes, purged, idx, resume, promoting, raced>> /\ batch' = <<>> /\ pc' = "end" /\ pc = "stage"
    BY DEF StageFile, budgets
  <1>2. promoting = <<>> /\ resume = None
    BY <1>1, NoResume DEF IInvText, TypeInv, TypeOK
  <1> QED
    BY <1>1, <1>2, StopsLoses

\* A file that is not in the listing of its root.
LEMMA NotListedKeeps == ASSUME IInvText, NotListed PROVE Loses /\ IndexKnows'
  <1>0. /\ TypeOK /\ pc = "scan" /\ promoting = <<>> /\ todo' \subseteq todo /\ resume' = None
        /\ UNCHANGED <<src, db, raw, idx, op, batch, promoting, pc, gc, writes, purged, raced>>
    BY DEF IInvText, TypeInv, TypeOK, NotListed, budgets, history
  <1>1. Loses
    BY <1>0, SamePromoting DEF Loses
  <1>2. IndexKnows'
    BY <1>0, <1>1, SamePromoting, LosesIndex
  <1> QED
    BY <1>1, <1>2

\* A run that does not start.
LEMMA NoStartKeeps == ASSUME IInvText, StartImportFails PROVE Loses /\ IndexKnows'
  <1>1. UNCHANGED <<src, db, raw, gc, writes, purged, raced, idx, resume, batch, promoting, pc>> /\ pc = "idle"
    BY DEF StartImportFails
  <1>2. promoting = <<>> /\ batch = <<>> /\ resume = None
    BY <1>1, NoResume DEF IInvText, TypeInv, TypeOK, BatchFits
  <1> QED
    BY <1>1, <1>2, StopsLoses

\* The end of a run, in which the index may be left as it is.
LEMMA EndKeeps == ASSUME IInvText, RunChatImportBulkMode \/ BulkModeFails PROVE Loses /\ IndexKnows'
  <1>1. /\ UNCHANGED <<src, db, raw, gc, writes, purged, raced, resume, batch, promoting>> /\ pc' = "idle" /\ pc = "end"
        /\ idx' = [s \in Sids |-> None]
    BY DEF RunChatImportBulkMode, BulkModeFails, Reset, budgets
  <1>2. promoting = <<>> /\ batch = <<>> /\ resume = None
    BY <1>1, NoResume DEF IInvText, TypeInv, TypeOK, BatchFits
  <1> QED
    BY <1>1, <1>2, StopsLoses

LEMMA CrashKeeps == ASSUME IInvText, Crash PROVE Loses /\ IndexKnows'
  BY StopsLoses DEF Crash, Reset

LEMMA WriteFailsKeeps ==
    ASSUME IInvText, WriteChatImportBatch, UNCHANGED <<db, promoting>>, pc' = "end", resume' = None
    PROVE  Loses /\ IndexKnows'
  <1>1. /\ UNCHANGED <<src, raw, gc, writes, purged, raced, idx, promoting>> /\ batch' = <<>> /\ pc = "commit"
    BY DEF WriteChatImportBatch, history
  <1>2. promoting = <<>>
    BY <1>1 DEF IInvText, TypeInv, TypeOK
  <1> QED
    BY <1>1, <1>2, StopsLoses

LEMMA RemovesKeeps == ASSUME IInvText, AgentRemoves PROVE Loses /\ IndexKnows'
  <1>0. /\ TypeOK /\ UNCHANGED <<db, raw, todo, idx, resume, op, batch, promoting, pc, gc, purged, raced>> /\ writes' = writes + 1
    BY DEF IInvText, TypeInv, AgentRemoves, importVars
  <1>1. \A g \in Paths : src'[g] = src[g] \/ src'[g] = None
    BY <1>0 DEF TypeOK, AgentRemoves
  <1>2. Loses
    BY <1>0, <1>1, SamePromoting DEF Loses
  <1>3. IndexKnows'
    BY <1>0, <1>2, SamePromoting, LosesIndex DEF IndexKnows
  <1> QED
    BY <1>2, <1>3

LEMMA UserKeeps == ASSUME IInvText, NEW s \in Sids, User(s) PROVE Loses /\ IndexKnows'
  <1>0. /\ TypeOK /\ UNCHANGED <<src, raw, todo, idx, resume, op, batch, promoting, pc, purged, raced, writes>>
    BY DEF IInvText, TypeInv, User, importVars, history
  <1>1. /\ \A t \in Sids : /\ db'[t] # None => db[t] # None /\ db'[t].orig = db[t].orig /\ db'[t].items = db[t].items
                           /\ ~(db'[t] = None /\ db[t] # None)
        /\ \A g \in gc' : g \in gc \/ g.at = "row"
    BY <1>0, UserEffect
  <1>2. Loses
    BY <1>0, <1>1, SamePromoting DEF Loses
  <1>3. IndexKnows'
    BY <1>0, <1>2, SamePromoting, LosesIndex DEF IndexKnows
  <1> QED
    BY <1>2, <1>3

LEMMA CollectKeeps == ASSUME IInvText, NEW s \in Sids, GCRow(s) \/ GCRaw(s) PROVE Loses /\ IndexKnows'
  <1>0. /\ TypeOK /\ UNCHANGED <<src, todo, idx, resume, op, batch, promoting, pc, raced, writes>>
    BY DEF IInvText, TypeInv, GCRow, GCRaw, importVars, budgets, history
  <1>1. db \in [Sids -> Chat \cup {None}] /\ raw \in [Sids -> Content \cup {None}]
    BY <1>0 DEF TypeOK
  <1>2. /\ \A t \in Sids : /\ db'[t] # None => db[t] # None /\ db'[t].orig = db[t].orig /\ db'[t].items = db[t].items
                           /\ db'[t] = None /\ db[t] # None => t \in purged'
        /\ \A t \in Sids : raw'[t] = raw[t] \/ raw'[t] = None
        /\ purged \subseteq purged'
        /\ \A g \in gc' : g \in gc \/ g.at = "row" \/ g.sid \in purged'
    <2>1. CASE GCRow(s)
      <3>1. db' = [db EXCEPT ![s] = None] /\ raw' = raw /\ purged' = purged \cup {s}
            /\ gc' \subseteq gc \cup {[sid |-> s, at |-> "raw"]}
        BY <2>1 DEF GCRow
      <3>2. db'[s] = None /\ \A t \in Sids : t # s => db'[t] = db[t]
        BY <1>1, <3>1
      <3>3. [sid |-> s, at |-> "raw"].sid \in purged'
        BY <3>1
      <3> QED
        BY <3>1, <3>2, <3>3
    <2>2. CASE GCRaw(s)
      <3>1. db' = db /\ raw' = [raw EXCEPT ![s] = None] /\ purged' = purged /\ gc' \subseteq gc
        BY <2>2 DEF GCRaw, history
      <3> QED
        BY <1>1, <3>1
    <2> QED
      BY <2>1, <2>2
  <1>3. Loses
    BY <1>0, <1>2, SamePromoting DEF Loses
  <1>4. IndexKnows'
    BY <1>0, <1>3, SamePromoting, LosesIndex DEF IndexKnows
  <1> QED
    BY <1>3, <1>4

LEMMA BackupKeeps == ASSUME IInvText, promoteBackup PROVE Loses /\ IndexKnows'
  <1> DEFINE o == Head(promoting)
             b == [o EXCEPT !.backup = raw[o.id]]
  <1>0. /\ TypeOK /\ promoting # <<>> /\ promoting \in Seq(Operation) /\ pc = "promote" /\ batch = <<>>
        /\ UNCHANGED <<src, db, idx, op, todo, resume, batch, pc, gc, writes, purged, raced>>
    BY DEF IInvText, TypeInv, TypeOK, BatchFits, promoteBackup, budgets, history
  <1>1. o \in Operation /\ o.id \in Sids /\ raw[o.id] \in Content /\ raw' = [raw EXCEPT ![o.id] = None]
    BY <1>0, PromotedOperation, OperationFields DEF promoteBackup, TypeOK
  <1>2. b \in Operation /\ b.backup = raw[o.id] /\ SameWrite(b, o)
    BY <1>1, BackedUp DEF SameWrite
  <1>3. promoting' = <<b>> \o Tail(promoting) /\ o = promoting[1] /\ ToSet(promoting) = {o} \cup ToSet(Tail(promoting))
        /\ 1 \in DOMAIN promoting
    BY <1>0, HeadFirst DEF promoteBackup
  <1> HIDE DEF b, o
  <1>4. /\ DOMAIN promoting' = DOMAIN promoting /\ promoting'[1] = b
        /\ \A i \in DOMAIN promoting : i # 1 => promoting'[i] = promoting[i]
        /\ ToSet(promoting') = {b} \cup ToSet(Tail(promoting))
    BY <1>0, <1>2, <1>3, HeadReplaced
  <1>5. \A q : SameWrite(q, q)
    BY DEF SameWrite
  <1>6. \A i \in DOMAIN promoting : i \in Nat /\ i + 0 = i
    BY <1>0
  <1>7. \A i \in DOMAIN promoting' :
           /\ i \in Nat /\ i + 0 \in DOMAIN promoting /\ SameWrite(promoting'[i], promoting[i + 0])
           /\ \/ promoting'[i].backup = promoting[i + 0].backup
              \/ promoting'[i].backup = raw[promoting[i + 0].id]
    BY <1>2, <1>3, <1>4, <1>5, <1>6
  <1>8. \E h \in Nat : \A i \in DOMAIN promoting' :
           /\ i \in Nat /\ i + h \in DOMAIN promoting /\ SameWrite(promoting'[i], promoting[i + h])
           /\ \/ promoting'[i].backup = promoting[i + h].backup
              \/ promoting'[i].backup = raw[promoting[i + h].id]
    <2>1. 0 \in Nat
      OBVIOUS
    <2> QED
      BY <1>7, <2>1, Zenon
  <1>9. \A s \in Sids : raw'[s] = raw[s] \/ raw'[s] = None
    BY <1>0, <1>1 DEF TypeOK
  <1>10. Loses
    BY <1>0, <1>8, <1>9 DEF Loses
  <1>11. \A q \in ToSet(promoting) : \E r \in ToSet(promoting') : SameWrite(r, q)
    BY <1>2, <1>3, <1>4, <1>5
  <1>12. IndexKnows'
    BY <1>0, <1>10, <1>11, LosesIndex
  <1> QED
    BY <1>10, <1>12

LEMMA RenameKeeps == ASSUME IInvText, promoteRename PROVE Loses /\ IndexKnows'
  <1> DEFINE o == Head(promoting)
             t == Tail(promoting)
  <1>0. /\ TypeOK /\ promoting # <<>> /\ promoting \in Seq(Operation) /\ pc = "promote" /\ batch = <<>>
        /\ UNCHANGED <<db, op, todo, resume, batch, gc, writes, purged, raced>>
    BY DEF IInvText, TypeInv, TypeOK, BatchFits, promoteRename, budgets
  <1>1. o \in Operation /\ o.stage \in Content /\ o.id \in Sids /\ o.sid \in Sids /\ o.file \in Paths
    BY <1>0, PromotedOperation, OperationFields
  <1>2. /\ raw' = [raw EXCEPT ![o.id] = o.stage]
        /\ idx' = [idx EXCEPT ![o.sid] = o.file]
        /\ src' = (IF del THEN [src EXCEPT ![o.file] = None] ELSE src)
        /\ promoting' = t
        /\ pc' = (IF t = <<>> THEN "scan" ELSE pc)
    BY Zenon DEF promoteRename
  <1>3. /\ o \in ToSet(promoting) /\ o = promoting[1] /\ 1 \in DOMAIN promoting
        /\ ToSet(promoting) = {o} \cup ToSet(t)
        /\ \A i \in DOMAIN t : i + 1 \in DOMAIN promoting /\ i + 1 # 1 /\ t[i] = promoting[i + 1]
    BY <1>0, HeadFirst
  <1>4. \A i \in DOMAIN t : i \in Nat
    BY <1>0
  <1> HIDE DEF o, t
  <1>5. \A s : SameWrite(s, s)
    BY DEF SameWrite
  <1>6. \E h \in Nat : \A i \in DOMAIN promoting' :
           /\ i \in Nat /\ i + h \in DOMAIN promoting /\ SameWrite(promoting'[i], promoting[i + h])
           /\ \/ promoting'[i].backup = promoting[i + h].backup
              \/ promoting'[i].backup = raw[promoting[i + h].id]
    <2>1. 1 \in Nat
      OBVIOUS
    <2>2. \A i \in DOMAIN promoting' :
           /\ i \in Nat /\ i + 1 \in DOMAIN promoting /\ SameWrite(promoting'[i], promoting[i + 1])
           /\ \/ promoting'[i].backup = promoting[i + 1].backup
              \/ promoting'[i].backup = raw[promoting[i + 1].id]
      BY <1>2, <1>3, <1>4, <1>5
    <2> QED
      BY <2>1, <2>2, Zenon
  <1>7. \A i \in DOMAIN t : t[i].sid = o.sid => o.sid \in purged \cup Swapped
    <2>1. \A i \in DOMAIN t : t[i].sid = o.sid => ~Free(promoting[1].sid)
      BY <1>3 DEF IInvText, OneEach
    <2> QED
      BY <1>3, <2>1 DEF Free
  <1>8. \A i \in DOMAIN t : t[i].sid = o.id => o.id \in purged \cup Swapped
    <2>1. o.id # o.sid => o.id \in purged
      BY <1>3 DEF IInvText, OneEach
    <2> QED
      BY <1>7, <2>1
  <1>9. \A s \in Sids : raw'[s] = raw[s] \/ RawMoves(s)
    <2>1. \A s \in Sids : s # o.id => raw'[s] = raw[s]
      BY <1>0, <1>2 DEF TypeOK
    <2>2. raw'[o.id] = o.stage
      BY <1>0, <1>1, <1>2 DEF TypeOK
    <2>3. purged' = purged /\ Swapped' = Swapped
      BY <1>0 DEF Swapped
    <2>4. RawMoves(o.id)
      BY <1>0, <1>2, <1>3, <1>8, <2>2, <2>3 DEF RawMoves
    <2> QED
      BY <2>1, <2>4
  <1>10. \A f \in Paths : src'[f] = src[f] \/ src'[f] = None
    BY <1>0, <1>2 DEF TypeOK
  <1>11. /\ idx'[o.sid] = o.file
         /\ \A s \in Sids : s # o.sid => idx'[s] = idx[s]
    BY <1>0, <1>1, <1>2 DEF TypeOK
  <1>12. Loses
    <2>1. \A s \in Sids : idx'[s] = idx[s] \/ \E q \in ToSet(promoting) : q.sid = s /\ idx'[s] = q.file
      BY <1>3, <1>11
    <2>2. pc' # "stage" /\ batch' = <<>> /\ batch' = batch
      BY <1>0, <1>2
    <2> QED
      BY <1>0, <1>6, <1>9, <1>10, <2>1, <2>2 DEF Loses
  <1>13. IndexKnows'
    <2>1. /\ \A s \in Sids : idx[s] # None /\ s \notin purged => Stored(s)
          /\ \A s \in Sids : Stored(s) => idx[s] # None \/ \E q \in ToSet(promoting) : q.sid = s
          /\ \A s \in Sids : Free(s) /\ Stored(s) /\ (\A q \in ToSet(promoting) : q.sid # s) => db[s].orig = idx[s]
          /\ \A q \in ToSet(promoting) : Free(q.sid) => Stored(q.sid) /\ db[q.sid].orig = q.file
      BY <1>0 DEF IInvText, IndexKnows
    <2>2. Stored(o.sid) \/ o.sid \in purged
      BY <1>3 DEF IInvText, OneEach
    <2>3. (\A s \in Sids : Stored(s)' = Stored(s)) /\ (\A s : Free(s)' = Free(s)) /\ db' = db /\ purged' = purged
      BY <1>0 DEF Stored, Free, Swapped
    <2>4. \A s \in Sids : idx'[s] # None /\ s \notin purged' => Stored(s)'
      BY <1>1, <1>11, <2>1, <2>2, <2>3
    <2>5. \A s \in Sids : Stored(s)' => idx'[s] # None \/ \E q \in ToSet(promoting') : q.sid = s
      <3>1. o.file # None
        BY <1>1, Constants
      <3> QED
        BY <1>2, <1>3, <1>11, <2>1, <2>3, <3>1
    <2>6. ASSUME NEW s \in Sids, Free(s)', Stored(s)', \A q \in ToSet(promoting') : q.sid # s
          PROVE  db'[s].orig = idx'[s]
      <3>1. Free(s) /\ Stored(s) /\ \A q \in ToSet(t) : q.sid # s
        BY <1>2, <2>3, <2>6
      <3>2. CASE s = o.sid
        BY <1>3, <1>11, <2>1, <2>3, <3>1, <3>2
      <3>3. CASE s # o.sid
        BY <1>3, <1>11, <2>1, <2>3, <3>1, <3>3
      <3> QED
        BY <3>2, <3>3
    <2>7. ASSUME NEW q \in ToSet(promoting'), Free(q.sid)' PROVE Stored(q.sid)' /\ db'[q.sid].orig = q.file
      <3>1. q \in ToSet(promoting) /\ q.sid \in Sids
        <4>1. q \in ToSet(promoting)
          BY <1>2, <1>3, <2>7
        <4> QED
          BY <1>0, <4>1, KindsOf DEF Kinds, Pending
      <3> QED
        BY <2>1, <2>3, <2>7, <3>1
    <2> QED
      BY <2>4, <2>5, <2>6, <2>7 DEF IndexKnows
  <1> QED
    BY <1>12, <1>13

LEMMA FailsKeeps == ASSUME IInvText, promoteFails PROVE Loses /\ IndexKnows'
  <1> DEFINE o == Head(promoting)
  <1>0. /\ TypeOK /\ promoting # <<>> /\ promoting \in Seq(Operation) /\ pc = "promote" /\ batch = <<>>
        /\ UNCHANGED <<src, db, idx, todo, op, batch, gc, writes, purged, raced>>
        /\ promoting' = <<>> /\ pc' = "end" /\ resume' = None
    BY DEF IInvText, TypeInv, TypeOK, BatchFits, promoteFails, history
  <1>1. o \in ToSet(promoting) /\ o.id \in Sids
    BY <1>0, HeadFirst, OperationFields
  <1>2. raw' = IF o.backup # None THEN [raw EXCEPT ![o.id] = o.backup] ELSE raw
    BY DEF promoteFails
  <1> HIDE DEF o
  <1>3. \A s \in Sids : raw'[s] = raw[s] \/ (s = o.id /\ raw'[s] = o.backup)
    BY <1>0, <1>2 DEF TypeOK
  <1>4. DOMAIN promoting' = {}
    BY <1>0
  <1>5. \A s \in Sids : raw'[s] = raw[s] \/ RawMoves(s)
    BY <1>0, <1>1, <1>3, <1>4 DEF RawMoves
  <1>6. Loses
    BY <1>0, <1>5, NonePromoting DEF Loses
  <1>7. IndexKnows'
    BY <1>0 DEF IndexKnows
  <1> QED
    BY <1>6, <1>7

\* What a step that touches neither chats, copies nor operations leaves as it is.
LEMMA SameParts ==
    ASSUME UNCHANGED <<db, raw, idx, todo, resume, op, batch, promoting, pc, purged, raced>>
    PROVE  /\ \A f, s : Owns(f, s)' = Owns(f, s)
           /\ Pending' = Pending /\ Uncommitted' = Uncommitted
           /\ \A s : Free(s)' = Free(s)
           /\ \A s : DbItems(s)' = DbItems(s) /\ Stored(s)' = Stored(s)
  <1>1. Pending' = Pending /\ Uncommitted' = Uncommitted
    BY DEF Pending, Uncommitted
  <1>2. \A s : DbItems(s)' = DbItems(s) /\ Stored(s)' = Stored(s)
    BY DEF DbItems, Stored
  <1>3. \A s : Free(s)' = Free(s)
    BY DEF Free, Swapped
  <1>4. ASSUME NEW f, NEW s PROVE Owns(f, s)' = Owns(f, s)
    <2>1. Owns(f, s)' <=> Owns(f, s)
      BY <1>1 DEF Owns, Stored
    <2> QED
      BY <2>1 DEF Owns
  <1> QED
    BY <1>1, <1>2, <1>3, <1>4

LEMMA AgentWritesKeeps == ASSUME IInvText, AgentWrites, TypeInv' PROVE IInvText'
  <1>0. /\ TypeOK /\ Kinds /\ UNCHANGED <<db, raw, todo, idx, resume, op, batch, promoting, pc, gc, purged, raced>>
        /\ writes' = writes + 1 /\ writes < MaxWrites /\ writes \in Nat
    BY KindsOf DEF IInvText, TypeInv, AgentWrites, importVars, Kinds
  <1>1a. PICK f \in Paths : \E x \in NextContents(f) : src' = [src EXCEPT ![f] = x]
    BY DEF AgentWrites
  <1>1. PICK c \in NextContents(f) : src' = [src EXCEPT ![f] = c]
    BY <1>1a
  <1>2. /\ src[f] \in Content /\ c \in Content
        /\ \/ c.sid = src[f].sid /\ c.ver = src[f].ver /\ src[f].size < c.size
           \/ /\ c.ver = writes + 3
              /\ c.sid = src[f].sid \/ (src[f].sid # None /\ c.sid \in FreshSids)
    BY <1>0, WrittenContents
  <1>3. /\ src'[f] = c /\ \A g \in Paths : g # f => src'[g] = src[g]
        /\ src[f] # None /\ c # None
    BY <1>0, <1>1, <1>2, Constants DEF TypeOK
  <1>4. /\ \A g, s : Owns(g, s)' = Owns(g, s)
        /\ Pending' = Pending /\ Uncommitted' = Uncommitted
        /\ \A s : Free(s)' = Free(s)
        /\ \A s : DbItems(s)' = DbItems(s) /\ Stored(s)' = Stored(s)
    BY <1>0, SameParts
  <1>5. c.sid \notin Paths /\ src[f].sid \notin Paths
    BY <1>2, <1>3 DEF IInvText, NamesAgree, FreshSids
  <1>6. c.ver \in Nat /\ c.size \in Nat /\ src[f].ver \in Nat /\ src[f].size \in Nat
    BY <1>2, ContentFields
  <1>7. src[f].ver < writes + 3
    BY <1>3 DEF IInvText, VersionsCount
  \* The file holds the session it held, or one that nobody else has.
  <1>8. \/ c.sid = src[f].sid /\ SessionOf(f, c) = SessionOf(f, src[f])
        \/ /\ c.sid \in FreshSids /\ SessionOf(f, c) = c.sid
           /\ \A g \in Paths : src[g] # None => SessionOf(g, src[g]) # c.sid
    <2>1. CASE c.sid = src[f].sid
      BY <2>1 DEF SessionOf
    <2>2. CASE c.sid \in FreshSids
      <3>1. c.sid \in Sids /\ c.sid # None /\ \A g \in Paths : src[g] # None => src[g].sid # c.sid
        BY <2>2, Constants DEF FreshSids
      <3> QED
        BY <1>5, <2>2, <3>1 DEF SessionOf
    <2> QED
      BY <1>2, <2>1, <2>2
  <1>9. VersionsCount'
    <2>1. \A n \in Nat : n < writes + 3 => n < writes' + 3
      BY <1>0
    <2>2. c.ver < writes' + 3
      BY <1>0, <1>2, <1>6, <1>7
    <2>3. \A g \in Paths : src'[g] # None => src'[g].ver < writes' + 3
      BY <1>0, <1>3, <2>1, <2>2 DEF IInvText, VersionsCount, Kinds
    <2>4. \A s \in Sids : Free(s)' /\ raw'[s] # None => raw'[s].ver < writes' + 3
      BY <1>0, <1>4, <2>1 DEF IInvText, VersionsCount, Kinds
    <2>5. \A s \in Sids : Free(s)' => \A i \in DbItems(s)' : i.ver < writes' + 3
      BY <1>0, <1>4, <2>1 DEF IInvText, VersionsCount, Kinds
    <2>6. \A o \in Pending' : o.text.ver < writes' + 3 /\ Copy(o).ver < writes' + 3
      BY <1>0, <1>4, <2>1 DEF IInvText, VersionsCount, Kinds
    <2> QED
      BY <2>3, <2>4, <2>5, <2>6 DEF VersionsCount
  <1>10. NamesAgree'
    <2>1. \A g \in Paths : src'[g] # None => src'[g].sid \notin Paths
      BY <1>3, <1>5 DEF IInvText, NamesAgree
    <2>2. \A g \in Paths, s \in Sids : Owns(g, s)' /\ s \in Paths => s = g
      BY <1>4 DEF IInvText, NamesAgree
    <2>3. \A s \in Sids : Free(s)' /\ raw'[s] # None => raw'[s].sid = Name(s)
      BY <1>0, <1>4 DEF IInvText, NamesAgree
    <2> QED
      BY <2>1, <2>2, <2>3 DEF NamesAgree
  <1>10a. ASSUME NEW h \in Paths, NEW s \in Sids,
                src[h] # None /\ ~Holds(h, s) =>
                    \A g \in Paths \ {h} : src[g] # None => SessionOf(g, src[g]) # SessionOf(h, src[h]),
                src'[h] # None, ~Holds(h, s)', NEW g \in Paths \ {h}, src'[g] # None
          PROVE  SessionOf(g, src'[g]) # SessionOf(h, src'[h])
    <2>1. CASE c.sid = src[f].sid /\ SessionOf(f, c) = SessionOf(f, src[f])
      <3>1. \A k \in Paths : SessionOf(k, src'[k]) = SessionOf(k, src[k]) /\ (src'[k] # None <=> src[k] # None)
        BY <1>3, <2>1
      <3>2. ~Holds(h, s) /\ src[h] # None /\ src[g] # None
        BY <1>10a, <3>1 DEF Holds
      <3> QED
        BY <1>10a, <3>1, <3>2
    <2>2. CASE /\ c.sid \in FreshSids /\ SessionOf(f, c) = c.sid
               /\ \A k \in Paths : src[k] # None => SessionOf(k, src[k]) # c.sid
      <3>1. CASE h = f
        BY <1>3, <1>10a, <2>2, <3>1
      <3>2. CASE g = f
        BY <1>3, <1>10a, <2>2, <3>2
      <3>3. CASE h # f /\ g # f
        <4>1. src'[h] = src[h] /\ src'[g] = src[g]
          BY <1>3, <3>3
        <4>2. ~Holds(h, s)
          BY <1>10a, <4>1 DEF Holds
        <4> QED
          BY <1>10a, <4>1, <4>2
      <3> QED
        BY <3>1, <3>2, <3>3
    <2> QED
      BY <1>8, <2>1, <2>2
  <1>11. MovedAlone'
    <2>1. ASSUME NEW h \in Paths, NEW s \in Sids, src'[h] # None, Owns(h, s)', ~Holds(h, s)',
                 NEW g \in Paths \ {h}, src'[g] # None
          PROVE  SessionOf(g, src'[g]) # SessionOf(h, src'[h])
      <3>1. Owns(h, s)
        BY <1>4, <2>1
      <3>2. src[h] # None /\ ~Holds(h, s) =>
               \A k \in Paths \ {h} : src[k] # None => SessionOf(k, src[k]) # SessionOf(h, src[h])
        BY <3>1 DEF IInvText, MovedAlone
      <3> QED
        BY <1>10a, <2>1, <3>2
    <2> QED
      BY <2>1, Zenon DEF MovedAlone
  <1>12. FileIsAhead'
    <2>1. ASSUME NEW h \in Paths, NEW s \in Sids, Free(s)', Holds(h, s)', NEW t \in Sids, Owns(h, t)'
          PROVE  /\ \A i \in DbItems(s)' : i.ver <= src'[h].ver
                 /\ raw'[s] # None => AtMost(raw'[s], src'[h])
                 /\ \A o \in Pending' : o.sid = s => AtMost(Copy(o), src'[h])
      <3>0. Free(s) /\ Owns(h, t) /\ DbItems(s)' = DbItems(s) /\ raw' = raw /\ Pending' = Pending
        BY <1>0, <1>4, <2>1
      <3>1. ASSUME Holds(h, s)
            PROVE  /\ \A i \in DbItems(s) : i.ver <= src[h].ver
                   /\ raw[s] # None => AtMost(raw[s], src[h])
                   /\ \A o \in Pending : o.sid = s => AtMost(Copy(o), src[h])
        BY <3>0, <3>1 DEF IInvText, FileIsAhead
      <3>2. CASE h # f
        <4>1. src'[h] = src[h]
          BY <1>3, <3>2
        <4>2. Holds(h, s)
          BY <2>1, <4>1 DEF Holds
        <4> QED
          BY <3>0, <3>1, <4>1, <4>2
      <3>3. CASE h = f /\ c.ver = src[f].ver
        <4>1. c.sid = src[f].sid /\ src[f].size < c.size
          BY <1>2, <1>6, <1>7, <3>3
        <4>2. Holds(f, s)
          BY <1>3, <2>1, <3>3, <4>1 DEF Holds, SessionOf
        <4>3. AtMost(src[f], c)
          BY <1>6, <3>3, <4>1 DEF AtMost
        <4>4. \A a \in Content : AtMost(a, src[f]) => AtMost(a, c)
          BY <1>2, <4>3, AtMostOrder
        <4> QED
          BY <1>0, <1>3, <3>0, <3>1, <3>3, <4>2, <4>4 DEF Kinds
      <3>4. CASE h = f /\ c.ver = writes + 3
        <4>1. \A n \in Nat : n < writes + 3 => n < c.ver /\ n <= c.ver
          BY <1>0, <1>6, <3>4
        <4>2. \A i \in DbItems(s) : i.ver <= c.ver
          BY <1>0, <3>0, <4>1 DEF Kinds, IInvText, VersionsCount
        <4>3. raw[s] # None => AtMost(raw[s], c)
          BY <1>0, <3>0, <4>1 DEF Kinds, IInvText, VersionsCount, AtMost
        <4>4. \A o \in Pending : AtMost(Copy(o), c)
          BY <1>0, <4>1 DEF Kinds, IInvText, VersionsCount, AtMost
        <4> QED
          BY <1>3, <3>0, <3>4, <4>2, <4>3, <4>4
      <3> QED
        BY <1>2, <3>2, <3>3, <3>4
    <2> QED
      BY <2>1, Zenon DEF FileIsAhead
  <1>13. OthersAreNewer'
    <2>1. ASSUME NEW o \in Uncommitted', Free(o.sid)', NEW g \in Paths \ {o.file}, Holds(g, o.sid)'
          PROVE  /\ Copy(o).ver = src'[g].ver => \A t \in Sids : Owns(g, t)' => t = o.sid
                 /\ idx'[o.sid] \in {None, o.file}
      <3>0. o \in Uncommitted /\ Free(o.sid) /\ o \in Pending /\ idx' = idx /\ o.sid \in Sids
        BY <1>0, <1>4, <2>1 DEF Pending, Kinds
      <3>1. Copy(o).ver < writes + 3 /\ Copy(o).ver \in Nat
        BY <1>0, <3>0 DEF IInvText, VersionsCount, Kinds
      <3>2. g = f /\ c.ver = writes + 3 => Copy(o).ver # src'[g].ver
        BY <1>0, <1>3, <3>1
      <3>3. ASSUME Holds(g, o.sid)
            PROVE  /\ Copy(o).ver = src[g].ver => \A t \in Sids : Owns(g, t) => t = o.sid
                   /\ idx[o.sid] \in {None, o.file}
        BY <2>1, <3>0, <3>3 DEF IInvText, OthersAreNewer
      <3>4. CASE g # f
        <4>1. src'[g] = src[g]
          BY <1>3, <3>4
        <4>2. Holds(g, o.sid)
          BY <2>1, <4>1 DEF Holds
        <4> QED
          BY <1>4, <3>0, <3>3, <4>1, <4>2
      <3>5. CASE g = f /\ c.sid = src[f].sid
        <4>1. Holds(g, o.sid)
          BY <1>3, <2>1, <3>5 DEF Holds, SessionOf
        <4>2. Copy(o).ver = src'[g].ver => Copy(o).ver = src[g].ver
          BY <1>2, <1>3, <3>2, <3>5
        <4> QED
          BY <1>4, <3>0, <3>3, <4>1, <4>2
      <3>6. CASE g = f /\ c.sid # src[f].sid
        <4>1. c.sid \in FreshSids /\ c.ver = writes + 3 /\ SessionOf(f, c) = c.sid
          BY <1>2, <1>8, <3>6
        <4>2. o.sid = c.sid
          BY <1>3, <2>1, <3>6, <4>1 DEF Holds
        <4>3. ~Stored(o.sid) /\ o.sid \notin purged
          BY <3>0, <4>1, <4>2 DEF FreshSids, Free
        <4>4. pc \in {"scan", "stage", "commit"}
          <5>1. batch # <<>> \/ pc = "stage"
            BY <3>0, NoOperations DEF Uncommitted
          <5> QED
            BY <5>1 DEF IInvText, TypeInv, BatchFits
        <4>5. idx[o.sid] = None
          BY <3>0, <4>3, <4>4 DEF IInvText, IndexKnows
        <4> QED
          BY <3>0, <3>2, <3>6, <4>1, <4>5
      <3> QED
        BY <3>4, <3>5, <3>6
    <2> QED
      BY <2>1, Zenon DEF OthersAreNewer
  <1>14. OneEach' /\ IndexKnows'
    <2>1. OneEach'
      BY <1>0, <1>4 DEF IInvText, OneEach
    <2>2. IndexKnows'
      BY <1>0, <1>4 DEF IInvText, IndexKnows
    <2> QED
      BY <2>1, <2>2
  <1>15. WritesOneText' /\ CopiesFollow' /\ RawIsBehind' /\ OneText'
    <2>1. WritesOneText'
      BY <1>0, <1>4 DEF IInvText, WritesOneText
    <2>2. CopiesFollow'
      BY <1>0, <1>4 DEF IInvText, CopiesFollow
    <2>3. RawIsBehind'
      BY <1>0, <1>4 DEF IInvText, RawIsBehind
    <2>4. OneText'
      BY <1>0, <1>4 DEF IInvText, OneText, Swapped
    <2> QED
      BY <2>1, <2>2, <2>3, <2>4
  <1>16. RunShape'
    <2>1. ASSUME pc' = "stage", src'[op'.file] # None, src'[op'.file].ver = op'.text.ver
          PROVE  src'[op'.file].sid = op'.text.sid /\ op'.text.size <= src'[op'.file].size
      <3>1. pc = "stage" /\ op' = op /\ op \in Pending
        BY <1>0, <2>1 DEF Pending, Uncommitted
      <3>2. op.file \in Paths /\ op.text \in Content /\ op.text.ver < writes + 3 /\ op.text.ver \in Nat /\ op.text.size \in Nat
        BY <1>0, <3>1, ContentFields DEF Kinds, IInvText, VersionsCount
      <3>3. CASE op.file # f
        <4>1. src'[op.file] = src[op.file]
          BY <1>3, <3>2, <3>3
        <4> QED
          BY <2>1, <3>1, <4>1 DEF IInvText, RunShape
      <3>4. CASE op.file = f
        <4>1. c.ver = op.text.ver
          BY <1>3, <2>1, <3>1, <3>4
        <4>2. c.ver # writes + 3
          BY <1>0, <3>2, <4>1
        <4>3. c.sid = src[f].sid /\ c.ver = src[f].ver /\ src[f].size < c.size
          BY <1>2, <4>2
        <4>4. src[f].sid = op.text.sid /\ op.text.size <= src[f].size
          BY <1>3, <3>1, <3>4, <4>1, <4>3 DEF IInvText, RunShape
        <4>5. op.text.size <= c.size
          BY <1>6, <3>2, <4>3, <4>4
        <4> QED
          BY <1>3, <3>1, <3>4, <4>3, <4>4, <4>5
      <3> QED
        BY <3>3, <3>4
    <2>2. /\ pc' = "stage" => op'.stage = None /\ op'.backup = None
          /\ \A i \in DOMAIN batch' : batch'[i].backup = None
          /\ \A o \in Pending', i \in todo' : o.file # Files[i]
          /\ \A i, j \in DOMAIN promoting' : i # j => promoting'[i].file # promoting'[j].file
          /\ \A i, j \in DOMAIN batch' : i # j => batch'[i].file # batch'[j].file
          /\ pc' = "stage" => \A i \in DOMAIN batch' : batch'[i].file # op'.file
          /\ \A g \in gc' : g.at = "raw" => g.sid \in purged'
      BY <1>0, <1>4 DEF IInvText, RunShape
    <2> QED
      BY <2>1, <2>2, Zenon DEF RunShape
  <1>17. ResumeFollows'
    <2>1. SUFFICES ASSUME resume # None PROVE ResumeFollows'
      BY <1>0 DEF ResumeFollows
    <2>a. PICK h : h = Files[Min(todo)]
      OBVIOUS
    <2>b. PICK r : r = resume
      OBVIOUS
    <2>c. PICK t : t = r.text
      OBVIOUS
    <2>2. r \in Resume /\ r.sid \in Sids /\ h \in Paths /\ t \in Content /\ t.ver \in Nat /\ t.size \in Nat
      <3>1. r \in Resume /\ todo # {} /\ todo \subseteq DOMAIN Files
        BY <1>0, <2>1, <2>b DEF TypeOK
      <3>2. r.sid \in Sids /\ t \in Content
        BY <2>c, <3>1 DEF Resume
      <3> QED
        BY <2>a, <3>1, <3>2, NextPlace, ContentFields
    <2>3. /\ t.ver < writes + 3 /\ t.sid \notin Paths
          /\ src[h] # None => t.ver < src[h].ver \/ (t.ver = src[h].ver /\ t.sid = src[h].sid /\ t.size <= src[h].size)
          /\ src[h] # None /\ ~Holds(h, r.sid) =>
                \A g \in Paths \ {h} : src[g] # None => SessionOf(g, src[g]) # SessionOf(h, src[h])
          /\ r.sid \in Paths => r.sid = h
          /\ r.at = "append" \/ r.prior = r.sid => ~Free(r.sid)
          /\ r.at = "append" => r.prior = r.sid
          /\ r.at = "parsed" => r.sid = SessionOf(h, t)
      BY <2>1, <2>a, <2>b, <2>c DEF IInvText, ResumeFollows
    <2>4. t.ver < writes' + 3
      BY <1>0, <2>2, <2>3
    <2>5. src'[h] # None => t.ver < src'[h].ver \/ (t.ver = src'[h].ver /\ t.sid = src'[h].sid /\ t.size <= src'[h].size)
      <3>1. CASE h # f
        BY <1>3, <2>2, <2>3, <3>1
      <3>2. CASE h = f /\ c.ver = writes + 3
        BY <1>3, <2>3, <3>2
      <3>3. CASE h = f /\ c.sid = src[f].sid /\ c.ver = src[f].ver /\ src[f].size < c.size
        <4>1. t.ver < c.ver \/ (t.ver = c.ver /\ t.sid = c.sid /\ t.size <= src[f].size)
          BY <1>3, <2>3, <3>3
        <4> QED
          BY <1>3, <1>6, <2>2, <3>3, <4>1
      <3> QED
        BY <1>2, <3>1, <3>2, <3>3
    <2>6. src'[h] # None /\ ~Holds(h, r.sid)' =>
             \A g \in Paths \ {h} : src'[g] # None => SessionOf(g, src'[g]) # SessionOf(h, src'[h])
      BY <1>10a, <2>2, <2>3
    <2>7. resume' = r /\ h = Files[Min(todo')] /\ \A s : Free(s)' = Free(s)
      BY <1>0, <1>4, <2>a, <2>b
    <2> QED
      BY <2>3, <2>4, <2>5, <2>6, <2>7, <2>c DEF ResumeFollows
  <1> QED
    BY <1>9, <1>10, <1>11, <1>12, <1>13, <1>14, <1>15, <1>16, <1>17 DEF IInvText

\* The file whose handling goes on is as it was.
LEMMA ResumeStays ==
    ASSUME IInvText, UNCHANGED <<resume, todo, src, writes>>, purged \subseteq purged', raced \subseteq raced'
    PROVE  ResumeFollows'
  <1>1. \A s : Free(s)' => Free(s)
    BY FreeBefore
  <1>2. \A f, s : Holds(f, s)' <=> Holds(f, s)
    BY DEF Holds
  <1>3. ResumeFollows
    BY DEF IInvText
  <1> QED
    BY <1>1, <1>2, <1>3 DEF ResumeFollows

LEMMA Staged ==
    ASSUME NEW o \in Operation, NEW c \in Content
    PROVE  LET n == [o EXCEPT !.stage = c] IN
           /\ n \in Operation /\ n.stage = c
           /\ n.id = o.id /\ n.sid = o.sid /\ n.mode = o.mode /\ n.items = o.items /\ n.file = o.file
           /\ n.text = o.text /\ n.backup = o.backup
  BY DEF Operation

\* Operation n, with the copy of the file, has joined the batch.
Copied(n) ==
    LET f == op.file
        s == op.sid
        c == src[op.file]
        k == Len(batch) + 1
    IN
    /\ pc = "stage" /\ promoting = <<>> /\ op \in Operation /\ resume = None
    /\ UNCHANGED <<src, db, raw, todo, idx, resume, promoting, gc, purged, writes>>
    /\ op \in Uncommitted /\ op \in Pending
    /\ f \in Paths /\ s \in Sids /\ c \in Content /\ op.stage = None /\ op.backup = None /\ op.text \in Content
    /\ n \in Operation /\ n.stage = c
    /\ n.id = op.id /\ n.sid = s /\ n.mode = op.mode /\ n.items = op.items /\ n.file = f
    /\ n.text = op.text /\ n.backup = None
    /\ pc' \in {"scan", "commit"} /\ raced \subseteq raced'
    /\ DOMAIN batch' = DOMAIN batch \cup {k} /\ batch'[k] = n
    /\ \A i \in DOMAIN batch : batch'[i] = batch[i] /\ i # k
    /\ Copy(n) = c /\ Copy(op) = op.text
    /\ Uncommitted = ToSet(batch) \cup {op} /\ Uncommitted' = ToSet(batch) \cup {n}
    /\ Pending = ToSet(batch) \cup {op} /\ Pending' = ToSet(batch) \cup {n}
    /\ s \notin purged' \cup Swapped' => c.ver = op.text.ver

LEMMA StageCopies == ASSUME IInvText, StageFile, src[op.file] # None PROVE \E n : Copied(n)
  <1> DEFINE f == op.file
             s == op.sid
             c == src[f]
             n == [op EXCEPT !.stage = c]
             k == Len(batch) + 1
  <1>0. /\ TypeOK /\ Kinds /\ pc = "stage" /\ promoting = <<>> /\ op \in Operation /\ resume = None
        /\ UNCHANGED <<src, db, raw, todo, idx, resume, promoting, gc, purged, writes>>
        /\ op \in Uncommitted /\ op \in Pending
    BY NoResume, KindsOf DEF IInvText, TypeInv, TypeOK, StageFile, budgets, Uncommitted, Pending
  <1>1. f \in Paths /\ s \in Sids /\ c \in Content /\ op.stage = None /\ op.backup = None /\ op.text \in Content
    <2>1. f \in Paths /\ s \in Sids /\ op.text \in Content
      BY <1>0, OperationFields
    <2> QED
      BY <1>0, <2>1 DEF Kinds, IInvText, RunShape
  <1>2. /\ n \in Operation /\ n.stage = c
        /\ n.id = op.id /\ n.sid = s /\ n.mode = op.mode /\ n.items = op.items /\ n.file = f
        /\ n.text = op.text /\ n.backup = None
    BY <1>0, <1>1, Staged
  <1>3. batch' = Append(batch, n) /\ pc' \in {"scan", "commit"}
    <2>1. batch' = Append(batch, [op EXCEPT !.stage = src[op.file]])
          /\ pc' = IF Len(batch') >= BatchSize THEN "commit" ELSE "scan"
      BY DEF StageFile
    <2> QED
      BY <2>1
  <1>4. \/ raced' = raced /\ c = op.text
        \/ raced' = raced \cup {[sid |-> s, whole |-> c.ver # op.text.ver]}
    BY <1>1, Constants DEF StageFile
  <1> HIDE DEF n, k
  <1>5. /\ ToSet(batch') = ToSet(batch) \cup {n} /\ DOMAIN batch' = DOMAIN batch \cup {k} /\ batch'[k] = n
        /\ \A i \in DOMAIN batch : batch'[i] = batch[i] /\ i # k
    <2>1. batch \in Seq(Operation)
      BY <1>0 DEF TypeOK
    <2> QED
      BY <1>2, <1>3, <2>1, Appended DEF k
  <1>6. Copy(n) = c /\ Copy(op) = op.text
    BY <1>1, <1>2, Constants DEF Copy
  <1>7. /\ Uncommitted = ToSet(batch) \cup {op} /\ Uncommitted' = ToSet(batch) \cup {n}
        /\ Pending = ToSet(batch) \cup {op} /\ Pending' = ToSet(batch) \cup {n}
    BY <1>0, <1>3, <1>5, NoOperations DEF Uncommitted, Pending
  <1>8. ASSUME c.ver # op.text.ver PROVE s \in purged' \cup Swapped'
    <2> DEFINE r == [sid |-> s, whole |-> c.ver # op.text.ver]
    <2>1. r \in raced'
      BY <1>4, <1>8
    <2>2. r.sid = s /\ r.whole
      BY <1>8
    <2> HIDE DEF r, s
    <2> QED
      BY <2>1, <2>2 DEF Swapped
  <1>9. raced \subseteq raced' /\ pc' \in {"scan", "commit"}
    BY <1>3, <1>4
  <1>10. Copied(n)
    BY <1>0, <1>1, <1>2, <1>5, <1>6, <1>7, <1>8, <1>9 DEF Copied, k
  <1> QED
    BY <1>10

\* A copied file: the operation joins the batch with what the file holds now.
LEMMA StageKeeps == ASSUME IInvText, StageFile, src[op.file] # None, TypeInv' PROVE IInvText'
  <1> DEFINE f == op.file
             s == op.sid
             c == src[f]
             k == Len(batch) + 1
  <1>a. PICK n : Copied(n)
    BY StageCopies
  <1>0. /\ TypeOK /\ Kinds /\ pc = "stage" /\ promoting = <<>> /\ op \in Operation /\ resume = None
        /\ UNCHANGED <<src, db, raw, todo, idx, resume, promoting, gc, purged, writes>>
        /\ op \in Uncommitted /\ op \in Pending
    BY <1>a, KindsOf DEF IInvText, TypeInv, Copied
  <1>1. f \in Paths /\ s \in Sids /\ c \in Content /\ op.stage = None /\ op.backup = None /\ op.text \in Content
    BY <1>a DEF Copied
  <1>2. /\ n \in Operation /\ n.stage = c
        /\ n.id = op.id /\ n.sid = s /\ n.mode = op.mode /\ n.items = op.items /\ n.file = f
        /\ n.text = op.text /\ n.backup = None
    BY <1>a DEF Copied
  <1>3. pc' \in {"scan", "commit"} /\ raced \subseteq raced'
    BY <1>a DEF Copied
  <1>5. /\ DOMAIN batch' = DOMAIN batch \cup {k} /\ batch'[k] = n
        /\ \A i \in DOMAIN batch : batch'[i] = batch[i] /\ i # k
    BY <1>a DEF Copied
  <1>6. Copy(n) = c /\ Copy(op) = op.text
    BY <1>a DEF Copied
  <1>7. /\ Uncommitted = ToSet(batch) \cup {op} /\ Uncommitted' = ToSet(batch) \cup {n}
        /\ Pending = ToSet(batch) \cup {op} /\ Pending' = ToSet(batch) \cup {n}
    BY <1>a DEF Copied
  <1>8. /\ \A x : Free(x)' => Free(x)
        /\ s \notin purged' \cup Swapped' => c.ver = op.text.ver
    <2>1. \A x : Free(x)' => Free(x)
      BY <1>0, <1>3, FreeBefore
    <2> QED
      BY <1>a, <2>1 DEF Copied
  <1> HIDE DEF k
  <1>9. /\ \A x : DbItems(x)' = DbItems(x) /\ Stored(x)' = Stored(x)
        /\ \A h, x : Holds(h, x)' = Holds(h, x)
        /\ \A h \in Paths, x \in Sids : Owns(h, x)' = Owns(h, x)
    <2>1. \A x : DbItems(x)' = DbItems(x) /\ Stored(x)' = Stored(x)
      BY <1>0 DEF DbItems, Stored
    <2>2. \A h, x : Holds(h, x)' = Holds(h, x)
      BY <1>0 DEF Holds
    <2>3. ASSUME NEW h \in Paths, NEW x \in Sids PROVE Owns(h, x)' <=> Owns(h, x)
      <3>1. (\E o \in Pending' : o.file = h /\ o.sid = x) <=> (\E o \in Pending : o.file = h /\ o.sid = x)
        BY <1>2, <1>7
      <3> QED
        BY <1>0, <3>1 DEF Owns, Stored
    <2>4. ASSUME NEW h \in Paths, NEW x \in Sids PROVE Owns(h, x)' = Owns(h, x)
      BY <2>3 DEF Owns
    <2> QED
      BY <2>1, <2>2, <2>4
  <1>10. ASSUME s \notin purged' \cup Swapped'
         PROVE  /\ Free(s) /\ c.sid = op.text.sid /\ AtMost(op.text, c) /\ op.text.sid = Name(s) /\ Holds(f, s)
                /\ raw[s] # None => AtMost(raw[s], op.text)
    <2>0. \A x : x \notin purged' \cup Swapped' => Free(x)
      BY <1>8 DEF Free
    <2>1. Free(s) /\ c.ver = op.text.ver
      BY <1>8, <1>10, <2>0
    <2>2. c.sid = op.text.sid /\ op.text.size <= c.size
      BY <1>0, <1>1, <2>1, Constants DEF IInvText, RunShape
    <2>3. op.text.sid = Name(s) /\ (raw[s] # None => AtMost(raw[s], op.text))
      BY <1>0, <1>6, <2>1 DEF IInvText, CopiesFollow
    <2>4. s \in Paths => s = f
      BY <1>0, <1>1 DEF IInvText, NamesAgree, Owns
    <2>5. c.sid \notin Paths
      BY <1>0, <1>1, Constants DEF IInvText, NamesAgree
    <2>6. SessionOf(f, c) = s
      BY <1>1, <2>2, <2>3, <2>4, <2>5, SessionNamed
    <2>7. Holds(f, s)
      BY <1>1, <2>6, Constants DEF Holds
    <2> QED
      BY <2>1, <2>2, <2>3, <2>7 DEF AtMost
  <1> HIDE DEF c, s, f
  <1>11. VersionsCount'
    <2>1. VersionsCount /\ c.ver < writes + 3
      BY <1>1, Constants DEF IInvText, VersionsCount, c
    <2>2. \A o \in Pending' : o.text.ver < writes' + 3 /\ Copy(o).ver < writes' + 3
      BY <1>0, <1>2, <1>6, <1>7, <2>1 DEF VersionsCount
    <2>3. /\ \A g \in Paths : src'[g] # None => src'[g].ver < writes' + 3
          /\ \A x \in Sids : Free(x)' /\ raw'[x] # None => raw'[x].ver < writes' + 3
          /\ \A x \in Sids : Free(x)' => \A i \in DbItems(x)' : i.ver < writes' + 3
      BY <1>0, <1>8, <1>9, <2>1 DEF VersionsCount
    <2> QED
      BY <2>2, <2>3 DEF VersionsCount
  <1>12. NamesAgree'
    BY <1>0, <1>8, <1>9 DEF IInvText, NamesAgree
  <1>13. MovedAlone'
    BY <1>0, <1>9 DEF IInvText, MovedAlone
  <1>14. FileIsAhead'
    <2>1. ASSUME NEW h \in Paths, NEW x \in Sids, Free(x)', Holds(h, x)', NEW t \in Sids, Owns(h, t)'
          PROVE  /\ \A i \in DbItems(x)' : i.ver <= src'[h].ver
                 /\ raw'[x] # None => AtMost(raw'[x], src'[h])
                 /\ \A o \in Pending' : o.sid = x => AtMost(Copy(o), src'[h])
      <3>1. Free(x) /\ Holds(h, x) /\ Owns(h, t)
        BY <1>8, <1>9, <2>1
      <3>2. /\ \A i \in DbItems(x) : i.ver <= src[h].ver
            /\ raw[x] # None => AtMost(raw[x], src[h])
            /\ \A o \in Pending : o.sid = x => AtMost(Copy(o), src[h])
        BY <3>1 DEF IInvText, FileIsAhead
      <3>3. ASSUME x = s PROVE AtMost(c, src[h])
        <4>0. x \notin purged' \cup Swapped'
          BY <2>1 DEF Free
        <4>1. s \notin purged' \cup Swapped' /\ Free(s) /\ c.ver = op.text.ver
          BY <1>8, <3>1, <3>3, <4>0
        <4>2. CASE h = f
          BY <1>1, <4>2, AtMostOrder DEF c
        <4>3. CASE h # f
          <5>1. AtMost(op.text, src[h])
            BY <1>0, <1>6, <3>2, <3>3 DEF s
          <5>2. CASE op.text.ver < src[h].ver
            BY <4>1, <5>2 DEF AtMost
          <5>3. CASE op.text.ver = src[h].ver
            <6>1. Copy(op).ver = src[h].ver /\ op \in Uncommitted /\ Holds(h, op.sid) /\ Free(op.sid) /\ h \in Paths \ {op.file}
              BY <1>0, <1>6, <3>1, <3>3, <4>1, <4>3, <5>3 DEF s, f
            <6>2. (\A y \in Sids : Owns(h, y) => y = op.sid) /\ idx[op.sid] \in {None, op.file}
              BY <1>1, <6>1 DEF IInvText, OthersAreNewer
            <6>3. Owns(h, s) /\ idx[s] \in {None, f}
              BY <3>1, <6>2 DEF s, f
            <6>4. CASE Stored(s) /\ db[s].orig = h
              <7>1. idx[s] # None /\ db[s].orig = idx[s]
                BY <1>0, <1>1, <4>1, <6>4, NoOperations DEF IInvText, IndexKnows
              <7> QED
                BY <4>3, <6>3, <6>4, <7>1
            <6>5. CASE idx[s] = h
              BY <4>3, <6>3, <6>5, Constants
            <6>6. CASE \E o \in Pending : o.file = h /\ o.sid = s
              <7>1. PICK o \in Pending : o.file = h /\ o.sid = s
                BY <6>6
              <7>2. o \in ToSet(batch)
                BY <1>7, <4>3, <7>1 DEF f
              <7>3. PICK i \in DOMAIN batch : o = batch[i]
                BY <7>2 DEF ToSet
              <7>4. ~Free(op.sid)
                BY <1>0, <7>1, <7>3 DEF IInvText, OneEach, s
              <7> QED
                BY <4>1, <7>4 DEF s
            <6> QED
              BY <1>0, <6>3, <6>4, <6>5, <6>6 DEF Owns
          <5> QED
            BY <5>1, <5>2, <5>3 DEF AtMost
        <4> QED
          BY <4>2, <4>3
      <3>4. \A o \in Pending' : o.sid = x => AtMost(Copy(o), src[h])
        BY <1>2, <1>6, <1>7, <3>2, <3>3
      <3> QED
        BY <1>0, <1>9, <3>2, <3>4
    <2> QED
      BY <2>1, Zenon DEF FileIsAhead
  <1>15. OthersAreNewer'
    <2>1. ASSUME NEW o \in Uncommitted', Free(o.sid)', NEW g \in Paths \ {o.file}, Holds(g, o.sid)'
          PROVE  /\ Copy(o).ver = src'[g].ver => \A t \in Sids : Owns(g, t)' => t = o.sid
                 /\ idx'[o.sid] \in {None, o.file}
      <3>1. PICK q \in Uncommitted : q.sid = o.sid /\ q.file = o.file /\ Copy(q).ver = Copy(o).ver
        <4>1. CASE o \in ToSet(batch)
          BY <1>7, <4>1
        <4>2. CASE o = n
          <5>1. s \notin purged' \cup Swapped'
            BY <1>2, <2>1, <4>2 DEF Free
          <5>2. Copy(o) = c /\ Copy(op) = op.text /\ c.ver = op.text.ver
            BY <1>6, <1>8, <4>2, <5>1
          <5> QED
            BY <1>0, <1>2, <4>2, <5>2 DEF s, f
        <4> QED
          BY <1>7, <2>1, <4>1, <4>2
      <3>2. Free(q.sid) /\ Holds(g, q.sid) /\ g \in Paths \ {q.file}
        BY <1>8, <1>9, <2>1, <3>1
      <3>3. /\ Copy(q).ver = src[g].ver => \A t \in Sids : Owns(g, t) => t = q.sid
            /\ idx[q.sid] \in {None, q.file}
        BY <3>2 DEF IInvText, OthersAreNewer
      <3> QED
        BY <1>0, <1>9, <3>1, <3>3
    <2> QED
      BY <2>1, Zenon DEF OthersAreNewer
  <1>16. IndexKnows'
    BY <1>0, <1>3, <1>8, <1>9, NoOperations DEF IInvText, IndexKnows
  <1>17. OneEach'
    <2>0. /\ \A i, j \in DOMAIN batch : i # j /\ batch[i].sid = batch[j].sid => ~Free(batch[i].sid) /\ idx[batch[i].sid] # None
          /\ \A i \in DOMAIN batch : batch[i].sid = s => ~Free(s) /\ idx[s] # None
          /\ \A o \in Uncommitted : o.id # o.sid => idx[o.id] # None /\ idx[o.sid] = None
      BY <1>0 DEF IInvText, OneEach, s
    <2>1. \A x : x \in purged \cup Swapped => x \in purged' \cup Swapped'
      BY <1>8 DEF Free
    <2>2. ASSUME NEW i \in DOMAIN batch', NEW j \in DOMAIN batch', i # j, batch'[i].sid = batch'[j].sid
          PROVE  batch'[i].sid \in purged' \cup Swapped' /\ idx'[batch'[i].sid] # None
      <3>1. CASE i \in DOMAIN batch /\ j \in DOMAIN batch
        <4>1. batch[i].sid \in purged \cup Swapped /\ idx[batch[i].sid] # None
          BY <1>5, <2>0, <2>2, <3>1 DEF Free
        <4> QED
          BY <1>0, <1>5, <2>1, <3>1, <4>1
      <3>2. CASE i = k \/ j = k
        <4>1. batch'[i].sid = s /\ \E q \in DOMAIN batch : batch[q].sid = s
          BY <1>2, <1>5, <2>2, <3>2
        <4>2. s \in purged \cup Swapped /\ idx[s] # None
          BY <2>0, <4>1 DEF Free
        <4> QED
          BY <1>0, <2>1, <4>1, <4>2
      <3> QED
        BY <1>5, <2>2, <3>1, <3>2
    <2>3. \A o \in Uncommitted' : o.id # o.sid => idx'[o.id] # None /\ idx'[o.sid] = None
      BY <1>0, <1>2, <1>7, <2>0 DEF s
    <2>4. ToSet(promoting') = {} /\ DOMAIN promoting' = {} /\ pc' # "stage"
      BY <1>0, <1>3, NoOperations
    <2> QED
      BY <2>2, <2>3, <2>4 DEF OneEach, Free
  <1>18. WritesOneText'
    <2>1. ASSUME NEW o \in Uncommitted', Free(o.sid)'
          PROVE  /\ o.mode = "replace" => TextOf(o.items, o.text.ver)
                 /\ o.mode = "append" => Stored(o.sid)' /\ TextOf(DbItems(o.sid)' \cup o.items, o.text.ver)
      <3>1. PICK q \in Uncommitted : q.sid = o.sid /\ q.mode = o.mode /\ q.items = o.items /\ q.text = o.text
        BY <1>2, <1>7, <2>1 DEF s
      <3>2. Free(q.sid)
        BY <1>8, <2>1, <3>1
      <3>3. /\ q.mode = "replace" => TextOf(q.items, q.text.ver)
            /\ q.mode = "append" => Stored(q.sid) /\ TextOf(DbItems(q.sid) \cup q.items, q.text.ver)
        BY <3>2 DEF IInvText, WritesOneText
      <3> QED
        BY <1>9, <3>1, <3>3
    <2> QED
      BY <2>1 DEF WritesOneText
  <1>19. CopiesFollow'
    <2>1. ASSUME NEW o \in Pending', Free(o.sid)'
          PROVE  /\ o.text.sid = Name(o.sid) /\ Copy(o).sid = Name(o.sid)
                 /\ Copy(o).ver = o.text.ver /\ AtMost(o.text, Copy(o))
                 /\ raw'[o.sid] # None => AtMost(raw'[o.sid], Copy(o))
                 /\ o.backup # None /\ o.id = o.sid =>
                                       /\ o.backup.sid = Name(o.sid) /\ AtMost(o.backup, Copy(o))
                                       /\ \A i \in DbItems(o.sid)' : o.backup.ver <= i.ver
      <3>1. CASE o \in ToSet(batch)
        <4>1. Free(o.sid) /\ o \in Pending
          BY <1>7, <1>8, <2>1, <3>1
        <4> QED
          BY <1>0, <1>9, <4>1 DEF IInvText, CopiesFollow
      <3>2. CASE o = n
        <4>0. o.sid \notin purged' \cup Swapped'
          BY <2>1 DEF Free
        <4>1. s \notin purged' \cup Swapped' /\ o.sid = s /\ o.text = op.text /\ Copy(o) = c /\ o.backup = None
          BY <1>2, <1>6, <3>2, <4>0
        <4>2. /\ c.sid = op.text.sid /\ AtMost(op.text, c) /\ op.text.sid = Name(s) /\ c.ver = op.text.ver
              /\ raw[s] # None => AtMost(raw[s], op.text)
          BY <1>8, <1>10, <4>1
        <4>3. raw[s] # None => AtMost(raw[s], c)
          BY <1>0, <1>1, <4>2, AtMostOrder DEF Kinds
        <4> QED
          BY <1>0, <4>1, <4>2, <4>3
      <3> QED
        BY <1>7, <2>1, <3>1, <3>2
    <2> QED
      BY <2>1, Zenon DEF CopiesFollow
  <1>20. RawIsBehind' /\ OneText'
    <2>1. RawIsBehind'
      BY <1>0, <1>8, <1>9, NoOperations DEF IInvText, RawIsBehind
    <2>2. \A x : x \notin (purged \cup Swapped)' => x \notin purged \cup Swapped
      BY <1>8 DEF Free
    <2>3. OneText'
      BY <1>0, <1>9, <2>2 DEF IInvText, OneText
    <2> QED
      BY <2>1, <2>3
  <1>21. RunShape'
    <2>0. RunShape
      BY DEF IInvText
    <2>1. pc' # "stage" /\ DOMAIN promoting' = {}
      BY <1>0, <1>3
    <2>2. \A i \in DOMAIN batch' : batch'[i].backup = None
      BY <1>2, <1>5, <2>0 DEF RunShape
    <2>3. \A o \in Pending', i \in todo' : o.file # Files[i]
      BY <1>0, <1>2, <1>7, <2>0 DEF RunShape, f
    <2>4. \A i, j \in DOMAIN batch' : i # j => batch'[i].file # batch'[j].file
      <3>1. \A i \in DOMAIN batch : batch[i].file # f
        BY <1>0, <2>0 DEF RunShape, f
      <3>2. \A i, j \in DOMAIN batch : i # j => batch[i].file # batch[j].file
        BY <2>0 DEF RunShape
      <3> QED
        BY <1>2, <1>5, <3>1, <3>2
    <2>5. \A g \in gc' : g.at = "raw" => g.sid \in purged'
      BY <1>0, <2>0 DEF RunShape
    <2> QED
      BY <2>1, <2>2, <2>3, <2>4, <2>5 DEF RunShape
  <1> QED
    BY <1>0, <1>3, <1>11, <1>12, <1>13, <1>14, <1>15, <1>16, <1>17, <1>18, <1>19, <1>20, <1>21, ResumeStays DEF IInvText

\* What a transaction leaves of a session that counts.
Landed ==
    /\ \A s \in Sids : (\A o \in Pending : o.sid # s) => db'[s] = db[s]
    /\ \A s \in Sids : db[s] # None => db'[s] # None
    /\ \A o \in Pending : /\ db'[o.sid] # None
                          /\ \E q \in Pending : q.sid = o.sid /\ db'[o.sid].orig = q.file
    /\ \A o \in Pending : idx[o.sid] = None /\ db[o.sid] = None /\ o.id # o.sid => db[o.id] = None
    /\ \A o \in Pending : Free(o.sid) => db'[o.sid].orig = o.file /\ TextOf(DbItems(o.sid)', o.text.ver)

Committed ==
    /\ pc = "commit" /\ pc' = "promote" /\ promoting = <<>> /\ promoting' = batch /\ batch' = <<>>
    /\ UNCHANGED <<src, raw, todo, idx, resume, gc, purged, raced, writes>>
    /\ Uncommitted' = {} /\ Uncommitted = ToSet(batch) /\ Pending' = ToSet(batch) /\ Pending = ToSet(batch)

LEMMA WriteLands ==
    ASSUME IInvText, WriteChatImportBatch, FoldLeft(writeOp, db, batch) # None, promoting' = batch,
           db' = FoldLeft(writeOp, db, batch), pc' = "promote"
    PROVE  Committed /\ Landed
  <1> DEFINE n == Len(batch)
             w == FoldLeft(writeOp, db, batch)
  <1>0. /\ TypeOK /\ batch \in Seq(Operation) /\ db \in Store /\ promoting \in Seq(Operation)
        /\ pc = "commit" /\ promoting = <<>> /\ batch' = <<>>
        /\ UNCHANGED <<src, raw, todo, idx, resume, gc, purged, raced, writes>>
    BY DEF IInvText, TypeInv, TypeOK, WriteChatImportBatch, Store, history
  <1>1. Committed
    BY <1>0, NoOperations DEF Committed, Pending, Uncommitted
  <1>2. Written(db, batch, n, w, n)
    BY <1>0, BatchResult
  <1>3. n \in Nat /\ DOMAIN batch = 1..n /\ \A i \in 1..n : batch[i] \in Operation
    BY <1>0
  <1> HIDE DEF n, w
  <1>4. db' = w
    BY DEF w
  <1>5. Written(db, batch, n, db', n)
    BY <1>2, <1>4
  <1>6. /\ \A j \in 1..n : batch[j] \in Pending
        /\ \A o \in Pending : \E j \in 1..n : o = batch[j]
    BY <1>1, <1>3 DEF Committed, ToSet
  <1>7. \A o \in Pending : o \in Operation /\ o.sid \in Sids /\ o.id \in Sids
    BY <1>0, KindsOf DEF Kinds
  <1>8. \A s \in Sids : (\A o \in Pending : o.sid # s) => db'[s] = db[s]
    BY <1>5, <1>6 DEF Written
  <1>9. \A s \in Sids : db[s] # None => db'[s] # None
    BY <1>5 DEF Written
  <1>10. ASSUME NEW o \in Pending
         PROVE  /\ db'[o.sid] # None
                /\ \E q \in Pending : q.sid = o.sid /\ db'[o.sid].orig = q.file
    <2>1. PICK j \in 1..n : o = batch[j]
      BY <1>6
    <2>2. db'[o.sid] # None /\ \E i \in 1..n : batch[i].sid = o.sid /\ db'[o.sid].orig = batch[i].file
      BY <1>5, <2>1 DEF Written
    <2> QED
      BY <1>6, <2>2
  <1>11. \A i, j \in 1..n : i # j /\ batch[i].sid = batch[j].sid => ~Free(batch[i].sid) /\ idx[batch[i].sid] # None
    BY <1>3 DEF IInvText, OneEach
  <1>12. ASSUME NEW o \in Pending, idx[o.sid] = None \/ Free(o.sid)
         PROVE  /\ db'[o.sid].orig = o.file
                /\ db'[o.sid].items = Base(db[o.sid], o) \cup o.items
                /\ o.id # o.sid /\ db[o.sid] = None => db[o.id] = None
    <2>1. PICK j \in 1..n : o = batch[j]
      BY <1>6
    <2>2. \A i \in 1..n : i # j => batch[i].sid # batch[j].sid
      BY <1>11, <1>12, <2>1
    <2>3. /\ db'[batch[j].sid].orig = batch[j].file
          /\ db'[batch[j].sid].items = Base(db[batch[j].sid], batch[j]) \cup batch[j].items
          /\ batch[j].id # batch[j].sid /\ db[batch[j].sid] = None => db[batch[j].id] = None
      BY <1>5, <2>2 DEF Written
    <2> QED
      BY <2>1, <2>3
  <1>13. ASSUME NEW o \in Pending, Free(o.sid) PROVE TextOf(DbItems(o.sid)', o.text.ver)
    <2>1. /\ o.mode = "replace" => TextOf(o.items, o.text.ver)
          /\ o.mode = "append" => Stored(o.sid) /\ TextOf(DbItems(o.sid) \cup o.items, o.text.ver)
      BY <1>1, <1>13 DEF IInvText, WritesOneText, Committed
    <2>2. o.mode \in {"replace", "append"}
      BY <1>7, OperationFields
    <2>3. DbItems(o.sid)' = Base(db[o.sid], o) \cup o.items
      BY <1>10, <1>12, <1>13 DEF DbItems, Stored
    <2>4. o.mode = "replace" => Base(db[o.sid], o) \cup o.items = o.items
      BY DEF Base
    <2>5. o.mode = "append" /\ Stored(o.sid) => Base(db[o.sid], o) = DbItems(o.sid)
      BY DEF Base, DbItems, Stored
    <2> QED
      BY <2>1, <2>2, <2>3, <2>4, <2>5
  <1>14. \A o \in Pending : idx[o.sid] = None /\ db[o.sid] = None /\ o.id # o.sid => db[o.id] = None
    BY <1>12
  <1>15. \A o \in Pending : Free(o.sid) => db'[o.sid].orig = o.file /\ TextOf(DbItems(o.sid)', o.text.ver)
    BY <1>12, <1>13
  <1> QED
    BY <1>1, <1>8, <1>9, <1>10, <1>14, <1>15 DEF Landed

\* A batch is committed: its operations wait for their copies to be promoted.
LEMMA CommitKeeps == ASSUME IInvText, Committed, Landed, TypeInv' PROVE IInvText'
  <1>0. /\ TypeOK /\ Kinds /\ pc' = "promote" /\ pc = "commit" /\ promoting = <<>> /\ promoting' = batch /\ batch' = <<>>
        /\ UNCHANGED <<src, raw, todo, idx, resume, gc, purged, raced, writes>>
        /\ Uncommitted' = {} /\ Uncommitted = Pending /\ Pending' = Pending /\ Pending = ToSet(batch)
    BY KindsOf DEF IInvText, TypeInv, Committed
  <1>1. /\ \A x : Free(x)' = Free(x)
        /\ \A h, x : Holds(h, x)' = Holds(h, x)
    BY <1>0 DEF Free, Swapped, Holds
  <1>2. /\ \A x \in Sids : (\A o \in Pending : o.sid # x) => DbItems(x)' = DbItems(x) /\ Stored(x)' = Stored(x)
        /\ \A x \in Sids : Stored(x) => Stored(x)'
        /\ \A o \in Pending : Stored(o.sid)'
    <2>1. /\ \A x \in Sids : (\A o \in Pending : o.sid # x) => db'[x] = db[x]
          /\ \A x \in Sids : db[x] # None => db'[x] # None
          /\ \A o \in Pending : db'[o.sid] # None
      BY DEF Landed
    <2> QED
      BY <2>1 DEF DbItems, Stored
  <1>3. \A h \in Paths, x \in Sids : Owns(h, x)' => Owns(h, x)
    <2>1. ASSUME NEW h \in Paths, NEW x \in Sids, Owns(h, x)' PROVE Owns(h, x)
      <3>1. \/ db'[x] # None /\ db'[x].orig = h
            \/ idx[x] = h
            \/ \E o \in Pending : o.file = h /\ o.sid = x
            \/ resume # None /\ Files[Min(todo)] = h /\ resume.prior = x
        BY <1>0, <2>1 DEF Owns, Stored
      <3>2. CASE db'[x] # None /\ db'[x].orig = h
        <4>1. CASE \A o \in Pending : o.sid # x
          BY <3>2, <4>1 DEF Landed, Owns, Stored
        <4>2. CASE \E o \in Pending : o.sid = x
          <5>1. PICK q \in Pending : q.sid = x /\ db'[x].orig = q.file
            BY <4>2 DEF Landed
          <5> QED
            BY <3>2, <5>1 DEF Owns
        <4> QED
          BY <4>1, <4>2
      <3> QED
        BY <3>1, <3>2 DEF Owns
    <2> QED
      BY <2>1
  \* The items of a session are as they were, or those of its operation.
  <1>4. ASSUME NEW x \in Sids, Free(x)
        PROVE  \/ DbItems(x)' = DbItems(x) /\ Stored(x)' = Stored(x)
               \/ \E o \in Pending : o.sid = x /\ TextOf(DbItems(x)', o.text.ver) /\ o.text.ver = Copy(o).ver
                                     /\ \A i \in DbItems(x)' : i.ver = o.text.ver
    <2>1. CASE \A o \in Pending : o.sid # x
      BY <1>2, <2>1
    <2>2. CASE \E o \in Pending : o.sid = x
      <3>1. PICK o \in Pending : o.sid = x
        BY <2>2
      <3>2. TextOf(DbItems(x)', o.text.ver)
        BY <1>4, <3>1 DEF Landed
      <3>3. o.text.ver = Copy(o).ver
        BY <1>4, <3>1 DEF IInvText, CopiesFollow
      <3> QED
        BY <3>1, <3>2, <3>3, TextVersion
    <2> QED
      BY <2>1, <2>2
  <1>5. VersionsCount'
    <2>0. VersionsCount
      BY DEF IInvText
    <2>1. ASSUME NEW x \in Sids, Free(x)', NEW i \in DbItems(x)' PROVE i.ver < writes' + 3
      BY <1>0, <1>1, <1>4, <2>0, <2>1 DEF VersionsCount
    <2>2. /\ \A g \in Paths : src'[g] # None => src'[g].ver < writes' + 3
          /\ \A x \in Sids : Free(x)' /\ raw'[x] # None => raw'[x].ver < writes' + 3
          /\ \A o \in Pending' : o.text.ver < writes' + 3 /\ Copy(o).ver < writes' + 3
      BY <1>0, <1>1, <2>0 DEF VersionsCount
    <2> QED
      BY <2>1, <2>2 DEF VersionsCount
  <1>6. NamesAgree' /\ MovedAlone'
    <2>1. NamesAgree'
      BY <1>0, <1>1, <1>3 DEF IInvText, NamesAgree
    <2>2. MovedAlone'
      BY <1>0, <1>1, <1>3 DEF IInvText, MovedAlone
    <2> QED
      BY <2>1, <2>2
  <1>7. FileIsAhead'
    <2>1. ASSUME NEW h \in Paths, NEW x \in Sids, Free(x)', Holds(h, x)', NEW t \in Sids, Owns(h, t)'
          PROVE  /\ \A i \in DbItems(x)' : i.ver <= src'[h].ver
                 /\ raw'[x] # None => AtMost(raw'[x], src'[h])
                 /\ \A o \in Pending' : o.sid = x => AtMost(Copy(o), src'[h])
      <3>1. Free(x) /\ Holds(h, x) /\ Owns(h, t)
        BY <1>1, <1>3, <2>1
      <3>2. /\ \A i \in DbItems(x) : i.ver <= src[h].ver
            /\ raw[x] # None => AtMost(raw[x], src[h])
            /\ \A o \in Pending : o.sid = x => AtMost(Copy(o), src[h])
        BY <3>1 DEF IInvText, FileIsAhead
      <3>3. \A o \in Pending : o.sid = x => Copy(o).ver <= src[h].ver
        <4>1. src[h] # None
          BY <3>1 DEF Holds
        <4> QED
          BY <1>0, <3>2, <4>1, AtMostOrder DEF Kinds
      <3>4. \A i \in DbItems(x)' : i.ver <= src[h].ver
        BY <1>4, <3>1, <3>2, <3>3
      <3> QED
        BY <1>0, <3>2, <3>4
    <2> QED
      BY <2>1, Zenon DEF FileIsAhead
  <1>8. IndexKnows'
    <2>0. /\ \A s \in Sids : idx[s] # None /\ s \notin purged => Stored(s)
          /\ \A s \in Sids : Stored(s) => idx[s] # None
          /\ \A s \in Sids : Free(s) /\ Stored(s) => db[s].orig = idx[s]
      BY <1>0, NoOperations DEF IInvText, IndexKnows
    <2>1. \A s \in Sids : idx'[s] # None /\ s \notin purged' => Stored(s)'
      BY <1>0, <1>2, <2>0
    <2>2. \A s \in Sids : Stored(s)' => idx'[s] # None \/ \E o \in ToSet(promoting') : o.sid = s
      BY <1>0, <1>2, <2>0
    <2>3. ASSUME NEW s \in Sids, Free(s)', Stored(s)', \A o \in ToSet(promoting') : o.sid # s
          PROVE  db'[s].orig = idx'[s]
      BY <1>0, <1>1, <1>2, <2>0, <2>3 DEF Landed
    <2>4. \A o \in ToSet(promoting') : Free(o.sid)' => Stored(o.sid)' /\ db'[o.sid].orig = o.file
      BY <1>0, <1>1, <1>2 DEF Landed
    <2> QED
      BY <2>1, <2>2, <2>3, <2>4 DEF IndexKnows
  <1>9. OneEach'
    <2>0. \A i, j \in DOMAIN batch : i # j /\ batch[i].sid = batch[j].sid => ~Free(batch[i].sid)
      BY DEF IInvText, OneEach
    <2>1. ASSUME NEW o \in Pending, o.id # o.sid PROVE o.id \in purged
      <3>1. idx[o.id] # None /\ idx[o.sid] = None
        BY <1>0, <2>1 DEF IInvText, OneEach
      <3>2. db[o.sid] = None
        BY <1>0, <3>1, NoOperations DEF IInvText, IndexKnows, Stored, Kinds
      <3>3. db[o.id] = None
        BY <2>1, <3>1, <3>2 DEF Landed
      <3> QED
        BY <1>0, <3>1, <3>3 DEF IInvText, IndexKnows, Stored, Kinds
    <2>2. \A o \in ToSet(promoting') : o.id # o.sid => o.id \in purged'
      BY <1>0, <2>1
    <2>3. \A o \in ToSet(promoting') : Stored(o.sid)' \/ o.sid \in purged'
      BY <1>0, <1>2
    <2>4. \A i, j \in DOMAIN promoting' : i # j /\ promoting'[i].sid = promoting'[j].sid => promoting'[i].sid \in purged' \cup Swapped'
      BY <1>0, <2>0 DEF Free, Swapped
    <2>5. DOMAIN batch' = {} /\ pc' # "stage"
      BY <1>0
    <2> QED
      BY <1>0, <2>2, <2>3, <2>4, <2>5 DEF OneEach, Free
  <1>10. OthersAreNewer' /\ WritesOneText'
    BY <1>0 DEF OthersAreNewer, WritesOneText
  <1>11. CopiesFollow'
    <2>1. \A o \in Pending : o.backup = None
      BY <1>0 DEF IInvText, RunShape, ToSet
    <2>2. ASSUME NEW o \in Pending', Free(o.sid)'
          PROVE  /\ o.text.sid = Name(o.sid) /\ Copy(o).sid = Name(o.sid)
                 /\ Copy(o).ver = o.text.ver /\ AtMost(o.text, Copy(o))
                 /\ raw'[o.sid] # None => AtMost(raw'[o.sid], Copy(o))
                 /\ o.backup = None
      BY <1>0, <1>1, <2>1, <2>2 DEF IInvText, CopiesFollow
    <2> QED
      BY <2>2 DEF CopiesFollow
  <1>12. RawIsBehind'
    <2>1. ASSUME NEW s \in Sids, Free(s)', raw'[s] # None
          PROVE  Stored(s)' /\ \A i \in DbItems(s)' : raw'[s].ver <= i.ver
      <3>1. Free(s) /\ raw[s] # None /\ Stored(s) /\ \A i \in DbItems(s) : raw[s].ver <= i.ver
        BY <1>0, <1>1, <2>1 DEF IInvText, RawIsBehind
      <3>2. \A o \in Pending : o.sid = s => raw[s].ver <= Copy(o).ver
        <4>1. \A o \in Pending : o.sid = s => AtMost(raw[s], Copy(o))
          BY <3>1 DEF IInvText, CopiesFollow
        <4> QED
          BY <1>0, <3>1, <4>1, AtMostOrder DEF Kinds
      <3> QED
        BY <1>0, <1>2, <1>4, <3>1, <3>2
    <2>2. ASSUME NEW o \in ToSet(promoting'), Free(o.sid)' PROVE \A i \in DbItems(o.sid)' : i.ver = o.text.ver
      <3>1. o \in Pending /\ Free(o.sid)
        BY <1>0, <1>1, <2>2
      <3>2. TextOf(DbItems(o.sid)', o.text.ver)
        BY <3>1 DEF Landed
      <3> QED
        BY <3>2, TextVersion
    <2> QED
      BY <2>1, <2>2 DEF RawIsBehind
  <1>13. RunShape'
    <2>0. RunShape
      BY DEF IInvText
    <2>1. \A i, j \in DOMAIN promoting' : i # j => promoting'[i].file # promoting'[j].file
      BY <1>0, <2>0 DEF RunShape
    <2>2. /\ DOMAIN batch' = {} /\ pc' # "stage"
          /\ \A g \in gc' : g.at = "raw" => g.sid \in purged'
          /\ \A o \in Pending', i \in todo' : o.file # Files[i]
      BY <1>0, <2>0 DEF RunShape
    <2> QED
      BY <2>1, <2>2 DEF RunShape
  <1>14. OneText'
    <2>1. ASSUME NEW s \in Sids, Free(s), Stored(s)'
          PROVE \E m \in 0..MaxSize, v \in 1..(MaxWrites + 2) :
                   DbItems(s)' = {[ord |-> o, ver |-> v] : o \in {k \in 0..MaxSize : k < m}}
      <3>1. CASE DbItems(s)' = DbItems(s) /\ Stored(s)' = Stored(s)
        BY <2>1, <3>1 DEF IInvText, OneText, Free, DbItems
      <3>2. CASE \E o \in Pending : o.sid = s /\ TextOf(DbItems(s)', o.text.ver)
        <4>1. PICK o \in Pending : o.sid = s /\ TextOf(DbItems(s)', o.text.ver)
          BY <3>2
        <4>2. o.text.ver \in 1..(MaxWrites + 2)
          BY <1>0, ContentFields DEF Kinds
        <4> QED
          BY <4>1, <4>2 DEF TextOf
      <3> QED
        BY <1>4, <2>1, <3>1, <3>2
    <2>2. ASSUME NEW s \in Sids \ (purged' \cup Swapped'), Stored(s)'
          PROVE \E m \in 0..MaxSize, v \in 1..(MaxWrites + 2) :
                   db'[s].items = {[ord |-> o, ver |-> v] : o \in {k \in 0..MaxSize : k < m}}
      <3>1. Free(s)
        BY <1>0, <2>2 DEF Free, Swapped
      <3>2. DbItems(s)' = db'[s].items
        BY <2>2 DEF DbItems, Stored
      <3> QED
        BY <2>1, <2>2, <3>1, <3>2
    <2> QED
      BY <2>2 DEF OneText
  <1> QED
    BY <1>0, <1>5, <1>6, <1>7, <1>8, <1>9, <1>10, <1>11, <1>12, <1>13, <1>14, ResumeStays DEF IInvText

\* The scan queues operation o for file i, on route p.
Queues(i, o, f, p) ==
    /\ i \in todo /\ f = Files[i] /\ f \in Paths /\ src[f] # None
    /\ QueuedType(o, f) /\ p \in Sids \cup {None} /\ (p # None => idx[p] = f) /\ Route(o, f, p)
    /\ pc = "scan" /\ pc' = "stage" /\ op' = o /\ todo' = todo \ {i} /\ batch' = batch
    /\ resume = None /\ resume' = None
    /\ UNCHANGED <<src, db, raw, idx, promoting, gc, writes, purged, raced>>

LEMMA ScanQueues ==
    ASSUME NEW i, NEW l, ScanStep(i, l), l.do = "queue", resume = None
    PROVE  \E p : Queues(i, l.op, Files[i], p)
  <1>1. /\ i \in todo /\ Files[i] \in Paths /\ src[Files[i]] # None /\ LookRight(l, Files[i])
    BY DEF ScanStep, ScanRight
  <1>2. PICK p \in Sids \cup {None} : (p # None => idx[p] = Files[i]) /\ Route(l.op, Files[i], p)
    BY <1>1 DEF LookRight
  <1>3. QueuedType(l.op, Files[i]) /\ l.resume = None
    BY <1>1 DEF LookRight
  <1>4. /\ pc = "scan" /\ pc' = "stage" /\ op' = l.op /\ todo' = todo \ {i} /\ src' = src
        /\ resume' = None /\ UNCHANGED <<db, raw, idx, promoting, gc, writes, purged, raced>>
    <2>1. l.op.text = src[Files[i]]
      BY <1>3 DEF QueuedType, QueuedAs
    <2> QED
      BY <1>3, <2>1 DEF ScanStep, budgets
  <1>5. batch' = batch
    BY <1>4 DEF ScanStep
  <1> QED
    BY <1>1, <1>2, <1>3, <1>4, <1>5 DEF Queues

\* How the queued operation relates to the file, its session and its route.
LEMMA QueuedFacts ==
    ASSUME IInvText, NEW i, NEW o, NEW f, NEW p, Queues(i, o, f, p)
    PROVE  /\ TypeOK /\ Kinds /\ o \in Operation /\ o.sid \in Sids /\ f \in Paths /\ src[f] \in Content
           /\ o.file = f /\ o.text = src[f] /\ o.stage = None /\ o.backup = None /\ Copy(o) = src[f]
           /\ promoting = <<>> /\ Uncommitted = ToSet(batch) /\ Pending = ToSet(batch)
           /\ Uncommitted' = Uncommitted \cup {o} /\ Pending' = Pending \cup {o}
           /\ (o.sid \in Paths => o.sid = f)
           /\ (~Holds(f, o.sid) => Owns(f, o.sid))
           /\ (Free(o.sid) => Holds(f, o.sid))
           /\ (p # None => Owns(f, p))
  <1>1. /\ TypeOK /\ Kinds /\ promoting = <<>> /\ pc = "scan"
        /\ o \in Operation /\ o.file = f /\ o.text = src[f] /\ o.stage = None /\ o.backup = None
        /\ f \in Paths /\ src[f] # None /\ op' = o /\ pc' = "stage" /\ batch' = batch /\ promoting' = promoting
    BY KindsOf DEF IInvText, TypeInv, TypeOK, Queues, QueuedType, QueuedAs
  <1>2. o.sid \in Sids /\ src[f] \in Content /\ Copy(o) = src[f]
    BY <1>1, OperationFields DEF Copy, Kinds
  <1>3. Uncommitted = ToSet(batch) /\ Pending = ToSet(batch) /\ Uncommitted' = ToSet(batch) \cup {o} /\ Pending' = ToSet(batch) \cup {o}
    BY <1>1, NoOperations DEF Uncommitted, Pending
  <1>4. p # None => Owns(f, p)
    BY DEF Queues, Owns
  <1>5. src[f].sid \notin Paths
    BY <1>1 DEF IInvText, NamesAgree
  <1>6. \/ o.sid = SessionOf(f, src[f])
        \/ o.sid = p /\ p # None /\ (Repairs(o, f) \/ Appends(o, f))
    BY DEF Queues, Route, Imports
  <1>7. o.sid \in Paths => o.sid = f
    <2>1. CASE o.sid = SessionOf(f, src[f])
      BY <1>5, <2>1 DEF SessionOf
    <2>2. CASE o.sid = p /\ p # None
      BY <1>1, <1>2, <1>4, <2>2 DEF IInvText, NamesAgree
    <2> QED
      BY <1>6, <2>1, <2>2
  <1>8. o.sid = SessionOf(f, src[f]) => Holds(f, o.sid)
    BY <1>1 DEF Holds
  <1>9. ASSUME Free(o.sid), o.sid = p, p # None, Repairs(o, f) \/ Appends(o, f)
        PROVE  Holds(f, o.sid)
    <2>1. raw[o.sid] # None /\ raw[o.sid].sid = src[f].sid
      BY <1>1, <1>9 DEF Repairs, Appends, filePrefixMatches
    <2>2. src[f].sid = Name(o.sid)
      BY <1>2, <1>9, <2>1 DEF IInvText, NamesAgree
    <2>3. SessionOf(f, src[f]) = o.sid
      BY <1>1, <1>2, <1>5, <1>7, <2>2, SessionNamed
    <2> QED
      BY <1>8, <2>3
  <1>10. ~Holds(f, o.sid) => Owns(f, o.sid)
    BY <1>4, <1>6, <1>8
  <1>11. Free(o.sid) => Holds(f, o.sid)
    BY <1>6, <1>8, <1>9
  <1> QED
    BY <1>1, <1>2, <1>3, <1>4, <1>7, <1>10, <1>11

\* A file with no owner is imported for a session that nobody knows.
LEMMA QueuedNew ==
    ASSUME IInvText, NEW i, NEW o, NEW f, NEW p, Queues(i, o, f, p), p = None, Free(o.sid)
    PROVE  /\ DbItems(o.sid) = {} /\ raw[o.sid] = None
           /\ \A q \in Pending : q.sid # o.sid
  <1>1. /\ promoting = <<>> /\ o.sid \in Sids /\ Pending = ToSet(batch) /\ pc = "scan"
    BY QueuedFacts DEF Queues
  <1>2. idx[o.sid] = None /\ ~hasSourceSession(o.sid)
    BY DEF Queues, Route, Imports
  <1>3. ~Stored(o.sid)
    BY <1>1, <1>2, NoOperations DEF IInvText, IndexKnows
  <1>4. raw[o.sid] = None
    BY <1>1, <1>3 DEF IInvText, RawIsBehind
  <1>5. \A q \in Pending : q.sid # o.sid
    BY <1>1, <1>2 DEF hasSourceSession, ToSet
  <1> QED
    BY <1>3, <1>4, <1>5 DEF DbItems

\* An imported file is not behind what is known of its session.
LEMMA QueuedAhead ==
    ASSUME IInvText, NEW i, NEW o, NEW f, NEW p, Queues(i, o, f, p), Free(o.sid)
    PROVE  /\ \A j \in DbItems(o.sid) : j.ver <= src[f].ver
           /\ raw[o.sid] # None => AtMost(raw[o.sid], src[f])
           /\ \A q \in Pending : q.sid = o.sid => AtMost(Copy(q), src[f])
  <1>1. /\ o.sid \in Sids /\ f \in Paths /\ Holds(f, o.sid) /\ (p # None => p \in Sids /\ Owns(f, p))
    BY QueuedFacts DEF Queues
  <1>2. CASE p # None
    BY <1>1, <1>2 DEF IInvText, FileIsAhead
  <1>3. CASE p = None
    BY <1>3, QueuedNew
  <1> QED
    BY <1>2, <1>3

\* Another file that holds the session has no owner but it, and the index knows
\* the session for f only; unless the managed raw file is what is queued.
LEMMA QueuedOthers ==
    ASSUME IInvText, NEW i, NEW o, NEW f, NEW p, Queues(i, o, f, p), Free(o.sid),
           NEW g \in Paths \ {f}, Holds(g, o.sid)
    PROVE  /\ \A t \in Sids : Owns(g, t) => t = o.sid
           /\ idx[o.sid] \in {None, f}
           /\ ~Repairs(o, f) => \A t \in Sids : ~Owns(g, t)
  <1>0. /\ TypeOK /\ o.sid \in Sids /\ f \in Paths /\ Holds(f, o.sid) /\ (p # None => p \in Sids /\ Owns(f, p))
        /\ Pending = ToSet(batch) /\ promoting = <<>> /\ pc = "scan" /\ src[f] # None /\ src[g] # None
        /\ resume = None
    <2>1. /\ TypeOK /\ o.sid \in Sids /\ f \in Paths /\ Holds(f, o.sid) /\ (p # None => Owns(f, p))
          /\ Pending = ToSet(batch) /\ promoting = <<>>
      BY QueuedFacts
    <2>2. p \in Sids \cup {None} /\ pc = "scan" /\ src[f] # None /\ resume = None
      BY DEF Queues
    <2>3. src[g] # None
      BY DEF Holds
    <2> QED
      BY <2>1, <2>2, <2>3
  <1>1. \A t \in Sids : Owns(g, t) => t = o.sid
    <2>1. ASSUME NEW t \in Sids, Owns(g, t), t # o.sid PROVE FALSE
      <3>1. ~Holds(g, t) /\ SessionOf(g, src[g]) = o.sid /\ SessionOf(f, src[f]) = o.sid
        BY <1>0, <2>1 DEF Holds
      <3> QED
        BY <1>0, <2>1, <3>1 DEF IInvText, MovedAlone
    <2> QED
      BY <2>1
  <1>2. ASSUME idx[o.sid] \notin {None, f} PROVE FALSE
    <2>1. p # None /\ idx[p] = f /\ p # o.sid
      BY <1>2 DEF Queues, Route
    <2>2. ~Holds(f, p) /\ SessionOf(g, src[g]) = o.sid /\ SessionOf(f, src[f]) = o.sid
      BY <1>0, <2>1 DEF Holds
    <2> QED
      BY <1>0, <2>1, <2>2 DEF IInvText, MovedAlone
  <1>3. ASSUME ~Repairs(o, f), NEW t \in Sids, Owns(g, t) PROVE FALSE
    <2>1. Owns(g, o.sid) /\ ~hasSourceSession(o.sid)
      BY <1>1, <1>3 DEF Queues, Route, Appends, Imports
    <2>2. \A q \in Pending : q.sid # o.sid
      BY <1>0, <2>1 DEF hasSourceSession, ToSet
    <2>3. Stored(o.sid) => db[o.sid].orig = idx[o.sid]
      BY <1>0, NoOperations DEF IInvText, IndexKnows
    <2>4. idx[o.sid] = g
      BY <1>0, <2>1, <2>2, <2>3 DEF Owns
    <2> QED
      BY <1>0, <1>2, <2>4, Constants
  <1> QED
    BY <1>1, <1>2, <1>3

\* What is appended continues the stored items.
LEMMA AppendsText ==
    ASSUME IInvText, NEW o, NEW f \in Paths, src[f] # None, o.sid \in Sids, Free(o.sid), Appends(o, f),
           \A j \in DbItems(o.sid) : j.ver <= src[f].ver
    PROVE  o.mode = "append" /\ Stored(o.sid) /\ TextOf(DbItems(o.sid) \cup o.items, src[f].ver)
  <1> DEFINE s == o.sid
             c == src[f]
  <1>0. TypeOK /\ Kinds /\ s \in Sids /\ c \in Content
    BY KindsOf DEF IInvText, TypeInv, Kinds
  <1>1. /\ o.mode = "append" /\ raw[s] # None /\ filePrefixMatches(raw[s], c) /\ ~Torn(raw[s]) /\ ~Torn(c)
        /\ o.items = {} \/ (NextOrdinal(s) = Lines(raw[s]) /\ o.items = ItemsIn(c) \ ItemsIn(raw[s]))
    BY DEF Appends
  <1>2. Stored(s) /\ raw[s] \in Content /\ raw[s].ver = c.ver
    BY <1>0, <1>1 DEF IInvText, RawIsBehind, Kinds, filePrefixMatches
  <1>3. \A j \in DbItems(s) : j.ver = c.ver
    <2>1. \A j \in DbItems(s) : j.ver <= c.ver
      OBVIOUS
    <2>2. \A j \in DbItems(s) : c.ver <= j.ver
      BY <1>0, <1>1, <1>2 DEF IInvText, RawIsBehind
    <2>3. \A j \in DbItems(s) : j.ver \in Nat
      BY <1>0 DEF Kinds
    <2> QED
      BY <1>0, <2>1, <2>2, <2>3, ContentFields
  <1>4. \E v : TextOf(DbItems(s), v)
    <2>1. s \in Sids \ (purged \cup Swapped) /\ DbItems(s) = db[s].items
      BY <1>0, <1>2 DEF Free, DbItems
    <2> QED
      <3>1. OneText
        BY DEF IInvText
      <3>2. PICK n \in 0..MaxSize, v \in 1..(MaxWrites + 2) :
               db[s].items = {[ord |-> k, ver |-> v] : k \in {m \in 0..MaxSize : m < n}}
        BY <1>2, <2>1, <3>1 DEF OneText
      <3>3. TextOf(DbItems(s), v)
        BY <2>1, <3>2 DEF TextOf
      <3> QED
        BY <3>3
  <1>5. TextOf(DbItems(s), c.ver)
    BY <1>3, <1>4, SameVersion
  <1>6. TextOf(DbItems(s) \cup o.items, c.ver)
    <2>1. CASE o.items = {}
      BY <1>5, <2>1
    <2>2. CASE NextOrdinal(s) = Lines(raw[s]) /\ o.items = ItemsIn(c) \ ItemsIn(raw[s])
      BY <1>0, <1>1, <1>2, <1>5, <2>2, SuffixContinues
    <2> QED
      BY <1>1, <2>1, <2>2
  <1> QED
    BY <1>0, <1>1, <1>2, <1>6

\* What is queued is one text, with what it is added to.
LEMMA QueuedText ==
    ASSUME IInvText, NEW i, NEW o, NEW f, NEW p, Queues(i, o, f, p), Free(o.sid)
    PROVE  /\ o.mode = "replace" => TextOf(o.items, o.text.ver)
           /\ o.mode = "append" => Stored(o.sid) /\ TextOf(DbItems(o.sid) \cup o.items, o.text.ver)
  <1> DEFINE s == o.sid
             c == src[f]
  <1>0. /\ TypeOK /\ Kinds /\ s \in Sids /\ f \in Paths /\ c \in Content /\ o.text = c /\ promoting = <<>> /\ pc = "scan"
    BY QueuedFacts DEF Queues
  <1>1. CASE Repairs(o, f) \/ Imports(o, f)
    <2>1. o.mode = "replace" /\ o.items = ItemsIn(c)
      BY <1>1 DEF Repairs, Imports
    <2> QED
      BY <1>0, <2>1, ItemsAreText
  <1>2. CASE Appends(o, f)
    <2>1. \A j \in DbItems(o.sid) : j.ver <= src[f].ver
      BY QueuedAhead
    <2>2. f \in Paths /\ src[f] # None /\ o.sid \in Sids /\ o.text = src[f]
      BY <1>0, Constants
    <2>3. o.mode = "append" /\ Stored(o.sid) /\ TextOf(DbItems(o.sid) \cup o.items, src[f].ver)
      BY <1>2, <2>1, <2>2, AppendsText
    <2> QED
      BY <2>2, <2>3
  <1> QED
    BY <1>1, <1>2 DEF Queues, Route

\* No second operation for a session that counts.
LEMMA QueuedOnce ==
    ASSUME IInvText, NEW i, NEW o, NEW f, NEW p, Queues(i, o, f, p), NEW q \in ToSet(batch), q.sid = o.sid
    PROVE  ~Free(o.sid) /\ idx[o.sid] # None
  <1>0. /\ TypeOK /\ Kinds /\ o.sid \in Sids /\ f \in Paths /\ src[f] \in Content /\ Pending = ToSet(batch)
        /\ Uncommitted = ToSet(batch) /\ (Free(o.sid) => Holds(f, o.sid)) /\ (p # None => Owns(f, p))
    BY QueuedFacts
  <1>1. hasSourceSession(o.sid)
    BY DEF hasSourceSession, ToSet
  <1>2. p # None /\ p \in Sids /\ idx[p] = f /\ idx[o.sid] # None /\ Repairs(o, f)
    BY <1>1 DEF Queues, Route, Imports, Appends
  <1>3. ASSUME Free(o.sid) PROVE FALSE
    <2>1. AtMost(Copy(q), src[f])
      BY <1>0, <1>3, QueuedAhead
    <2>2. AtMost(src[f], Copy(q))
      <3>1. raw[o.sid] # None /\ raw[o.sid] = src[f]
        BY <1>0, <1>2, Constants DEF Repairs
      <3> QED
        BY <1>0, <1>3, <3>1 DEF IInvText, CopiesFollow
    <2>3. Copy(q).ver = src[f].ver
      <3>1. Copy(q) \in Content
        BY <1>0 DEF Kinds
      <3>2. Copy(q).ver <= src[f].ver /\ src[f].ver <= Copy(q).ver
        BY <1>0, <2>1, <2>2, <3>1, AtMostOrder
      <3> QED
        BY <1>0, <3>1, <3>2, ContentFields
    <2>4. f # q.file
      BY <1>0 DEF IInvText, RunShape, Queues
    <2>5. (\A t \in Sids : Owns(f, t) => t = q.sid) /\ idx[q.sid] \in {None, q.file}
      BY <1>0, <1>3, <2>3, <2>4 DEF IInvText, OthersAreNewer
    <2> QED
      BY <1>0, <1>2, <2>4, <2>5, Constants
  <1> QED
    BY <1>2, <1>3

\* A scanned file is queued.
LEMMA QueueKeeps ==
    ASSUME IInvText, NEW i, NEW o, NEW f, NEW p, Queues(i, o, f, p), TypeInv' PROVE IInvText'
  <1> DEFINE s == o.sid
             c == src[f]
  <1>0. /\ TypeOK /\ Kinds /\ o \in Operation /\ s \in Sids /\ f \in Paths /\ c \in Content
        /\ o.file = f /\ o.text = c /\ o.stage = None /\ o.backup = None /\ Copy(o) = c
        /\ promoting = <<>> /\ Uncommitted = ToSet(batch) /\ Pending = Uncommitted
        /\ Uncommitted' = Uncommitted \cup {o} /\ Pending' = Pending \cup {o}
        /\ (s \in Paths => s = f) /\ (~Holds(f, s) => Owns(f, s)) /\ (Free(s) => Holds(f, s))
        /\ (p # None => Owns(f, p))
    BY QueuedFacts
  <1>1. /\ i \in todo /\ f = Files[i] /\ c # None /\ p \in Sids \cup {None} /\ (p # None => idx[p] = f) /\ Route(o, f, p)
        /\ pc = "scan" /\ pc' = "stage" /\ op' = o /\ todo' = todo \ {i} /\ batch' = batch
        /\ resume = None /\ resume' = None
        /\ UNCHANGED <<src, db, raw, idx, promoting, gc, writes, purged, raced>>
    BY DEF Queues
  <1>2. /\ \A x : Free(x)' = Free(x)
        /\ \A h, x : Holds(h, x)' = Holds(h, x)
        /\ \A x : DbItems(x)' = DbItems(x) /\ Stored(x)' = Stored(x)
    BY <1>1 DEF Free, Swapped, Holds, DbItems, Stored
  <1> HIDE DEF s, c
  <1>3. \A h \in Paths, x \in Sids : Owns(h, x)' => Owns(h, x) \/ (h = f /\ x = s)
    <2>1. ASSUME NEW h \in Paths, NEW x \in Sids, Owns(h, x)' PROVE Owns(h, x) \/ (h = f /\ x = s)
      <3>1. \/ db[x] # None /\ db[x].orig = h
            \/ idx[x] = h
            \/ \E q \in Pending : q.file = h /\ q.sid = x
            \/ o.file = h /\ o.sid = x
        BY <1>0, <1>1, <2>1 DEF Owns, Stored
      <3> QED
        BY <1>0, <3>1 DEF Owns, Stored, s
    <2> QED
      BY <2>1
  <1>4. VersionsCount'
    <2>1. VersionsCount /\ c.ver < writes + 3
      BY <1>0, <1>1 DEF IInvText, VersionsCount, c
    <2>2. \A q \in Pending' : q.text.ver < writes' + 3 /\ Copy(q).ver < writes' + 3
      BY <1>0, <1>1, <2>1 DEF VersionsCount
    <2>3. /\ \A g \in Paths : src'[g] # None => src'[g].ver < writes' + 3
          /\ \A x \in Sids : Free(x)' /\ raw'[x] # None => raw'[x].ver < writes' + 3
          /\ \A x \in Sids : Free(x)' => \A j \in DbItems(x)' : j.ver < writes' + 3
      BY <1>1, <1>2, <2>1 DEF VersionsCount
    <2> QED
      BY <2>2, <2>3 DEF VersionsCount
  <1>5. NamesAgree'
    <2>0. NamesAgree
      BY DEF IInvText
    <2>1. \A h \in Paths, x \in Sids : Owns(h, x)' /\ x \in Paths => x = h
      BY <1>0, <1>3, <2>0 DEF NamesAgree
    <2>2. /\ \A h \in Paths : src'[h] # None => src'[h].sid \notin Paths
          /\ \A x \in Sids : Free(x)' /\ raw'[x] # None => raw'[x].sid = Name(x)
      BY <1>1, <1>2, <2>0 DEF NamesAgree
    <2> QED
      BY <2>1, <2>2 DEF NamesAgree
  <1>6. MovedAlone'
    <2>1. ASSUME NEW h \in Paths, NEW x \in Sids, src'[h] # None, Owns(h, x)', ~Holds(h, x)'
          PROVE  \A g \in Paths \ {h} : src'[g] # None => SessionOf(g, src'[g]) # SessionOf(h, src'[h])
      <3>1. src[h] # None /\ ~Holds(h, x) /\ Owns(h, x)
        BY <1>0, <1>1, <1>2, <1>3, <2>1
      <3> QED
        BY <1>1, <3>1 DEF IInvText, MovedAlone
    <2> QED
      BY <2>1, Zenon DEF MovedAlone
  <1>7. FileIsAhead'
    <2>1. ASSUME NEW h \in Paths, NEW x \in Sids, Free(x)', Holds(h, x)', NEW t \in Sids, Owns(h, t)'
          PROVE  /\ \A j \in DbItems(x)' : j.ver <= src'[h].ver
                 /\ raw'[x] # None => AtMost(raw'[x], src'[h])
                 /\ \A q \in Pending' : q.sid = x => AtMost(Copy(q), src'[h])
      <3>1. Free(x) /\ Holds(h, x)
        BY <1>2, <2>1
      <3>2. /\ \A j \in DbItems(x) : j.ver <= src[h].ver
            /\ raw[x] # None => AtMost(raw[x], src[h])
            /\ \A q \in Pending : q.sid = x => AtMost(Copy(q), src[h])
        <4>1. CASE \E u \in Sids : Owns(h, u)
          BY <3>1, <4>1 DEF IInvText, FileIsAhead
        <4>2. CASE h = f /\ \A u \in Sids : ~Owns(f, u)
          <5>1. p = None /\ Holds(f, s) /\ x = s
            BY <1>0, <1>1, <3>1, <4>2 DEF Holds
          <5> QED
            BY <3>1, <4>2, <5>1, QueuedAhead DEF s
        <4> QED
          BY <1>3, <2>1, <4>1, <4>2
      <3>3. ASSUME x = s PROVE AtMost(c, src[h])
        <4>1. CASE h = f
          BY <1>0, <4>1, AtMostOrder DEF c
        <4>2. CASE h # f
          <5>1. Owns(h, t)
            BY <1>3, <2>1, <4>2
          <5>2. Free(o.sid) /\ Holds(h, o.sid)
            BY <3>1, <3>3 DEF s
          <5>3. Repairs(o, f)
            BY <4>2, <5>1, <5>2, QueuedOthers
          <5>4. raw[x] = c
            BY <3>3, <5>3 DEF Repairs, s, c
          <5> QED
            BY <1>1, <3>2, <5>4
        <4> QED
          BY <4>1, <4>2
      <3>4. \A q \in Pending' : q.sid = x => AtMost(Copy(q), src[h])
        BY <1>0, <3>2, <3>3 DEF s
      <3> QED
        BY <1>1, <1>2, <3>2, <3>4
    <2> QED
      BY <2>1, Zenon DEF FileIsAhead
  <1>8. OthersAreNewer'
    <2>1. ASSUME NEW q \in Uncommitted', Free(q.sid)', NEW g \in Paths \ {q.file}, Holds(g, q.sid)'
          PROVE  /\ Copy(q).ver = src'[g].ver => \A t \in Sids : Owns(g, t)' => t = q.sid
                 /\ idx'[q.sid] \in {None, q.file}
      <3>1. Free(q.sid) /\ Holds(g, q.sid) /\ src'[g] = src[g]
        BY <1>1, <1>2, <2>1
      <3>2. CASE q = o
        <4>1. g \in Paths \ {f} /\ Free(o.sid) /\ Holds(g, o.sid)
          BY <1>0, <2>1, <3>1, <3>2
        <4>2. (\A t \in Sids : Owns(g, t) => t = o.sid) /\ idx[o.sid] \in {None, f}
          BY <4>1, QueuedOthers
        <4> QED
          BY <1>0, <1>1, <1>3, <3>2, <4>1, <4>2
      <3>3. CASE q \in Uncommitted
        <4>1. /\ Copy(q).ver = src[g].ver => \A t \in Sids : Owns(g, t) => t = q.sid
              /\ idx[q.sid] \in {None, q.file}
          BY <2>1, <3>1, <3>3 DEF IInvText, OthersAreNewer
        <4>2. g = f => Owns(f, s) \/ s = q.sid
          BY <1>0, <3>1 DEF Holds
        <4>3. ASSUME Copy(q).ver = src'[g].ver, NEW t \in Sids, Owns(g, t)' PROVE t = q.sid
          <5>1. \A u \in Sids : Owns(g, u) => u = q.sid
            BY <3>1, <4>1, <4>3
          <5>2. Owns(g, t) \/ (g = f /\ t = s)
            BY <1>3, <2>1, <4>3
          <5> QED
            BY <1>0, <4>2, <5>1, <5>2
        <4> QED
          BY <1>1, <4>1, <4>3
      <3> QED
        BY <1>0, <2>1, <3>2, <3>3
    <2> QED
      BY <2>1, Zenon DEF OthersAreNewer
  <1>9. IndexKnows'
    BY <1>0, <1>1, <1>2, NoOperations DEF IInvText, IndexKnows
  <1>10. OneEach'
    <2>0. OneEach
      BY DEF IInvText
    <2>1. \A j \in DOMAIN batch : batch[j].sid = s => ~Free(s) /\ idx[s] # None
      BY QueuedOnce DEF ToSet, s
    <2>4. \A j \in DOMAIN batch' : batch'[j].sid = op'.sid => op'.sid \in purged' \cup Swapped' /\ idx'[op'.sid] # None
      BY <1>1, <2>1 DEF s, Free, Swapped
    <2>5. o.id # s => idx[o.id] # None /\ idx[s] = None
      BY <1>0, <1>1, Constants DEF Route, Repairs, Appends, s
    <2>6. \A q \in Uncommitted' : q.id # q.sid => idx'[q.id] # None /\ idx'[q.sid] = None
      BY <1>0, <1>1, <2>0, <2>5 DEF OneEach, s
    <2>7. \A j, k \in DOMAIN batch' : j # k /\ batch'[j].sid = batch'[k].sid =>
              batch'[j].sid \in purged' \cup Swapped' /\ idx'[batch'[j].sid] # None
      BY <1>1, <2>0 DEF OneEach, Free, Swapped
    <2>8. ToSet(promoting') = {} /\ DOMAIN promoting' = {}
      BY <1>0, <1>1, NoOperations
    <2> QED
      BY <2>4, <2>6, <2>7, <2>8 DEF OneEach, Free
  <1>11. WritesOneText'
    <2>1. ASSUME NEW q \in Uncommitted', Free(q.sid)'
          PROVE  /\ q.mode = "replace" => TextOf(q.items, q.text.ver)
                 /\ q.mode = "append" => Stored(q.sid)' /\ TextOf(DbItems(q.sid)' \cup q.items, q.text.ver)
      <3>1. Free(q.sid)
        BY <1>2, <2>1
      <3>2. /\ q.mode = "replace" => TextOf(q.items, q.text.ver)
            /\ q.mode = "append" => Stored(q.sid) /\ TextOf(DbItems(q.sid) \cup q.items, q.text.ver)
        <4>1. CASE q = o
          BY <3>1, <4>1, QueuedText
        <4>2. CASE q \in Uncommitted
          BY <3>1, <4>2 DEF IInvText, WritesOneText
        <4> QED
          BY <1>0, <2>1, <4>1, <4>2
      <3> QED
        BY <1>2, <3>2
    <2> QED
      BY <2>1 DEF WritesOneText
  <1>12. CopiesFollow'
    <2>1. ASSUME NEW q \in Pending', Free(q.sid)'
          PROVE  /\ q.text.sid = Name(q.sid) /\ Copy(q).sid = Name(q.sid)
                 /\ Copy(q).ver = q.text.ver /\ AtMost(q.text, Copy(q))
                 /\ raw'[q.sid] # None => AtMost(raw'[q.sid], Copy(q))
                 /\ q.backup # None /\ q.id = q.sid =>
                                       /\ q.backup.sid = Name(q.sid) /\ AtMost(q.backup, Copy(q))
                                       /\ \A j \in DbItems(q.sid)' : q.backup.ver <= j.ver
      <3>1. CASE q \in Pending
        <4>1. Free(q.sid)
          BY <1>2, <2>1
        <4> QED
          BY <1>1, <1>2, <3>1, <4>1 DEF IInvText, CopiesFollow
      <3>2. CASE q = o
        <4>1. Free(o.sid) /\ Holds(f, s)
          BY <1>0, <1>2, <2>1, <3>2 DEF s
        <4>2. c.sid \notin Paths
          BY <1>0, <1>1 DEF IInvText, NamesAgree, c
        <4>3. c.sid = Name(s)
          BY <1>0, <4>1, <4>2, SessionNamed DEF Holds, c
        <4>4. raw[s] # None => AtMost(raw[s], c)
          BY <4>1, QueuedAhead DEF s, c
        <4>5. AtMost(c, c)
          BY <1>0, AtMostOrder
        <4> QED
          BY <1>0, <1>1, <3>2, <4>3, <4>4, <4>5 DEF s
      <3> QED
        BY <1>0, <2>1, <3>1, <3>2
    <2> QED
      BY <2>1, Zenon DEF CopiesFollow
  <1>13. RawIsBehind' /\ OneText'
    <2>1. RawIsBehind'
      BY <1>0, <1>1, <1>2, NoOperations DEF IInvText, RawIsBehind
    <2>2. Swapped' = Swapped
      BY <1>1 DEF Swapped
    <2>3. OneText'
      BY <1>1, <1>2, <2>2 DEF IInvText, OneText
    <2> QED
      BY <2>1, <2>3
  <1>14. RunShape'
    <2>0. RunShape
      BY DEF IInvText
    <2>1. op'.stage = None /\ op'.backup = None /\ op'.text = c /\ op'.file = f
      BY <1>0, <1>1
    <2>2. \A j \in todo' : Files[j] # f
      <3>1. IsInjective(Files) /\ todo \subseteq DOMAIN Files
        BY <1>0 DEF IInvText, TypeOK
      <3> QED
        BY <1>1, <3>1, OnePlace
    <2>3. \A q \in Pending', j \in todo' : q.file # Files[j]
      BY <1>0, <1>1, <2>0, <2>2 DEF RunShape
    <2>4. \A j \in DOMAIN batch' : batch'[j].file # op'.file
      BY <1>0, <1>1, <2>0 DEF RunShape, ToSet
    <2>5. src'[op'.file] = c /\ c.size <= c.size
      BY <1>0, <1>1, <2>1, ContentFields DEF c
    <2>6. /\ \A j \in DOMAIN batch' : batch'[j].backup = None
          /\ \A j, k \in DOMAIN batch' : j # k => batch'[j].file # batch'[k].file
          /\ \A j, k \in DOMAIN promoting' : j # k => promoting'[j].file # promoting'[k].file
          /\ \A g \in gc' : g.at = "raw" => g.sid \in purged'
      BY <1>1, <2>0 DEF RunShape
    <2> QED
      BY <2>1, <2>3, <2>4, <2>5, <2>6 DEF RunShape
  <1> QED
    BY <1>1, <1>4, <1>5, <1>6, <1>7, <1>8, <1>9, <1>10, <1>11, <1>12, <1>13, <1>14 DEF IInvText, ResumeFollows

\* The scan queues operation o for the file f that a flush left for later.
Resumes(i, o, f) ==
    /\ i \in todo /\ i = Min(todo) /\ f = Files[i] /\ f \in Paths /\ src[f] # None
    /\ resume # None /\ resume' = None /\ o.sid = resume.sid /\ o.id = o.sid
    /\ QueuedType(o, f) \/ QueuedAs(o, f, resume.text)
    /\ \/ resume.at = "append"
       \/ /\ resume.at = "parsed" /\ resume.prior # None
          /\ \/ QueuedType(o, f) /\ (Repairs(o, f) \/ Appends(o, f))
             \/ /\ QueuedAs(o, f, resume.text) /\ o.mode = "replace" /\ o.items = ItemsIn(resume.text)
                /\ \/ raw[o.sid] = None
                   \/ raw[o.sid] # src[f] /\ ~filePrefixMatches(raw[o.sid], src[f])
    /\ pc = "scan" /\ pc' = "stage" /\ op' = o /\ todo' = todo \ {i} /\ batch' = batch
    /\ raced' = IF src[f].ver # o.text.ver THEN raced \cup {[sid |-> o.sid, whole |-> TRUE]} ELSE raced
    /\ UNCHANGED <<src, db, raw, idx, promoting, gc, writes, purged>>

LEMMA ScanResumes ==
    ASSUME NEW i, NEW l, ScanStep(i, l), l.do = "queue", resume # None
    PROVE  \E o : Resumes(i, o, Files[i])
  <1>1. /\ i \in todo /\ i = Min(todo) /\ Files[i] \in Paths /\ src[Files[i]] # None /\ AfterRight(l, Files[i])
    BY DEF ScanStep, ScanRight
  <1>2. PICK o : o = l.op
    OBVIOUS
  <1>3. /\ l.resume = None /\ o.sid = resume.sid /\ o.id = o.sid
        /\ QueuedType(o, Files[i]) \/ QueuedAs(o, Files[i], resume.text)
        /\ \/ resume.at = "append"
           \/ /\ resume.at = "parsed" /\ resume.prior # None
              /\ \/ QueuedType(o, Files[i]) /\ (Repairs(o, Files[i]) \/ Appends(o, Files[i]))
                 \/ /\ QueuedAs(o, Files[i], resume.text) /\ o.mode = "replace" /\ o.items = ItemsIn(resume.text)
                    /\ \/ raw[o.sid] = None
                       \/ raw[o.sid] # src[Files[i]] /\ ~filePrefixMatches(raw[o.sid], src[Files[i]])
    BY <1>1, <1>2 DEF AfterRight
  <1>4. /\ pc = "scan" /\ pc' = "stage" /\ op' = o /\ todo' = todo \ {i} /\ src' = src /\ batch' = batch
        /\ resume' = None /\ UNCHANGED <<db, raw, idx, promoting, gc, writes, purged>>
        /\ raced' = IF src[Files[i]].ver # o.text.ver THEN raced \cup {[sid |-> o.sid, whole |-> TRUE]} ELSE raced
    BY <1>2, <1>3 DEF ScanStep, budgets
  <1> QED
    BY <1>1, <1>3, <1>4 DEF Resumes

\* The operation is the only pending one; its text may be older than the file's.
LEMMA ResumedFacts ==
    ASSUME IInvText, NEW i, NEW o, NEW f, Resumes(i, o, f)
    PROVE  /\ TypeOK /\ Kinds /\ o \in Operation /\ o.sid \in Sids /\ f \in Paths /\ src[f] \in Content
           /\ o.file = f /\ o.text \in Content /\ o.stage = None /\ o.backup = None /\ Copy(o) = o.text
           /\ batch = <<>> /\ promoting = <<>> /\ Uncommitted = {} /\ Pending = {}
           /\ Uncommitted' = {o} /\ Pending' = {o}
           /\ o.text.sid \notin Paths /\ o.text.ver < writes + 3
           /\ o.text.ver = src[f].ver => o.text.sid = src[f].sid /\ o.text.size <= src[f].size
           /\ (o.sid \in Paths => o.sid = f)
           /\ resume.prior \in Sids /\ Owns(f, resume.prior)
           /\ ~Holds(f, o.sid) =>
                 \A g \in Paths \ {f} : src[g] # None => SessionOf(g, src[g]) # SessionOf(f, src[f])
  <1>1. /\ TypeOK /\ Kinds /\ pc = "scan" /\ resume # None /\ resume \in Resume
        /\ f \in Paths /\ src[f] # None /\ src[f] \in Content /\ f = Files[Min(todo)]
        /\ op' = o /\ pc' = "stage" /\ batch' = batch /\ promoting' = promoting
        /\ batch = <<>> /\ promoting = <<>> /\ o.sid = resume.sid
    BY KindsOf DEF IInvText, TypeInv, TypeOK, Resumes, Kinds
  <1>2. PICK c : c = resume.text
    OBVIOUS
  <1>3. c \in Content /\ resume.sid \in Sids /\ resume.prior \in Sids \cup {None} /\ resume.at \in {"append", "parsed"}
    BY <1>1, <1>2 DEF Resume
  <1>4. /\ o \in Operation /\ o.file = f /\ o.stage = None /\ o.backup = None /\ (o.text = src[f] \/ o.text = c)
    BY <1>2 DEF Resumes, QueuedType, QueuedAs
  <1>5. o.text \in Content /\ Copy(o) = o.text /\ o.sid \in Sids
    BY <1>1, <1>3, <1>4 DEF Copy
  <1>6. Uncommitted = {} /\ Pending = {} /\ Uncommitted' = {o} /\ Pending' = {o}
    BY <1>1, NoOperations DEF Uncommitted, Pending
  <1>7. /\ c.ver < writes + 3 /\ c.sid \notin Paths
        /\ c.ver < src[f].ver \/ (c.ver = src[f].ver /\ c.sid = src[f].sid /\ c.size <= src[f].size)
        /\ ~Holds(f, resume.sid) =>
              \A g \in Paths \ {f} : src[g] # None => SessionOf(g, src[g]) # SessionOf(f, src[f])
        /\ resume.sid \in Paths => resume.sid = f
        /\ resume.at = "append" => resume.prior = resume.sid
    BY <1>1, <1>2 DEF IInvText, ResumeFollows
  <1>8. src[f].ver < writes + 3 /\ src[f].sid \notin Paths
    BY <1>1 DEF IInvText, VersionsCount, NamesAgree
  <1>9. o.text.ver = src[f].ver => o.text.sid = src[f].sid /\ o.text.size <= src[f].size
    <2>1. c.ver \in Nat /\ src[f].ver \in Nat /\ src[f].size <= src[f].size
      BY <1>1, <1>3, ContentFields
    <2>2. c.ver = src[f].ver => c.sid = src[f].sid /\ c.size <= src[f].size
      BY <1>7, <2>1
    <2> QED
      BY <1>4, <2>1, <2>2
  <1>10. resume.prior \in Sids
    BY <1>3, <1>7 DEF Resumes
  <1>11. Owns(f, resume.prior)
    BY <1>1 DEF Owns
  <1> QED
    BY <1>1, <1>4, <1>5, <1>6, <1>7, <1>8, <1>9, <1>10, <1>11

\* When the session counts, the path had another session before: the file holds
\* the text still, is alone with its session, and is not behind what is known.
LEMMA ResumedFree ==
    ASSUME IInvText, NEW i, NEW o, NEW f, Resumes(i, o, f), Free(o.sid)'
    PROVE  /\ Free(o.sid) /\ Holds(f, o.sid)
           /\ o.text.ver = src[f].ver /\ o.text.sid = src[f].sid /\ AtMost(o.text, src[f])
           /\ src[f].sid = Name(o.sid)
           /\ \A g \in Paths \ {f} : ~Holds(g, o.sid)
           /\ \A j \in DbItems(o.sid) : j.ver <= src[f].ver
           /\ raw[o.sid] # None => AtMost(raw[o.sid], o.text)
           /\ o.mode = "replace" => TextOf(o.items, o.text.ver)
           /\ o.mode = "append" => Stored(o.sid) /\ TextOf(DbItems(o.sid) \cup o.items, o.text.ver)
  <1> DEFINE s == o.sid
             c == src[f]
             t == o.text
  <1>0. /\ TypeOK /\ Kinds /\ s \in Sids /\ f \in Paths /\ c \in Content /\ t \in Content
        /\ t.sid \notin Paths /\ (s \in Paths => s = f) /\ resume.prior \in Sids /\ Owns(f, resume.prior)
        /\ t.ver = c.ver => t.sid = c.sid /\ t.size <= c.size
    BY ResumedFacts
  <1>1. /\ src[f] # None /\ s = resume.sid /\ raced \subseteq raced' /\ purged' = purged
        /\ c.ver # t.ver => [sid |-> s, whole |-> TRUE] \in raced'
    BY DEF Resumes
  <1>2. Free(s)
    BY <1>1, FreeBefore
  <1>3. t.ver = c.ver
    <2>1. ASSUME c.ver # t.ver PROVE FALSE
      <3>1. [sid |-> s, whole |-> TRUE].sid = s /\ [sid |-> s, whole |-> TRUE].whole
        OBVIOUS
      <3>2. s \in Swapped'
        BY <1>1, <2>1, <3>1 DEF Swapped
      <3> QED
        BY <3>2 DEF Free
    <2> QED
      BY <2>1
  <1>4. t.sid = c.sid /\ AtMost(t, c)
    BY <1>0, <1>3 DEF AtMost
  <1>5. /\ resume.at = "append" \/ resume.prior = s => ~Free(s)
        /\ resume.at = "parsed" => s = SessionOf(f, resume.text)
    BY <1>1 DEF IInvText, ResumeFollows, Resumes
  <1>6. /\ resume.at = "parsed" /\ resume.prior # s
        /\ \/ t = c /\ (Repairs(o, f) \/ Appends(o, f))
           \/ /\ t = resume.text /\ o.mode = "replace" /\ o.items = ItemsIn(t)
              /\ raw[s] = None \/ (raw[s] # c /\ ~filePrefixMatches(raw[s], c))
    BY <1>2, <1>5 DEF Resumes, QueuedType, QueuedAs
  <1>7. Holds(f, s)
    <2>1. CASE t = c /\ (Repairs(o, f) \/ Appends(o, f))
      <3>1. raw[s] # None /\ raw[s].sid = c.sid
        BY <1>1, <2>1 DEF Repairs, Appends, filePrefixMatches
      <3>2. c.sid = Name(s)
        BY <1>0, <1>2, <3>1 DEF IInvText, NamesAgree
      <3>3. c.sid \notin Paths
        BY <1>0, <1>4
      <3>4. SessionOf(f, c) = s
        BY <1>0, <3>2, <3>3, SessionNamed
      <3> QED
        BY <1>1, <3>4 DEF Holds
    <2>2. CASE t = resume.text
      <3>1. s = SessionOf(f, t)
        BY <1>5, <1>6, <2>2
      <3>2. SessionOf(f, c) = s
        BY <1>4, <3>1 DEF SessionOf
      <3> QED
        BY <1>1, <3>2 DEF Holds
    <2> QED
      BY <1>6, <2>1, <2>2
  <1>8. c.sid = Name(s)
    <2>1. c.sid \notin Paths
      BY <1>0, <1>4
    <2> QED
      BY <1>0, <1>7, <2>1, SessionNamed DEF Holds
  <1>9. \A g \in Paths \ {f} : ~Holds(g, s)
    <2>1. ~Holds(f, resume.prior)
      BY <1>6, <1>7 DEF Holds
    <2> QED
      BY <1>0, <1>1, <1>7, <2>1 DEF IInvText, MovedAlone, Holds
  <1>10. (\A j \in DbItems(s) : j.ver <= c.ver) /\ (raw[s] # None => AtMost(raw[s], c))
    BY <1>0, <1>2, <1>7 DEF IInvText, FileIsAhead
  <1>11. ASSUME raw[s] # None PROVE AtMost(raw[s], t)
    <2>1. CASE t = c
      BY <1>10, <1>11, <2>1
    <2>2. CASE raw[s] # c /\ ~filePrefixMatches(raw[s], c)
      <3>1. PICK a : a = raw[s]
        OBVIOUS
      <3>2. a \in Content /\ a.sid = c.sid /\ AtMost(a, c) /\ a # c
        BY <1>0, <1>2, <1>8, <1>10, <1>11, <2>2, <3>1 DEF IInvText, NamesAgree, Kinds
      <3>3. a.ver \in Nat /\ c.ver \in Nat /\ a.size \in Nat /\ c.size \in Nat
        BY <1>0, <3>2, ContentFields
      <3>4. a.ver = c.ver /\ a.size = c.size => a = c
        BY <1>0, <3>2 DEF Content
      <3>5. ~(a.ver = c.ver /\ a.size < c.size)
        BY <2>2, <3>1, <3>2 DEF filePrefixMatches
      <3>6. a.ver < c.ver
        BY <3>2, <3>3, <3>4, <3>5 DEF AtMost
      <3> QED
        BY <1>3, <3>1, <3>6 DEF AtMost
    <2> QED
      BY <1>6, <1>11, <2>1, <2>2
  <1>12. /\ o.mode = "replace" => TextOf(o.items, t.ver)
         /\ o.mode = "append" => Stored(s) /\ TextOf(DbItems(s) \cup o.items, t.ver)
    <2>1. CASE o.mode = "replace" /\ o.items = ItemsIn(t)
      BY <1>0, <2>1, ItemsAreText
    <2>2. CASE Appends(o, f)
      <3>1. o.mode = "append" /\ Stored(o.sid) /\ TextOf(DbItems(o.sid) \cup o.items, src[f].ver)
        BY <1>0, <1>1, <1>2, <1>10, <2>2, AppendsText
      <3> QED
        BY <1>3, <3>1
    <2>3. t = c /\ Repairs(o, f) => o.mode = "replace" /\ o.items = ItemsIn(t)
      BY DEF Repairs
    <2> QED
      BY <1>6, <2>1, <2>2, <2>3
  <1> QED
    BY <1>2, <1>3, <1>4, <1>7, <1>8, <1>9, <1>10, <1>11, <1>12

\* A file that was left for later is queued.
LEMMA ResumedKeeps ==
    ASSUME IInvText, NEW i, NEW o, NEW f, Resumes(i, o, f), TypeInv' PROVE IInvText'
  <1>0. /\ TypeOK /\ Kinds /\ o \in Operation /\ o.sid \in Sids /\ f \in Paths /\ src[f] \in Content
        /\ o.file = f /\ o.text \in Content /\ o.stage = None /\ o.backup = None /\ Copy(o) = o.text
        /\ batch = <<>> /\ promoting = <<>> /\ Uncommitted = {} /\ Pending = {}
        /\ Uncommitted' = {o} /\ Pending' = {o}
        /\ o.text.sid \notin Paths /\ o.text.ver < writes + 3
        /\ o.text.ver = src[f].ver => o.text.sid = src[f].sid /\ o.text.size <= src[f].size
        /\ (o.sid \in Paths => o.sid = f)
        /\ resume.prior \in Sids /\ Owns(f, resume.prior)
        /\ ~Holds(f, o.sid) =>
              \A g \in Paths \ {f} : src[g] # None => SessionOf(g, src[g]) # SessionOf(f, src[f])
    BY ResumedFacts
  <1>1. /\ i \in todo /\ f = Files[i] /\ src[f] # None /\ o.id = o.sid
        /\ pc = "scan" /\ pc' = "stage" /\ op' = o /\ todo' = todo \ {i} /\ batch' = batch
        /\ resume' = None /\ raced \subseteq raced'
        /\ UNCHANGED <<src, db, raw, idx, promoting, gc, writes, purged>>
    BY DEF Resumes
  <1>2. /\ \A x : Free(x)' => Free(x)
        /\ \A h, x : Holds(h, x)' = Holds(h, x)
        /\ \A x : DbItems(x)' = DbItems(x) /\ Stored(x)' = Stored(x)
    <2>1. \A x : Free(x)' => Free(x)
      BY <1>1, FreeBefore
    <2> QED
      BY <1>1, <2>1 DEF Holds, DbItems, Stored
  <1>3. \A h \in Paths, x \in Sids : Owns(h, x)' => Owns(h, x) \/ (h = f /\ x = o.sid)
    <2>1. ASSUME NEW h \in Paths, NEW x \in Sids, Owns(h, x)' PROVE Owns(h, x) \/ (h = f /\ x = o.sid)
      <3>1. \/ db[x] # None /\ db[x].orig = h
            \/ idx[x] = h
            \/ o.file = h /\ o.sid = x
        BY <1>0, <1>1, <2>1 DEF Owns, Stored
      <3> QED
        BY <1>0, <3>1 DEF Owns, Stored
    <2> QED
      BY <2>1
  <1>4. VersionsCount'
    BY <1>0, <1>1, <1>2 DEF IInvText, VersionsCount
  <1>5. NamesAgree'
    <2>0. NamesAgree
      BY DEF IInvText
    <2>1. \A h \in Paths, x \in Sids : Owns(h, x)' /\ x \in Paths => x = h
      BY <1>0, <1>3, <2>0 DEF NamesAgree
    <2>2. /\ \A h \in Paths : src'[h] # None => src'[h].sid \notin Paths
          /\ \A x \in Sids : Free(x)' /\ raw'[x] # None => raw'[x].sid = Name(x)
      BY <1>1, <1>2, <2>0 DEF NamesAgree
    <2> QED
      BY <2>1, <2>2 DEF NamesAgree
  <1>6. MovedAlone'
    <2>1. ASSUME NEW h \in Paths, NEW x \in Sids, src'[h] # None, Owns(h, x)', ~Holds(h, x)'
          PROVE  \A g \in Paths \ {h} : src'[g] # None => SessionOf(g, src'[g]) # SessionOf(h, src'[h])
      <3>1. src[h] # None /\ ~Holds(h, x) /\ (Owns(h, x) \/ (h = f /\ x = o.sid))
        BY <1>1, <1>2, <1>3, <2>1
      <3> QED
        BY <1>0, <1>1, <3>1 DEF IInvText, MovedAlone
    <2> QED
      BY <2>1, Zenon DEF MovedAlone
  <1>7. FileIsAhead'
    <2>1. ASSUME NEW h \in Paths, NEW x \in Sids, Free(x)', Holds(h, x)', NEW t \in Sids, Owns(h, t)'
          PROVE  /\ \A j \in DbItems(x)' : j.ver <= src'[h].ver
                 /\ raw'[x] # None => AtMost(raw'[x], src'[h])
                 /\ \A q \in Pending' : q.sid = x => AtMost(Copy(q), src'[h])
      <3>1. Free(x) /\ Holds(h, x) /\ \E u \in Sids : Owns(h, u)
        BY <1>0, <1>2, <1>3, <2>1
      <3>2. /\ \A j \in DbItems(x) : j.ver <= src[h].ver
            /\ raw[x] # None => AtMost(raw[x], src[h])
        BY <3>1 DEF IInvText, FileIsAhead
      <3>3. ASSUME x = o.sid PROVE AtMost(Copy(o), src[h])
        <4>1. Free(o.sid)' /\ Holds(h, o.sid)
          BY <2>1, <3>1, <3>3
        <4>2. h = f /\ AtMost(o.text, src[f])
          BY <4>1, ResumedFree
        <4> QED
          BY <1>0, <4>2
      <3>4. \A q \in Pending' : q.sid = x => AtMost(Copy(q), src[h])
        BY <1>0, <3>3
      <3> QED
        BY <1>1, <1>2, <3>2, <3>4
    <2> QED
      BY <2>1, Zenon DEF FileIsAhead
  <1>8. OthersAreNewer'
    <2>1. ASSUME Free(o.sid)' PROVE \A g \in Paths \ {f} : ~Holds(g, o.sid)
      BY <2>1, ResumedFree
    <2> QED
      BY <1>0, <1>2, <2>1 DEF OthersAreNewer
  <1>9. IndexKnows'
    BY <1>0, <1>1, <1>2, NoOperations DEF IInvText, IndexKnows
  <1>10. OneEach'
    <2>1. ToSet(promoting') = {} /\ DOMAIN promoting' = {} /\ DOMAIN batch' = {}
      BY <1>0, <1>1, NoOperations
    <2> QED
      BY <1>0, <1>1, <2>1 DEF OneEach
  <1>11. WritesOneText'
    <2>1. ASSUME Free(o.sid)'
          PROVE  /\ o.mode = "replace" => TextOf(o.items, o.text.ver)
                 /\ o.mode = "append" => Stored(o.sid) /\ TextOf(DbItems(o.sid) \cup o.items, o.text.ver)
      BY <2>1, ResumedFree
    <2> QED
      BY <1>0, <1>2, <2>1 DEF WritesOneText
  <1>12. CopiesFollow'
    <2>0. ASSUME Free(o.sid)'
          PROVE  o.text.sid = Name(o.sid) /\ (raw[o.sid] # None => AtMost(raw[o.sid], o.text))
      BY <2>0, ResumedFree
    <2>1. ASSUME NEW q \in Pending', Free(q.sid)'
          PROVE  /\ q.text.sid = Name(q.sid) /\ Copy(q).sid = Name(q.sid)
                 /\ Copy(q).ver = q.text.ver /\ AtMost(q.text, Copy(q))
                 /\ raw'[q.sid] # None => AtMost(raw'[q.sid], Copy(q))
                 /\ q.backup = None
      <3>1. q = o /\ Free(o.sid)'
        BY <1>0, <2>1
      <3>2. o.text.sid = Name(o.sid) /\ (raw[o.sid] # None => AtMost(raw[o.sid], o.text))
        BY <2>0, <3>1
      <3>3. AtMost(o.text, o.text)
        BY <1>0, AtMostOrder
      <3> QED
        BY <1>0, <1>1, <3>1, <3>2, <3>3
    <2> QED
      BY <2>1 DEF CopiesFollow
  <1>13. RawIsBehind' /\ OneText'
    <2>1. RawIsBehind'
      BY <1>0, <1>1, <1>2, NoOperations DEF IInvText, RawIsBehind
    <2>2. Swapped \subseteq Swapped'
      BY <1>1 DEF Swapped
    <2>3. OneText'
      BY <1>1, <1>2, <2>2 DEF IInvText, OneText
    <2> QED
      BY <2>1, <2>3
  <1>14. RunShape'
    <2>0. RunShape
      BY DEF IInvText
    <2>1. op'.stage = None /\ op'.backup = None /\ op'.text = o.text /\ op'.file = f /\ src' = src
      BY <1>0, <1>1
    <2>2. \A j \in todo' : Files[j] # f
      <3>1. IsInjective(Files) /\ todo \subseteq DOMAIN Files
        BY <1>0 DEF IInvText, TypeOK
      <3> QED
        BY <1>1, <3>1, OnePlace
    <2>3. DOMAIN batch' = {} /\ DOMAIN promoting' = {}
      BY <1>0, <1>1
    <2>4. \A g \in gc' : g.at = "raw" => g.sid \in purged'
      BY <1>1, <2>0 DEF RunShape
    <2>5. \A q \in Pending', j \in todo' : q.file # Files[j]
      BY <1>0, <2>2
    <2> QED
      BY <1>0, <2>1, <2>3, <2>4, <2>5 DEF RunShape
  <1> QED
    BY <1>1, <1>4, <1>5, <1>6, <1>7, <1>8, <1>9, <1>10, <1>11, <1>12, <1>13, <1>14 DEF IInvText, ResumeFollows

LEMMA InitText == ASSUME Init, IsInjective(Files) PROVE IInvText
  <1>1. TypeInv
    BY InitTypes
  <1>2. /\ pc = "idle" /\ batch = <<>> /\ promoting = <<>> /\ gc = {} /\ writes = 0 /\ resume = None
        /\ \A s \in Sids : db[s] = None /\ raw[s] = None /\ idx[s] = None
        /\ \A f \in Paths : src[f] # None => src[f].ver <= 2 /\ src[f].sid \notin Paths
    BY FilesAssumption DEF Init
  <1>3. /\ Uncommitted = {} /\ Pending = {} /\ ToSet(promoting) = {} /\ DOMAIN batch = {} /\ DOMAIN promoting = {}
        /\ \A s \in Sids : ~Stored(s) /\ DbItems(s) = {}
    BY <1>2, NoOperations DEF Uncommitted, Pending, Stored, DbItems
  <1>4. \A f \in Paths, s \in Sids : ~Owns(f, s)
    BY <1>2, <1>3, Constants DEF Owns
  <1>5. VersionsCount
    <2>1. \A f \in Paths : src[f] # None => src[f].ver < writes + 3
      BY <1>1, <1>2, KindsOf DEF Kinds, TypeInv
    <2> QED
      BY <1>2, <1>3, <2>1 DEF VersionsCount
  <1>6. NamesAgree
    BY <1>2, <1>4 DEF NamesAgree
  <1>7. MovedAlone /\ FileIsAhead
    BY <1>4 DEF MovedAlone, FileIsAhead
  <1>8. IndexKnows
    BY <1>2 DEF IndexKnows
  <1>9. OthersAreNewer /\ WritesOneText /\ CopiesFollow
    BY <1>3 DEF OthersAreNewer, WritesOneText, CopiesFollow
  <1>10. OneEach
    BY <1>2, <1>3 DEF OneEach
  <1>11. RawIsBehind
    BY <1>2, <1>3 DEF RawIsBehind
  <1>12. RunShape
    BY <1>2, <1>3 DEF RunShape
  <1>13. OneText /\ ResumeFollows
    BY <1>2, <1>3 DEF OneText, ResumeFollows
  <1> QED
    BY <1>1, <1>5, <1>6, <1>7, <1>8, <1>9, <1>10, <1>11, <1>12, <1>13 DEF IInvText

LEMMA RestsLoses == ASSUME IInvText, UNCHANGED vars PROVE Loses /\ IndexKnows'
  <1>0. /\ TypeOK /\ UNCHANGED <<src, db, raw, pc, todo, idx, resume, op, batch, promoting, gc, writes, purged, raced>>
    BY DEF IInvText, TypeInv, vars, importVars, budgets, history
  <1>1. Loses
    BY <1>0, SamePromoting DEF Loses
  <1>2. IndexKnows'
    <2>1. CASE pc \in {"scan", "stage", "commit", "promote"}
      BY <1>0, <1>1, <2>1, SamePromoting, LosesIndex
    <2>2. CASE pc \notin {"scan", "stage", "commit", "promote"}
      BY <1>0, <2>2 DEF IndexKnows
    <2> QED
      BY <2>1, <2>2
  <1> QED
    BY <1>1, <1>2

LEMMA ScanKeeps == ASSUME IInvText, ScanFile, TypeInv' PROVE IInvText'
  <1>1. TypeOK
    BY DEF IInvText, TypeInv
  <1>2. PICK i \in todo : \E l : ScanStep(i, l)
    BY <1>1, ScanSteps
  <1>3. PICK l : ScanStep(i, l)
    BY <1>2
  <1>4. CASE l.do # "queue"
    BY <1>3, <1>4, PassKeeps, LosesKept
  <1>5. CASE l.do = "queue" /\ resume = None
    <2>1. PICK p : Queues(i, l.op, Files[i], p)
      BY <1>3, <1>5, ScanQueues
    <2> QED
      BY <2>1, QueueKeeps
  <1>6. CASE l.do = "queue" /\ resume # None
    <2>1. PICK o : Resumes(i, o, Files[i])
      BY <1>3, <1>6, ScanResumes
    <2> QED
      BY <2>1, ResumedKeeps
  <1> QED
    BY <1>4, <1>5, <1>6

LEMMA WriteKeeps == ASSUME IInvText, WriteChatImportBatch, TypeInv' PROVE IInvText'
  <1>1. \/ FoldLeft(writeOp, db, batch) # None /\ db' = FoldLeft(writeOp, db, batch) /\ promoting' = batch /\ pc' = "promote"
        \/ UNCHANGED <<db, promoting>> /\ pc' = "end" /\ resume' = None
    BY DEF WriteChatImportBatch
  <1>2. CASE FoldLeft(writeOp, db, batch) # None /\ db' = FoldLeft(writeOp, db, batch) /\ promoting' = batch /\ pc' = "promote"
    <2>1. Committed /\ Landed
      BY <1>2, WriteLands
    <2> QED
      BY <2>1, CommitKeeps
  <1>3. CASE UNCHANGED <<db, promoting>> /\ pc' = "end" /\ resume' = None
    BY <1>3, WriteFailsKeeps, LosesKept
  <1> QED
    BY <1>1, <1>2, <1>3

LEMMA TextKept == ASSUME IInvText, [Next]_vars PROVE IInvText'
  <1>0. TypeInv'
    BY TypesKept DEF IInvText
  <1>1. CASE UNCHANGED vars
    BY <1>0, <1>1, RestsLoses, LosesKept
  <1>2. CASE StartImport \/ StartImportFails \/ NotListed
    BY <1>0, <1>2, StartKeeps, NoStartKeeps, NotListedKeeps, LosesKept
  <1>3. CASE ScanFile
    BY <1>0, <1>3, ScanKeeps
  <1>4. CASE StageFile
    BY <1>0, <1>4, StageKeeps, MissingKeeps, LosesKept
  <1>5. CASE EndOfFiles \/ RunChatImportBulkMode \/ BulkModeFails \/ Crash
    BY <1>0, <1>5, EndOfFilesKeeps, EndKeeps, CrashKeeps, LosesKept
  <1>6. CASE WriteChatImportBatch
    BY <1>0, <1>6, WriteKeeps
  <1>7. CASE promoteBackup \/ promoteRename \/ promoteFails
    BY <1>0, <1>7, BackupKeeps, RenameKeeps, FailsKeeps, LosesKept
  <1>8. CASE AgentWrites
    BY <1>0, <1>8, AgentWritesKeeps
  <1>9. CASE AgentRemoves
    BY <1>0, <1>9, RemovesKeeps, LosesKept
  <1>10. CASE \E s \in Sids : User(s) \/ GCRow(s) \/ GCRaw(s)
    BY <1>0, <1>10, UserKeeps, CollectKeeps, LosesKept
  <1> QED
    BY <1>1, <1>2, <1>3, <1>4, <1>5, <1>6, <1>7, <1>8, <1>9, <1>10 DEF Next, ImportStep

\* The stored items of a chat are the first lines of one text, however appends,
\* replacements, promotions, failures, crashes and the agents' writes interleave,
\* for any files, sessions, batch size and number of faults, in imports that list
\* no path twice (two that did are chat.go:702-706, see AppendedOnce).
THEOREM OneTextHolds == IsInjective(Files) => (Spec => []OneText)
  <1> SUFFICES ASSUME IsInjective(Files) PROVE Spec => []OneText
    OBVIOUS
  <1>0. Init => IInvText
    BY InitText
  <1>1. Spec => []IInvText
    BY <1>0, TextKept, PTL DEF Spec
  <1>2. IInvText => OneText
    BY DEF IInvText
  <1> QED
    BY <1>1, <1>2, PTL

-----------------------------------------------------------------------------
(* What --delete-source gave up is kept *)

LEMMA CoveredOn ==
    ASSUME NEW c \in Content, NEW K, NEW L, K \subseteq Content, L \subseteq Content,
           Covered(c, K), \A k \in K : k.sid = c.sid => Covered(k, L)
    PROVE  Covered(c, L)
  <1>1. PICK k \in K : k.sid = c.sid /\ AtMost(c, k)
    BY DEF Covered
  <1>2. PICK m \in L : m.sid = k.sid /\ AtMost(k, m)
    BY <1>1 DEF Covered
  <1>3. AtMost(c, m)
    BY <1>1, <1>2, AtMostOrder
  <1> QED
    BY <1>1, <1>2, <1>3 DEF Covered

LEMMA CoveredByIt ==
    ASSUME NEW K, NEW c \in K, c \in Content
    PROVE  Covered(c, K)
  BY AtMostOrder DEF Covered

LEMMA CleanBefore == ASSUME purged \subseteq purged', raced \subseteq raced', Clean' PROVE Clean
  BY DEF Clean, Swapped

LEMMA CleanIsFree == ASSUME Clean PROVE \A s : Free(s)
  BY DEF Clean, Free

\* It is enough to say where each copy and each file went.
LEMMA CoverCarried ==
    ASSUME IInvKept, purged \subseteq purged', raced \subseteq raced', discarded \subseteq discarded',
           Clean' => \A k \in Copies \cup Others : k.sid \notin discarded' => Covered(k, Copies' \cup Others'),
           Clean' /\ pc' \notin {"idle", "end"} => \A k \in Copies : k.sid \notin discarded' => Covered(k, Copies'),
           Clean' /\ pc' \notin {"idle", "end"} =>
               \A c \in seen' : c.sid \notin discarded' => (c \in seen /\ pc \notin {"idle", "end"}) \/ Covered(c, Copies'),
           Clean' => \A c \in reclaimed' : c.sid \notin discarded' => c \in reclaimed \/ Covered(c, Copies' \cup Others')
    PROVE  SeenIsCopied' /\ ReclaimedIsCovered'
  <1>0. /\ seen \subseteq Content /\ reclaimed \subseteq Content
        /\ Copies \subseteq Content /\ Others \subseteq Content /\ Copies' \subseteq Content /\ Others' \subseteq Content
    BY DEF IInvKept, IInvText, TypeInv, TypeOK, Copies, Others
  <1>1. ASSUME Clean', pc' \notin {"idle", "end"}, NEW c \in seen', c.sid \notin discarded'
        PROVE  Covered(c, Copies')
    <2>1. CASE c \in seen /\ pc \notin {"idle", "end"}
      <3>1. Covered(c, Copies)
        BY <1>1, <2>1, CleanBefore DEF IInvKept, SeenIsCopied
      <3>2. \A k \in Copies : k.sid = c.sid => Covered(k, Copies')
        BY <1>1
      <3> QED
        BY <1>0, <2>1, <3>1, <3>2, CoveredOn
    <2> QED
      BY <1>1, <2>1
  <1>2. ASSUME Clean', NEW c \in reclaimed', c.sid \notin discarded'
        PROVE  Covered(c, Copies' \cup Others')
    <2>1. CASE c \in reclaimed
      <3>1. Covered(c, Copies \cup Others)
        BY <1>2, <2>1, CleanBefore DEF IInvKept, ReclaimedIsCovered
      <3>2. \A k \in Copies \cup Others : k.sid = c.sid => Covered(k, Copies' \cup Others')
        BY <1>2
      <3>3. Copies \cup Others \subseteq Content /\ Copies' \cup Others' \subseteq Content
        BY <1>0
      <3> QED
        BY <1>0, <2>1, <3>1, <3>2, <3>3, CoveredOn
    <2> QED
      BY <1>2, <2>1
  <1>3. SeenIsCopied'
    BY <1>1 DEF SeenIsCopied
  <1>4. ReclaimedIsCovered'
    BY <1>2 DEF ReclaimedIsCovered
  <1> QED
    BY <1>3, <1>4

\* The step leaves the copies, and the files or what they grow from; operations
\* stay pending, or all are dropped at the end of a run.
Carries ==
    /\ raw' = raw /\ reclaimed' = reclaimed
    /\ purged \subseteq purged' /\ raced \subseteq raced' /\ discarded \subseteq discarded'
    /\ \A f \in Paths : \/ src'[f] = src[f]
                        \/ src[f].sid \in discarded'
                        \/ src'[f] \in Content /\ src'[f].sid = src[f].sid /\ AtMost(src[f], src'[f])
    /\ \A o \in Pending' : \E q \in Pending : /\ o.file = q.file /\ Copy(o) = Copy(q)
                                              /\ o.stage # None => q.stage # None
    /\ \/ \A o \in Pending : \E q \in Pending' : o.file = q.file /\ Copy(o) = Copy(q)
       \/ Pending' = {} /\ pc' \in {"idle", "end"}
    /\ Clean' /\ pc' \notin {"idle", "end"} =>
          \A c \in seen' : (c \in seen /\ pc \notin {"idle", "end"}) \/ (c \in Content /\ \E s \in Sids : raw[s] = c)

LEMMA CarriesKept ==
    ASSUME IInvKept, Carries PROVE SourceStays' /\ SeenIsCopied' /\ ReclaimedIsCovered'
  <1>a. \A o \in Pending' : \E q \in Pending : /\ o.file = q.file /\ Copy(o) = Copy(q)
                                               /\ o.stage # None => q.stage # None
    BY Zenon DEF Carries
  <1>0. /\ TypeOK /\ Kinds
        /\ Copies \subseteq Content /\ Others \subseteq Content /\ Copies' \subseteq Content /\ Others' \subseteq Content
    BY KindsOf DEF IInvKept, IInvText, TypeInv, Copies, Others
  <1>1. ASSUME Clean', NEW o \in Pending', Copy(o).sid \notin discarded'
        PROVE  src'[o.file] # None /\ src'[o.file].sid = Copy(o).sid /\ AtMost(Copy(o), src'[o.file])
    <2>1. PICK q \in Pending : o.file = q.file /\ Copy(o) = Copy(q)
      BY <1>a, <1>1
    <2>2. src[q.file] # None /\ src[q.file].sid = Copy(q).sid /\ AtMost(Copy(q), src[q.file])
      BY <1>1, <2>1, CleanBefore DEF IInvKept, SourceStays, Carries
    <2>3. q.file \in Paths /\ Copy(q) \in Content /\ src[q.file] \in Content
      BY <1>0, <2>2 DEF Kinds
    <2>4. CASE src'[q.file] = src[q.file]
      BY <2>1, <2>2, <2>4
    <2>5. CASE src'[q.file] \in Content /\ src'[q.file].sid = src[q.file].sid /\ AtMost(src[q.file], src'[q.file])
      <3>1. AtMost(Copy(q), src'[q.file])
        BY <2>2, <2>3, <2>5, AtMostOrder
      <3> QED
        BY <2>1, <2>2, <2>5, <3>1, Constants
    <2> QED
      BY <1>1, <2>1, <2>2, <2>3, <2>4, <2>5 DEF Carries
  <1>2. ASSUME NEW k \in Others, k.sid \notin discarded' PROVE Covered(k, Others')
    <2>1. PICK f \in Paths : src[f] = k /\ \A o \in Pending : o.stage # None => o.file # f
      BY DEF Others
    <2>2. k \in Content /\ \A o \in Pending' : o.stage # None => o.file # f
      <3>1. k \in Content
        BY <1>0, <1>2
      <3>2. ASSUME NEW o \in Pending', o.stage # None PROVE o.file # f
        BY <1>a, <2>1, <3>2
      <3> QED
        BY <3>1, <3>2
    <2>3. CASE src'[f] = src[f]
      BY <2>1, <2>2, <2>3, CoveredByIt DEF Others
    <2>4. CASE src'[f] \in Content /\ src'[f].sid = src[f].sid /\ AtMost(src[f], src'[f])
      <3>1. src'[f] \in Others'
        BY <2>1, <2>2, <2>4 DEF Others
      <3> QED
        BY <2>1, <2>4, <3>1 DEF Covered
    <2> QED
      BY <1>2, <2>1, <2>3, <2>4 DEF Carries
  <1>3. ASSUME NEW k \in Copies, \A o \in Pending : \E q \in Pending' : o.file = q.file /\ Copy(o) = Copy(q)
        PROVE  Covered(k, Copies')
    <2>1. k \in Copies' /\ k \in Content
      BY <1>0, <1>3 DEF Copies, Carries
    <2> QED
      BY <2>1, CoveredByIt
  <1>4. ASSUME NEW k \in Copies, Clean', k.sid \notin discarded', Pending' = {}
        PROVE  Covered(k, Copies' \cup Others')
    <2>1. CASE \E s \in Sids : raw[s] = k
      <3>1. k \in Copies' /\ k \in Content
        BY <1>0, <2>1 DEF Copies, Carries
      <3> QED
        BY <3>1, CoveredByIt
    <2>2. CASE \E o \in Pending : Copy(o) = k
      <3>1. PICK o \in Pending : Copy(o) = k
        BY <2>2
      <3>2. src[o.file] # None /\ src[o.file].sid = k.sid /\ AtMost(k, src[o.file])
        BY <1>4, <3>1, CleanBefore DEF IInvKept, SourceStays, Carries
      <3>3. k \in Content /\ o.file \in Paths /\ src[o.file] \in Content
        BY <1>0, <3>1, <3>2 DEF Kinds
      <3>4. CASE src'[o.file] = src[o.file]
        <4>1. src[o.file] \in Others'
          BY <1>4, <3>3, <3>4 DEF Others
        <4> QED
          BY <3>2, <4>1 DEF Covered
      <3>5. CASE src'[o.file] \in Content /\ src'[o.file].sid = src[o.file].sid /\ AtMost(src[o.file], src'[o.file])
        <4>1. src'[o.file] \in Others'
          BY <1>4, <3>3, <3>5 DEF Others
        <4>2. AtMost(k, src'[o.file])
          BY <3>2, <3>3, <3>5, AtMostOrder
        <4> QED
          BY <3>2, <3>5, <4>1, <4>2 DEF Covered
      <3> QED
        BY <1>4, <3>2, <3>3, <3>4, <3>5 DEF Carries
    <2> QED
      BY <2>1, <2>2 DEF Copies
  <1>5. /\ \A k \in Others : k.sid \notin discarded' => Covered(k, Copies' \cup Others')
        /\ Clean' => \A k \in Copies : k.sid \notin discarded' => Covered(k, Copies' \cup Others')
        /\ Clean' /\ pc' \notin {"idle", "end"} => \A k \in Copies : k.sid \notin discarded' => Covered(k, Copies')
    BY <1>2, <1>3, <1>4 DEF Covered, Carries
  <1>6. ASSUME Clean', pc' \notin {"idle", "end"}, NEW c \in seen'
        PROVE  (c \in seen /\ pc \notin {"idle", "end"}) \/ Covered(c, Copies')
    <2>1. CASE c \in Content /\ \E s \in Sids : raw[s] = c
      <3>1. c \in Copies'
        BY <2>1 DEF Copies, Carries
      <3> QED
        BY <2>1, <3>1, CoveredByIt
    <2> QED
      BY <1>6, <2>1 DEF Carries
  <1>7. SeenIsCopied' /\ ReclaimedIsCovered'
    BY <1>5, <1>6, CoverCarried DEF Carries
  <1>8. SourceStays'
    BY <1>1 DEF SourceStays
  <1> QED
    BY <1>7, <1>8

\* The pending operations are the same.
LEMMA SamePending ==
    ASSUME UNCHANGED <<batch, promoting, op>>, pc' = "stage" <=> pc = "stage"
    PROVE  Pending' = Pending
  BY DEF Pending, Uncommitted

\* Steps that touch no copy and no file.
LEMMA CarriesBy ==
    ASSUME UNCHANGED <<src, raw, reclaimed, discarded>>, purged \subseteq purged', raced \subseteq raced',
           Pending' = Pending \/ (Pending' = {} /\ pc' \in {"idle", "end"}),
           Clean' /\ pc' \notin {"idle", "end"} =>
              \A c \in seen' : (c \in seen /\ pc \notin {"idle", "end"}) \/ (c \in Content /\ \E s \in Sids : raw[s] = c)
    PROVE  Carries
  BY DEF Carries

LEMMA RunCarries ==
    ASSUME IInvText, \/ StartImport \/ StartImportFails \/ NotListed \/ EndOfFiles
                     \/ RunChatImportBulkMode \/ BulkModeFails \/ Crash
    PROVE  Carries
  <1>1. CASE StartImport
    <2>1. /\ UNCHANGED <<src, raw, reclaimed, discarded, purged, raced, batch, promoting, op>>
          /\ pc = "idle" /\ pc' = "scan" /\ seen' = {}
      BY <1>1 DEF StartImport, history
    <2> QED
      BY <2>1, SamePending, CarriesBy
  <1>2. CASE EndOfFiles
    <2>1. /\ UNCHANGED <<src, raw, reclaimed, discarded, purged, raced, batch, promoting, op, seen>>
          /\ pc = "scan" /\ pc' \in {"end", "commit"}
      BY <1>2 DEF EndOfFiles, history
    <2> QED
      BY <2>1, SamePending, CarriesBy
  <1>3. CASE RunChatImportBulkMode \/ BulkModeFails
    <2>1. /\ UNCHANGED <<src, raw, reclaimed, discarded, purged, raced, batch, promoting, op>>
          /\ pc = "end" /\ pc' = "idle"
      BY <1>3 DEF RunChatImportBulkMode, BulkModeFails, Reset
    <2> QED
      BY <2>1, SamePending, CarriesBy
  <1>4. CASE Crash
    <2>1. /\ UNCHANGED <<src, raw, reclaimed, discarded, purged, raced>>
          /\ pc' = "idle" /\ batch' = <<>> /\ promoting' = <<>>
      BY <1>4 DEF Crash, Reset
    <2>2. Pending' = {}
      BY <2>1, NoOperations DEF Pending, Uncommitted
    <2> QED
      BY <2>1, <2>2, CarriesBy
  <1>5. CASE StartImportFails \/ NotListed
    <2>1. UNCHANGED <<src, raw, reclaimed, discarded, purged, raced, batch, promoting, op, seen, pc>>
      BY <1>5 DEF StartImportFails, NotListed, history
    <2> QED
      BY <2>1, SamePending, CarriesBy
  <1> QED
    BY <1>1, <1>2, <1>3, <1>4, <1>5

LEMMA RestCarries == ASSUME UNCHANGED vars PROVE Carries
  <1>1. UNCHANGED <<src, raw, reclaimed, discarded, purged, raced, batch, promoting, op, seen, pc>>
    BY DEF vars, importVars, history
  <1> QED
    BY <1>1, SamePending, CarriesBy

\* A scan step that neither queues nor removes a file.  A flush before an append
\* is for a session that counts no more.
LEMMA PassCarries ==
    ASSUME IInvText, IInvText', NEW i, NEW l, ScanStep(i, l), l.do # "queue", src' = src, reclaimed' = reclaimed
    PROVE  Carries
  <1> DEFINE f == Files[i]
  <1>0. /\ TypeOK /\ f \in Paths /\ pc = "scan" /\ promoting = <<>>
        /\ UNCHANGED <<raw, promoting, purged, raced, discarded>>
        /\ l.do \in {"skip", "reclaim", "flush", "torn", "mismatch", "missing"}
        /\ batch' = (IF pc' = "end" THEN <<>> ELSE batch)
        /\ seen' = (IF l.see THEN seen \cup {src[f]} ELSE seen)
        /\ src[f] = None => l.do = "missing" /\ ~l.see
        /\ resume' = l.resume
    BY DEF IInvText, TypeInv, TypeOK, ScanStep, ScanRight
  <1>1. /\ pc' \in {"scan", "commit", "end"}
        /\ pc' # "end" => l.do \in {"skip", "reclaim", "flush"}
    BY <1>0 DEF ScanStep
  <1>2. Pending' = Pending \/ (Pending' = {} /\ pc' \in {"idle", "end"})
    BY <1>0, <1>1, NoOperations DEF Pending, Uncommitted
  <1>3. ASSUME Clean', pc' \notin {"idle", "end"}, NEW c \in seen', c \notin seen
        PROVE  c \in Content /\ \E s \in Sids : raw[s] = c
    <2>1. l.see /\ l.do \in {"skip", "reclaim", "flush"} /\ c = src[f] /\ src[f] # None
      BY <1>0, <1>1, <1>3
    <2>2. ScanRight(l, f)
      BY DEF ScanStep
    <2>3. LookRight(l, f)
      BY <2>1, <2>2 DEF ScanRight, AfterRight
    <2>4. l.do # "flush"
      <3>1. ASSUME l.do = "flush" PROVE FALSE
        <4>1. l.resume # None /\ l.resume.at = "append"
          BY <2>1, <2>3, <3>1, Constants DEF LookRight, FlushRight
        <4>2. resume'.sid \in purged' \cup Swapped'
          BY <1>0, <4>1 DEF IInvText, ResumeFollows, Free
        <4> QED
          BY <1>3, <4>2 DEF Clean
      <3> QED
        BY <3>1
    <2> QED
      BY <1>0, <2>1, <2>3, <2>4 DEF LookRight, TypeOK
  <1> QED
    BY <1>0, <1>2, <1>3, CarriesBy

LEMMA StageStops == ASSUME IInvText, StageFile, src[op.file] = None PROVE Carries
  <1>1. /\ UNCHANGED <<src, raw, reclaimed, discarded, purged, promoting>> /\ raced' = raced /\ batch' = <<>>
        /\ pc = "stage" /\ pc' = "end"
    BY DEF StageFile
  <1>2. promoting = <<>>
    BY <1>1 DEF IInvText, TypeInv, TypeOK
  <1>3. Pending' = {}
    BY <1>1, <1>2, NoOperations DEF Pending, Uncommitted
  <1> QED
    BY <1>1, <1>3, CarriesBy

LEMMA WriteCarries == ASSUME IInvText, WriteChatImportBatch PROVE Carries
  <1>1. /\ UNCHANGED <<src, raw, reclaimed, discarded, purged, raced, seen>> /\ batch' = <<>> /\ pc = "commit"
        /\ \/ promoting' = batch /\ pc' = "promote"
           \/ promoting' = promoting /\ pc' = "end"
    BY DEF WriteChatImportBatch, history
  <1>2. promoting = <<>>
    BY <1>1 DEF IInvText, TypeInv, TypeOK
  <1>3. Pending' = Pending \/ (Pending' = {} /\ pc' \in {"idle", "end"})
    BY <1>1, <1>2, NoOperations DEF Pending, Uncommitted
  <1> QED
    BY <1>1, <1>3, CarriesBy

LEMMA AgentCarries == ASSUME IInvText, AgentWrites \/ AgentRemoves PROVE Carries
  <1>0. /\ TypeOK /\ Kinds
        /\ UNCHANGED <<db, raw, idx, op, batch, promoting, pc, purged, raced, reclaimed, seen>>
        /\ discarded \subseteq discarded'
    BY KindsOf DEF IInvText, TypeInv, AgentWrites, AgentRemoves, importVars
  <1>1. Pending' = Pending
    BY <1>0, SamePending
  <1>2. ASSUME NEW f \in Paths
        PROVE  \/ src'[f] = src[f]
               \/ src[f].sid \in discarded'
               \/ src'[f] \in Content /\ src'[f].sid = src[f].sid /\ AtMost(src[f], src'[f])
    <2>1. CASE AgentRemoves
      <3>1. PICK g \in Paths : src' = [src EXCEPT ![g] = None] /\ discarded' = discarded \cup {src[g].sid}
        BY <2>1 DEF AgentRemoves
      <3> QED
        BY <1>0, <3>1 DEF TypeOK
    <2>2. CASE AgentWrites
      <3>1. PICK g \in Paths : \E x \in NextContents(g) :
               /\ src' = [src EXCEPT ![g] = x]
               /\ discarded' = IF x.sid = src[g].sid THEN discarded ELSE discarded \cup {src[g].sid}
        BY <2>2 DEF AgentWrites
      <3>2. PICK x \in NextContents(g) :
               /\ src' = [src EXCEPT ![g] = x]
               /\ discarded' = IF x.sid = src[g].sid THEN discarded ELSE discarded \cup {src[g].sid}
        BY <3>1
      <3>3. /\ src[g] \in Content /\ x \in Content
            /\ \/ x.sid = src[g].sid /\ x.ver = src[g].ver /\ src[g].size < x.size
               \/ x.ver = writes + 3
        <4>1. writes < MaxWrites
          BY <2>2 DEF AgentWrites
        <4> QED
          BY <1>0, <4>1, WrittenContents
      <3>4. AtMost(src[g], x)
        <4>1. src[g].ver < writes + 3
          BY <3>3, Constants DEF IInvText, VersionsCount
        <4> QED
          BY <3>3, <4>1, ContentFields DEF AtMost
      <3>5. src'[g] = x /\ \A h \in Paths : h # g => src'[h] = src[h]
        BY <1>0, <3>2 DEF TypeOK
      <3> QED
        BY <3>2, <3>3, <3>4, <3>5
    <2> QED
      BY <2>1, <2>2
  <1>3. \A o \in Pending : \E q \in Pending : o.file = q.file /\ Copy(o) = Copy(q)
    OBVIOUS
  <1>4. pc' \notin {"idle", "end"} =>
          \A c \in seen' : (c \in seen /\ pc \notin {"idle", "end"}) \/ (c \in Content /\ \E s \in Sids : raw[s] = c)
    BY <1>0
  <1> QED
    BY <1>0, <1>1, <1>2, <1>3, <1>4 DEF Carries

LEMMA UserCarries == ASSUME NEW s \in Sids, User(s) PROVE Carries
  <1>1. UNCHANGED <<src, raw, reclaimed, discarded, purged, raced, batch, promoting, op, seen, pc>>
    BY DEF User, importVars, history
  <1> QED
    BY <1>1, SamePending, CarriesBy

\* A chat that gc deleted is left out.
LEMMA PurgedKept ==
    ASSUME purged' # {} PROVE SourceStays' /\ SeenIsCopied' /\ ReclaimedIsCovered'
  BY DEF Clean, SourceStays, SeenIsCopied, ReclaimedIsCovered

LEMMA CollectCovers ==
    ASSUME IInvText, NEW s \in Sids, GCRow(s) \/ GCRaw(s)
    PROVE  SourceStays' /\ SeenIsCopied' /\ ReclaimedIsCovered'
  <1>1. CASE GCRow(s)
    <2>1. purged' # {}
      BY <1>1 DEF GCRow
    <2> QED
      BY <2>1, PurgedKept
  <1>2. CASE GCRaw(s)
    <2>1. [sid |-> s, at |-> "raw"] \in gc /\ purged' = purged
      BY <1>2 DEF GCRaw, history
    <2>2. s \in purged
      BY <2>1 DEF IInvText, RunShape
    <2> QED
      BY <2>1, <2>2, PurgedKept
  <1> QED
    BY <1>1, <1>2

\* The file is removed: what it holds is a copy.
LEMMA ReclaimCovers ==
    ASSUME IInvKept, NEW i, NEW l, ScanStep(i, l), l.do = "reclaim",
           del
    PROVE  SourceStays' /\ SeenIsCopied' /\ ReclaimedIsCovered'
  <1> DEFINE f == Files[i]
             c == src[f]
  <1>0. /\ TypeOK /\ Kinds /\ f \in Paths /\ i \in todo /\ pc = "scan" /\ pc' = "scan"
        /\ UNCHANGED <<raw, promoting, purged, raced, discarded>> /\ op' = None
        /\ src' = [src EXCEPT ![f] = None] /\ reclaimed' = reclaimed \cup {c}
        /\ seen' \in {seen, seen \cup {c}} /\ batch' = batch /\ c \in Content
        /\ c \in seen \/ \E s \in Sids : raw[s] = c
    <2>1. TypeOK /\ Kinds
      BY KindsOf DEF IInvKept, IInvText, TypeInv
    <2>2. /\ f \in Paths /\ i \in todo /\ pc = "scan" /\ ScanRight(l, f)
          /\ UNCHANGED <<raw, promoting, purged, raced, discarded>> /\ pc' = "scan" /\ op' = l.op
          /\ src' = [src EXCEPT ![f] = None] /\ reclaimed' = reclaimed \cup {c}
          /\ seen' \in {seen, seen \cup {c}}
      BY DEF ScanStep
    <2>3. l.op = None /\ c # None /\ (c \in seen \/ \E s \in Sids : raw[s] = c)
      BY <2>2 DEF ScanRight, LookRight, AfterRight
    <2>4. batch' = batch
      BY <2>2 DEF ScanStep
    <2> QED
      BY <2>1, <2>2, <2>3, <2>4 DEF TypeOK
  <1> HIDE DEF c, f
  <1>1. /\ Pending' = Pending /\ Copies \subseteq Content /\ Others \subseteq Content
        /\ \A o \in Pending : o.file # f
    BY <1>0 DEF Pending, Uncommitted, IInvKept, IInvText, RunShape, Copies, Others, f
  <1>2. Copies' = Copies
    BY <1>0, <1>1 DEF Copies
  <1>3. src'[f] = None /\ \A g \in Paths : g # f => src'[g] = src[g]
    BY <1>0 DEF TypeOK
  <1>4. ASSUME Clean', c.sid \notin discarded' PROVE Covered(c, Copies')
    <2>1. CASE c \in seen
      BY <1>0, <1>2, <1>4, <2>1, CleanBefore DEF IInvKept, SeenIsCopied
    <2>2. CASE \E s \in Sids : raw[s] = c
      <3>1. c \in Copies
        BY <1>0, <2>2 DEF Copies
      <3> QED
        BY <1>0, <1>2, <3>1, CoveredByIt
    <2> QED
      BY <1>0, <2>1, <2>2
  <1>5. \A k \in Copies : Covered(k, Copies')
    BY <1>1, <1>2, CoveredByIt
  <1>6. ASSUME Clean', NEW k \in Others, k.sid \notin discarded' PROVE Covered(k, Copies' \cup Others')
    <2>1. PICK g \in Paths : src[g] = k /\ \A o \in Pending : o.stage # None => o.file # g
      BY DEF Others
    <2>2. CASE g = f
      BY <1>4, <1>6, <2>1, <2>2 DEF c, Covered
    <2>3. CASE g # f
      <3>1. k \in Content /\ k \in Others'
        BY <1>1, <1>3, <2>1, <2>3 DEF Others
      <3> QED
        BY <3>1, CoveredByIt
    <2> QED
      BY <2>2, <2>3
  <1>7. /\ Clean' => \A k \in Copies \cup Others : k.sid \notin discarded' => Covered(k, Copies' \cup Others')
        /\ Clean' => \A x \in reclaimed' : x.sid \notin discarded' => x \in reclaimed \/ Covered(x, Copies' \cup Others')
        /\ Clean' => \A x \in seen' : x.sid \notin discarded' => x \in seen \/ Covered(x, Copies')
    BY <1>0, <1>4, <1>5, <1>6 DEF Covered
  <1>8. SeenIsCopied' /\ ReclaimedIsCovered'
    BY <1>0, <1>5, <1>7, CoverCarried
  <1>9. ASSUME Clean', NEW o \in Pending', Copy(o).sid \notin discarded'
        PROVE  src'[o.file] # None /\ src'[o.file].sid = Copy(o).sid /\ AtMost(Copy(o), src'[o.file])
    <2>1. o \in Pending /\ o.file # f /\ o.file \in Paths
      BY <1>0, <1>1 DEF Kinds
    <2>2. Clean
      BY <1>0, <1>9, CleanBefore
    <2>3. src[o.file] # None /\ src[o.file].sid = Copy(o).sid /\ AtMost(Copy(o), src[o.file])
      BY <1>0, <1>9, <2>1, <2>2 DEF IInvKept, SourceStays
    <2> QED
      BY <1>3, <2>1, <2>3
  <1> QED
    BY <1>8, <1>9 DEF SourceStays

\* A queued operation has the contents of its file.
LEMMA QueueCovers ==
    ASSUME IInvKept, NEW i, NEW o, NEW f, NEW p, Queues(i, o, f, p),
           UNCHANGED <<discarded, reclaimed>>, seen' \subseteq seen \cup {src[f]}
    PROVE  SourceStays' /\ SeenIsCopied' /\ ReclaimedIsCovered'
  <1>0. /\ f \in Paths /\ src[f] \in Content /\ o.file = f /\ Copy(o) = src[f] /\ Pending' = Pending \cup {o}
        /\ o.stage = None
        /\ TypeOK /\ Kinds /\ Copies \subseteq Content /\ Others \subseteq Content
    BY QueuedFacts DEF IInvKept, Copies, Others
  <1>1. pc = "scan" /\ pc' = "stage" /\ UNCHANGED <<src, raw, purged, raced>>
    BY DEF Queues
  <1>2. \A k \in Copies : k \in Copies'
    BY <1>0, <1>1 DEF Copies
  <1>3. src[f] \in Copies'
    BY <1>0 DEF Copies
  <1>4. ASSUME NEW k \in Others PROVE k \in Copies' \cup Others'
    <2>1. PICK g \in Paths : src[g] = k /\ \A q \in Pending : q.stage # None => q.file # g
      BY DEF Others
    <2> QED
      BY <1>0, <1>1, <2>1 DEF Others
  <1>5. /\ \A k \in Copies \cup Others : Covered(k, Copies' \cup Others')
        /\ \A k \in Copies : Covered(k, Copies')
        /\ Covered(src[f], Copies')
    BY <1>0, <1>2, <1>3, <1>4, CoveredByIt
  <1>6. SeenIsCopied' /\ ReclaimedIsCovered'
    BY <1>1, <1>5, CoverCarried
  <1>7. ASSUME Clean', NEW q \in Pending', Copy(q).sid \notin discarded'
        PROVE  src'[q.file] # None /\ src'[q.file].sid = Copy(q).sid /\ AtMost(Copy(q), src'[q.file])
    <2>1. CASE q = o
      BY <1>0, <1>1, <2>1, AtMostOrder, Constants
    <2>2. CASE q \in Pending
      BY <1>1, <1>7, <2>2, CleanBefore DEF IInvKept, SourceStays
    <2> QED
      BY <1>0, <1>7, <2>1, <2>2
  <1> QED
    BY <1>6, <1>7 DEF SourceStays

\* So has one that was left for later, or an older text of it.
LEMMA ResumeCovers ==
    ASSUME IInvKept, NEW i, NEW o, NEW f, Resumes(i, o, f), UNCHANGED <<seen, discarded, reclaimed>>
    PROVE  SourceStays' /\ SeenIsCopied' /\ ReclaimedIsCovered'
  <1>0. /\ f \in Paths /\ src[f] \in Content /\ o.file = f /\ Copy(o) = o.text /\ o.sid \in Sids
        /\ Pending = {} /\ Pending' = {o} /\ o.stage = None
        /\ Copies \subseteq Content /\ Others \subseteq Content
    BY ResumedFacts DEF IInvKept, Copies, Others
  <1>1. pc = "scan" /\ pc' = "stage" /\ UNCHANGED <<src, raw, purged>> /\ raced \subseteq raced'
    BY DEF Resumes
  <1>2. (\A k \in Copies : k \in Copies') /\ \A k \in Others : k \in Others'
    BY <1>0, <1>1 DEF Copies, Others
  <1>3. /\ \A k \in Copies \cup Others : Covered(k, Copies' \cup Others')
        /\ \A k \in Copies : Covered(k, Copies')
    BY <1>0, <1>2, CoveredByIt
  <1>4. SeenIsCopied' /\ ReclaimedIsCovered'
    BY <1>1, <1>3, CoverCarried
  <1>5. Clean' => src[f].sid = o.text.sid /\ AtMost(o.text, src[f])
    <2>1. Clean' => Free(o.sid)'
      BY DEF Clean, Free
    <2>2. Free(o.sid)' => src[f].sid = o.text.sid /\ AtMost(o.text, src[f])
      BY ResumedFree DEF IInvKept
    <2> QED
      BY <2>1, <2>2
  <1>6. SourceStays'
    BY <1>0, <1>1, <1>5, Constants DEF SourceStays
  <1> QED
    BY <1>4, <1>6

\* A staged copy is not behind what was parsed, or the whole text was replaced.
LEMMA StageCovers ==
    ASSUME IInvKept, StageFile, src[op.file] # None
    PROVE  SourceStays' /\ SeenIsCopied' /\ ReclaimedIsCovered'
  <1>1. PICK n : Copied(n)
    BY StageCopies DEF IInvKept
  <1> DEFINE c == src[op.file]
  <1>2. /\ Copy(n) = c /\ Copy(op) = op.text /\ n.file = op.file /\ c \in Content /\ op.text \in Content
        /\ Pending = ToSet(batch) \cup {op} /\ Pending' = ToSet(batch) \cup {n}
        /\ UNCHANGED <<src, raw, purged>> /\ raced \subseteq raced' /\ pc = "stage" /\ op.sid \in Sids
        /\ op.file \in Paths
    BY <1>1, OperationFields DEF Copied
  <1>3. UNCHANGED <<seen, discarded, reclaimed>>
    BY DEF StageFile
  <1>4. TypeOK /\ Kinds /\ Copies \subseteq Content /\ Others \subseteq Content
    BY KindsOf DEF IInvKept, IInvText, TypeInv, Copies, Others
  <1>5. ASSUME Clean' PROVE c.sid = op.text.sid /\ AtMost(op.text, c)
    <2>1. op.sid \notin purged' \cup Swapped'
      BY <1>5 DEF Clean
    <2>2. c.ver = op.text.ver
      BY <1>1, <2>1 DEF Copied
    <2>3. c.sid = op.text.sid /\ op.text.size <= c.size
      BY <1>2, <2>2 DEF IInvKept, IInvText, RunShape
    <2> QED
      BY <2>2, <2>3 DEF AtMost
  <1> HIDE DEF c
  <1>6. ASSUME Clean', NEW k \in Copies PROVE Covered(k, Copies')
    <2>1. CASE k = op.text
      <3>1. c \in Copies'
        BY <1>2 DEF Copies
      <3> QED
        BY <1>5, <1>6, <2>1, <3>1 DEF Covered
    <2>2. CASE k # op.text
      <3>1. k \in Content /\ ((\E s \in Sids : raw[s] = k) \/ \E o \in Pending' : Copy(o) = k)
        BY <1>2, <2>2 DEF Copies
      <3>2. k \in Copies'
        BY <1>2, <3>1 DEF Copies
      <3> QED
        BY <3>1, <3>2, CoveredByIt
    <2> QED
      BY <2>1, <2>2
  <1>7. \A k \in Others : k = c \/ k \in Others'
    <2>1. ASSUME NEW k \in Others, k # c PROVE k \in Others'
      <3>1. PICK g \in Paths : src[g] = k /\ \A o \in Pending : o.stage # None => o.file # g
        BY DEF Others
      <3>2. g # op.file
        BY <2>1, <3>1 DEF c
      <3> QED
        BY <1>2, <1>4, <3>1, <3>2 DEF Others
    <2> QED
      BY <2>1
  <1>8. \A k \in Others : Covered(k, Copies' \cup Others')
    <2>1. c \in Copies'
      BY <1>2 DEF Copies
    <2> QED
      BY <1>4, <1>7, <2>1, CoveredByIt
  <1>9. Clean' => \A k \in Copies \cup Others : Covered(k, Copies' \cup Others')
    BY <1>6, <1>8 DEF Covered
  <1>10. SeenIsCopied' /\ ReclaimedIsCovered'
    BY <1>2, <1>3, <1>6, <1>9, CoverCarried
  <1>11. ASSUME Clean', NEW o \in Pending', Copy(o).sid \notin discarded'
         PROVE  src'[o.file] # None /\ src'[o.file].sid = Copy(o).sid /\ AtMost(Copy(o), src'[o.file])
    <2>1. CASE o = n
      BY <1>2, <2>1, AtMostOrder, Constants DEF c
    <2>2. CASE o \in Pending
      BY <1>2, <1>3, <1>11, <2>2, CleanBefore DEF IInvKept, SourceStays
    <2> QED
      BY <1>2, <1>11, <2>1, <2>2
  <1> QED
    BY <1>10, <1>11 DEF SourceStays

\* An operation whose turn it is to be promoted.
LEMMA NextPromoted ==
    ASSUME IInvKept, pc = "promote", promoting # <<>>
    PROVE  LET o == Head(promoting) IN
           /\ o \in Pending /\ o \in Operation /\ o.stage \in Content /\ Copy(o) = o.stage /\ o.id \in Sids /\ o.file \in Paths
           /\ Pending = ToSet(promoting) /\ ToSet(promoting) = {o} \cup ToSet(Tail(promoting)) /\ batch = <<>>
           /\ Clean /\ raw[o.id] # None =>
                /\ raw[o.id].sid = o.stage.sid /\ AtMost(raw[o.id], o.stage)
           /\ \A q \in ToSet(Tail(promoting)) : q.file # o.file
  <1> DEFINE o == Head(promoting)
             t == Tail(promoting)
  <1>0. TypeOK /\ Kinds /\ promoting \in Seq(Operation) /\ batch = <<>>
    BY KindsOf DEF IInvKept, IInvText, TypeInv, TypeOK, BatchFits
  <1>1. /\ o = promoting[1] /\ 1 \in DOMAIN promoting /\ ToSet(promoting) = {o} \cup ToSet(t)
        /\ \A i \in DOMAIN t : i + 1 \in DOMAIN promoting /\ i + 1 # 1 /\ t[i] = promoting[i + 1]
    BY <1>0, HeadFirst
  <1>2. o \in Operation /\ o.stage \in Content
    BY <1>0, PromotedOperation
  <1>3. Pending = ToSet(promoting)
    BY <1>0, NoOperations DEF Pending, Uncommitted
  <1> HIDE DEF o, t
  <1>4. o \in Pending /\ o.id \in Sids /\ o.file \in Paths /\ Copy(o) = o.stage /\ o.sid \in Sids
    BY <1>0, <1>1, <1>2, <1>3, OperationFields DEF Kinds
  <1>5. ASSUME Clean, raw[o.id] # None PROVE raw[o.id].sid = o.stage.sid /\ AtMost(raw[o.id], o.stage)
    <2>1. o.id = o.sid
      BY <1>1, <1>5 DEF IInvKept, IInvText, OneEach, Clean
    <2>2. Free(o.sid)
      BY <1>5, CleanIsFree
    <2>3. raw[o.sid].sid = Name(o.sid)
      BY <1>4, <1>5, <2>1, <2>2 DEF IInvKept, IInvText, NamesAgree
    <2>4. Copy(o).sid = Name(o.sid) /\ AtMost(raw[o.sid], Copy(o))
      BY <1>4, <1>5, <2>1, <2>2 DEF IInvKept, IInvText, CopiesFollow
    <2> QED
      BY <1>4, <2>1, <2>3, <2>4
  <1>6. ASSUME NEW q \in ToSet(t) PROVE q.file # o.file
    <2>1. PICK i \in DOMAIN t : q = t[i]
      BY DEF ToSet
    <2> QED
      BY <1>1, <2>1 DEF IInvKept, IInvText, RunShape
  <1> QED
    BY <1>0, <1>1, <1>2, <1>3, <1>4, <1>5, <1>6 DEF o, t

\* The old managed copy moves away: the operation's copy is not behind it.
LEMMA BackupCovers ==
    ASSUME IInvKept, promoteBackup
    PROVE  SourceStays' /\ SeenIsCopied' /\ ReclaimedIsCovered'
  <1> DEFINE o == Head(promoting)
             b == [o EXCEPT !.backup = raw[o.id]]
             t == Tail(promoting)
  <1>0. /\ TypeOK /\ Kinds /\ promoting # <<>> /\ promoting \in Seq(Operation) /\ pc = "promote" /\ pc' = "promote"
        /\ UNCHANGED <<src, batch, purged, raced, discarded, reclaimed, seen>>
        /\ raw' = [raw EXCEPT ![o.id] = None] /\ promoting' = <<b>> \o t /\ raw[o.id] # None
        /\ Copies \subseteq Content /\ Others \subseteq Content
    BY KindsOf DEF IInvKept, IInvText, TypeInv, TypeOK, promoteBackup, history, Copies, Others
  <1>1. /\ o \in Pending /\ o \in Operation /\ o.stage \in Content /\ Copy(o) = o.stage /\ o.id \in Sids
        /\ Pending = ToSet(promoting) /\ ToSet(promoting) = {o} \cup ToSet(t) /\ batch = <<>>
        /\ Clean /\ raw[o.id] # None => raw[o.id].sid = o.stage.sid /\ AtMost(raw[o.id], o.stage)
    BY <1>0, NextPromoted
  <1>2. b \in Operation /\ b.file = o.file /\ Copy(b) = o.stage /\ o.stage # None
    <2>1. raw[o.id] \in Content
      BY <1>0, <1>1 DEF Kinds
    <2>2. b \in Operation /\ b.file = o.file /\ b.stage = o.stage
      BY <1>1, <2>1, BackedUp
    <2> HIDE DEF b, o
    <2> QED
      BY <1>1, <2>2, Constants DEF Copy
  <1> HIDE DEF b, o, t
  <1>3. ToSet(promoting') = {b} \cup ToSet(t)
    BY <1>0, <1>2, HeadReplaced DEF t
  <1>4. Pending' = {b} \cup ToSet(t) /\ Pending = {o} \cup ToSet(t)
    BY <1>0, <1>1, <1>3, NoOperations DEF Pending, Uncommitted
  <1>5. raw[o.id] # None /\ \A s \in Sids : s # o.id => raw'[s] = raw[s]
    BY <1>0 DEF TypeOK
  <1>6. /\ \A q \in Pending : \E r \in Pending' : q.file = r.file /\ Copy(q) = Copy(r)
        /\ \A q \in Pending' : \E r \in Pending : q.file = r.file /\ Copy(q) = Copy(r)
    BY <1>1, <1>2, <1>4
  <1>7. ASSUME Clean', NEW k \in Copies PROVE Covered(k, Copies')
    <2>1. CASE k = raw[o.id]
      <3>1. o.stage \in Copies'
        BY <1>1, <1>2, <1>4 DEF Copies
      <3>2. Clean
        BY <1>0, <1>7, CleanBefore
      <3> QED
        BY <1>1, <1>5, <2>1, <3>1, <3>2 DEF Covered
    <2>2. CASE k # raw[o.id]
      <3>1. k \in Content /\ ((\E s \in Sids : raw[s] = k) \/ \E q \in Pending : Copy(q) = k)
        BY DEF Copies
      <3>2. (\E s \in Sids : raw'[s] = k) \/ \E q \in Pending' : Copy(q) = k
        BY <1>5, <1>6, <2>2, <3>1
      <3>3. k \in Copies'
        BY <3>1, <3>2 DEF Copies
      <3> QED
        BY <3>1, <3>3, CoveredByIt
    <2> QED
      BY <2>1, <2>2
  <1>8. \A k \in Others : k \in Others'
    <2>1. src' = src
      BY <1>0
    <2>2. \A f : (\A q \in Pending : q.stage # None => q.file # f) => (\A q \in Pending' : q.stage # None => q.file # f)
      BY <1>2, <1>4
    <2> QED
      BY <2>1, <2>2 DEF Others
  <1>9. Clean' => \A k \in Copies \cup Others : Covered(k, Copies' \cup Others')
    <2>1. \A k \in Others : Covered(k, Others')
      BY <1>0, <1>8, CoveredByIt
    <2> QED
      BY <1>7, <2>1 DEF Covered
  <1>10. SeenIsCopied' /\ ReclaimedIsCovered'
    BY <1>0, <1>7, <1>9, CoverCarried
  <1>11. ASSUME Clean', NEW q \in Pending', Copy(q).sid \notin discarded'
         PROVE  src'[q.file] # None /\ src'[q.file].sid = Copy(q).sid /\ AtMost(Copy(q), src'[q.file])
    <2>1. PICK r \in Pending : q.file = r.file /\ Copy(q) = Copy(r)
      BY <1>6
    <2>2. Clean
      BY <1>0, <1>11, CleanBefore
    <2>3. src[r.file] # None /\ src[r.file].sid = Copy(r).sid /\ AtMost(Copy(r), src[r.file])
      BY <1>0, <1>11, <2>1, <2>2 DEF IInvKept, SourceStays
    <2> QED
      BY <1>0, <2>1, <2>3
  <1> QED
    BY <1>10, <1>11 DEF SourceStays

\* The copy becomes the managed raw file, and the source may go.
LEMMA RenameCovers ==
    ASSUME IInvKept, promoteRename
    PROVE  SourceStays' /\ SeenIsCopied' /\ ReclaimedIsCovered'
  <1> DEFINE o == Head(promoting)
             t == Tail(promoting)
  <1>0. /\ TypeOK /\ Kinds /\ promoting # <<>> /\ pc = "promote" /\ pc' \in {"promote", "scan"}
        /\ UNCHANGED <<batch, purged, raced, discarded, seen>>
        /\ Copies \subseteq Content /\ Others \subseteq Content
    BY KindsOf DEF IInvKept, IInvText, TypeInv, promoteRename, Copies, Others
  <1>1. /\ raw' = [raw EXCEPT ![o.id] = o.stage] /\ raw[o.id] = None
        /\ src' = (IF del THEN [src EXCEPT ![o.file] = None] ELSE src)
        /\ reclaimed' = (IF del THEN reclaimed \cup {o.stage} ELSE reclaimed)
        /\ promoting' = t
    BY Zenon DEF promoteRename
  <1>2. /\ o \in Pending /\ o.stage \in Content /\ Copy(o) = o.stage /\ o.id \in Sids /\ o.file \in Paths
        /\ Pending = ToSet(promoting) /\ ToSet(promoting) = {o} \cup ToSet(t) /\ batch = <<>>
        /\ \A q \in ToSet(t) : q.file # o.file
    BY <1>0, NextPromoted
  <1> HIDE DEF o, t
  <1>3. Pending' = ToSet(t) /\ Pending = {o} \cup ToSet(t)
    BY <1>0, <1>1, <1>2, NoOperations DEF Pending, Uncommitted
  <1>4. raw'[o.id] = o.stage /\ \A s \in Sids : s # o.id => raw'[s] = raw[s]
    BY <1>0, <1>1, <1>2 DEF TypeOK
  <1>5. \A f \in Paths : f # o.file => src'[f] = src[f]
    BY <1>0, <1>1 DEF TypeOK
  <1>6. ASSUME NEW k \in Copies PROVE k \in Copies'
    <2>1. k \in Content /\ ((\E s \in Sids : raw[s] = k) \/ \E q \in Pending : Copy(q) = k)
      BY DEF Copies
    <2>2. (\E s \in Sids : raw'[s] = k) \/ \E q \in Pending' : Copy(q) = k
      <3>1. k # None
        BY <2>1, Constants
      <3> QED
        BY <1>1, <1>2, <1>3, <1>4, <2>1, <3>1
    <2> QED
      BY <2>1, <2>2 DEF Copies
  <1>7. \A k \in Others : k \in Others'
    BY <1>2, <1>3, <1>5, Constants DEF Others
  <1>8. o.stage \in Copies'
    BY <1>2, <1>4 DEF Copies
  <1>9. /\ \A k \in Copies : Covered(k, Copies')
        /\ \A k \in Copies \cup Others : Covered(k, Copies' \cup Others')
        /\ \A c \in reclaimed' : c \in reclaimed \/ Covered(c, Copies' \cup Others')
    <2>1. \A k \in Copies : Covered(k, Copies')
      BY <1>0, <1>6, CoveredByIt
    <2>2. \A k \in Others : Covered(k, Others')
      BY <1>0, <1>7, CoveredByIt
    <2>3. Covered(o.stage, Copies')
      BY <1>2, <1>8, CoveredByIt
    <2>4. \A c \in reclaimed' : c \in reclaimed \/ c = o.stage
      BY <1>1
    <2> QED
      BY <2>1, <2>2, <2>3, <2>4 DEF Covered
  <1>10. SeenIsCopied' /\ ReclaimedIsCovered'
    BY <1>0, <1>9, CoverCarried
  <1>11. ASSUME Clean', NEW q \in Pending', Copy(q).sid \notin discarded'
         PROVE  src'[q.file] # None /\ src'[q.file].sid = Copy(q).sid /\ AtMost(Copy(q), src'[q.file])
    <2>1. q \in Pending /\ q.file # o.file /\ q.file \in Paths
      BY <1>0, <1>2, <1>3 DEF Kinds
    <2>2. Clean
      BY <1>0, <1>11, CleanBefore
    <2>3. src[q.file] # None /\ src[q.file].sid = Copy(q).sid /\ AtMost(Copy(q), src[q.file])
      BY <1>0, <1>11, <2>1, <2>2 DEF IInvKept, SourceStays
    <2> QED
      BY <1>5, <2>1, <2>3
  <1> QED
    BY <1>10, <1>11 DEF SourceStays

\* A promotion fails: the files of all dropped operations are still there.
LEMMA FailsCovers ==
    ASSUME IInvKept, promoteFails
    PROVE  SourceStays' /\ SeenIsCopied' /\ ReclaimedIsCovered'
  <1> DEFINE o == Head(promoting)
  <1>0. /\ TypeOK /\ Kinds /\ promoting # <<>> /\ pc = "promote" /\ pc' = "end" /\ promoting' = <<>>
        /\ UNCHANGED <<src, batch, purged, raced, discarded, reclaimed>>
        /\ raw' = (IF o.backup # None THEN [raw EXCEPT ![o.id] = o.backup] ELSE raw)
        /\ Copies \subseteq Content /\ Others \subseteq Content
    BY KindsOf DEF IInvKept, IInvText, TypeInv, promoteFails, history, Copies, Others
  <1>1. /\ o \in Pending /\ o.stage \in Content /\ Copy(o) = o.stage /\ o.id \in Sids /\ batch = <<>>
        /\ Clean /\ raw[o.id] # None => raw[o.id].sid = o.stage.sid /\ AtMost(raw[o.id], o.stage)
    BY <1>0, NextPromoted
  <1> HIDE DEF o
  <1>2. Pending' = {}
    BY <1>0, <1>1, NoOperations DEF Pending, Uncommitted
  <1>3. \A s \in Sids : s # o.id => raw'[s] = raw[s]
    BY <1>0 DEF TypeOK
  <1>4. ASSUME Clean', NEW q \in Pending, Copy(q).sid \notin discarded' PROVE Covered(Copy(q), Others')
    <2>1. src[q.file] # None /\ src[q.file].sid = Copy(q).sid /\ AtMost(Copy(q), src[q.file])
      <3>1. Clean
        BY <1>0, <1>4, CleanBefore
      <3> QED
        BY <1>0, <1>4, <3>1 DEF IInvKept, SourceStays
    <2>2. q.file \in Paths /\ src[q.file] \in Content
      BY <1>0, <2>1 DEF Kinds
    <2>3. src[q.file] \in Others'
      BY <1>0, <1>2, <2>2 DEF Others
    <2> QED
      BY <2>1, <2>3 DEF Covered
  <1>5. ASSUME Clean', NEW k \in Copies, k.sid \notin discarded' PROVE Covered(k, Copies' \cup Others')
    <2>0. k \in Content /\ k # None /\ ((\E s \in Sids : raw[s] = k) \/ \E q \in Pending : Copy(q) = k)
      BY Constants DEF Copies
    <2>1. CASE \E q \in Pending : Copy(q) = k
      BY <1>4, <1>5, <2>1 DEF Covered
    <2>2. CASE k = raw[o.id]
      <3>1. Clean
        BY <1>0, <1>5, CleanBefore
      <3>2. k.sid = o.stage.sid /\ AtMost(k, o.stage)
        BY <1>1, <2>0, <2>2, <3>1
      <3>3. PICK m \in Others' : m.sid = o.stage.sid /\ AtMost(o.stage, m)
        BY <1>1, <1>4, <1>5, <3>2 DEF Covered
      <3>4. m \in Content
        BY DEF Others
      <3>5. AtMost(k, m)
        BY <1>1, <2>0, <3>2, <3>3, <3>4, AtMostOrder
      <3> QED
        BY <3>2, <3>3, <3>5 DEF Covered
    <2>3. CASE \E s \in Sids : raw[s] = k /\ s # o.id
      <3>1. k \in Copies'
        BY <1>3, <2>0, <2>3 DEF Copies
      <3> QED
        BY <2>0, <3>1, CoveredByIt
    <2> QED
      BY <2>0, <2>1, <2>2, <2>3
  <1>6. \A k \in Others : Covered(k, Copies' \cup Others')
    <2>1. \A k \in Others : k \in Others'
      BY <1>0, <1>2 DEF Others
    <2> QED
      BY <1>0, <2>1, CoveredByIt
  <1>7. Clean' => \A k \in Copies \cup Others : k.sid \notin discarded' => Covered(k, Copies' \cup Others')
    BY <1>5, <1>6
  <1>8. SeenIsCopied' /\ ReclaimedIsCovered'
    BY <1>0, <1>7, CoverCarried
  <1>9. SourceStays'
    BY <1>2 DEF SourceStays
  <1> QED
    BY <1>8, <1>9

LEMMA ScanCovers ==
    ASSUME IInvKept, IInvText', ScanFile PROVE SourceStays' /\ SeenIsCopied' /\ ReclaimedIsCovered'
  <1>1. TypeOK
    BY DEF IInvKept, IInvText, TypeInv
  <1>2. PICK i \in todo : \E l : ScanStep(i, l)
    BY <1>1, ScanSteps
  <1>3. PICK l : ScanStep(i, l)
    BY <1>2
  <1>4. /\ src' = (IF l.do = "reclaim" /\ del THEN [src EXCEPT ![Files[i]] = None] ELSE src)
        /\ reclaimed' = (IF l.do = "reclaim" /\ del THEN reclaimed \cup {src[Files[i]]} ELSE reclaimed)
        /\ seen' \subseteq seen \cup {src[Files[i]]} /\ discarded' = discarded
    BY <1>3 DEF ScanStep
  <1>5. CASE l.do = "queue" /\ resume = None
    <2>1. PICK p : Queues(i, l.op, Files[i], p)
      BY <1>3, <1>5, ScanQueues
    <2> QED
      BY <1>4, <1>5, <2>1, QueueCovers
  <1>8. CASE l.do = "queue" /\ resume # None
    <2>1. PICK o : Resumes(i, o, Files[i])
      BY <1>3, <1>8, ScanResumes
    <2>2. seen' = seen
      BY <1>3, <1>8, <2>1 DEF ScanStep, ScanRight, AfterRight, Resumes
    <2> QED
      BY <1>4, <1>8, <2>1, <2>2, ResumeCovers
  <1>6. CASE l.do = "reclaim" /\ del
    BY <1>3, <1>6, ReclaimCovers
  <1>7. CASE l.do # "queue" /\ ~(l.do = "reclaim" /\ del)
    BY <1>3, <1>4, <1>7, PassCarries, CarriesKept DEF IInvKept
  <1> QED
    BY <1>5, <1>6, <1>7, <1>8

LEMMA InitKept == ASSUME Init, IsInjective(Files) PROVE IInvKept
  <1>1. IInvText
    BY InitText
  <1>2. Pending = {}
    BY NoOperations DEF Init, Pending, Uncommitted
  <1>3. SourceStays /\ SeenIsCopied /\ ReclaimedIsCovered
    BY <1>2 DEF Init, SourceStays, SeenIsCopied, ReclaimedIsCovered
  <1> QED
    BY <1>1, <1>3 DEF IInvKept

LEMMA KeptKept == ASSUME IInvKept, [Next]_vars PROVE IInvKept'
  <1>0. IInvText /\ IInvText'
    BY TextKept DEF IInvKept
  <1>1. CASE UNCHANGED vars
    BY <1>0, <1>1, RestCarries, CarriesKept DEF IInvKept
  <1>2. CASE \/ StartImport \/ StartImportFails \/ NotListed \/ EndOfFiles
             \/ RunChatImportBulkMode \/ BulkModeFails \/ Crash
    BY <1>0, <1>2, RunCarries, CarriesKept DEF IInvKept
  <1>3. CASE ScanFile
    BY <1>0, <1>3, ScanCovers DEF IInvKept
  <1>4. CASE StageFile
    BY <1>0, <1>4, StageCovers, StageStops, CarriesKept DEF IInvKept
  <1>5. CASE WriteChatImportBatch
    BY <1>0, <1>5, WriteCarries, CarriesKept DEF IInvKept
  <1>6. CASE promoteBackup \/ promoteRename \/ promoteFails
    BY <1>0, <1>6, BackupCovers, RenameCovers, FailsCovers DEF IInvKept
  <1>7. CASE AgentWrites \/ AgentRemoves
    BY <1>0, <1>7, AgentCarries, CarriesKept DEF IInvKept
  <1>8. CASE \E s \in Sids : User(s) \/ GCRow(s) \/ GCRaw(s)
    BY <1>0, <1>8, UserCarries, CarriesKept, CollectCovers DEF IInvKept
  <1> QED
    BY <1>1, <1>2, <1>3, <1>4, <1>5, <1>6, <1>7, <1>8 DEF Next, ImportStep

\* What covers a given copy is one that is kept: the same, longer or newer.
LEMMA CoveredIsKept == ASSUME IInvKept PROVE ReclaimedIsKept
  <1> DEFINE pending == {batch[i].stage : i \in DOMAIN batch}
                        \cup {promoting[i].stage : i \in DOMAIN promoting}
                        \cup {promoting[i].backup : i \in DOMAIN promoting}
             kept == {c \in {src[f] : f \in Paths} \cup {raw[s] : s \in Sids} \cup pending : c # None}
  <1>0. /\ TypeOK /\ Kinds /\ reclaimed \subseteq Content
    BY KindsOf DEF IInvKept, IInvText, TypeInv, TypeOK
  <1>1. ASSUME Clean, NEW c \in reclaimed, c.sid \notin discarded
        PROVE  \E k \in kept : k \in Content /\ k.sid = c.sid /\ AtMost(c, k)
    <2>1. PICK k \in Copies \cup Others : k.sid = c.sid /\ AtMost(c, k)
      BY <1>1 DEF IInvKept, ReclaimedIsCovered, Covered
    <2>2. k \in Content /\ k # None
      BY <2>1, Constants DEF Copies, Others
    <2>3. CASE (\E f \in Paths : src[f] = k) \/ \E s \in Sids : raw[s] = k
      BY <2>1, <2>2, <2>3
    <2>4. CASE \E o \in ToSet(batch) \cup ToSet(promoting) : Copy(o) = k
      <3>1. PICK o \in ToSet(batch) \cup ToSet(promoting) : Copy(o) = k
        BY <2>4
      <3>2. k = o.stage
        BY <1>0, <3>1 DEF Kinds
      <3>3. (\E i \in DOMAIN batch : o = batch[i]) \/ \E i \in DOMAIN promoting : o = promoting[i]
        BY <3>1 DEF ToSet
      <3>4. k \in pending
        BY <3>2, <3>3
      <3> HIDE DEF pending
      <3>5. k \in kept
        BY <2>2, <3>4
      <3> HIDE DEF kept
      <3> QED
        BY <2>1, <2>2, <3>5
    <2>5. CASE pc = "stage" /\ Copy(op) = k
      <3>1. op \in Pending
        BY <2>5 DEF Pending, Uncommitted
      <3>2. src[op.file] # None /\ src[op.file].sid = k.sid /\ AtMost(k, src[op.file])
        BY <1>1, <2>1, <2>5, <3>1 DEF IInvKept, SourceStays
      <3>3. op.file \in Paths /\ src[op.file] \in Content
        BY <1>0, <3>1, <3>2 DEF Kinds
      <3>4. AtMost(c, src[op.file])
        BY <1>0, <2>1, <2>2, <3>2, <3>3, AtMostOrder
      <3>5. src[op.file] \in kept
        BY <3>2, <3>3
      <3> HIDE DEF kept
      <3> QED
        BY <2>1, <3>2, <3>3, <3>4, <3>5
    <2>6. \/ \E f \in Paths : src[f] = k
          \/ \E s \in Sids : raw[s] = k
          \/ \E o \in ToSet(batch) \cup ToSet(promoting) : Copy(o) = k
          \/ pc = "stage" /\ Copy(op) = k
      BY <2>1 DEF Copies, Others, Pending, Uncommitted
    <2> QED
      BY <2>3, <2>4, <2>5, <2>6
  <1> HIDE DEF pending
  <1>2. ASSUME NEW c \in Content, NEW k \in Content, k.sid = c.sid, AtMost(c, k)
        PROVE  k.sid = c.sid /\ (k = c \/ filePrefixMatches(c, k) \/ k.ver > c.ver)
    <2>1. k.ver \in Nat /\ c.ver \in Nat /\ k.size \in Nat /\ c.size \in Nat
      BY ContentFields
    <2>2. k.ver = c.ver /\ k.size = c.size => k = c
      BY <1>2 DEF Content
    <2> QED
      BY <1>2, <2>1, <2>2 DEF AtMost, filePrefixMatches
  <1>3. Clean => \A c \in reclaimed : c.sid \notin discarded => \E k \in kept :
            k.sid = c.sid /\ (k = c \/ filePrefixMatches(c, k) \/ k.ver > c.ver)
    <2> HIDE DEF kept
    <2> QED
      BY <1>0, <1>1, <1>2
  <1>4. purged \cup Swapped = {} => Clean
    BY DEF Clean
  <1> QED
    BY <1>3, <1>4 DEF ReclaimedIsKept, pending

\* A copy for which --delete-source removed the agent's file is kept, or its
\* session has a newer text, whatever fails, crashes or is written meanwhile.
\* It is claimed of imports that list no path twice.
THEOREM ReclaimedStaysKept == IsInjective(Files) => (Spec => []ReclaimedIsKept)
  <1> SUFFICES ASSUME IsInjective(Files) PROVE Spec => []ReclaimedIsKept
    OBVIOUS
  <1>0. Init => IInvKept
    BY InitKept
  <1>1. Spec => []IInvKept
    BY <1>0, KeptKept, PTL DEF Spec
  <1>2. IInvKept => ReclaimedIsKept
    BY CoveredIsKept
  <1> QED
    BY <1>1, <1>2, PTL
=============================================================================
