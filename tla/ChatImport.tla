----------------------------- MODULE ChatImport -----------------------------
(***************************************************************************)
(* pc chat import: the transcripts that coding agents write are parsed     *)
(* into chat sessions and items and copied to a managed raw file, while    *)
(* the agents keep writing, the user trashes and collects chats, and calls *)
(* fail or the process dies.                                               *)
(*                                                                         *)
(* A transcript is [sid, ver, size]: the session it names (None: it names  *)
(* none and the file name is the session), a number for its text, and its  *)
(* length in half lines.  Two transcripts with one sid and ver are prefixes*)
(* of one text.  An odd size is a line that is not yet complete.  A chat   *)
(* has the ID of the session it was created for.  One device, one agent.   *)
(* A path is listed twice when roots given with --root repeat or overlap;  *)
(* the roots that pc chooses itself are deduplicated.                      *)
(***************************************************************************)
EXTENDS Naturals, Sequences, FiniteSets, SequencesExt

CONSTANTS None,
          Files,          \* transcript paths in scan order, a sequence; a path may repeat
          Sids,           \* session identities; file names are identities too
          FirstContents,  \* contents of the files at the start
          BatchSize,      \* chatImportBatchSize
          MaxSize, MaxWrites, MaxFaults, MaxUserOps,   \* bounds
          MaxEvents       \* bound on writes, faults and user operations together

ASSUME BatchAssumption == BatchSize \in Nat \ {0, 1}

Content == [sid : Sids \cup {None}, ver : 1..(MaxWrites + 2), size : 0..MaxSize]

Paths == ToSet(Files)

\* A file holds a text of its own or a copy of another one's; its session is
\* not named as a file is.
ASSUME FilesAssumption ==
    /\ Files \in Seq(Sids) /\ MaxSize \in Nat \ {0, 1} /\ MaxWrites \in Nat
    /\ \A first \in FirstContents :
          /\ first \in [Paths -> Content \cup {None}]
          /\ \A f \in Paths : first[f] # None => first[f].ver <= 2 /\ first[f].sid \notin Paths

\* Line number ord of a text; version 0: a line at an ordinal that is not its own.
Item == [ord : 0..MaxSize, ver : 0..(MaxWrites + 2)]

Chat == [orig : Paths, del : BOOLEAN, items : SUBSET Item]

Operation == [id : Sids, sid : Sids, mode : {"replace", "append"}, items : SUBSET Item, file : Paths,
              text : Content, stage : Content \cup {None}, backup : Content \cup {None}]

\* What the handling of one file still knows after it had to flush the batch: its
\* session, the one that the path had, what was parsed or compared.
Resume == [at : {"append", "parsed"}, sid : Sids, prior : Sids \cup {None}, text : Content,
           base : Content \cup {None}]

\* None is no value of any of the sets it is added to.
ASSUME NoneAssumption ==
    None \notin Sids \cup Content \cup Chat \cup Operation \cup Resume \cup [Sids -> Chat \cup {None}]

VARIABLES src,       \* the agents' files: path -> transcript or None
          db,        \* chat sessions: sid -> [orig, del, items] or None
          raw,       \* managed raw files: sid -> transcript or None
          triggers,  \* chat_item_fts triggers exist
          indexed,   \* items in chat_item_fts: set of [sid, ord, ver]
          pc, todo,  \* the import: where it is, places in Files left to scan
          idx,       \* its session index: sid -> original path or None
          resume,    \* the file whose handling goes on after a flush, or None
          op,        \* an operation that waits for its staged copy
          batch,     \* pending operations
          promoting, \* committed operations whose stage is not yet promoted
          expected,  \* sessions that parsed before the lock was taken
          seen,      \* contents met in this run
          mut, del,  \* it changed something; --delete-source
          err,       \* how the last import ended
          gc,        \* pc gc: set of [sid, at], a listed chat and the next step
          writes, faults, userOps,
          reclaimed, \* history: copies for which --delete-source removed a file
          purged,    \* history: chats that pc gc deleted
          unindexed, \* history: a crash or a failing call ended the bulk mode early
          raced,     \* history: [sid, whole], an agent wrote, or wrote a whole new
                     \* text, between the parsing and the copying of a file
          discarded  \* history: session names of transcripts that an agent removed
                     \* or overwrote with another session

importVars == <<pc, todo, idx, resume, op, batch, promoting, expected, seen, mut, del, err>>
budgets == <<writes, faults, userOps>>
history == <<reclaimed, purged, unindexed, raced, discarded>>
vars == <<src, db, raw, triggers, indexed, importVars, gc, budgets, history>>

---------------------------------------------------------------------------
(* Transcripts *)

Torn(c) == c.size % 2 = 1

Lines(c) == c.size \div 2

\* The normalized items of a transcript that parses.
ItemsIn(c) == {[ord |-> o, ver |-> c.ver] : o \in {n \in 0..MaxSize : n < Lines(c)}}

\* newTranscriptSession: the session ID of the text, else of the file name.
SessionOf(f, c) == IF c.sid = None THEN f ELSE c.sid

\* filePrefixMatches
filePrefixMatches(a, b) == a.sid = b.sid /\ a.ver = b.ver /\ a.size < b.size

Init ==
    /\ src \in FirstContents
    /\ db = [s \in Sids |-> None] /\ raw = [s \in Sids |-> None]
    /\ triggers = TRUE /\ indexed = {} /\ unindexed = FALSE
    /\ pc = "idle" /\ todo = {} /\ idx = [s \in Sids |-> None] /\ op = None
    /\ resume = None
    /\ batch = <<>> /\ promoting = <<>> /\ expected = {} /\ seen = {}
    /\ mut = FALSE /\ del = FALSE /\ err = None /\ gc = {} /\ writes = 0 /\ faults = 0
    /\ userOps = 0 /\ reclaimed = {} /\ purged = {} /\ raced = {} /\ discarded = {}

Stored(s) == db[s] # None

MoreEvents == writes + faults + userOps < MaxEvents

---------------------------------------------------------------------------
(* Starting a run *)

loadChatImportSessionIndex == [s \in Sids |-> IF Stored(s) THEN db[s].orig ELSE None]

scanChatImportCompleteness ==
    {SessionOf(f, src[f]) : f \in {g \in Paths : src[g] # None /\ ~Torn(src[g]) /\ src[g].size > 0}}

\* The lock is taken, the triggers are dropped, the index is read.
StartImport ==
    /\ pc = "idle"
    /\ del' \in BOOLEAN
    /\ todo' = {i \in DOMAIN Files : src[Files[i]] # None}
    /\ triggers' = FALSE
    /\ idx' = loadChatImportSessionIndex /\ expected' = scanChatImportCompleteness
    /\ pc' = "scan" /\ seen' = {} /\ mut' = FALSE /\ err' = None
    /\ UNCHANGED <<src, db, raw, indexed, resume, op, batch, promoting, gc, budgets, history>>

\* dropChatItemFTSTriggers fails, perhaps after the first of its statements.
StartImportFails ==
    /\ pc = "idle" /\ MoreEvents /\ faults < MaxFaults /\ faults' = faults + 1
    /\ triggers' \in {triggers, FALSE} /\ unindexed' = (unindexed \/ ~triggers')
    /\ err' = "triggers"
    /\ UNCHANGED <<src, db, raw, indexed, pc, todo, idx, resume, op, batch, promoting, expected, seen,
                   mut, del, gc, writes, userOps, reclaimed, purged, raced, discarded>>

---------------------------------------------------------------------------
(* One file *)

\* Outcomes of looking at a file.
Outcome(do) == [do |-> do, op |-> None, see |-> FALSE, resume |-> None]
Skip        == Outcome("skip")
Reclaim     == Outcome("reclaim")     \* skip; --delete-source removes the file
Unhandled   == Outcome("unhandled")
Abort(e)    == Outcome(e)
FlushFirst(at, s, prior, c, base) ==
    [do |-> "flush", op |-> None, see |-> FALSE,
     resume |-> [at |-> at, sid |-> s, prior |-> prior, text |-> c, base |-> base]]
Queue(id, s, mode, items, f, c) ==
    [do |-> "queue", see |-> FALSE, resume |-> None,
     op |-> [id |-> id, sid |-> s, mode |-> mode, items |-> items, file |-> f, text |-> c,
             stage |-> None, backup |-> None]]

hasSourceSession(s) == \E i \in DOMAIN batch : batch[i].sid = s

DbItems(s) == IF Stored(s) THEN db[s].items ELSE {}

\* chatImportItemsAlreadyStored
chatImportItemsAlreadyStored(stored, items) == items \subseteq stored

\* One past MaxChatItemOrdinal.
NextOrdinal(s) == IF DbItems(s) = {} THEN 0
                  ELSE 1 + (CHOOSE o \in {i.ord : i \in DbItems(s)} : \A i \in DbItems(s) : i.ord <= o)

\* Mutant: an unchanged file is skipped without a look at the stored items.
exactMatchSkips(s, f) == Reclaim

handleExactMatchChatImport(s, f) ==
    IF Torn(raw[s]) THEN Abort("torn")
    ELSE IF DbItems(s) = ItemsIn(raw[s]) THEN Reclaim
    ELSE Queue(s, s, "replace", ItemsIn(raw[s]), f, src[f])

\* ParseAppendedJSONLTranscript: what the file has now of the lines by which it was
\* longer when it was compared, numbered on from the managed raw file of now.
AppendedItems(s, f, text, base) ==
    IF Lines(raw[s]) = Lines(base)
    THEN {i \in ItemsIn(src[f]) : Lines(base) <= i.ord /\ i.ord < Lines(text)}
    ELSE {[ord |-> o, ver |-> 0] : o \in {n \in 0..MaxSize :
             Lines(raw[s]) <= n /\ n < Lines(raw[s]) + Lines(text) - Lines(base)}}

\* Mutant: appends whatever the stored items are.
queueAppendUnchecked(s, f, text, base) ==
    IF raw[s] = None THEN Abort("missing")
    ELSE IF Torn(raw[s]) \/ Torn(text) THEN Abort("torn")
    ELSE Queue(s, s, "append", AppendedItems(s, f, text, base), f, text)

\* The file was compared as text with the managed raw file base.
queueAppendJSONLChatImport(s, f, text, base) ==
    IF raw[s] = None THEN Abort("missing")
    ELSE IF Torn(raw[s]) \/ Torn(text) THEN Abort("torn")
    ELSE IF chatImportItemsAlreadyStored(DbItems(s), AppendedItems(s, f, text, base))
         THEN Queue(s, s, "append", {}, f, text)
    ELSE IF NextOrdinal(s) # Lines(raw[s]) THEN Abort("mismatch")
    ELSE Queue(s, s, "append", AppendedItems(s, f, text, base), f, text)

\* The batch is flushed between the comparison and the append.
handleExistingChatImport(s, f, c) ==
    IF raw[s] = None THEN Unhandled
    ELSE IF raw[s] = c THEN handleExactMatchChatImport(s, f)
    ELSE IF ~filePrefixMatches(raw[s], c) THEN Unhandled
    ELSE IF hasSourceSession(s) THEN FlushFirst("append", s, s, c, raw[s])
    ELSE queueAppendJSONLChatImport(s, f, c, raw[s])

\* Mutant: any file of a known session is a duplicate.
collisionIsDuplicate(s, c) == Reclaim

\* Another file owns the session: identical bytes are a duplicate, others stay.
defendChatImportCollision(s, c) == IF raw[s] = c THEN Reclaim ELSE Skip

\* A transcript without a known session at its path.
importNewFile(f, c, prior) ==
    LET s == SessionOf(f, c)
        known == IF prior = None /\ Stored(s) THEN s ELSE prior
    IN  IF known = None /\ c \in seen THEN Reclaim
        ELSE [Queue(IF known = None THEN s ELSE known, s, "replace", ItemsIn(c), f, c)
                EXCEPT !.see = known = None]

importParsed(f, c, prior) ==
    LET s == SessionOf(f, c)
        again == handleExistingChatImport(s, f, c)
    IN  IF Torn(c) \/ c.size = 0 THEN Skip
        ELSE IF hasSourceSession(s) THEN FlushFirst("parsed", s, prior, c, None)
        ELSE IF idx[s] = None THEN importNewFile(f, c, prior)
        ELSE IF prior = None THEN defendChatImportCollision(s, c)
        ELSE IF again.do # "unhandled" THEN again
        ELSE importNewFile(f, c, s)

\* The rest of importParsed after a flush, which has put the session into the
\* index: the file as it is now is compared, but what was parsed is imported.
importFlushed(f, c) ==
    LET s == resume.sid
        again == handleExistingChatImport(s, f, c)
    IN  IF resume.prior = None THEN defendChatImportCollision(s, c)
        ELSE IF again.do # "unhandled" THEN again
        ELSE Queue(s, s, "replace", ItemsIn(resume.text), f, resume.text)

\* The comparison is not repeated after the flush.
AfterFlush(f, c) ==
    IF resume.at = "append" THEN queueAppendJSONLChatImport(resume.sid, f, resume.text, resume.base)
    ELSE importFlushed(f, c)

existingByOriginalPath(f) == {s \in Sids : idx[s] = f}

Look(f, c) ==
    IF existingByOriginalPath(f) = {} THEN importParsed(f, c, None)
    ELSE LET s == CHOOSE x \in existingByOriginalPath(f) : TRUE
             handled == handleExistingChatImport(s, f, c)
         IN  IF handled.do # "unhandled" THEN [handled EXCEPT !.see = TRUE]
             ELSE importParsed(f, c, s)

\* A file that disappeared since it was listed is an error.
ScanFile ==
    /\ pc = "scan" /\ todo # {}
    /\ LET f == Files[Min(todo)]
           c == src[f]
           look == IF c = None THEN Abort("missing")
                   ELSE IF resume # None THEN AfterFlush(f, c) ELSE Look(f, c)
       IN  /\ op' = look.op /\ resume' = look.resume
           /\ pc' = CASE look.do = "queue"  -> "stage"
                      [] look.do = "flush"  -> "commit"
                      [] look.do \in {"skip", "reclaim"} -> "scan"
                      [] OTHER -> "end"
           /\ todo' = IF look.do = "flush" THEN todo ELSE todo \ {Min(todo)}
           /\ seen' = IF look.see THEN seen \cup {c} ELSE seen
           /\ src' = IF look.do = "reclaim" /\ del THEN [src EXCEPT ![f] = None] ELSE src
           /\ reclaimed' = IF look.do = "reclaim" /\ del THEN reclaimed \cup {c} ELSE reclaimed
           /\ err' = IF look.do \in {"mismatch", "torn", "missing"} THEN look.do ELSE None
           /\ batch' = IF pc' = "end" THEN <<>> ELSE batch
           /\ raced' = IF look.do = "queue" /\ c.ver # look.op.text.ver
                       THEN raced \cup {[sid |-> look.op.sid, whole |-> TRUE]} ELSE raced
    /\ UNCHANGED <<db, raw, triggers, indexed, idx, promoting, expected, mut, del, gc, budgets, purged, unindexed, discarded>>

\* A root is listed when the scan gets to it: a file that is gone by then is
\* not in it.
NotListed ==
    /\ pc = "scan" /\ todo # {} /\ resume = None /\ src[Files[Min(todo)]] = None
    /\ todo' = todo \ {Min(todo)}
    /\ UNCHANGED <<src, db, raw, triggers, indexed, pc, idx, resume, op, batch, promoting, expected,
                   seen, mut, del, err, gc, budgets, history>>

\* CopyChatSourceToStage reads the file again, then the operation is queued.
StageFile ==
    /\ pc = "stage"
    /\ LET c == src[op.file] IN
       IF c = None
       THEN pc' = "end" /\ err' = "missing" /\ batch' = <<>> /\ mut' = mut
       ELSE /\ batch' = Append(batch, [op EXCEPT !.stage = c])
            /\ pc' = IF Len(batch') >= BatchSize THEN "commit" ELSE "scan"
            /\ mut' = TRUE /\ err' = err
    /\ op' = None
    /\ raced' = IF src[op.file] \in {None, op.text} THEN raced
                ELSE raced \cup {[sid |-> op.sid, whole |-> src[op.file].ver # op.text.ver]}
    /\ UNCHANGED <<src, db, raw, triggers, indexed, todo, idx, resume, promoting, expected, seen, del, gc,
                   budgets, reclaimed, purged, unindexed, discarded>>

EndOfFiles ==
    /\ pc = "scan" /\ todo = {}
    /\ pc' = IF batch = <<>> THEN "end" ELSE "commit"
    /\ UNCHANGED <<src, db, raw, triggers, indexed, todo, idx, resume, op, batch, promoting, expected,
                   seen, mut, del, err, gc, budgets, history>>

---------------------------------------------------------------------------
(* Flushing the batch *)

\* One operation in the transaction; None when it fails.
writeOp(store, o) ==
    IF store = None THEN None
    ELSE IF store[o.sid] = None
         THEN IF o.id # o.sid /\ store[o.id] # None THEN None
              ELSE [store EXCEPT ![o.sid] = [orig |-> o.file, del |-> FALSE, items |-> o.items]]
    ELSE LET kept == IF o.mode = "replace" THEN {} ELSE store[o.sid].items
         IN  IF \E i \in kept, j \in o.items : i.ord = j.ord THEN None
             ELSE [store EXCEPT ![o.sid] = [orig |-> o.file, del |-> FALSE,
                                            items |-> kept \cup o.items]]

\* All operations in one transaction, or an error and no change.
WriteChatImportBatch ==
    /\ pc = "commit"
    /\ LET result == FoldLeft(writeOp, db, batch) IN
       \/ /\ result # None
          /\ db' = result /\ promoting' = batch /\ pc' = "promote"
          /\ UNCHANGED <<resume, err, faults>>
       \/ /\ result = None
          /\ pc' = "end" /\ err' = "conflict" /\ resume' = None /\ UNCHANGED <<db, promoting, faults>>
       \/ /\ MoreEvents /\ faults < MaxFaults /\ faults' = faults + 1
          /\ pc' = "end" /\ err' = "write" /\ resume' = None /\ UNCHANGED <<db, promoting>>
    /\ batch' = <<>>
    /\ UNCHANGED <<src, raw, triggers, indexed, todo, idx, op, expected, seen, mut, del, gc, writes,
                   userOps, history>>

\* PromoteChatSourceStage moves the old directory away first.
promoteBackup ==
    /\ pc = "promote" /\ promoting # <<>>
    /\ LET o == Head(promoting) IN
       /\ raw[o.id] # None
       /\ raw' = [raw EXCEPT ![o.id] = None]
       /\ promoting' = <<[o EXCEPT !.backup = raw[o.id]]>> \o Tail(promoting)
    /\ UNCHANGED <<src, db, triggers, indexed, pc, todo, idx, resume, op, batch, expected, seen, mut, del,
                   err, gc, budgets, history>>

\* Then the stage becomes active, the index remembers, the source may go.
promoteRename ==
    /\ pc = "promote" /\ promoting # <<>>
    /\ LET o == Head(promoting) IN
       /\ raw[o.id] = None
       /\ raw' = [raw EXCEPT ![o.id] = o.stage]
       /\ idx' = [idx EXCEPT ![o.sid] = o.file]
       /\ src' = IF del THEN [src EXCEPT ![o.file] = None] ELSE src
       /\ reclaimed' = IF del THEN reclaimed \cup {o.stage} ELSE reclaimed
       /\ promoting' = Tail(promoting)
       /\ pc' = IF Tail(promoting) = <<>> THEN "scan" ELSE pc
    /\ UNCHANGED <<db, triggers, indexed, todo, resume, op, batch, expected, seen, mut, del, err, gc, budgets,
                   purged, unindexed, raced, discarded>>

\* A rename fails: the old directory is put back, the later stages are dropped.
promoteFails ==
    /\ pc = "promote" /\ promoting # <<>> /\ MoreEvents /\ faults < MaxFaults
    /\ faults' = faults + 1
    /\ LET o == Head(promoting) IN
       raw' = IF o.backup # None THEN [raw EXCEPT ![o.id] = o.backup] ELSE raw
    /\ promoting' = <<>> /\ pc' = "end" /\ err' = "promote" /\ resume' = None
    /\ UNCHANGED <<src, db, triggers, indexed, todo, idx, op, batch, expected, seen, mut, del, gc, writes,
                   userOps, history>>

---------------------------------------------------------------------------
(* Ending a run *)

AllItems == UNION {{[sid |-> s, ord |-> i.ord, ver |-> i.ver] : i \in DbItems(s)} : s \in Sids}

\* The triggers exist again, whether the run failed or not.
createChatItemFTSTriggers == TRUE

\* Mutant: a failed run is not indexed.
rebuildOnSuccess == IF mut /\ err = None THEN AllItems ELSE indexed

\* rebuildChatItemFTS after a run that changed something, failed or not.
rebuildChatItemFTS == IF mut THEN AllItems ELSE indexed

applyChatImportCompleteness ==
    IF err = None /\ \E s \in expected : ~Stored(s) THEN "incomplete" ELSE err

\* The run is over.
Reset == /\ pc' = "idle" /\ todo' = {} /\ idx' = [s \in Sids |-> None] /\ seen' = {}
         /\ mut' = FALSE /\ del' = FALSE /\ expected' = {}

\* The deferred part of RunChatImportBulkMode, the release of the lock, the check.
RunChatImportBulkMode ==
    /\ pc = "end"
    /\ indexed' = rebuildChatItemFTS /\ triggers' = createChatItemFTSTriggers
    /\ unindexed' = (unindexed /\ ~mut)
    /\ Reset /\ err' = applyChatImportCompleteness
    /\ UNCHANGED <<src, db, raw, resume, op, batch, promoting, gc, budgets, reclaimed, purged, raced, discarded>>

\* The rebuild fails, or the creation of the triggers, which is tried after a
\* failed rebuild too.  What has been imported stays, and the import fails.
BulkModeFails ==
    /\ pc = "end" /\ MoreEvents /\ faults < MaxFaults /\ faults' = faults + 1
    /\ \/ mut /\ indexed' = indexed /\ triggers' \in {createChatItemFTSTriggers, triggers}
       \/ indexed' = rebuildChatItemFTS /\ triggers' = triggers
    /\ unindexed' = TRUE
    /\ Reset /\ err' = IF err = None THEN "index" ELSE err
    /\ UNCHANGED <<src, db, raw, resume, op, batch, promoting, gc, writes, userOps, reclaimed, purged, raced,
                   discarded>>

Crash ==
    /\ pc # "idle" /\ MoreEvents /\ faults < MaxFaults /\ faults' = faults + 1
    /\ Reset /\ resume' = None /\ op' = None /\ batch' = <<>> /\ promoting' = <<>>
    /\ err' = "crash" /\ unindexed' = TRUE
    /\ UNCHANGED <<src, db, raw, triggers, indexed, gc, writes, userOps, reclaimed, purged, raced, discarded>>

---------------------------------------------------------------------------
(* The agents: a line, part of a line, the rest of it, or a new text, of the *)
(* same session or of one that no file and no chat has.                      *)

FreshSids == {s \in Sids \ Paths : ~Stored(s) /\ \A f \in Paths : src[f] # None => src[f].sid # s}

NextContents(f) ==
    LET c == src[f] IN
    IF c = None THEN {}
    ELSE {[c EXCEPT !.size = n] : n \in {k \in {c.size + 1, c.size + 2} : k <= MaxSize}}
         \cup {[sid |-> s, ver |-> writes + 3, size |-> 2] :
                  s \in {c.sid} \cup (IF c.sid = None THEN {} ELSE FreshSids)}

AgentWrites ==
    /\ MoreEvents /\ writes < MaxWrites /\ writes' = writes + 1
    /\ \E f \in Paths : \E c \in NextContents(f) :
          /\ src' = [src EXCEPT ![f] = c]
          /\ discarded' = IF c.sid = src[f].sid THEN discarded ELSE discarded \cup {src[f].sid}
    /\ UNCHANGED <<db, raw, triggers, indexed, importVars, gc, faults, userOps, reclaimed, purged, unindexed, raced>>

\* An agent discards a transcript.
AgentRemoves ==
    /\ MoreEvents /\ writes < MaxWrites /\ writes' = writes + 1
    /\ \E f \in Paths : /\ src[f] # None
                        /\ src' = [src EXCEPT ![f] = None]
                        /\ discarded' = discarded \cup {src[f].sid}
    /\ UNCHANGED <<db, raw, triggers, indexed, importVars, gc, faults, userOps, reclaimed, purged, unindexed, raced>>

---------------------------------------------------------------------------
(* The user: pc chat delete and restore, pc gc in three steps. *)

\* The delete trigger of the index may be missing; search joins the item table.
Unindex(s) == IF triggers THEN {i \in indexed : i.sid # s} ELSE indexed

User(s) ==
    /\ MoreEvents /\ userOps < MaxUserOps /\ userOps' = userOps + 1
    /\ Stored(s)
    /\ \/ ~db[s].del /\ db' = [db EXCEPT ![s].del = TRUE] /\ gc' = gc
       \/ db[s].del /\ db' = [db EXCEPT ![s].del = FALSE] /\ gc' = gc
       \/ db[s].del /\ gc' = gc \cup {[sid |-> s, at |-> "row"]} /\ db' = db
    /\ UNCHANGED <<src, raw, triggers, indexed, importVars, writes, faults, history>>

\* HardLocal: the row, whatever happened since it was listed; gc ends without one.
GCRow(s) ==
    /\ [sid |-> s, at |-> "row"] \in gc
    /\ db' = [db EXCEPT ![s] = None] /\ indexed' = Unindex(s)
    /\ gc' = (gc \ {[sid |-> s, at |-> "row"]}) \cup
                (IF Stored(s) THEN {[sid |-> s, at |-> "raw"]} ELSE {})
    /\ purged' = purged \cup {s}
    /\ UNCHANGED <<src, raw, triggers, importVars, budgets, reclaimed, unindexed, raced, discarded>>

\* Then the raw directory.
GCRaw(s) ==
    /\ [sid |-> s, at |-> "raw"] \in gc
    /\ raw' = [raw EXCEPT ![s] = None] /\ gc' = gc \ {[sid |-> s, at |-> "raw"]}
    /\ UNCHANGED <<src, db, triggers, indexed, importVars, budgets, history>>

---------------------------------------------------------------------------

ImportStep == \/ ScanFile \/ NotListed \/ StageFile \/ EndOfFiles \/ WriteChatImportBatch
              \/ promoteBackup \/ promoteRename \/ RunChatImportBulkMode

Next == \/ StartImport \/ StartImportFails \/ ImportStep \/ promoteFails \/ BulkModeFails \/ Crash
        \/ AgentWrites \/ AgentRemoves
        \/ \E s \in Sids : User(s) \/ GCRow(s) \/ GCRaw(s)

\* The user keeps importing, and a running import goes on.
Spec == Init /\ [][Next]_vars /\ WF_vars(StartImport) /\ WF_vars(ImportStep)

---------------------------------------------------------------------------
(* Properties *)

\* Every variable has its type; an operation in the batch has a staged copy.
TypeOK ==
    /\ src \in [Paths -> Content \cup {None}] /\ db \in [Sids -> Chat \cup {None}]
    /\ raw \in [Sids -> Content \cup {None}] /\ idx \in [Sids -> Paths \cup {None}]
    /\ indexed \subseteq [sid : Sids, ord : 0..MaxSize, ver : 0..(MaxWrites + 2)]
    /\ todo \subseteq DOMAIN Files /\ expected \subseteq Sids /\ seen \subseteq Content
    /\ gc \subseteq [sid : Sids, at : {"row", "raw"}] /\ purged \subseteq Sids
    /\ reclaimed \subseteq Content /\ raced \subseteq [sid : Sids, whole : BOOLEAN]
    /\ mut \in BOOLEAN /\ del \in BOOLEAN /\ unindexed \in BOOLEAN /\ triggers \in BOOLEAN
    /\ writes \in 0..MaxWrites
    /\ pc \in {"idle", "scan", "stage", "commit", "promote", "end"}
    /\ resume \in Resume \cup {None}
    /\ resume # None => pc \in {"scan", "commit", "promote"} /\ todo # {} /\ (pc = "scan" => batch = <<>>)
    /\ op \in Operation \cup {None} /\ (op # None) = (pc = "stage")
    /\ batch \in Seq(Operation) /\ Len(batch) <= BatchSize
    /\ \A i \in DOMAIN batch : batch[i].stage # None
    /\ promoting \in Seq(Operation) /\ (promoting # <<>>) = (pc = "promote")
    /\ \A i \in DOMAIN promoting : promoting[i].stage # None
    /\ triggers = (pc = "idle") \/ unindexed

Swapped == {r.sid : r \in {x \in raced : x.whole}}

\* The stored items of a chat are the first lines of one text: however appends,
\* replacements, failures and the agents' writes interleave, none is mixed with
\* another text's, missing in between or stored twice; unless an agent replaced
\* the whole text between the import's parsing and its copying of the file.  It
\* is claimed of runs that list no path twice (AppendedOnce is about the others).
OneText ==
    \A s \in Sids \ (purged \cup Swapped) : Stored(s) =>
        \E n \in 0..MaxSize, v \in 1..(MaxWrites + 2) :
            db[s].items = {[ord |-> o, ver |-> v] : o \in {k \in 0..MaxSize : k < n}}

\* chat.go:702-706: "the second op would reuse those ordinals [...]. Flush the
\* pending batch first so the next ordinal calculation sees the prior items
\* committed": a path that is listed twice is not stored twice, that is, no line
\* is stored at an ordinal that is not its own.
AppendedOnce ==
    purged \cup Swapped = {} => \A s \in Sids : \A i \in DbItems(s) : i.ver # 0

\* A copy for which --delete-source removed the agent's file is kept: in the
\* managed raw file, in a file that is still there, or on its way; or the
\* session has a newer text.  Left out: chats that gc purged, texts replaced
\* between parsing and copying, sessions of which an agent gave up a file too.
ReclaimedIsKept ==
    LET pending == {batch[i].stage : i \in DOMAIN batch}
                   \cup {promoting[i].stage : i \in DOMAIN promoting}
                   \cup {promoting[i].backup : i \in DOMAIN promoting}
        kept == {c \in {src[f] : f \in Paths} \cup {raw[s] : s \in Sids} \cup pending : c # None}
    IN  purged \cup Swapped = {} => \A c \in reclaimed : c.sid \notin discarded => \E k \in kept :
            k.sid = c.sid /\ (k = c \/ filePrefixMatches(c, k) \/ k.ver > c.ver)

\* After an import search finds every stored item, whatever failed in it but the
\* bulk mode itself: when a crash, or a failing drop of the triggers, rebuild of
\* the index or creation of the triggers ended the bulk mode early, from the end
\* of the next import that changes something (one that changes nothing creates
\* the triggers, and rebuilds nothing).
SearchIsComplete == pc = "idle" /\ ~unindexed => AllItems \subseteq indexed

\* The transcript at f is stored, item by item, or is one that imports leave
\* alone: empty, incomplete, or another file's session with other contents.
Current(f) ==
    LET c == src[f] IN
    IF c = None THEN TRUE
    ELSE \/ c.size = 0 \/ Torn(c)
         \/ \E s \in Sids : Stored(s) /\ raw[s] = c /\ DbItems(s) = ItemsIn(c)
         \/ Stored(SessionOf(f, c)) /\ db[SessionOf(f, c)].orig # f

\* Importing again and again ends with every transcript stored, whatever failed
\* before, unless imports stop at one of three errors that they do not repair:
\* an incomplete line, items that do not match the managed copy, or a path that
\* now holds another session.
Converges == []<>((\A f \in Paths : Current(f)) \/ err \in {"torn", "mismatch", "conflict"})

\* DECISIONS.md: "Multi-session batches can leave a tail of DB-committed sessions
\* whose raw promotion never happened [...]; the next `pc chat import` self-heals
\* each affected session": no import stops at such a session, as long as no agent
\* wrote between the parsing and the copying of a file.
SelfHeals == raced = {} => err # "mismatch"

=============================================================================
