------------------------- MODULE RepositoryContract -------------------------
(***************************************************************************)
(* What the repository interface promises one user, whatever the backend:  *)
(* the suite that both backends run (repositorytest/contract.go), as a     *)
(* state machine over which records, chats, children, items and registry   *)
(* entries exist and which are in the trash.  A refused call changes       *)
(* nothing, an accepted one changes what it names and nothing else.        *)
(***************************************************************************)
EXTENDS Naturals, FiniteSets

CONSTANTS Ids         \* IDs of records and chats: one name space

VARIABLES call,       \* the last call: [op, id]
          refused,    \* the last call returned an error
          records,    \* ID -> "absent", "live" or "trashed"
          chats,      \* ID -> "absent", "live" or "trashed"
          children,   \* set of [tab, rec, name]
          items,      \* set of [sess, ord]
          entries,    \* set of [tab, id]: projects, devices, templates, paths
          moved       \* the sync version moved in the last call

content == <<records, chats, children, items, entries>>
vars    == <<call, refused, content, moved>>

Status == {"absent", "live", "trashed"}

ChildrenOf(i) == {c \in children : c.rec = i}

ItemsOf(i) == {x \in items : x.sess = i}

Init == /\ records \in [Ids -> Status] /\ chats \in [Ids -> Status]
        /\ \A i \in Ids : records[i] = "absent" \/ chats[i] = "absent"
        /\ \A c \in children : records[c.rec] # "absent"
        /\ \A x \in items : chats[x.sess] # "absent"

Op(names) == call'.op \in names /\ ~refused'

\* A refused call leaves everything in place, the version too.
Refuse == refused' /\ ~moved' /\ UNCHANGED content

SetRecord(i, status) == records' = [records EXCEPT ![i] = status]

SetChat(i, status) == chats' = [chats EXCEPT ![i] = status]

CreateRecord(i) ==
    /\ Op({"CreateRecord"}) /\ call'.id = i
    /\ records[i] = "absent" /\ chats[i] = "absent"
    /\ \E st \in {"live", "trashed"} : SetRecord(i, st)
    /\ moved' /\ UNCHANGED <<chats, children, items, entries>>

UpdateRecord(i) ==
    /\ Op({"UpdateRecord"}) /\ call'.id = i
    /\ records[i] # "absent"
    /\ \E st \in {"live", "trashed"} : SetRecord(i, st)
    /\ UNCHANGED <<chats, children, items, entries>>

SoftDeleteRecord(i) ==
    /\ Op({"SoftDeleteRecord"}) /\ call'.id = i
    /\ records[i] # "absent" /\ SetRecord(i, "trashed")
    /\ moved' = (records[i] # "trashed")
    /\ UNCHANGED <<chats, children, items, entries>>

RestoreRecord(i) ==
    /\ Op({"RestoreRecord"}) /\ call'.id = i
    /\ records[i] # "absent" /\ SetRecord(i, "live")
    /\ moved' = (records[i] # "live")
    /\ UNCHANGED <<chats, children, items, entries>>

DeleteRecord(i) ==
    /\ Op({"DeleteRecord"}) /\ call'.id = i
    /\ records[i] # "absent" /\ SetRecord(i, "absent")
    /\ children' = children \ ChildrenOf(i)
    /\ moved' /\ UNCHANGED <<chats, items, entries>>

PurgeDeletedRecords ==
    LET trash == {i \in Ids : records[i] = "trashed"} IN
    /\ Op({"PurgeDeletedRecords"})
    /\ records' = [i \in Ids |-> IF i \in trash THEN "absent" ELSE records[i]]
    /\ children' = {c \in children : c.rec \notin trash}
    /\ moved' = (trash # {}) /\ UNCHANGED <<chats, items, entries>>

\* The row and all children of one record at once, or nothing.
ReplaceRecordChildren(i) ==
    /\ Op({"ReplaceRecordChildren"}) /\ call'.id = i
    /\ chats[i] = "absent"
    /\ \E st \in {"live", "trashed"} : SetRecord(i, st)
    /\ {c \in children' : c.rec # i} = children \ ChildrenOf(i)
    /\ UNCHANGED <<chats, items, entries>>

\* Create, rename or delete one child of a present record.
ChangeChild(i) ==
    /\ Op({"CreateRecordFigure", "UpdateRecordFigure", "DeleteRecordFigure",
           "CreateRecordDataFile", "UpdateRecordDataFile", "DeleteRecordDataFile"})
    /\ call'.id = i /\ records[i] # "absent"
    /\ {c \in children' : c.rec # i} = children \ ChildrenOf(i)
    /\ Cardinality(children' \ children) <= 1
    /\ Cardinality(children \ children') <= 1
    /\ (children' # children) => moved'
    /\ UNCHANGED <<records, chats, items, entries>>

\* A chat keeps its ID; a new one must not take a record's.
UpsertChat(i) ==
    /\ Op({"UpsertChatSession", "UpsertChatSessionWithItems"}) /\ call'.id = i
    /\ records[i] = "absent"
    /\ \E st \in {"live", "trashed"} : SetChat(i, st)
    /\ {x \in items' : x.sess # i} = items \ ItemsOf(i)
    /\ (call'.op = "UpsertChatSession") => items' = items
    /\ UNCHANGED <<records, children, entries>>

SoftDeleteChatSession(i) ==
    /\ Op({"SoftDeleteChatSession"}) /\ call'.id = i
    /\ chats[i] # "absent" /\ SetChat(i, "trashed")
    /\ moved' = (chats[i] # "trashed")
    /\ UNCHANGED <<records, children, items, entries>>

\* Unlike a record, only a chat in the trash can be restored.
RestoreChatSession(i) ==
    /\ Op({"RestoreChatSession"}) /\ call'.id = i
    /\ chats[i] = "trashed" /\ SetChat(i, "live")
    /\ moved' /\ UNCHANGED <<records, children, items, entries>>

DeleteChatSession(i) ==
    /\ Op({"DeleteChatSession"}) /\ call'.id = i
    /\ chats[i] # "absent" /\ SetChat(i, "absent")
    /\ items' = items \ ItemsOf(i)
    /\ moved' /\ UNCHANGED <<records, children, entries>>

AppendItems(i) ==
    /\ Op({"CreateChatItem", "AppendChatItems"}) /\ call'.id = i
    /\ chats[i] # "absent" /\ items \subseteq items'
    /\ {x \in items' : x.sess # i} = items \ ItemsOf(i)
    /\ (items' # items) => moved'
    /\ UNCHANGED <<records, chats, children, entries>>

ReplaceChatItems(i) ==
    /\ Op({"ReplaceChatItems"}) /\ call'.id = i
    /\ chats[i] # "absent"
    /\ {x \in items' : x.sess # i} = items \ ItemsOf(i)
    /\ (items' # items) => moved'
    /\ UNCHANGED <<records, chats, children, entries>>

\* Registry and template calls add or drop at most the entry they name.
ChangeEntry ==
    /\ ~refused'
    /\ call'.op \in {"CreateEntry", "ArchiveEntry", "ImportEntry", "UpsertProjectPath",
                     "CreateTemplate", "UpdateTemplate", "DeleteTemplate"}
    /\ Cardinality((entries' \ entries) \cup (entries \ entries')) <= 1
    /\ (entries \ entries' # {}) => call'.op = "DeleteTemplate"
    /\ (entries' # entries) => moved'
    /\ UNCHANGED <<records, chats, children, items>>

\* Backfill assigns projects and moves nothing that exists.
BackfillChatProjects == Op({"BackfillChatProjects"}) /\ UNCHANGED content

\* Another account shares the templates and nothing else.
AnotherUser ==
    /\ call'.op = "AnotherUser"
    /\ {e \in entries' : e.tab # "templates"} = {e \in entries : e.tab # "templates"}
    /\ (entries' # entries) => moved'
    /\ UNCHANGED <<records, chats, children, items>>

Next == \/ Refuse \/ PurgeDeletedRecords \/ ChangeEntry \/ BackfillChatProjects \/ AnotherUser
        \/ \E i \in Ids :
              \/ CreateRecord(i) \/ UpdateRecord(i) \/ SoftDeleteRecord(i)
              \/ RestoreRecord(i) \/ DeleteRecord(i) \/ ReplaceRecordChildren(i)
              \/ ChangeChild(i) \/ UpsertChat(i) \/ SoftDeleteChatSession(i)
              \/ RestoreChatSession(i) \/ DeleteChatSession(i)
              \/ AppendItems(i) \/ ReplaceChatItems(i)

Spec == Init /\ [][Next]_vars

=============================================================================
