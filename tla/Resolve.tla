------------------------------ MODULE Resolve ------------------------------
(***************************************************************************)
(* Conflict resolution between two versions of a row:                      *)
(* cli/internal/syncengine/resolve.go, used for records by                 *)
(* sync/conflict.go and for chat sessions by sync/service.go.              *)
(*                                                                         *)
(* An instant is a natural number of ticks, Milli of them to the           *)
(* millisecond: Postgres keeps microseconds, SQLite and every comparison   *)
(* keep milliseconds.  0 stands for a missing instant (nil, zero time).    *)
(***************************************************************************)
EXTENDS Naturals

CONSTANT Milli   \* ticks per millisecond

ASSUME MilliAssumption == Milli \in Nat \ {0}

NoTime == 0

\* The part of a row that resolution looks at.
Stamps == [upd: Nat, del: Nat]

truncateToMillisecond(t) == (t \div Milli) * Milli

\* The most recent thing done to the row, and when.  A delete counts as such
\* only when it is strictly later than the update.
latestRecordAction(r) ==
    LET u == truncateToMillisecond(r.upd)
        d == truncateToMillisecond(r.del)
    IN  IF r.del # NoTime /\ d > u
           THEN [when |-> d, deleted |-> TRUE]
           ELSE [when |-> u, deleted |-> FALSE]

recordIsMoreActive(left, right) == left.del = NoTime /\ right.del # NoTime

\* Mutant: two versions that are both classified as edits are left alone.
ResolveWithoutActivity(local, remote) ==
    LET l == latestRecordAction(local)
        r == latestRecordAction(remote)
    IN  CASE l.when > r.when -> "local"
          [] r.when > l.when -> "remote"
          [] l.when = r.when /\ l.deleted # r.deleted ->
                 IF l.deleted THEN "remote" ELSE "local"
          [] OTHER -> "equal"

\* Later action first, then an edit before a delete, then an active row before
\* a deleted one.
ResolveRecordWinner(local, remote) ==
    LET l == latestRecordAction(local)
        r == latestRecordAction(remote)
    IN  IF l.when # r.when THEN IF l.when > r.when THEN "local" ELSE "remote"
        ELSE IF l.deleted # r.deleted THEN IF l.deleted THEN "remote" ELSE "local"
        ELSE IF recordIsMoreActive(local, remote) THEN "local"
        ELSE IF recordIsMoreActive(remote, local) THEN "remote"
        ELSE "equal"

\* Mutant: a stored microsecond timestamp is compared as it is.
UpdatedSinceExact(r, since) == since # NoTime => r.upd >= since

\* FilterRecordsUpdatedSince keeps a row from the cursor on, cursor included; a
\* missing cursor keeps every row.
UpdatedSince(r, since) ==
    since # NoTime => truncateToMillisecond(r.upd) >= truncateToMillisecond(since)

-----------------------------------------------------------------------------
(* Reference: the rule as docs/agent-layer/CONTEXT.md states it, "Most-     *)
(* recent-action-wins", then "edit wins over delete", as one total preorder *)
(* on versions.                                                            *)

\* Rank among the versions of one instant.
Rank(r) ==
    IF latestRecordAction(r).deleted THEN 0
    ELSE IF r.del # NoTime THEN 1
    ELSE 2

Beats(x, y) ==
    \/ latestRecordAction(x).when > latestRecordAction(y).when
    \/ /\ latestRecordAction(x).when = latestRecordAction(y).when
       /\ Rank(x) > Rank(y)
=============================================================================
