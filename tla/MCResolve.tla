----------------------------- MODULE MCResolve -----------------------------
(* Conflict resolution over every pair of small versions: the checks are   *)
(* predicates of the two versions and a cursor chosen in Init.             *)
EXTENDS Resolve

CONSTANT MaxTime   \* bound: largest instant, in ticks

ASSUME MaxTimeAssumption == MaxTime \in Nat

VARIABLES x, y, since

pair == <<x, y, since>>

Version == [upd: 1..MaxTime, del: 0..MaxTime]

ChoosePair ==
    /\ x \in Version
    /\ y \in Version
    /\ since \in 0..MaxTime

KeepPair == UNCHANGED pair

PairSpec == ChoosePair /\ [][KeepPair]_pair

\* ResolveRecordWinner is the lexicographic comparison of the reference rule,
\* so both sides of a sync reach the same verdict whichever of them computes it.
AgreesWithReference ==
    /\ ResolveRecordWinner(x, y) = "local" <=> Beats(x, y)
    /\ ResolveRecordWinner(x, y) = "remote" <=> Beats(y, x)

\* A version the cursor filter drops loses against every version written at or
\* after the cursor, deletes included, as long as a delete also stamps
\* updated_at (the triggers see to that): filtering never hides a winner.
DroppedNeverWins ==
    /\ x.del <= x.upd
    /\ ~UpdatedSince(x, since)
    /\ UpdatedSince(y, since)
    => ResolveRecordWinner(x, y) = "remote"
=============================================================================
