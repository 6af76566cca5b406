------------------------------ MODULE DayOrder ------------------------------
(***************************************************************************)
(* Positions of the records of one day: fractional index keys, and how pc  *)
(* records add and the local server choose one.                            *)
(*                                                                         *)
(* A key is a natural number: its multiples of Unit are the integer keys   *)
(* ("a0", "a1", ...) and the rest is the fraction, halved at every         *)
(* insertion.  None stands for the empty key, an open end.                 *)
(***************************************************************************)
EXTENDS Naturals, Sequences, FiniteSets, SequencesExt

CONSTANTS None,
          Unit,     \* distance of two integer keys; a power of two
          FirstKey  \* "a0"

ASSUME KeyAssumption ==
    Unit \in Nat /\ Unit > 1 /\ FirstKey \in Nat /\ FirstKey % Unit = 0 /\ None \notin Nat

IntegerPart(k) == k - (k % Unit)

\* KeyBetween fails when the keys are not in order.
KeysInOrder(a, b) == a # None /\ b # None => a < b

\* fracdex.KeyBetween
KeyBetween(a, b) ==
    CASE a = None /\ b = None -> FirstKey
      [] a = None /\ b # None -> IF IntegerPart(b) < b THEN IntegerPart(b) ELSE b - Unit
      [] a # None /\ b = None -> IntegerPart(a) + Unit
      [] OTHER -> LET next == IntegerPart(a) + Unit
                  IN  IF next < b THEN next ELSE (a + (IF b < next THEN b ELSE next)) \div 2

\* generateKeyFallback appends the digit "V": the middle after an integer key,
\* the next number after a fraction.
generateKeyFallback(a) ==
    CASE a = None -> FirstKey
      [] a # None /\ a % Unit = 0 -> a + Unit \div 2
      [] OTHER -> a + 1

\* generateKeyBetween of the local server
generateKeyBetween(a, b) == IF KeysInOrder(a, b) THEN KeyBetween(a, b) ELSE generateKeyFallback(a)

\* Is there a number for the key?  The bound on repeated halving, and on keys
\* before the first.
KeyFits(a, b) ==
    /\ generateKeyBetween(a, b) \in Nat
    /\ a # None /\ b # None /\ a < b => KeyBetween(a, b) > a

---------------------------------------------------------------------------
(* The neighbours that a position names, in a sequence of [order, id]. *)

Index(siblings, ref) == {i \in DOMAIN siblings : siblings[i].id = ref}

OrderAt(siblings, i) == IF i \in DOMAIN siblings THEN siblings[i].order ELSE None

\* Mutant: after a reference, the next record is ignored.
AroundOpen(siblings, kind, ref) ==
    LET i == CHOOSE x \in Index(siblings, ref) : TRUE
    IN  CASE kind = "first"  -> <<None, OrderAt(siblings, 1)>>
          [] kind = "last"   -> <<OrderAt(siblings, Len(siblings)), None>>
          [] kind = "before" -> <<OrderAt(siblings, i - 1), OrderAt(siblings, i)>>
          [] OTHER           -> <<OrderAt(siblings, i), None>>

\* The pair of keys around the position; the reference has been found.
Around(siblings, kind, ref) ==
    LET i == CHOOSE x \in Index(siblings, ref) : TRUE
    IN  CASE kind = "first"  -> <<None, OrderAt(siblings, 1)>>
          [] kind = "last"   -> <<OrderAt(siblings, Len(siblings)), None>>
          [] kind = "before" -> <<OrderAt(siblings, i - 1), OrderAt(siblings, i)>>
          [] OTHER           -> <<OrderAt(siblings, i), OrderAt(siblings, i + 1)>>

\* The position exists: computeDayOrder and computeFractionalIndex fail else.
ReferenceFound(siblings, kind, ref) == kind \in {"before", "after"} => Index(siblings, ref) # {}
=============================================================================
