--------------------------- MODULE MCLocalServer ----------------------------
(* Three IDs of one day: a record in the trash and room for new ones, or     *)
(* three records, one of them in the trash with the key of another one.      *)
EXTENDS LocalServer, TLC

Symmetry == Permutations(Requests)

MCIds == 1..3

Row(date, order, del) ==
    [date |-> date, order |-> order, notes |-> 0, project |-> 0, del |-> del, upd |-> 0, ver |-> 1]

MCFirstRecords ==
    {[id \in MCIds |-> IF id # 1 THEN None ELSE Row(1, FirstKey, TRUE)],
     [id \in MCIds |-> Row(1, FirstKey + (IF id = 1 THEN 0 ELSE Unit), id = 3)]}

\* One record, and one in the trash.
MCFirstOne ==
    {[id \in MCIds |-> IF id = 3 THEN None ELSE Row(1, FirstKey + (id - 1) * Unit, id = 2)]}
=============================================================================
