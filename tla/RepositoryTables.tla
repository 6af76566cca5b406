-------------------------- MODULE RepositoryTables --------------------------
(***************************************************************************)
(* What the two backends of the repository interface share: the shape of a *)
(* store, the errors of the interface, and small relational helpers.       *)
(*                                                                         *)
(* A store is a record of tables; a table is a set of rows.  "fired" counts*)
(* the firings of the sync version triggers in the last call, per user.  A *)
(* child row is named by its (record, filename), which the schemas make    *)
(* unique, where the code uses a surrogate number.                         *)
(*   records   [id, user, proj, dev, body, upd, del]                       *)
(*   figures, dataFiles   [rec, name, meta]                                *)
(*   templates [name, html, upd]     projects, devices [id,user,upd,arch]  *)
(*   paths     [user, proj, path, dev, upd]                                *)
(*   sessions  [id, user, src, dev, proj, cwd, title, start, last, orig,   *)
(*              upd, del]            items [sess, ord, text]               *)
(***************************************************************************)
EXTENDS Naturals, FiniteSets, Sequences, SequencesExt

CONSTANTS None,           \* SQL NULL
          Users,          \* accounts of the cloud database
          TicksPerMilli   \* clock readings in a millisecond

ASSUME TicksAssumption == TicksPerMilli \in Nat \ {0}

EmptyStore ==
    [records |-> {}, figures |-> {}, dataFiles |-> {}, templates |-> {},
     projects |-> {}, devices |-> {}, paths |-> {}, sessions |-> {},
     items |-> {}, fired |-> [u \in Users |-> 0]]

\* The classes of error that callers tell apart.
Errors == {"not_found", "conflict", "foreign_key"}

ASSUME NoneAssumption == None \notin Errors \cup Nat

Ok(s, v) == [store |-> s, err |-> None, val |-> v]

Err(s, e) == [store |-> s, err |-> e, val |-> None]

Coalesce(a, b) == IF a = None THEN b ELSE a

Lesser(a, b) == IF a <= b THEN a ELSE b

Greater(a, b) == IF a <= b THEN b ELSE a

\* A timestamp as SQLite stores it: text with milliseconds.
FormatUTCMillis(t) == IF t = None THEN None ELSE t - (t % TicksPerMilli)

\* The columns of a row that do not carry its modification time.
Columns(row) ==
    IF "upd" \in DOMAIN row THEN [row EXCEPT !.upd = None] ELSE row

\* Filenames and ordinals that an INSERT of every element would repeat.
Repeats(seq) == \E i, j \in DOMAIN seq : i # j /\ seq[i] = seq[j]

Column(seq, f(_)) == [i \in DOMAIN seq |-> f(seq[i])]

\* A registered directory contains a working directory.
InDirectory(path, cwd) == cwd # None /\ IsPrefix(path, cwd)

=============================================================================
