----------------------------- MODULE UnitOfWork -----------------------------
(***************************************************************************)
(* What the SQLAlchemy session of database.py (autoflush off, one session  *)
(* per request) and a PostgreSQL database at READ COMMITTED do with a row  *)
(* that a request loaded, changed in memory and flushed.                   *)
(*                                                                         *)
(* A request holds two copies of the row: `loaded', what its SELECT saw,   *)
(* and `mine', the object it has been assigning to.  Its UPDATE names only *)
(* the columns in which the two differ, and PostgreSQL applies it to the   *)
(* row as it is THEN, not as it was loaded.                                *)
(***************************************************************************)

\* Mutant: the UPDATE writes every column as the session has it.
WholeRow(row, loaded, mine) == mine

\* The UPDATE of one row: the columns the session changed take its value, the
\* others keep whatever other transactions have committed meanwhile.
Merge(row, loaded, mine) ==
    [c \in DOMAIN row |-> IF mine[c] = loaded[c] THEN row[c] ELSE mine[c]]

\* The session emits an UPDATE, and so takes the row's lock, only if a column
\* differs from what was loaded: an assignment of the loaded value is no change.
Dirty(loaded, mine) == mine # loaded

\* A row lock is free for p if nobody holds it or p holds it already; an UPDATE
\* of a row another transaction holds waits until that transaction ends.
Available(lock, p, nobody) == lock \in {nobody, p}

\* The locks of `lock' after p's transaction ends, by commit or rollback.
Released(lock, p, nobody) ==
    [row \in DOMAIN lock |-> IF lock[row] = p THEN nobody ELSE lock[row]]
=============================================================================
