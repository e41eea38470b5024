----------------------------- MODULE UnitOfWork -----------------------------
(***************************************************************************)
(* What a commit of the backend writes.  A request has a database session  *)
(* of its own (get_db) with autoflush off.  It reads rows into objects,    *)
(* changes the objects, and adds new ones; SQLite runs its SELECTs outside *)
(* of any transaction.  The commit writes the columns whose value differs  *)
(* from the one that was read, over whatever the rows say by then, and     *)
(* inserts the new rows.  "old" is what the request read, "new" what it    *)
(* made of it, and the first argument what the database has by now.        *)
(***************************************************************************)
EXTENDS Naturals, Sequences

\* An UPDATE writes the columns that the request changed.
WrittenRow(row, old, new) == [c \in DOMAIN row |-> IF new[c] = old[c] THEN row[c] ELSE new[c]]

\* A table whose rows are numbered as they come: no row is ever deleted.
WrittenTable(table, old, new) ==
  [s \in 1 .. Len(old) |-> WrittenRow(table[s], old[s], new[s])]
    \o SubSeq(table, Len(old) + 1, Len(table))
    \o SubSeq(new, Len(old) + 1, Len(new))

\* A table of rows that are only inserted.
Inserted(old, new) == new \ old
=============================================================================
