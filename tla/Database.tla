------------------------------ MODULE Database ------------------------------
(***************************************************************************)
(* The SQLite database as the service's sessions use it (infra/db/session, *)
(* shared/repository).  In WAL mode a SELECT outside a write transaction   *)
(* reads the last committed tables; the first flush of a session takes the *)
(* one write lock, which the session keeps until its commit or rollback.   *)
(* So there is one set of uncommitted tables: those of the writer.         *)
(***************************************************************************)
EXTENDS PaymentData

VARIABLES
  db,      \* the committed tables
  work,    \* the tables as the writer sees them; db when nobody writes
  writer   \* the process holding the write lock, or None

dbVars == <<db, work, writer>>

DatabaseTypeOK ==
  /\ db \in Tables
  /\ work \in Tables
  /\ writer \in Processes \cup {None}

DatabaseInit ==
  /\ db = EmptyTables
  /\ work = EmptyTables
  /\ writer = None

\* p flushes: it takes the write lock unless it already holds it.
Flush(p, tables) ==
  /\ writer \in {None, p}
  /\ writer' = p
  /\ work' = tables
  /\ db' = db

\* p makes the tables it sees permanent, flushing first what is left to flush.
Commit(p, tables) ==
  /\ writer \in {None, p}
  /\ db' = tables
  /\ work' = tables
  /\ writer' = None

\* p closes its session; what it flushed is undone.
Rollback(p) ==
  IF writer = p
    THEN /\ work' = db
         /\ writer' = None
         /\ db' = db
    ELSE UNCHANGED dbVars

\* The write lock is somebody else's: a flush of p waits, and can time out.
LockedOut(p) == writer \notin {None, p}
=============================================================================
