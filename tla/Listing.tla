------------------------------ MODULE Listing ------------------------------
(***************************************************************************)
(* A client walks through a list endpoint page by page while the service   *)
(* goes on working.  BaseRepository.paginate answers each request with two *)
(* queries, a COUNT and a SELECT with OFFSET and LIMIT on the rows ordered *)
(* newest first, and other sessions commit between the two.                *)
(***************************************************************************)
EXTENDS Pagination, FiniteSets

CONSTANTS
  MaxRows,    \* bound on the rows there ever are in the table
  MaxLeaves,  \* bound on the times a row leaves the list during the walk
  Size,       \* size of the pages the client asks for
  Filtered    \* whether the list is filtered by a status that can change

ASSUME ListingAssumption ==
  /\ MaxRows \in Nat /\ MaxLeaves \in Nat
  /\ Size \in Nat \ {0}
  /\ Filtered \in BOOLEAN

VARIABLES
  rows,    \* the rows of the list, numbered in the order of `created`
  page,    \* the page the client asks for
  total,   \* the COUNT of the request being served, or of the last one
  step,    \* "counting", "selecting" or "done"
  seen,    \* the rows the client was shown
  stayed,  \* the rows that were in the list from the start and never left it
  left,    \* number of times a row left the list during the walk
  late     \* rows that entered it between the COUNT and the SELECT of a request

vars == <<rows, page, total, step, seen, stayed, left, late>>

\* The rows that are not in the list have another status, or come yet.
Init ==
  /\ rows \in SUBSET (1..MaxRows) /\ stayed = rows
  /\ page = 1 /\ total = 0 /\ step = "counting"
  /\ seen = {} /\ left = 0 /\ late = 0

Rank(row) == Cardinality({other \in rows : other > row})
PageRows == {row \in rows : OnPage(Rank(row), page, Size)}

CountRows ==
  /\ step = "counting"
  /\ total' = Cardinality(rows)
  /\ late' = 0
  /\ step' = "selecting"
  /\ UNCHANGED <<rows, page, seen, stayed, left>>

\* The page is read and answered; the client goes on while there is a next.
SelectRows ==
  /\ step = "selecting"
  /\ seen' = seen \cup PageRows
  /\ IF HasNext(page, total, Size)
       THEN page' = page + 1 /\ step' = "counting"
       ELSE page' = page /\ step' = "done"
  /\ UNCHANGED <<rows, total, stayed, left, late>>

\* Another session commits a row: a new one, whose `created` was set when the
\* object was made, before its writer waited for the lock, or an old one that
\* gets the status of the filter.  So a row may enter anywhere in the order.
EnterList(row) ==
  /\ row \notin rows
  /\ rows' = rows \cup {row}
  /\ late' = IF step = "selecting" THEN late + 1 ELSE late
  /\ UNCHANGED <<page, total, step, seen, stayed, left>>

\* Another session commits a row with another status than that of the filter.
LeaveFilter(row) ==
  /\ Filtered
  /\ left < MaxLeaves
  /\ row \in rows
  /\ rows' = rows \ {row} /\ stayed' = stayed \ {row}
  /\ left' = left + 1
  /\ UNCHANGED <<page, total, step, seen, late>>

Next ==
  \/ CountRows \/ SelectRows
  \/ \E row \in 1..MaxRows : EnterList(row) \/ LeaveFilter(row)

Spec == Init /\ [][Next]_vars

-----------------------------------------------------------------------------
(* The client's walk stays within the pages there can be: it ends.           *)
TypeOK ==
  /\ rows \subseteq 1..MaxRows /\ seen \subseteq 1..MaxRows /\ stayed \subseteq rows
  /\ page \in 1..MaxRows + 1 /\ total \in 0..MaxRows
  /\ step \in {"counting", "selecting", "done"}
  /\ left \in 0..MaxLeaves /\ late \in Nat

Missed == stayed \ seen

(* A client that follows has_next to the end has seen every row that was in  *)
(* the list all the time, except one for each time a row left the list and   *)
(* one for each row that entered it, new or old, between COUNT and SELECT of *)
(* the last request: those two queries are not one transaction.              *)
MissesBounded ==
  step = "done" => Cardinality(Missed) <= left + late
=============================================================================
