----------------------------- MODULE Pagination -----------------------------
(***************************************************************************)
(* The arithmetic of shared/pagination: which rows a page shows and what   *)
(* it says of the pages around it.  Pages are counted from 1, rows from 0. *)
(***************************************************************************)
EXTENDS Integers

\* Mutation: pages counted from 0.
OffsetFromZero(page, size) == page * size
Offset(page, size) == (page - 1) * size
Limit(size) == size

\* math.ceil(total / size), and no page at all without rows.
Pages(total, size) == IF total > 0 THEN (total + size - 1) \div size ELSE 0

\* Mutation: there is a next page as long as there are rows.
HasNextWhileRows(page, total, size) == total > 0
HasNext(page, total, size) == page < Pages(total, size)
HasPrevious(page, total) == page > 1 /\ total > 0

\* The rows of a page are those of these ranks.
OnPage(rank, page, size) ==
  Offset(page, size) <= rank /\ rank < Offset(page, size) + Limit(size)
=============================================================================
