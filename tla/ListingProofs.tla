---------------------------- MODULE ListingProofs ----------------------------
(***************************************************************************)
(* What a walk through the pages misses.  Rows are ranked newest first, so *)
(* a row that enters pushes the older ones to later pages, where the walk  *)
(* still comes by, and a row that leaves pulls them forward by one: at     *)
(* most one row slips to a page that was read already.  The last page is   *)
(* the one that COUNT says is the last: beyond it there are no more rows   *)
(* than entered since, though not always the same ones.                    *)
(***************************************************************************)
EXTENDS Listing, Counting

Above(S, row) == {other \in S : other > row}

\* The unseen rows on pages that the walk has passed.
Behind == {row \in stayed : row \notin seen /\ Rank(row) < Offset(page, Size)}

WalkInv ==
  /\ rows \subseteq 1..MaxRows /\ stayed \subseteq rows /\ seen \subseteq 1..MaxRows
  /\ page \in 1..MaxRows + 1 /\ total \in 0..MaxRows
  /\ left \in 0..MaxLeaves /\ late \in Nat
  /\ step \in {"counting", "selecting", "done"}

ListingInv ==
  /\ WalkInv
  /\ step = "selecting" => Cardinality(rows) <= total + late
  /\ step # "done" => AtMost(Behind, left)
  /\ step = "done" => AtMost(Missed, left + late)

-----------------------------------------------------------------------------
\* The arithmetic of pages.

(* There are no more pages than rows, and the pages have room for all of     *)
(* them, but not without the last one.                                       *)
LEMMA PagesHoldAll ==
  ASSUME NEW n \in Nat
  PROVE  /\ Pages(n, Size) \in Nat /\ Pages(n, Size) <= n
         /\ Pages(n, Size) * Size >= n
         /\ n > 0 => Pages(n, Size) >= 1 /\ (Pages(n, Size) - 1) * Size < n
<1>1. Size \in Nat /\ Size >= 1
  BY ListingAssumption
<1>2. CASE n = 0
  BY <1>1, <1>2 DEF Pages
<1>3. CASE n > 0
  <2> DEFINE q == (n + Size - 1) \div Size
             m == n + Size - 1
  <2>1. m \in Nat /\ q \in Int /\ m = Size * q + (m % Size) /\ m % Size \in 0..(Size - 1)
    BY <1>1
  <2>2. Pages(n, Size) = q /\ m = n + Size - 1
    BY <1>3 DEF Pages
  <2> HIDE DEF q, m
  <2>3. Size * q >= n
    BY <1>1, <2>1, <2>2
  <2>4. q >= 1
    BY <1>1, <1>3, <2>1, <2>3
  <2>5. Size * q <= n + Size - 1
    BY <1>1, <2>1, <2>2
  <2>6. q <= n
    <3>1. Size * (q - 1) <= n - 1
      BY <1>1, <2>1, <2>5
    <3>2. q - 1 <= Size * (q - 1)
      BY <1>1, <2>1, <2>4
    <3>3. QED BY <1>1, <2>1, <3>1, <3>2
  <2>7. q * Size >= n /\ (q - 1) * Size < n
    BY <1>1, <2>1, <2>3, <2>5
  <2>8. QED BY <1>1, <1>3, <2>1, <2>2, <2>4, <2>6, <2>7
<1>4. QED BY <1>2, <1>3

(* Pages follow each other without a gap. *)
LEMMA OffsetsGo ==
  ASSUME NEW n \in Nat \ {0}
  PROVE  /\ Offset(n, Size) \in Nat /\ Offset(n + 1, Size) = Offset(n, Size) + Size
         /\ Offset(n + 1, Size) = n * Size
         /\ \A k \in Nat : OnPage(k, n, Size) <=> Offset(n, Size) <= k /\ k < Offset(n + 1, Size)
<1>1. Size \in Nat /\ Size >= 1
  BY ListingAssumption
<1>2. Offset(n, Size) = (n - 1) * Size /\ Offset(n + 1, Size) = n * Size
  BY DEF Offset
<1>3. (n - 1) * Size \in Nat /\ n * Size = (n - 1) * Size + Size
  BY <1>1
<1>4. QED BY <1>1, <1>2, <1>3 DEF OnPage, Limit

(* More pages have room for more rows. *)
LEMMA PagesGrow ==
  ASSUME NEW a \in Nat, NEW b \in Nat
  PROVE  a * Size \in Nat /\ b * Size \in Nat /\ (a * Size < b * Size <=> a < b)
<1>1. Size \in Nat /\ Size >= 1
  BY ListingAssumption
<1>2. a * Size \in Nat /\ b * Size \in Nat
  BY <1>1
<1>3. ASSUME a < b
      PROVE  a * Size < b * Size
  <2>1. b * Size = a * Size + (b - a) * Size
    BY <1>1
  <2>2. (b - a) * Size >= 1 /\ (b - a) * Size \in Nat
    BY <1>1, <1>3
  <2>3. QED BY <1>2, <2>1, <2>2
<1>4. ASSUME ~(a < b)
      PROVE  ~(a * Size < b * Size)
  <2>1. a * Size = b * Size + (a - b) * Size
    BY <1>1
  <2>2. (a - b) * Size >= 0 /\ (a - b) * Size \in Nat
    BY <1>1, <1>4
  <2>3. QED BY <1>2, <2>1, <2>2
<1>5. QED BY <1>2, <1>3, <1>4

(* The pages a list is said to have show each of its rows once: OFFSET and   *)
(* LIMIT of the query agree with the number of pages in the answer.          *)
THEOREM PagesPartition ==
  \A n \in Nat : \A rank \in 0..n - 1 :
    \E here \in 1..Pages(n, Size) :
      \A there \in Nat \ {0} : OnPage(rank, there, Size) <=> there = here
<1> SUFFICES ASSUME NEW n \in Nat, NEW rank \in 0..n - 1
             PROVE  \E here \in 1..Pages(n, Size) :
                      \A there \in Nat \ {0} : OnPage(rank, there, Size) <=> there = here
  OBVIOUS
<1>1. Size \in Nat /\ Size >= 1
  BY ListingAssumption
<1>2. PICK q \in Nat : q * Size <= rank /\ rank < (q + 1) * Size
  <2> DEFINE k == rank \div Size
  <2>1. rank = Size * k + (rank % Size) /\ rank % Size \in 0..Size - 1 /\ k \in Nat
    BY <1>1
  <2> HIDE DEF k
  <2>2. k * Size <= rank /\ rank < (k + 1) * Size
    BY <1>1, <2>1
  <2>3. QED BY <2>1, <2>2
<1>3. q + 1 \in 1..Pages(n, Size)
  <2>1. Pages(n, Size) \in Nat /\ Pages(n, Size) * Size >= n
    BY PagesHoldAll
  <2>2. PICK m \in Nat : m = Pages(n, Size)
    BY <2>1
  <2>3. q * Size < m * Size
    BY <1>1, <1>2, <2>1, <2>2
  <2>4. q < m
    BY <2>3, PagesGrow
  <2>5. QED BY <2>2, <2>4
<1>4. ASSUME NEW there \in Nat \ {0}
      PROVE  OnPage(rank, there, Size) <=> there = q + 1
  <2>1. PICK p \in Nat : there = p + 1
    <3>1. there - 1 \in Nat /\ there = (there - 1) + 1
      OBVIOUS
    <3>2. QED BY <3>1
  <2>2. OnPage(rank, there, Size) <=> p * Size <= rank /\ rank < (p + 1) * Size
    <3>1. Offset(there, Size) = p * Size /\ Offset(there + 1, Size) = there * Size
      BY <2>1 DEF Offset
    <3>2. QED BY <2>1, <3>1, OffsetsGo
  <2>3. p + 1 \in Nat /\ q + 1 \in Nat
    OBVIOUS
  <2>4. p * Size \in Nat /\ q * Size \in Nat
        /\ (p + 1) * Size \in Nat /\ (q + 1) * Size \in Nat
        /\ (q * Size < (p + 1) * Size <=> q < p + 1)
        /\ (p * Size < (q + 1) * Size <=> p < q + 1)
    BY <2>3, PagesGrow
  <2>5. CASE p = q
    BY <1>2, <2>1, <2>2, <2>5
  <2>6. CASE p # q
    BY <1>2, <2>1, <2>2, <2>4, <2>6
  <2>7. QED BY <2>5, <2>6
<1>5. QED BY <1>3, <1>4

(* A page says that there is a next one exactly when a row is left for it,   *)
(* and a previous one exactly when a row comes before it: who follows        *)
(* has_next is neither sent to an empty page nor stopped before the last.    *)
THEOREM NextPageIsNotEmpty ==
  \A n \in Nat, here \in Nat \ {0} :
    /\ HasNext(here, n, Size) <=> \E rank \in 0..n - 1 : rank >= Offset(here + 1, Size)
    /\ HasPrevious(here, n) <=> \E rank \in 0..n - 1 : rank < Offset(here, Size)
<1> SUFFICES ASSUME NEW n \in Nat, NEW here \in Nat \ {0}
             PROVE  /\ HasNext(here, n, Size)
                         <=> \E rank \in 0..n - 1 : rank >= Offset(here + 1, Size)
                    /\ HasPrevious(here, n)
                         <=> \E rank \in 0..n - 1 : rank < Offset(here, Size)
  OBVIOUS
<1>1. Size \in Nat /\ Size >= 1
  BY ListingAssumption
<1>2. PICK m \in Nat : m = Pages(n, Size) /\ m * Size >= n
                       /\ (n > 0 => m >= 1 /\ (m - 1) * Size < n)
  BY PagesHoldAll
<1>3. Offset(here + 1, Size) = here * Size /\ here * Size \in Nat
  <2>1. here * Size \in Nat
    BY <1>1
  <2>2. QED BY <2>1, OffsetsGo
<1>4. ASSUME here < m
      PROVE  \E rank \in 0..n - 1 : rank >= here * Size
  <2>1. n > 0
    BY <1>2, <1>4 DEF Pages
  <2>2. m - 1 \in Nat /\ ~(m - 1 < here)
    BY <1>4
  <2>3. (m - 1) * Size \in Nat /\ ~((m - 1) * Size < here * Size)
    BY <2>2, PagesGrow
  <2>4. here * Size \in 0..n - 1
    BY <1>2, <1>3, <2>1, <2>3
  <2>5. QED BY <1>3, <2>4
<1>5. ASSUME NEW rank \in 0..n - 1, rank >= here * Size
      PROVE  here < m
  <2>1. here * Size < m * Size
    BY <1>1, <1>2, <1>3, <1>5
  <2>2. QED BY <2>1, PagesGrow
<1>6. HasPrevious(here, n) <=> \E rank \in 0..n - 1 : rank < Offset(here, Size)
  <2>1. CASE here = 1
    <3>1. Offset(here, Size) = 0
      BY <1>1, <2>1 DEF Offset
    <3>2. QED BY <2>1, <3>1 DEF HasPrevious
  <2>2. CASE here > 1
    <3>1. here - 1 \in Nat /\ 0 < here - 1 /\ 0 \in Nat
      BY <2>2
    <3>2. (here - 1) * Size \in Nat /\ 0 * Size < (here - 1) * Size
      BY <3>1, PagesGrow
    <3>3. Offset(here, Size) >= 1 /\ Offset(here, Size) \in Nat
      BY <1>1, <3>2 DEF Offset
    <3>4. n > 0 => 0 \in 0..n - 1
      OBVIOUS
    <3>5. QED BY <2>2, <3>3, <3>4 DEF HasPrevious
  <2>3. QED BY <2>1, <2>2
<1>7. QED BY <1>2, <1>3, <1>4, <1>5, <1>6 DEF HasNext

-----------------------------------------------------------------------------
\* Ranks.

(* There are at most as many numbers as the greatest of them.                *)
LEMMA UpTo ==
  ASSUME NEW n \in Nat, NEW S, S \subseteq 1..n
  PROVE  /\ IsFiniteSet(S) /\ Cardinality(S) \in Nat /\ Cardinality(S) <= n
<1>1. IsFiniteSet(1..n) /\ Cardinality(1..n) = n
  BY FS_Interval
<1>2. IsFiniteSet(S) /\ Cardinality(S) <= n
  BY <1>1, FS_Subset
<1>3. QED BY <1>2, FS_CardinalityType

(* The rows that are newer than a given one, and what becomes of them when a *)
(* row is added or removed.                                                  *)
LEMMA RankChanges ==
  ASSUME NEW n \in Nat, NEW S, S \subseteq 1..n, NEW row \in 1..n
  PROVE  /\ Cardinality(Above(S, row)) \in Nat
         /\ \A m \in Nat : Cardinality(Above(S, row)) <= Cardinality(Above(S \cup {m}, row))
         /\ \A m \in 1..n : Cardinality(Above(S, row)) <= Cardinality(Above(S \ {m}, row)) + 1
<1>1. IsFiniteSet(Above(S, row)) /\ Cardinality(Above(S, row)) \in Nat
  <2>1. Above(S, row) \subseteq 1..n
    BY DEF Above
  <2>2. QED BY <2>1, UpTo
<1>2. ASSUME NEW m \in Nat
      PROVE  Cardinality(Above(S, row)) <= Cardinality(Above(S \cup {m}, row))
  <2>1. CASE m > row
    <3>1. Above(S \cup {m}, row) = Above(S, row) \cup {m}
      BY <2>1 DEF Above
    <3>2. Cardinality(Above(S, row) \cup {m})
            \in {Cardinality(Above(S, row)), Cardinality(Above(S, row)) + 1}
      BY <1>1, FS_AddElement
    <3>3. QED BY <1>1, <3>1, <3>2
  <2>2. CASE ~(m > row)
    <3>1. Above(S \cup {m}, row) = Above(S, row)
      BY <2>2 DEF Above
    <3>2. QED BY <1>1, <3>1
  <2>3. QED BY <2>1, <2>2
<1>3. ASSUME NEW m \in 1..n
      PROVE  Cardinality(Above(S, row)) <= Cardinality(Above(S \ {m}, row)) + 1
  <2>1. Above(S \ {m}, row) = Above(S, row) \ {m}
    BY DEF Above
  <2>2. CASE m \in Above(S, row)
    <3>1. Cardinality(Above(S, row) \ {m}) = Cardinality(Above(S, row)) - 1
      BY <1>1, <2>2, FS_RemoveElement
    <3>2. Cardinality(Above(S \ {m}, row)) = Cardinality(Above(S, row)) - 1
      BY <2>1, <3>1
    <3>3. QED BY <1>1, <3>2
  <2>3. CASE m \notin Above(S, row)
    <3>1. Above(S, row) \ {m} = Above(S, row)
      BY <2>3
    <3>2. QED BY <1>1, <2>1, <3>1
  <2>4. QED BY <2>2, <2>3
<1>4. QED BY <1>1, <1>2, <1>3

(* No two rows have the same rank. *)
LEMMA RanksDiffer ==
  ASSUME NEW n \in Nat, NEW S, S \subseteq 1..n, NEW old \in S, NEW new \in S, old < new
  PROVE  Cardinality(Above(S, new)) < Cardinality(Above(S, old))
<1>1. /\ IsFiniteSet(Above(S, new)) /\ Cardinality(Above(S, new)) \in Nat
      /\ IsFiniteSet(Above(S, old)) /\ Cardinality(Above(S, old)) \in Nat
  <2>1. Above(S, new) \subseteq 1..n /\ Above(S, old) \subseteq 1..n
    BY DEF Above
  <2>2. QED BY <2>1, UpTo
<1>2. new \notin Above(S, new) /\ Above(S, new) \cup {new} \subseteq Above(S, old)
  <2>1. old \in Nat /\ new \in Nat /\ \A other \in S : other \in Nat
    OBVIOUS
  <2>2. new \notin Above(S, new) /\ new \in Above(S, old)
    BY <2>1 DEF Above
  <2>3. \A other \in S : other > new => other > old
    BY <2>1
  <2>4. Above(S, new) \subseteq Above(S, old)
    BY <2>3 DEF Above
  <2>5. QED BY <2>2, <2>4
<1>3. /\ IsFiniteSet(Above(S, new) \cup {new})
      /\ Cardinality(Above(S, new) \cup {new}) = Cardinality(Above(S, new)) + 1
  BY <1>1, <1>2, FS_AddElement
<1>4. Cardinality(Above(S, new) \cup {new}) <= Cardinality(Above(S, old))
  BY <1>1, <1>2, FS_Subset
<1>5. QED BY <1>1, <1>3, <1>4

(* The rows from rank n on are those beyond the first n.                     *)
LEMMA RowsBeyond ==
  ASSUME NEW c \in Nat, NEW S, S \subseteq 1..c, NEW n \in Nat, NEW k \in Nat,
         Cardinality(S) <= n + k
  PROVE  AtMost({row \in S : Cardinality(Above(S, row)) >= n}, k)
<1> DEFINE A == {row \in S : Cardinality(Above(S, row)) >= n}
<1>1. CASE A = {}
  <2> HIDE DEF A
  <2>1. AtMost(A, k)
    BY <1>1, NoneAtMost, Fewer
  <2>2. QED BY <2>1 DEF A
<1>2. CASE A # {}
  <2>1. PICK m \in A : \A row \in A : row <= m
    <3>1. A \subseteq S /\ S \subseteq 0..c
      OBVIOUS
    <3> HIDE DEF A
    <3>2. QED BY <1>2, <3>1, LargestIs
  <2>2. m \in S /\ m \in Nat /\ Cardinality(Above(S, m)) >= n
    OBVIOUS
  <2>3. A \subseteq S /\ \A row \in A : row \in Nat
    OBVIOUS
  <2> HIDE DEF A
  <2>4. A \subseteq S \ Above(S, m)
    BY <2>1, <2>2, <2>3 DEF Above
  <2>5. /\ IsFiniteSet(S) /\ Cardinality(S) \in Nat
        /\ IsFiniteSet(Above(S, m)) /\ Cardinality(Above(S, m)) \in Nat
    <3>1. Above(S, m) \subseteq 1..c
      BY DEF Above
    <3>2. IsFiniteSet(S) /\ Cardinality(S) \in Nat
      BY UpTo
    <3>3. IsFiniteSet(Above(S, m)) /\ Cardinality(Above(S, m)) \in Nat
      BY <3>1, UpTo
    <3>4. QED BY <3>2, <3>3
  <2>6. /\ IsFiniteSet(S \ Above(S, m))
        /\ Cardinality(S \ Above(S, m)) = Cardinality(S) - Cardinality(Above(S, m))
    <3>1. S \cap Above(S, m) = Above(S, m)
      BY DEF Above
    <3>2. QED BY <2>5, <3>1, FS_Difference
  <2>7. AtMost(S \ Above(S, m), k) /\ k <= k
    BY <2>2, <2>5, <2>6 DEF AtMost
  <2>8. AtMost(A, k)
    BY <2>4, <2>7, Fewer
  <2>9. QED BY <2>8 DEF A
<1>3. QED BY <1>1, <1>2

-----------------------------------------------------------------------------
\* The steps of the walk.

(* Counting the rows bounds what SELECT will find.                           *)
LEMMA CountWalks ==
  ASSUME ListingInv, CountRows
  PROVE  ListingInv'
<1>1. Cardinality(rows) \in 0..MaxRows /\ WalkInv /\ step = "counting"
  <2>1. MaxRows \in Nat /\ rows \subseteq 1..MaxRows
    BY ListingAssumption DEF ListingInv, WalkInv
  <2>2. Cardinality(rows) \in Nat /\ Cardinality(rows) <= MaxRows
    BY <2>1, UpTo
  <2>3. QED BY <2>1, <2>2 DEF ListingInv, CountRows
<1>2. WalkInv'
  BY <1>1, ListingAssumption DEF WalkInv, CountRows
<1>3. (step = "selecting" => Cardinality(rows) <= total + late)'
  BY <1>1 DEF CountRows
<1>4. (step # "done" => AtMost(Behind, left))'
  <2>1. Behind' = Behind /\ left' = left
    BY DEF CountRows, Behind, Rank
  <2>2. AtMost(Behind, left)
    BY <1>1 DEF ListingInv
  <2>3. QED BY <2>1, <2>2 DEF AtMost
<1>5. (step = "done" => AtMost(Missed, left + late))'
  BY DEF CountRows
<1>6. QED BY <1>2, <1>3, <1>4, <1>5 DEF ListingInv

(* Reading a page shows all of it, and after the last page what was not      *)
(* shown was not counted.                                                    *)
LEMMA SelectWalks ==
  ASSUME ListingInv, SelectRows
  PROVE  ListingInv'
<1>1. /\ WalkInv /\ step = "selecting" /\ Cardinality(rows) <= total + late
      /\ AtMost(Behind, left)
  BY DEF ListingInv, SelectRows
<1>2. /\ MaxRows \in Nat /\ rows \subseteq 1..MaxRows /\ stayed \subseteq rows
      /\ page \in Nat \ {0} /\ total \in Nat /\ late \in Nat /\ total <= MaxRows
  BY <1>1, ListingAssumption DEF WalkInv
<1>3. \A row \in rows : Rank(row) \in Nat /\ Rank(row) = Cardinality(Above(rows, row))
  BY <1>2, RankChanges DEF Rank, Above
<1>4. left \in Nat
  BY <1>1, ListingAssumption DEF WalkInv
<1>5. seen' = seen \cup PageRows /\ UNCHANGED <<rows, total, stayed, left, late>>
  BY DEF SelectRows
<1>6. PageRows \subseteq rows
  BY DEF PageRows
<1>7. \A row \in rows : row \notin seen' => row \notin seen /\ ~OnPage(Rank(row), page, Size)
  BY <1>5 DEF PageRows
<1>8. CASE HasNext(page, total, Size)
  <2>1. page' = page + 1 /\ step' = "counting"
    BY <1>8 DEF SelectRows
  <2>2. page + 1 <= MaxRows + 1
    BY <1>2, <1>8, PagesHoldAll DEF HasNext
  <2>3. WalkInv'
    BY <1>1, <1>2, <1>5, <1>6, <2>1, <2>2 DEF WalkInv
  <2>4. Behind' \subseteq Behind
    <3> SUFFICES ASSUME NEW row \in Behind'
                 PROVE  row \in Behind
      OBVIOUS
    <3>1. Rank(row)' = Rank(row)
      BY <1>5 DEF Rank
    <3>2. /\ row \in rows /\ row \in stayed /\ row \notin seen'
          /\ Rank(row) < Offset(page + 1, Size)
      BY <1>2, <1>5, <2>1, <3>1 DEF Behind
    <3>3. row \notin seen /\ ~OnPage(Rank(row), page, Size) /\ Rank(row) \in Nat
      BY <1>3, <1>7, <3>2
    <3>4. Rank(row) < Offset(page, Size)
      BY <1>2, <3>2, <3>3, OffsetsGo
    <3>5. QED BY <3>2, <3>3, <3>4 DEF Behind
  <2>5. AtMost(Behind', left)
    BY <1>1, <1>4, <2>4, Fewer
  <2>6. (step # "done" => AtMost(Behind, left))'
    BY <1>5, <2>5 DEF AtMost
  <2>7. QED BY <2>1, <2>3, <2>6 DEF ListingInv
<1>9. CASE ~HasNext(page, total, Size)
  <2>1. page' = page /\ step' = "done"
    BY <1>9 DEF SelectRows
  <2>2. WalkInv'
    BY <1>1, <1>2, <1>5, <1>6, <2>1 DEF WalkInv
  <2> DEFINE Later == {row \in rows : Cardinality(Above(rows, row)) >= page * Size}
  <2>3. page * Size >= total /\ page * Size \in Nat
    <3>1. /\ page >= Pages(total, Size) /\ Pages(total, Size) \in Nat
          /\ Pages(total, Size) * Size >= total /\ Size \in Nat
      BY <1>2, <1>9, PagesHoldAll, ListingAssumption DEF HasNext
    <3>2. page * Size >= Pages(total, Size) * Size /\ page * Size \in Nat
      <4> DEFINE q == Pages(total, Size)
      <4>1. page \in Nat /\ q \in Nat /\ Size \in Nat /\ page >= q
        BY <1>2, <3>1
      <4> HIDE DEF q
      <4>2. page * Size >= q * Size /\ page * Size \in Nat
        BY <4>1
      <4>3. QED BY <4>2 DEF q
    <3>3. Pages(total, Size) * Size \in Nat
      BY <3>1
    <3>4. QED BY <1>2, <3>1, <3>2, <3>3
  <2>4. AtMost(Later, late)
    <3>1. Cardinality(rows) \in Nat
      BY <1>2, UpTo
    <3>2. Cardinality(rows) <= page * Size + late
      BY <1>1, <1>2, <2>3, <3>1
    <3>3. QED BY <1>2, <2>3, <3>2, RowsBeyond
  <2>5. AtMost(Behind \cup Later, left + late)
    BY <1>1, <1>2, <1>4, <2>4, Together
  <2>6. Missed' \subseteq Behind \cup Later
    <3> SUFFICES ASSUME NEW row \in Missed'
                 PROVE  row \in Behind \cup Later
      OBVIOUS
    <3>1. row \in rows /\ row \in stayed /\ row \notin seen'
      BY <1>2, <1>5 DEF Missed
    <3>2. row \notin seen /\ ~OnPage(Rank(row), page, Size) /\ Rank(row) \in Nat
      BY <1>3, <1>7, <3>1
    <3>3. Rank(row) < Offset(page, Size) \/ Rank(row) >= page * Size
      <4>1. /\ Offset(page, Size) \in Nat /\ Offset(page + 1, Size) = page * Size
            /\ ~(Offset(page, Size) <= Rank(row) /\ Rank(row) < Offset(page + 1, Size))
        BY <1>2, <3>2, OffsetsGo
      <4>2. QED BY <2>3, <3>2, <4>1
    <3>4. QED BY <1>3, <3>1, <3>2, <3>3 DEF Behind
  <2>7. AtMost(Missed', left + late)
    <3> HIDE DEF Later
    <3>1. left + late \in Nat /\ left + late <= left + late
      BY <1>2, <1>4
    <3>2. QED BY <2>5, <2>6, <3>1, Fewer
  <2>8. (step = "done" => AtMost(Missed, left + late))'
    BY <1>5, <2>7 DEF AtMost
  <2>9. QED BY <2>1, <2>2, <2>8 DEF ListingInv
<1>10. QED BY <1>8, <1>9

(* A row that enters pushes the older ones back, where the walk still comes  *)
(* by.                                                                       *)
LEMMA EnterWalks ==
  ASSUME ListingInv, NEW new \in 1..MaxRows, EnterList(new)
  PROVE  ListingInv'
<1>1. WalkInv
  BY DEF ListingInv
<1>2. /\ MaxRows \in Nat /\ rows \subseteq 1..MaxRows /\ stayed \subseteq rows
      /\ late \in Nat /\ left \in Nat /\ total \in Nat /\ new \notin rows
  BY <1>1, ListingAssumption DEF WalkInv, EnterList
<1>3. /\ rows' = rows \cup {new}
      /\ late' \in {late, late + 1} /\ (step = "selecting" => late' = late + 1)
      /\ UNCHANGED <<page, total, step, seen, stayed, left>>
  BY DEF EnterList
<1>4. WalkInv'
  BY <1>1, <1>2, <1>3 DEF WalkInv
<1>5. Cardinality(rows) \in Nat /\ Cardinality(rows') = Cardinality(rows) + 1
  <2>1. IsFiniteSet(rows) /\ Cardinality(rows) \in Nat
    BY <1>2, UpTo
  <2>2. Cardinality(rows \cup {new}) = Cardinality(rows) + 1
    BY <1>2, <2>1, FS_AddElement
  <2>3. QED BY <1>3, <2>1, <2>2
<1>6. (step = "selecting" => Cardinality(rows) <= total + late)'
  <2> SUFFICES ASSUME step = "selecting"
               PROVE  Cardinality(rows') <= total' + late'
    BY <1>3
  <2>1. Cardinality(rows) <= total + late
    BY DEF ListingInv
  <2>2. QED BY <1>2, <1>3, <1>5, <2>1
<1>7. (step # "done" => AtMost(Behind, left))'
  <2> SUFFICES ASSUME step # "done"
               PROVE  AtMost(Behind', left)
    BY <1>3 DEF AtMost
  <2>1. Behind' \subseteq Behind
    <3> SUFFICES ASSUME NEW row \in Behind'
                 PROVE  row \in Behind
      OBVIOUS
    <3>1. row \in rows /\ row \in 1..MaxRows /\ row \in stayed /\ row \notin seen
      BY <1>2, <1>3 DEF Behind
    <3>2. Cardinality(Above(rows, row)) <= Cardinality(Above(rows \cup {new}, row))
      <4>1. new \in Nat
        OBVIOUS
      <4>2. QED BY <1>2, <3>1, <4>1, RankChanges
    <3>3. /\ Rank(row) = Cardinality(Above(rows, row))
          /\ Rank(row)' = Cardinality(Above(rows \cup {new}, row))
      BY <1>3 DEF Rank, Above
    <3>4. Rank(row)' < Offset(page, Size)
      BY <1>3 DEF Behind
    <3>5. Rank(row) \in Nat /\ Rank(row)' \in Nat /\ Offset(page, Size) \in Int
      <4>1. Cardinality(Above(rows, row)) \in Nat
        BY <1>2, <3>1, RankChanges
      <4>2. Cardinality(Above(rows \cup {new}, row)) \in Nat
        <5>1. rows \cup {new} \subseteq 1..MaxRows
          BY <1>2
        <5>2. QED BY <1>2, <3>1, <5>1, RankChanges
      <4>3. page \in Int /\ Size \in Int
        BY <1>1, ListingAssumption DEF WalkInv
      <4>4. QED BY <3>3, <4>1, <4>2, <4>3 DEF Offset
    <3>6. QED BY <3>1, <3>2, <3>3, <3>4, <3>5 DEF Behind
  <2>2. AtMost(Behind, left)
    BY DEF ListingInv
  <2>3. QED BY <1>2, <2>1, <2>2, Fewer
<1>8. (step = "done" => AtMost(Missed, left + late))'
  <2> SUFFICES ASSUME step = "done"
               PROVE  AtMost(Missed', left + late')
    BY <1>3 DEF AtMost
  <2>1. Missed' = Missed
    BY <1>3 DEF Missed
  <2>2. AtMost(Missed, left + late)
    BY DEF ListingInv
  <2>3. left + late \in Nat /\ left + late' \in Nat /\ left + late <= left + late'
    <3>1. left \in Nat /\ late \in Nat /\ late' \in Nat /\ late <= late'
      BY <1>2, <1>3
    <3>2. PICK more \in Nat : late' = more
      BY <3>1
    <3>3. QED BY ONLY <3>1, <3>2
  <2>4. QED BY <2>1, <2>2, <2>3, Fewer
<1>9. QED BY <1>4, <1>6, <1>7, <1>8 DEF ListingInv

(* A row that leaves pulls the older ones forward by one: one of them may    *)
(* have been the first of the page to come.                                  *)
LEMMA LeaveWalks ==
  ASSUME ListingInv, NEW gone \in 1..MaxRows, LeaveFilter(gone)
  PROVE  ListingInv'
<1>1. WalkInv
  BY DEF ListingInv
<1>2. /\ MaxRows \in Nat /\ rows \subseteq 1..MaxRows /\ stayed \subseteq rows
      /\ late \in Nat /\ left \in Nat /\ total \in Nat /\ gone \in rows
  BY <1>1, ListingAssumption DEF WalkInv, LeaveFilter
<1>3. /\ rows' = rows \ {gone} /\ stayed' = stayed \ {gone}
      /\ left' = left + 1 /\ left < MaxLeaves
      /\ UNCHANGED <<page, total, step, seen, late>>
  BY DEF LeaveFilter
<1>4. WalkInv'
  BY <1>1, <1>2, <1>3, ListingAssumption DEF WalkInv
<1>5. Cardinality(rows) \in Nat /\ Cardinality(rows') = Cardinality(rows) - 1
  <2>1. IsFiniteSet(rows) /\ Cardinality(rows) \in Nat
    BY <1>2, UpTo
  <2>2. Cardinality(rows \ {gone}) = Cardinality(rows) - 1
    BY <1>2, <2>1, FS_RemoveElement
  <2>3. QED BY <1>3, <2>1, <2>2
<1>6. (step = "selecting" => Cardinality(rows) <= total + late)'
  <2> SUFFICES ASSUME step = "selecting"
               PROVE  Cardinality(rows') <= total + late
    BY <1>3
  <2>1. Cardinality(rows) <= total + late
    BY DEF ListingInv
  <2>2. QED BY <1>2, <1>5, <2>1
<1>7. (step # "done" => AtMost(Behind, left))'
  <2> SUFFICES ASSUME step # "done"
               PROVE  AtMost(Behind', left')
    BY <1>3 DEF AtMost
  <2>1. AtMost(Behind, left)
    BY DEF ListingInv
  <2>2. Offset(page, Size) \in Int
    <3>1. page \in Int /\ Size \in Int
      BY <1>1, ListingAssumption DEF WalkInv
    <3>2. QED BY <3>1 DEF Offset
  <2>3. ASSUME NEW row \in Behind', row \notin Behind
        PROVE  /\ row \in rows /\ row \in 1..MaxRows
               /\ Cardinality(Above(rows, row)) = Offset(page, Size)
    <3>1. row \in rows /\ row \in 1..MaxRows /\ row \in stayed /\ row \notin seen
      BY <1>2, <1>3 DEF Behind
    <3>2. /\ Cardinality(Above(rows, row)) \in Nat
          /\ Cardinality(Above(rows, row)) <= Cardinality(Above(rows \ {gone}, row)) + 1
      BY <1>2, <3>1, RankChanges
    <3>3. Cardinality(Above(rows \ {gone}, row)) \in Nat
      <4>1. rows \ {gone} \subseteq 1..MaxRows
        BY <1>2
      <4>2. QED BY <1>2, <3>1, <4>1, RankChanges
    <3>4. /\ Rank(row) = Cardinality(Above(rows, row))
          /\ Rank(row)' = Cardinality(Above(rows \ {gone}, row))
      BY <1>3 DEF Rank, Above
    <3>5. Rank(row)' < Offset(page, Size)
      BY <1>3 DEF Behind
    <3>6. ~(Rank(row) < Offset(page, Size))
      BY <2>3, <3>1 DEF Behind
    <3>7. QED BY <2>2, <3>1, <3>2, <3>3, <3>4, <3>5, <3>6
  <2>4. \E row : Behind' \subseteq Behind \cup {row}
    <3>1. CASE Behind' \subseteq Behind
      BY <3>1
    <3>2. CASE ~(Behind' \subseteq Behind)
      <4>1. PICK slipped \in Behind' : slipped \notin Behind
        BY <3>2
      <4>2. ASSUME NEW row \in Behind', row \notin Behind
            PROVE  row = slipped
        <5>1. /\ row \in rows /\ slipped \in rows /\ row \in Int /\ slipped \in Int
              /\ Cardinality(Above(rows, row)) = Cardinality(Above(rows, slipped))
              /\ Cardinality(Above(rows, row)) \in Int
          BY <2>2, <2>3, <4>1, <4>2
        <5>2. CASE row < slipped
          <6>1. Cardinality(Above(rows, slipped)) < Cardinality(Above(rows, row))
            BY <1>2, <5>1, <5>2, RanksDiffer
          <6>2. QED BY <5>1, <6>1
        <5>3. CASE slipped < row
          <6>1. Cardinality(Above(rows, row)) < Cardinality(Above(rows, slipped))
            BY <1>2, <5>1, <5>3, RanksDiffer
          <6>2. QED BY <5>1, <6>1
        <5>4. QED BY <5>1, <5>2, <5>3
      <4>3. Behind' \subseteq Behind \cup {slipped}
        BY <4>2
      <4>4. QED BY <4>3
    <3>3. QED BY <3>1, <3>2
  <2>5. PICK slipped : Behind' \subseteq Behind \cup {slipped}
    BY <2>4
  <2>6. left + 1 <= left' /\ left' \in Nat
    BY <1>2, <1>3
  <2>7. QED BY <1>2, <2>1, <2>5, <2>6, OneMore
<1>8. (step = "done" => AtMost(Missed, left + late))'
  <2> SUFFICES ASSUME step = "done"
               PROVE  AtMost(Missed', left' + late)
    BY <1>3 DEF AtMost
  <2>1. Missed' \subseteq Missed
    BY <1>3 DEF Missed
  <2>2. AtMost(Missed, left + late)
    BY DEF ListingInv
  <2>3. left + late \in Nat /\ left' + late \in Nat /\ left + late <= left' + late
    BY <1>2, <1>3
  <2>4. QED BY <2>1, <2>2, <2>3, Fewer
<1>9. QED BY <1>4, <1>6, <1>7, <1>8 DEF ListingInv

-----------------------------------------------------------------------------
(* The walk starts with nothing behind it.                                   *)
LEMMA InitWalks == Init => ListingInv
<1> SUFFICES ASSUME Init
             PROVE  ListingInv
  OBVIOUS
<1>1. WalkInv
  BY ListingAssumption DEF Init, WalkInv
<1>2. step = "counting" /\ left = 0 /\ page = 1 /\ rows \subseteq 1..MaxRows /\ stayed = rows
  BY DEF Init
<1>3. Offset(page, Size) = 0
  BY <1>2, ListingAssumption DEF Offset
<1>4. Behind = {}
  <2> SUFFICES ASSUME NEW row \in Behind
               PROVE  FALSE
    OBVIOUS
  <2>1. Rank(row) < 0
    BY <1>3 DEF Behind
  <2>2. Rank(row) \in Nat
    <3>1. Above(rows, row) \subseteq 1..MaxRows
      BY <1>2 DEF Above
    <3>2. Cardinality(Above(rows, row)) \in Nat
      BY <3>1, UpTo, ListingAssumption
    <3>3. QED BY <3>2 DEF Rank, Above
  <2>3. QED BY <2>1, <2>2
<1>5. AtMost(Behind, left)
  BY <1>2, <1>4, FS_EmptySet DEF AtMost
<1>6. QED BY <1>1, <1>2, <1>5 DEF ListingInv

(* What is behind the walk and what it missed are accounted for: an unseen   *)
(* row on a page already read slipped there when another row left, and the   *)
(* pages end where COUNT said.                                               *)
THEOREM ListingInvariant == Spec => []ListingInv
<1>1. ASSUME ListingInv, [Next]_vars
      PROVE  ListingInv'
  <2>1. CASE CountRows
    BY <1>1, <2>1, CountWalks
  <2>2. CASE SelectRows
    BY <1>1, <2>2, SelectWalks
  <2>3. CASE \E row \in 1..MaxRows : EnterList(row)
    BY <1>1, <2>3, EnterWalks
  <2>4. CASE \E row \in 1..MaxRows : LeaveFilter(row)
    BY <1>1, <2>4, LeaveWalks
  <2>5. CASE UNCHANGED vars
    BY <1>1, <2>5 DEF vars, ListingInv, WalkInv, Behind, Missed, Rank, AtMost
  <2>6. QED BY <1>1, <2>1, <2>2, <2>3, <2>4, <2>5 DEF Next
<1>2. QED BY <1>1, InitWalks, PTL DEF Spec

(* The client asks for no page beyond the last there can be, however the     *)
(* number of rows changes from one request to the next.                      *)
THEOREM WalkStaysWithinPages == Spec => []TypeOK
<1>1. ListingInv => TypeOK
  BY DEF ListingInv, WalkInv, TypeOK
<1>2. QED BY <1>1, ListingInvariant, PTL

(* A client that follows has_next to the end has seen every row that was in  *)
(* the list all the time, but for one for each time a row left it and one    *)
(* for each row that entered it between the two queries of its last request. *)
THEOREM FewAreMissed == Spec => []MissesBounded
<1>1. ListingInv => MissesBounded
  BY DEF ListingInv, MissesBounded, AtMost
<1>2. QED BY <1>1, ListingInvariant, PTL
=============================================================================
