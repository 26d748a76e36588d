--------------------------- MODULE ListingProofs ---------------------------
(***************************************************************************)
(* Paging is right for tables and pages of any size.                       *)
(***************************************************************************)
EXTENDS Listing, FiniteSetTheorems, WellFoundedInduction, TLAPS

\* A set of numbers that is not empty has a least element.
LEMMA LeastExists ==
    ASSUME NEW S \in SUBSET Nat, S # {}
    PROVE  \E i \in S : \A j \in S : i <= j
<1> DEFINE R == OpToRel(<, Nat)
<1>1. PICK i \in S : \A j \in S : ~(<<j, i>> \in R)
  <2>1. IsWellFoundedOn(R, Nat)
    BY NatLessThanWellFounded
  <2> HIDE DEF R
  <2>2. QED
    BY <2>1, WFMin
<1>2. \A j \in S : i <= j
  <2> SUFFICES ASSUME NEW j \in S, j < i PROVE FALSE
    OBVIOUS
  <2>1. <<j, i>> \in R
    BY DEF OpToRel
  <2>2. QED
    BY <1>1, <2>1
<1>3. QED
  BY <1>2

\* So has a bounded one a greatest element.
LEMMA GreatestExists ==
    ASSUME NEW M \in Nat, NEW S \in SUBSET (1 .. M), S # {}
    PROVE  \E i \in S : \A j \in S : j <= i
<1> DEFINE T == {M - i : i \in S}
<1>1. T \in SUBSET Nat /\ T # {}
  <2>1. \A i \in S : M - i \in Nat
    OBVIOUS
  <2>2. PICK i \in S : TRUE
    OBVIOUS
  <2>3. M - i \in T
    OBVIOUS
  <2>4. QED
    BY <2>1, <2>3
<1>2. PICK t \in T : \A u \in T : t <= u
  <2> HIDE DEF T
  <2>1. QED
    BY <1>1, LeastExists
<1>3. PICK i \in S : t = M - i
  OBVIOUS
<1>4. \A j \in S : j <= i
  <2> SUFFICES ASSUME NEW j \in S PROVE j <= i
    OBVIOUS
  <2>1. M - j \in T
    OBVIOUS
  <2>2. M - i <= M - j
    BY <1>2, <1>3, <2>1
  <2>3. i \in Int /\ j \in Int /\ M \in Int
    OBVIOUS
  <2> HIDE DEF T
  <2>4. QED
    BY <2>2, <2>3
<1>5. QED
  BY <1>4

-----------------------------------------------------------------------------
(***************************************************************************)
(* ORDER BY id DESC LIMIT n.                                               *)
(***************************************************************************)

\* Sets of rows are finite.
LEMMA RowsAreFinite ==
    ASSUME NEW S \in SUBSET Ids
    PROVE  IsFiniteSet(S) /\ Cardinality(S) \in Nat /\ S \in SUBSET Nat
<1>1. IsFiniteSet(1 .. MaxRows)
  <2>1. 1 \in Int /\ MaxRows \in Int
    BY ListingAssumption
  <2>2. QED
    BY <2>1, FS_Interval
<1>2. IsFiniteSet(S)
  BY <1>1, FS_Subset DEF Ids
<1>3. QED
  BY <1>2, FS_CardinalityType DEF Ids

\* A row is found if a smaller one is.
LEMMA TopDescends ==
    ASSUME NEW S \in SUBSET Ids, NEW n \in Nat, NEW i \in Top(S, n), NEW j \in S, i < j
    PROVE  j \in Top(S, n)
<1> DEFINE Above(k) == {l \in S : l > k}
<1>1. IsFiniteSet(S)
  BY RowsAreFinite
<1>2. i \in S /\ Cardinality(Above(i)) < n
  BY DEF Top
<1>3. Above(j) \in SUBSET Above(i) /\ Above(i) \in SUBSET S
  <2>1. \A l \in S : l > j => l > i
    BY <1>2, RowsAreFinite
  <2>2. QED
    BY <2>1
<1>4. IsFiniteSet(Above(i)) /\ IsFiniteSet(Above(j))
  BY <1>1, <1>3, FS_Subset
<1>5. Cardinality(Above(j)) <= Cardinality(Above(i))
  BY <1>3, <1>4, FS_Subset
<1>6. Cardinality(Above(j)) \in Nat /\ Cardinality(Above(i)) \in Nat
  BY <1>4, FS_CardinalityType
<1>7. Cardinality(Above(j)) < n
  <2> HIDE DEF Above
  <2>1. QED
    BY <1>2, <1>5, <1>6
<1>8. QED
  BY <1>7 DEF Top

\* If fewer rows are found than were asked for, all are.
LEMMA TopIsAll ==
    ASSUME NEW S \in SUBSET Ids, NEW n \in Nat, Cardinality(Top(S, n)) < n
    PROVE  Top(S, n) = S
<1> SUFFICES ASSUME S \ Top(S, n) # {} PROVE FALSE
  BY DEF Top
<1>1. PICK i \in S \ Top(S, n) : \A j \in S \ Top(S, n) : j <= i
  <2>1. S \ Top(S, n) \in SUBSET (1 .. MaxRows)
    BY DEF Ids
  <2>2. QED
    BY <2>1, GreatestExists, ListingAssumption
<1> DEFINE Above == {l \in S : l > i}
<1>2. IsFiniteSet(S)
  BY RowsAreFinite
<1>3. Above \in SUBSET Top(S, n) /\ Top(S, n) \in SUBSET S
  <2>1. \A l \in Above : l \in Top(S, n)
    BY <1>1 DEF Ids
  <2>2. QED
    BY <2>1 DEF Top
<1>4. IsFiniteSet(Top(S, n)) /\ IsFiniteSet(Above)
  BY <1>2, <1>3, FS_Subset
<1>5. Cardinality(Above) <= Cardinality(Top(S, n))
  BY <1>3, <1>4, FS_Subset
<1>6. Cardinality(Above) \in Nat /\ Cardinality(Top(S, n)) \in Nat
  BY <1>4, FS_CardinalityType
<1>7. ~(Cardinality(Above) < n)
  BY <1>1 DEF Top
<1>8. QED
  <2> HIDE DEF Above
  <2>1. QED
    BY <1>5, <1>6, <1>7

\* No more rows are found than were asked for.
LEMMA TopIsBounded ==
    ASSUME NEW S \in SUBSET Ids, NEW n \in Nat
    PROVE  Cardinality(Top(S, n)) <= n /\ Top(S, n) \in SUBSET S
<1> DEFINE T == Top(S, n)
<1>1. IsFiniteSet(S) /\ T \in SUBSET S /\ T \in SUBSET Nat
  BY RowsAreFinite DEF Top
<1>2. IsFiniteSet(T) /\ Cardinality(T) \in Nat
  BY <1>1, FS_Subset, FS_CardinalityType
<1>3. CASE T = {}
  BY <1>1, <1>3, FS_EmptySet
<1>4. CASE T # {}
  <2>1. PICK i \in T : \A j \in T : i <= j
    <3> HIDE DEF T
    <3>1. QED
      BY <1>1, <1>4, LeastExists
  <2> DEFINE Above == {l \in S : l > i}
  <2>2. T \ {i} \in SUBSET Above /\ Above \in SUBSET S
    BY <1>1, <2>1
  <2>3. IsFiniteSet(Above) /\ Cardinality(Above) \in Nat
    BY <1>1, <2>2, FS_Subset, FS_CardinalityType
  <2>4. Cardinality(T \ {i}) <= Cardinality(Above)
    BY <2>2, <2>3, FS_Subset
  <2>5. Cardinality(T \ {i}) = Cardinality(T) - 1
    <3> HIDE DEF T
    <3>1. QED
      BY <1>2, FS_RemoveElement
  <2>6. Cardinality(Above) < n
    BY DEF Top
  <2>7. Cardinality(T) <= n
    <3> HIDE DEF T, Above
    <3>1. QED
      BY <1>2, <2>3, <2>4, <2>5, <2>6
  <2>8. QED
    BY <1>1, <2>7
<1>5. QED
  BY <1>3, <1>4

\* What List makes of the rows S below the one that is named.
PageOf(S, n) ==
    IF Cardinality(Top(S, n + 1)) > n THEN Top(Top(S, n + 1), n) ELSE Top(S, n + 1)

\* The page has at most n rows of S, and the others are below it, in which
\* case there are more.
LEMMA PageFacts ==
    ASSUME NEW S \in SUBSET Ids, NEW n \in Nat
    PROVE  /\ PageOf(S, n) \in SUBSET S /\ Cardinality(PageOf(S, n)) <= n
           /\ \A i \in S \ PageOf(S, n) :
                 /\ Cardinality(Top(S, n + 1)) > n
                 /\ \A j \in PageOf(S, n) : i < j
<1> DEFINE found == Top(S, n + 1)
           P == PageOf(S, n)
<1>p. \/ Cardinality(found) > n /\ P = Top(found, n)
      \/ ~(Cardinality(found) > n) /\ P = found
  BY DEF PageOf
<1>q. found = Top(S, n + 1)
  OBVIOUS
<1> SUFFICES /\ P \in SUBSET S /\ Cardinality(P) <= n
             /\ \A i \in S \ P : Cardinality(found) > n /\ \A j \in P : i < j
  OBVIOUS
<1> HIDE DEF found, P
<1>1. found \in SUBSET S /\ found \in SUBSET Ids /\ Cardinality(found) \in Nat
  BY <1>q, TopIsBounded, RowsAreFinite
<1>2. CASE Cardinality(found) > n
  <2>1. P = Top(found, n) /\ P \in SUBSET found /\ Cardinality(P) <= n
    BY <1>p, <1>1, <1>2, TopIsBounded
  <2>2. ASSUME NEW i \in S \ P, NEW j \in P PROVE i < j
    <3>1. i \in Nat /\ j \in Nat /\ i # j
      BY <1>1, <2>1, <2>2, RowsAreFinite
    <3>2. ~(j < i)
      <4>1. CASE i \in found
        BY <1>1, <2>1, <2>2, <4>1, TopDescends
      <4>2. CASE i \notin found
        BY <1>q, <1>1, <2>1, <2>2, <4>2, TopDescends
      <4>3. QED
        BY <4>1, <4>2
    <3>3. QED
      BY <3>1, <3>2
  <2>3. QED
    BY <1>1, <1>2, <2>1, <2>2
<1>3. CASE ~(Cardinality(found) > n)
  <2>1. P = found /\ Cardinality(found) < n + 1
    BY <1>p, <1>1, <1>3
  <2>2. found = S
    BY <1>q, <2>1, TopIsAll
  <2>3. QED
    BY <1>1, <1>3, <2>1, <2>2
<1>4. QED
  BY <1>2, <1>3

-----------------------------------------------------------------------------
(***************************************************************************)
(* The invariant.                                                          *)
(***************************************************************************)

\* A row of the project is there for good, a job is not deleted.
Known(i) == rows[i] \in {"active", "deleted"}

RowsOK == kind = "job" => \A i \in Ids : rows[i] # "deleted"

\* The row that is named separates what was seen from what is listed next.
CursorOK ==
    /\ after = 0 => seen = {}
    /\ after # 0 => Known(after)
    /\ \A j \in seen : after <= j /\ Known(j)
    /\ \A i \in page : Known(i) /\ (after = 0 \/ i < after)

\* A row that is there all the time was seen or is still to come: below the
\* row that is named, and if the page has been listed, on it or below it.
LastingOK ==
    /\ lasting \subseteq Listed
    /\ \A i \in lasting : i \in seen \/ after = 0 \/ i < after
    /\ step = "count" =>
          \A i \in lasting : \/ i \in seen \/ i \in page
                             \/ hasMore /\ \A j \in page : i < j

\* The type invariant in two parts: the provers treat them apart.
FlagOK == hasMore \in BOOLEAN

DataOK ==
    /\ kind \in {"job", "notebook", "batch"}
    /\ rows \in [Ids -> RowStates]
    /\ step \in {"lookup", "list", "count", "ended", "refused"}
    /\ limit \in 0 .. maxPageSize
    /\ page \subseteq Ids /\ Cardinality(page) <= maxPageSize
    /\ after \in 0 .. MaxRows
    /\ seen \subseteq Ids /\ lasting \subseteq Ids
    /\ totalItems \in Nat /\ faults \in 0 .. MaxFaults

IInv == /\ FlagOK /\ DataOK /\ RowsOK /\ CursorOK /\ LastingOK
        /\ NothingMissed /\ TotalCoversSeen

\* The initial state.
LEMMA InitIInv == Init => IInv
<1> SUFFICES ASSUME Init PROVE IInv
  OBVIOUS
<1>1. Cardinality({}) = 0 /\ maxPageSize \in Nat
  BY FS_EmptySet, ListingAssumption
<1>f. FlagOK
  BY DEF Init, FlagOK
<1>2. DataOK
  <2>1. rows \in [Ids -> RowStates]
    BY DEF Init, RowStates
  <2>2. QED
    BY <1>1, <2>1, ListingAssumption DEF Init, DataOK, Listed
<1>3. RowsOK /\ CursorOK /\ LastingOK
  BY DEF Init, RowsOK, CursorOK, LastingOK, RowStates
<1>4. NothingMissed /\ TotalCoversSeen
  BY <1>1 DEF Init, NothingMissed, TotalCoversSeen
<1>5. QED
  BY <1>f, <1>2, <1>3, <1>4 DEF IInv

\* The lookup, and a query that fails.
LEMMA LookupIInv == IInv /\ (Lookup \/ Fail) => IInv'
<1> SUFFICES ASSUME IInv, Lookup \/ Fail PROVE IInv'
  OBVIOUS
<1> USE DEF IInv
<1>0. UNCHANGED <<kind, rows, after, seen, totalItems, lasting>>
  BY DEF Lookup, Fail, client
<1>f. FlagOK'
  BY DEF Lookup, Fail, FlagOK, answer
<1>1. DataOK'
  <2>1. CASE Lookup
    <3>1. \A l \in 0 .. MaxLimit : PageSize(l) \in 0 .. maxPageSize
      BY ListingAssumption DEF PageSize
    <3>2. QED
      BY <1>0, <2>1, <3>1 DEF Lookup, DataOK, answer
  <2>2. CASE Fail
    BY <1>0, <2>2, FS_EmptySet, ListingAssumption DEF Fail, DataOK
  <2>3. QED
    BY <2>1, <2>2
<1>2. RowsOK' /\ CursorOK' /\ TotalCoversSeen'
  BY <1>0 DEF RowsOK, CursorOK, Known, TotalCoversSeen, Lookup, Fail, answer
<1>3. LastingOK' /\ NothingMissed'
  BY <1>0 DEF LastingOK, NothingMissed, Listed, Lookup, Fail
<1>4. QED
  BY <1>f, <1>1, <1>2, <1>3

\* The query for the page.
LEMMA ListIInv == IInv /\ List => IInv'
<1> SUFFICES ASSUME IInv, List PROVE IInv'
  OBVIOUS
<1> USE DEF IInv
<1> DEFINE S == Below(after)
           found == Top(S, limit + 1)
           more == Cardinality(found) > limit
<1>0. /\ UNCHANGED <<kind, rows, limit, after, seen, totalItems, faults, lasting>>
      /\ step' = "count" /\ limit \in Nat /\ limit <= maxPageSize
      /\ S \in SUBSET Ids
  BY ListingAssumption DEF List, client, DataOK, Below, Listed
<1>h. hasMore' = more /\ page' = IF hasMore' THEN Top(found, limit) ELSE found
  BY DEF List
<1>p. page' = PageOf(S, limit)
  BY <1>h DEF PageOf
<1>1. /\ page' \in SUBSET S /\ Cardinality(page') <= limit
      /\ \A i \in S \ page' : more /\ \A j \in page' : i < j
  <2> HIDE DEF S
  <2>1. QED
    BY <1>0, <1>p, PageFacts
<1> HIDE DEF S, found
<1>f. FlagOK'
  BY <1>h DEF FlagOK
<1>2. DataOK'
  <2>1. Cardinality(page') <= maxPageSize
    <3>1. Cardinality(page') \in Nat
      BY <1>0, <1>1, RowsAreFinite
    <3>2. QED
      BY <1>0, <1>1, <3>1, ListingAssumption
  <2>2. QED
    BY <1>0, <1>1, <2>1 DEF DataOK
<1>3. CursorOK'
  BY <1>0, <1>1 DEF CursorOK, Known, S, Below, Listed
<1>4. LastingOK'
  <2>1. \A i \in lasting : i \in seen \/ i \in S
    BY DEF LastingOK, S, Below
  <2>2. QED
    BY <1>0, <1>h, <1>1, <2>1 DEF LastingOK, Listed
<1>5. RowsOK' /\ NothingMissed' /\ TotalCoversSeen'
  BY <1>0 DEF RowsOK, NothingMissed, TotalCoversSeen
<1>6. QED
  BY <1>f, <1>2, <1>3, <1>4, <1>5

\* The row that the client names next is the smallest of the page.
LEMMA NextAfterFacts ==
    ASSUME DataOK
    PROVE  \/ page = {} /\ NextAfter = after
           \/ NextAfter \in page /\ \A j \in page : NextAfter <= j
<1>1. CASE page = {}
  BY <1>1 DEF NextAfter
<1>2. CASE page # {}
  <2>1. page \in SUBSET Nat
    BY RowsAreFinite DEF DataOK
  <2>2. \E i \in page : \A j \in page : i <= j
    BY <1>2, <2>1, LeastExists
  <2>3. QED
    BY <1>2, <2>2 DEF NextAfter
<1>3. QED
  BY <1>1, <1>2

\* The count and the response.
LEMMA CountIInv == IInv /\ Count => IInv'
<1> SUFFICES ASSUME IInv, Count PROVE IInv'
  OBVIOUS
<1> USE DEF IInv
<1>0. /\ UNCHANGED <<kind, rows, limit, faults, lasting>>
      /\ step = "count" /\ seen' = seen \cup page /\ after' = NextAfter
      /\ page' = {} /\ totalItems' = Cardinality(Listed)
      /\ step' \in {"lookup", "ended"} /\ (step' = "ended" => ~hasMore)
      /\ page \in SUBSET Ids /\ seen \in SUBSET Ids /\ Listed \in SUBSET Ids
  BY DEF Count, CountListed, DataOK, Listed
<1>n. /\ after' \in 0 .. MaxRows
      /\ \/ page = {} /\ after' = after
         \/ after' \in page /\ after' # 0 /\ \A j \in page : after' <= j
  <2>1. \/ page = {} /\ NextAfter = after
        \/ NextAfter \in page /\ \A j \in page : NextAfter <= j
    BY NextAfterFacts
  <2>2. QED
    <3>1. page \in SUBSET (1 .. MaxRows) /\ after \in 0 .. MaxRows /\ MaxRows \in Nat
      BY ListingAssumption DEF DataOK, Ids
    <3>2. after' = NextAfter
      BY <1>0
    <3>3. CASE page = {} /\ NextAfter = after
      BY <3>1, <3>2, <3>3
    <3>4. CASE NextAfter \in page /\ \A j \in page : NextAfter <= j
      <4>1. NextAfter \in 1 .. MaxRows
        BY <3>1, <3>4
      <4>2. QED
        BY <3>1, <3>2, <3>4, <4>1
    <3>5. QED
      BY <2>1, <3>3, <3>4
<1>f. FlagOK'
  BY DEF Count, FlagOK
<1>1. DataOK'
  BY <1>0, <1>n, RowsAreFinite, FS_EmptySet, ListingAssumption DEF DataOK
<1>2. CursorOK'
  <2>1. \A j \in seen' : after' <= j
    BY <1>0, <1>n DEF CursorOK, DataOK, Ids
  <2>2. QED
    BY <1>0, <1>n, <2>1 DEF CursorOK, Known
<1>3. LastingOK'
  BY <1>0, <1>n DEF LastingOK, Listed
<1>4. NothingMissed' /\ RowsOK'
  BY <1>0 DEF NothingMissed, RowsOK, LastingOK
<1>5. TotalCoversSeen'
  <2> SUFFICES ASSUME kind = "job" PROVE Cardinality(seen') <= totalItems'
    BY <1>0 DEF TotalCoversSeen
  <2>1. seen' \in SUBSET Listed
    BY <1>0 DEF CursorOK, RowsOK, Known, Listed
  <2>2. QED
    BY <1>0, <2>1, RowsAreFinite, FS_Subset
<1>6. QED
  BY <1>f, <1>1, <1>2, <1>3, <1>4, <1>5

\* Rows come and go.
LEMMA RowIInv ==
    ASSUME IInv, NEW i \in Ids, Insert(i) \/ Delete(i) \/ Reappear(i)
    PROVE  IInv'
<1> USE DEF IInv
<1>0. /\ UNCHANGED <<kind, step, limit, page, hasMore, after, seen, totalItems, faults>>
      /\ lasting' \subseteq lasting
      /\ rows \in [Ids -> RowStates] /\ rows' \in [Ids -> RowStates]
  BY DEF Insert, Delete, Reappear, answer, client, DataOK, RowStates
<1>1. \A j \in Ids : Known(j) => Known(j)'
  BY DEF Insert, Delete, Reappear, DataOK, Known
<1>2. lasting' \subseteq Listed'
  BY DEF Insert, Delete, Reappear, DataOK, LastingOK, Listed
<1>f. FlagOK'
  BY <1>0 DEF FlagOK
<1>3. DataOK'
  BY <1>0 DEF DataOK
<1>4. CursorOK'
  BY <1>0, <1>1 DEF CursorOK, DataOK, Ids
<1>5. LastingOK' /\ NothingMissed' /\ TotalCoversSeen'
  BY <1>0, <1>2 DEF LastingOK, NothingMissed, TotalCoversSeen
<1>6. RowsOK'
  BY <1>0 DEF RowsOK, Insert, Delete, Reappear
<1>7. QED
  BY <1>f, <1>3, <1>4, <1>5, <1>6

\* Every step keeps the invariant.
LEMMA NextIInv == IInv /\ [Next]_vars => IInv'
<1> SUFFICES ASSUME IInv, [Next]_vars PROVE IInv'
  OBVIOUS
<1>1. CASE Lookup \/ List \/ Count \/ Fail
  BY <1>1, LookupIInv, ListIInv, CountIInv
<1>2. ASSUME NEW i \in Ids, Insert(i) \/ Delete(i) \/ Reappear(i) PROVE IInv'
  BY <1>2, RowIInv
<1>3. CASE UNCHANGED vars
  BY <1>3 DEF vars, IInv, FlagOK, DataOK, RowsOK, CursorOK, LastingOK, Known, Listed,
       NothingMissed, TotalCoversSeen
<1>4. QED
  BY <1>1, <1>2, <1>3 DEF Next

\* The inductive invariant: the row named in After separates what was seen
\* from what is still to come.
THEOREM ListingInvariance == Spec => []IInv
<1>1. QED
  BY InitIInv, NextIInv, PTL DEF Spec

\* No row is on two pages, and the pages descend.
THEOREM PagesDescendHolds == Spec => []PagesDescend
<1>1. IInv => PagesDescend
  BY DEF IInv, CursorOK, PagesDescend, DataOK, Ids
<1>2. QED
  BY <1>1, ListingInvariance, PTL

\* A client that comes to the end has got every row that was there all the
\* time, for tables, pages and limits of any size.
THEOREM NothingMissedHolds == Spec => []NothingMissed
<1>1. IInv => NothingMissed
  BY DEF IInv
<1>2. QED
  BY <1>1, ListingInvariance, PTL

\* The types; among them, a page has at most maxPageSize rows.
THEOREM ListingTypes == Spec => []TypeOK
<1>1. IInv => TypeOK
  BY DEF IInv, FlagOK, DataOK, TypeOK
<1>2. QED
  BY <1>1, ListingInvariance, PTL

\* The total of a list of jobs is no less than what the client has got, although
\* it is counted after the page was read.
THEOREM TotalCoversSeenHolds == Spec => []TotalCoversSeen
<1>1. IInv => TotalCoversSeen
  BY DEF IInv
<1>2. QED
  BY <1>1, ListingInvariance, PTL

\* The only reason for which paging is refused: the row that the client names
\* was one of its project, so that the lookup fails of a deleted batch job only.
THEOREM RefusedOnlyIfDeletedHolds == Spec => RefusedOnlyIfDeleted
<1> DEFINE Reason == step # "refused" /\ step' = "refused"
                       => kind = "batch" /\ rows[after] = "deleted"
<1>1. IInv /\ [Next]_vars => [Reason]_vars
  <2> SUFFICES ASSUME IInv, Next, step # "refused", step' = "refused"
               PROVE  kind = "batch" /\ rows[after] = "deleted"
    OBVIOUS
  <2>1. Lookup
    BY DEF Next, List, Count, Fail, Insert, Delete, Reappear
  <2>2. QED
    BY <2>1 DEF Lookup, ValidAfter, IInv, CursorOK, Known
<1>2. QED
  BY <1>1, ListingInvariance, PTL DEF Spec, RefusedOnlyIfDeleted

=============================================================================
