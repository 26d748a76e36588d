------------------------------ MODULE Listing ------------------------------
(***************************************************************************)
(* A client pages through ListJobs, ListNotebooks or ListBatchJobs while   *)
(* rows come and go.  A handler makes three queries, which share no        *)
(* transaction: it looks up the row that the client names in After, lists  *)
(* the rows below it, newest first, and counts the rows of the project.    *)
(* The three listings differ in which rows they show and accept as After.  *)
(***************************************************************************)
EXTENDS Naturals, FiniteSets

CONSTANTS
    MaxRows,            \* bound: rows of the table
    defaultPageSize, maxPageSize,
    MaxLimit,           \* bound: the largest limit that a client asks for
    MaxFaults           \* bound: queries that fail

ASSUME ListingAssumption ==
    /\ MaxRows \in Nat /\ MaxLimit \in Nat /\ MaxFaults \in Nat
    /\ defaultPageSize \in Nat \ {0} /\ maxPageSize \in Nat
    /\ defaultPageSize <= maxPageSize

VARIABLES
    kind,       \* the table: "job", "notebook" or "batch"
    rows,       \* id -> whose the row is and whether it is deleted
    step,       \* the handler's next query; "ended" and "refused" end the paging
    limit,      \* the page size of the request
    page, hasMore,      \* what was listed
    after,      \* the id of the row that the client names next, 0 for none
    seen,       \* the rows that the client has got
    totalItems, \* of the last response
    faults,
    lasting     \* history: rows that were listed all the time

vars == <<kind, rows, step, limit, page, hasMore, after, seen, totalItems, faults, lasting>>
answer == <<page, hasMore>>
client == <<after, seen, totalItems>>

Ids == 1 .. MaxRows

\* The row of an id: none yet, of another project, or one of the client's
\* project that is deleted or not.
RowStates == {"none", "other", "active", "deleted"}

TypeOK ==
    /\ kind \in {"job", "notebook", "batch"}
    /\ rows \in [Ids -> RowStates]
    /\ step \in {"lookup", "list", "count", "ended", "refused"}
    /\ limit \in 0 .. maxPageSize
    /\ page \subseteq Ids /\ Cardinality(page) <= maxPageSize
    /\ hasMore \in BOOLEAN
    /\ after \in 0 .. MaxRows
    /\ seen \subseteq Ids /\ lasting \subseteq Ids
    /\ totalItems \in Nat /\ faults \in 0 .. MaxFaults

\* "project_id = ? AND state != ?"; a job is never deleted.
Listed == {i \in Ids : rows[i] = "active"}

Init ==
    /\ kind \in {"job", "notebook", "batch"}
    /\ rows \in [Ids -> IF kind = "job" THEN RowStates \ {"deleted"} ELSE RowStates]
    /\ step = "lookup" /\ limit = 0 /\ page = {} /\ hasMore = FALSE
    /\ after = 0 /\ seen = {} /\ totalItems = 0 /\ faults = 0
    /\ lasting = Listed

-----------------------------------------------------------------------------
(***************************************************************************)
(* The handler.                                                            *)
(***************************************************************************)

\* For mutation checks: without the default, without the maximum.
NoDefault(l) == IF l > maxPageSize THEN maxPageSize ELSE l

NoMaximum(l) == IF l = 0 THEN defaultPageSize ELSE l

PageSize(l) ==
    CASE l = 0           -> defaultPageSize
      [] l > maxPageSize -> maxPageSize
      [] OTHER           -> l

\* For a mutation check: only a row that is listed is accepted.
ValidIfListed(i) == rows[i] = "active"

\* A deleted batch job is not found, a deleted notebook is.
ValidAfter(i) ==
    \/ rows[i] = "active"
    \/ rows[i] = "deleted" /\ kind # "batch"

Lookup ==
    /\ step = "lookup"
    /\ \E l \in 0 .. MaxLimit : limit' = PageSize(l)
    /\ step' = IF after = 0 \/ ValidAfter(after) THEN "list" ELSE "refused"
    /\ UNCHANGED <<kind, rows, answer, client, faults, lasting>>

\* For a mutation check: the row that is named is listed again.
AtOrBelow(i) == {j \in Listed : i = 0 \/ j <= i}

Below(i) == {j \in Listed : i = 0 \/ j < i}

\* ORDER BY id DESC LIMIT n.
Top(S, n) == {i \in S : Cardinality({j \in S : j > i}) < n}

\* For a mutation check: the query does not ask for one row more.
NoRowMore ==
    /\ step = "list" /\ step' = "count"
    /\ LET found == Top(Below(after), limit) IN
       /\ hasMore' = (Cardinality(found) > limit)
       /\ page' = IF hasMore' THEN Top(found, limit) ELSE found
    /\ UNCHANGED <<kind, rows, limit, client, faults, lasting>>

List ==
    /\ step = "list" /\ step' = "count"
    /\ LET found == Top(Below(after), limit + 1) IN
       /\ hasMore' = (Cardinality(found) > limit)
       /\ page' = IF hasMore' THEN Top(found, limit) ELSE found
    /\ UNCHANGED <<kind, rows, limit, client, faults, lasting>>

\* The client names the last row of the page next.
NextAfter == IF page = {} THEN after ELSE CHOOSE i \in page : \A j \in page : i <= j

\* For a mutation check: the rows that the query for the page found.
CountBelow == Cardinality(Below(after))

CountListed == Cardinality(Listed)

\* The count, and the client takes the response.
Count ==
    /\ step = "count" /\ step' = IF hasMore THEN "lookup" ELSE "ended"
    /\ totalItems' = CountListed
    /\ seen' = seen \cup page /\ after' = NextAfter
    /\ page' = {} /\ hasMore' = FALSE
    /\ UNCHANGED <<kind, rows, limit, faults, lasting>>

\* A query fails: the client asks again.
Fail ==
    /\ step \in {"lookup", "list", "count"} /\ faults < MaxFaults
    /\ faults' = faults + 1
    /\ step' = "lookup" /\ page' = {} /\ hasMore' = FALSE
    /\ UNCHANGED <<kind, rows, limit, client, lasting>>

-----------------------------------------------------------------------------
(***************************************************************************)
(* The others.  Rows need not become visible in the order of their ids:    *)
(* the database hands out an id before the transaction commits.            *)
(***************************************************************************)

Insert(i) ==
    /\ rows[i] = "none"
    /\ \E s \in {"other", "active"} : rows' = [rows EXCEPT ![i] = s]
    /\ UNCHANGED <<kind, step, limit, answer, client, faults, lasting>>

Delete(i) ==
    /\ rows[i] = "active" /\ kind # "job"
    /\ rows' = [rows EXCEPT ![i] = "deleted"]
    /\ lasting' = lasting \ {i}
    /\ UNCHANGED <<kind, step, limit, answer, client, faults>>

\* DeleteNotebook queues a deleted notebook for deletion once more; FAILED is
\* recorded of a batch job in any state.
Reappear(i) ==
    /\ rows[i] = "deleted"
    /\ rows' = [rows EXCEPT ![i] = "active"]
    /\ UNCHANGED <<kind, step, limit, answer, client, faults, lasting>>

Next ==
    \/ Lookup \/ List \/ Count \/ Fail
    \/ \E i \in Ids : Insert(i) \/ Delete(i) \/ Reappear(i)

Spec == Init /\ [][Next]_vars

\* The client goes on and the handler answers.
FairSpec == Spec /\ WF_vars(Lookup \/ List \/ Count)

-----------------------------------------------------------------------------
(***************************************************************************)
(* Properties.                                                             *)
(***************************************************************************)

\* The pages go down: what is listed has not been seen, on any earlier page,
\* whatever came or went between the requests ("a descending order of ID").
PagesDescend == \A i \in page, j \in seen : i < j

\* A client that has come to the end has got every row that was there all
\* the time.
NothingMissed == step = "ended" => lasting \subseteq seen

\* Paging is refused only while the last batch job of the page before is
\* deleted: a row that was listed stays a valid After of jobs and notebooks.
RefusedOnlyIfDeleted ==
    [][step # "refused" /\ step' = "refused"
         => kind = "batch" /\ rows[after] = "deleted"]_vars

\* Jobs are not deleted, so the total of a response is no less than what the
\* client has got, although it is counted after the page was listed.
TotalCoversSeen == kind = "job" => Cardinality(seen) <= totalItems

\* Every client comes to an end: a page that has a successor is not empty.
PagingEnds == <>(step \in {"ended", "refused"})

=============================================================================
