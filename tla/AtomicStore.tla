---------------------------- MODULE AtomicStore ----------------------------
(***************************************************************************)
(* What the conditional updates of the store promise: a table in which     *)
(* every handler reads, decides and writes in one indivisible step.        *)
(***************************************************************************)

CONSTANTS
    Ids,            \* primary keys
    Contents,       \* what a row may hold, Absent included
    Absent,         \* the row does not exist
    NewContents,    \* what an INSERT may write
    Requests,       \* requests whose handlers update a row
    Accepts(_, _),  \* Accepts(q, c): q's handler writes a row that holds c
    Apply(_, _)     \* Apply(q, c): what it writes

VARIABLE table

Init == table = [i \in Ids |-> Absent]

Insert(i) ==
    /\ table[i] = Absent
    /\ \E c \in NewContents : table' = [table EXCEPT ![i] = c]

Serve(i, q) ==
    /\ table[i] # Absent
    /\ Accepts(q, table[i])
    /\ table' = [table EXCEPT ![i] = Apply(q, table[i])]

Next == \E i \in Ids : Insert(i) \/ \E q \in Requests : Serve(i, q)

Spec == Init /\ [][Next]_table

=============================================================================
