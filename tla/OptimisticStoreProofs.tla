----------------------- MODULE OptimisticStoreProofs -----------------------
(***************************************************************************)
(* OptimisticStore implements AtomicStore, for any rows, any requests, any *)
(* decision and update functions and any number of handlers.               *)
(***************************************************************************)
EXTENDS OptimisticStore, TLAPS

\* The inductive invariant: types, and the freshness of what a handler that
\* can still write has read.
IInv == TypeOK /\ ReadIsCurrent

LEMMA InitIInv == Init => IInv
  BY ContentsAssumption DEF Init, IInv, TypeOK, ReadIsCurrent, Row, Idle, Busy

\* Handlers other than h keep what they read; h goes idle.
LEMMA StepIInv == IInv /\ [Next]_vars => IInv'
<1> SUFFICES ASSUME IInv, [Next]_vars PROVE IInv'
  OBVIOUS
<1> USE DEF IInv
<1>1. ASSUME NEW i \in Ids, Insert(i) PROVE IInv'
  <2>1. PICK c \in NewContents : 
               rows' = [rows EXCEPT ![i] = [content |-> c, version |-> 0]]
    BY <1>1 DEF Insert
  <2>2. c \in Contents
    BY ContentsAssumption
  <2>3. TypeOK'
    BY <1>1, <2>1, <2>2 DEF Insert, TypeOK, Row
  <2>4. ReadIsCurrent'
    <3> SUFFICES ASSUME NEW h \in Handlers, handlers[h] # Idle
                 PROVE  /\ handlers[h].read.content # Absent /\ rows'[handlers[h].id].content # Absent
                        /\ handlers[h].read.version <= rows'[handlers[h].id].version
                        /\ handlers[h].read.version = rows'[handlers[h].id].version
                             => handlers[h].read = rows'[handlers[h].id]
                        /\ Accepts(handlers[h].req, handlers[h].read.content)
      BY <1>1 DEF Insert, ReadIsCurrent
    <3> DEFINE b == handlers[h]
    <3>1. b \in Busy
      BY DEF TypeOK
    <3>2. /\ b.read.content # Absent /\ rows[b.id].content # Absent
          /\ b.read.version <= rows[b.id].version
          /\ b.read.version = rows[b.id].version => b.read = rows[b.id]
          /\ Accepts(b.req, b.read.content)
      BY DEF ReadIsCurrent
    <3>3. CASE b.id = i
      BY <1>1, <2>1, <3>1, <3>2, <3>3 DEF Insert, TypeOK, Row, Busy
    <3>4. CASE b.id # i
      BY <2>1, <3>1, <3>2, <3>4 DEF TypeOK, Row, Busy
    <3> QED BY <3>3, <3>4
  <2> QED BY <2>3, <2>4
<1>2. ASSUME NEW h \in Handlers, NEW i \in Ids, NEW q \in Requests, Read(h, i, q)
      PROVE  IInv'
  <2> DEFINE b == [busy |-> TRUE, id |-> i, req |-> q, read |-> rows[i]]
  <2>1. b \in Busy
    BY DEF TypeOK, Busy
  <2>2. TypeOK'
    BY <1>2, <2>1 DEF Read, TypeOK
  <2>3. ReadIsCurrent'
    BY <1>2, <2>1 DEF Read, ReadIsCurrent, TypeOK, Row
  <2> QED BY <2>2, <2>3
<1>3. ASSUME NEW h \in Handlers, Write(h) PROVE IInv'
  <2> DEFINE b == handlers[h]
             new == [content |-> Apply(b.req, b.read.content),
                     version |-> b.read.version + 1]
  <2>1. b \in Busy
    BY <1>3 DEF Write, TypeOK
  <2>2. b.read.content # Absent /\ Accepts(b.req, b.read.content)
    BY <1>3 DEF Write, ReadIsCurrent
  <2>3. new \in Row /\ new.content # Absent
    <3>1. b.req \in Requests /\ b.read.content \in Contents \ {Absent} /\ b.read.version \in Nat
      BY <2>1, <2>2 DEF Busy, Row
    <3>2. Apply(b.req, b.read.content) \in Contents \ {Absent}
      BY <2>2, <3>1, ApplyAssumption
    <3> QED BY <3>1, <3>2 DEF Row
  <2>4. TypeOK'
    BY <1>3, <2>1, <2>3 DEF Write, TypeOK, Busy
  <2>5. ReadIsCurrent'
    <3> SUFFICES ASSUME NEW g \in Handlers, handlers'[g] # Idle
                 PROVE  /\ handlers'[g].read.content # Absent /\ rows'[handlers'[g].id].content # Absent
                        /\ handlers'[g].read.version <= rows'[handlers'[g].id].version
                        /\ handlers'[g].read.version = rows'[handlers'[g].id].version
                             => handlers'[g].read = rows'[handlers'[g].id]
                        /\ Accepts(handlers'[g].req, handlers'[g].read.content)
      BY DEF ReadIsCurrent
    <3>1. g # h /\ handlers'[g] = handlers[g]
      BY <1>3 DEF Write, TypeOK
    <3>2. handlers[g] \in Busy
      BY <3>1 DEF TypeOK
    <3>3. /\ handlers[g].read.content # Absent /\ rows[handlers[g].id].content # Absent
          /\ handlers[g].read.version <= rows[handlers[g].id].version
          /\ handlers[g].read.version = rows[handlers[g].id].version
               => handlers[g].read = rows[handlers[g].id]
          /\ Accepts(handlers[g].req, handlers[g].read.content)
      BY <3>1 DEF ReadIsCurrent
    <3>4. rows' = [rows EXCEPT ![b.id] = new] /\ rows[b.id].version = b.read.version
      BY <1>3 DEF Write
    <3>5. CASE handlers[g].id = b.id
      BY <2>1, <2>3, <3>1, <3>2, <3>3, <3>4, <3>5 DEF TypeOK, Row, Busy
    <3>6. CASE handlers[g].id # b.id
      BY <2>1, <3>1, <3>2, <3>3, <3>4, <3>6 DEF TypeOK, Row, Busy
    <3> QED BY <3>5, <3>6
  <2> QED BY <2>4, <2>5
<1>4. ASSUME NEW h \in Handlers, Conflict(h) PROVE IInv'
  BY <1>4 DEF Conflict, TypeOK, ReadIsCurrent
<1>5. CASE UNCHANGED vars
  BY <1>5 DEF vars, TypeOK, ReadIsCurrent
<1> QED BY <1>1, <1>2, <1>3, <1>4, <1>5 DEF Next

\* Both parts hold of every reachable state.
LEMMA StoreInvariance == Spec => []IInv
BY InitIInv, StepIInv, PTL DEF Spec

\* The rows stay rows, whatever the handlers write over them, and a handler
\* is idle or holds a request and a row.
THEOREM StoreTypes == Spec => []TypeOK
<1>1. IInv => TypeOK
  BY DEF IInv
<1> QED BY <1>1, StoreInvariance, PTL

\* Every handler whose conditional UPDATE would match holds the row as it is
\* now: the discipline of the version column.
THEOREM ReadIsCurrentHolds == Spec => []ReadIsCurrent
<1>1. IInv => ReadIsCurrent
  BY DEF IInv
<1> QED BY <1>1, StoreInvariance, PTL

-----------------------------------------------------------------------------

Table == [i \in Ids |-> rows[i].content]

LEMMA InitRefines == Init => Atomic!Init
  BY DEF Init, Atomic!Init

LEMMA StepRefines == IInv /\ [Next]_vars => [Atomic!Next]_Table
<1> SUFFICES ASSUME IInv, [Next]_vars PROVE [Atomic!Next]_Table
  OBVIOUS
<1> USE DEF IInv
<1>1. ASSUME NEW i \in Ids, Insert(i) PROVE Atomic!Next
  <2>1. PICK c \in NewContents : 
               rows' = [rows EXCEPT ![i] = [content |-> c, version |-> 0]]
    BY <1>1 DEF Insert
  <2>2. Table' = [Table EXCEPT ![i] = c] /\ Table[i] = Absent
    BY <1>1, <2>1 DEF Insert, Table, TypeOK, Row
  <2> QED BY <2>2 DEF Atomic!Next, Atomic!Insert, Table
<1>2. ASSUME NEW h \in Handlers, NEW i \in Ids, NEW q \in Requests, Read(h, i, q)
      PROVE  UNCHANGED Table
  BY <1>2 DEF Read, Table
<1>3. ASSUME NEW h \in Handlers, Write(h) PROVE Atomic!Next
  <2> DEFINE b == handlers[h]
             c == Apply(b.req, b.read.content)
  <2>1. b \in Busy
    BY <1>3 DEF Write, TypeOK
  <2>2. /\ b.read = rows[b.id]
        /\ b.read.content # Absent /\ rows[b.id].content # Absent
        /\ Accepts(b.req, b.read.content)
    BY <1>3 DEF Write, ReadIsCurrent
  <2>3. rows' = [rows EXCEPT ![b.id] = [content |-> c, version |-> b.read.version + 1]]
    BY <1>3 DEF Write
  <2>4. b.id \in Ids /\ b.req \in Requests
    BY <2>1 DEF Busy
  <2>5. Table' = [Table EXCEPT ![b.id] = c]
    BY <2>3, <2>4 DEF Table, TypeOK
  <2>6. Table[b.id] = b.read.content
    BY <2>2, <2>4 DEF Table
  <2>7. PICK i \in Ids, q \in Requests : i = b.id /\ q = b.req
    BY <2>4
  <2>8. Table[i] # Absent /\ Accepts(q, Table[i])
    BY <2>2, <2>6, <2>7
  <2>9. Table' = [Table EXCEPT ![i] = Apply(q, Table[i])]
    BY <2>5, <2>6, <2>7
  <2>10. Atomic!Serve(i, q)
    BY <2>8, <2>9 DEF Atomic!Serve, Table
  <2> QED BY <2>10 DEF Atomic!Next
<1>4. ASSUME NEW h \in Handlers, Conflict(h) PROVE UNCHANGED Table
  BY <1>4 DEF Conflict, Table
<1>5. CASE UNCHANGED vars
  BY <1>5 DEF vars, Table
<1> QED BY <1>1, <1>2, <1>3, <1>4, <1>5 DEF Next

\* The conditional UPDATEs of the store make every handler atomic: the
\* versioned table implements the table whose handlers read, decide and
\* write in one step.
THEOREM LinearizableHolds == Spec => Linearizable
<1>1. Init => Atomic!Init
  BY InitRefines
<1>2. IInv /\ [Next]_vars => [Atomic!Next]_Table
  BY StepRefines
<1> QED BY <1>1, <1>2, StoreInvariance, PTL DEF Spec, Linearizable, Atomic!Spec, Table

=============================================================================
