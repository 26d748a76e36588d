-------------------------- MODULE OptimisticStore --------------------------
(***************************************************************************)
(* The database tables of the server as its request handlers use them.     *)
(* jobs, notebooks and batch_jobs follow one discipline: a handler reads   *)
(* the row, decides from what it read, and issues                          *)
(*     UPDATE ... SET ..., version = v + 1 WHERE id = ? AND version = v    *)
(* with the version v it read; no row updated means ErrConcurrentUpdate.   *)
(* Any number of handlers run at once, and none of them takes a lock.      *)
(*                                                                         *)
(* The module is parameterised by what a handler decides and writes, so    *)
(* one refinement result serves the three tables.                          *)
(***************************************************************************)
EXTENDS Naturals

CONSTANTS
    Ids, Contents, Absent, NewContents, Requests, Accepts(_, _), Apply(_, _),
    Handlers,       \* goroutines serving requests (and the rescheduler)
    MaxVersion      \* bound: no handler starts on a row at this version

ASSUME ContentsAssumption ==
    /\ Absent \in Contents
    /\ NewContents \subseteq Contents \ {Absent}
    /\ MaxVersion \in Nat

ASSUME ApplyAssumption ==
    \A q \in Requests, c \in Contents \ {Absent} :
        Accepts(q, c) => Apply(q, c) \in Contents \ {Absent}

VARIABLES
    rows,       \* id -> contents and version
    handlers    \* handler -> the request it serves and the row it has read

vars == <<rows, handlers>>

Row == [content : Contents, version : Nat]

Idle == [busy |-> FALSE]

Busy == [busy : {TRUE}, id : Ids, req : Requests, read : Row]

TypeOK ==
    /\ rows \in [Ids -> Row]
    /\ handlers \in [Handlers -> Busy \cup {Idle}]

Init ==
    /\ rows = [i \in Ids |-> [content |-> Absent, version |-> 0]]
    /\ handlers = [h \in Handlers |-> Idle]

-----------------------------------------------------------------------------

\* The Create* handlers insert a row under a freshly generated id.
Insert(i) ==
    /\ rows[i].content = Absent
    /\ \E c \in NewContents :
          rows' = [rows EXCEPT ![i] = [content |-> c, version |-> 0]]
    /\ UNCHANGED handlers

\* A handler reads the row and finds that it has to write it.  A handler
\* that finds otherwise returns without a trace.
Read(h, i, q) ==
    /\ handlers[h] = Idle
    /\ rows[i].content # Absent
    /\ rows[i].version < MaxVersion
    /\ Accepts(q, rows[i].content)
    /\ handlers' = [handlers EXCEPT
          ![h] = [busy |-> TRUE, id |-> i, req |-> q, read |-> rows[i]]]
    /\ UNCHANGED rows

\* Variants of Write for mutation checks: the WHERE clause without the
\* version, the version not incremented.
WriteUnversioned(h) ==
    LET b == handlers[h] IN
    /\ b # Idle
    /\ rows' = [rows EXCEPT ![b.id] =
                  [content |-> Apply(b.req, b.read.content),
                   version |-> b.read.version + 1]]
    /\ handlers' = [handlers EXCEPT ![h] = Idle]

WriteSameVersion(h) ==
    LET b == handlers[h] IN
    /\ b # Idle
    /\ rows[b.id].version = b.read.version
    /\ rows' = [rows EXCEPT ![b.id].content = Apply(b.req, b.read.content)]
    /\ handlers' = [handlers EXCEPT ![h] = Idle]

\* The conditional UPDATE matches the row: it sets columns computed from the
\* row as it was read, and the next version.
Write(h) ==
    LET b == handlers[h] IN
    /\ b # Idle
    /\ rows[b.id].version = b.read.version
    /\ rows' = [rows EXCEPT ![b.id] =
                  [content |-> Apply(b.req, b.read.content),
                   version |-> b.read.version + 1]]
    /\ handlers' = [handlers EXCEPT ![h] = Idle]

\* The version has moved on, the UPDATE matches no row, and the handler
\* answers ErrConcurrentUpdate.
Conflict(h) ==
    /\ handlers[h] # Idle
    /\ rows[handlers[h].id].version # handlers[h].read.version
    /\ handlers' = [handlers EXCEPT ![h] = Idle]
    /\ UNCHANGED rows

Next ==
    \/ \E i \in Ids : Insert(i)
    \/ \E h \in Handlers, i \in Ids, q \in Requests : Read(h, i, q)
    \/ \E h \in Handlers : Write(h) \/ Conflict(h)

Spec == Init /\ [][Next]_vars

-----------------------------------------------------------------------------
(***************************************************************************)
(* Properties                                                              *)
(***************************************************************************)

\* A handler whose conditional UPDATE would succeed has read the row as it
\* is now, and its decision still stands (the WHERE version = v clauses of
\* the store).
ReadIsCurrent ==
    \A h \in Handlers :
        handlers[h] # Idle =>
            LET b == handlers[h] IN
            /\ b.read.content # Absent /\ rows[b.id].content # Absent
            /\ b.read.version <= rows[b.id].version
            /\ b.read.version = rows[b.id].version => b.read = rows[b.id]
            /\ Accepts(b.req, b.read.content)

Atomic == INSTANCE AtomicStore
            WITH table <- [i \in Ids |-> rows[i].content]

\* No update is lost or applied to a row its handler has not seen: the
\* contents of the table change as if each handler ran alone
\* (ErrConcurrentUpdate in server/internal/store).
Linearizable == Atomic!Spec

=============================================================================
