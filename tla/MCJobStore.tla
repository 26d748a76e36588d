----------------------------- MODULE MCJobStore -----------------------------
(***************************************************************************)
(* OptimisticStore with the jobs table and its handlers.                   *)
(***************************************************************************)
EXTENDS OptimisticStore, JobRow

NewJobs == {NewJob}

\* The handlers' requests; a model id matters to two of them only.
MCRequests == {q \in JobRequests :
                  q.op \notin {"PREPROCESSED", "FINETUNED"} => q.model = NoModel}

\* The table of OptimisticStore is the jobs table, its handlers are JobRow's.
ASSUME JobsTableAssumption ==
    /\ Contents = JobRows /\ Absent = NoJob /\ NewContents = NewJobs
    /\ Requests \subseteq JobRequests
    /\ \A q \in JobRequests, j \in JobRows :
          Accepts(q, j) = JobAccepts(q, j) /\ Apply(q, j) = JobApply(q, j)

-----------------------------------------------------------------------------

\* QueuedAction "is only used when the state is JobStateQueued" (the comment
\* on the column): whatever requests arrive, in whatever order, a row has a
\* queued action exactly while it is queued.
ActionIffQueued ==
    \A i \in Ids : rows[i].content # Absent =>
        (rows[i].content.action # "" <=> rows[i].content.state = "queued")

\* No handler of the server, called by anybody at any time, takes a job that
\* has ended back to queued or running, and none makes a job succeed that was
\* not running.
EndedStaysEnded ==
    [][\A i \in Ids :
          LET old == rows[i].content.state
              new == rows'[i].content.state
          IN  /\ old \in Terminal => new \in Terminal
              /\ new = "succeeded" /\ old # "succeeded" => old = "running"]_rows

=============================================================================
