------------------------------- MODULE JobPool -------------------------------
(***************************************************************************)
(* What a JobSystem promises its callers, without threads, mutexes or a    *)
(* ring: accepted jobs are started first-in first-out, each exactly once;  *)
(* closing stops admission and either keeps or discards what is queued.    *)
(***************************************************************************)
EXTENDS Sequences

CONSTANT Jobs

VARIABLES queue,  \* accepted jobs that no worker has started, oldest first
          stage,  \* stage[j]: how far job j has come
          open    \* new jobs are accepted

vars == <<queue, stage, open>>

Stages == {"new", "queued", "running", "finished", "dropped", "rejected"}

Init == /\ queue = <<>>
        /\ stage = [j \in Jobs |-> "new"]
        /\ open = TRUE

Submit(j) == /\ open
             /\ stage[j] = "new"
             /\ queue' = Append(queue, j)
             /\ stage' = [stage EXCEPT ![j] = "queued"]
             /\ UNCHANGED open

\* A closed pool refuses a job; an open one may, when it cannot get memory.
Reject(j) == /\ stage[j] = "new"
             /\ stage' = [stage EXCEPT ![j] = "rejected"]
             /\ UNCHANGED <<queue, open>>

Take == /\ queue # <<>>
        /\ stage' = [stage EXCEPT ![Head(queue)] = "running"]
        /\ queue' = Tail(queue)
        /\ UNCHANGED open

Finish(j) == /\ stage[j] = "running"
             /\ stage' = [stage EXCEPT ![j] = "finished"]
             /\ UNCHANGED <<queue, open>>

CloseAndKeep == /\ open
                /\ open' = FALSE
                /\ UNCHANGED <<queue, stage>>

CloseAndDiscard ==
  /\ open
  /\ open' = FALSE
  /\ queue' = <<>>
  /\ stage' = [j \in Jobs |-> IF stage[j] = "queued" THEN "dropped" ELSE stage[j]]

Next == \/ \E j \in Jobs : Submit(j) \/ Reject(j) \/ Finish(j)
        \/ Take \/ CloseAndKeep \/ CloseAndDiscard

Spec == Init /\ [][Next]_vars
==============================================================================
