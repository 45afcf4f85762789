------------------------------ MODULE JobSystem ------------------------------
(***************************************************************************)
(* runtime/JobSystem.cpp: the fixed worker pool every asynchronous         *)
(* subsystem owns (content, assets, entitlements, soft bodies, animation). *)
(*                                                                         *)
(* One mutex guards the ring and the flags, one mutex each JobGroup; a     *)
(* critical section is one action.  A condition variable is the set of     *)
(* threads asleep on it: a thread in state "asleep" moves only when it is  *)
(* notified or wakes spuriously, and then evaluates its predicate again.   *)
(***************************************************************************)
EXTENDS Naturals, FiniteSets, Sequences

CONSTANTS Workers,            \* the threads of the pool
          JobCount,           \* how many jobs the callers submit
          Groups,             \* JobGroup objects
          NoGroup,            \* Submit's default group argument
          GroupOf,            \* the group each job is submitted with
          InitialCapacity,    \* slots of a fresh ring (64 in the code)
          AllocationMayFail   \* growing the ring may throw bad_alloc

\* A job is its place in the order in which Submit was called.
Jobs == 1..JobCount

\* No job, no exception.
None == 0

ASSUME JobAssumption ==
  /\ IsFiniteSet(Workers) /\ Workers # {}
  /\ JobCount \in Nat
  /\ NoGroup \notin Groups
  /\ GroupOf \in [Jobs -> Groups \cup {NoGroup}]
  /\ InitialCapacity \in Nat \ {0}
  /\ AllocationMayFail \in BOOLEAN

VARIABLES
  Queue, QueueCapacity, QueueHead, QueueSize,  \* the ring and its cursor
  Active,                                      \* jobs taken and not retired
  Accepting, Stopping,
  worker, job,                                 \* each thread's place and job
  Pending, FirstException,                     \* the JobGroup fields
  waiter,                                      \* a caller of Wait, per group
  drainer, owner,                              \* callers of Drain and Shutdown
  status                                       \* history: the fate of each job

ring == <<Queue, QueueCapacity, QueueHead, QueueSize>>
groups == <<Pending, FirstException, waiter>>
vars == <<ring, Active, Accepting, Stopping, worker, job, groups, drainer,
          owner, status>>

\* "ready" is about to take the mutex and evaluate the predicate of its wait.
WorkerStates == {"ready", "asleep", "running", "retiring", "exited"}
CallerStates == {"idle", "ready", "asleep", "returned"}
OwnerStates == {"idle", "notifying", "joining", "returned"}
Statuses == {"new", "queued", "running", "finished", "dropped", "rejected",
             "leaked"}

TypeOK ==
  /\ QueueCapacity \in Nat \ {0}
  /\ Queue \in [0..(QueueCapacity - 1) -> Jobs \cup {None}]
  /\ QueueHead \in 0..(QueueCapacity - 1)
  /\ QueueSize \in 0..QueueCapacity
  /\ Active \in Nat
  /\ Accepting \in BOOLEAN /\ Stopping \in BOOLEAN
  /\ worker \in [Workers -> WorkerStates]
  /\ job \in [Workers -> Jobs \cup {None}]
  /\ Pending \in [Groups -> Nat]
  /\ FirstException \in [Groups -> Jobs \cup {None}]
  /\ waiter \in [Groups -> CallerStates]
  /\ drainer \in CallerStates
  /\ owner \in OwnerStates
  /\ status \in [Jobs -> Statuses]

Init ==
  /\ Queue = [i \in 0..(InitialCapacity - 1) |-> None]
  /\ QueueCapacity = InitialCapacity
  /\ QueueHead = 0
  /\ QueueSize = 0
  /\ Active = 0
  /\ Accepting = TRUE
  /\ Stopping = FALSE
  /\ worker = [w \in Workers |-> "ready"]
  /\ job = [w \in Workers |-> None]
  /\ Pending = [g \in Groups |-> 0]
  /\ FirstException = [g \in Groups |-> None]
  /\ waiter = [g \in Groups |-> "idle"]
  /\ drainer = "idle"
  /\ owner = "idle"
  /\ status = [j \in Jobs |-> "new"]

-----------------------------------------------------------------------------
(* The ring *)

\* The ring slot of the i-th queued job, counting from zero.
Slot(i) == (QueueHead + i) % QueueCapacity

QueuedJobs == {Queue[Slot(i)] : i \in 0..(QueueSize - 1)}

\* The growth loop without the wrap: it copies slots, not positions.
ExpandedVariant ==
  [i \in 0..(2 * QueueCapacity - 1) |->
     IF i < QueueSize THEN Queue[i] ELSE None]

\* Moves the queued jobs to the front of a ring twice the size.
Expanded ==
  [i \in 0..(2 * QueueCapacity - 1) |->
     IF i < QueueSize THEN Queue[Slot(i)] ELSE None]

PushRingVariant(j) ==
  /\ Queue' = [Queue EXCEPT ![Slot(QueueSize)] = j]
  /\ QueueSize' = QueueSize + 1
  /\ UNCHANGED <<QueueCapacity, QueueHead>>

\* The ring after one more job, grown first when it is full.
PushRing(j) ==
  IF QueueSize = QueueCapacity
  THEN /\ Queue' = [Expanded EXCEPT ![QueueSize] = j]
       /\ QueueCapacity' = 2 * QueueCapacity
       /\ QueueHead' = 0
       /\ QueueSize' = QueueSize + 1
  ELSE /\ Queue' = [Queue EXCEPT ![Slot(QueueSize)] = j]
       /\ QueueSize' = QueueSize + 1
       /\ UNCHANGED <<QueueCapacity, QueueHead>>

PopRing ==
  /\ Queue' = [Queue EXCEPT ![QueueHead] = None]
  /\ QueueHead' = (QueueHead + 1) % QueueCapacity
  /\ QueueSize' = QueueSize - 1
  /\ UNCHANGED QueueCapacity

-----------------------------------------------------------------------------
(* Condition variables *)

Asleep == {w \in Workers : worker[w] = "asleep"}

NotifyOneVariant == UNCHANGED worker

NotifyOne ==
  IF Asleep = {} THEN UNCHANGED worker
  ELSE \E w \in Asleep : worker' = [worker EXCEPT ![w] = "ready"]

NotifyAll ==
  worker' = [w \in Workers |-> IF worker[w] = "asleep" THEN "ready" ELSE worker[w]]

Woken(state) == IF state = "asleep" THEN "ready" ELSE state

-----------------------------------------------------------------------------
(* JobGroup *)

\* JobGroup::Complete of one job, run under the group's mutex; an exception e
\* other than None is kept if it is the first.
Complete(g, e) ==
  /\ Pending' = [Pending EXCEPT ![g] = @ - 1]
  /\ FirstException' =
       [FirstException EXCEPT ![g] = IF e # None /\ @ = None THEN e ELSE @]
  /\ waiter' = IF Pending[g] = 1 THEN [waiter EXCEPT ![g] = Woken(@)] ELSE waiter

\* A caller enters Wait, sleeps, or returns.
WaitCall(g) ==
  /\ waiter[g] = "idle"
  /\ waiter' = [waiter EXCEPT ![g] = "ready"]
  /\ UNCHANGED <<ring, Active, Accepting, Stopping, worker, job, Pending,
                 FirstException, drainer, owner, status>>

WaitVariant(g) ==
  /\ waiter[g] = "ready"
  /\ waiter' = [waiter EXCEPT ![g] = IF Pending[g] <= 1 THEN "returned" ELSE "asleep"]
  /\ UNCHANGED <<ring, Active, Accepting, Stopping, worker, job, Pending,
                 FirstException, drainer, owner, status>>

Wait(g) ==
  /\ waiter[g] = "ready"
  /\ waiter' = [waiter EXCEPT ![g] = IF Pending[g] = 0 THEN "returned" ELSE "asleep"]
  /\ UNCHANGED <<ring, Active, Accepting, Stopping, worker, job, Pending,
                 FirstException, drainer, owner, status>>

-----------------------------------------------------------------------------
(* The callers' side of the pool *)

\* JobGroup::Add, when the job has a group.
AddToGroup(j) ==
  Pending' = IF GroupOf[j] = NoGroup THEN Pending
             ELSE [Pending EXCEPT ![GroupOf[j]] = @ + 1]

\* The next job a caller brings.
Upcoming(j) == /\ status[j] = "new"
               /\ \A k \in 1..(j - 1) : status[k] # "new"

Submit(j) ==
  /\ Upcoming(j)
  /\ Accepting
  /\ AddToGroup(j)
  /\ PushRing(j)
  /\ NotifyOne
  /\ status' = [status EXCEPT ![j] = "queued"]
  /\ UNCHANGED <<Active, Accepting, Stopping, job, FirstException, waiter,
                 drainer, owner>>

\* Submit throws because the pool no longer accepts.
SubmitRejected(j) ==
  /\ Upcoming(j)
  /\ ~Accepting
  /\ status' = [status EXCEPT ![j] = "rejected"]
  /\ UNCHANGED <<ring, Active, Accepting, Stopping, worker, job, groups,
                 drainer, owner>>

\* Submit throws from the allocation of the larger ring: the group has already
\* counted the job, and nothing takes the count back.
SubmitAllocationFailure(j) ==
  /\ AllocationMayFail
  /\ Upcoming(j)
  /\ Accepting
  /\ QueueSize = QueueCapacity
  /\ AddToGroup(j)
  /\ status' = [status EXCEPT ![j] = "leaked"]
  /\ UNCHANGED <<ring, Active, Accepting, Stopping, worker, job,
                 FirstException, waiter, drainer, owner>>

DrainCall ==
  /\ drainer = "idle"
  /\ drainer' = "ready"
  /\ UNCHANGED <<ring, Active, Accepting, Stopping, worker, job, groups, owner,
                 status>>

DrainVariant ==
  /\ drainer = "ready"
  /\ drainer' = IF QueueSize = 0 THEN "returned" ELSE "asleep"
  /\ UNCHANGED <<ring, Active, Accepting, Stopping, worker, job, groups, owner,
                 status>>

Drain ==
  /\ drainer = "ready"
  /\ drainer' = IF QueueSize = 0 /\ Active = 0 THEN "returned" ELSE "asleep"
  /\ UNCHANGED <<ring, Active, Accepting, Stopping, worker, job, groups, owner,
                 status>>

\* Every queued job's group is told; a group sees as many Complete(nullptr) calls
\* as it has queued jobs, and its waiter is notified when it reaches zero.
QueuedOf(g) == {j \in QueuedJobs : GroupOf[j] = g}

CompleteDroppedVariant == UNCHANGED <<Pending, waiter, FirstException>>

CompleteDropped ==
  /\ Pending' = [g \in Groups |-> Pending[g] - Cardinality(QueuedOf(g))]
  /\ waiter' = [g \in Groups |->
                  IF QueuedOf(g) # {} /\ Pending[g] = Cardinality(QueuedOf(g))
                  THEN Woken(waiter[g]) ELSE waiter[g]]
  /\ UNCHANGED FirstException

\* The locked part of Shutdown(drain).  A further call returns at once: it is a
\* stuttering step.
Shutdown(drain) ==
  /\ owner = "idle"
  /\ Accepting \/ ~Stopping
  /\ Accepting' = FALSE
  /\ Stopping' = TRUE
  /\ owner' = "notifying"
  /\ IF drain
     THEN UNCHANGED <<ring, groups, status>>
     ELSE /\ CompleteDropped
          /\ Queue' = [i \in 0..(QueueCapacity - 1) |->
                         IF i \in {Slot(k) : k \in 0..(QueueSize - 1)}
                         THEN None ELSE Queue[i]]
          /\ QueueHead' = 0
          /\ QueueSize' = 0
          /\ status' = [j \in Jobs |->
                          IF j \in QueuedJobs THEN "dropped" ELSE status[j]]
          /\ UNCHANGED QueueCapacity
  /\ UNCHANGED <<Active, worker, job, drainer>>

ShutdownNotifyVariant ==
  /\ owner = "notifying"
  /\ owner' = "joining"
  /\ NotifyOne
  /\ UNCHANGED <<ring, Active, Accepting, Stopping, job, groups, drainer, status>>

\* Available.notify_all(), after the mutex has been released.
ShutdownNotify ==
  /\ owner = "notifying"
  /\ owner' = "joining"
  /\ NotifyAll
  /\ UNCHANGED <<ring, Active, Accepting, Stopping, job, groups, drainer, status>>

\* Every worker has been joined.
ShutdownJoin ==
  /\ owner = "joining"
  /\ \A w \in Workers : worker[w] = "exited"
  /\ owner' = "returned"
  /\ UNCHANGED <<ring, Active, Accepting, Stopping, worker, job, groups, drainer,
                 status>>

-----------------------------------------------------------------------------
(* A worker's loop *)

WorkerExitVariant(w) ==
  /\ worker[w] = "ready"
  /\ Stopping
  /\ worker' = [worker EXCEPT ![w] = "exited"]
  /\ UNCHANGED <<ring, Active, Accepting, Stopping, job, groups, drainer, owner,
                 status>>

WorkerExit(w) ==
  /\ worker[w] = "ready"
  /\ Stopping /\ QueueSize = 0
  /\ worker' = [worker EXCEPT ![w] = "exited"]
  /\ UNCHANGED <<ring, Active, Accepting, Stopping, job, groups, drainer, owner,
                 status>>

WorkerSleep(w) ==
  /\ worker[w] = "ready"
  /\ ~Stopping /\ QueueSize = 0
  /\ worker' = [worker EXCEPT ![w] = "asleep"]
  /\ UNCHANGED <<ring, Active, Accepting, Stopping, job, groups, drainer, owner,
                 status>>

WorkerTake(w) ==
  /\ worker[w] = "ready"
  /\ QueueSize # 0
  /\ job' = [job EXCEPT ![w] = Queue[QueueHead]]
  /\ status' = [status EXCEPT ![Queue[QueueHead]] = "running"]
  /\ PopRing
  /\ Active' = Active + 1
  /\ worker' = [worker EXCEPT ![w] = "running"]
  /\ UNCHANGED <<Accepting, Stopping, groups, drainer, owner>>

\* The job returns or throws, and its group is told.
WorkerComplete(w, threw) ==
  LET j == job[w] IN
  /\ worker[w] = "running"
  /\ status' = [status EXCEPT ![j] = "finished"]
  /\ IF GroupOf[j] = NoGroup THEN UNCHANGED groups
     ELSE Complete(GroupOf[j], IF threw THEN j ELSE None)
  /\ worker' = [worker EXCEPT ![w] = "retiring"]
  /\ UNCHANGED <<ring, Active, Accepting, Stopping, job, drainer, owner>>

WorkerRetireVariant(w) ==
  /\ worker[w] = "retiring"
  /\ Active' = Active - 1
  /\ worker' = [worker EXCEPT ![w] = "ready"]
  /\ job' = [job EXCEPT ![w] = None]
  /\ UNCHANGED <<ring, Accepting, Stopping, groups, drainer, owner, status>>

WorkerRetire(w) ==
  /\ worker[w] = "retiring"
  /\ Active' = Active - 1
  /\ drainer' = IF Active = 1 /\ QueueSize = 0 THEN Woken(drainer) ELSE drainer
  /\ worker' = [worker EXCEPT ![w] = "ready"]
  /\ job' = [job EXCEPT ![w] = None]
  /\ UNCHANGED <<ring, Accepting, Stopping, groups, owner, status>>

\* condition_variable::wait may return without a notification.
SpuriousWake(w) ==
  /\ worker[w] = "asleep"
  /\ worker' = [worker EXCEPT ![w] = "ready"]
  /\ UNCHANGED <<ring, Active, Accepting, Stopping, job, groups, drainer, owner,
                 status>>

-----------------------------------------------------------------------------
WorkerStep(w) == \/ WorkerExit(w) \/ WorkerSleep(w) \/ WorkerTake(w)
                 \/ \E threw \in BOOLEAN : WorkerComplete(w, threw)
                 \/ WorkerRetire(w)

Next ==
  \/ \E j \in Jobs : Submit(j) \/ SubmitRejected(j) \/ SubmitAllocationFailure(j)
  \/ \E g \in Groups : WaitCall(g) \/ Wait(g)
  \/ DrainCall \/ Drain
  \/ \E drain \in BOOLEAN : Shutdown(drain)
  \/ ShutdownNotify \/ ShutdownJoin
  \/ \E w \in Workers : WorkerStep(w) \/ SpuriousWake(w)

Spec == Init /\ [][Next]_vars

\* The operating system runs every thread that is not asleep or blocked: a
\* worker's loop (and with it the job, which returns), a caller inside Wait or
\* Drain, and the rest of a Shutdown that has begun.  Nobody is obliged to
\* submit, to wait or to shut down, and no spurious wake-up may be relied on.
Fairness ==
  /\ \A w \in Workers : WF_vars(WorkerStep(w))
  /\ \A g \in Groups : WF_vars(Wait(g))
  /\ WF_vars(Drain)
  /\ WF_vars(ShutdownNotify \/ ShutdownJoin)

LiveSpec == Spec /\ Fairness

-----------------------------------------------------------------------------
(* Properties *)

\* The ring, read from its head, and the jobs' fates implement JobPool: jobs
\* start in submission order across wrap-around and growth, none twice, none
\* lost, and after Shutdown none is accepted.
Pool == INSTANCE JobPool WITH
          queue <- [i \in 1..QueueSize |-> Queue[Slot(i - 1)]],
          stage <- [j \in Jobs |->
                      IF status[j] = "leaked" THEN "rejected" ELSE status[j]],
          open <- Accepting

PoolSpec == Pool!Spec

Outstanding(g) == {j \in Jobs : GroupOf[j] = g /\ status[j] \in {"queued", "running"}}

\* Wait returns only when every job submitted to the group so far has finished
\* or has been dropped, even when submitters, workers and Shutdown race it.
WaitIsAFence ==
  [][\A g \in Groups :
       waiter[g] # "returned" /\ waiter'[g] = "returned" => Outstanding(g) = {}]_vars

\* Drain returns only when no job is queued and no worker is still inside one,
\* its group's bookkeeping included.
DrainIsABarrier ==
  [][drainer # "returned" /\ drainer' = "returned" =>
       /\ QueuedJobs = {}
       /\ \A w \in Workers : worker[w] \notin {"running", "retiring"}]_vars

\* While a worker sleeps, every queued job has an awake worker on its way to
\* it: notify_one is called once for each job, so no wake-up is lost and no job
\* waits behind a busy worker while another sleeps.
Ready == {w \in Workers : worker[w] = "ready"}

NoIdleCapacity == Asleep # {} => QueueSize <= Cardinality(Ready)

\* Every accepted job is finished or dropped, whatever the callers do next.
AcceptedJobsEnd ==
  \A j \in Jobs : status[j] = "queued" ~> status[j] \in {"finished", "dropped"}

\* A Shutdown that has begun returns: each worker sees Stopping and exits.
ShutdownReturns == owner = "notifying" ~> owner = "returned"

\* A caller of Wait gets out (submitters are finite, so the group comes to
\* zero), unless a submission to the group failed to allocate after it had been
\* counted.
WaitReturns ==
  \A g \in Groups :
    waiter[g] = "ready" ~>
      waiter[g] = "returned" \/ \E j \in Jobs : GroupOf[j] = g /\ status[j] = "leaked"

\* A caller of Drain gets out unless a non-draining Shutdown empties the queue.
DrainReturnsUnlessDropped ==
  drainer = "ready" ~>
    drainer = "returned" \/ \E j \in Jobs : status[j] = "dropped"

\* A caller of Drain gets out.
DrainReturns == drainer = "ready" ~> drainer = "returned"
==============================================================================
