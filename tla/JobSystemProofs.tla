--------------------------- MODULE JobSystemProofs ---------------------------
(***************************************************************************)
(* Proofs about the job system, for every number of workers and jobs, any  *)
(* grouping and any initial capacity.                                      *)
(*                                                                         *)
(* The argument has three layers.  The ring holds exactly the jobs whose   *)
(* fate is "queued", each once, wherever its head is (RingOK); a running   *)
(* job has one worker (WorkersOK); and the two counters that callers wait  *)
(* on count what they are meant to count (ActiveExact, GroupExact), which  *)
(* is what keeps them from going below zero.                               *)
(***************************************************************************)
EXTENDS JobSystem, FiniteSetTheorems, SequenceTheorems, TLAPS

\* The ring read from its head, as the abstract pool sees it.
QueueSeq == [i \in 1..QueueSize |-> Queue[Slot(i - 1)]]

\* The job at a position of the queue.
At(i) == Queue[Slot(i)]

\* The ring holds the queued jobs, each once.
RingOK ==
  /\ \A i \in 0..(QueueSize - 1) : At(i) \in Jobs /\ status[At(i)] = "queued"
  /\ \A i, k \in 0..(QueueSize - 1) : At(i) = At(k) => i = k
  /\ \A j \in Jobs : status[j] = "queued" => \E i \in 0..(QueueSize - 1) : At(i) = j

\* A running worker has a running job of its own.
WorkersOK ==
  /\ \A w \in Workers : worker[w] = "running" =>
       job[w] \in Jobs /\ status[job[w]] = "running"
  /\ \A v, w \in Workers :
       worker[v] = "running" /\ worker[w] = "running" /\ job[v] = job[w] => v = w

Busy == {w \in Workers : worker[w] \in {"running", "retiring"}}

ActiveExact == Active = Cardinality(Busy)

\* The jobs a group still counts: a failed submission is never taken back.
Counted(g) == {j \in Jobs : GroupOf[j] = g /\ status[j] \in {"queued", "running", "leaked"}}

GroupExact == \A g \in Groups : Pending[g] = Cardinality(Counted(g))

\* Only the call of Shutdown that has not happened yet finds the pool open.
OwnerOK == owner = "idle" => Accepting

IndInv == TypeOK /\ RingOK /\ WorkersOK /\ ActiveExact /\ GroupExact /\ OwnerOK

-----------------------------------------------------------------------------
(* The ring *)

\* A position within one turn stays where it is.
LEMMA WrapNone ==
  ASSUME NEW n \in Nat, n > 0, NEW a \in Nat, a < n
  PROVE  a % n = a
BY SMT

\* A position at most one turn ahead wraps once.
LEMMA WrapOnce ==
  ASSUME NEW n \in Nat, n > 0, NEW a \in Nat, n <= a, a < n + n
  PROVE  a % n = a - n
BY SMT

\* The slot of a position, without the modulus.
LEMMA SlotIs ==
  ASSUME TypeOK, NEW i \in 0..QueueCapacity
  PROVE  /\ QueueHead + i < QueueCapacity => Slot(i) = QueueHead + i
         /\ QueueCapacity <= QueueHead + i => Slot(i) = (QueueHead + i) - QueueCapacity
         /\ Slot(i) \in 0..(QueueCapacity - 1)
<1>1. /\ QueueCapacity \in Nat /\ QueueCapacity > 0
      /\ QueueHead + i \in Nat /\ QueueHead + i < QueueCapacity + QueueCapacity
  BY DEF TypeOK
<1>2. CASE QueueHead + i < QueueCapacity
  <2>1. (QueueHead + i) % QueueCapacity = QueueHead + i
    BY <1>1, <1>2, WrapNone, Zenon
  <2> QED
    BY <1>1, <1>2, <2>1 DEF TypeOK, Slot
<1>3. CASE QueueCapacity <= QueueHead + i
  <2>1. (QueueHead + i) % QueueCapacity = (QueueHead + i) - QueueCapacity
    BY <1>1, <1>3, WrapOnce, Zenon
  <2> QED
    BY <1>1, <1>3, <2>1 DEF TypeOK, Slot
<1> QED
  BY <1>1, <1>2, <1>3 DEF TypeOK

\* Two positions within one turn have two slots.
LEMMA SlotInjective ==
  ASSUME TypeOK, NEW i \in 0..(QueueCapacity - 1), NEW k \in 0..(QueueCapacity - 1),
         Slot(i) = Slot(k)
  PROVE  i = k
<1>1. i \in 0..QueueCapacity /\ k \in 0..QueueCapacity /\ QueueCapacity \in Nat /\ QueueHead \in Nat
  BY DEF TypeOK
<1> QED
  BY <1>1, SlotIs

\* The ring's type, apart from the rest of TypeOK.
RingType ==
  /\ QueueCapacity \in Nat \ {0}
  /\ Queue \in [0..(QueueCapacity - 1) -> Jobs \cup {None}]
  /\ QueueHead \in 0..(QueueCapacity - 1)
  /\ QueueSize \in 0..QueueCapacity

\* Pushing keeps every queued job at its position and puts the new one last,
\* whether or not the ring had to grow and wherever its head was.
LEMMA PushKeepsOrder ==
  ASSUME TypeOK, NEW j \in Jobs, PushRing(j)
  PROVE  /\ RingType'
         /\ QueueSize' = QueueSize + 1
         /\ \A i \in 0..(QueueSize - 1) : At(i)' = At(i)
         /\ \A i \in {QueueSize} : At(i)' = j
<1>0. /\ QueueCapacity \in Nat \ {0} /\ QueueHead \in 0..(QueueCapacity - 1)
      /\ QueueSize \in 0..QueueCapacity
      /\ Queue \in [0..(QueueCapacity - 1) -> Jobs \cup {None}]
  BY DEF TypeOK
<1>1. CASE QueueSize = QueueCapacity
  <2>1. /\ Queue' = [Expanded EXCEPT ![QueueSize] = j]
        /\ QueueCapacity' = 2 * QueueCapacity
        /\ QueueHead' = 0
        /\ QueueSize' = QueueSize + 1
    BY <1>1 DEF PushRing
  <2>2. Expanded \in [0..(2 * QueueCapacity - 1) -> Jobs \cup {None}]
    <3>1. \A i \in 0..(QueueCapacity - 1) : Slot(i) \in 0..(QueueCapacity - 1)
      BY <1>0, SlotIs
    <3> QED
      BY <3>1, <1>0, <1>1 DEF Expanded
  <2>3. \A i \in 0..QueueSize : Slot(i)' = i
    <3>1. ASSUME NEW i \in 0..QueueSize
          PROVE  (0 + i) % (2 * QueueCapacity) = i
      BY <1>0, <1>1
    <3> QED
      BY <3>1, <2>1 DEF Slot
  <2>4. RingType'
    BY <1>0, <1>1, <2>1, <2>2 DEF RingType
  <2>5. \A i \in 0..(QueueSize - 1) : Queue'[i] = Queue[Slot(i)]
    BY <1>0, <1>1, <2>1, <2>2 DEF Expanded
  <2>6. Queue'[QueueSize] = j
    BY <1>0, <1>1, <2>1, <2>2
  <2> QED
    BY <1>0, <2>1, <2>3, <2>4, <2>5, <2>6 DEF At
<1>2. CASE QueueSize # QueueCapacity
  <2>1. /\ Queue' = [Queue EXCEPT ![Slot(QueueSize)] = j]
        /\ QueueSize' = QueueSize + 1
        /\ QueueCapacity' = QueueCapacity /\ QueueHead' = QueueHead
    BY <1>2 DEF PushRing
  <2>2. \A i \in 0..QueueSize : Slot(i)' = Slot(i)
    BY <2>1 DEF Slot
  <2>3. Slot(QueueSize) \in 0..(QueueCapacity - 1)
    BY <1>0, SlotIs
  <2>4. \A i \in 0..(QueueSize - 1) :
          Slot(i) \in 0..(QueueCapacity - 1) /\ Slot(i) # Slot(QueueSize)
    BY <1>0, <1>2, SlotIs, SlotInjective
  <2>5. RingType'
    BY <1>0, <1>2, <2>1, <2>3 DEF RingType
  <2> QED
    BY <1>0, <2>1, <2>2, <2>3, <2>4, <2>5 DEF At
<1> QED
  BY <1>1, <1>2

\* Popping moves every queued job one position forward.
LEMMA PopKeepsOrder ==
  ASSUME TypeOK, QueueSize # 0, PopRing
  PROVE  /\ RingType'
         /\ QueueSize' = QueueSize - 1
         /\ Slot(0) = QueueHead
         /\ \A i \in 0..(QueueSize - 2) : At(i)' = At(i + 1)
<1>0. /\ QueueCapacity \in Nat \ {0} /\ QueueHead \in 0..(QueueCapacity - 1)
      /\ QueueSize \in 1..QueueCapacity
      /\ Queue \in [0..(QueueCapacity - 1) -> Jobs \cup {None}]
  BY DEF TypeOK
<1>1. /\ Queue' = [Queue EXCEPT ![QueueHead] = None]
      /\ QueueHead' = (QueueHead + 1) % QueueCapacity
      /\ QueueSize' = QueueSize - 1
      /\ QueueCapacity' = QueueCapacity
  BY DEF PopRing
<1>2. /\ Slot(0) = QueueHead
      /\ QueueHead' = Slot(1)
      /\ Slot(1) \in 0..(QueueCapacity - 1)
      /\ QueueHead + 1 < QueueCapacity => Slot(1) = QueueHead + 1
      /\ QueueHead + 1 >= QueueCapacity => Slot(1) = QueueHead + 1 - QueueCapacity
  <2>1. 0 \in 0..QueueCapacity /\ 1 \in 0..QueueCapacity
    BY <1>0
  <2>2. QueueHead' = Slot(1)
    BY <1>1 DEF Slot
  <2> QED
    BY <2>1, <2>2, <1>0, SlotIs
<1>3. RingType'
  BY <1>0, <1>1, <1>2 DEF RingType
<1>4. ASSUME NEW i \in 0..(QueueSize - 2)
      PROVE  At(i)' = At(i + 1)
  <2>1. Slot(i)' = (QueueHead' + i) % QueueCapacity
    BY <1>1 DEF Slot
  <2>2. /\ QueueCapacity \in Nat /\ QueueCapacity > 0
        /\ QueueHead' + i \in Nat /\ QueueHead' + i < QueueCapacity + QueueCapacity
    BY <1>0, <1>2
  <2>3. /\ QueueHead' + i < QueueCapacity => Slot(i)' = QueueHead' + i
        /\ QueueCapacity <= QueueHead' + i => Slot(i)' = (QueueHead' + i) - QueueCapacity
    BY <2>1, <2>2, WrapNone, WrapOnce, Zenon
  <2>4. /\ i + 1 \in 0..QueueCapacity
        /\ QueueHead + (i + 1) < QueueCapacity => Slot(i + 1) = QueueHead + (i + 1)
        /\ QueueCapacity <= QueueHead + (i + 1) =>
             Slot(i + 1) = (QueueHead + (i + 1)) - QueueCapacity
        /\ Slot(i + 1) \in 0..(QueueCapacity - 1)
    <3>1. i + 1 \in 0..QueueCapacity
      BY <1>0
    <3> QED
      BY <3>1, SlotIs, Zenon
  <2>5. Slot(i)' = Slot(i + 1)
    BY <1>0, <1>2, <2>3, <2>4
  <2>6. Slot(i + 1) # QueueHead
    BY <1>0, <2>4
  <2> QED
    BY <1>0, <1>1, <2>4, <2>5, <2>6 DEF At
<1> QED
  BY <1>1, <1>2, <1>3, <1>4

-----------------------------------------------------------------------------
(* Each part of the invariant, over the steps that disturb it *)

\* The ring invariant only looks at the ring and at which jobs are queued.
LEMMA RingFrame ==
  ASSUME TypeOK, RingOK, UNCHANGED ring,
         \A j \in Jobs : (status'[j] = "queued") = (status[j] = "queued")
  PROVE  RingOK'
<1>1. /\ QueueSize' = QueueSize
      /\ \A i \in 0..(QueueSize - 1) : At(i)' = At(i)
  BY DEF ring, At, Slot
<1> QED
  BY <1>1 DEF RingOK

\* A pushed job was not in the ring before.
LEMMA RingPush ==
  ASSUME TypeOK, RingOK, NEW j \in Jobs, status[j] = "new", PushRing(j),
         status' = [status EXCEPT ![j] = "queued"]
  PROVE  RingOK'
<1>1. /\ QueueSize' = QueueSize + 1
      /\ \A i \in 0..(QueueSize - 1) : At(i)' = At(i)
      /\ \A i \in {QueueSize} : At(i)' = j
  BY PushKeepsOrder
<1>2. /\ QueueSize \in Nat
      /\ status \in [Jobs -> Statuses]
  BY DEF TypeOK
<1>3. /\ status'[j] = "queued"
      /\ \A k \in Jobs : k # j => status'[k] = status[k]
  BY <1>2
<1>4. \A i \in 0..(QueueSize' - 1) : i \in 0..(QueueSize - 1) \/ i = QueueSize
  BY <1>1, <1>2
<1>5. \A i \in 0..(QueueSize - 1) : At(i) \in Jobs /\ status[At(i)] = "queued" /\ At(i) # j
  BY <1>2 DEF RingOK
<1>6. \A i \in 0..(QueueSize' - 1) : At(i)' \in Jobs /\ status'[At(i)'] = "queued"
  BY <1>1, <1>3, <1>4, <1>5
<1>7. \A i, k \in 0..(QueueSize' - 1) : At(i)' = At(k)' => i = k
  BY <1>1, <1>4, <1>5 DEF RingOK
<1>8. ASSUME NEW k \in Jobs, status'[k] = "queued"
      PROVE  \E i \in 0..(QueueSize' - 1) : At(i)' = k
  <2>1. CASE k = j
    BY <1>1, <1>2, <2>1
  <2>2. CASE k # j
    <3>1. PICK i \in 0..(QueueSize - 1) : At(i) = k
      BY <1>3, <1>8, <2>2 DEF RingOK
    <3>2. i \in 0..(QueueSize' - 1)
      BY <1>1, <1>2
    <3> QED
      BY <3>1, <3>2, <1>1
  <2> QED
    BY <2>1, <2>2
<1> QED
  BY <1>6, <1>7, <1>8 DEF RingOK

\* The job a worker takes leaves the ring.
LEMMA RingPop ==
  ASSUME TypeOK, RingOK, QueueSize # 0, PopRing,
         status' = [status EXCEPT ![Queue[QueueHead]] = "running"]
  PROVE  /\ RingOK'
         /\ Queue[QueueHead] \in Jobs
         /\ status[Queue[QueueHead]] = "queued"
<1>1. /\ QueueSize' = QueueSize - 1
      /\ Slot(0) = QueueHead
      /\ \A i \in 0..(QueueSize - 2) : At(i)' = At(i + 1)
  BY PopKeepsOrder
<1>2. /\ QueueSize \in Nat
      /\ status \in [Jobs -> Statuses]
  BY DEF TypeOK
<1>3. /\ 0 \in 0..(QueueSize - 1)
      /\ Queue[QueueHead] = At(0)
      /\ At(0) \in Jobs /\ status[At(0)] = "queued"
  BY <1>1, <1>2 DEF At, RingOK
<1>4. /\ status'[At(0)] = "running"
      /\ \A k \in Jobs : k # At(0) => status'[k] = status[k]
  BY <1>2, <1>3
<1>5. \A i \in 0..(QueueSize - 2) : /\ i + 1 \in 0..(QueueSize - 1)
                                    /\ At(i + 1) \in Jobs
                                    /\ status[At(i + 1)] = "queued"
                                    /\ At(i + 1) # At(0)
  <2>1. \A i \in 0..(QueueSize - 2) : i + 1 \in 0..(QueueSize - 1) /\ i + 1 # 0
    BY <1>2
  <2> QED
    BY <2>1, <1>3 DEF RingOK
<1>6. QueueSize' - 1 = QueueSize - 2
  BY <1>1, <1>2
<1>7. \A i \in 0..(QueueSize' - 1) : At(i)' \in Jobs /\ status'[At(i)'] = "queued"
  BY <1>1, <1>4, <1>5, <1>6
<1>8. ASSUME NEW i \in 0..(QueueSize' - 1), NEW k \in 0..(QueueSize' - 1), At(i)' = At(k)'
      PROVE  i = k
  <2>1. i + 1 = k + 1
    BY <1>1, <1>5, <1>6, <1>8 DEF RingOK
  <2> QED
    BY <2>1
<1>9. ASSUME NEW k \in Jobs, status'[k] = "queued"
      PROVE  \E i \in 0..(QueueSize' - 1) : At(i)' = k
  <2>1. k # At(0)
    BY <1>4, <1>9
  <2>2. PICK i \in 0..(QueueSize - 1) : At(i) = k
    BY <2>1, <1>4, <1>9 DEF RingOK
  <2>3. i # 0
    BY <2>1, <2>2
  <2>4. i - 1 \in 0..(QueueSize - 2) /\ (i - 1) + 1 = i
    BY <1>2, <2>3
  <2>5. At(i - 1)' = k
    BY <1>1, <2>2, <2>4
  <2> QED
    BY <1>6, <2>4, <2>5
<1> QED
  BY <1>3, <1>7, <1>8, <1>9 DEF RingOK

\* The ring's jobs are the queued ones.
LEMMA QueuedJobsAre ==
  ASSUME TypeOK, RingOK
  PROVE  QueuedJobs = {j \in Jobs : status[j] = "queued"}
<1>1. QueuedJobs = {At(i) : i \in 0..(QueueSize - 1)}
  BY DEF QueuedJobs, At
<1> QED
  BY <1>1 DEF RingOK

\* There are finitely many jobs and workers to count.
LEMMA FiniteCounts ==
  /\ IsFiniteSet(Jobs)
  /\ \A S \in SUBSET Jobs : IsFiniteSet(S) /\ Cardinality(S) \in Nat
  /\ \A S \in SUBSET Workers : IsFiniteSet(S) /\ Cardinality(S) \in Nat
<1>1. IsFiniteSet(Jobs)
  <2>1. 1 \in Int /\ JobCount \in Int
    BY JobAssumption
  <2> QED
    BY <2>1, FS_Interval DEF Jobs
<1>2. IsFiniteSet(Workers)
  BY JobAssumption
<1> QED
  BY <1>1, <1>2, FS_Subset, FS_CardinalityType, Zenon

\* The number of busy workers follows one worker that becomes busy or idle.
LEMMA BusyChange ==
  ASSUME TypeOK, ActiveExact, NEW w \in Workers, NEW s \in WorkerStates,
         worker' = [worker EXCEPT ![w] = s]
  PROVE  /\ w \notin Busy /\ s \in {"running", "retiring"} =>
              Cardinality(Busy') = Active + 1
         /\ w \in Busy /\ s \notin {"running", "retiring"} =>
              Cardinality(Busy') = Active - 1
         /\ (w \in Busy) = (s \in {"running", "retiring"}) => Busy' = Busy
<1>0. /\ worker \in [Workers -> WorkerStates]
      /\ IsFiniteSet(Busy)
  <2>1. Busy \in SUBSET Workers
    BY DEF Busy
  <2> QED
    BY <2>1, FiniteCounts DEF TypeOK
<1>1. CASE w \notin Busy /\ s \in {"running", "retiring"}
  <2>1. Busy' = Busy \cup {w}
    BY <1>0, <1>1 DEF Busy
  <2>2. Cardinality(Busy \cup {w}) = Cardinality(Busy) + 1
    BY <1>0, <1>1, FS_AddElement
  <2> QED
    BY <1>1, <2>1, <2>2 DEF ActiveExact
<1>2. CASE w \in Busy /\ s \notin {"running", "retiring"}
  <2>1. Busy' = Busy \ {w}
    BY <1>0, <1>2 DEF Busy
  <2>2. Cardinality(Busy \ {w}) = Cardinality(Busy) - 1
    BY <1>0, <1>2, FS_RemoveElement
  <2> QED
    BY <1>2, <2>1, <2>2 DEF ActiveExact
<1>3. CASE (w \in Busy) = (s \in {"running", "retiring"})
  <2>1. Busy' = Busy
    BY <1>0, <1>3 DEF Busy
  <2> QED
    BY <1>3, <2>1
<1> QED
  BY <1>1, <1>2, <1>3

\* The jobs a group counts when one of them changes its fate.
LEMMA CountedChange ==
  ASSUME TypeOK, NEW j \in Jobs, NEW s \in Statuses,
         status' = [status EXCEPT ![j] = s], NEW g \in Groups
  PROVE  /\ GroupOf[j] # g => Cardinality(Counted(g)') = Cardinality(Counted(g))
         /\ GroupOf[j] = g /\ status[j] = "new" /\ s \in {"queued", "leaked"} =>
              Cardinality(Counted(g)') = Cardinality(Counted(g)) + 1
         /\ GroupOf[j] = g /\ status[j] = "running" /\ s = "finished" =>
              Cardinality(Counted(g)') = Cardinality(Counted(g)) - 1
         /\ status[j] = "new" /\ s = "rejected" =>
              Cardinality(Counted(g)') = Cardinality(Counted(g))
         /\ status[j] = "queued" /\ s = "running" =>
              Cardinality(Counted(g)') = Cardinality(Counted(g))
<1>0. /\ status \in [Jobs -> Statuses]
      /\ IsFiniteSet(Counted(g))
  <2>1. Counted(g) \in SUBSET Jobs
    BY DEF Counted
  <2> QED
    BY <2>1, FiniteCounts DEF TypeOK
<1>1. ASSUME GroupOf[j] # g
      PROVE  Cardinality(Counted(g)') = Cardinality(Counted(g))
  <2>1. Counted(g)' = Counted(g)
    BY <1>0, <1>1 DEF Counted
  <2> QED
    BY <1>1, <2>1
<1>2. ASSUME GroupOf[j] = g, status[j] = "new", s \in {"queued", "leaked"}
      PROVE  Cardinality(Counted(g)') = Cardinality(Counted(g)) + 1
  <2>1. Counted(g)' = Counted(g) \cup {j} /\ j \notin Counted(g)
    BY <1>0, <1>2 DEF Counted
  <2>2. Cardinality(Counted(g) \cup {j}) = Cardinality(Counted(g)) + 1
    BY <1>0, <2>1, FS_AddElement
  <2> QED
    BY <1>2, <2>1, <2>2
<1>3. ASSUME GroupOf[j] = g, status[j] = "running", s = "finished"
      PROVE  Cardinality(Counted(g)') = Cardinality(Counted(g)) - 1
  <2>1. Counted(g)' = Counted(g) \ {j} /\ j \in Counted(g)
    BY <1>0, <1>3 DEF Counted
  <2>2. Cardinality(Counted(g) \ {j}) = Cardinality(Counted(g)) - 1
    BY <1>0, <2>1, FS_RemoveElement
  <2> QED
    BY <1>3, <2>1, <2>2
<1>4. ASSUME \/ status[j] = "new" /\ s = "rejected"
             \/ status[j] = "queued" /\ s = "running"
      PROVE  Cardinality(Counted(g)') = Cardinality(Counted(g))
  <2>1. Counted(g)' = Counted(g)
    BY <1>0, <1>4 DEF Counted
  <2> QED
    BY <1>4, <2>1
<1> QED
  BY <1>1, <1>2, <1>3, <1>4

\* No worker starts a job, and no running job changes its fate.
LEMMA WorkersFrame ==
  ASSUME WorkersOK, job' = job,
         \A w \in Workers : worker'[w] = "running" => worker[w] = "running",
         \A j \in Jobs : status[j] = "running" => status'[j] = "running"
  PROVE  WorkersOK'
BY DEF WorkersOK

\* A notification only makes sleepers ready.
Waking ==
  /\ worker' \in [Workers -> WorkerStates]
  /\ \A w \in Workers : \/ worker'[w] = worker[w]
                        \/ worker[w] = "asleep" /\ worker'[w] = "ready"

\* A notification only makes sleeping workers ready.
LEMMA NotificationWakes ==
  ASSUME TypeOK, NotifyOne \/ NotifyAll \/ UNCHANGED worker
  PROVE  Waking
<1>0. worker \in [Workers -> WorkerStates]
  BY DEF TypeOK
<1>1. CASE NotifyOne
  BY <1>0, <1>1 DEF NotifyOne, Asleep, Waking, WorkerStates
<1>2. CASE NotifyAll
  BY <1>0, <1>2 DEF NotifyAll, Waking, WorkerStates
<1>3. CASE UNCHANGED worker
  BY <1>0, <1>3 DEF Waking
<1> QED
  BY <1>1, <1>2, <1>3

\* ... so nobody becomes busy or starts a job.
LEMMA WakingKeepsBusy ==
  ASSUME TypeOK, Waking
  PROVE  /\ Busy' = Busy
         /\ \A w \in Workers : worker'[w] = "running" => worker[w] = "running"
BY DEF Busy, Waking

\* A submission counts its job in its group, also when it then fails.
LEMMA GroupAdd ==
  ASSUME TypeOK, GroupExact, NEW j \in Jobs, status[j] = "new",
         NEW s \in {"queued", "leaked"},
         status' = [status EXCEPT ![j] = s], AddToGroup(j)
  PROVE  GroupExact' /\ Pending' \in [Groups -> Nat]
<1>0. /\ Pending \in [Groups -> Nat]
      /\ s \in Statuses
      /\ GroupOf[j] = NoGroup \/ GroupOf[j] \in Groups
      /\ NoGroup \notin Groups
  BY JobAssumption DEF TypeOK, Statuses
<1>1. Pending' = IF GroupOf[j] = NoGroup THEN Pending
                 ELSE [Pending EXCEPT ![GroupOf[j]] = @ + 1]
  BY DEF AddToGroup
<1>2. ASSUME NEW g \in Groups
      PROVE  Pending'[g] = Cardinality(Counted(g)')
  <2>0. Pending[g] = Cardinality(Counted(g))
    BY DEF GroupExact
  <2>1. CASE GroupOf[j] = g
    <3>1. Pending'[g] = Pending[g] + 1
      BY <1>0, <1>1, <2>1
    <3> QED
      BY <1>0, <2>0, <2>1, <3>1, CountedChange
  <2>2. CASE GroupOf[j] # g
    <3>1. Pending'[g] = Pending[g]
      BY <1>0, <1>1, <2>2
    <3> QED
      BY <1>0, <2>0, <2>2, <3>1, CountedChange
  <2> QED
    BY <2>1, <2>2
<1> QED
  BY <1>0, <1>1, <1>2 DEF GroupExact

\* An accepted submission enters the ring and its group, and notifies.
LEMMA SubmitKeeps ==
  ASSUME IndInv, NEW j \in Jobs, Submit(j)
  PROVE  IndInv'
<1>0. TypeOK /\ RingOK /\ WorkersOK /\ ActiveExact /\ GroupExact /\ OwnerOK
  BY DEF IndInv
<1>1. /\ status[j] = "new" /\ AddToGroup(j) /\ PushRing(j) /\ NotifyOne
      /\ status' = [status EXCEPT ![j] = "queued"]
      /\ UNCHANGED <<Active, Accepting, Stopping, job, FirstException, waiter,
                     drainer, owner>>
  BY DEF Submit, Upcoming
<1>2. Waking
  BY <1>0, <1>1, NotificationWakes
<1>3. GroupExact' /\ Pending' \in [Groups -> Nat]
  BY <1>0, <1>1, GroupAdd
<1>4. RingOK' /\ RingType'
  BY <1>0, <1>1, RingPush, PushKeepsOrder
<1>5. TypeOK'
  BY <1>0, <1>1, <1>2, <1>3, <1>4 DEF Waking, Statuses, TypeOK, RingType
<1>6. WorkersOK'
  <2>1. \A k \in Jobs : status[k] = "running" => status'[k] = "running"
    BY <1>0, <1>1 DEF TypeOK
  <2> QED
    BY <2>1, <1>0, <1>1, <1>2, WakingKeepsBusy, WorkersFrame
<1>7. ActiveExact' /\ OwnerOK'
  BY <1>0, <1>1, <1>2, WakingKeepsBusy DEF ActiveExact, OwnerOK
<1> QED
  BY <1>3, <1>4, <1>5, <1>6, <1>7 DEF IndInv

\* A rejected submission changes nothing the invariant reads.
LEMMA SubmitRejectedKeeps ==
  ASSUME IndInv, NEW j \in Jobs, SubmitRejected(j)
  PROVE  IndInv'
<1>0. TypeOK /\ RingOK /\ WorkersOK /\ ActiveExact /\ GroupExact /\ OwnerOK
  BY DEF IndInv
<1>1. /\ status[j] = "new"
      /\ status' = [status EXCEPT ![j] = "rejected"]
      /\ UNCHANGED <<ring, Active, Accepting, Stopping, worker, job, groups,
                     drainer, owner>>
  BY DEF SubmitRejected, Upcoming
<1>2. TypeOK'
  BY <1>0, <1>1 DEF TypeOK, ring, groups, Statuses
<1>3. /\ \A k \in Jobs : (status'[k] = "queued") = (status[k] = "queued")
      /\ \A k \in Jobs : status[k] = "running" => status'[k] = "running"
  BY <1>0, <1>1 DEF TypeOK
<1>4. RingOK' /\ WorkersOK'
  BY <1>0, <1>1, <1>3, RingFrame, WorkersFrame
<1>5. GroupExact'
  <2>1. ASSUME NEW g \in Groups
        PROVE  Cardinality(Counted(g)') = Cardinality(Counted(g))
    BY <1>0, <1>1, CountedChange DEF Statuses
  <2> QED
    BY <2>1, <1>0, <1>1 DEF GroupExact, groups
<1>6. ActiveExact' /\ OwnerOK'
  BY <1>0, <1>1 DEF ActiveExact, Busy, OwnerOK
<1> QED
  BY <1>2, <1>4, <1>5, <1>6 DEF IndInv

\* A failed allocation in Submit leaves the ring as it was.
LEMMA SubmitAllocationFailureKeeps ==
  ASSUME IndInv, NEW j \in Jobs, SubmitAllocationFailure(j)
  PROVE  IndInv'
<1>0. TypeOK /\ RingOK /\ WorkersOK /\ ActiveExact /\ GroupExact /\ OwnerOK
  BY DEF IndInv
<1>1. /\ status[j] = "new" /\ AddToGroup(j)
      /\ status' = [status EXCEPT ![j] = "leaked"]
      /\ UNCHANGED <<ring, Active, Accepting, Stopping, worker, job,
                     FirstException, waiter, drainer, owner>>
  BY DEF SubmitAllocationFailure, Upcoming
<1>2. GroupExact' /\ Pending' \in [Groups -> Nat]
  BY <1>0, <1>1, GroupAdd
<1>3. TypeOK'
  BY <1>0, <1>1, <1>2 DEF TypeOK, ring, Statuses
<1>4. /\ \A k \in Jobs : (status'[k] = "queued") = (status[k] = "queued")
      /\ \A k \in Jobs : status[k] = "running" => status'[k] = "running"
  BY <1>0, <1>1 DEF TypeOK
<1>5. RingOK' /\ WorkersOK'
  BY <1>0, <1>1, <1>4, RingFrame, WorkersFrame
<1>6. ActiveExact' /\ OwnerOK'
  BY <1>0, <1>1 DEF ActiveExact, Busy, OwnerOK
<1> QED
  BY <1>2, <1>3, <1>5, <1>6 DEF IndInv

\* A step of a caller of Wait or Drain, or of Shutdown's thread after its
\* critical section: it moves nothing but threads.
LEMMA CallerKeeps ==
  ASSUME IndInv,
         \/ \E g \in Groups : WaitCall(g) \/ Wait(g)
         \/ DrainCall \/ Drain \/ ShutdownNotify \/ ShutdownJoin
  PROVE  IndInv'
<1>0. TypeOK /\ RingOK /\ WorkersOK /\ ActiveExact /\ GroupExact /\ OwnerOK
  BY DEF IndInv
<1>1. /\ UNCHANGED <<ring, Active, Accepting, Stopping, job, Pending, FirstException, status>>
      /\ NotifyAll \/ UNCHANGED worker
      /\ owner' \in OwnerStates /\ (owner' = "idle" => owner = "idle")
  BY <1>0 DEF WaitCall, Wait, DrainCall, Drain, ShutdownNotify, ShutdownJoin, groups,
              TypeOK, OwnerStates
<1>2. waiter' \in [Groups -> CallerStates] /\ drainer' \in CallerStates
  BY <1>0 DEF WaitCall, Wait, DrainCall, Drain, ShutdownNotify, ShutdownJoin, groups,
              TypeOK, CallerStates
<1>3. Waking
  BY <1>0, <1>1, NotificationWakes
<1>4. TypeOK'
  BY <1>0, <1>1, <1>2, <1>3 DEF TypeOK, ring, Waking
<1>5. RingOK' /\ WorkersOK'
  BY <1>0, <1>1, <1>3, RingFrame, WorkersFrame, WakingKeepsBusy
<1>6. ActiveExact' /\ OwnerOK' /\ GroupExact'
  BY <1>0, <1>1, <1>3, WakingKeepsBusy DEF ActiveExact, OwnerOK, GroupExact, Counted
<1> QED
  BY <1>4, <1>5, <1>6 DEF IndInv

\* A worker that exits, sleeps or wakes has no job to lose.
LEMMA IdleWorkerKeeps ==
  ASSUME IndInv, NEW w \in Workers, WorkerExit(w) \/ WorkerSleep(w) \/ SpuriousWake(w)
  PROVE  IndInv'
<1>0. TypeOK /\ RingOK /\ WorkersOK /\ ActiveExact /\ GroupExact /\ OwnerOK
  BY DEF IndInv
<1>1. /\ UNCHANGED <<ring, Active, Accepting, Stopping, job, groups, drainer, owner, status>>
      /\ worker[w] \in {"ready", "asleep"}
      /\ \E s \in {"exited", "asleep", "ready"} : worker' = [worker EXCEPT ![w] = s]
  BY DEF WorkerExit, WorkerSleep, SpuriousWake
<1>2. TypeOK'
  BY <1>0, <1>1 DEF TypeOK, ring, groups, WorkerStates
<1>3. /\ Busy' = Busy
      /\ \A v \in Workers : worker'[v] = "running" => worker[v] = "running"
  BY <1>0, <1>1 DEF TypeOK, Busy
<1>4. RingOK' /\ WorkersOK'
  BY <1>0, <1>1, <1>3, RingFrame, WorkersFrame
<1>5. ActiveExact' /\ OwnerOK' /\ GroupExact'
  BY <1>0, <1>1, <1>3 DEF ActiveExact, OwnerOK, GroupExact, Counted, groups
<1> QED
  BY <1>2, <1>4, <1>5 DEF IndInv

\* A job taken moves from the ring to the active count.
LEMMA WorkerTakeKeeps ==
  ASSUME IndInv, NEW w \in Workers, WorkerTake(w)
  PROVE  IndInv'
<1>0. TypeOK /\ RingOK /\ WorkersOK /\ ActiveExact /\ GroupExact /\ OwnerOK
  BY DEF IndInv
<1> DEFINE j == Queue[QueueHead]
<1>1. /\ worker[w] = "ready" /\ QueueSize # 0 /\ PopRing
      /\ job' = [job EXCEPT ![w] = j]
      /\ status' = [status EXCEPT ![j] = "running"]
      /\ Active' = Active + 1
      /\ worker' = [worker EXCEPT ![w] = "running"]
      /\ UNCHANGED <<Accepting, Stopping, groups, drainer, owner>>
  BY DEF WorkerTake
<1>2. RingOK' /\ j \in Jobs /\ status[j] = "queued"
  BY <1>0, <1>1, RingPop
<1>3. RingType'
  BY <1>0, <1>1, PopKeepsOrder
<1> HIDE DEF j
<1>4. TypeOK'
  <2>1. /\ job' \in [Workers -> Jobs \cup {None}]
        /\ status' \in [Jobs -> Statuses]
        /\ worker' \in [Workers -> WorkerStates]
        /\ Active' \in Nat
    BY <1>0, <1>1, <1>2 DEF TypeOK, WorkerStates, Statuses
  <2> QED
    BY <2>1, <1>0, <1>1, <1>3 DEF TypeOK, RingType, groups
<1>5. WorkersOK'
  <2>1. /\ \A v \in Workers : v # w => worker'[v] = worker[v] /\ job'[v] = job[v]
        /\ worker'[w] = "running" /\ job'[w] = j
        /\ status'[j] = "running"
        /\ \A k \in Jobs : k # j => status'[k] = status[k]
    BY <1>0, <1>1, <1>2 DEF TypeOK
  <2>2. \A v \in Workers : v # w /\ worker[v] = "running" => job[v] # j
    BY <1>0, <1>2 DEF WorkersOK
  <2> QED
    BY <2>1, <2>2, <1>0, <1>2 DEF WorkersOK
<1>6. ActiveExact'
  BY <1>0, <1>1, BusyChange DEF ActiveExact, Busy, WorkerStates
<1>7. GroupExact'
  <2>1. ASSUME NEW g \in Groups
        PROVE  Cardinality(Counted(g)') = Cardinality(Counted(g))
    BY <1>0, <1>1, <1>2, CountedChange DEF Statuses
  <2> QED
    BY <2>1, <1>0, <1>1 DEF GroupExact, groups
<1>8. OwnerOK'
  BY <1>0, <1>1 DEF OwnerOK
<1> QED
  BY <1>2, <1>4, <1>5, <1>6, <1>7, <1>8 DEF IndInv

\* A finished job leaves its group; its worker stays active until it retires.
LEMMA WorkerCompleteKeeps ==
  ASSUME IndInv, NEW w \in Workers, NEW threw \in BOOLEAN, WorkerComplete(w, threw)
  PROVE  IndInv'
<1>0. TypeOK /\ RingOK /\ WorkersOK /\ ActiveExact /\ GroupExact /\ OwnerOK
  BY DEF IndInv
<1> DEFINE j == job[w]
<1>1. /\ worker[w] = "running"
      /\ status' = [status EXCEPT ![j] = "finished"]
      /\ worker' = [worker EXCEPT ![w] = "retiring"]
      /\ UNCHANGED <<ring, Active, Accepting, Stopping, job, drainer, owner>>
  BY DEF WorkerComplete
<1>2. j \in Jobs /\ status[j] = "running"
  BY <1>0, <1>1 DEF WorkersOK
<1>3. \/ GroupOf[j] = NoGroup /\ UNCHANGED groups
      \/ /\ GroupOf[j] # NoGroup
         /\ Complete(GroupOf[j], IF threw THEN j ELSE None)
  BY DEF WorkerComplete
<1>4. GroupOf[j] = NoGroup \/ GroupOf[j] \in Groups
  BY <1>2, JobAssumption
<1> HIDE DEF j
<1>5. /\ FirstException' \in [Groups -> Jobs \cup {None}]
      /\ waiter' \in [Groups -> CallerStates]
  BY <1>0, <1>2, <1>3, <1>4 DEF TypeOK, groups, Complete, Woken, CallerStates
<1>6. GroupExact' /\ Pending' \in [Groups -> Nat]
  <2>0. Pending \in [Groups -> Nat] /\ NoGroup \notin Groups
    BY <1>0, JobAssumption DEF TypeOK
  <2>1. ASSUME NEW g \in Groups
        PROVE  /\ Pending'[g] = Cardinality(Counted(g)')
               /\ Cardinality(Counted(g)') \in Nat
    <3>0. Pending[g] = Cardinality(Counted(g))
      BY <1>0 DEF GroupExact
    <3>1. Cardinality(Counted(g)') \in Nat
      <4>1. Counted(g)' \in SUBSET Jobs
        BY DEF Counted
      <4> QED
        BY <4>1, FiniteCounts
    <3>2. CASE GroupOf[j] = g
      <4>1. Pending'[g] = Pending[g] - 1
        BY <1>3, <2>0, <3>2 DEF Complete
      <4>2. Cardinality(Counted(g)') = Cardinality(Counted(g)) - 1
        BY <1>0, <1>1, <1>2, <3>2, CountedChange DEF Statuses
      <4> QED
        BY <3>0, <3>1, <4>1, <4>2
    <3>3. CASE GroupOf[j] # g
      <4>1. Pending'[g] = Pending[g]
        BY <1>3, <1>4, <2>0, <3>3 DEF Complete, groups
      <4>2. Cardinality(Counted(g)') = Cardinality(Counted(g))
        BY <1>0, <1>1, <1>2, <3>3, CountedChange DEF Statuses
      <4> QED
        BY <3>0, <3>1, <4>1, <4>2
    <3> QED
      BY <3>2, <3>3
  <2>2. Pending' \in [Groups -> Int]
    BY <1>3, <1>4, <2>0 DEF Complete, groups
  <2> QED
    BY <2>1, <2>2 DEF GroupExact
<1>7. TypeOK'
  BY <1>0, <1>1, <1>2, <1>5, <1>6 DEF TypeOK, ring, WorkerStates, Statuses
<1>8. /\ \A k \in Jobs : (status'[k] = "queued") = (status[k] = "queued")
      /\ \A k \in Jobs : k # j => status'[k] = status[k]
      /\ \A v \in Workers : worker'[v] = "running" => v # w /\ worker[v] = "running"
  BY <1>0, <1>1, <1>2 DEF TypeOK
<1>9. RingOK'
  BY <1>0, <1>1, <1>8, RingFrame
<1>10. WorkersOK'
  BY <1>0, <1>1, <1>8 DEF WorkersOK, j
<1>11. ActiveExact' /\ OwnerOK'
  BY <1>0, <1>1, BusyChange DEF ActiveExact, OwnerOK, Busy, WorkerStates
<1> QED
  BY <1>6, <1>7, <1>9, <1>10, <1>11 DEF IndInv

\* A worker that retires leaves the active count.
LEMMA WorkerRetireKeeps ==
  ASSUME IndInv, NEW w \in Workers, WorkerRetire(w)
  PROVE  IndInv'
<1>0. TypeOK /\ RingOK /\ WorkersOK /\ ActiveExact /\ GroupExact /\ OwnerOK
  BY DEF IndInv
<1>1. /\ worker[w] = "retiring"
      /\ Active' = Active - 1
      /\ drainer' = drainer \/ drainer' = Woken(drainer)
      /\ worker' = [worker EXCEPT ![w] = "ready"]
      /\ job' = [job EXCEPT ![w] = None]
      /\ UNCHANGED <<ring, Accepting, Stopping, groups, owner, status>>
  BY DEF WorkerRetire
<1>2. Cardinality(Busy') = Active - 1
  BY <1>0, <1>1, BusyChange DEF Busy, WorkerStates
<1>3. ActiveExact' /\ Active' \in Nat
  <2>1. Busy' \in SUBSET Workers
    BY DEF Busy
  <2> QED
    BY <1>1, <1>2, <2>1, FiniteCounts DEF ActiveExact
<1>4. TypeOK'
  BY <1>0, <1>1, <1>3 DEF TypeOK, ring, groups, WorkerStates, Woken, CallerStates
<1>5. RingOK'
  BY <1>0, <1>1, RingFrame
<1>6. WorkersOK'
  <2>1. \A v \in Workers : worker'[v] = "running" =>
          worker[v] = "running" /\ job'[v] = job[v]
    BY <1>0, <1>1 DEF TypeOK
  <2> QED
    BY <2>1, <1>0, <1>1 DEF WorkersOK
<1>7. OwnerOK' /\ GroupExact'
  BY <1>0, <1>1 DEF OwnerOK, GroupExact, Counted, groups
<1> QED
  BY <1>3, <1>4, <1>5, <1>6, <1>7 DEF IndInv

\* Shutdown without draining empties the ring and tells every group of the
\* jobs it will not run.
LEMMA ShutdownKeeps ==
  ASSUME IndInv, NEW drain \in BOOLEAN, Shutdown(drain)
  PROVE  IndInv'
<1>0. TypeOK /\ RingOK /\ WorkersOK /\ ActiveExact /\ GroupExact /\ OwnerOK
  BY DEF IndInv
<1>1. /\ Accepting' = FALSE /\ Stopping' = TRUE /\ owner' = "notifying"
      /\ UNCHANGED <<Active, worker, job, drainer>>
  BY DEF Shutdown
<1>2. ActiveExact' /\ OwnerOK'
  BY <1>0, <1>1 DEF ActiveExact, Busy, OwnerOK
<1>3. CASE drain
  <2>1. UNCHANGED <<ring, groups, status>>
    BY <1>3 DEF Shutdown
  <2>2. TypeOK'
    BY <1>0, <1>1, <2>1 DEF TypeOK, ring, groups, OwnerStates
  <2>3. RingOK' /\ WorkersOK'
    BY <1>0, <1>1, <2>1, RingFrame, WorkersFrame
  <2>4. GroupExact'
    BY <1>0, <2>1 DEF GroupExact, Counted, groups
  <2> QED
    BY <1>2, <2>2, <2>3, <2>4 DEF IndInv
<1>4. CASE ~drain
  <2>1. /\ CompleteDropped
        /\ Queue' = [i \in 0..(QueueCapacity - 1) |->
                       IF i \in {Slot(k) : k \in 0..(QueueSize - 1)}
                       THEN None ELSE Queue[i]]
        /\ QueueHead' = 0 /\ QueueSize' = 0 /\ QueueCapacity' = QueueCapacity
        /\ status' = [k \in Jobs |->
                        IF k \in QueuedJobs THEN "dropped" ELSE status[k]]
    BY <1>4 DEF Shutdown
  <2>2. /\ status' \in [Jobs -> Statuses]
        /\ \A k \in Jobs : status'[k] # "queued"
        /\ \A k \in Jobs : status[k] = "running" => status'[k] = "running"
    BY <1>0, <2>1, QueuedJobsAre DEF TypeOK, Statuses
  <2>3. RingType'
    BY <1>0, <2>1 DEF TypeOK, RingType
  <2>4. RingOK'
    BY <2>1, <2>2 DEF RingOK
  <2>5. WorkersOK'
    BY <1>0, <1>1, <2>2, WorkersFrame
  <2>6. ASSUME NEW g \in Groups
        PROVE  /\ Pending'[g] = Cardinality(Counted(g)')
               /\ Cardinality(Counted(g)') \in Nat
    <3>1. Counted(g)' = Counted(g) \ QueuedOf(g)
      BY <1>0, <2>1, QueuedJobsAre DEF Counted, QueuedOf
    <3>2. Counted(g) \cap QueuedOf(g) = QueuedOf(g)
      BY <1>0, QueuedJobsAre DEF Counted, QueuedOf
    <3>3. Counted(g) \in SUBSET Jobs /\ Counted(g)' \in SUBSET Jobs
      BY DEF Counted
    <3>4. Cardinality(Counted(g) \ QueuedOf(g)) =
            Cardinality(Counted(g)) - Cardinality(QueuedOf(g))
      BY <3>2, <3>3, FiniteCounts, FS_Difference
    <3>5. Pending'[g] = Pending[g] - Cardinality(QueuedOf(g))
      BY <2>1 DEF CompleteDropped
    <3> QED
      BY <1>0, <3>1, <3>3, <3>4, <3>5, FiniteCounts DEF GroupExact
  <2>7. GroupExact' /\ Pending' \in [Groups -> Nat]
    BY <2>1, <2>6 DEF GroupExact, CompleteDropped
  <2>8. /\ waiter' \in [Groups -> CallerStates]
        /\ FirstException' = FirstException
    BY <1>0, <2>1 DEF CompleteDropped, TypeOK, Woken, CallerStates
  <2>9. TypeOK'
    BY <1>0, <1>1, <2>2, <2>3, <2>7, <2>8 DEF TypeOK, RingType, OwnerStates
  <2> QED
    BY <1>2, <2>4, <2>5, <2>7, <2>9 DEF IndInv
<1> QED
  BY <1>3, <1>4

-----------------------------------------------------------------------------
(* The inductive invariant *)

\* A fresh pool satisfies it.
LEMMA InitIndInv == Init => IndInv
<1> SUFFICES ASSUME Init PROVE IndInv
  OBVIOUS
<1>1. TypeOK
  <2>1. InitialCapacity \in Nat \ {0}
    BY JobAssumption
  <2>2. /\ QueueCapacity \in Nat \ {0}
        /\ QueueHead \in 0..(QueueCapacity - 1)
        /\ QueueSize \in 0..QueueCapacity
    BY <2>1 DEF Init
  <2> QED
    BY <2>2 DEF Init, TypeOK, WorkerStates, CallerStates, OwnerStates, Statuses
<1>2. RingOK /\ WorkersOK /\ OwnerOK
  BY DEF Init, RingOK, WorkersOK, OwnerOK
<1>3. Busy = {} /\ \A g \in Groups : Counted(g) = {}
  BY DEF Init, Busy, Counted
<1>4. ActiveExact /\ GroupExact
  BY <1>3, FS_EmptySet DEF Init, ActiveExact, GroupExact
<1> QED
  BY <1>1, <1>2, <1>4 DEF IndInv

\* Every step keeps it.
LEMMA NextIndInv == IndInv /\ [Next]_vars => IndInv'
<1> SUFFICES ASSUME IndInv, [Next]_vars PROVE IndInv'
  OBVIOUS
<1>1. ASSUME NEW j \in Jobs, Submit(j) \/ SubmitRejected(j) \/ SubmitAllocationFailure(j)
      PROVE  IndInv'
  BY <1>1, SubmitKeeps, SubmitRejectedKeeps, SubmitAllocationFailureKeeps
<1>2. ASSUME \/ \E g \in Groups : WaitCall(g) \/ Wait(g)
             \/ DrainCall \/ Drain \/ ShutdownNotify \/ ShutdownJoin
      PROVE  IndInv'
  BY <1>2, CallerKeeps
<1>3. ASSUME NEW drain \in BOOLEAN, Shutdown(drain)
      PROVE  IndInv'
  BY <1>3, ShutdownKeeps
<1>4. ASSUME NEW w \in Workers, WorkerStep(w) \/ SpuriousWake(w)
      PROVE  IndInv'
  BY <1>4, IdleWorkerKeeps, WorkerTakeKeeps, WorkerCompleteKeeps, WorkerRetireKeeps
     DEF WorkerStep
<1>5. CASE UNCHANGED vars
  BY <1>5 DEF vars, ring, groups, IndInv, TypeOK, RingOK, At, Slot, WorkersOK, ActiveExact,
              Busy, GroupExact, Counted, OwnerOK
<1> QED
  BY <1>1, <1>2, <1>3, <1>4, <1>5 DEF Next

\* The pool's state is typed, its ring holds exactly the queued jobs, every
\* running job has one worker, and Active and each group's Pending are the
\* numbers of busy workers and of jobs the group still counts.
THEOREM PoolInvariant == Spec => []IndInv
<1>1. Init => IndInv
  BY InitIndInv
<1>2. IndInv /\ [Next]_vars => IndInv'
  BY NextIndInv
<1> QED
  BY <1>1, <1>2, PTL DEF Spec

\* Type correctness: no counter goes below zero, the head stays inside the ring
\* and the size inside its capacity.
THEOREM TypeCorrect == Spec => []TypeOK
<1>1. IndInv => TypeOK
  BY DEF IndInv
<1> QED
  BY <1>1, PoolInvariant, PTL

-----------------------------------------------------------------------------
(* What callers rely on *)

\* A return from Wait leaves no job of the group queued or running.
LEMMA WaitStep ==
  ASSUME IndInv, [Next]_vars, NEW g \in Groups,
         waiter[g] # "returned", waiter'[g] = "returned"
  PROVE  Outstanding(g) = {}
<1>0. TypeOK /\ GroupExact
  BY DEF IndInv
<1>1. Wait(g)
  <2>0. waiter \in [Groups -> CallerStates]
    BY <1>0 DEF TypeOK
  <2>1. ASSUME NEW j \in Jobs, Submit(j) \/ SubmitRejected(j) \/ SubmitAllocationFailure(j)
        PROVE  waiter' = waiter
    BY <2>1 DEF Submit, SubmitRejected, SubmitAllocationFailure, groups
  <2>2. ASSUME NEW h \in Groups, WaitCall(h)
        PROVE  waiter'[g] # "returned"
    BY <2>0, <2>2 DEF WaitCall
  <2>3. ASSUME NEW h \in Groups, Wait(h)
        PROVE  h = g
    BY <2>0, <2>3 DEF Wait
  <2>4. ASSUME DrainCall \/ Drain \/ ShutdownNotify \/ ShutdownJoin
        PROVE  waiter' = waiter
    BY <2>4 DEF DrainCall, Drain, ShutdownNotify, ShutdownJoin, groups
  <2>5. ASSUME NEW drain \in BOOLEAN, Shutdown(drain)
        PROVE  waiter'[g] # "returned"
    BY <2>0, <2>5 DEF Shutdown, CompleteDropped, Woken, groups
  <2>6. ASSUME NEW w \in Workers, WorkerStep(w) \/ SpuriousWake(w)
        PROVE  waiter'[g] # "returned"
    <3>1. CASE \E threw \in BOOLEAN : WorkerComplete(w, threw)
      BY <2>0, <3>1 DEF WorkerComplete, Complete, Woken, groups
    <3>2. CASE ~ \E threw \in BOOLEAN : WorkerComplete(w, threw)
      BY <2>6, <3>2 DEF WorkerStep, WorkerExit, WorkerSleep, WorkerTake, WorkerRetire,
                        SpuriousWake, groups
    <3> QED
      BY <3>1, <3>2
  <2>7. ~ UNCHANGED vars
    BY DEF vars, groups
  <2> QED
    BY <2>1, <2>2, <2>3, <2>4, <2>5, <2>6, <2>7 DEF Next
<1>2. Pending[g] = 0
  BY <1>0, <1>1 DEF Wait, TypeOK
<1>3. Counted(g) = {}
  <2>1. Counted(g) \in SUBSET Jobs
    BY DEF Counted
  <2> QED
    BY <1>0, <1>2, <2>1, FiniteCounts, FS_EmptySet DEF GroupExact
<1> QED
  BY <1>3 DEF Counted, Outstanding

\* WaitIsAFence, for any number of workers, jobs and groups: a caller that
\* returns from JobGroup::Wait finds every job submitted to the group before
\* that moment finished or dropped.
THEOREM WaitFence == Spec => WaitIsAFence
<1>1. IndInv /\ [Next]_vars =>
        [\A g \in Groups :
           waiter[g] # "returned" /\ waiter'[g] = "returned" => Outstanding(g) = {}]_vars
  BY WaitStep
<1> QED
  BY <1>1, PoolInvariant, PTL DEF Spec, WaitIsAFence

\* A return from Drain finds the ring empty and no worker inside a job.
LEMMA DrainStep ==
  ASSUME IndInv, [Next]_vars, drainer # "returned", drainer' = "returned"
  PROVE  /\ QueuedJobs = {}
         /\ \A w \in Workers : worker[w] \notin {"running", "retiring"}
<1>0. TypeOK /\ ActiveExact
  BY DEF IndInv
<1>1. Drain
  <2>1. ASSUME NEW j \in Jobs, Submit(j) \/ SubmitRejected(j) \/ SubmitAllocationFailure(j)
        PROVE  drainer' = drainer
    BY <2>1 DEF Submit, SubmitRejected, SubmitAllocationFailure
  <2>2. ASSUME NEW h \in Groups, WaitCall(h) \/ Wait(h)
        PROVE  drainer' = drainer
    BY <2>2 DEF WaitCall, Wait
  <2>3. ASSUME DrainCall \/ ShutdownNotify \/ ShutdownJoin
        PROVE  drainer' # "returned"
    BY <2>3 DEF DrainCall, ShutdownNotify, ShutdownJoin
  <2>4. ASSUME NEW drain \in BOOLEAN, Shutdown(drain)
        PROVE  drainer' = drainer
    BY <2>4 DEF Shutdown
  <2>5. ASSUME NEW w \in Workers, WorkerStep(w) \/ SpuriousWake(w)
        PROVE  drainer' # "returned"
    BY <2>5 DEF WorkerStep, WorkerExit, WorkerSleep, WorkerTake, WorkerComplete,
                WorkerRetire, SpuriousWake, Woken
  <2>6. ~ UNCHANGED vars
    BY DEF vars
  <2> QED
    BY <2>1, <2>2, <2>3, <2>4, <2>5, <2>6 DEF Next
<1>2. QueueSize = 0 /\ Active = 0
  BY <1>1 DEF Drain
<1>3. Busy = {}
  <2>1. Busy \in SUBSET Workers
    BY DEF Busy
  <2> QED
    BY <1>0, <1>2, <2>1, FiniteCounts, FS_EmptySet DEF ActiveExact
<1> QED
  BY <1>2, <1>3 DEF Busy, QueuedJobs

\* DrainIsABarrier: a caller that returns from JobSystem::Drain finds no job
\* queued and no worker still inside one, its group's bookkeeping included.
THEOREM DrainBarrier == Spec => DrainIsABarrier
<1>1. IndInv /\ [Next]_vars =>
        [drainer # "returned" /\ drainer' = "returned" =>
           /\ QueuedJobs = {}
           /\ \A w \in Workers : worker[w] \notin {"running", "retiring"}]_vars
  BY DrainStep
<1> QED
  BY <1>1, PoolInvariant, PTL DEF Spec, DrainIsABarrier

\* The number of ready workers when one worker changes its place.
LEMMA ReadyChange ==
  ASSUME TypeOK, NEW w \in Workers, NEW s \in WorkerStates,
         worker' = [worker EXCEPT ![w] = s]
  PROVE  /\ Cardinality(Ready) \in Nat /\ Cardinality(Ready') \in Nat
         /\ worker[w] # "ready" /\ s = "ready" => Cardinality(Ready') = Cardinality(Ready) + 1
         /\ worker[w] = "ready" /\ s # "ready" => Cardinality(Ready') = Cardinality(Ready) - 1
         /\ worker[w] # "ready" /\ s # "ready" => Ready' = Ready
<1>0. /\ worker \in [Workers -> WorkerStates]
      /\ IsFiniteSet(Ready)
      /\ Cardinality(Ready) \in Nat /\ Cardinality(Ready') \in Nat
  <2>1. Ready \in SUBSET Workers /\ Ready' \in SUBSET Workers
    BY DEF Ready
  <2> QED
    BY <2>1, FiniteCounts DEF TypeOK
<1>1. ASSUME worker[w] # "ready", s = "ready"
      PROVE  Cardinality(Ready') = Cardinality(Ready) + 1
  <2>1. Ready' = Ready \cup {w} /\ w \notin Ready
    BY <1>0, <1>1 DEF Ready
  <2> QED
    BY <1>0, <2>1, FS_AddElement
<1>2. ASSUME worker[w] = "ready", s # "ready"
      PROVE  Cardinality(Ready') = Cardinality(Ready) - 1
  <2>1. Ready' = Ready \ {w} /\ w \in Ready
    BY <1>0, <1>2 DEF Ready
  <2> QED
    BY <1>0, <2>1, FS_RemoveElement
<1>3. ASSUME worker[w] # "ready", s # "ready"
      PROVE  Ready' = Ready
  BY <1>0, <1>3 DEF Ready
<1> QED
  BY <1>0, <1>1, <1>2, <1>3

\* Every step keeps an awake worker for each queued job while one sleeps.
LEMMA CapacityStep == IndInv /\ NoIdleCapacity /\ [Next]_vars => NoIdleCapacity'
<1> SUFFICES ASSUME IndInv, NoIdleCapacity, [Next]_vars PROVE NoIdleCapacity'
  OBVIOUS
<1>0. /\ TypeOK /\ worker \in [Workers -> WorkerStates] /\ QueueSize \in Nat
      /\ Cardinality(Ready) \in Nat /\ Cardinality(Ready') \in Nat
  <2>1. Ready \in SUBSET Workers /\ Ready' \in SUBSET Workers
    BY DEF Ready
  <2> QED
    BY <2>1, FiniteCounts DEF IndInv, TypeOK
<1>1. ASSUME NEW j \in Jobs, Submit(j)
      PROVE  NoIdleCapacity'
  <2>1. QueueSize' = QueueSize + 1 /\ NotifyOne
    BY <1>0, <1>1, PushKeepsOrder DEF Submit
  <2>2. CASE Asleep = {}
    BY <2>1, <2>2 DEF NotifyOne, NoIdleCapacity, Asleep
  <2>3. CASE Asleep # {}
    <3>1. PICK w \in Workers : worker[w] = "asleep" /\ worker' = [worker EXCEPT ![w] = "ready"]
      BY <2>1, <2>3 DEF NotifyOne, Asleep
    <3>2. Cardinality(Ready') = Cardinality(Ready) + 1
      BY <1>0, <3>1, ReadyChange DEF WorkerStates
    <3> QED
      BY <1>0, <2>1, <2>3, <3>2 DEF NoIdleCapacity
  <2> QED
    BY <2>2, <2>3
<1>2. ASSUME NEW w \in Workers, WorkerTake(w)
      PROVE  NoIdleCapacity'
  <2>1. /\ QueueSize' = QueueSize - 1
        /\ worker[w] = "ready" /\ worker' = [worker EXCEPT ![w] = "running"]
    BY <1>0, <1>2, PopKeepsOrder DEF WorkerTake
  <2>2. Cardinality(Ready') = Cardinality(Ready) - 1
    BY <1>0, <2>1, ReadyChange DEF WorkerStates
  <2>3. Asleep' = Asleep
    BY <1>0, <2>1 DEF Asleep
  <2> QED
    BY <1>0, <2>1, <2>2, <2>3 DEF NoIdleCapacity
<1>3. ASSUME NEW w \in Workers, WorkerExit(w) \/ WorkerSleep(w)
      PROVE  NoIdleCapacity'
  <2>1. QueueSize' = 0
    BY <1>3 DEF WorkerExit, WorkerSleep, ring
  <2> QED
    BY <1>0, <2>1 DEF NoIdleCapacity
<1>4. ASSUME NEW w \in Workers,
             \/ SpuriousWake(w) \/ WorkerRetire(w)
             \/ \E threw \in BOOLEAN : WorkerComplete(w, threw)
      PROVE  NoIdleCapacity'
  <2>1. /\ QueueSize' = QueueSize
        /\ worker[w] # "ready"
        /\ \E s \in {"ready", "retiring"} : worker' = [worker EXCEPT ![w] = s]
    BY <1>4 DEF SpuriousWake, WorkerRetire, WorkerComplete, ring
  <2>2. Cardinality(Ready') >= Cardinality(Ready)
    <3>1. PICK s \in {"ready", "retiring"} : worker' = [worker EXCEPT ![w] = s]
      BY <2>1
    <3>2. s \in WorkerStates /\ worker[w] # "ready"
      BY <2>1 DEF WorkerStates
    <3>3. Cardinality(Ready') = Cardinality(Ready) + 1 \/ Ready' = Ready
      BY <1>0, <3>1, <3>2, ReadyChange, Zenon
    <3> QED
      BY <1>0, <3>3
  <2>3. Asleep' \in SUBSET Asleep
    BY <1>0, <2>1 DEF Asleep
  <2> QED
    BY <1>0, <2>1, <2>2, <2>3 DEF NoIdleCapacity
<1>5. ASSUME NEW drain \in BOOLEAN, Shutdown(drain)
      PROVE  NoIdleCapacity'
  <2>1. (QueueSize' = 0 \/ QueueSize' = QueueSize) /\ worker' = worker
    BY <1>5 DEF Shutdown, ring
  <2> QED
    BY <1>0, <2>1 DEF NoIdleCapacity, Asleep, Ready
<1>6. ASSUME ShutdownNotify
      PROVE  NoIdleCapacity'
  <2>1. Asleep' = {}
    BY <1>6 DEF ShutdownNotify, NotifyAll, Asleep
  <2> QED
    BY <2>1 DEF NoIdleCapacity
<1>7. ASSUME \/ \E j \in Jobs : SubmitRejected(j) \/ SubmitAllocationFailure(j)
             \/ \E g \in Groups : WaitCall(g) \/ Wait(g)
             \/ DrainCall \/ Drain \/ ShutdownJoin \/ UNCHANGED vars
      PROVE  NoIdleCapacity'
  <2>1. QueueSize' = QueueSize /\ worker' = worker
    BY <1>7 DEF SubmitRejected, SubmitAllocationFailure, WaitCall, Wait, DrainCall, Drain,
                ShutdownJoin, vars, ring
  <2> QED
    BY <2>1 DEF NoIdleCapacity, Asleep, Ready
<1> QED
  BY <1>1, <1>2, <1>3, <1>4, <1>5, <1>6, <1>7 DEF Next, WorkerStep

\* NoIdleCapacity, for any number of workers: notify_one once for each job is
\* enough, whatever the interleaving of submitters, sleepers and spurious
\* wake-ups; a job never waits while a worker sleeps unnotified.
THEOREM NoLostWakeUp == Spec => []NoIdleCapacity
<1>1. Init => NoIdleCapacity
  <2>1. Init => Asleep = {}
    BY DEF Init, Asleep
  <2> QED
    BY <2>1 DEF NoIdleCapacity
<1> QED
  BY <1>1, CapacityStep, PoolInvariant, PTL DEF Spec

-----------------------------------------------------------------------------
(* The pool implements JobPool *)

\* The fate of each job, as the abstract pool sees it.
Stage == [j \in Jobs |-> IF status[j] = "leaked" THEN "rejected" ELSE status[j]]

\* A step that leaves the ring, the fates and the flag alone is a stutter.
LEMMA StutterStep ==
  ASSUME UNCHANGED <<ring, status, Accepting>>
  PROVE  UNCHANGED Pool!vars
BY DEF Pool!vars, ring, Slot

\* A function on 1..n is a sequence of length n.
LEMMA FunctionIsSeq ==
  ASSUME NEW S, NEW n \in Nat, NEW f \in [1..n -> S]
  PROVE  f \in Seq(S) /\ Len(f) = n
OBVIOUS

\* A submitted job joins the end of the queue.
LEMMA SubmitRefines ==
  ASSUME IndInv, NEW j \in Jobs, Submit(j)
  PROVE  Pool!Submit(j)
<1>0. TypeOK /\ RingOK /\ QueueSize \in Nat /\ status \in [Jobs -> Statuses]
  BY DEF IndInv, TypeOK
<1>1. /\ status[j] = "new" /\ Accepting /\ Accepting' = Accepting /\ PushRing(j)
      /\ status' = [status EXCEPT ![j] = "queued"]
  BY DEF Submit, Upcoming
<1>2. /\ QueueSize' = QueueSize + 1
      /\ \A i \in 0..(QueueSize - 1) : At(i)' = At(i)
      /\ \A i \in {QueueSize} : At(i)' = j
  BY <1>0, <1>1, PushKeepsOrder
<1>3. QueueSeq' = Append(QueueSeq, j)
  <2>1. QueueSeq' = [i \in 1..QueueSize' |-> At(i - 1)']
    BY DEF QueueSeq, At
  <2>2. QueueSeq = [i \in 1..QueueSize |-> At(i - 1)]
    BY DEF QueueSeq, At
  <2>3. Append(QueueSeq, j) =
          [i \in 1..(QueueSize + 1) |-> IF i \in 1..QueueSize THEN At(i - 1) ELSE j]
    <3>1. QueueSeq \in [1..QueueSize -> Jobs]
      <4>1. \A i \in 1..QueueSize : i - 1 \in 0..(QueueSize - 1)
        BY <1>0
      <4> QED
        BY <1>0, <2>2, <4>1 DEF RingOK
    <3>2. QueueSeq \in Seq(Jobs) /\ Len(QueueSeq) = QueueSize
      BY <1>0, <3>1, FunctionIsSeq
    <3>3. /\ Append(QueueSeq, j) \in Seq(Jobs)
          /\ Len(Append(QueueSeq, j)) = QueueSize + 1
          /\ \A i \in 1..QueueSize : Append(QueueSeq, j)[i] = QueueSeq[i]
          /\ Append(QueueSeq, j)[QueueSize + 1] = j
      BY <3>2, AppendProperties
    <3>4. Append(QueueSeq, j) = [i \in 1..(QueueSize + 1) |-> Append(QueueSeq, j)[i]]
      BY <3>3, LenProperties
    <3> HIDE DEF QueueSeq
    <3>5. \A i \in 1..(QueueSize + 1) : i \in 1..QueueSize \/ i = QueueSize + 1
      BY <1>0
    <3>6. QueueSize + 1 \notin 1..QueueSize
      BY <1>0
    <3> QED
      BY <2>2, <3>3, <3>4, <3>5, <3>6
  <2>4. \A i \in 1..(QueueSize + 1) :
          At(i - 1)' = IF i \in 1..QueueSize THEN At(i - 1) ELSE j
    <3>1. \A i \in 1..(QueueSize + 1) :
            IF i \in 1..QueueSize THEN i - 1 \in 0..(QueueSize - 1) ELSE i - 1 = QueueSize
      BY <1>0
    <3> QED
      BY <3>1, <1>2
  <2> QED
    BY <1>2, <2>1, <2>3, <2>4
<1>4. /\ Stage[j] = "new"
      /\ Stage' = [Stage EXCEPT ![j] = "queued"]
  BY <1>0, <1>1 DEF Stage
<1> QED
  BY <1>1, <1>3, <1>4 DEF Pool!Submit, QueueSeq, Stage

\* The job a worker takes is the oldest one.
LEMMA TakeRefines ==
  ASSUME IndInv, NEW w \in Workers, WorkerTake(w)
  PROVE  Pool!Take
<1>0. TypeOK /\ RingOK /\ QueueSize \in Nat /\ status \in [Jobs -> Statuses]
  BY DEF IndInv, TypeOK
<1>1. /\ QueueSize # 0 /\ PopRing /\ Accepting' = Accepting
      /\ status' = [status EXCEPT ![Queue[QueueHead]] = "running"]
  BY DEF WorkerTake
<1>2. /\ QueueSize' = QueueSize - 1
      /\ Slot(0) = QueueHead
      /\ \A i \in 0..(QueueSize - 2) : At(i)' = At(i + 1)
  BY <1>0, <1>1, PopKeepsOrder
<1>3. QueueSeq = [i \in 1..QueueSize |-> At(i - 1)]
  BY DEF QueueSeq, At
<1>4. /\ QueueSeq # <<>>
      /\ Head(QueueSeq) = Queue[QueueHead]
  <2>1. 1 \in 1..QueueSize /\ 1 - 1 = 0
    BY <1>0, <1>1
  <2>2. QueueSeq[1] = Queue[QueueHead]
    BY <1>2, <1>3, <2>1 DEF At
  <2>3. DOMAIN QueueSeq = 1..QueueSize
    BY <1>3
  <2> QED
    BY <1>0, <1>1, <2>2, <2>3
<1>5. QueueSeq' = Tail(QueueSeq)
  <2>1. QueueSeq' = [i \in 1..QueueSize' |-> At(i - 1)']
    BY DEF QueueSeq, At
  <2>2. Tail(QueueSeq) = [i \in 1..(QueueSize - 1) |-> At(i)]
    <3>1. QueueSeq \in [1..QueueSize -> Jobs]
      <4>1. \A i \in 1..QueueSize : i - 1 \in 0..(QueueSize - 1)
        BY <1>0
      <4> QED
        BY <1>0, <1>3, <4>1 DEF RingOK
    <3>2. Tail(QueueSeq) = [i \in 1..(QueueSize - 1) |-> QueueSeq[i + 1]]
      <4>1. QueueSeq \in Seq(Jobs) /\ Len(QueueSeq) = QueueSize
        BY <1>0, <3>1, FunctionIsSeq
      <4>2. /\ Tail(QueueSeq) \in Seq(Jobs)
            /\ Len(Tail(QueueSeq)) = QueueSize - 1
            /\ \A i \in 1..(QueueSize - 1) : Tail(QueueSeq)[i] = QueueSeq[i + 1]
        BY <1>4, <4>1, HeadTailProperties
      <4>3. Tail(QueueSeq) = [i \in 1..(QueueSize - 1) |-> Tail(QueueSeq)[i]]
        BY <4>2, LenProperties
      <4> QED
        BY <4>2, <4>3
    <3>3. \A i \in 1..(QueueSize - 1) : i + 1 \in 1..QueueSize /\ (i + 1) - 1 = i
      BY <1>0
    <3> QED
      BY <1>3, <3>2, <3>3
  <2>3. \A i \in 1..(QueueSize - 1) : At(i - 1)' = At(i)
    <3>1. \A i \in 1..(QueueSize - 1) : i - 1 \in 0..(QueueSize - 2) /\ (i - 1) + 1 = i
      BY <1>0
    <3> QED
      BY <3>1, <1>2
  <2> QED
    BY <1>2, <2>1, <2>2, <2>3
<1>6. Stage' = [Stage EXCEPT ![Queue[QueueHead]] = "running"]
  BY <1>0, <1>1, RingPop DEF Stage
<1> QED
  BY <1>1, <1>4, <1>5, <1>6 DEF Pool!Take, QueueSeq, Stage

\* Closing either keeps the queue or discards all of it.
LEMMA ShutdownRefines ==
  ASSUME IndInv, NEW drain \in BOOLEAN, Shutdown(drain)
  PROVE  Pool!CloseAndKeep \/ Pool!CloseAndDiscard
<1>0. TypeOK /\ RingOK /\ status \in [Jobs -> Statuses] /\ OwnerOK
  BY DEF IndInv, TypeOK
<1>1. Accepting /\ Accepting' = FALSE
  BY <1>0 DEF Shutdown, OwnerOK
<1>2. CASE drain
  <2>1. UNCHANGED <<ring, status>>
    BY <1>2 DEF Shutdown
  <2>2. QueueSeq' = QueueSeq /\ Stage' = Stage
    BY <2>1 DEF QueueSeq, Stage, ring, Slot
  <2> QED
    BY <1>1, <2>2 DEF Pool!CloseAndKeep, QueueSeq, Stage
<1>3. CASE ~drain
  <2>1. /\ QueueSize' = 0
        /\ status' = [k \in Jobs |->
                        IF k \in QueuedJobs THEN "dropped" ELSE status[k]]
    BY <1>3 DEF Shutdown
  <2>2. QueueSeq' = <<>>
    BY <2>1 DEF QueueSeq
  <2>3. Stage' = [j \in Jobs |-> IF Stage[j] = "queued" THEN "dropped" ELSE Stage[j]]
    BY <1>0, <2>1, QueuedJobsAre DEF Stage
  <2> QED
    BY <1>1, <2>2, <2>3 DEF Pool!CloseAndDiscard, QueueSeq, Stage
<1> QED
  BY <1>2, <1>3

\* A step of the pool is a step of JobPool or a stutter.
LEMMA StepRefines == IndInv /\ [Next]_vars => [Pool!Next]_(Pool!vars)
<1> SUFFICES ASSUME IndInv, [Next]_vars PROVE [Pool!Next]_(Pool!vars)
  OBVIOUS
<1>0. status \in [Jobs -> Statuses] /\ WorkersOK
  BY DEF IndInv, TypeOK
<1>1. ASSUME NEW j \in Jobs, Submit(j)
      PROVE  Pool!Next
  BY <1>1, SubmitRefines DEF Pool!Next
<1>2. ASSUME NEW j \in Jobs, SubmitRejected(j) \/ SubmitAllocationFailure(j)
      PROVE  Pool!Next
  <2>1. /\ UNCHANGED <<ring, Accepting>>
        /\ status[j] = "new"
        /\ \E s \in {"rejected", "leaked"} : status' = [status EXCEPT ![j] = s]
    BY <1>2 DEF SubmitRejected, SubmitAllocationFailure, Upcoming
  <2>2. /\ Stage[j] = "new"
        /\ Stage' = [Stage EXCEPT ![j] = "rejected"]
        /\ QueueSeq' = QueueSeq
    BY <1>0, <2>1 DEF Stage, QueueSeq, ring, Slot
  <2>3. Pool!Reject(j)
    BY <2>1, <2>2 DEF Pool!Reject, QueueSeq, Stage
  <2> QED
    BY <2>3 DEF Pool!Next
<1>3. ASSUME NEW w \in Workers, WorkerTake(w)
      PROVE  Pool!Next
  BY <1>3, TakeRefines DEF Pool!Next
<1>4. ASSUME NEW w \in Workers, NEW threw \in BOOLEAN, WorkerComplete(w, threw)
      PROVE  Pool!Next
  <2>0. PICK j \in Jobs : j = job[w]
    BY <1>0, <1>4 DEF WorkerComplete, WorkersOK
  <2>1. /\ status[j] = "running"
        /\ UNCHANGED <<ring, Accepting>>
        /\ status' = [status EXCEPT ![j] = "finished"]
    BY <1>0, <1>4, <2>0 DEF WorkerComplete, WorkersOK
  <2>2. /\ Stage[j] = "running"
        /\ Stage' = [Stage EXCEPT ![j] = "finished"]
        /\ QueueSeq' = QueueSeq
    BY <1>0, <2>1 DEF Stage, QueueSeq, ring, Slot
  <2>3. Pool!Finish(j)
    BY <2>1, <2>2 DEF Pool!Finish, QueueSeq, Stage
  <2> QED
    BY <2>3 DEF Pool!Next
<1>5. ASSUME NEW drain \in BOOLEAN, Shutdown(drain)
      PROVE  Pool!Next
  BY <1>5, ShutdownRefines DEF Pool!Next
<1>6. ASSUME \/ \E g \in Groups : WaitCall(g) \/ Wait(g)
             \/ DrainCall \/ Drain \/ ShutdownNotify \/ ShutdownJoin
             \/ \E w \in Workers : \/ WorkerExit(w) \/ WorkerSleep(w) \/ WorkerRetire(w)
                                   \/ SpuriousWake(w)
             \/ UNCHANGED vars
      PROVE  UNCHANGED Pool!vars
  <2>1. UNCHANGED <<ring, status, Accepting>>
    BY <1>6 DEF WaitCall, Wait, DrainCall, Drain, ShutdownNotify, ShutdownJoin, WorkerExit,
                WorkerSleep, WorkerRetire, SpuriousWake, vars
  <2> QED
    BY <2>1, StutterStep
<1> QED
  BY <1>1, <1>2, <1>3, <1>4, <1>5, <1>6 DEF Next, WorkerStep

\* PoolSpec: whatever the interleaving, the threads, the ring with its
\* wrap-around and growth, and the condition variables together are a first-in
\* first-out pool that starts each accepted job once and, when it closes,
\* either keeps or discards all of its queue.
THEOREM RefinesPool == Spec => PoolSpec
<1>1. Init => Pool!Init
  <2>1. Init => QueueSeq = <<>> /\ Stage = [j \in Jobs |-> "new"]
    BY DEF Init, QueueSeq, Stage
  <2> QED
    BY <2>1 DEF Init, Pool!Init, QueueSeq, Stage
<1> QED
  BY <1>1, StepRefines, PoolInvariant, PTL DEF Spec, PoolSpec, Pool!Spec

=============================================================================
