---------------------- MODULE ContentAvailabilityProofs ----------------------
(***************************************************************************)
(* Proofs about ContentAvailability, for every package, every limit and    *)
(* every number of workers: types, the coherence of records, the order of  *)
(* dependencies and the refinement of ContentResidency; then the counters: *)
(* slots, reserved, completed, cached and decoded bytes, and the demand    *)
(* carried to dependencies.                                                *)
(***************************************************************************)
EXTENDS ContentAvailability, AggregateTheorems

\* A stack of units loses its top and gains a unit's dependencies.
LEMMA PopIsStack ==
    ASSUME NEW s \in Seq(Units), s # <<>>
    PROVE  /\ s[Len(s)] \in Units
           /\ SubSeq(s, 1, Len(s) - 1) \in Seq(Units)
           /\ \A d \in Units : SubSeq(s, 1, Len(s) - 1) \o Dependencies[d] \in Seq(Units)
<1>1. Len(s) \in Nat /\ Len(s) > 0
  OBVIOUS
<1>2. s[Len(s)] \in Units
  BY <1>1
<1>3. SubSeq(s, 1, Len(s) - 1) \in Seq(Units)
  BY <1>1
<1>. QED
  BY <1>2, <1>3, UnitsAssumption

\* Removing one element of a sequence of tasks.
LEMMA RemoveIsSeq ==
    ASSUME NEW s \in Seq(Task), NEW k \in DOMAIN s
    PROVE  /\ SubSeq(s, 1, k - 1) \o SubSeq(s, k + 1, Len(s)) \in Seq(Task)
           /\ Len(SubSeq(s, 1, k - 1) \o SubSeq(s, k + 1, Len(s))) = Len(s) - 1
<1>. DEFINE before == SubSeq(s, 1, k - 1)
            after  == SubSeq(s, k + 1, Len(s))
<1>1. k \in 1..Len(s) /\ Len(s) \in Nat
  OBVIOUS
<1>2. before \in Seq(Task) /\ Len(before) = k - 1
  BY <1>1
<1>3. after \in Seq(Task) /\ Len(after) = Len(s) - k
  BY <1>1
<1>. HIDE DEF before, after
<1>4. before \o after \in Seq(Task) /\ Len(before \o after) = Len(before) + Len(after)
  BY <1>2, <1>3, ConcatProperties
<1>5. Len(before \o after) = Len(s) - 1
  BY <1>1, <1>2, <1>3, <1>4
<1>. QED
  BY <1>4, <1>5, Zenon DEF before, after

\* A sequence of tasks in which the outcome of one task is replaced.
LEMMA UpdateIsSeq ==
    ASSUME NEW s \in Seq(Task), NEW k \in DOMAIN s,
           NEW o \in {"running", "document", "deferred", "error", "taken"}
    PROVE  /\ [s EXCEPT ![k].outcome = o] \in Seq(Task)
           /\ Len([s EXCEPT ![k].outcome = o]) = Len(s)
<1>1. k \in 1..Len(s) /\ Len(s) \in Nat /\ s[k] \in Task
  OBVIOUS
<1>2. [s[k] EXCEPT !.outcome = o] \in Task
  BY <1>1 DEF Task
<1>. QED
  BY <1>1, <1>2

\* The facts about the constants that the proofs use.
LEMMA ConstantTypes ==
    /\ UnitCount \in Nat
    /\ Dependencies \in [Units -> Seq(Units)]
    /\ CompressedBytes \in [Units -> Nat]
    /\ ObjectCount \in [Units -> Nat]
    /\ MaximumInFlight \in Nat /\ MaximumInFlight > 0
    /\ MaximumCompletionsPerTick \in Nat /\ MaximumCompletionsPerTick > 0
BY UnitsAssumption, ManifestAssumption, LimitsAssumption

\* The initial state is well typed.
LEMMA TypeOKInit == Init => TypeOK
<1>. SUFFICES ASSUME Init PROVE TypeOK
  OBVIOUS
<1>. USE ConstantTypes DEF Init
<1>1. jobs \in Seq(Task) /\ completions \in Seq(Task) /\ batch \in Seq(Task)
  BY DEF NewTask, Task
<1>2. cursor \in Nat \ {0} /\ index \in 0..(UnitCount + 1)
  OBVIOUS
<1>3. tick \in Tick
  BY DEF Tick, NoTick
<1>4. cached \in [Units -> BOOLEAN] /\ prepared \in [Units -> BOOLEAN] /\ adding \in BOOLEAN
  BY Zenon
<1>5. work \in Seq(Units)
  OBVIOUS
<1>6. /\ residency \in [Units -> ResidencyState] /\ root \in [Units -> RootState]
      /\ cancel \in [Units -> {"none", "live", "cancelled"}]
      /\ direct \in [Units -> Nat] /\ dependency \in [Units -> Nat] /\ pins \in [Units -> Nat]
  BY DEF ResidencyState, RootState
<1>7. inFlight \in Nat /\ reserved \in Nat /\ pending \in Int
  OBVIOUS
<1>. QED
  BY <1>1, <1>2, <1>3, <1>4, <1>5, <1>6, <1>7, Zenon
     DEF TypeOK, ControlOK, DemandOK, RecordsOK, QueuesOK, Phase

\* Min, defined by choice, of the two numbers that bound a batch.
LEMMA MinOfLimits ==
    ASSUME completions \in Seq(Task)
    PROVE  Min({MaximumCompletionsPerTick, Len(completions)}) \in 0..Len(completions)
<1>. DEFINE S == {MaximumCompletionsPerTick, Len(completions)}
<1>1. Len(completions) \in Nat /\ MaximumCompletionsPerTick \in Nat
  BY ConstantTypes
<1>2. \E x \in S : \A y \in S : x =< y
  BY <1>1
<1>3. Min(S) \in S /\ \A y \in S : Min(S) =< y
  BY <1>2, Zenon DEF Min
<1>. QED
  BY <1>1, <1>3

\* Demand stays a natural number: nothing is released that was not there.
LEMMA DemandStep ==
    ASSUME TypeOK, [Next]_vars
    PROVE  DemandOK'
<1>. USE ConstantTypes DEF TypeOK, DemandOK
<1>1. CASE AdjustDependencies
  <2>. DEFINE d == work[Len(work)]
  <2>1. d \in Units
    BY <1>1, PopIsStack DEF AdjustDependencies, ControlOK
  <2>2. /\ \/ dependency' = [dependency EXCEPT ![d] = @ + 1]
           \/ dependency' = dependency
           \/ dependency[d] # 0 /\ dependency' = [dependency EXCEPT ![d] = @ - 1]
        /\ UNCHANGED <<direct, pins>>
    BY <1>1 DEF AdjustDependencies
  <2>3. dependency[d] \in Nat
    BY <2>1
  <2>. HIDE DEF d
  <2>4. dependency' \in [Units -> Nat]
    <3>1. CASE dependency' = [dependency EXCEPT ![d] = @ + 1]
      BY <2>1, <2>3, <3>1
    <3>2. CASE dependency' = dependency
      BY <3>2
    <3>3. CASE dependency[d] # 0 /\ dependency' = [dependency EXCEPT ![d] = @ - 1]
      BY <2>1, <2>3, <3>3
    <3>. QED
      BY <2>2, <3>1, <3>2, <3>3
  <2>. QED
    BY <2>2, <2>4
<1>2. CASE BootstrapRequest
  <2>1. index \in Units
    BY <1>2 DEF BootstrapRequest
  <2>2. /\ direct' = direct \/ direct' = [direct EXCEPT ![index] = @ + 1]
        /\ UNCHANGED <<dependency, pins>>
    BY <1>2 DEF BootstrapRequest, Request
  <2>3. direct' \in [Units -> Nat]
    <3>1. CASE direct' = direct
      BY <3>1
    <3>2. CASE direct' = [direct EXCEPT ![index] = @ + 1]
      BY <2>1, <3>2
    <3>. QED
      BY <2>2, <3>1, <3>2
  <2>. QED
    BY <2>2, <2>3
<1>3. CASE Stop
  BY <1>3 DEF Stop
<1>4. ASSUME NEW u \in Units, RequestContent(u) PROVE DemandOK'
  <2>1. direct' = [direct EXCEPT ![u] = @ + 1] /\ UNCHANGED <<dependency, pins>>
    BY <1>4 DEF RequestContent, Request
  <2>. QED
    BY <2>1
<1>5. ASSUME NEW u \in Units, ReleaseContent(u) PROVE DemandOK'
  <2>1. direct' = [direct EXCEPT ![u] = direct[u] - 1] /\ UNCHANGED <<dependency, pins>>
    BY <1>5 DEF ReleaseContent
  <2>2. direct[u] \in Nat /\ direct[u] > 0
    BY <1>5 DEF ReleaseContent, Releasable
  <2>. QED
    BY <2>1, <2>2
<1>6. ASSUME NEW u \in Units, PinContent(u) PROVE DemandOK'
  <2>1. pins' = [pins EXCEPT ![u] = pins[u] + 1] /\ UNCHANGED <<direct, dependency>>
    BY <1>6 DEF PinContent
  <2>2. pins[u] \in Nat
    BY <1>6 DEF PinContent, Releasable
  <2>. QED
    BY <2>1, <2>2
<1>7. ASSUME NEW u \in Units, UnpinContent(u) PROVE DemandOK'
  <2>1. pins' = [pins EXCEPT ![u] = pins[u] - 1] /\ UNCHANGED <<direct, dependency>>
    BY <1>7 DEF UnpinContent
  <2>2. pins[u] \in Nat /\ pins[u] > 0
    BY <1>7 DEF UnpinContent, Releasable
  <2>. QED
    BY <2>1, <2>2
<1>8. CASE UNCHANGED demand
  BY <1>8 DEF demand
<1>. QED
  BY <1>1, <1>2, <1>3, <1>4, <1>5, <1>6, <1>7, <1>8
     DEF Next, Continue, Worker, Demand, CallAfterStop, vars, control, demand, records, 
         budgets, Gameplay, Step, AdjustReturn, ManifestFailed, ManifestArrived, 
         BootstrapDone, CompletionDiscarded, CompletionFailed, CompletionAccepted, 
         CompletionsDone, StartDone, AdmitDone, EvictDone, StartUndesired, StartSkipped, 
         StartDeferred, StartSubmitted, AdmitSkipped, AdmitPrepares, AdmitRejected, 
         AdmitCommitted, EvictSkipped, EvictForgotten, EvictDestroyed, RetryContent, 
         WorkerPrepare, WorkerPublish

\* The program counter and the loop variables stay within their loops.
LEMMA ControlStep ==
    ASSUME TypeOK, [Next]_vars
    PROVE  ControlOK'
<1>. USE ConstantTypes DEF TypeOK, ControlOK, Phase
<1>1. CASE Step
  <2>. DEFINE count == Min({MaximumCompletionsPerTick, Len(completions)})
  <2>1. count \in 0..Len(completions)
    BY MinOfLimits DEF QueuesOK
  <2>2. batch' = SubSeq(completions, 1, count)
    BY <1>1 DEF Step
  <2>. HIDE DEF count
  <2>3. batch' \in Seq(Task)
    BY <2>1, <2>2 DEF QueuesOK
  <2>4. /\ phase' = "process" /\ cursor' = 1
        /\ UNCHANGED <<resume, index, work, adding, tick, manifest>>
    BY <1>1 DEF Step
  <2>. QED
    BY <2>3, <2>4
<1>2. CASE AdjustDependencies
  <2>. DEFINE d == work[Len(work)]
              rest == SubSeq(work, 1, Len(work) - 1)
  <2>1. d \in Units /\ rest \in Seq(Units) /\ rest \o Dependencies[d] \in Seq(Units)
    BY <1>2, PopIsStack DEF AdjustDependencies
  <2>2. /\ work' = rest \/ work' = rest \o Dependencies[d]
        /\ UNCHANGED <<phase, resume, index, batch, cursor, adding, tick, manifest>>
    BY <1>2 DEF AdjustDependencies
  <2>. HIDE DEF d, rest
  <2>. QED
    BY <2>1, <2>2
<1>3. CASE AdjustReturn
  BY <1>3 DEF AdjustReturn
<1>4. CASE ManifestFailed
  BY <1>4 DEF ManifestFailed, Processing
<1>5. CASE ManifestArrived
  BY <1>5 DEF ManifestArrived, Processing
<1>6. CASE BootstrapRequest
  <2>1. index \in Units /\ index' = index + 1
    BY <1>6 DEF BootstrapRequest
  <2>2. /\ UNCHANGED <<batch, cursor, tick, manifest>>
        /\ phase' \in {phase, "adjust", "bootstrap"} /\ resume' \in {resume, "bootstrap"}
        /\ work' = work \/ work' = Dependencies[index]
        /\ adding' = adding \/ adding' = TRUE
    BY <1>6 DEF BootstrapRequest, Request, EnterAdjust
  <2>3. work' \in Seq(Units) /\ index' \in 0..(UnitCount + 1)
    BY <2>1, <2>2 DEF Units
  <2>. QED
    BY <2>2, <2>3
<1>7. CASE BootstrapDone
  BY <1>7 DEF BootstrapDone
<1>8. CASE CompletionDiscarded
  BY <1>8 DEF CompletionDiscarded, Processing
<1>9. CASE CompletionFailed
  BY <1>9 DEF CompletionFailed, Processing
<1>10. CASE CompletionAccepted
  <2>1. cursor \in DOMAIN batch
    BY <1>10 DEF CompletionAccepted, Processing
  <2>2. batch' = batch \/ batch' = [batch EXCEPT ![cursor].outcome = "taken"]
    BY <1>10 DEF CompletionAccepted
  <2>3. batch' \in Seq(Task)
    BY <2>1, <2>2, UpdateIsSeq, Zenon
  <2>4. /\ cursor' = cursor + 1
        /\ UNCHANGED <<phase, resume, index, work, adding, tick, manifest>>
    BY <1>10 DEF CompletionAccepted
  <2>. QED
    BY <2>1, <2>3, <2>4
<1>11. CASE CompletionsDone
  BY <1>11 DEF CompletionsDone
<1>12. CASE StartDone
  BY <1>12 DEF StartDone
<1>13. CASE AdmitDone
  BY <1>13 DEF AdmitDone, NoTick, Tick
<1>14. CASE EvictDone
  BY <1>14 DEF EvictDone, NoTick, Tick
<1>15. CASE Stop
  BY <1>15 DEF Stop
<1>16. ASSUME NEW u \in Units, StartUndesired(u) PROVE ControlOK'
  <2>1. index \in Units /\ index' = index + 1
    BY <1>16 DEF StartUndesired, Starting
  <2>2. UNCHANGED <<phase, resume, batch, cursor, work, adding, tick, manifest>>
    BY <1>16 DEF StartUndesired
  <2>. QED
    BY <2>1, <2>2 DEF Units
<1>17. ASSUME NEW u \in Units, StartSkipped(u) PROVE ControlOK'
  <2>1. index \in Units /\ index' = index + 1
    BY <1>17 DEF StartSkipped, Starting
  <2>2. UNCHANGED <<phase, resume, batch, cursor, work, adding, tick, manifest>>
    BY <1>17 DEF StartSkipped
  <2>. QED
    BY <2>1, <2>2 DEF Units
<1>18. ASSUME NEW u \in Units, StartDeferred(u) PROVE ControlOK'
  <2>1. index \in Units /\ index' = index + 1
    BY <1>18 DEF StartDeferred, Starting
  <2>2. UNCHANGED <<phase, resume, batch, cursor, work, adding, tick, manifest>>
    BY <1>18 DEF StartDeferred
  <2>. QED
    BY <2>1, <2>2 DEF Units
<1>19. ASSUME NEW u \in Units, StartSubmitted(u) PROVE ControlOK'
  <2>1. index \in Units /\ index' = index + 1
    BY <1>19 DEF StartSubmitted, Starting
  <2>2. UNCHANGED <<phase, resume, batch, cursor, work, adding, tick, manifest>>
    BY <1>19 DEF StartSubmitted
  <2>. QED
    BY <2>1, <2>2 DEF Units
<1>20. ASSUME NEW u \in Units, AdmitSkipped(u) PROVE ControlOK'
  <2>1. index \in Units /\ index' = index + 1
    BY <1>20 DEF AdmitSkipped, Admitting
  <2>2. UNCHANGED <<phase, resume, batch, cursor, work, adding, tick, manifest>>
    BY <1>20 DEF AdmitSkipped
  <2>. QED
    BY <2>1, <2>2 DEF Units
<1>21. ASSUME NEW u \in Units, AdmitPrepares(u) PROVE ControlOK'
  <2>1. index \in Units /\ index' = index + 1
    BY <1>21 DEF AdmitPrepares, Admitting
  <2>2. UNCHANGED <<phase, resume, batch, cursor, work, adding, tick, manifest>>
    BY <1>21 DEF AdmitPrepares
  <2>. QED
    BY <2>1, <2>2 DEF Units
<1>22. ASSUME NEW u \in Units, AdmitRejected(u) PROVE ControlOK'
  <2>1. index \in Units /\ index' = index + 1
    BY <1>22 DEF AdmitRejected, Admitting
  <2>2. UNCHANGED <<phase, resume, batch, cursor, work, adding, tick, manifest>>
    BY <1>22 DEF AdmitRejected
  <2>. QED
    BY <2>1, <2>2 DEF Units
<1>23. ASSUME NEW u \in Units, AdmitCommitted(u) PROVE ControlOK'
  <2>1. index \in Units /\ index' = index + 1 /\ u = index
    BY <1>23 DEF AdmitCommitted, Admitting
  <2>2. UNCHANGED <<phase, resume, batch, cursor, work, adding, manifest>>
    BY <1>23 DEF AdmitCommitted
  <2>3. tick' \in Tick
    BY <1>23, <2>1 DEF AdmitCommitted, Tick
  <2>. QED
    BY <2>1, <2>2, <2>3 DEF Units
<1>24. ASSUME NEW u \in Units, EvictSkipped(u) PROVE ControlOK'
  <2>1. index \in Units /\ index' = index - 1
    BY <1>24 DEF EvictSkipped, Evicting
  <2>2. UNCHANGED <<phase, resume, batch, cursor, work, adding, tick, manifest>>
    BY <1>24 DEF EvictSkipped
  <2>. QED
    BY <2>1, <2>2 DEF Units
<1>25. ASSUME NEW u \in Units, EvictForgotten(u) PROVE ControlOK'
  <2>1. index \in Units /\ index' = index - 1
    BY <1>25 DEF EvictForgotten, Evicting
  <2>2. UNCHANGED <<phase, resume, batch, cursor, work, adding, tick, manifest>>
    BY <1>25 DEF EvictForgotten
  <2>. QED
    BY <2>1, <2>2 DEF Units
<1>26. ASSUME NEW u \in Units, EvictDestroyed(u) PROVE ControlOK'
  <2>1. index \in Units /\ index' = index - 1 /\ u = index
    BY <1>26 DEF EvictDestroyed, Evicting
  <2>2. UNCHANGED <<phase, resume, batch, cursor, work, adding, manifest>>
    BY <1>26 DEF EvictDestroyed
  <2>3. tick' \in Tick
    BY <1>26, <2>1 DEF EvictDestroyed, Tick
  <2>. QED
    BY <2>1, <2>2, <2>3 DEF Units
<1>27. ASSUME NEW u \in Units, RequestContent(u) PROVE ControlOK'
  <2>1. /\ UNCHANGED <<index, batch, cursor, tick, manifest>>
        /\ phase' \in {phase, "adjust", "idle"} /\ resume' \in {resume, "idle"}
        /\ work' = work \/ work' = Dependencies[u]
        /\ adding' \in {adding, TRUE, FALSE}
    BY <1>27 DEF RequestContent, EnterAdjust, Request
  <2>. QED
    BY <2>1
<1>28. ASSUME NEW u \in Units, ReleaseContent(u) PROVE ControlOK'
  <2>1. /\ UNCHANGED <<index, batch, cursor, tick, manifest>>
        /\ phase' \in {phase, "adjust", "idle"} /\ resume' \in {resume, "idle"}
        /\ work' = work \/ work' = Dependencies[u]
        /\ adding' \in {adding, TRUE, FALSE}
    BY <1>28 DEF ReleaseContent, EnterAdjust
  <2>. QED
    BY <2>1
<1>29. ASSUME NEW u \in Units, PinContent(u) PROVE ControlOK'
  <2>1. /\ UNCHANGED <<index, batch, cursor, tick, manifest>>
        /\ phase' \in {phase, "adjust", "idle"} /\ resume' \in {resume, "idle"}
        /\ work' = work \/ work' = Dependencies[u]
        /\ adding' \in {adding, TRUE, FALSE}
    BY <1>29 DEF PinContent, EnterAdjust
  <2>. QED
    BY <2>1
<1>30. ASSUME NEW u \in Units, UnpinContent(u) PROVE ControlOK'
  <2>1. /\ UNCHANGED <<index, batch, cursor, tick, manifest>>
        /\ phase' \in {phase, "adjust", "idle"} /\ resume' \in {resume, "idle"}
        /\ work' = work \/ work' = Dependencies[u]
        /\ adding' \in {adding, TRUE, FALSE}
    BY <1>30 DEF UnpinContent, EnterAdjust
  <2>. QED
    BY <2>1
<1>31. ASSUME NEW u \in Units, RetryContent(u) PROVE ControlOK'
  BY <1>31 DEF RetryContent
<1>32. CASE UNCHANGED <<control, manifest>>
  BY <1>32 DEF control
<1>. QED
  BY <1>1, <1>2, <1>3, <1>4, <1>5, <1>6, <1>7, <1>8, <1>9, <1>10, <1>11, <1>12, 
     <1>13, <1>14, <1>15, <1>16, <1>17, <1>18, <1>19, <1>20, <1>21, <1>22, <1>23, 
     <1>24, <1>25, <1>26, <1>27, <1>28, <1>29, <1>30, <1>31, <1>32
     DEF Next, Continue, Worker, Demand, CallAfterStop, vars, control, demand, records, 
         budgets, Gameplay, WorkerPrepare, WorkerPublish

\* The completion being processed is a task of the batch.
LEMMA CompletionIsTask ==
    ASSUME ControlOK, cursor <= Len(batch)
    PROVE  /\ cursor \in DOMAIN batch /\ Completion \in Task
           /\ SizeOf(Completion.unit) \in Nat
<1>1. cursor \in DOMAIN batch /\ Completion \in Task
  BY DEF ControlOK, Completion
<1>2. Completion.unit \in Units \cup {ManifestUnit}
  BY <1>1 DEF Task
<1>. QED
  BY <1>1, <1>2, ConstantTypes DEF SizeOf

\* Facts about an unchanged or updated Boolean flag of a record.
LEMMA FlagUpdate ==
    ASSUME NEW f \in [Units -> BOOLEAN], NEW u \in Units, NEW b \in BOOLEAN
    PROVE  [f EXCEPT ![u] = b] \in [Units -> BOOLEAN]
  OBVIOUS

\* The records keep their types.
LEMMA RecordsStep ==
    ASSUME TypeOK, [Next]_vars
    PROVE  RecordsOK'
<1>. USE ConstantTypes DEF TypeOK, RecordsOK
<1>1. CASE CompletionDiscarded
  <2>1. Completion \in Task /\ Completion.unit # ManifestUnit
    BY <1>1, CompletionIsTask DEF CompletionDiscarded, Processing
  <2>2. Completion.unit \in Units
    BY <2>1 DEF Task
  <2>. QED
    BY <1>1, <2>2 DEF CompletionDiscarded, ResidencyState
<1>2. CASE CompletionFailed
  <2>1. Completion \in Task /\ Completion.unit # ManifestUnit
    BY <1>2, CompletionIsTask DEF CompletionFailed, Processing, Awaited
  <2>2. Completion.unit \in Units
    BY <2>1 DEF Task
  <2>. QED
    BY <1>2, <2>2 DEF CompletionFailed, ResidencyState
<1>3. CASE CompletionAccepted
  <2>1. Completion \in Task /\ Completion.unit # ManifestUnit
    BY <1>3, CompletionIsTask DEF CompletionAccepted, Processing, Awaited
  <2>2. Completion.unit \in Units
    BY <2>1 DEF Task
  <2>3. residency' \in [Units -> ResidencyState]
    BY <1>3 DEF CompletionAccepted, ResidencyState
  <2>4. cancel' \in [Units -> {"none", "live", "cancelled"}]
    BY <1>3, <2>2 DEF CompletionAccepted
  <2>5. cached' \in [Units -> BOOLEAN] /\ prepared' \in [Units -> BOOLEAN]
    BY <1>3, Zenon DEF CompletionAccepted, DependenciesResident
  <2>6. root' = root
    BY <1>3 DEF CompletionAccepted
  <2>. QED
    BY <2>3, <2>4, <2>5, <2>6
<1>4. CASE Stop
  <2>1. cached' \in [Units -> BOOLEAN] /\ prepared' \in [Units -> BOOLEAN]
    BY <1>4, Zenon DEF Stop
  <2>. QED
    BY <1>4, <2>1 DEF Stop, ResidencyState, RootState
<1>5. ASSUME NEW u \in Units, StartUndesired(u) PROVE RecordsOK'
  <2>1. prepared' \in [Units -> BOOLEAN]
    BY <1>5, Zenon DEF StartUndesired
  <2>2. residency' \in [Units -> ResidencyState] /\ cancel' \in [Units -> {"none", "live", "cancelled"}]
    BY <1>5 DEF StartUndesired, ResidencyState
  <2>. QED
    BY <1>5, <2>1, <2>2 DEF StartUndesired
<1>6. ASSUME NEW u \in Units, StartDeferred(u) PROVE RecordsOK'
  BY <1>6 DEF StartDeferred, ResidencyState
<1>7. ASSUME NEW u \in Units, StartSubmitted(u) PROVE RecordsOK'
  BY <1>7 DEF StartSubmitted, Submit, ResidencyState
<1>8. ASSUME NEW u \in Units, AdmitPrepares(u) PROVE RecordsOK'
  BY <1>8 DEF AdmitPrepares, Submit, ResidencyState
<1>9. ASSUME NEW u \in Units, AdmitRejected(u) PROVE RecordsOK'
  <2>1. cached' \in [Units -> BOOLEAN] /\ prepared' \in [Units -> BOOLEAN]
    BY <1>9, FlagUpdate DEF AdmitRejected
  <2>. QED
    BY <1>9, <2>1 DEF AdmitRejected, ResidencyState
<1>10. ASSUME NEW u \in Units, AdmitCommitted(u) PROVE RecordsOK'
  <2>1. prepared' \in [Units -> BOOLEAN]
    BY <1>10, FlagUpdate DEF AdmitCommitted
  <2>. QED
    BY <1>10, <2>1 DEF AdmitCommitted, ResidencyState, RootState
<1>11. ASSUME NEW u \in Units, EvictForgotten(u) PROVE RecordsOK'
  BY <1>11 DEF EvictForgotten, ResidencyState, RootState
<1>12. ASSUME NEW u \in Units, EvictDestroyed(u) PROVE RecordsOK'
  BY <1>12 DEF EvictDestroyed, ResidencyState, RootState
<1>13. ASSUME NEW u \in Units, RetryContent(u) PROVE RecordsOK'
  BY <1>13 DEF RetryContent, ResidencyState
<1>14. ASSUME NEW u \in Units, Gameplay(u) PROVE RecordsOK'
  BY <1>14 DEF Gameplay, RootState
<1>15. CASE UNCHANGED records
  BY <1>15 DEF records
<1>. QED
  BY <1>1, <1>2, <1>3, <1>4, <1>5, <1>6, <1>7, <1>8, <1>9, <1>10, <1>11, <1>12, 
     <1>13, <1>14, <1>15
     DEF Next, Continue, Worker, Demand, CallAfterStop, vars, control, demand, records, 
         budgets, Gameplay, Step, AdjustDependencies, AdjustReturn, ManifestFailed, 
         ManifestArrived, BootstrapRequest, BootstrapDone, CompletionsDone, StartDone, 
         AdmitDone, EvictDone, StartSkipped, AdmitSkipped, EvictSkipped, RequestContent, 
         ReleaseContent, PinContent, UnpinContent, WorkerPrepare, WorkerPublish

\* The job pool and the completion queue hold tasks, and no counter of them
\* goes below zero.
LEMMA QueuesStep ==
    ASSUME TypeOK, [Next]_vars
    PROVE  QueuesOK'
<1>. USE ConstantTypes DEF TypeOK, QueuesOK
<1>1. CASE Step
  <2>. DEFINE count == Min({MaximumCompletionsPerTick, Len(completions)})
  <2>1. count \in 0..Len(completions)
    BY MinOfLimits
  <2>2. completions' = SubSeq(completions, count + 1, Len(completions))
    BY <1>1 DEF Step
  <2>. HIDE DEF count
  <2>3. completions' \in Seq(Task)
    BY <2>1, <2>2
  <2>. QED
    BY <1>1, <2>3 DEF Step
<1>2. CASE ManifestFailed
  <2>1. SizeOf(Completion.unit) \in Nat
    BY <1>2, CompletionIsTask DEF ManifestFailed, Processing
  <2>. QED
    BY <1>2, <2>1 DEF ManifestFailed, Processing
<1>3. CASE ManifestArrived
  <2>1. SizeOf(Completion.unit) \in Nat
    BY <1>3, CompletionIsTask DEF ManifestArrived, Processing
  <2>. QED
    BY <1>3, <2>1 DEF ManifestArrived, Processing
<1>4. CASE CompletionDiscarded
  <2>1. SizeOf(Completion.unit) \in Nat
    BY <1>4, CompletionIsTask DEF CompletionDiscarded, Processing
  <2>. QED
    BY <1>4, <2>1 DEF CompletionDiscarded, Processing
<1>5. CASE CompletionFailed
  <2>1. SizeOf(Completion.unit) \in Nat
    BY <1>5, CompletionIsTask DEF CompletionFailed, Processing
  <2>. QED
    BY <1>5, <2>1 DEF CompletionFailed, Processing
<1>6. CASE CompletionAccepted
  <2>1. SizeOf(Completion.unit) \in Nat
    BY <1>6, CompletionIsTask DEF CompletionAccepted, Processing
  <2>. QED
    BY <1>6, <2>1 DEF CompletionAccepted, Processing
<1>7. CASE Stop
  BY <1>7 DEF Stop
<1>8. ASSUME NEW u \in Units, StartUndesired(u) PROVE QueuesOK'
  BY <1>8 DEF StartUndesired
<1>9. ASSUME NEW u \in Units, StartDeferred(u) PROVE QueuesOK'
  BY <1>9 DEF StartDeferred, PendingWith
<1>10. ASSUME NEW u \in Units, StartSubmitted(u) PROVE QueuesOK'
  <2>1. NewTask(u, cached[u]) \in Task
    BY DEF NewTask, Task, RecordsOK
  <2>2. jobs' \in Seq(Task)
    BY <1>10, <2>1 DEF StartSubmitted, Submit
  <2>. QED
    BY <1>10, <2>2 DEF StartSubmitted, Submit, PendingWith
<1>11. ASSUME NEW u \in Units, AdmitPrepares(u) PROVE QueuesOK'
  <2>. DEFINE t == NewTask(u, TRUE)
  <2>1. t \in Task
    BY DEF NewTask, Task
  <2>2. /\ jobs' = Append(jobs, t)
        /\ inFlight' = inFlight + 1 /\ reserved' = reserved + CompressedBytes[u]
        /\ UNCHANGED <<completions, pending>>
    BY <1>11, Zenon DEF AdmitPrepares, Submit
  <2>. HIDE DEF t
  <2>. QED
    BY <2>1, <2>2
<1>12. ASSUME NEW k \in 1..WorkerCount, WorkerPrepare(k) PROVE QueuesOK'
  <2>1. PICK o \in Outcomes(jobs[k]) : jobs' = [jobs EXCEPT ![k].outcome = o]
    BY <1>12 DEF WorkerPrepare
  <2>2. k \in DOMAIN jobs /\ o \in {"running", "document", "deferred", "error", "taken"}
    BY <1>12 DEF WorkerPrepare, Running, Outcomes
  <2>3. jobs' \in Seq(Task)
    BY <2>1, <2>2, UpdateIsSeq
  <2>. QED
    BY <1>12, <2>3 DEF WorkerPrepare, budgets
<1>13. ASSUME NEW k \in 1..WorkerCount, WorkerPublish(k) PROVE QueuesOK'
  <2>1. k \in DOMAIN jobs /\ jobs[k] \in Task
    BY <1>13 DEF WorkerPublish, Running
  <2>2. Published(jobs[k]) \in Task
    BY <2>1 DEF Published, Task
  <2>3. completions' \in Seq(Task)
    BY <1>13, <2>2 DEF WorkerPublish
  <2>4. jobs' \in Seq(Task)
    BY <1>13, <2>1, RemoveIsSeq DEF WorkerPublish
  <2>. QED
    BY <1>13, <2>3, <2>4 DEF WorkerPublish
<1>14. CASE UNCHANGED <<jobs, completions, budgets>>
  BY <1>14 DEF budgets
<1>. QED
  BY <1>1, <1>2, <1>3, <1>4, <1>5, <1>6, <1>7, <1>8, <1>9, <1>10, <1>11, <1>12, 
     <1>13, <1>14
     DEF Next, Continue, Worker, Demand, CallAfterStop, vars, control, demand, records, 
         budgets, Gameplay, AdjustDependencies, AdjustReturn, BootstrapRequest, 
         BootstrapDone, CompletionsDone, StartDone, AdmitDone, EvictDone, StartSkipped, 
         AdmitSkipped, AdmitRejected, AdmitCommitted, EvictSkipped, EvictForgotten, 
         EvictDestroyed, RequestContent, ReleaseContent, PinContent, UnpinContent, 
         RetryContent

\* Type correctness, for every package and every limit the constructor accepts.
THEOREM TypeCorrect == Spec => []TypeOK
<1>1. Init => TypeOK
  BY TypeOKInit
<1>2. TypeOK /\ [Next]_vars => TypeOK'
  BY ControlStep, DemandStep, RecordsStep, QueuesStep DEF TypeOK
<1>. QED
  BY <1>1, <1>2, PTL DEF Spec

\* Root, cached bytes and decoded document of a record change together with its
\* residency.
LEMMA CoherenceStep ==
    ASSUME TypeOK, RecordCoherence, [Next]_vars
    PROVE  RecordCoherence'
<1>. USE ConstantTypes DEF TypeOK
<1>1. CASE CompletionDiscarded
  <2>1. Completion \in Task /\ Completion.unit # ManifestUnit
    BY <1>1, CompletionIsTask DEF CompletionDiscarded, Processing
  <2>2. Completion.unit \in Units
    BY <2>1 DEF Task
  <2>. SUFFICES ASSUME NEW v \in Units PROVE Coherent(v)'
    BY DEF RecordCoherence
  <2>3. Coherent(v)
    BY DEF RecordCoherence
  <2>. QED
    BY <1>1, <2>2, <2>3 DEF CompletionDiscarded, Coherent, RecordsOK, Awaited
<1>2. CASE CompletionFailed
  <2>1. Completion \in Task /\ Completion.unit # ManifestUnit
    BY <1>2, CompletionIsTask DEF CompletionFailed, Processing, Awaited
  <2>2. Completion.unit \in Units
    BY <2>1 DEF Task
  <2>. SUFFICES ASSUME NEW v \in Units PROVE Coherent(v)'
    BY DEF RecordCoherence
  <2>3. Coherent(v)
    BY DEF RecordCoherence
  <2>. QED
    BY <1>2, <2>2, <2>3 DEF CompletionFailed, Coherent, RecordsOK, Awaited
<1>3. CASE CompletionAccepted
  <2>1. Completion \in Task /\ Completion.unit # ManifestUnit
    BY <1>3, CompletionIsTask DEF CompletionAccepted, Processing, Awaited
  <2>2. Completion.unit \in Units
    BY <2>1 DEF Task
  <2>. SUFFICES ASSUME NEW v \in Units PROVE Coherent(v)'
    BY DEF RecordCoherence
  <2>3. Coherent(v)
    BY DEF RecordCoherence
  <2>. QED
    BY <1>3, <2>2, <2>3 DEF CompletionAccepted, Coherent, RecordsOK, Awaited, Droppable, MakeCacheSpace
<1>4. CASE Stop
  BY <1>4 DEF Stop, RecordCoherence, Coherent
<1>5. ASSUME NEW u \in Units, StartUndesired(u) PROVE RecordCoherence'
  <2>. SUFFICES ASSUME NEW v \in Units PROVE Coherent(v)'
    BY DEF RecordCoherence
  <2>1. Coherent(v) /\ Coherent(u)
    BY DEF RecordCoherence
  <2>. QED
    BY <1>5, <2>1 DEF StartUndesired, Coherent, RecordsOK
<1>6. ASSUME NEW u \in Units, StartDeferred(u) PROVE RecordCoherence'
  <2>. SUFFICES ASSUME NEW v \in Units PROVE Coherent(v)'
    BY DEF RecordCoherence
  <2>1. Coherent(v) /\ Coherent(u)
    BY DEF RecordCoherence
  <2>. QED
    BY <1>6, <2>1 DEF StartDeferred, Queued, Coherent, RecordsOK
<1>7. ASSUME NEW u \in Units, StartSubmitted(u) PROVE RecordCoherence'
  <2>. SUFFICES ASSUME NEW v \in Units PROVE Coherent(v)'
    BY DEF RecordCoherence
  <2>1. Coherent(v) /\ Coherent(u)
    BY DEF RecordCoherence
  <2>. QED
    BY <1>7, <2>1 DEF StartSubmitted, Queued, Submit, Coherent, RecordsOK
<1>8. ASSUME NEW u \in Units, AdmitPrepares(u) PROVE RecordCoherence'
  <2>. SUFFICES ASSUME NEW v \in Units PROVE Coherent(v)'
    BY DEF RecordCoherence
  <2>1. Coherent(v) /\ Coherent(u)
    BY DEF RecordCoherence
  <2>. QED
    BY <1>8, <2>1 DEF AdmitPrepares, Admissible, Submit, Coherent, RecordsOK
<1>9. ASSUME NEW u \in Units, AdmitRejected(u) PROVE RecordCoherence'
  <2>. SUFFICES ASSUME NEW v \in Units PROVE Coherent(v)'
    BY DEF RecordCoherence
  <2>1. Coherent(v) /\ Coherent(u)
    BY DEF RecordCoherence
  <2>. QED
    BY <1>9, <2>1 DEF AdmitRejected, Admissible, Coherent, RecordsOK
<1>10. ASSUME NEW u \in Units, AdmitCommitted(u) PROVE RecordCoherence'
  <2>. SUFFICES ASSUME NEW v \in Units PROVE Coherent(v)'
    BY DEF RecordCoherence
  <2>1. Coherent(v) /\ Coherent(u)
    BY DEF RecordCoherence
  <2>. QED
    BY <1>10, <2>1 DEF AdmitCommitted, Coherent, RecordsOK
<1>11. ASSUME NEW u \in Units, EvictForgotten(u) PROVE RecordCoherence'
  <2>. SUFFICES ASSUME NEW v \in Units PROVE Coherent(v)'
    BY DEF RecordCoherence
  <2>1. Coherent(v) /\ Coherent(u)
    BY DEF RecordCoherence
  <2>. QED
    BY <1>11, <2>1 DEF EvictForgotten, Evictable, Coherent, RecordsOK
<1>12. ASSUME NEW u \in Units, EvictDestroyed(u) PROVE RecordCoherence'
  <2>. SUFFICES ASSUME NEW v \in Units PROVE Coherent(v)'
    BY DEF RecordCoherence
  <2>1. Coherent(v) /\ Coherent(u)
    BY DEF RecordCoherence
  <2>. QED
    BY <1>12, <2>1 DEF EvictDestroyed, Evictable, Coherent, RecordsOK
<1>13. ASSUME NEW u \in Units, RetryContent(u) PROVE RecordCoherence'
  <2>. SUFFICES ASSUME NEW v \in Units PROVE Coherent(v)'
    BY DEF RecordCoherence
  <2>1. Coherent(v) /\ Coherent(u)
    BY DEF RecordCoherence
  <2>. QED
    BY <1>13, <2>1 DEF RetryContent, Coherent, RecordsOK
<1>14. ASSUME NEW u \in Units, Gameplay(u) PROVE RecordCoherence'
  <2>. SUFFICES ASSUME NEW v \in Units PROVE Coherent(v)'
    BY DEF RecordCoherence
  <2>1. Coherent(v) /\ Coherent(u)
    BY DEF RecordCoherence
  <2>. QED
    BY <1>14, <2>1 DEF Gameplay, Coherent, RecordsOK
<1>15. CASE UNCHANGED records
  BY <1>15 DEF RecordCoherence, Coherent, records
<1>. QED
  BY <1>1, <1>2, <1>3, <1>4, <1>5, <1>6, <1>7, <1>8, <1>9, <1>10, <1>11, <1>12, 
     <1>13, <1>14, <1>15
     DEF Next, Continue, Worker, Demand, CallAfterStop, vars, control, demand, records, 
         budgets, Gameplay, Step, AdjustDependencies, AdjustReturn, ManifestFailed, 
         ManifestArrived, BootstrapRequest, BootstrapDone, CompletionsDone, StartDone, 
         AdmitDone, EvictDone, StartSkipped, AdmitSkipped, EvictSkipped, RequestContent, 
         ReleaseContent, PinContent, UnpinContent, WorkerPrepare, WorkerPublish

\* A step that neither brings a unit into the world nor takes one out of it.
SameResidents ==
    /\ \A v \in Units : residency'[v] = "Resident" <=> residency[v] = "Resident"
    /\ phase' = "stopped" <=> phase = "stopped"

\* The only steps that move a unit in or out of the world.
MovesResident ==
    \/ \E u \in Units : AdmitCommitted(u) \/ EvictForgotten(u) \/ EvictDestroyed(u)
    \/ Stop

\* Every other step leaves the resident units alone: in particular, a cache
\* entry dropped from a record with a root does not.
LEMMA OthersKeepResidents ==
    ASSUME TypeOK, RecordCoherence, [Next]_vars, ~MovesResident
    PROVE  SameResidents
<1>. USE ConstantTypes DEF TypeOK
<1>1. CASE Step
  <2>1. phase # "stopped" /\ phase' # "stopped"
    BY <1>1 DEF Step, ControlOK
  <2>. QED
    BY <1>1, <2>1 DEF Step, SameResidents, records
<1>2. CASE AdjustDependencies
  <2>1. phase # "stopped" /\ phase' # "stopped"
    BY <1>2 DEF AdjustDependencies, ControlOK
  <2>. QED
    BY <1>2, <2>1 DEF AdjustDependencies, SameResidents, records
<1>3. CASE AdjustReturn
  <2>1. phase # "stopped" /\ phase' # "stopped"
    BY <1>3 DEF AdjustReturn, ControlOK
  <2>. QED
    BY <1>3, <2>1 DEF AdjustReturn, SameResidents, records
<1>4. CASE ManifestFailed
  <2>1. phase # "stopped" /\ phase' # "stopped"
    BY <1>4 DEF ManifestFailed, Processing, ControlOK
  <2>. QED
    BY <1>4, <2>1 DEF ManifestFailed, SameResidents, records
<1>5. CASE ManifestArrived
  <2>1. phase # "stopped" /\ phase' # "stopped"
    BY <1>5 DEF ManifestArrived, Processing, ControlOK
  <2>. QED
    BY <1>5, <2>1 DEF ManifestArrived, SameResidents, records
<1>6. CASE BootstrapRequest
  <2>1. phase # "stopped" /\ phase' # "stopped"
    BY <1>6 DEF BootstrapRequest, Request, EnterAdjust, ControlOK
  <2>. QED
    BY <1>6, <2>1 DEF BootstrapRequest, SameResidents, records
<1>7. CASE BootstrapDone
  <2>1. phase # "stopped" /\ phase' # "stopped"
    BY <1>7 DEF BootstrapDone, ControlOK
  <2>. QED
    BY <1>7, <2>1 DEF BootstrapDone, SameResidents, records
<1>8. CASE CompletionDiscarded
  <2>1. phase # "stopped" /\ phase' # "stopped"
    BY <1>8 DEF CompletionDiscarded, Processing, ControlOK
  <2>2. Completion \in Task /\ Completion.unit # ManifestUnit
    BY <1>8, CompletionIsTask DEF CompletionDiscarded, Processing, Awaited
  <2>3. Completion.unit \in Units
    BY <2>2 DEF Task
  <2>. QED
    BY <1>8, <2>1, <2>3 DEF CompletionDiscarded, SameResidents, RecordsOK, Awaited
<1>9. CASE CompletionFailed
  <2>1. phase # "stopped" /\ phase' # "stopped"
    BY <1>9 DEF CompletionFailed, Processing, ControlOK
  <2>2. Completion \in Task /\ Completion.unit # ManifestUnit
    BY <1>9, CompletionIsTask DEF CompletionFailed, Processing, Awaited
  <2>3. Completion.unit \in Units
    BY <2>2 DEF Task
  <2>. QED
    BY <1>9, <2>1, <2>3 DEF CompletionFailed, SameResidents, RecordsOK, Awaited
<1>10. CASE CompletionAccepted
  <2>1. phase # "stopped" /\ phase' # "stopped"
    BY <1>10 DEF CompletionAccepted, Processing, ControlOK
  <2>2. Completion \in Task /\ Completion.unit # ManifestUnit
    BY <1>10, CompletionIsTask DEF CompletionAccepted, Processing, Awaited
  <2>3. Completion.unit \in Units
    BY <2>2 DEF Task
  <2>. QED
    BY <1>10, <2>1, <2>3 DEF CompletionAccepted, SameResidents, RecordsOK, Awaited, RecordCoherence, Coherent
<1>11. CASE CompletionsDone
  <2>1. phase # "stopped" /\ phase' # "stopped"
    BY <1>11 DEF CompletionsDone, ControlOK
  <2>. QED
    BY <1>11, <2>1 DEF CompletionsDone, SameResidents, records
<1>12. CASE StartDone
  <2>1. phase # "stopped" /\ phase' # "stopped"
    BY <1>12 DEF StartDone, ControlOK
  <2>. QED
    BY <1>12, <2>1 DEF StartDone, SameResidents, records
<1>13. CASE AdmitDone
  <2>1. phase # "stopped" /\ phase' # "stopped"
    BY <1>13 DEF AdmitDone, ControlOK
  <2>. QED
    BY <1>13, <2>1 DEF AdmitDone, SameResidents, records
<1>14. CASE EvictDone
  <2>1. phase # "stopped" /\ phase' # "stopped"
    BY <1>14 DEF EvictDone, ControlOK
  <2>. QED
    BY <1>14, <2>1 DEF EvictDone, SameResidents, records
<1>15. ASSUME NEW u \in Units, StartUndesired(u) PROVE SameResidents
  <2>1. phase # "stopped" /\ phase' # "stopped"
    BY <1>15 DEF StartUndesired, Starting, ControlOK
  <2>. QED
    BY <1>15, <2>1 DEF StartUndesired, SameResidents, RecordsOK
<1>16. ASSUME NEW u \in Units, StartSkipped(u) PROVE SameResidents
  <2>1. phase # "stopped" /\ phase' # "stopped"
    BY <1>16 DEF StartSkipped, Starting, ControlOK
  <2>. QED
    BY <1>16, <2>1 DEF StartSkipped, SameResidents, records
<1>17. ASSUME NEW u \in Units, StartDeferred(u) PROVE SameResidents
  <2>1. phase # "stopped" /\ phase' # "stopped"
    BY <1>17 DEF StartDeferred, Starting, ControlOK
  <2>. QED
    BY <1>17, <2>1 DEF StartDeferred, SameResidents, RecordsOK, Queued, Submit
<1>18. ASSUME NEW u \in Units, StartSubmitted(u) PROVE SameResidents
  <2>1. phase # "stopped" /\ phase' # "stopped"
    BY <1>18 DEF StartSubmitted, Starting, ControlOK
  <2>. QED
    BY <1>18, <2>1 DEF StartSubmitted, SameResidents, RecordsOK, Queued, Submit
<1>19. ASSUME NEW u \in Units, AdmitSkipped(u) PROVE SameResidents
  <2>1. phase # "stopped" /\ phase' # "stopped"
    BY <1>19 DEF AdmitSkipped, Admitting, ControlOK
  <2>. QED
    BY <1>19, <2>1 DEF AdmitSkipped, SameResidents, records
<1>20. ASSUME NEW u \in Units, AdmitPrepares(u) PROVE SameResidents
  <2>1. phase # "stopped" /\ phase' # "stopped"
    BY <1>20 DEF AdmitPrepares, Admitting, ControlOK
  <2>. QED
    BY <1>20, <2>1 DEF AdmitPrepares, SameResidents, RecordsOK, Admissible, Submit
<1>21. ASSUME NEW u \in Units, AdmitRejected(u) PROVE SameResidents
  <2>1. phase # "stopped" /\ phase' # "stopped"
    BY <1>21 DEF AdmitRejected, Admitting, ControlOK
  <2>. QED
    BY <1>21, <2>1 DEF AdmitRejected, SameResidents, RecordsOK, Admissible
<1>22. ASSUME NEW u \in Units, EvictSkipped(u) PROVE SameResidents
  <2>1. phase # "stopped" /\ phase' # "stopped"
    BY <1>22 DEF EvictSkipped, Evicting, ControlOK
  <2>. QED
    BY <1>22, <2>1 DEF EvictSkipped, SameResidents, records
<1>23. ASSUME NEW u \in Units, RequestContent(u) PROVE SameResidents
  <2>1. phase # "stopped" /\ phase' # "stopped"
    BY <1>23 DEF RequestContent, Callable, EnterAdjust, Request, ControlOK
  <2>. QED
    BY <1>23, <2>1 DEF RequestContent, SameResidents, records
<1>24. ASSUME NEW u \in Units, ReleaseContent(u) PROVE SameResidents
  <2>1. phase # "stopped" /\ phase' # "stopped"
    BY <1>24 DEF ReleaseContent, Callable, EnterAdjust, ControlOK
  <2>. QED
    BY <1>24, <2>1 DEF ReleaseContent, SameResidents, records
<1>25. ASSUME NEW u \in Units, PinContent(u) PROVE SameResidents
  <2>1. phase # "stopped" /\ phase' # "stopped"
    BY <1>25 DEF PinContent, Callable, EnterAdjust, ControlOK
  <2>. QED
    BY <1>25, <2>1 DEF PinContent, SameResidents, records
<1>26. ASSUME NEW u \in Units, UnpinContent(u) PROVE SameResidents
  <2>1. phase # "stopped" /\ phase' # "stopped"
    BY <1>26 DEF UnpinContent, Callable, EnterAdjust, ControlOK
  <2>. QED
    BY <1>26, <2>1 DEF UnpinContent, SameResidents, records
<1>27. ASSUME NEW u \in Units, RetryContent(u) PROVE SameResidents
  <2>1. phase # "stopped" /\ phase' # "stopped"
    BY <1>27 DEF RetryContent, Callable, ControlOK
  <2>. QED
    BY <1>27, <2>1 DEF RetryContent, SameResidents, RecordsOK
<1>28. CASE UNCHANGED <<phase, residency>>
  BY <1>28 DEF SameResidents
<1>. QED
  BY <1>1, <1>2, <1>3, <1>4, <1>5, <1>6, <1>7, <1>8, <1>9, <1>10, <1>11, <1>12, 
     <1>13, <1>14, <1>15, <1>16, <1>17, <1>18, <1>19, <1>20, <1>21, <1>22, <1>23, 
     <1>24, <1>25, <1>26, <1>27, <1>28
     DEF MovesResident, Next, Continue, Worker, Demand, CallAfterStop, vars, control, demand, records, 
         budgets, Gameplay, Stop, AdmitCommitted, EvictForgotten, EvictDestroyed, 
         WorkerPrepare, WorkerPublish

\* Dependencies are units of the package.
LEMMA DependenciesAreUnits ==
    ASSUME NEW v \in Units
    PROVE  DependenciesOf(v) \subseteq Units
<1>. SUFFICES ASSUME NEW d \in DependenciesOf(v) PROVE d \in Units
  OBVIOUS
<1>1. PICK j \in DOMAIN Dependencies[v] : d = Dependencies[v][j]
  BY DEF DependenciesOf, Range
<1>2. Dependencies[v] \in Seq(Units)
  BY ConstantTypes
<1>. QED
  BY <1>1, <1>2

\* Admission waits for the dependencies and eviction for the dependents, so the
\* resident units stay closed under dependency.
LEMMA ClosureStep ==
    ASSUME TypeOK, RecordCoherence, DependencyClosure, [Next]_vars
    PROVE  DependencyClosure'
<1>. SUFFICES ASSUME NEW v \in Units, residency'[v] = "Resident",
                     NEW d \in DependenciesOf(v)
              PROVE  residency'[d] = "Resident"
  BY DEF DependencyClosure, DependenciesResident
<1>1. d \in Units
  BY DependenciesAreUnits
<1>2. ASSUME residency[v] = "Resident" PROVE residency[d] = "Resident"
  BY <1>2 DEF DependencyClosure, DependenciesResident
<1>3. CASE ~MovesResident
  BY <1>1, <1>2, <1>3, OthersKeepResidents DEF SameResidents
<1>4. ASSUME NEW u \in Units, AdmitCommitted(u) PROVE residency'[d] = "Resident"
  <2>1. \A e \in DependenciesOf(u) : residency[e] = "Resident"
    BY <1>4 DEF AdmitCommitted, Admissible, DependenciesResident
  <2>2. residency[d] = "Resident"
    BY <1>2, <1>4, <2>1 DEF AdmitCommitted, TypeOK, RecordsOK
  <2>. QED
    BY <1>1, <1>4, <2>2 DEF AdmitCommitted, TypeOK, RecordsOK
<1>5. ASSUME NEW u \in Units, EvictForgotten(u) \/ EvictDestroyed(u)
      PROVE  residency'[d] = "Resident"
  <2>1. /\ Evictable(u) /\ residency'[u] # "Resident"
        /\ \A w \in Units \ {u} : residency'[w] = residency[w]
    BY <1>5 DEF EvictForgotten, EvictDestroyed, TypeOK, RecordsOK
  <2>2. v # u /\ residency[v] = "Resident"
    BY <2>1
  <2>3. d # u
    BY <2>1, <2>2 DEF Evictable, HasResidentDependent, Dependents
  <2>. QED
    BY <1>1, <1>2, <2>1, <2>2, <2>3
<1>6. CASE Stop
  BY <1>6 DEF Stop
<1>. QED
  BY <1>3, <1>4, <1>5, <1>6 DEF MovesResident

\* The inductive invariant: closure alone does not survive a cache eviction
\* unless a resident record is known to have a root.
IndInv == TypeOK /\ RecordCoherence /\ DependencyClosure

\* The inductive invariant of the service.
THEOREM IndInvHolds == Spec => []IndInv
<1>1. Init => IndInv
  <2>1. Init => RecordCoherence /\ DependencyClosure
    BY DEF Init, RecordCoherence, Coherent, DependencyClosure
  <2>. QED
    BY <2>1, TypeOKInit DEF IndInv
<1>2. IndInv /\ [Next]_vars => IndInv'
  BY ControlStep, DemandStep, RecordsStep, QueuesStep, CoherenceStep, ClosureStep
     DEF IndInv, TypeOK
<1>. QED
  BY <1>1, <1>2, PTL DEF Spec

\* Whatever callers, workers, gameplay and limits do, a resident unit always has
\* its dependencies resident.
THEOREM ClosureHolds == Spec => []DependencyClosure
<1>1. IndInv => DependencyClosure
  BY DEF IndInv
<1>. QED
  BY <1>1, IndInvHolds, PTL

\* Every record keeps its root, cached bytes and document coherent with its
\* residency: no admission decodes bytes that are gone.
THEOREM CoherenceHolds == Spec => []RecordCoherence
<1>1. IndInv => RecordCoherence
  BY DEF IndInv
<1>. QED
  BY <1>1, IndInvHolds, PTL

\* The service implements dependency-ordered residency.
THEOREM RefinesResidency == Spec => ResidencySpec
<1>1. Init => Residency!Init
  BY DEF Init, Residency!Init
<1>2. ASSUME IndInv, [Next]_vars
      PROVE  [Residency!Next]_<<{u \in Units : residency[u] = "Resident"}, phase # "stopped">>
  <2>. DEFINE world == {u \in Units : residency[u] = "Resident"}
  <2>1. CASE ~MovesResident
    <3>1. SameResidents
      BY <1>2, <2>1, OthersKeepResidents DEF IndInv
    <3>. QED
      BY <3>1 DEF SameResidents
  <2>2. ASSUME NEW u \in Units, AdmitCommitted(u) PROVE Residency!Admit(u)
    <3>1. /\ phase # "stopped" /\ phase' # "stopped" /\ residency[u] = "Available"
          /\ DependenciesResident(u) /\ residency' = [residency EXCEPT ![u] = "Resident"]
      BY <2>2 DEF AdmitCommitted, Admitting, Admissible
    <3>2. world' = world \cup {u}
      BY <1>2, <3>1 DEF IndInv, TypeOK, RecordsOK
    <3>3. DependenciesOf(u) \subseteq world
      BY <3>1, DependenciesAreUnits DEF DependenciesResident
    <3>. QED
      BY <3>1, <3>2, <3>3 DEF Residency!Admit
  <2>3. ASSUME NEW u \in Units, EvictForgotten(u) \/ EvictDestroyed(u)
        PROVE  Residency!Evict(u)
    <3>1. /\ phase # "stopped" /\ phase' # "stopped" /\ Evictable(u)
          /\ residency'[u] # "Resident"
          /\ \A w \in Units \ {u} : residency'[w] = residency[w]
      BY <1>2, <2>3 DEF EvictForgotten, EvictDestroyed, Evicting, IndInv, TypeOK, RecordsOK
    <3>2. world' = world \ {u} /\ u \in world
      BY <3>1 DEF Evictable
    <3>3. \A k \in world : u \notin DependenciesOf(k)
      BY <3>1 DEF Evictable, HasResidentDependent, Dependents
    <3>. QED
      BY <3>1, <3>2, <3>3 DEF Residency!Evict
  <2>4. CASE Stop
    BY <2>4 DEF Stop, Residency!Stop, Residency!Next
  <2>. QED
    BY <2>1, <2>2, <2>3, <2>4 DEF MovesResident, Residency!Next
<1>. QED
  BY <1>1, <1>2, IndInvHolds, PTL DEF Spec, ResidencySpec, Residency!Spec

-----------------------------------------------------------------------------
(* In-flight slots.                                                        *)

\* How many completions of the batch still hold their slot.
BatchLeft ==
    IF phase = "process" /\ cursor <= Len(batch) THEN Len(batch) - cursor + 1
    ELSE IF Bootstrapping /\ cursor < Len(batch) THEN Len(batch) - cursor
    ELSE 0

\* The slots in use, counted; StartRequests never returns into the manifest's
\* completion.
SlotsExact ==
    /\ inFlight = Len(jobs) + Len(completions) + BatchLeft
    /\ inFlight <= MaximumInFlight
    /\ phase = "start" => resume # "bootstrap"

\* The tasks outstanding, counted by where they are.
LEMMA OutstandingLength ==
    ASSUME TypeOK
    PROVE  Len(Outstanding) = Len(jobs) + Len(completions) + BatchLeft
<1>1. /\ jobs \in Seq(Task) /\ completions \in Seq(Task)
      /\ batch \in Seq(Task) /\ cursor \in Nat \ {0}
  BY DEF TypeOK, ControlOK, QueuesOK
<1>2. Unprocessed \in Seq(Task) /\ Len(Unprocessed) = BatchLeft
  BY <1>1 DEF Unprocessed, BatchLeft, Bootstrapping
<1>. HIDE DEF Unprocessed, BatchLeft
<1>3. jobs \o completions \in Seq(Task) /\ Len(jobs \o completions) = Len(jobs) + Len(completions)
  BY <1>1, ConcatProperties
<1>4. Len((jobs \o completions) \o Unprocessed) = Len(jobs \o completions) + Len(Unprocessed)
  BY <1>2, <1>3, ConcatProperties
<1>. QED
  BY <1>2, <1>3, <1>4, Zenon DEF Outstanding

\* Every step that takes a slot adds a job, and every step that gives one back
\* processes a completion.
LEMMA SlotsStep ==
    ASSUME TypeOK, SlotsExact, [Next]_vars
    PROVE  SlotsExact'
<1>. USE DEF TypeOK, ControlOK, QueuesOK, SlotsExact
<1>1. CASE Step
  <2>. DEFINE count == Min({MaximumCompletionsPerTick, Len(completions)})
  <2>1. count \in 0..Len(completions)
    BY MinOfLimits
  <2>2. /\ batch' = SubSeq(completions, 1, count)
        /\ completions' = SubSeq(completions, count + 1, Len(completions))
    BY <1>1 DEF Step
  <2>3. /\ phase = "idle" /\ phase' = "process" /\ cursor' = 1
        /\ jobs' = jobs /\ inFlight' = inFlight
    BY <1>1 DEF Step
  <2>. HIDE DEF count
  <2>4. Len(batch') = count /\ Len(completions') = Len(completions) - count
    BY <2>1, <2>2
  <2>5. BatchLeft = 0 /\ BatchLeft' = count
    BY <2>1, <2>3, <2>4 DEF BatchLeft, Bootstrapping
  <2>6. inFlight = Len(jobs) + Len(completions)
    BY <2>5
  <2>7. inFlight' = Len(jobs') + Len(completions') + BatchLeft'
    BY <2>1, <2>3, <2>4, <2>5, <2>6
  <2>. QED
    BY <2>3, <2>7
<1>2. CASE AdjustDependencies
  <2>1. BatchLeft' = BatchLeft /\ UNCHANGED <<inFlight, jobs, completions>>
    BY <1>2 DEF AdjustDependencies, BatchLeft, Bootstrapping, budgets
  <2>. QED
    BY <1>2, <2>1 DEF AdjustDependencies
<1>3. CASE AdjustReturn
  <2>1. BatchLeft' = BatchLeft /\ UNCHANGED <<inFlight, jobs, completions>>
    BY <1>3 DEF AdjustReturn, BatchLeft, Bootstrapping, budgets
  <2>. QED
    BY <1>3, <2>1 DEF AdjustReturn
<1>4. CASE ManifestFailed
  <2>1. /\ phase = "process" /\ cursor <= Len(batch)
        /\ inFlight' = IF inFlight # 0 THEN inFlight - 1 ELSE 0
        /\ UNCHANGED <<jobs, completions>>
    BY <1>4 DEF ManifestFailed, Processing
  <2>2. BatchLeft = Len(batch) - cursor + 1 /\ inFlight # 0
    BY <2>1 DEF BatchLeft
  <2>3. BatchLeft' = Len(batch) - cursor
    BY <1>4, <2>1 DEF ManifestFailed, BatchLeft, Bootstrapping
  <2>4. phase' # "start"
    BY <1>4, <2>1 DEF ManifestFailed
  <2>. QED
    BY <2>1, <2>2, <2>3, <2>4, ConstantTypes
<1>5. CASE ManifestArrived
  <2>1. /\ phase = "process" /\ cursor <= Len(batch)
        /\ inFlight' = IF inFlight # 0 THEN inFlight - 1 ELSE 0
        /\ UNCHANGED <<jobs, completions>>
    BY <1>5 DEF ManifestArrived, Processing
  <2>2. BatchLeft = Len(batch) - cursor + 1 /\ inFlight # 0
    BY <2>1 DEF BatchLeft
  <2>3. BatchLeft' = Len(batch) - cursor
    BY <1>5, <2>1 DEF ManifestArrived, BatchLeft, Bootstrapping
  <2>4. phase' # "start"
    BY <1>5, <2>1 DEF ManifestArrived
  <2>. QED
    BY <2>1, <2>2, <2>3, <2>4, ConstantTypes
<1>6. CASE BootstrapRequest
  <2>1. BatchLeft' = BatchLeft /\ UNCHANGED <<inFlight, jobs, completions>>
    BY <1>6 DEF BootstrapRequest, BatchLeft, Bootstrapping, budgets, Request, EnterAdjust
  <2>. QED
    BY <1>6, <2>1 DEF BootstrapRequest, Request, EnterAdjust
<1>7. CASE BootstrapDone
  <2>1. BatchLeft' = BatchLeft /\ UNCHANGED <<inFlight, jobs, completions>>
    BY <1>7 DEF BootstrapDone, BatchLeft, Bootstrapping, budgets
  <2>. QED
    BY <1>7, <2>1 DEF BootstrapDone
<1>8. CASE CompletionDiscarded
  <2>1. /\ phase = "process" /\ cursor <= Len(batch)
        /\ inFlight' = IF inFlight # 0 THEN inFlight - 1 ELSE 0
        /\ UNCHANGED <<jobs, completions>>
    BY <1>8 DEF CompletionDiscarded, Processing
  <2>2. BatchLeft = Len(batch) - cursor + 1 /\ inFlight # 0
    BY <2>1 DEF BatchLeft
  <2>3. BatchLeft' = Len(batch) - cursor
    BY <1>8, <2>1 DEF CompletionDiscarded, BatchLeft, Bootstrapping
  <2>4. phase' # "start"
    BY <1>8, <2>1 DEF CompletionDiscarded
  <2>. QED
    BY <2>1, <2>2, <2>3, <2>4, ConstantTypes
<1>9. CASE CompletionFailed
  <2>1. /\ phase = "process" /\ cursor <= Len(batch)
        /\ inFlight' = IF inFlight # 0 THEN inFlight - 1 ELSE 0
        /\ UNCHANGED <<jobs, completions>>
    BY <1>9 DEF CompletionFailed, Processing
  <2>2. BatchLeft = Len(batch) - cursor + 1 /\ inFlight # 0
    BY <2>1 DEF BatchLeft
  <2>3. BatchLeft' = Len(batch) - cursor
    BY <1>9, <2>1 DEF CompletionFailed, BatchLeft, Bootstrapping
  <2>4. phase' # "start"
    BY <1>9, <2>1 DEF CompletionFailed
  <2>. QED
    BY <2>1, <2>2, <2>3, <2>4, ConstantTypes
<1>10. CASE CompletionAccepted
  <2>1. /\ phase = "process" /\ cursor <= Len(batch)
        /\ inFlight' = IF inFlight # 0 THEN inFlight - 1 ELSE 0
        /\ UNCHANGED <<jobs, completions>>
    BY <1>10 DEF CompletionAccepted, Processing
  <2>2. BatchLeft = Len(batch) - cursor + 1 /\ inFlight # 0
    BY <2>1 DEF BatchLeft
  <2>3. BatchLeft' = Len(batch) - cursor
    <3>1. batch' = batch \/ batch' = [batch EXCEPT ![cursor].outcome = "taken"]
      BY <1>10 DEF CompletionAccepted
    <3>2. cursor \in DOMAIN batch
      BY <2>1
    <3>3. Len([batch EXCEPT ![cursor].outcome = "taken"]) = Len(batch)
      BY <3>2, UpdateIsSeq, Zenon
    <3>4. Len(batch') = Len(batch)
      BY <3>1, <3>3
    <3>5. cursor' = cursor + 1 /\ phase' = "process"
      BY <1>10, <2>1 DEF CompletionAccepted
    <3>. QED
      BY <2>1, <3>4, <3>5 DEF BatchLeft, Bootstrapping
  <2>4. phase' # "start"
    BY <1>10, <2>1 DEF CompletionAccepted
  <2>. QED
    BY <2>1, <2>2, <2>3, <2>4, ConstantTypes
<1>11. CASE CompletionsDone
  <2>1. BatchLeft' = BatchLeft /\ UNCHANGED <<inFlight, jobs, completions>>
    BY <1>11 DEF CompletionsDone, BatchLeft, Bootstrapping, budgets
  <2>. QED
    BY <1>11, <2>1 DEF CompletionsDone
<1>12. CASE StartDone
  <2>1. BatchLeft' = BatchLeft /\ UNCHANGED <<inFlight, jobs, completions>>
    BY <1>12 DEF StartDone, BatchLeft, Bootstrapping, budgets
  <2>. QED
    BY <1>12, <2>1 DEF StartDone
<1>13. CASE AdmitDone
  <2>1. BatchLeft' = BatchLeft /\ UNCHANGED <<inFlight, jobs, completions>>
    BY <1>13 DEF AdmitDone, BatchLeft, Bootstrapping, budgets
  <2>. QED
    BY <1>13, <2>1 DEF AdmitDone
<1>14. CASE EvictDone
  <2>1. BatchLeft' = BatchLeft /\ UNCHANGED <<inFlight, jobs, completions>>
    BY <1>14 DEF EvictDone, BatchLeft, Bootstrapping, budgets
  <2>. QED
    BY <1>14, <2>1 DEF EvictDone
<1>15. CASE Stop
  BY <1>15, ConstantTypes DEF Stop, BatchLeft, Bootstrapping
<1>16. ASSUME NEW u \in Units, StartUndesired(u) PROVE SlotsExact'
  <2>1. BatchLeft' = BatchLeft /\ UNCHANGED <<inFlight, jobs, completions>>
    BY <1>16 DEF StartUndesired, BatchLeft, Bootstrapping
  <2>. QED
    BY <1>16, <2>1 DEF StartUndesired
<1>17. ASSUME NEW u \in Units, StartSkipped(u) PROVE SlotsExact'
  <2>1. BatchLeft' = BatchLeft /\ UNCHANGED <<inFlight, jobs, completions>>
    BY <1>17 DEF StartSkipped, BatchLeft, Bootstrapping, budgets
  <2>. QED
    BY <1>17, <2>1 DEF StartSkipped
<1>18. ASSUME NEW u \in Units, StartDeferred(u) PROVE SlotsExact'
  <2>1. BatchLeft' = BatchLeft /\ UNCHANGED <<inFlight, jobs, completions>>
    BY <1>18 DEF StartDeferred, BatchLeft, Bootstrapping
  <2>. QED
    BY <1>18, <2>1 DEF StartDeferred
<1>19. ASSUME NEW u \in Units, StartSubmitted(u) PROVE SlotsExact'
  <2>1. /\ inFlight < MaximumInFlight /\ inFlight' = inFlight + 1
        /\ UNCHANGED <<phase, resume, batch, cursor, completions>>
    BY <1>19 DEF StartSubmitted, Submittable, Submit
  <2>2. jobs' = Append(jobs, NewTask(u, cached[u]))
    BY <1>19, Zenon DEF StartSubmitted, Submit
  <2>3. Len(jobs') = Len(jobs) + 1
    BY <2>2
  <2>4. BatchLeft' = BatchLeft /\ BatchLeft \in Nat
    BY <2>1 DEF BatchLeft, Bootstrapping
  <2>. QED
    BY <2>1, <2>3, <2>4, ConstantTypes
<1>20. ASSUME NEW u \in Units, AdmitSkipped(u) PROVE SlotsExact'
  <2>1. BatchLeft' = BatchLeft /\ UNCHANGED <<inFlight, jobs, completions>>
    BY <1>20 DEF AdmitSkipped, BatchLeft, Bootstrapping, budgets
  <2>. QED
    BY <1>20, <2>1 DEF AdmitSkipped
<1>21. ASSUME NEW u \in Units, AdmitPrepares(u) PROVE SlotsExact'
  <2>1. /\ inFlight < MaximumInFlight /\ inFlight' = inFlight + 1
        /\ UNCHANGED <<phase, resume, batch, cursor, completions>>
    BY <1>21 DEF AdmitPrepares, Preparable, Submittable, Submit
  <2>2. jobs' = Append(jobs, NewTask(u, TRUE))
    BY <1>21, Zenon DEF AdmitPrepares, Submit
  <2>3. Len(jobs') = Len(jobs) + 1
    BY <2>2
  <2>4. BatchLeft' = BatchLeft /\ BatchLeft \in Nat
    BY <2>1 DEF BatchLeft, Bootstrapping
  <2>. QED
    BY <2>1, <2>3, <2>4, ConstantTypes
<1>22. ASSUME NEW u \in Units, AdmitRejected(u) PROVE SlotsExact'
  <2>1. BatchLeft' = BatchLeft /\ UNCHANGED <<inFlight, jobs, completions>>
    BY <1>22 DEF AdmitRejected, BatchLeft, Bootstrapping
  <2>. QED
    BY <1>22, <2>1 DEF AdmitRejected
<1>23. ASSUME NEW u \in Units, AdmitCommitted(u) PROVE SlotsExact'
  <2>1. BatchLeft' = BatchLeft /\ UNCHANGED <<inFlight, jobs, completions>>
    BY <1>23 DEF AdmitCommitted, BatchLeft, Bootstrapping, budgets
  <2>. QED
    BY <1>23, <2>1 DEF AdmitCommitted
<1>24. ASSUME NEW u \in Units, EvictSkipped(u) PROVE SlotsExact'
  <2>1. BatchLeft' = BatchLeft /\ UNCHANGED <<inFlight, jobs, completions>>
    BY <1>24 DEF EvictSkipped, BatchLeft, Bootstrapping, budgets
  <2>. QED
    BY <1>24, <2>1 DEF EvictSkipped
<1>25. ASSUME NEW u \in Units, EvictForgotten(u) PROVE SlotsExact'
  <2>1. BatchLeft' = BatchLeft /\ UNCHANGED <<inFlight, jobs, completions>>
    BY <1>25 DEF EvictForgotten, BatchLeft, Bootstrapping, budgets
  <2>. QED
    BY <1>25, <2>1 DEF EvictForgotten
<1>26. ASSUME NEW u \in Units, EvictDestroyed(u) PROVE SlotsExact'
  <2>1. BatchLeft' = BatchLeft /\ UNCHANGED <<inFlight, jobs, completions>>
    BY <1>26 DEF EvictDestroyed, BatchLeft, Bootstrapping, budgets
  <2>. QED
    BY <1>26, <2>1 DEF EvictDestroyed
<1>27. ASSUME NEW u \in Units, RequestContent(u) PROVE SlotsExact'
  <2>1. BatchLeft' = BatchLeft /\ UNCHANGED <<inFlight, jobs, completions>>
    BY <1>27 DEF RequestContent, BatchLeft, Bootstrapping, budgets, Callable, Request, EnterAdjust
  <2>. QED
    BY <1>27, <2>1 DEF RequestContent, Callable, Request, EnterAdjust
<1>28. ASSUME NEW u \in Units, ReleaseContent(u) PROVE SlotsExact'
  <2>1. BatchLeft' = BatchLeft /\ UNCHANGED <<inFlight, jobs, completions>>
    BY <1>28 DEF ReleaseContent, BatchLeft, Bootstrapping, budgets, Callable, EnterAdjust
  <2>. QED
    BY <1>28, <2>1 DEF ReleaseContent, Callable, EnterAdjust
<1>29. ASSUME NEW u \in Units, PinContent(u) PROVE SlotsExact'
  <2>1. BatchLeft' = BatchLeft /\ UNCHANGED <<inFlight, jobs, completions>>
    BY <1>29 DEF PinContent, BatchLeft, Bootstrapping, budgets, Callable, EnterAdjust
  <2>. QED
    BY <1>29, <2>1 DEF PinContent, Callable, EnterAdjust
<1>30. ASSUME NEW u \in Units, UnpinContent(u) PROVE SlotsExact'
  <2>1. BatchLeft' = BatchLeft /\ UNCHANGED <<inFlight, jobs, completions>>
    BY <1>30 DEF UnpinContent, BatchLeft, Bootstrapping, budgets, Callable, EnterAdjust
  <2>. QED
    BY <1>30, <2>1 DEF UnpinContent, Callable, EnterAdjust
<1>31. ASSUME NEW u \in Units, RetryContent(u) PROVE SlotsExact'
  <2>1. BatchLeft' = BatchLeft /\ UNCHANGED <<inFlight, jobs, completions>>
    BY <1>31 DEF RetryContent, BatchLeft, Bootstrapping, budgets, Callable
  <2>. QED
    BY <1>31, <2>1 DEF RetryContent, Callable
<1>32. ASSUME NEW u \in Units, Gameplay(u) PROVE SlotsExact'
  <2>1. BatchLeft' = BatchLeft /\ UNCHANGED <<inFlight, jobs, completions>>
    BY <1>32 DEF Gameplay, BatchLeft, Bootstrapping, budgets, control
  <2>. QED
    BY <1>32, <2>1 DEF Gameplay, control
<1>33. ASSUME NEW k \in 1..WorkerCount, WorkerPrepare(k) PROVE SlotsExact'
  <2>1. PICK o \in Outcomes(jobs[k]) : jobs' = [jobs EXCEPT ![k].outcome = o]
    BY <1>33 DEF WorkerPrepare
  <2>2. k \in DOMAIN jobs /\ o \in {"running", "document", "deferred", "error", "taken"}
    BY <1>33 DEF WorkerPrepare, Running, Outcomes
  <2>3. Len(jobs') = Len(jobs)
    BY <2>1, <2>2, UpdateIsSeq
  <2>4. UNCHANGED <<phase, resume, batch, cursor, completions, inFlight>>
    BY <1>33 DEF WorkerPrepare, control, budgets
  <2>. QED
    BY <2>3, <2>4 DEF BatchLeft, Bootstrapping
<1>34. ASSUME NEW k \in 1..WorkerCount, WorkerPublish(k) PROVE SlotsExact'
  <2>1. k \in DOMAIN jobs
    BY <1>34 DEF WorkerPublish, Running
  <2>2. Len(completions') = Len(completions) + 1
    BY <1>34 DEF WorkerPublish
  <2>3. Len(jobs') = Len(jobs) - 1
    BY <1>34, <2>1, RemoveIsSeq DEF WorkerPublish
  <2>4. UNCHANGED <<phase, resume, batch, cursor, inFlight>>
    BY <1>34 DEF WorkerPublish, control
  <2>5. BatchLeft' = BatchLeft
    BY <2>4 DEF BatchLeft, Bootstrapping
  <2>. QED
    BY <2>2, <2>3, <2>4, <2>5
<1>35. CASE UNCHANGED <<phase, resume, batch, cursor, jobs, completions, inFlight>>
  BY <1>35 DEF BatchLeft, Bootstrapping
<1>. QED
  BY <1>1, <1>2, <1>3, <1>4, <1>5, <1>6, <1>7, <1>8, <1>9, <1>10, <1>11, <1>12, 
     <1>13, <1>14, <1>15, <1>16, <1>17, <1>18, <1>19, <1>20, <1>21, <1>22, <1>23, 
     <1>24, <1>25, <1>26, <1>27, <1>28, <1>29, <1>30, <1>31, <1>32, <1>33, <1>34, 
     <1>35
     DEF Next, Continue, Worker, Demand, CallAfterStop, vars, control, demand, records, 
         budgets, Gameplay

\* InFlight is exactly what workers, queue and unprocessed completions hold, and
\* never exceeds MaximumInFlight: no slot leaks, none is given back twice.
THEOREM InFlightHolds == Spec => []InFlightExact
<1>1. Init => SlotsExact
  BY ConstantTypes DEF Init, SlotsExact, BatchLeft, Bootstrapping
<1>2. TypeOK /\ SlotsExact /\ [Next]_vars => SlotsExact'
  BY SlotsStep
<1>3. TypeOK /\ SlotsExact => InFlightExact
  BY OutstandingLength DEF SlotsExact, InFlightExact
<1>. QED
  BY <1>1, <1>2, <1>3, TypeCorrect, PTL DEF Spec

-----------------------------------------------------------------------------
(* What a step does to jobs, completions and the unprocessed batch.        *)

\* The step leaves them and the counters fed by them alone.
QueueFrame ==
    /\ UNCHANGED <<jobs, completions, reserved, completionBytes>>
    /\ Unprocessed' = Unprocessed

\* The step processes the first unprocessed completion.
Processes ==
    /\ Processing
    /\ UNCHANGED <<jobs, completions, completionBytes>>
    /\ Completion \in Task
    /\ Unprocessed' \in Seq(Task)
    /\ Unprocessed = <<Completion>> \o Unprocessed'

\* The step submits a job for a unit whose payload fits.
Submits(u, t) ==
    /\ t = NewTask(u, t.hit) /\ t \in Task
    /\ jobs' = Append(jobs, t)
    /\ FitsCompletions(u)
    /\ reserved' = reserved + CompressedBytes[u]
    /\ UNCHANGED <<completions, completionBytes>>
    /\ Unprocessed' = Unprocessed

\* The unprocessed part of the batch is a sequence of tasks.
LEMMA UnprocessedType ==
    ASSUME TypeOK
    PROVE  Unprocessed \in Seq(Task)
BY DEF TypeOK, ControlOK, Unprocessed

\* Processing moves the cursor past the completion.
LEMMA ProcessingTakesOne ==
    ASSUME TypeOK, Processing, batch' \in Seq(Task), Len(batch') = Len(batch),
           \A i \in DOMAIN batch : i # cursor => batch'[i] = batch[i],
           Unprocessed' = SubSeq(batch', cursor + 1, Len(batch')),
           UNCHANGED <<jobs, completions, completionBytes>>
    PROVE  Processes
<1>1. /\ phase = "process" /\ cursor <= Len(batch)
      /\ batch \in Seq(Task) /\ cursor \in Nat \ {0}
  BY DEF Processing, TypeOK, ControlOK
<1>2. Completion \in Task
  BY <1>1, CompletionIsTask DEF TypeOK
<1>3. Unprocessed = SubSeq(batch, cursor, Len(batch))
  BY <1>1 DEF Unprocessed
<1>. DEFINE after == SubSeq(batch, cursor + 1, Len(batch))
<1>4. after \in Seq(Task) /\ SubSeq(batch', cursor + 1, Len(batch')) = after
  <2>. DEFINE other == SubSeq(batch', cursor + 1, Len(batch'))
  <2>1. other \in Seq(Task) /\ after \in Seq(Task) /\ Len(other) = Len(after)
    BY <1>1
  <2>2. \A i \in 1..Len(other) : other[i] = after[i]
    BY <1>1
  <2>. HIDE DEF other, after
  <2>3. other = after
    BY <2>1, <2>2, SeqEqual
  <2>. QED
    BY <2>1, <2>3 DEF other
<1>5. SubSeq(batch, cursor, Len(batch)) = <<batch[cursor]>> \o after
  <2>1. cursor \in 1..Len(batch) /\ Len(batch) \in cursor..Len(batch)
    BY <1>1
  <2>. QED
    BY <1>1, <2>1, SubSeqRecursiveFirst, Zenon
<1>6. Unprocessed' = after
  BY <1>4, Zenon
<1>7. Unprocessed = <<Completion>> \o Unprocessed'
  BY <1>3, <1>5, <1>6, Zenon DEF Completion
<1>. QED
  BY <1>2, <1>4, <1>6, <1>7, Zenon DEF Processes

\* Every step of the service is one of seven.
LEMMA QueueSteps ==
    ASSUME TypeOK, SlotsExact, [Next]_vars
    PROVE  \/ QueueFrame \/ Step \/ Processes \/ Stop
           \/ \E u \in Units, t \in Task : Submits(u, t)
           \/ \E k \in 1..WorkerCount : Worker(k)
<1>. USE DEF TypeOK, ControlOK, SlotsExact
<1>1. CASE AdjustReturn
  <2>1. Unprocessed' = Unprocessed
    BY <1>1 DEF AdjustReturn, Unprocessed, Bootstrapping
  <2>. QED
    BY <1>1, <2>1 DEF AdjustReturn, QueueFrame, budgets
<1>2. CASE BootstrapRequest
  <2>1. Unprocessed' = Unprocessed
    BY <1>2 DEF BootstrapRequest, Request, EnterAdjust, Unprocessed, Bootstrapping
  <2>. QED
    BY <1>2, <2>1 DEF BootstrapRequest, QueueFrame, budgets
<1>3. CASE BootstrapDone
  <2>1. Unprocessed' = Unprocessed
    BY <1>3 DEF BootstrapDone, Unprocessed, Bootstrapping
  <2>. QED
    BY <1>3, <2>1 DEF BootstrapDone, QueueFrame, budgets
<1>4. CASE CompletionsDone
  <2>1. phase = "process" /\ cursor > Len(batch) /\ phase' \in {"start", "idle"}
    BY <1>4 DEF CompletionsDone
  <2>2. Unprocessed = <<>>
    BY <2>1, SubSeqEmpty DEF Unprocessed
  <2>3. Unprocessed' = <<>>
    BY <2>1 DEF Unprocessed, Bootstrapping
  <2>. QED
    BY <1>4, <2>2, <2>3 DEF CompletionsDone, QueueFrame, budgets
<1>5. CASE StartDone
  <2>1. Unprocessed' = Unprocessed
    BY <1>5 DEF StartDone, Unprocessed, Bootstrapping
  <2>. QED
    BY <1>5, <2>1 DEF StartDone, QueueFrame, budgets
<1>6. CASE AdmitDone
  <2>1. Unprocessed' = Unprocessed
    BY <1>6 DEF AdmitDone, Unprocessed, Bootstrapping
  <2>. QED
    BY <1>6, <2>1 DEF AdmitDone, QueueFrame, budgets
<1>7. CASE EvictDone
  <2>1. Unprocessed' = Unprocessed
    BY <1>7 DEF EvictDone, Unprocessed, Bootstrapping
  <2>. QED
    BY <1>7, <2>1 DEF EvictDone, QueueFrame, budgets
<1>8. ASSUME NEW u \in Units, Demand(u) PROVE QueueFrame
  <2>1. /\ phase = "idle" /\ phase' \in {"idle", "adjust", "start"}
        /\ phase' = "adjust" => resume' = "idle"
    BY <1>8 DEF Demand, RequestContent, ReleaseContent, PinContent, UnpinContent,
                RetryContent, Callable, Request, EnterAdjust
  <2>2. Unprocessed' = Unprocessed
    BY <2>1 DEF Unprocessed, Bootstrapping
  <2>. QED
    BY <1>8, <2>2 DEF Demand, RequestContent, ReleaseContent, PinContent, UnpinContent,
                      RetryContent, QueueFrame, budgets
<1>9. CASE ManifestFailed
  <2>1. Unprocessed' = SubSeq(batch', cursor + 1, Len(batch'))
    BY <1>9 DEF ManifestFailed, Processing, Unprocessed
  <2>. QED
    BY <1>9, <2>1, ProcessingTakesOne DEF ManifestFailed
<1>10. CASE ManifestArrived
  <2>1. Unprocessed' = SubSeq(batch', cursor + 1, Len(batch'))
    BY <1>10 DEF ManifestArrived, Processing, Unprocessed, Bootstrapping
  <2>. QED
    BY <1>10, <2>1, ProcessingTakesOne DEF ManifestArrived
<1>11. CASE CompletionDiscarded
  <2>1. Unprocessed' = SubSeq(batch', cursor + 1, Len(batch'))
    BY <1>11 DEF CompletionDiscarded, Processing, Unprocessed
  <2>. QED
    BY <1>11, <2>1, ProcessingTakesOne DEF CompletionDiscarded
<1>12. CASE CompletionFailed
  <2>1. Unprocessed' = SubSeq(batch', cursor + 1, Len(batch'))
    BY <1>12 DEF CompletionFailed, Processing, Unprocessed
  <2>. QED
    BY <1>12, <2>1, ProcessingTakesOne DEF CompletionFailed
<1>13. CASE CompletionAccepted
  <2>1. batch' = batch \/ batch' = [batch EXCEPT ![cursor].outcome = "taken"]
    BY <1>13 DEF CompletionAccepted
  <2>2. cursor \in DOMAIN batch
    BY <1>13, CompletionIsTask DEF CompletionAccepted, Processing
  <2>3. /\ [batch EXCEPT ![cursor].outcome = "taken"] \in Seq(Task)
        /\ Len([batch EXCEPT ![cursor].outcome = "taken"]) = Len(batch)
    BY <2>2, UpdateIsSeq, Zenon
  <2>4. batch' \in Seq(Task) /\ Len(batch') = Len(batch)
    BY <2>1, <2>3
  <2>5. \A i \in DOMAIN batch : i # cursor => batch'[i] = batch[i]
    BY <2>1, <2>2
  <2>6. Unprocessed' = SubSeq(batch', cursor + 1, Len(batch'))
    BY <1>13 DEF CompletionAccepted, Processing, Unprocessed
  <2>. QED
    BY <1>13, <2>4, <2>5, <2>6, ProcessingTakesOne DEF CompletionAccepted
<1>14. ASSUME NEW u \in Units, StartSubmitted(u)
       PROVE  \E t \in Task : Submits(u, t)
  <2>1. /\ FitsCompletions(u) /\ UNCHANGED <<completions, completionBytes>>
        /\ reserved' = reserved + CompressedBytes[u]
        /\ UNCHANGED <<phase, resume, batch, cursor>>
    BY <1>14 DEF StartSubmitted, Submittable, Submit
  <2>2. jobs' = Append(jobs, NewTask(u, cached[u]))
    BY <1>14, Zenon DEF StartSubmitted, Submit
  <2>. DEFINE t == NewTask(u, cached[u])
  <2>3. t \in Task /\ t = NewTask(u, t.hit)
    BY DEF NewTask, Task, RecordsOK
  <2>4. Unprocessed' = Unprocessed
    BY <2>1 DEF Unprocessed, Bootstrapping
  <2>. HIDE DEF t
  <2>. QED
    BY <2>1, <2>2, <2>3, <2>4, Zenon DEF t, Submits
<1>15. ASSUME NEW u \in Units, AdmitPrepares(u)
       PROVE  \E t \in Task : Submits(u, t)
  <2>1. /\ FitsCompletions(u) /\ UNCHANGED <<completions, completionBytes>>
        /\ reserved' = reserved + CompressedBytes[u]
        /\ UNCHANGED <<phase, resume, batch, cursor>>
    BY <1>15 DEF AdmitPrepares, Preparable, Submittable, Submit
  <2>2. jobs' = Append(jobs, NewTask(u, TRUE))
    BY <1>15, Zenon DEF AdmitPrepares, Submit
  <2>. DEFINE t == NewTask(u, TRUE)
  <2>3. t \in Task /\ t = NewTask(u, t.hit)
    BY DEF NewTask, Task
  <2>4. Unprocessed' = Unprocessed
    BY <2>1 DEF Unprocessed, Bootstrapping
  <2>. HIDE DEF t
  <2>. QED
    BY <2>1, <2>2, <2>3, <2>4, Zenon DEF t, Submits
<1>16. CASE UNCHANGED <<phase, resume, batch, cursor, jobs, completions, reserved,
                        completionBytes>>
  <2>1. Unprocessed' = Unprocessed
    BY <1>16 DEF Unprocessed, Bootstrapping
  <2>. QED
    BY <1>16, <2>1 DEF QueueFrame
<1>. QED
  BY <1>1, <1>2, <1>3, <1>4, <1>5, <1>6, <1>7, <1>8, <1>9, <1>10, <1>11, <1>12, <1>13,
     <1>14, <1>15, <1>16
     DEF Next, Continue, CallAfterStop, vars, control, demand, records, budgets, Gameplay,
         AdjustDependencies, StartUndesired, StartSkipped, StartDeferred, AdmitSkipped,
         AdmitRejected, AdmitCommitted, EvictSkipped, EvictForgotten, EvictDestroyed

-----------------------------------------------------------------------------
(* Reserved and completed bytes.                                           *)

\* Reserved bytes are those of every job and completion that has not given back
\* its reservation, and completed bytes those of the queued payloads.
QueueBytes ==
    /\ reserved = (SeqTotal(ReservedWeight, jobs) + SeqTotal(ReservedWeight, completions))
                    + SeqTotal(ReservedWeight, Unprocessed)
    /\ reserved <= MaximumCompletedPayloadBytes
    /\ completionBytes = ContentBytes(completions)

\* The weights are naturals; a task weighs what its unit's payload does, and never
\* more in CompletionBytes than in ReservedCompletionBytes.
LEMMA Weights ==
    /\ ReservedWeight \in [Task -> Nat]
    /\ ContentWeight \in [Task -> Nat]
    /\ DocumentWeight \in [Task -> Nat]
    /\ \A t \in Task : ContentWeight[t] <= ReservedWeight[t]
    /\ \A t \in Task : ReservedWeight[t] = SizeOf(t.unit) /\ SizeOf(t.unit) \in Nat
<1>1. \A t \in Task : t.unit \in Units \cup {ManifestUnit}
  BY DEF Task
<1>2. \A t \in Task : SizeOf(t.unit) \in Nat
  BY <1>1, ConstantTypes DEF SizeOf
<1>3. \A t \in Task : t.unit # ManifestUnit => DecodedBytes[t.unit] \in Nat
  BY <1>1, ManifestAssumption
<1>. HIDE DEF Task
<1>. QED
  BY <1>2, <1>3 DEF ReservedWeight, ContentWeight, DocumentWeight

\* Publishing keeps a task's unit and moves its bytes to CompletionBytes.
LEMMA PublishedTask ==
    ASSUME NEW t \in Task
    PROVE  /\ Published(t) \in Task
           /\ ReservedWeight[Published(t)] = ReservedWeight[t]
           /\ ContentWeight[Published(t)] = AddedBytes(Published(t))
           /\ DocumentWeight[Published(t)] <= DocumentWeight[t]
<1>1. Published(t) \in Task /\ Published(t).unit = t.unit
  BY DEF Published, Task
<1>2. Published(t).outcome = t.outcome \/ Published(t).outcome = "error"
  BY DEF Published, Task
<1>3. DocumentWeight[t] \in Nat
  BY Weights
<1>. HIDE DEF Published, Task
<1>4. ReservedWeight[Published(t)] = ReservedWeight[t]
  BY <1>1, Weights
<1>5. ContentWeight[Published(t)] = AddedBytes(Published(t))
  BY <1>1 DEF ContentWeight, AddedBytes
<1>6. DocumentWeight[Published(t)] <= DocumentWeight[t]
  BY <1>1, <1>2, <1>3 DEF DocumentWeight
<1>. QED
  BY <1>1, <1>4, <1>5, <1>6

\* One task of a sequence changes.
LEMMA TaskUpdate ==
    ASSUME NEW w \in [Task -> Nat]
    PROVE  \A s, t \in Seq(Task) : \A k : DifferAt(s, t, k) =>
               SeqTotal(w, t) + w[s[k]] = SeqTotal(w, s) + w[t[k]]
BY SeqTotalUpdate

\* What FitsCompletions leaves free under the limit.
LEMMA FitsRoom ==
    ASSUME NEW limit \in Nat, NEW used \in Nat, NEW need \in Nat, used <= limit
    PROVE  need <= Room(limit, used) <=> used + need <= limit
BY DEF Room

\* Every step keeps the two counters exact.
LEMMA QueueBytesStep ==
    ASSUME TypeOK, TypeOK', SlotsExact, QueueBytes, [Next]_vars
    PROVE  QueueBytes'
<1>. DEFINE R(s) == SeqTotal(ReservedWeight, s)
<1>0. /\ jobs \in Seq(Task) /\ completions \in Seq(Task) /\ Unprocessed \in Seq(Task)
      /\ batch \in Seq(Task)
      /\ jobs' \in Seq(Task) /\ completions' \in Seq(Task) /\ batch' \in Seq(Task)
  BY UnprocessedType DEF TypeOK, QueuesOK, ControlOK
<1>1. /\ ReservedWeight \in [Task -> Nat] /\ ContentWeight \in [Task -> Nat]
      /\ MaximumCompletedPayloadBytes \in Nat
  BY Weights, LimitsAssumption
<1>2. /\ R(jobs) \in Nat /\ R(completions) \in Nat /\ R(Unprocessed) \in Nat
      /\ R(jobs') \in Nat /\ R(completions') \in Nat
  BY <1>0, <1>1, SeqTotalType
<1>3. CASE QueueFrame
  BY <1>3 DEF QueueFrame, QueueBytes, ContentBytes
<1>4. CASE Step
  <2>. DEFINE count == Min({MaximumCompletionsPerTick, Len(completions)})
  <2>1. count \in 0..Len(completions)
    BY <1>0, MinOfLimits
  <2>2. /\ batch' = SubSeq(completions, 1, count)
        /\ completions' = SubSeq(completions, count + 1, Len(completions))
        /\ completionBytes' = completionBytes - ContentBytes(batch')
        /\ UNCHANGED <<jobs, reserved>>
        /\ phase = "idle" /\ phase' = "process" /\ cursor' = 1
    BY <1>4 DEF Step
  <2>. HIDE DEF count
  <2>3. Unprocessed = <<>> /\ R(Unprocessed) = 0
    BY <2>2, SeqTotalEmpty DEF Unprocessed, Bootstrapping
  <2>4. Unprocessed' = batch'
    <3>1. Unprocessed' = SubSeq(batch', 1, Len(batch'))
      BY <2>2 DEF Unprocessed
    <3>. QED
      BY <1>0, <3>1, SubSeqFull
  <2>5. R(completions) = R(batch') + R(completions')
    BY <1>0, <1>1, <2>1, <2>2, SeqTotalSplit
  <2>6. ContentBytes(completions) = ContentBytes(batch') + ContentBytes(completions')
    BY <1>0, <1>1, <2>1, <2>2, SeqTotalSplit DEF ContentBytes
  <2>7. /\ ContentBytes(batch') \in Nat /\ ContentBytes(completions') \in Nat
        /\ R(batch') \in Nat
    BY <1>0, <1>1, SeqTotalType DEF ContentBytes
  <2>8. completionBytes' = ContentBytes(completions')
    BY <2>2, <2>6, <2>7 DEF QueueBytes
  <2>9. reserved' = (R(jobs') + R(completions')) + R(Unprocessed')
    BY <1>2, <2>2, <2>3, <2>4, <2>5, <2>7 DEF QueueBytes
  <2>. QED
    BY <2>2, <2>8, <2>9 DEF QueueBytes, ContentBytes
<1>5. CASE Processes
  <2>1. /\ Completion \in Task /\ Unprocessed' \in Seq(Task)
        /\ Unprocessed = <<Completion>> \o Unprocessed'
        /\ UNCHANGED <<jobs, completions, completionBytes>>
        /\ reserved' = IF SizeOf(Completion.unit) <= reserved
                       THEN reserved - SizeOf(Completion.unit) ELSE 0
    BY <1>5 DEF Processes, Processing
  <2>2. ReservedWeight[Completion] = SizeOf(Completion.unit) /\ SizeOf(Completion.unit) \in Nat
    BY <2>1, Weights
  <2>3. R(Unprocessed) = SizeOf(Completion.unit) + R(Unprocessed')
    <3>. DEFINE one == <<Completion>>
    <3>1. one \in Seq(Task) /\ R(one) = SizeOf(Completion.unit)
      <4>1. SeqTotal(ReservedWeight, <<Completion>>) = ReservedWeight[Completion]
        BY <1>1, <2>1, SeqTotalSingle, Zenon
      <4>. QED
        BY <2>1, <2>2, <4>1
    <3>2. Unprocessed = one \o Unprocessed'
      BY <2>1
    <3>. HIDE DEF one
    <3>3. R(one \o Unprocessed') = R(one) + R(Unprocessed')
      BY <1>1, <2>1, <3>1, SeqTotalConcat
    <3>. QED
      BY <3>1, <3>2, <3>3
  <2>4. R(Unprocessed') \in Nat
    BY <1>1, <2>1, SeqTotalType
  <2>5. /\ reserved' = (R(jobs) + R(completions)) + R(Unprocessed')
        /\ reserved' <= MaximumCompletedPayloadBytes
    <3>. DEFINE size == SizeOf(Completion.unit)
                a == R(jobs)  b == R(completions)  c == R(Unprocessed')
    <3>1. a \in Nat /\ b \in Nat /\ c \in Nat /\ size \in Nat
      BY <1>2, <2>2, <2>4
    <3>2. reserved = (a + b) + (size + c) /\ reserved <= MaximumCompletedPayloadBytes
      BY <2>3 DEF QueueBytes
    <3>3. reserved' = IF size <= reserved THEN reserved - size ELSE 0
      BY <2>1
    <3>. HIDE DEF size, a, b, c
    <3>4. reserved' = (a + b) + c /\ reserved' <= MaximumCompletedPayloadBytes
      BY <1>1, <3>1, <3>2, <3>3
    <3>. QED
      BY <3>4 DEF a, b, c
  <2>. QED
    BY <2>1, <2>5 DEF QueueBytes, ContentBytes
<1>6. CASE Stop
  <2>1. /\ jobs' = <<>> /\ completions' = <<>> /\ reserved' = 0 /\ completionBytes' = 0
        /\ phase' = "stopped"
    BY <1>6 DEF Stop
  <2>2. Unprocessed' = <<>>
    BY <2>1 DEF Unprocessed, Bootstrapping
  <2>. QED
    BY <1>1, <2>1, <2>2, SeqTotalEmpty DEF QueueBytes, ContentBytes
<1>7. ASSUME NEW u \in Units, NEW t \in Task, Submits(u, t)
      PROVE  QueueBytes'
  <2>1. /\ jobs' = Append(jobs, t) /\ FitsCompletions(u)
        /\ reserved' = reserved + CompressedBytes[u]
        /\ UNCHANGED <<completions, completionBytes>> /\ Unprocessed' = Unprocessed
    BY <1>7 DEF Submits
  <2>2. t.unit = u /\ u # ManifestUnit
    BY <1>7, UnitsAssumption DEF Submits, NewTask, Units, ManifestUnit
  <2>3. ReservedWeight[t] = CompressedBytes[u] /\ CompressedBytes[u] \in Nat
    BY <2>2, Weights, ConstantTypes DEF SizeOf
  <2>4. R(jobs') = R(jobs) + CompressedBytes[u]
    <3>1. SeqTotal(ReservedWeight, Append(jobs, t))
            = SeqTotal(ReservedWeight, jobs) + ReservedWeight[t]
      BY <1>0, <1>1, SeqTotalAppend, Zenon
    <3>. QED
      BY <2>1, <2>3, <3>1, Zenon
  <2>5. reserved \in Nat /\ reserved <= MaximumCompletedPayloadBytes
    BY <1>2 DEF QueueBytes
  <2>6. reserved' <= MaximumCompletedPayloadBytes
    BY <1>1, <2>1, <2>3, <2>5, FitsRoom DEF FitsCompletions
  <2>7. reserved' = (R(jobs') + R(completions')) + R(Unprocessed')
    BY <1>2, <2>1, <2>3, <2>4 DEF QueueBytes
  <2>. QED
    BY <2>1, <2>6, <2>7 DEF QueueBytes, ContentBytes
<1>8. ASSUME NEW k \in 1..WorkerCount, WorkerPrepare(k)
      PROVE  QueueBytes'
  <2>1. /\ k \in DOMAIN jobs
        /\ UNCHANGED <<phase, resume, batch, cursor, completions, reserved, completionBytes>>
    BY <1>8 DEF WorkerPrepare, Running, control, budgets
  <2>2. PICK o \in Outcomes(jobs[k]) : jobs' = [jobs EXCEPT ![k].outcome = o]
    BY <1>8 DEF WorkerPrepare
  <2>3. /\ Len(jobs') = Len(jobs) /\ jobs[k] \in Task /\ jobs'[k] \in Task
        /\ jobs'[k].unit = jobs[k].unit
        /\ \A i \in DOMAIN jobs : i # k => jobs'[i] = jobs[i]
    <3>1. jobs[k] \in Task /\ jobs'[k] = [jobs[k] EXCEPT !.outcome = o] /\ DOMAIN jobs' = DOMAIN jobs
      BY <1>0, <2>1, <2>2
    <3>2. jobs'[k].unit = jobs[k].unit
      BY <3>1 DEF Task
    <3>3. Len(jobs') = Len(jobs) /\ jobs'[k] \in Task
      BY <1>0, <2>1, <3>1
    <3>. QED
      BY <2>2, <3>1, <3>2, <3>3
  <2>4. ReservedWeight[jobs'[k]] = ReservedWeight[jobs[k]] /\ ReservedWeight[jobs[k]] \in Nat
    BY <2>3, Weights
  <2>5. R(jobs') + ReservedWeight[jobs[k]] = R(jobs) + ReservedWeight[jobs'[k]]
    <3>1. DifferAt(jobs, jobs', k)
      BY <1>0, <2>1, <2>3 DEF DifferAt
    <3>0. jobs \in Seq(Task) /\ jobs' \in Seq(Task)
      BY <1>0
    <3>2. \A s, t \in Seq(Task) : \A i : DifferAt(s, t, i) =>
              R(t) + ReservedWeight[s[i]] = R(s) + ReservedWeight[t[i]]
      BY <1>1, TaskUpdate, Zenon
    <3>. QED
      BY <3>0, <3>1, <3>2, Zenon
  <2>6. R(jobs') = R(jobs)
    BY <1>2, <2>4, <2>5
  <2>7. Unprocessed' = Unprocessed
    BY <2>1 DEF Unprocessed, Bootstrapping
  <2>. QED
    BY <2>1, <2>6, <2>7 DEF QueueBytes, ContentBytes
<1>9. ASSUME NEW k \in 1..WorkerCount, WorkerPublish(k)
      PROVE  QueueBytes'
  <2>. DEFINE t == Published(jobs[k])
  <2>1. /\ k \in DOMAIN jobs /\ completions' = Append(completions, t)
        /\ completionBytes' = completionBytes + AddedBytes(t)
        /\ jobs' = SubSeq(jobs, 1, k - 1) \o SubSeq(jobs, k + 1, Len(jobs))
        /\ UNCHANGED <<phase, resume, batch, cursor, reserved>>
    BY <1>9 DEF WorkerPublish, Running, control
  <2>2. /\ jobs[k] \in Task /\ t \in Task /\ ReservedWeight[t] = ReservedWeight[jobs[k]]
        /\ ContentWeight[t] = AddedBytes(t)
    BY <1>0, <2>1, PublishedTask
  <2>. HIDE DEF t
  <2>3. R(jobs) = R(jobs') + ReservedWeight[jobs[k]]
    BY <1>0, <1>1, <2>1, SeqTotalRemoveAt
  <2>4. R(completions') = R(completions) + ReservedWeight[t]
    BY <1>0, <1>1, <2>1, <2>2, SeqTotalAppend
  <2>5. ContentBytes(completions') = ContentBytes(completions) + AddedBytes(t)
    BY <1>0, <1>1, <2>1, <2>2, SeqTotalAppend DEF ContentBytes
  <2>6. Unprocessed' = Unprocessed
    BY <2>1 DEF Unprocessed, Bootstrapping
  <2>7. ReservedWeight[t] \in Nat
    BY <1>1, <2>2
  <2>8. reserved' = (R(jobs') + R(completions')) + R(Unprocessed')
    BY <1>2, <2>1, <2>2, <2>3, <2>4, <2>6, <2>7 DEF QueueBytes
  <2>. QED
    BY <2>1, <2>5, <2>8 DEF QueueBytes
<1>. QED
  BY <1>3, <1>4, <1>5, <1>6, <1>7, <1>8, <1>9, QueueSteps DEF Worker

\* The counters say what BytesExact claims of them: in particular the completed
\* bytes and any job's payload fit the limit together.
LEMMA ReservationsFollow ==
    ASSUME TypeOK, QueueBytes
    PROVE  ReservationsExact
<1>. DEFINE R(s) == SeqTotal(ReservedWeight, s)
<1>1. jobs \in Seq(Task) /\ completions \in Seq(Task) /\ Unprocessed \in Seq(Task)
  BY UnprocessedType DEF TypeOK, QueuesOK
<1>2. /\ ReservedWeight \in [Task -> Nat] /\ ContentWeight \in [Task -> Nat]
      /\ MaximumCompletedPayloadBytes \in Nat
  BY Weights, LimitsAssumption
<1>3. R(jobs) \in Nat /\ R(completions) \in Nat /\ R(Unprocessed) \in Nat
  BY <1>1, <1>2, SeqTotalType
<1>4. reserved = R(Outstanding)
  <2>1. jobs \o completions \in Seq(Task)
    BY <1>1, ConcatProperties
  <2>2. R(jobs \o completions) = R(jobs) + R(completions)
    BY <1>1, <1>2, SeqTotalConcat, Zenon
  <2>3. R((jobs \o completions) \o Unprocessed) = R(jobs \o completions) + R(Unprocessed)
    BY <1>1, <1>2, <2>1, SeqTotalConcat, Zenon
  <2>. QED
    BY <2>2, <2>3, Zenon DEF QueueBytes, Outstanding
<1>5. ASSUME NEW k \in DOMAIN jobs
      PROVE  Published(jobs[k]) = jobs[k]
  <2>1. jobs[k] \in Task
    BY <1>1
  <2>2. ReservedWeight[jobs[k]] = SizeOf(jobs[k].unit) /\ SizeOf(jobs[k].unit) \in Nat
    BY <2>1, Weights
  <2>3. SizeOf(jobs[k].unit) <= R(jobs)
    BY <1>1, <1>2, <2>2, SeqTotalBounds
  <2>4. ContentBytes(completions) \in Nat /\ ContentBytes(completions) <= R(completions)
    <3>1. ContentBytes(completions) \in Nat
      BY <1>1, <1>2, SeqTotalType DEF ContentBytes
    <3>2. SeqTotal(ContentWeight, completions) <= SeqTotal(ReservedWeight, completions)
      BY <1>1, <1>2, Weights, SeqTotalLess
    <3>. QED
      BY <3>1, <3>2 DEF ContentBytes
  <2>5. /\ completionBytes \in Nat /\ completionBytes <= MaximumCompletedPayloadBytes
        /\ completionBytes + SizeOf(jobs[k].unit) <= MaximumCompletedPayloadBytes
    BY <1>2, <1>3, <2>2, <2>3, <2>4 DEF QueueBytes
  <2>6. SizeOf(jobs[k].unit) <= Room(MaximumCompletedPayloadBytes, completionBytes)
    BY <1>2, <2>2, <2>5, FitsRoom
  <2>7. Room(MaximumCompletedPayloadBytes, completionBytes) \in Nat
    BY <1>2, <2>5 DEF Room
  <2>. QED
    BY <2>2, <2>6, <2>7 DEF Published
<1>. QED
  BY <1>4, <1>5 DEF QueueBytes, ReservationsExact

-----------------------------------------------------------------------------
(* Cached bytes.                                                           *)

CachedUnits == {u \in Units : cached[u]}

\* The package is finite.
LEMMA UnitsFinite == IsFiniteSet(Units) /\ \A S \in SUBSET Units : IsFiniteSet(S)
<1>1. IsFiniteSet(1..UnitCount)
  BY ConstantTypes, FS_Interval
<1>. QED
  BY <1>1, FS_Subset DEF Units

\* Every step keeps the cache accounted exactly and within its limit: an entry is
\* stored only in the room that is left, and what makes room is taken off.
LEMMA CacheStep ==
    ASSUME TypeOK, TypeOK', CacheBounded, [Next]_vars
    PROVE  CacheBounded'
<1>0. /\ \A S \in SUBSET Units : IsFiniteSet(S) /\ BytesOf(S) \in Nat
      /\ \A u \in Units : CompressedBytes[u] \in Nat
      /\ MaximumCachedPayloadBytes \in Nat
      /\ cached \in [Units -> BOOLEAN] /\ cached' \in [Units -> BOOLEAN]
  <2>1. \A u \in Units : CompressedBytes[u] \in Nat
    BY ConstantTypes
  <2>2. \A S \in SUBSET Units : IsFiniteSet(S) /\ BytesOf(S) \in Nat
    BY <2>1, UnitsFinite, TotalType DEF BytesOf
  <2>. QED
    BY <2>1, <2>2, LimitsAssumption DEF TypeOK, RecordsOK
<1>1. CASE CompletionAccepted
  <2>. DEFINE u       == Completion.unit
              dropped == IF cached[u] THEN {} ELSE MakeCacheSpace(CompressedBytes[u], u)
              left    == cachedBytes - BytesOf(dropped)
              fits    == cached[u] \/ FitsCache(u, left)
              kept    == CachedUnits \ dropped
  <2>1. u \in Units
    <3>1. Completion \in Task /\ u # ManifestUnit
      BY <1>1, CompletionIsTask DEF CompletionAccepted, Processing, Awaited, TypeOK
    <3>. QED
      BY <3>1 DEF Task
  <2>2. /\ cached' = [v \in Units |-> IF v = u THEN fits ELSE cached[v] /\ v \notin dropped]
        /\ cachedBytes' = left + (IF fits /\ ~cached[u] THEN CompressedBytes[u] ELSE 0)
    BY <1>1, Zenon DEF CompletionAccepted
  <2>3. dropped \in SUBSET CachedUnits /\ u \notin dropped
    <3>1. MakeCacheSpace(CompressedBytes[u], u) \subseteq {v \in Units : cached[v] /\ v # u}
      BY Zenon DEF MakeCacheSpace, Droppable
    <3>. QED
      BY <3>1 DEF CachedUnits
  <2>. HIDE DEF dropped
  <2>4. /\ BytesOf(CachedUnits) = BytesOf(kept) + BytesOf(dropped)
        /\ BytesOf(kept) \in Nat /\ BytesOf(dropped) \in Nat
    <3>1. IsFiniteSet(CachedUnits) /\ \A v \in CachedUnits : CompressedBytes[v] \in Nat
      BY <1>0 DEF CachedUnits
    <3>. QED
      BY <2>3, <3>1, TotalMinus, Zenon DEF BytesOf
  <2>5. left = BytesOf(kept) /\ left <= MaximumCachedPayloadBytes
    BY <1>0, <2>4 DEF CacheBounded, CachedUnits
  <2>6. CASE cached[u]
    <3>1. fits /\ ~(fits /\ ~cached[u])
      BY <2>6
    <3>2. CachedUnits' = kept
      <4>1. \A v \in Units : cached'[v] <=> (v = u \/ (cached[v] /\ v \notin dropped))
        BY <2>2, <3>1, Zenon
      <4>. QED
        BY <2>1, <2>3, <2>6, <4>1 DEF CachedUnits
    <3>3. cachedBytes' = left
      BY <2>2, <2>4, <2>5, <3>1
    <3>. QED
      BY <2>5, <3>2, <3>3 DEF CacheBounded, CachedUnits
  <2>7. CASE ~cached[u] /\ fits
    <3>1. CachedUnits' = kept \cup {u} /\ u \notin kept
      <4>1. \A v \in Units : cached'[v] <=> (v = u \/ (cached[v] /\ v \notin dropped))
        BY <2>2, <2>7, Zenon
      <4>. QED
        BY <2>1, <2>3, <2>7, <4>1 DEF CachedUnits
    <3>2. BytesOf(kept \cup {u}) = BytesOf(kept) + CompressedBytes[u]
      <4>. DEFINE K == kept
      <4>1. IsFiniteSet(K) /\ u \notin K /\ \A x \in K \cup {u} : CompressedBytes[x] \in Nat
        BY <1>0, <2>1, <3>1 DEF CachedUnits
      <4>. HIDE DEF K, u
      <4>2. Total(CompressedBytes, K \cup {u}) = Total(CompressedBytes, K) + CompressedBytes[u]
        BY <4>1, TotalAdd
      <4>. QED
        BY <4>2 DEF K, BytesOf
    <3>3. cachedBytes' = left + CompressedBytes[u]
      BY <2>2, <2>7
    <3>4. left + CompressedBytes[u] <= MaximumCachedPayloadBytes
      BY <1>0, <2>1, <2>4, <2>5, <2>7, FitsRoom DEF FitsCache
    <3>. QED
      BY <2>5, <3>1, <3>2, <3>3, <3>4 DEF CacheBounded, CachedUnits
  <2>8. CASE ~cached[u] /\ ~fits
    <3>1. CachedUnits' = kept
      <4>1. \A v \in Units : cached'[v] <=> (v # u /\ cached[v] /\ v \notin dropped)
        BY <2>2, <2>8, Zenon
      <4>. QED
        BY <2>1, <2>3, <2>8, <4>1 DEF CachedUnits
    <3>2. cachedBytes' = left
      BY <2>2, <2>4, <2>5, <2>8
    <3>. QED
      BY <2>5, <3>1, <3>2 DEF CacheBounded, CachedUnits
  <2>. QED
    BY <2>6, <2>7, <2>8
<1>2. ASSUME NEW u \in Units, AdmitRejected(u)
      PROVE  CacheBounded'
  <2>1. /\ cached' = [cached EXCEPT ![u] = FALSE]
        /\ cachedBytes' = cachedBytes - (IF cached[u] THEN CompressedBytes[u] ELSE 0)
    BY <1>2 DEF AdmitRejected
  <2>2. CachedUnits' = CachedUnits \ {u}
    BY <1>0, <2>1 DEF CachedUnits
  <2>3. CASE cached[u]
    <3>. DEFINE C == CachedUnits
    <3>1. IsFiniteSet(C) /\ u \in C /\ \A v \in C : CompressedBytes[v] \in Nat
      BY <1>0, <2>3 DEF CachedUnits
    <3>. HIDE DEF C
    <3>2. Total(CompressedBytes, C) = CompressedBytes[u] + Total(CompressedBytes, C \ {u})
      BY <3>1, TotalRemove
    <3>3. BytesOf(C \ {u}) \in Nat
      BY <1>0 DEF C, CachedUnits
    <3>4. /\ cachedBytes' = BytesOf(C \ {u})
          /\ cachedBytes' <= MaximumCachedPayloadBytes
      BY <1>0, <2>1, <2>3, <3>2, <3>3 DEF C, CacheBounded, CachedUnits, BytesOf
    <3>. QED
      BY <2>2, <3>4 DEF C, CacheBounded, CachedUnits
  <2>4. CASE ~cached[u]
    <3>1. CachedUnits' = CachedUnits
      BY <2>2, <2>4 DEF CachedUnits
    <3>2. cachedBytes' = cachedBytes
      <4>1. cachedBytes \in Nat
        BY <1>0 DEF CacheBounded, CachedUnits
      <4>. QED
        BY <2>1, <2>4, <4>1
    <3>. QED
      BY <3>1, <3>2 DEF CacheBounded, CachedUnits
  <2>. QED
    BY <2>3, <2>4
<1>3. CASE Stop
  <2>1. {u \in Units : cached'[u]} = {} /\ cachedBytes' = 0
    BY <1>3, Zenon DEF Stop
  <2>. QED
    BY <1>0, <2>1, TotalEmpty DEF CacheBounded, BytesOf
<1>4. CASE UNCHANGED <<cached, cachedBytes>>
  BY <1>4 DEF CacheBounded
<1>. QED
  BY <1>1, <1>2, <1>3, <1>4
     DEF Next, Continue, Worker, Demand, CallAfterStop, vars, control, demand, records,
         budgets, Gameplay, Step, AdjustDependencies, AdjustReturn, ManifestFailed,
         ManifestArrived, BootstrapRequest, BootstrapDone, CompletionDiscarded,
         CompletionFailed, CompletionsDone, StartDone, AdmitDone, EvictDone,
         StartUndesired, StartSkipped, StartDeferred, StartSubmitted, AdmitSkipped,
         AdmitPrepares, AdmitCommitted, EvictSkipped, EvictForgotten, EvictDestroyed,
         RequestContent, ReleaseContent, PinContent, UnpinContent, RetryContent,
         WorkerPrepare, WorkerPublish

-----------------------------------------------------------------------------
(* Decoded documents.                                                      *)

PreparedUnits == {u \in Units : prepared[u]}

\* The parts of Decoded are naturals.
LEMMA DocumentBytes ==
    /\ \A s \in Seq(Task) : HeldDocuments(s) \in Nat
    /\ \A S \in SUBSET Units : IsFiniteSet(S) /\ Total(DecodedBytes, S) \in Nat
<1>1. \A s \in Seq(Task) : HeldDocuments(s) \in Nat
  BY Weights, SeqTotalType DEF HeldDocuments
<1>2. \A u \in Units : DecodedBytes[u] \in Nat
  BY ManifestAssumption
<1>3. \A S \in SUBSET Units : IsFiniteSet(S) /\ Total(DecodedBytes, S) \in Nat
  BY <1>2, UnitsFinite, TotalType
<1>. QED
  BY <1>1, <1>3

\* Fewer prepared units hold fewer bytes.
LEMMA PreparedShrinks ==
    ASSUME NEW S \in SUBSET Units, NEW T \in SUBSET S
    PROVE  Total(DecodedBytes, T) <= Total(DecodedBytes, S)
<1>1. \A u \in S : DecodedBytes[u] \in Nat
  BY ManifestAssumption
<1>. QED
  BY <1>1, UnitsFinite, TotalMinus

\* What the parts of Decoded may do without exceeding the limit.
LEMMA DecodedFalls ==
    ASSUME TypeOK, TypeOK', DecodedBounded,
           ((HeldDocuments(jobs') + HeldDocuments(completions')) + HeldDocuments(batch'))
               + Total(DecodedBytes, PreparedUnits')
             <= ((HeldDocuments(jobs) + HeldDocuments(completions)) + HeldDocuments(batch))
                  + Total(DecodedBytes, PreparedUnits)
    PROVE  DecodedBounded'
<1>. DEFINE a == (HeldDocuments(jobs) + HeldDocuments(completions)) + HeldDocuments(batch)
            b == (HeldDocuments(jobs') + HeldDocuments(completions')) + HeldDocuments(batch')
            p == Total(DecodedBytes, PreparedUnits)
            q == Total(DecodedBytes, PreparedUnits')
<1>1. a \in Nat /\ b \in Nat /\ p \in Nat /\ q \in Nat
  <2>1. /\ jobs \in Seq(Task) /\ completions \in Seq(Task) /\ batch \in Seq(Task)
        /\ jobs' \in Seq(Task) /\ completions' \in Seq(Task) /\ batch' \in Seq(Task)
    BY DEF TypeOK, QueuesOK, ControlOK
  <2>2. PreparedUnits \in SUBSET Units /\ PreparedUnits' \in SUBSET Units
    BY DEF PreparedUnits
  <2>3. /\ HeldDocuments(jobs) \in Nat /\ HeldDocuments(completions) \in Nat
        /\ HeldDocuments(batch) \in Nat
        /\ HeldDocuments(jobs') \in Nat /\ HeldDocuments(completions') \in Nat
        /\ HeldDocuments(batch') \in Nat
    BY <2>1, DocumentBytes
  <2>4. p \in Nat /\ q \in Nat
    BY <2>2, DocumentBytes
  <2>. QED
    BY <2>3, <2>4
<1>2. Decoded = a + p
  BY Zenon DEF Decoded, PreparedUnits
<1>3. Decoded' = b + q
  BY Zenon DEF Decoded, PreparedUnits
<1>4. a + p <= MaximumDecodedDocumentBytes /\ b + q <= a + p
  BY <1>2 DEF DecodedBounded
<1>. HIDE DEF a, b, p, q
<1>5. b + q <= MaximumDecodedDocumentBytes
  BY <1>1, <1>4, LimitsAssumption
<1>. QED
  BY <1>3, <1>5 DEF DecodedBounded

\* No step takes the decoded documents beyond their limit: a worker reserves what
\* still fits, and a document only moves, from job to completion to batch to record.
LEMMA DecodedStep ==
    ASSUME TypeOK, TypeOK', DecodedBounded, [Next]_vars
    PROVE  DecodedBounded'
<1>. DEFINE D(s) == HeldDocuments(s)  P(S) == Total(DecodedBytes, S)
<1>0. /\ jobs \in Seq(Task) /\ completions \in Seq(Task) /\ batch \in Seq(Task)
      /\ jobs' \in Seq(Task) /\ completions' \in Seq(Task) /\ batch' \in Seq(Task)
  BY DEF TypeOK, QueuesOK, ControlOK
<1>1. /\ D(jobs) \in Nat /\ D(completions) \in Nat /\ D(batch) \in Nat
      /\ D(jobs') \in Nat /\ D(completions') \in Nat /\ D(batch') \in Nat
      /\ P(PreparedUnits) \in Nat /\ P(PreparedUnits') \in Nat
  BY <1>0, DocumentBytes DEF PreparedUnits
<1>2. /\ DocumentWeight \in [Task -> Nat]
      /\ prepared \in [Units -> BOOLEAN] /\ prepared' \in [Units -> BOOLEAN]
  BY Weights DEF TypeOK, RecordsOK
<1>3. D(<<>>) = 0
  BY SeqTotalEmpty DEF HeldDocuments
<1>4. CASE Step
  <2>. DEFINE count == Min({MaximumCompletionsPerTick, Len(completions)})
  <2>1. count \in 0..Len(completions)
    BY <1>0, MinOfLimits
  <2>2. /\ batch' = SubSeq(completions, 1, count)
        /\ completions' = SubSeq(completions, count + 1, Len(completions))
        /\ UNCHANGED <<jobs, prepared>>
    BY <1>4 DEF Step, records
  <2>. HIDE DEF count
  <2>3. D(completions) = D(batch') + D(completions')
    BY <1>0, <1>2, <2>1, <2>2, SeqTotalSplit DEF HeldDocuments
  <2>4. PreparedUnits' = PreparedUnits
    BY <2>2 DEF PreparedUnits
  <2>. HIDE DEF D, P
  <2>5. ((D(jobs') + D(completions')) + D(batch')) + P(PreparedUnits')
          <= ((D(jobs) + D(completions)) + D(batch)) + P(PreparedUnits)
    BY <1>1, <2>2, <2>3, <2>4
  <2>. QED
    BY <2>5, DecodedFalls DEF D, P
<1>5. CASE CompletionsDone
  <2>1. batch' = <<>> /\ UNCHANGED <<jobs, completions, prepared>>
    BY <1>5 DEF CompletionsDone, records
  <2>2. PreparedUnits' = PreparedUnits
    BY <2>1 DEF PreparedUnits
  <2>. HIDE DEF D, P
  <2>3. ((D(jobs') + D(completions')) + D(batch')) + P(PreparedUnits')
          <= ((D(jobs) + D(completions)) + D(batch)) + P(PreparedUnits)
    BY <1>1, <1>3, <2>1, <2>2
  <2>. QED
    BY <2>3, DecodedFalls DEF D, P
<1>6. CASE Stop
  <2>1. jobs' = <<>> /\ completions' = <<>> /\ batch' = batch
    BY <1>6 DEF Stop
  <2>2. PreparedUnits' = {}
    BY <1>6, Zenon DEF Stop, PreparedUnits
  <2>3. P(PreparedUnits') = 0 /\ D(jobs') = 0 /\ D(completions') = 0
    BY <1>3, <2>1, <2>2, TotalEmpty
  <2>5. D(batch') = D(batch)
    BY <2>1
  <2>. HIDE DEF D, P
  <2>4. ((D(jobs') + D(completions')) + D(batch')) + P(PreparedUnits')
          <= ((D(jobs) + D(completions)) + D(batch)) + P(PreparedUnits)
    BY <1>1, <2>3, <2>5
  <2>. QED
    BY <2>4, DecodedFalls DEF D, P
<1>7. CASE /\ UNCHANGED <<jobs, completions, batch>>
           /\ \A u \in Units : prepared'[u] => prepared[u]
  <2>1. P(PreparedUnits') <= P(PreparedUnits)
    <3>1. PreparedUnits \in SUBSET Units /\ PreparedUnits' \in SUBSET PreparedUnits
      BY <1>7 DEF PreparedUnits
    <3>. QED
      BY <3>1, PreparedShrinks, Zenon
  <2>. HIDE DEF D, P
  <2>2. ((D(jobs') + D(completions')) + D(batch')) + P(PreparedUnits')
          <= ((D(jobs) + D(completions)) + D(batch)) + P(PreparedUnits)
    BY <1>1, <1>7, <2>1
  <2>. QED
    BY <2>2, DecodedFalls DEF D, P
<1>8. ASSUME NEW u \in Units, NEW t \in Task, t.outcome = "running",
             jobs' = Append(jobs, t), UNCHANGED <<completions, batch, prepared>>
      PROVE  DecodedBounded'
  <2>1. DocumentWeight[t] = 0
    BY <1>8 DEF DocumentWeight
  <2>2. D(jobs') = D(jobs)
    <3>1. SeqTotal(DocumentWeight, Append(jobs, t))
            = SeqTotal(DocumentWeight, jobs) + DocumentWeight[t]
      BY <1>0, <1>2, SeqTotalAppend, Zenon
    <3>. QED
      BY <1>1, <1>8, <2>1, <3>1 DEF HeldDocuments
  <2>3. PreparedUnits' = PreparedUnits
    BY <1>8 DEF PreparedUnits
  <2>. HIDE DEF D, P
  <2>4. ((D(jobs') + D(completions')) + D(batch')) + P(PreparedUnits')
          <= ((D(jobs) + D(completions)) + D(batch)) + P(PreparedUnits)
    BY <1>1, <1>8, <2>2, <2>3
  <2>. QED
    BY <2>4, DecodedFalls, Zenon DEF D, P
<1>9. ASSUME NEW k \in 1..WorkerCount, WorkerPrepare(k)
      PROVE  DecodedBounded'
  <2>1. /\ k \in DOMAIN jobs /\ jobs[k].outcome = "running" /\ jobs[k] \in Task
        /\ UNCHANGED <<completions, batch, prepared>>
    BY <1>0, <1>9 DEF WorkerPrepare, Running, control, records
  <2>2. PICK o \in Outcomes(jobs[k]) : jobs' = [jobs EXCEPT ![k].outcome = o]
    BY <1>9 DEF WorkerPrepare
  <2>. DEFINE t == [jobs[k] EXCEPT !.outcome = o]
  <2>3. jobs'[k] = t /\ t \in Task /\ t.unit = jobs[k].unit /\ t.outcome = o
    <3>1. jobs'[k] = t
      BY <1>0, <2>1, <2>2
    <3>2. jobs'[k] \in Task
      BY <1>0, <2>1, <2>2
    <3>. QED
      BY <2>1, <3>1, <3>2 DEF Task
  <2>4. DifferAt(jobs, jobs', k)
    BY <1>0, <2>1, <2>2 DEF DifferAt
  <2>. HIDE DEF t
  <2>5. D(jobs') + DocumentWeight[jobs[k]] = D(jobs) + DocumentWeight[t]
    <3>0. jobs \in Seq(Task) /\ jobs' \in Seq(Task)
      BY <1>0
    <3>1. \A s, r \in Seq(Task) : \A i : DifferAt(s, r, i) =>
              D(r) + DocumentWeight[s[i]] = D(s) + DocumentWeight[r[i]]
      BY <1>2, TaskUpdate, Zenon DEF HeldDocuments
    <3>2. D(jobs') + DocumentWeight[jobs[k]] = D(jobs) + DocumentWeight[jobs'[k]]
      BY <2>4, <3>0, <3>1, Zenon
    <3>. QED
      BY <2>3, <3>2, Zenon
  <2>6. DocumentWeight[jobs[k]] = 0 /\ DocumentWeight[t] \in Nat
    BY <1>2, <2>1, <2>3 DEF DocumentWeight
  <2>7. PreparedUnits' = PreparedUnits
    BY <2>1 DEF PreparedUnits
  <2>8. CASE DocumentWeight[t] = 0
    <3>. HIDE DEF D, P
    <3>1. ((D(jobs') + D(completions')) + D(batch')) + P(PreparedUnits')
            <= ((D(jobs) + D(completions)) + D(batch)) + P(PreparedUnits)
      BY <1>1, <2>1, <2>5, <2>6, <2>7, <2>8
    <3>. QED
      BY <3>1, DecodedFalls, Zenon DEF D, P
  <2>9. CASE DocumentWeight[t] # 0
    <3>1. t.unit # ManifestUnit /\ o = "document" /\ DocumentWeight[t] = DecodedBytes[t.unit]
      BY <2>3, <2>9 DEF DocumentWeight
    <3>2. FitsDecoded(t.unit)
      BY <2>2, <2>3, <3>1 DEF Outcomes
    <3>. DEFINE room == MaximumDecodedDocumentBytes - Decoded
    <3>3. Decoded = ((D(jobs) + D(completions)) + D(batch)) + P(PreparedUnits)
      BY Zenon DEF Decoded, PreparedUnits
    <3>4. Decoded' = ((D(jobs') + D(completions')) + D(batch')) + P(PreparedUnits')
      BY Zenon DEF Decoded, PreparedUnits
    <3>5. DocumentWeight[t] <= MaximumDecodedDocumentBytes - Decoded
      BY <3>1, <3>2 DEF FitsDecoded
    <3>. HIDE DEF D, P
    <3>6. D(jobs') = D(jobs) + DocumentWeight[t]
      BY <1>1, <2>5, <2>6
    <3>7. Decoded' <= MaximumDecodedDocumentBytes
      BY <1>1, <2>1, <2>6, <2>7, <3>3, <3>4, <3>5, <3>6, LimitsAssumption
    <3>. QED
      BY <3>7 DEF DecodedBounded
  <2>. QED
    BY <2>8, <2>9
<1>10. ASSUME NEW k \in 1..WorkerCount, WorkerPublish(k)
       PROVE  DecodedBounded'
  <2>. DEFINE t == Published(jobs[k])
  <2>1. /\ k \in DOMAIN jobs /\ completions' = Append(completions, t)
        /\ jobs' = SubSeq(jobs, 1, k - 1) \o SubSeq(jobs, k + 1, Len(jobs))
        /\ UNCHANGED <<batch, prepared>>
    BY <1>10 DEF WorkerPublish, Running, control, records
  <2>2. /\ jobs[k] \in Task /\ t \in Task
        /\ DocumentWeight[t] <= DocumentWeight[jobs[k]]
    BY <1>0, <2>1, PublishedTask
  <2>. HIDE DEF t
  <2>3. D(jobs) = D(jobs') + DocumentWeight[jobs[k]]
    BY <1>0, <1>2, <2>1, SeqTotalRemoveAt DEF HeldDocuments
  <2>4. D(completions') = D(completions) + DocumentWeight[t]
    <3>1. SeqTotal(DocumentWeight, Append(completions, t))
            = SeqTotal(DocumentWeight, completions) + DocumentWeight[t]
      BY <1>0, <1>2, <2>2, SeqTotalAppend, Zenon
    <3>. QED
      BY <2>1, <3>1, Zenon DEF HeldDocuments
  <2>5. PreparedUnits' = PreparedUnits
    BY <2>1 DEF PreparedUnits
  <2>6. DocumentWeight[t] \in Nat /\ DocumentWeight[jobs[k]] \in Nat
    BY <1>2, <2>2
  <2>. DEFINE x == DocumentWeight[t]  y == DocumentWeight[jobs[k]]
  <2>8. /\ x \in Nat /\ y \in Nat /\ x <= y
        /\ D(jobs) = D(jobs') + y /\ D(completions') = D(completions) + x
        /\ D(batch') = D(batch) /\ P(PreparedUnits') = P(PreparedUnits)
    BY <2>1, <2>2, <2>3, <2>4, <2>5, <2>6
  <2>. HIDE DEF D, P, x, y
  <2>7. ((D(jobs') + D(completions')) + D(batch')) + P(PreparedUnits')
          <= ((D(jobs) + D(completions)) + D(batch)) + P(PreparedUnits)
    BY <1>1, <2>8
  <2>. QED
    BY <2>7, DecodedFalls, Zenon DEF D, P
<1>11. CASE CompletionAccepted
  <2>. DEFINE u       == Completion.unit
              dropped == IF cached[u] THEN {} ELSE MakeCacheSpace(CompressedBytes[u], u)
              left    == cachedBytes - BytesOf(dropped)
              fits    == cached[u] \/ FitsCache(u, left)
              gains   == fits /\ Completion.outcome = "document" /\ KeepsDocument(u)
  <2>1. /\ cursor \in DOMAIN batch /\ Completion = batch[cursor] /\ Completion \in Task
        /\ u \in Units /\ u # ManifestUnit
    <3>1. cursor \in DOMAIN batch /\ Completion \in Task /\ u # ManifestUnit
      BY <1>11, CompletionIsTask DEF CompletionAccepted, Processing, Awaited, TypeOK
    <3>. QED
      BY <3>1 DEF Task, Completion
  <2>2. /\ batch' = IF fits THEN [batch EXCEPT ![cursor].outcome = "taken"] ELSE batch
        /\ UNCHANGED <<jobs, completions>>
    BY <1>11 DEF CompletionAccepted
  <2>3. /\ \A v \in Units : v # u /\ prepared'[v] => prepared[v]
        /\ prepared'[u] => gains
    <3>1. prepared' = [v \in Units |->
                         IF v # u THEN prepared[v] /\ v \notin {x \in dropped : root[x] = "none"}
                         ELSE gains]
      BY <1>11, Zenon DEF CompletionAccepted
    <3>2. \A v \in Units : v # u => (prepared'[v] <=> (prepared[v] /\ v \notin {x \in dropped : root[x] = "none"}))
      BY <3>1, Zenon
    <3>3. prepared'[u] <=> gains
      BY <2>1, <3>1, Zenon
    <3>. QED
      BY <3>2, <3>3
  <2>. HIDE DEF dropped, left, fits
  <2>4. CASE fits
    <3>. DEFINE t == [batch[cursor] EXCEPT !.outcome = "taken"]
    <3>1. batch'[cursor] = t /\ t \in Task /\ t.outcome = "taken"
      <4>1. batch'[cursor] = t
        BY <1>0, <2>1, <2>2, <2>4
      <4>. QED
        BY <1>0, <2>1, <4>1 DEF Task
    <3>2. DifferAt(batch, batch', cursor)
      BY <1>0, <2>1, <2>2, <2>4 DEF DifferAt
    <3>. HIDE DEF t
    <3>3. D(batch') + DocumentWeight[Completion] = D(batch) + DocumentWeight[t]
      <4>0. batch \in Seq(Task) /\ batch' \in Seq(Task)
        BY <1>0
      <4>1. \A s, r \in Seq(Task) : \A i : DifferAt(s, r, i) =>
                D(r) + DocumentWeight[s[i]] = D(s) + DocumentWeight[r[i]]
        BY <1>2, TaskUpdate, Zenon DEF HeldDocuments
      <4>2. D(batch') + DocumentWeight[batch[cursor]] = D(batch) + DocumentWeight[batch'[cursor]]
        BY <3>2, <4>0, <4>1, Zenon
      <4>. QED
        BY <2>1, <3>1, <4>2, Zenon
    <3>4. DocumentWeight[t] = 0 /\ DocumentWeight[Completion] \in Nat
      BY <1>2, <2>1, <3>1 DEF DocumentWeight
    <3>5. P(PreparedUnits') <= P(PreparedUnits) + DocumentWeight[Completion]
      <4>1. CASE prepared'[u]
        <5>1. DocumentWeight[Completion] = DecodedBytes[u]
          BY <2>1, <2>3, <4>1 DEF DocumentWeight
        <5>. DEFINE K == PreparedUnits \ {u}
        <5>2. PreparedUnits' \subseteq K \cup {u}
          BY <2>3 DEF PreparedUnits
        <5>3. K \in SUBSET Units /\ K \cup {u} \in SUBSET Units
          BY <2>1 DEF PreparedUnits
        <5>4. P(K \cup {u}) = P(K) + DecodedBytes[u]
          <6>. DEFINE e == u
          <6>1. IsFiniteSet(K) /\ e \notin K /\ \A x \in K \cup {e} : DecodedBytes[x] \in Nat
            BY <5>3, UnitsFinite, ManifestAssumption
          <6>. HIDE DEF K, e
          <6>2. Total(DecodedBytes, K \cup {e}) = Total(DecodedBytes, K) + DecodedBytes[e]
            BY <6>1, TotalAdd
          <6>. QED
            BY <6>2 DEF e
        <5>5. P(K) <= P(PreparedUnits)
          <6>1. PreparedUnits \in SUBSET Units /\ K \in SUBSET PreparedUnits
            BY DEF PreparedUnits
          <6>. QED
            BY <6>1, PreparedShrinks, Zenon
        <5>6. P(PreparedUnits') <= P(K \cup {u})
          <6>1. PreparedUnits' \in SUBSET (K \cup {u})
            BY <5>2
          <6>. QED
            BY <5>3, <6>1, PreparedShrinks, Zenon
        <5>7. P(K) \in Nat /\ P(K \cup {u}) \in Nat /\ DecodedBytes[u] \in Nat
          BY <2>1, <5>3, DocumentBytes, ManifestAssumption
        <5>. HIDE DEF P, K
        <5>. QED
          BY <1>1, <5>1, <5>4, <5>5, <5>6, <5>7
      <4>2. CASE ~prepared'[u]
        <5>1. PreparedUnits \in SUBSET Units /\ PreparedUnits' \in SUBSET PreparedUnits
          BY <2>3, <4>2 DEF PreparedUnits
        <5>2. P(PreparedUnits') <= P(PreparedUnits)
          BY <5>1, PreparedShrinks, Zenon
        <5>. HIDE DEF P
        <5>. QED
          BY <1>1, <3>4, <5>2
      <4>. QED
        BY <4>1, <4>2
    <3>. HIDE DEF D, P
    <3>6. ((D(jobs') + D(completions')) + D(batch')) + P(PreparedUnits')
            <= ((D(jobs) + D(completions)) + D(batch)) + P(PreparedUnits)
      BY <1>1, <2>2, <3>3, <3>4, <3>5
    <3>. QED
      BY <3>6, DecodedFalls, Zenon DEF D, P
  <2>5. CASE ~fits
    <3>1. batch' = batch
      BY <2>2, <2>5
    <3>2. \A v \in Units : prepared'[v] => prepared[v]
      BY <2>3, <2>5
    <3>. QED
      BY <1>7, <2>2, <3>1, <3>2
  <2>. QED
    BY <2>4, <2>5
<1>12. ASSUME NEW u \in Units, StartSubmitted(u)
       PROVE  DecodedBounded'
  <2>1. /\ jobs' = Append(jobs, NewTask(u, cached[u]))
        /\ UNCHANGED <<completions, batch, prepared>>
    BY <1>12, Zenon DEF StartSubmitted, Submit
  <2>2. NewTask(u, cached[u]) \in Task /\ NewTask(u, cached[u]).outcome = "running"
    BY DEF NewTask, Task, TypeOK, RecordsOK
  <2>. QED
    BY <1>8, <2>1, <2>2, Zenon
<1>13. ASSUME NEW u \in Units, AdmitPrepares(u)
       PROVE  DecodedBounded'
  <2>1. /\ jobs' = Append(jobs, NewTask(u, TRUE))
        /\ UNCHANGED <<completions, batch, prepared>>
    BY <1>13, Zenon DEF AdmitPrepares, Submit
  <2>2. NewTask(u, TRUE) \in Task /\ NewTask(u, TRUE).outcome = "running"
    BY DEF NewTask, Task
  <2>. QED
    BY <1>8, <2>1, <2>2, Zenon
<1>14. ASSUME NEW u \in Units,
              StartUndesired(u) \/ AdmitRejected(u) \/ AdmitCommitted(u)
       PROVE  DecodedBounded'
  <2>1. UNCHANGED <<jobs, completions, batch>>
    BY <1>14 DEF StartUndesired, AdmitRejected, AdmitCommitted
  <2>2. \/ prepared' = [prepared EXCEPT ![u] = @ /\ residency[u] # "Available"]
        \/ prepared' = [prepared EXCEPT ![u] = FALSE]
    BY <1>14, Zenon DEF StartUndesired, AdmitRejected, AdmitCommitted
  <2>3. \A v \in Units : prepared'[v] => prepared[v]
    BY <1>2, <2>2, Zenon
  <2>. QED
    BY <1>7, <2>1, <2>3
<1>15. CASE UNCHANGED <<jobs, completions, batch, prepared>>
  BY <1>7, <1>15
<1>. QED
  BY <1>4, <1>5, <1>6, <1>9, <1>10, <1>11, <1>12, <1>13, <1>14, <1>15
     DEF Next, Continue, Worker, Demand, CallAfterStop, vars, control, demand, records,
         budgets, Gameplay, AdjustDependencies, AdjustReturn, ManifestFailed,
         ManifestArrived, BootstrapRequest, BootstrapDone, CompletionDiscarded,
         CompletionFailed, StartDone, AdmitDone, EvictDone,
         StartSkipped, StartDeferred, AdmitSkipped, EvictSkipped, EvictForgotten,
         EvictDestroyed, RequestContent, ReleaseContent, PinContent, UnpinContent,
         RetryContent, Request, EnterAdjust

\* Every byte counter that the admission of work reads is exact and within its
\* limit: reservations, completed, cached and decoded bytes.
THEOREM BytesHold == Spec => []BytesExact
<1>. DEFINE Inv == SlotsExact /\ QueueBytes /\ CacheBounded /\ DecodedBounded
<1>1. Init => Inv
  <2>. SUFFICES ASSUME Init PROVE Inv
    OBVIOUS
  <2>. DEFINE first == NewTask(ManifestUnit, FALSE)
  <2>1. /\ jobs = <<first>> /\ completions = <<>> /\ batch = <<>> /\ phase = "idle"
        /\ reserved = 0 /\ completionBytes = 0 /\ cachedBytes = 0
    BY DEF Init
  <2>2. first \in Task /\ first.unit = ManifestUnit
    BY DEF NewTask, Task
  <2>. HIDE DEF first
  <2>3. SlotsExact
    BY ConstantTypes DEF Init, SlotsExact, BatchLeft, Bootstrapping
  <2>4. ReservedWeight[first] = 0 /\ DocumentWeight[first] = 0
    BY <2>2 DEF ReservedWeight, DocumentWeight, SizeOf
  <2>5. SeqTotal(ReservedWeight, jobs) = 0 /\ SeqTotal(DocumentWeight, jobs) = 0
    <3>1. /\ SeqTotal(ReservedWeight, <<first>>) = ReservedWeight[first]
          /\ SeqTotal(DocumentWeight, <<first>>) = DocumentWeight[first]
      BY <2>2, Weights, SeqTotalSingle, Zenon
    <3>. QED
      BY <2>1, <2>4, <3>1
  <2>6. /\ MaximumCompletedPayloadBytes \in Nat /\ MaximumCachedPayloadBytes \in Nat
        /\ MaximumDecodedDocumentBytes \in Nat
    BY LimitsAssumption
  <2>7. /\ SeqTotal(ReservedWeight, completions) = 0 /\ ContentBytes(completions) = 0
        /\ HeldDocuments(completions) = 0 /\ HeldDocuments(batch) = 0
    BY <2>1, SeqTotalEmpty DEF ContentBytes, HeldDocuments
  <2>8. Unprocessed = <<>> /\ SeqTotal(ReservedWeight, Unprocessed) = 0
    BY <2>1, SeqTotalEmpty DEF Unprocessed, Bootstrapping
  <2>9. QueueBytes
    BY <2>1, <2>5, <2>6, <2>7, <2>8 DEF QueueBytes
  <2>10. {u \in Units : cached[u]} = {} /\ {u \in Units : prepared[u]} = {}
    BY Zenon DEF Init
  <2>11. BytesOf({}) = 0 /\ Total(DecodedBytes, {}) = 0
    BY TotalEmpty DEF BytesOf
  <2>12. CacheBounded
    <3>1. cachedBytes = BytesOf({u \in Units : cached[u]})
      BY <2>1, <2>10, <2>11, Zenon
    <3>2. cachedBytes <= MaximumCachedPayloadBytes
      BY <2>1, <2>6
    <3>. QED
      BY <3>1, <3>2 DEF CacheBounded
  <2>13. DecodedBounded
    <3>1. HeldDocuments(jobs) = 0
      BY <2>5 DEF HeldDocuments
    <3>. QED
      BY <2>6, <2>7, <2>10, <2>11, <3>1 DEF Decoded, DecodedBounded
  <2>. QED
    BY <2>3, <2>9, <2>12, <2>13
<1>2. TypeOK /\ TypeOK' /\ Inv /\ [Next]_vars => Inv'
  BY SlotsStep, QueueBytesStep, CacheStep, DecodedStep
<1>3. TypeOK /\ Inv => BytesExact
  BY ReservationsFollow DEF BytesExact
<1>. QED
  BY <1>1, <1>2, <1>3, TypeCorrect, PTL DEF Spec

-----------------------------------------------------------------------------
(* Demand carried to dependencies.                                         *)

\* How many wanted units depend on d, and how often d still waits on the stack
\* of AdjustDependencies.
Wanted(d) == {u \in Dependents(d) : Desire(u) > 0}

Wants(d) == Cardinality(Wanted(d))

Stacked(d) == Occurrences(Units, d, work)

\* While an adjustment runs, the stack holds exactly what dependency demand lacks,
\* or has too much.
DemandBalance(d) ==
    IF phase # "adjust" THEN dependency[d] = Wants(d)
    ELSE IF adding THEN dependency[d] + Stacked(d) = Wants(d)
    ELSE dependency[d] = Wants(d) + Stacked(d)

DemandBalanced == phase # "stopped" => \A d \in Units : DemandBalance(d)

\* A number for a condition.
One(condition) == IF condition THEN 1 ELSE 0

\* A manifest entry names each of its dependencies once.
LEMMA DependencyCount ==
    ASSUME NEW u \in Units, NEW d \in Units
    PROVE  Occurrences(Units, d, Dependencies[u]) = One(u \in Dependents(d))
<1>. DEFINE s == Dependencies[u]
<1>1. s \in Seq(Units) /\ \A j, k \in DOMAIN s : j < k => s[j] < s[k]
  BY UnitsAssumption, ManifestAssumption
<1>2. \A j, k \in DOMAIN s : s[j] = s[k] => j = k
  <2>. SUFFICES ASSUME NEW j \in DOMAIN s, NEW k \in DOMAIN s, s[j] = s[k]
                PROVE  j = k
    OBVIOUS
  <2>1. j \in Nat /\ k \in Nat /\ s[j] \in Int /\ s[k] \in Int
    BY <1>1, UnitsAssumption DEF Units
  <2>. HIDE DEF s
  <2>. QED
    BY <1>1, <2>1
<1>3. u \in Dependents(d) <=> \E i \in DOMAIN s : s[i] = d
  BY DEF Dependents, DependenciesOf, Range
<1>. HIDE DEF s
<1>4. Occurrences(Units, d, s) = IF \E i \in DOMAIN s : s[i] = d THEN 1 ELSE 0
  BY <1>1, <1>2, OccursOnce
<1>. QED
  BY <1>3, <1>4 DEF One, s

\* The dependents of a unit are finitely many.
LEMMA DependentsFinite ==
    ASSUME NEW d, NEW S \in SUBSET Dependents(d)
    PROVE  IsFiniteSet(S) /\ Cardinality(S) \in Nat
<1>1. S \in SUBSET Units
  BY DEF Dependents
<1>. QED
  BY <1>1, UnitsFinite, FS_Subset, FS_CardinalityType

\* One unit enters or leaves a finite set.
LEMMA OneMember ==
    ASSUME NEW S, IsFiniteSet(S), NEW T, IsFiniteSet(T), NEW u, S \ {u} = T \ {u}
    PROVE  Cardinality(T) + One(u \in S) = Cardinality(S) + One(u \in T)
<1>1. /\ Cardinality(S) \in Nat /\ Cardinality(T) \in Nat
      /\ Cardinality(S \ {u}) = IF u \in S THEN Cardinality(S) - 1 ELSE Cardinality(S)
      /\ Cardinality(T \ {u}) = IF u \in T THEN Cardinality(T) - 1 ELSE Cardinality(T)
  BY FS_RemoveElement, FS_CardinalityType
<1>. QED
  BY <1>1 DEF One

\* The demand of one unit changes.
LEMMA WantedStep ==
    ASSUME NEW u \in Units, \A v \in Units : v # u => Desire(v)' = Desire(v)
    PROVE  \A d \in Units :
              /\ Wants(d) \in Nat /\ Wants(d)' \in Nat
              /\ Wants(d)' + One(u \in Dependents(d) /\ Desire(u) > 0)
                   = Wants(d) + One(u \in Dependents(d) /\ Desire(u)' > 0)
<1>. SUFFICES ASSUME NEW d \in Units
              PROVE  /\ Wants(d) \in Nat /\ Wants(d)' \in Nat
                     /\ Wants(d)' + One(u \in Dependents(d) /\ Desire(u) > 0)
                          = Wants(d) + One(u \in Dependents(d) /\ Desire(u)' > 0)
  OBVIOUS
<1>. DEFINE S == Wanted(d)  T == Wanted(d)'
<1>1. Dependents(d) \subseteq Units
  BY DEF Dependents
<1>. DEFINE D == Dependents(d)
<1>2. S = {v \in D : Desire(v) > 0} /\ T = {v \in D : Desire(v)' > 0}
  BY DEF Wanted
<1>. HIDE DEF D
<1>3. S \ {u} = T \ {u}
  <2>. HIDE DEF S, T
  <2>. SUFFICES \A v : v \in S \ {u} <=> v \in T \ {u}
    OBVIOUS
  <2>. QED
    BY <1>1, <1>2, Zenon DEF D
<1>4. /\ u \in S <=> (u \in D /\ Desire(u) > 0)
      /\ u \in T <=> (u \in D /\ Desire(u)' > 0)
  BY <1>2, Zenon
<1>5. S \in SUBSET Dependents(d) /\ T \in SUBSET Dependents(d)
  BY <1>2 DEF D
<1>. HIDE DEF S, T
<1>6. /\ IsFiniteSet(S) /\ IsFiniteSet(T)
      /\ Cardinality(S) \in Nat /\ Cardinality(T) \in Nat
  BY <1>5, DependentsFinite
<1>7. Cardinality(T) + One(u \in S) = Cardinality(S) + One(u \in T)
  BY <1>3, <1>6, OneMember
<1>8. One(u \in S) = One(u \in D /\ Desire(u) > 0) /\ One(u \in T) = One(u \in D /\ Desire(u)' > 0)
  BY <1>4 DEF One
<1>. QED
  BY <1>6, <1>7, <1>8, Zenon DEF Wants, S, T, D

\* The first or the last demand of a unit stacks its dependencies; another one
\* changes nothing for them.
LEMMA DemandEnters ==
    ASSUME DemandOK, DemandBalanced, phase \notin {"adjust", "stopped"},
           NEW u \in Units, \A v \in Units : v # u => Desire(v)' = Desire(v),
           UNCHANGED dependency,
           \/ /\ Desire(u) = 0 /\ Desire(u)' = 1
              /\ phase' = "adjust" /\ adding' = TRUE /\ work' = Dependencies[u]
           \/ /\ Desire(u) = 1 /\ Desire(u)' = 0
              /\ phase' = "adjust" /\ adding' = FALSE /\ work' = Dependencies[u]
           \/ /\ (Desire(u) > 0 <=> Desire(u)' > 0)
              /\ phase' \notin {"adjust", "stopped"}
    PROVE  DemandBalanced'
<1>. SUFFICES ASSUME NEW d \in Units PROVE DemandBalance(d)'
  BY DEF DemandBalanced
<1>1. dependency[d] = Wants(d) /\ dependency[d]' = dependency[d]
  BY DEF DemandBalanced, DemandBalance
<1>2. /\ Wants(d) \in Nat /\ Wants(d)' \in Nat
      /\ Wants(d)' + One(u \in Dependents(d) /\ Desire(u) > 0)
           = Wants(d) + One(u \in Dependents(d) /\ Desire(u)' > 0)
  BY WantedStep, Zenon
<1>3. work' = Dependencies[u] => Stacked(d)' = One(u \in Dependents(d))
  BY DependencyCount DEF Stacked
<1>4. One(u \in Dependents(d)) \in Nat
  BY DEF One
<1>. HIDE DEF Wants, Stacked, Desire
<1>5. CASE Desire(u) = 0 /\ Desire(u)' = 1 /\ phase' = "adjust" /\ adding' = TRUE
           /\ work' = Dependencies[u]
  <2>1. Wants(d)' = Wants(d) + One(u \in Dependents(d))
    BY <1>2, <1>5 DEF One
  <2>. QED
    BY <1>1, <1>2, <1>3, <1>4, <1>5, <2>1 DEF DemandBalance
<1>6. CASE Desire(u) = 1 /\ Desire(u)' = 0 /\ phase' = "adjust" /\ adding' = FALSE
           /\ work' = Dependencies[u]
  <2>1. Wants(d)' + One(u \in Dependents(d)) = Wants(d)
    BY <1>2, <1>6 DEF One
  <2>. QED
    BY <1>1, <1>2, <1>3, <1>4, <1>6, <2>1 DEF DemandBalance
<1>7. CASE (Desire(u) > 0 <=> Desire(u)' > 0) /\ phase' \notin {"adjust", "stopped"}
  <2>1. Wants(d)' = Wants(d)
    BY <1>2, <1>7 DEF One
  <2>. QED
    BY <1>1, <1>7, <2>1 DEF DemandBalance
<1>. QED
  BY <1>5, <1>6, <1>7

\* Popping a unit from the stack keeps the balance of every unit.
LEMMA DemandPops ==
    ASSUME TypeOK, DemandBalanced, AdjustDependencies
    PROVE  DemandBalanced'
<1>1. /\ work \in Seq(Units) /\ work # <<>> /\ phase = "adjust" /\ phase' = "adjust"
      /\ adding \in BOOLEAN /\ adding' = adding /\ UNCHANGED <<direct, pins>>
      /\ direct \in [Units -> Nat] /\ dependency \in [Units -> Nat] /\ pins \in [Units -> Nat]
  BY DEF AdjustDependencies, TypeOK, ControlOK, DemandOK
<1>2. PICK e \in Units, rest \in Seq(Units) :
           e = work[Len(work)] /\ rest = SubSeq(work, 1, Len(work) - 1)
  BY <1>1, PopIsStack
<1>3. work = rest \o <<e>>
  <2>1. Len(work) \in Nat /\ Len(work) >= 1
    BY <1>1
  <2>2. SubSeq(work, 1, Len(work)) = SubSeq(work, 1, Len(work) - 1) \o <<work[Len(work)]>>
    <3>1. 1 \in 1..Len(work) /\ Len(work) \in 1..Len(work)
      BY <2>1
    <3>. QED
      BY <1>1, <3>1, SubSeqRecursiveSecond, Zenon
  <2>. QED
    BY <1>1, <1>2, <2>2, SubSeqFull
<1>4. /\ ~adding /\ dependency[e] = 0 => work' = rest /\ dependency' = dependency
      /\ adding \/ dependency[e] # 0 =>
           /\ dependency' = [dependency EXCEPT ![e] = IF adding THEN @ + 1 ELSE @ - 1]
           /\ work' = IF Propagates(e) THEN rest \o Dependencies[e] ELSE rest
  BY <1>2 DEF AdjustDependencies
<1>5. ASSUME NEW d \in Units
      PROVE  /\ Stacked(d) = Occurrences(Units, d, rest) + One(e = d)
             /\ Occurrences(Units, d, rest) \in Nat
             /\ Occurrences(Units, d, rest \o Dependencies[e])
                  = Occurrences(Units, d, rest) + One(e \in Dependents(d))
  <2>1. <<e>> \in Seq(Units) /\ Dependencies[e] \in Seq(Units)
    BY <1>2, UnitsAssumption
  <2>2. /\ Occurrences(Units, d, rest \o <<e>>)
             = Occurrences(Units, d, rest) + Occurrences(Units, d, <<e>>)
        /\ Occurrences(Units, d, <<e>>) = IF e = d THEN 1 ELSE 0
        /\ Occurrences(Units, d, rest) \in Nat
        /\ Occurrences(Units, d, rest \o Dependencies[e])
             = Occurrences(Units, d, rest) + Occurrences(Units, d, Dependencies[e])
    BY <1>2, <2>1, OccurrencesConcat, Zenon
  <2>3. Occurrences(Units, d, Dependencies[e]) = One(e \in Dependents(d))
    BY <1>2, DependencyCount
  <2>. QED
    BY <1>3, <2>2, <2>3 DEF Stacked, One
<1>6. ASSUME NEW d \in Units
      PROVE  /\ phase # "stopped" /\ DemandBalance(d)
             /\ One(e = d) \in {0, 1} /\ One(e \in Dependents(d)) \in {0, 1}
  BY <1>1 DEF DemandBalanced, DemandBalance, One
<1>7. adding \/ dependency[e] # 0
  <2>. SUFFICES ASSUME ~adding PROVE dependency[e] # 0
    BY <1>1
  <2>1. dependency[e] = Wants(e) + Stacked(e)
    BY <1>1, <1>2, <1>6 DEF DemandBalance
  <2>2. Wants(e) \in Nat
    BY <1>2, DependentsFinite DEF Wants, Wanted
  <2>3. Stacked(e) = Occurrences(Units, e, rest) + 1 /\ Occurrences(Units, e, rest) \in Nat
    BY <1>2, <1>5 DEF One
  <2>. HIDE DEF Wants, Stacked
  <2>. QED
    BY <2>1, <2>2, <2>3
<1>8. \A v \in Units : v # e => Desire(v)' = Desire(v)
  BY <1>1, <1>2, <1>4, <1>7 DEF Desire
<1>9. /\ dependency[e] \in Nat /\ Desire(e) \in Nat /\ Desire(e) >= dependency[e]
      /\ Desire(e)' = IF adding THEN Desire(e) + 1 ELSE Desire(e) - 1
      /\ \A d \in Units : dependency[d]' = IF d # e THEN dependency[d]
                                           ELSE IF adding THEN dependency[d] + 1
                                           ELSE dependency[d] - 1
  <2>1. /\ direct[e] \in Nat /\ dependency[e] \in Nat /\ pins[e] \in Nat
        /\ direct'[e] = direct[e] /\ pins'[e] = pins[e]
    BY <1>1, <1>2
  <2>2. dependency' = [dependency EXCEPT ![e] = IF adding THEN dependency[e] + 1
                                                ELSE dependency[e] - 1]
    BY <1>4, <1>7
  <2>3. \A d \in Units : dependency'[d] = IF d # e THEN dependency[d]
                                          ELSE IF adding THEN dependency[e] + 1
                                          ELSE dependency[e] - 1
    BY <1>1, <2>2, Zenon
  <2>4. dependency'[e] = IF adding THEN dependency[e] + 1 ELSE dependency[e] - 1
    BY <2>3
  <2>5. Desire(e) = (direct[e] + dependency[e]) + pins[e]
    BY <2>1 DEF Desire
  <2>6. Desire(e)' = (direct[e] + dependency'[e]) + pins[e]
    BY <2>1, <2>4 DEF Desire
  <2>7. /\ dependency[e] \in Nat /\ Desire(e) \in Nat /\ Desire(e) >= dependency[e]
        /\ Desire(e)' = IF adding THEN Desire(e) + 1 ELSE Desire(e) - 1
    BY <2>1, <2>4, <2>5, <2>6
  <2>. QED
    BY <2>3, <2>7
<1>10. \A d \in Units :
          /\ Wants(d) \in Nat /\ Wants(d)' \in Nat
          /\ Wants(d)' + One(e \in Dependents(d) /\ Desire(e) > 0)
               = Wants(d) + One(e \in Dependents(d) /\ Desire(e)' > 0)
  BY <1>2, <1>8, WantedStep, Zenon
<1>11. ASSUME NEW d \in Units
       PROVE  Stacked(d)' = Occurrences(Units, d, rest)
                              + (IF Propagates(e) THEN One(e \in Dependents(d)) ELSE 0)
  <2>1. work' = IF Propagates(e) THEN rest \o Dependencies[e] ELSE rest
    BY <1>4, <1>7
  <2>2. Stacked(d)' = Occurrences(Units, d, work')
    BY DEF Stacked
  <2>. QED
    BY <1>5, <2>1, <2>2
<1>. SUFFICES ASSUME NEW d \in Units PROVE DemandBalance(d)'
  BY DEF DemandBalanced
<1>. DEFINE w == Wants(d)  s == Occurrences(Units, d, rest)  q == dependency[d]
            x == One(e \in Dependents(d))
<1>12. /\ w \in Nat /\ s \in Nat /\ x \in {0, 1} /\ Wants(d)' \in Nat /\ q \in Nat
       /\ Stacked(d) = s + One(e = d)
       /\ Stacked(d)' = s + (IF Propagates(e) THEN x ELSE 0)
       /\ dependency[d]' = IF d # e THEN q ELSE IF adding THEN q + 1 ELSE q - 1
  BY <1>1, <1>5, <1>6, <1>9, <1>10, <1>11
<1>. HIDE DEF Wants, Stacked, Desire
<1>13. CASE adding
  <2>1. q + Stacked(d) = w
    BY <1>1, <1>6, <1>13 DEF DemandBalance
  <2>2. Wants(d)' = w + (IF Propagates(e) THEN x ELSE 0)
    BY <1>9, <1>10, <1>13 DEF One, Propagates, FirstDemand
  <2>. HIDE DEF w, s, q, x
  <2>3. dependency[d]' + Stacked(d)' = Wants(d)'
    BY <1>12, <1>13, <2>1, <2>2 DEF One
  <2>. QED
    BY <1>1, <1>13, <2>3 DEF DemandBalance
<1>14. CASE ~adding
  <2>1. q = w + Stacked(d)
    BY <1>1, <1>6, <1>14 DEF DemandBalance
  <2>2. w = Wants(d)' + (IF Propagates(e) THEN x ELSE 0)
    BY <1>7, <1>9, <1>10, <1>14 DEF One, Propagates, LastDemand
  <2>. HIDE DEF w, s, q, x
  <2>3. dependency[d]' = Wants(d)' + Stacked(d)'
    BY <1>12, <1>14, <2>1, <2>2 DEF One
  <2>. QED
    BY <1>1, <1>14, <2>3 DEF DemandBalance
<1>. QED
  BY <1>1, <1>13, <1>14

\* One more or one less direct demand or pin of a unit.
LEMMA DesireStep ==
    ASSUME DemandOK, DemandOK', NEW u \in Units, UNCHANGED dependency,
           \/ direct' = [direct EXCEPT ![u] = @ + 1] /\ UNCHANGED pins
           \/ pins' = [pins EXCEPT ![u] = @ + 1] /\ UNCHANGED direct
    PROVE  /\ Desire(u) \in Nat /\ Desire(u)' = Desire(u) + 1
           /\ \A v \in Units : v # u => Desire(v)' = Desire(v)
BY DEF DemandOK, Desire

\* The same of a release or an unpin.
LEMMA DesireFalls ==
    ASSUME DemandOK, DemandOK', NEW u \in Units, UNCHANGED dependency,
           \/ direct' = [direct EXCEPT ![u] = @ - 1] /\ UNCHANGED pins
           \/ pins' = [pins EXCEPT ![u] = @ - 1] /\ UNCHANGED direct
    PROVE  /\ Desire(u)' \in Nat /\ Desire(u)' = Desire(u) - 1
           /\ \A v \in Units : v # u => Desire(v)' = Desire(v)
BY DEF DemandOK, Desire

\* Every step keeps dependency demand balanced.
LEMMA BalanceStep ==
    ASSUME TypeOK, TypeOK', DemandBalanced, [Next]_vars
    PROVE  DemandBalanced'
<1>0. DemandOK /\ DemandOK' /\ resume \in {"idle", "bootstrap", "admit"}
  BY DEF TypeOK, ControlOK
<1>1. CASE /\ UNCHANGED demand
           /\ phase \notin {"adjust", "stopped"} /\ phase' \notin {"adjust", "stopped"}
  BY <1>1 DEF DemandBalanced, DemandBalance, Wants, Wanted, Desire, demand
<1>2. CASE UNCHANGED <<demand, phase, adding, work>>
  BY <1>2 DEF DemandBalanced, DemandBalance, Wants, Wanted, Desire, demand, Stacked
<1>3. CASE AdjustDependencies
  BY <1>3, DemandPops
<1>4. CASE AdjustReturn
  <2>1. /\ phase = "adjust" /\ phase' \in {"idle", "bootstrap", "admit"} /\ work = <<>>
        /\ UNCHANGED demand
    BY <1>0, <1>4 DEF AdjustReturn
  <2>. SUFFICES ASSUME NEW d \in Units PROVE DemandBalance(d)'
    BY DEF DemandBalanced
  <2>2. Stacked(d) = 0
    BY <2>1, OccurrencesConcat DEF Stacked
  <2>3. DemandBalance(d)
    BY <2>1 DEF DemandBalanced
  <2>4. Wants(d)' = Wants(d) /\ Wants(d) \in Nat /\ dependency[d] \in Nat
        /\ dependency'[d] = dependency[d]
    <3>1. Wants(d) \in Nat
      BY DependentsFinite DEF Wants, Wanted
    <3>. QED
      BY <1>0, <2>1, <3>1 DEF Wants, Wanted, Desire, demand, DemandOK
  <2>. HIDE DEF Wants, Stacked
  <2>. QED
    BY <2>1, <2>2, <2>3, <2>4 DEF DemandBalance
<1>5. CASE Stop
  BY <1>5 DEF Stop, DemandBalanced
<1>6. ASSUME NEW u \in Units, phase \notin {"adjust", "stopped"}, UNCHANGED dependency,
             \/ direct' = [direct EXCEPT ![u] = @ + 1] /\ UNCHANGED pins
             \/ pins' = [pins EXCEPT ![u] = @ + 1] /\ UNCHANGED direct,
             NEW return \in {"idle", "bootstrap"},
             IF FirstDemand(u) THEN EnterAdjust(u, TRUE, return)
             ELSE phase' = return
      PROVE  DemandBalanced'
  <2>1. /\ Desire(u) \in Nat /\ Desire(u)' = Desire(u) + 1
        /\ \A v \in Units : v # u => Desire(v)' = Desire(v)
    BY <1>0, <1>6, DesireStep
  <2>2. CASE Desire(u) = 0
    <3>1. /\ phase' = "adjust" /\ adding' = TRUE /\ work' = Dependencies[u]
          /\ Desire(u)' = 1
      BY <1>6, <2>1, <2>2 DEF FirstDemand, EnterAdjust
    <3>. QED
      BY <1>0, <1>6, <2>1, <2>2, <3>1, DemandEnters, Zenon
  <2>3. CASE Desire(u) # 0
    <3>1. phase' \notin {"adjust", "stopped"} /\ Desire(u) > 0 /\ Desire(u)' > 0
      BY <1>6, <2>1, <2>3 DEF FirstDemand
    <3>. QED
      BY <1>0, <1>6, <2>1, <3>1, DemandEnters, Zenon
  <2>. QED
    BY <2>2, <2>3
<1>7. ASSUME NEW u \in Units, phase \notin {"adjust", "stopped"}, UNCHANGED dependency,
             \/ direct' = [direct EXCEPT ![u] = @ - 1] /\ UNCHANGED pins
             \/ pins' = [pins EXCEPT ![u] = @ - 1] /\ UNCHANGED direct,
             IF LastDemand(u) THEN EnterAdjust(u, FALSE, "idle")
             ELSE UNCHANGED <<phase, resume, batch, cursor, work, adding, tick>>
      PROVE  DemandBalanced'
  <2>1. /\ Desire(u)' \in Nat /\ Desire(u)' = Desire(u) - 1
        /\ \A v \in Units : v # u => Desire(v)' = Desire(v)
    BY <1>0, <1>7, DesireFalls
  <2>0. Desire(u) \in Nat
    BY <1>0 DEF DemandOK, Desire
  <2>2. CASE Desire(u) = 1
    <3>1. /\ phase' = "adjust" /\ adding' = FALSE /\ work' = Dependencies[u]
          /\ Desire(u)' = 0
      BY <1>7, <2>1, <2>2 DEF LastDemand, EnterAdjust
    <3>. QED
      BY <1>0, <1>7, <2>1, <2>2, <3>1, DemandEnters, Zenon
  <2>3. CASE Desire(u) # 1
    <3>1. phase' \notin {"adjust", "stopped"} /\ Desire(u) > 0 /\ Desire(u)' > 0
      BY <1>7, <2>0, <2>1, <2>3 DEF LastDemand
    <3>. QED
      BY <1>0, <1>7, <2>1, <3>1, DemandEnters, Zenon
  <2>. QED
    BY <2>2, <2>3
<1>8. ASSUME NEW u \in Units, Demand(u) PROVE DemandBalanced'
  <2>1. CASE RequestContent(u)
    <3>1. /\ phase = "idle" /\ direct' = [direct EXCEPT ![u] = @ + 1]
          /\ UNCHANGED <<pins, dependency>>
          /\ IF FirstDemand(u) THEN EnterAdjust(u, TRUE, "idle") ELSE phase' = "idle"
      BY <2>1 DEF RequestContent, Request, Callable
    <3>. QED
      BY <3>1, <1>6, Zenon
  <2>2. CASE ReleaseContent(u)
    <3>1. /\ phase = "idle" /\ direct' = [direct EXCEPT ![u] = @ - 1]
          /\ UNCHANGED <<pins, dependency>>
          /\ IF LastDemand(u) THEN EnterAdjust(u, FALSE, "idle")
             ELSE UNCHANGED <<phase, resume, batch, cursor, work, adding, tick>>
      BY <2>2 DEF ReleaseContent, Callable
    <3>. QED
      BY <3>1, <1>7
  <2>3. CASE PinContent(u)
    <3>1. /\ phase = "idle" /\ pins' = [pins EXCEPT ![u] = @ + 1]
          /\ UNCHANGED <<direct, dependency>>
          /\ IF FirstDemand(u) THEN EnterAdjust(u, TRUE, "idle") ELSE phase' = "idle"
      BY <2>3 DEF PinContent, Callable
    <3>. QED
      BY <3>1, <1>6, Zenon
  <2>4. CASE UnpinContent(u)
    <3>1. /\ phase = "idle" /\ pins' = [pins EXCEPT ![u] = @ - 1]
          /\ UNCHANGED <<direct, dependency>>
          /\ IF LastDemand(u) THEN EnterAdjust(u, FALSE, "idle")
             ELSE UNCHANGED <<phase, resume, batch, cursor, work, adding, tick>>
      BY <2>4 DEF UnpinContent, Callable
    <3>. QED
      BY <3>1, <1>7
  <2>5. CASE RetryContent(u)
    BY <2>5, <1>1 DEF RetryContent, Callable
  <2>. QED
    BY <1>8, <2>1, <2>2, <2>3, <2>4, <2>5 DEF Demand
<1>9. CASE BootstrapRequest
  <2>1. /\ phase = "bootstrap" /\ index \in Units /\ UNCHANGED <<pins, dependency>>
    BY <1>9 DEF BootstrapRequest
  <2>2. CASE index \in Bootstrap
    <3>1. /\ direct' = [direct EXCEPT ![index] = @ + 1]
          /\ IF FirstDemand(index) THEN EnterAdjust(index, TRUE, "bootstrap")
             ELSE phase' = "bootstrap"
      BY <1>9, <2>2 DEF BootstrapRequest, Request
    <3>2. PICK u \in Units : u = index
      BY <2>1
    <3>3. /\ direct' = [direct EXCEPT ![u] = @ + 1]
          /\ IF FirstDemand(u) THEN EnterAdjust(u, TRUE, "bootstrap")
             ELSE phase' = "bootstrap"
      BY <3>1, <3>2
    <3>. QED
      BY <2>1, <3>3, <1>6, Zenon
  <2>3. CASE index \notin Bootstrap
    BY <1>1, <1>9, <2>3 DEF BootstrapRequest, demand
  <2>. QED
    BY <2>2, <2>3
<1>10. ASSUME NEW u \in Units,
              \/ StartUndesired(u) \/ StartSkipped(u) \/ StartDeferred(u)
              \/ StartSubmitted(u) \/ AdmitSkipped(u) \/ AdmitPrepares(u)
              \/ AdmitRejected(u) \/ AdmitCommitted(u)
              \/ EvictSkipped(u) \/ EvictForgotten(u) \/ EvictDestroyed(u)
       PROVE  UNCHANGED <<demand, phase, adding, work>>
  BY <1>10 DEF StartUndesired, StartSkipped, StartDeferred, StartSubmitted, AdmitSkipped,
               AdmitPrepares, AdmitRejected, AdmitCommitted, EvictSkipped, EvictForgotten,
               EvictDestroyed
<1>11. CASE \/ ManifestFailed \/ ManifestArrived \/ CompletionDiscarded \/ CompletionFailed
            \/ CompletionAccepted \/ Step \/ BootstrapDone \/ CompletionsDone
            \/ StartDone \/ AdmitDone \/ EvictDone
  <2>1. /\ UNCHANGED demand
        /\ phase \notin {"adjust", "stopped"} /\ phase' \notin {"adjust", "stopped"}
    BY <1>0, <1>11
       DEF ManifestFailed, ManifestArrived, CompletionDiscarded, CompletionFailed,
           CompletionAccepted, Step, BootstrapDone, CompletionsDone, StartDone, AdmitDone,
           EvictDone, Processing
  <2>. QED
    BY <1>1, <2>1
<1>12. CASE (\E k \in 1..WorkerCount : Worker(k)) \/ (\E u \in Units : Gameplay(u))
            \/ CallAfterStop \/ UNCHANGED vars
  BY <1>2, <1>12 DEF Worker, WorkerPrepare, WorkerPublish, Gameplay, CallAfterStop, vars, control
<1>. QED
  BY <1>3, <1>4, <1>5, <1>8, <1>9, <1>10, <1>2, <1>11, <1>12, Zenon DEF Next, Continue

\* Between two calls, the dependency demand of a unit is the number of wanted
\* units that depend on it, whatever requests, releases, pins and unpins have
\* carried through the closure.
THEOREM DemandHolds == Spec => []DemandConserved
<1>1. Init => DemandBalanced
  <2>. SUFFICES ASSUME Init, NEW d \in Units PROVE DemandBalance(d)
    BY DEF DemandBalanced
  <2>1. phase = "idle" /\ dependency[d] = 0 /\ \A u \in Units : Desire(u) = 0
    BY DEF Init, Desire
  <2>2. Wanted(d) = {}
    BY <2>1 DEF Wanted, Dependents
  <2>. QED
    BY <2>1, <2>2, FS_EmptySet DEF DemandBalance, Wants
<1>2. TypeOK /\ TypeOK' /\ DemandBalanced /\ [Next]_vars => DemandBalanced'
  BY BalanceStep
<1>3. DemandBalanced => DemandConserved
  BY DEF DemandBalanced, DemandBalance, DemandConserved, Wants, Wanted
<1>. QED
  BY <1>1, <1>2, <1>3, TypeCorrect, PTL DEF Spec

=============================================================================
