------------------------- MODULE ContentAvailability -------------------------
(***************************************************************************)
(* The content availability service of the runtime                         *)
(* (src/src/content/ContentAvailability.cpp).  A package manifest names    *)
(* content units, their payload sizes and their dependencies.  Callers put *)
(* demand on units; the service acquires payloads on a worker pool, caches *)
(* the immutable bytes, admits decoded units into the live world           *)
(* dependencies first, and evicts units that nobody wants.                 *)
(*                                                                         *)
(* Two kinds of actor interleave: the thread that owns the service (the    *)
(* API calls and Step, whose loops advance one record per action, `phase'  *)
(* being its program counter) and the workers of the job pool, which share *)
(* with it the completion queue, the cancellation flags and the budget of  *)
(* decoded bytes.  API calls and gameplay run between two Steps.           *)
(***************************************************************************)
EXTENDS Integers, Sequences, FiniteSets, FiniteSetsExt, Aggregates

CONSTANTS
    UnitCount,          \* entries of the manifest
    Dependencies,       \* Entry.Dependencies, as a sequence of units, per unit
    Bootstrap,          \* units requested when the manifest arrives
    CompressedBytes,    \* Entry.CompressedBytes (= UncompressedBytes), per unit
    ObjectCount,        \* Entry.ObjectCount, per unit
    DecodedBytes,       \* retained bytes of the decoded document, per unit
    WorkerCount,
    MaximumInFlight,
    MaximumPendingRequests,
    MaximumCompletedPayloadBytes,
    MaximumCachedPayloadBytes,
    MaximumDecodedDocumentBytes,
    MaximumCompletionsPerTick,
    MaximumAdmissionUnitsPerTick,
    MaximumAdmissionObjectsPerTick,
    MaximumAdmissionBytesPerTick,
    MaximumEvictionUnitsPerTick,
    MaximumEvictionObjectsPerTick,
    MaxDemand,          \* model bound on the direct demand of one unit
    MaxPins             \* model bound on the pins of one unit

Units == 1..UnitCount

DependenciesOf(u) == Range(Dependencies[u])

Dependents(u) == {k \in Units : u \in DependenciesOf(k)}

ASSUME UnitsAssumption ==
    /\ UnitCount \in Nat
    /\ Dependencies \in [Units -> Seq(Units)]
    /\ Bootstrap \subseteq Units

\* What ParsePackageContentManifest guarantees of the entries.
ASSUME ManifestAssumption ==
    /\ CompressedBytes \in [Units -> Nat \ {0}]
    /\ ObjectCount \in [Units -> Nat \ {0}]
    /\ DecodedBytes \in [Units -> Nat \ {0}]
    /\ \A u \in Units : \A j, k \in DOMAIN Dependencies[u] :
           j < k => Dependencies[u][j] < Dependencies[u][k]
    /\ \E rank \in [Units -> Units] :
           \A u \in Units : \A d \in DependenciesOf(u) : rank[d] < rank[u]

\* What the constructor demands of the limits: every unit fits every byte and
\* object limit by itself.
ASSUME LimitsAssumption ==
    /\ {WorkerCount, MaximumInFlight, MaximumPendingRequests,
        MaximumCompletionsPerTick, MaximumAdmissionUnitsPerTick,
        MaximumEvictionUnitsPerTick, MaxDemand} \subseteq Nat \ {0}
    /\ {MaximumCompletedPayloadBytes, MaximumCachedPayloadBytes,
        MaximumDecodedDocumentBytes, MaximumAdmissionObjectsPerTick,
        MaximumAdmissionBytesPerTick, MaximumEvictionObjectsPerTick,
        MaxPins} \subseteq Nat
    /\ \A u \in Units :
           /\ CompressedBytes[u] <= MaximumCompletedPayloadBytes
           /\ CompressedBytes[u] <= MaximumCachedPayloadBytes
           /\ CompressedBytes[u] <= MaximumAdmissionBytesPerTick
           /\ ObjectCount[u] <= MaximumAdmissionObjectsPerTick
           /\ ObjectCount[u] <= MaximumEvictionObjectsPerTick

VARIABLES
    phase,              \* where the owning thread is
    resume,             \* where StartRequests or AdjustDependencies returns to
    index,              \* record index of the loop being run
    batch,              \* completions taken by the current Step (Completed)
    cursor,             \* the completion of the batch being processed
    work,               \* stack of AdjustDependencies (PendingDependencies)
    adding,             \* its Add argument
    tick,               \* Units, Objects and Bytes spent by the current loop
    manifest,           \* "inflight", "available", "failed" or "dropped"
    residency,          \* Record::Residency
    direct,             \* Record::DirectDemand
    dependency,         \* Record::DependencyDemand
    pins,               \* Record::Pins
    cancel,             \* Record::RequestCancelled: "none", "live", "cancelled"
    cached,             \* Record::CachedPayload is set (EncodedBytes follows)
    prepared,           \* Record::Prepared is set
    root,               \* Record::Root and what gameplay did to it
    jobs,               \* the job pool: submitted, not yet published, in order
    completions,        \* Completions
    inFlight,           \* InFlight
    pending,            \* Pending
    reserved,           \* ReservedCompletionBytes
    completionBytes,    \* CompletionBytes
    cachedBytes         \* CachedBytes

control == <<phase, resume, index, batch, cursor, work, adding, tick>>
demand  == <<direct, dependency, pins>>
records == <<residency, cancel, cached, prepared, root>>
budgets == <<inFlight, pending, reserved, completionBytes, cachedBytes>>

vars == <<control, demand, records, budgets, manifest, jobs, completions>>

-----------------------------------------------------------------------------
(* Types.                                                                  *)

\* ContentResidencyState.  Admitting and Evicting are set and left within one
\* iteration of the admission and eviction loops, so no other actor sees them.
ResidencyState ==
    {"Unavailable", "Requested", "Acquiring", "Available", "Resident", "Failed"}

\* "extended" is a live root that has a child gameplay created at run time;
\* "destroyed" one that gameplay destroyed.
RootState == {"none", "live", "extended", "destroyed"}

Phase == {"idle", "process", "bootstrap", "adjust", "start", "admit", "evict",
          "stopped"}

ManifestUnit == 0   \* the unit number that stands for the manifest job

\* A job or completion: the unit, whether it decodes cached bytes, and what
\* became of it.  A completion whose document was moved out is "taken".
Task == [unit : Units \cup {ManifestUnit},
         hit : BOOLEAN,
         outcome : {"running", "document", "deferred", "error", "taken"}]

Tick == [units : Nat, objects : Nat, bytes : Nat]

NoTick == [units |-> 0, objects |-> 0, bytes |-> 0]

-----------------------------------------------------------------------------
(* Helpers.                                                                *)

Desire(u) == direct[u] + dependency[u] + pins[u]

SizeOf(u) == IF u = ManifestUnit THEN 0 ELSE CompressedBytes[u]

HasContent(t) == t.unit # ManifestUnit /\ t.outcome \in {"document", "deferred"}

\* What a task counts in ReservedCompletionBytes, in CompletionBytes and, while
\* it keeps a decoded document alive, in Decoded->Bytes.
ReservedWeight == [t \in Task |-> SizeOf(t.unit)]

ContentWeight == [t \in Task |-> IF HasContent(t) THEN SizeOf(t.unit) ELSE 0]

DocumentWeight ==
    [t \in Task |-> IF t.unit # ManifestUnit /\ t.outcome = "document"
                    THEN DecodedBytes[t.unit] ELSE 0]

ContentBytes(s) == SeqTotal(ContentWeight, s)

HeldDocuments(s) == SeqTotal(DocumentWeight, s)

\* Decoded->Bytes: a document is counted from the reservation a worker made
\* until its last holder drops it (~DecodedDocument).
Decoded ==
    HeldDocuments(jobs) + HeldDocuments(completions) + HeldDocuments(batch)
      + Total(DecodedBytes, {u \in Units : prepared[u]})

\* Bytes still free under a limit; the code clamps before it subtracts.
Room(limit, used) == IF used > limit THEN 0 ELSE limit - used

FitsCompletions(u) ==
    CompressedBytes[u] <= Room(MaximumCompletedPayloadBytes, reserved)

DependenciesResident(u) ==
    \A d \in DependenciesOf(u) : residency[d] = "Resident"

\* Variant: trusts demand to keep a dependent from being resident.
HasWantedDependent(u) ==
    \E k \in Dependents(u) : residency[k] = "Resident" /\ Desire(k) > 0

HasResidentDependent(u) ==
    \E k \in Dependents(u) : residency[k] = "Resident"

NewTask(u, hit) == [unit |-> u, hit |-> hit, outcome |-> "running"]

-----------------------------------------------------------------------------
(* The constructor starts the provider and submits the manifest job.       *)

Init ==
    /\ phase = "idle" /\ resume = "idle"
    /\ index = 1 /\ cursor = 1
    /\ batch = <<>> /\ work = <<>>
    /\ adding = FALSE
    /\ tick = NoTick
    /\ manifest = "inflight"
    /\ residency = [u \in Units |-> "Unavailable"]
    /\ direct = [u \in Units |-> 0]
    /\ dependency = [u \in Units |-> 0]
    /\ pins = [u \in Units |-> 0]
    /\ cancel = [u \in Units |-> "none"]
    /\ cached = [u \in Units |-> FALSE]
    /\ prepared = [u \in Units |-> FALSE]
    /\ root = [u \in Units |-> "none"]
    /\ jobs = <<NewTask(ManifestUnit, FALSE)>>
    /\ completions = <<>>
    /\ inFlight = 1
    /\ pending = 0 /\ reserved = 0 /\ completionBytes = 0 /\ cachedBytes = 0

-----------------------------------------------------------------------------
(* Workers.  The pool is FIFO, so the jobs being run are among the first   *)
(* WorkerCount of those not yet published.                                 *)

Running(k) == k \in DOMAIN jobs /\ k <= WorkerCount

\* The compare-and-swap of FinishPreparation: the document fits beside the
\* others.  Variant: it is measured against the whole limit.
FitsDecodedAlone(u) == DecodedBytes[u] <= MaximumDecodedDocumentBytes

FitsDecoded(u) == DecodedBytes[u] <= MaximumDecodedDocumentBytes - Decoded

\* What a job may come back with.  The provider may fail or time out at any
\* moment; a cancelled request always ends in an error; a document that does
\* not fit the decoded budget beside the others is deferred.
Outcomes(t) ==
    IF t.unit = ManifestUnit THEN {"document", "error"}
    ELSE {"error"} \cup
         IF \/ cancel[t.unit] = "cancelled"
            \/ DecodedBytes[t.unit] > MaximumDecodedDocumentBytes
         THEN {}
         ELSE IF FitsDecoded(t.unit) THEN {"document"} ELSE {"deferred"}

\* The job body up to FinishPreparation, which reserves decoded bytes.
WorkerPrepare(k) ==
    /\ Running(k)
    /\ jobs[k].outcome = "running"
    /\ \E o \in Outcomes(jobs[k]) : jobs' = [jobs EXCEPT ![k].outcome = o]
    /\ UNCHANGED <<control, demand, records, budgets, manifest, completions>>

\* Under CompletionMutex.  A fetched payload that does not fit the completed
\* byte limit becomes an error and drops its document.
Published(t) ==
    IF /\ HasContent(t) /\ ~t.hit
       /\ SizeOf(t.unit) > Room(MaximumCompletedPayloadBytes, completionBytes)
    THEN [t EXCEPT !.outcome = "error"]
    ELSE t

\* What publishing adds to CompletionBytes.
AddedBytes(t) == IF HasContent(t) THEN SizeOf(t.unit) ELSE 0

WorkerPublish(k) ==
    /\ Running(k)
    /\ jobs[k].outcome # "running"
    /\ LET t == Published(jobs[k]) IN
         /\ completions' = Append(completions, t)
         /\ completionBytes' = completionBytes + AddedBytes(t)
    /\ jobs' = SubSeq(jobs, 1, k - 1) \o SubSeq(jobs, k + 1, Len(jobs))
    /\ UNCHANGED <<control, demand, records, manifest,
                   inFlight, pending, reserved, cachedBytes>>

-----------------------------------------------------------------------------
(* Demand: RequestContent, ReleaseContent, PinContent, UnpinContent and    *)
(* the worklist that carries the first and the last demand of a unit to    *)
(* its dependency closure.                                                 *)

Callable == phase = "idle" /\ manifest = "available"

\* AdjustDependencies is entered with the unit's dependencies on its stack.
EnterAdjust(u, add, return) ==
    /\ phase' = "adjust"
    /\ resume' = return
    /\ work' = Dependencies[u]
    /\ adding' = add
    /\ UNCHANGED <<batch, cursor, tick>>

\* Only the first demand of a unit reaches its dependencies.
FirstDemand(u) == Desire(u) = 0

LastDemand(u) == Desire(u) = 1

\* Variant: an unmatched release is not refused.
ReleasableAlways(u) == TRUE

Releasable(u) == direct[u] > 0

Request(u, return) ==
    /\ direct[u] < MaxDemand
    /\ direct' = [direct EXCEPT ![u] = @ + 1]
    /\ IF FirstDemand(u)
       THEN EnterAdjust(u, TRUE, return)
       ELSE phase' = return /\ UNCHANGED <<resume, batch, cursor, work, adding, tick>>

RequestContent(u) ==
    /\ Callable
    /\ Request(u, "idle")
    /\ UNCHANGED <<index, dependency, pins, records, budgets, manifest, jobs, completions>>

ReleaseContent(u) ==
    /\ Callable
    /\ Releasable(u)
    /\ direct' = [direct EXCEPT ![u] = @ - 1]
    /\ IF LastDemand(u) THEN EnterAdjust(u, FALSE, "idle")
       ELSE UNCHANGED <<phase, resume, batch, cursor, work, adding, tick>>
    /\ UNCHANGED <<index, dependency, pins, records, budgets, manifest, jobs, completions>>

PinContent(u) ==
    /\ Callable
    /\ pins[u] < MaxPins
    /\ pins' = [pins EXCEPT ![u] = @ + 1]
    /\ IF FirstDemand(u) THEN EnterAdjust(u, TRUE, "idle")
       ELSE UNCHANGED <<phase, resume, batch, cursor, work, adding, tick>>
    /\ UNCHANGED <<index, direct, dependency, records, budgets, manifest, jobs, completions>>

UnpinContent(u) ==
    /\ Callable
    /\ pins[u] > 0
    /\ pins' = [pins EXCEPT ![u] = @ - 1]
    /\ IF LastDemand(u) THEN EnterAdjust(u, FALSE, "idle")
       ELSE UNCHANGED <<phase, resume, batch, cursor, work, adding, tick>>
    /\ UNCHANGED <<index, direct, dependency, records, budgets, manifest, jobs, completions>>

\* Whether adjusting d goes on to d's own dependencies.  Variant: an addition
\* always does.
PropagatesAdditions(d) == adding \/ LastDemand(d)

Propagates(d) == IF adding THEN FirstDemand(d) ELSE LastDemand(d)

\* One iteration of AdjustDependencies: pop a dependency and adjust its demand;
\* a release of demand that is not there is skipped.
AdjustDependencies ==
    /\ phase = "adjust"
    /\ work # <<>>
    /\ LET d    == work[Len(work)]
           rest == SubSeq(work, 1, Len(work) - 1)
       IN  IF ~adding /\ dependency[d] = 0
           THEN work' = rest /\ UNCHANGED dependency
           ELSE /\ dependency' = [dependency EXCEPT ![d] = IF adding THEN @ + 1 ELSE @ - 1]
                /\ work' = IF Propagates(d) THEN rest \o Dependencies[d] ELSE rest
    /\ UNCHANGED <<phase, resume, index, batch, cursor, adding, tick, direct, pins,
                   records, budgets, manifest, jobs, completions>>

AdjustReturn ==
    /\ phase = "adjust"
    /\ work = <<>>
    /\ phase' = resume
    /\ resume' = "idle"
    /\ adding' = FALSE
    /\ UNCHANGED <<index, batch, cursor, work, tick, demand, records, budgets,
                   manifest, jobs, completions>>

-----------------------------------------------------------------------------
(* Step, first part: take a bounded batch of completions and process it.   *)

Step ==
    /\ phase = "idle"
    /\ LET count == Min({MaximumCompletionsPerTick, Len(completions)}) IN
         /\ batch' = SubSeq(completions, 1, count)
         /\ completions' = SubSeq(completions, count + 1, Len(completions))
    /\ completionBytes' = completionBytes - ContentBytes(batch')
    /\ phase' = "process"
    /\ cursor' = 1
    /\ UNCHANGED <<resume, index, work, adding, tick, demand, records, manifest,
                   jobs, inFlight, pending, reserved, cachedBytes>>

\* The completion being processed; every one of them gives back its in-flight
\* slot and its reserved bytes first.
Completion == batch[cursor]

\* Variant: a failed completion keeps its reservation.
ProcessingKeepsReservation ==
    /\ phase = "process"
    /\ cursor <= Len(batch)
    /\ inFlight' = IF inFlight # 0 THEN inFlight - 1 ELSE 0
    /\ reserved' = IF HasContent(Completion) THEN reserved - SizeOf(Completion.unit)
                   ELSE reserved

\* Variant: a failed completion keeps its slot.
ProcessingKeepsSlot ==
    /\ phase = "process"
    /\ cursor <= Len(batch)
    /\ inFlight' = IF HasContent(Completion) THEN inFlight - 1 ELSE inFlight
    /\ reserved' = reserved - SizeOf(Completion.unit)

Processing ==
    /\ phase = "process"
    /\ cursor <= Len(batch)
    /\ inFlight' = IF inFlight # 0 THEN inFlight - 1 ELSE 0
    /\ reserved' = IF SizeOf(Completion.unit) <= reserved
                   THEN reserved - SizeOf(Completion.unit) ELSE 0

Awaited(t) == t.unit # ManifestUnit /\ residency[t.unit] = "Acquiring"

Unwanted(u) == Desire(u) = 0 \/ cancel[u] = "cancelled"

\* A failed manifest leaves the service without one for good.
ManifestFailed ==
    /\ Processing
    /\ Completion.unit = ManifestUnit /\ Completion.outcome = "error"
    /\ manifest' = "failed"
    /\ cursor' = cursor + 1
    /\ UNCHANGED <<phase, resume, index, batch, work, adding, tick, demand, records,
                   jobs, completions, pending, completionBytes, cachedBytes>>

ManifestArrived ==
    /\ Processing
    /\ Completion.unit = ManifestUnit /\ Completion.outcome = "document"
    /\ manifest' = "available"
    /\ phase' = "bootstrap"
    /\ index' = 1
    /\ UNCHANGED <<resume, batch, cursor, work, adding, tick, demand, records,
                   jobs, completions, pending, completionBytes, cachedBytes>>

\* The manifest's arrival requests every bootstrap unit, in manifest order.
BootstrapRequest ==
    /\ phase = "bootstrap"
    /\ index \in Units
    /\ index' = index + 1
    /\ IF index \in Bootstrap
       THEN Request(index, "bootstrap")
       ELSE UNCHANGED <<phase, resume, batch, cursor, work, adding, tick, direct>>
    /\ UNCHANGED <<dependency, pins, records, budgets, manifest, jobs, completions>>

BootstrapDone ==
    /\ phase = "bootstrap"
    /\ index > UnitCount
    /\ phase' = "process"
    /\ index' = 1
    /\ cursor' = cursor + 1
    /\ UNCHANGED <<resume, batch, work, adding, tick, demand, records, budgets,
                   manifest, jobs, completions>>

\* A completion for a record that does not wait for one is dropped; one that
\* is cancelled or no longer wanted returns its record to Unavailable.
CompletionDiscarded ==
    /\ Processing
    /\ Completion.unit # ManifestUnit
    /\ ~Awaited(Completion) \/ Unwanted(Completion.unit)
    /\ residency' = [residency EXCEPT ![Completion.unit] =
                       IF @ = "Acquiring" THEN "Unavailable" ELSE @]
    /\ cancel' = [cancel EXCEPT ![Completion.unit] =
                    IF Awaited(Completion) THEN "none" ELSE @]
    /\ cursor' = cursor + 1
    /\ UNCHANGED <<phase, resume, index, batch, work, adding, tick, demand, cached,
                   prepared, root, manifest, jobs, completions, pending,
                   completionBytes, cachedBytes>>

CompletionFailed ==
    /\ Processing
    /\ Awaited(Completion) /\ ~Unwanted(Completion.unit)
    /\ Completion.outcome = "error"
    /\ residency' = [residency EXCEPT ![Completion.unit] = "Failed"]
    /\ cancel' = [cancel EXCEPT ![Completion.unit] = "none"]
    /\ cursor' = cursor + 1
    /\ UNCHANGED <<phase, resume, index, batch, work, adding, tick, demand, cached,
                   prepared, root, manifest, jobs, completions, pending,
                   completionBytes, cachedBytes>>

\* MakeCacheSpace(required, keep) walks the records from the last to the first
\* and drops what it may until the required bytes fit.  A record is dropped iff
\* the bytes still do not fit once every droppable record above it is gone.
\* Variants: an entry is dropped under a running decode, or though it is wanted.
DroppableInFlight(u, keep) ==
    /\ u # keep /\ cached[u]
    /\ root[u] # "none" \/ Desire(u) = 0

Droppable(u, keep) ==
    /\ u # keep /\ cached[u]
    /\ residency[u] # "Acquiring"
    /\ root[u] # "none" \/ Desire(u) = 0

BytesOf(S) == Total(CompressedBytes, S)

MakeCacheSpace(required, keep) ==
    {u \in Units :
        /\ Droppable(u, keep)
        /\ required > Room(MaximumCachedPayloadBytes,
                           cachedBytes - BytesOf({v \in Units : v > u /\ Droppable(v, keep)}))}

\* Whether a payload fits beside the bytes left.  Variant: beside none.
FitsCacheAlone(u, left) == CompressedBytes[u] <= MaximumCachedPayloadBytes

FitsCache(u, left) == CompressedBytes[u] <= Room(MaximumCachedPayloadBytes, left)

\* A document is kept only if its unit could be admitted now.  Variant: always.
KeepsAnyDocument(u) == TRUE

KeepsDocument(u) == DependenciesResident(u)

\* A verified payload is cached, if space can be made, and its record becomes
\* Available.  Dropping an entry leaves a record that has a root as it is.
CompletionAccepted ==
    /\ Processing
    /\ Awaited(Completion) /\ ~Unwanted(Completion.unit)
    /\ Completion.outcome # "error"
    /\ LET u        == Completion.unit
           dropped  == IF cached[u] THEN {} ELSE MakeCacheSpace(CompressedBytes[u], u)
           rootless == {v \in dropped : root[v] = "none"}
           left     == cachedBytes - BytesOf(dropped)
           fits     == cached[u] \/ FitsCache(u, left)
       IN  /\ cached' = [v \in Units |-> IF v = u THEN fits ELSE cached[v] /\ v \notin dropped]
           /\ cachedBytes' = left + (IF fits /\ ~cached[u] THEN CompressedBytes[u] ELSE 0)
           /\ residency' = [v \in Units |->
                IF v = u THEN IF fits THEN "Available" ELSE "Failed"
                ELSE IF v \in rootless THEN "Unavailable" ELSE residency[v]]
           /\ prepared' = [v \in Units |->
                IF v # u THEN prepared[v] /\ v \notin rootless
                ELSE fits /\ Completion.outcome = "document" /\ KeepsDocument(u)]
           /\ batch' = IF fits THEN [batch EXCEPT ![cursor].outcome = "taken"] ELSE batch
           /\ cancel' = [cancel EXCEPT ![u] = "none"]
    /\ cursor' = cursor + 1
    /\ UNCHANGED <<phase, resume, index, work, adding, tick, demand, root, manifest,
                   jobs, completions, pending, completionBytes>>

\* Completed.clear() lets go of the documents nobody took.  Without a manifest
\* StartRequests and Step return at once.
CompletionsDone ==
    /\ phase = "process"
    /\ cursor > Len(batch)
    /\ batch' = <<>>
    /\ cursor' = 1
    /\ IF manifest = "available"
       THEN phase' = "start" /\ resume' = "admit"
       ELSE phase' = "idle" /\ UNCHANGED resume
    /\ UNCHANGED <<index, work, adding, tick, demand, records, budgets, manifest,
                   jobs, completions>>

-----------------------------------------------------------------------------
(* StartRequests: one record per action, in manifest order.                *)

Starting(u) ==
    /\ phase = "start"
    /\ u = index /\ index \in Units
    /\ index' = index + 1

\* A record nobody wants gives up what it was waiting for.
StartUndesired(u) ==
    /\ Starting(u)
    /\ Desire(u) = 0
    /\ residency' = [residency EXCEPT ![u] =
                       IF @ \in {"Available", "Requested"} THEN "Unavailable" ELSE @]
    /\ prepared' = [prepared EXCEPT ![u] = @ /\ residency[u] # "Available"]
    /\ pending' = IF residency[u] = "Requested" /\ pending # 0 THEN pending - 1 ELSE pending
    /\ cancel' = [cancel EXCEPT ![u] =
                    IF residency[u] = "Acquiring" /\ @ = "live" THEN "cancelled" ELSE @]
    /\ UNCHANGED <<phase, resume, batch, cursor, work, adding, tick, demand, cached, root,
                   manifest, jobs, completions, inFlight, reserved, completionBytes,
                   cachedBytes>>

\* A wanted record is queued if the queue of pending requests has room.
\* Variant: a record that waits for admission is queued once more.
QueuedAgain(u) ==
    \/ residency[u] \in {"Requested", "Available"}
    \/ residency[u] = "Unavailable" /\ pending < MaximumPendingRequests

Queued(u) ==
    \/ residency[u] = "Requested"
    \/ residency[u] = "Unavailable" /\ pending < MaximumPendingRequests

\* Variant: every pass over a queued record counts it again.
PendingWithEvery(u) == pending + 1

PendingWith(u) == IF residency[u] = "Unavailable" THEN pending + 1 ELSE pending

Submittable(u) == FitsCompletions(u) /\ inFlight < MaximumInFlight

StartSkipped(u) ==
    /\ Starting(u)
    /\ Desire(u) > 0
    /\ ~Queued(u)
    /\ UNCHANGED <<phase, resume, batch, cursor, work, adding, tick, demand, records,
                   budgets, manifest, jobs, completions>>

StartDeferred(u) ==
    /\ Starting(u)
    /\ Desire(u) > 0
    /\ Queued(u) /\ ~Submittable(u)
    /\ residency' = [residency EXCEPT ![u] = "Requested"]
    /\ pending' = PendingWith(u)
    /\ UNCHANGED <<phase, resume, batch, cursor, work, adding, tick, demand, cancel, cached,
                   prepared, root, manifest, jobs, completions, inFlight, reserved,
                   completionBytes, cachedBytes>>

\* SubmitContent and SubmitCachedContent: a fresh cancellation flag, an
\* in-flight slot, a reservation for the completion and a job.
Submit(u, hit) ==
    /\ residency' = [residency EXCEPT ![u] = "Acquiring"]
    /\ cancel' = [cancel EXCEPT ![u] = "live"]
    /\ inFlight' = inFlight + 1
    /\ reserved' = reserved + CompressedBytes[u]
    /\ jobs' = Append(jobs, NewTask(u, hit))

StartSubmitted(u) ==
    /\ Starting(u)
    /\ Desire(u) > 0
    /\ Queued(u) /\ Submittable(u)
    /\ Submit(u, cached[u])
    /\ pending' = PendingWith(u) - 1
    /\ UNCHANGED <<phase, resume, batch, cursor, work, adding, tick, demand, cached, prepared,
                   root, manifest, completions, completionBytes, cachedBytes>>

StartDone ==
    /\ phase = "start"
    /\ index > UnitCount
    /\ phase' = resume
    /\ resume' = "idle"
    /\ index' = 1
    /\ UNCHANGED <<batch, cursor, work, adding, tick, demand, records, budgets, manifest,
                   jobs, completions>>

\* RetryContent clears a failure and runs StartRequests by itself.
RetryContent(u) ==
    /\ Callable
    /\ residency[u] = "Failed"
    /\ residency' = [residency EXCEPT ![u] = "Unavailable"]
    /\ phase' = "start"
    /\ resume' = "idle"
    /\ UNCHANGED <<index, batch, cursor, work, adding, tick, demand, cancel, cached, prepared,
                   root, budgets, manifest, jobs, completions>>

-----------------------------------------------------------------------------
(* Step, second part: bounded admission, in manifest order.                *)

Admitting(u) ==
    /\ phase = "admit"
    /\ u = index /\ index \in Units
    /\ tick.units < MaximumAdmissionUnitsPerTick
    /\ index' = index + 1

\* Wanted, dependencies in the world, and within what the tick has left.
Admissible(u) ==
    /\ residency[u] = "Available"
    /\ Desire(u) > 0
    /\ DependenciesResident(u)
    /\ tick.objects + ObjectCount[u] <= MaximumAdmissionObjectsPerTick
    /\ tick.bytes + CompressedBytes[u] <= MaximumAdmissionBytesPerTick

\* The decoded bytes are read while workers may be reserving more.
Preparable(u) ==
    Submittable(u) /\ Decoded < MaximumDecodedDocumentBytes

AdmitSkipped(u) ==
    /\ Admitting(u)
    /\ ~Admissible(u) \/ (~prepared[u] /\ ~Preparable(u))
    /\ UNCHANGED <<phase, resume, batch, cursor, work, adding, tick, demand, records, budgets,
                   manifest, jobs, completions>>

\* Decode the cached bytes again, now that the unit could be admitted.
AdmitPrepares(u) ==
    /\ Admitting(u)
    /\ Admissible(u) /\ ~prepared[u] /\ Preparable(u)
    /\ Submit(u, TRUE)
    /\ UNCHANGED <<phase, resume, batch, cursor, work, adding, tick, demand, cached, prepared,
                   root, manifest, completions, pending, completionBytes, cachedBytes>>

\* The document does not materialise as declared, or its commit throws.
AdmitRejected(u) ==
    /\ Admitting(u)
    /\ Admissible(u) /\ prepared[u]
    /\ residency' = [residency EXCEPT ![u] = "Failed"]
    /\ cached' = [cached EXCEPT ![u] = FALSE]
    /\ prepared' = [prepared EXCEPT ![u] = FALSE]
    /\ cachedBytes' = cachedBytes - (IF cached[u] THEN CompressedBytes[u] ELSE 0)
    /\ UNCHANGED <<phase, resume, batch, cursor, work, adding, tick, demand, cancel, root,
                   manifest, jobs, completions, inFlight, pending, reserved, completionBytes>>

AdmitCommitted(u) ==
    /\ Admitting(u)
    /\ Admissible(u) /\ prepared[u]
    /\ residency' = [residency EXCEPT ![u] = "Resident"]
    /\ root' = [root EXCEPT ![u] = "live"]
    /\ prepared' = [prepared EXCEPT ![u] = FALSE]
    /\ tick' = [units |-> tick.units + 1,
                objects |-> tick.objects + ObjectCount[u],
                bytes |-> tick.bytes + CompressedBytes[u]]
    /\ UNCHANGED <<phase, resume, batch, cursor, work, adding, demand, cancel, cached,
                   budgets, manifest, jobs, completions>>

AdmitDone ==
    /\ phase = "admit"
    /\ index > UnitCount \/ tick.units >= MaximumAdmissionUnitsPerTick
    /\ phase' = "evict"
    /\ index' = UnitCount
    /\ tick' = NoTick
    /\ UNCHANGED <<resume, batch, cursor, work, adding, demand, records, budgets, manifest,
                   jobs, completions>>

-----------------------------------------------------------------------------
(* Step, third part: bounded eviction, in reverse manifest order.          *)

Evicting(u) ==
    /\ phase = "evict"
    /\ u = index /\ index \in Units
    /\ tick.units < MaximumEvictionUnitsPerTick
    /\ index' = index - 1

Evictable(u) ==
    /\ residency[u] = "Resident"
    /\ Desire(u) = 0
    /\ ~HasResidentDependent(u)
    /\ tick.objects + ObjectCount[u] <= MaximumEvictionObjectsPerTick

\* A runtime child anywhere under the root keeps the unit in the world.
EvictSkipped(u) ==
    /\ Evicting(u)
    /\ ~Evictable(u) \/ root[u] = "extended"
    /\ UNCHANGED <<phase, resume, batch, cursor, work, adding, tick, demand, records, budgets,
                   manifest, jobs, completions>>

\* Gameplay already destroyed the root: forget it, free of charge.
EvictForgotten(u) ==
    /\ Evicting(u)
    /\ Evictable(u) /\ root[u] \in {"none", "destroyed"}
    /\ root' = [root EXCEPT ![u] = "none"]
    /\ residency' = [residency EXCEPT ![u] = IF prepared[u] THEN "Available" ELSE "Unavailable"]
    /\ UNCHANGED <<phase, resume, batch, cursor, work, adding, tick, demand, cancel, cached,
                   prepared, budgets, manifest, jobs, completions>>

EvictDestroyed(u) ==
    /\ Evicting(u)
    /\ Evictable(u) /\ root[u] = "live"
    /\ root' = [root EXCEPT ![u] = "none"]
    /\ residency' = [residency EXCEPT ![u] = IF prepared[u] THEN "Available" ELSE "Unavailable"]
    /\ tick' = [units |-> tick.units + 1,
                objects |-> tick.objects + ObjectCount[u],
                bytes |-> tick.bytes]
    /\ UNCHANGED <<phase, resume, batch, cursor, work, adding, demand, cancel, cached,
                   prepared, budgets, manifest, jobs, completions>>

EvictDone ==
    /\ phase = "evict"
    /\ index = 0 \/ tick.units >= MaximumEvictionUnitsPerTick
    /\ phase' = "start"
    /\ resume' = "idle"
    /\ index' = 1
    /\ tick' = NoTick
    /\ UNCHANGED <<batch, cursor, work, adding, demand, records, budgets, manifest, jobs,
                   completions>>

-----------------------------------------------------------------------------
(* Gameplay, between two Steps: a script parents a run-time object below a *)
(* unit's root, removes it again, or destroys the root.                    *)

Gameplay(u) ==
    /\ phase = "idle"
    /\ \/ root[u] = "live" /\ root' = [root EXCEPT ![u] = "extended"]
       \/ root[u] = "extended" /\ root' = [root EXCEPT ![u] = "live"]
       \/ root[u] \in {"live", "extended"} /\ root' = [root EXCEPT ![u] = "destroyed"]
    /\ UNCHANGED <<control, demand, residency, cancel, cached, prepared, budgets, manifest,
                   jobs, completions>>

-----------------------------------------------------------------------------
(* Stop cancels every request, joins the workers and discards everything:  *)
(* what the running jobs still publish is thrown away with the queue.      *)

Stop ==
    /\ phase = "idle"
    /\ phase' = "stopped"
    /\ manifest' = "dropped"
    /\ residency' = [u \in Units |-> "Unavailable"]
    /\ direct' = [u \in Units |-> 0]
    /\ dependency' = [u \in Units |-> 0]
    /\ pins' = [u \in Units |-> 0]
    /\ cancel' = [u \in Units |-> "none"]
    /\ cached' = [u \in Units |-> FALSE]
    /\ prepared' = [u \in Units |-> FALSE]
    /\ root' = [u \in Units |-> "none"]
    /\ jobs' = <<>>
    /\ completions' = <<>>
    /\ inFlight' = 0 /\ pending' = 0 /\ reserved' = 0
    /\ completionBytes' = 0 /\ cachedBytes' = 0
    /\ UNCHANGED <<resume, index, batch, cursor, work, adding, tick>>

\* Every call on a stopped service returns at once.
CallAfterStop == phase = "stopped" /\ UNCHANGED vars

-----------------------------------------------------------------------------

Worker(k) == WorkerPrepare(k) \/ WorkerPublish(k)

Demand(u) ==
    \/ RequestContent(u) \/ ReleaseContent(u)
    \/ PinContent(u) \/ UnpinContent(u)
    \/ RetryContent(u)

\* What the owning thread does by itself once Step has begun.
Continue ==
    \/ AdjustDependencies \/ AdjustReturn
    \/ ManifestFailed \/ ManifestArrived \/ BootstrapRequest \/ BootstrapDone
    \/ CompletionDiscarded \/ CompletionFailed \/ CompletionAccepted
    \/ CompletionsDone
    \/ \E u \in Units :
         \/ StartUndesired(u) \/ StartSkipped(u) \/ StartDeferred(u) \/ StartSubmitted(u)
         \/ AdmitSkipped(u) \/ AdmitPrepares(u) \/ AdmitRejected(u) \/ AdmitCommitted(u)
         \/ EvictSkipped(u) \/ EvictForgotten(u) \/ EvictDestroyed(u)
    \/ StartDone \/ AdmitDone \/ EvictDone

Next ==
    \/ Step
    \/ Continue
    \/ \E k \in 1..WorkerCount : Worker(k)
    \/ \E u \in Units : Demand(u) \/ Gameplay(u)
    \/ Stop
    \/ CallAfterStop

Spec == Init /\ [][Next]_vars

\* The engine calls Step every tick, the owning thread finishes what it began,
\* and the pool's workers keep running the jobs they took.
Fairness ==
    /\ WF_vars(Step)
    /\ WF_vars(Continue)
    /\ \A k \in 1..WorkerCount : WF_vars(Worker(k))

LiveSpec == Spec /\ Fairness

-----------------------------------------------------------------------------
(* Properties.                                                             *)

ControlOK ==
    /\ phase \in Phase
    /\ resume \in {"idle", "bootstrap", "admit"}
    /\ index \in 0..(UnitCount + 1)
    /\ batch \in Seq(Task) /\ cursor \in Nat \ {0}
    /\ work \in Seq(Units) /\ adding \in BOOLEAN
    /\ tick \in Tick
    /\ manifest \in {"inflight", "available", "failed", "dropped"}

DemandOK ==
    /\ direct \in [Units -> Nat]
    /\ dependency \in [Units -> Nat]
    /\ pins \in [Units -> Nat]

RecordsOK ==
    /\ residency \in [Units -> ResidencyState]
    /\ cancel \in [Units -> {"none", "live", "cancelled"}]
    /\ cached \in [Units -> BOOLEAN]
    /\ prepared \in [Units -> BOOLEAN]
    /\ root \in [Units -> RootState]

QueuesOK ==
    /\ jobs \in Seq(Task)
    /\ completions \in Seq(Task)
    /\ inFlight \in Nat /\ reserved \in Nat /\ pending \in Int

\* Types.  The byte counters fed by sums, completionBytes and cachedBytes, are
\* pinned to their exact values by BytesExact.
TypeOK == ControlOK /\ DemandOK /\ RecordsOK /\ QueuesOK

\* A unit is in the world only while everything it depends on is, whatever
\* demand, failures, budgets and gameplay did in between (DependenciesResident
\* guards admission, HasResidentDependent guards eviction, one record at a
\* time).
DependencyClosure ==
    \A u \in Units : residency[u] = "Resident" => DependenciesResident(u)

\* A record holds a root exactly while it is Resident, what waits for admission
\* still has the bytes SubmitCachedContent dereferences, and a decoded document is
\* kept only by a record that waits for admission.
Coherent(u) ==
    /\ root[u] # "none" <=> residency[u] = "Resident"
    /\ residency[u] = "Available" => cached[u]
    /\ prepared[u] => residency[u] = "Available"

RecordCoherence == \A u \in Units : Coherent(u)

\* The completions of the batch that have not given back their slot yet: the
\* manifest's completion has, by the time it requests the bootstrap units.
Bootstrapping == phase = "bootstrap" \/ (phase = "adjust" /\ resume = "bootstrap")

Unprocessed ==
    IF phase = "process" THEN SubSeq(batch, cursor, Len(batch))
    ELSE IF Bootstrapping THEN SubSeq(batch, cursor + 1, Len(batch))
    ELSE <<>>

\* Everything submitted and not yet applied, in no particular order.
Outstanding == jobs \o completions \o Unprocessed

\* Single flight: a unit waits for a completion iff exactly one job or
\* completion of it is outstanding, so no completion is ever dropped as stale
\* and no cancellation flag is shared by two requests.
SingleFlight ==
    \A u \in Units :
        Cardinality({k \in DOMAIN Outstanding : Outstanding[k].unit = u})
          = IF residency[u] = "Acquiring" THEN 1 ELSE 0

\* InFlight is what is outstanding, across workers, queue and half-processed
\* batches, so the clamp in Step never hides a lost slot, and is bounded.
InFlightExact ==
    /\ inFlight = Len(Outstanding)
    /\ inFlight <= MaximumInFlight

\* The same of ReservedCompletionBytes and the completed-payload limit; and the
\* reservation is enough: the completed bytes are those of the queued
\* completions, and no worker ever has to turn a good payload into an error.
ReservationsExact ==
    /\ reserved = SeqTotal(ReservedWeight, Outstanding)
    /\ reserved <= MaximumCompletedPayloadBytes
    /\ completionBytes = ContentBytes(completions)
    /\ \A k \in DOMAIN jobs :
          HasContent(jobs[k]) => Published(jobs[k]) = jobs[k]

\* The cache is accounted exactly and never exceeds its limit.
CacheBounded ==
    /\ cachedBytes = BytesOf({u \in Units : cached[u]})
    /\ cachedBytes <= MaximumCachedPayloadBytes

\* Decoded documents never exceed their limit, whoever holds them.
DecodedBounded == Decoded <= MaximumDecodedDocumentBytes

\* Between two calls, the dependency demand of a unit is the number of wanted
\* units that depend on it: what requests and pins added through the closure,
\* releases and unpins took away.
DemandConserved ==
    phase \notin {"adjust", "stopped"} =>
        \A d \in Units :
            dependency[d] = Cardinality({u \in Dependents(d) : Desire(u) > 0})

\* Pending counts the records that are Requested.
PendingExact == pending = Cardinality({u \in Units : residency[u] = "Requested"})

\* Every byte counter that the admission of work reads is exact and within its
\* limit, through the phases and threads that move it: reserved and completed
\* bytes, cached bytes, decoded documents.
BytesExact == ReservationsExact /\ CacheBounded /\ DecodedBounded

GetActiveRequestCount == inFlight + pending

\* What the drain checks of the server host and of the streaming scenario test
\* expect: once nothing is wanted, resident or waited for, no active request is
\* left.
DrainLeavesNoRequest ==
    (/\ phase = "idle" /\ manifest = "available"
     /\ \A u \in Units : Desire(u) = 0 /\ residency[u] \in {"Unavailable", "Failed"})
    => GetActiveRequestCount = 0

\* A wanted unit gets no further only because it failed or because it waits for
\* a dependency, hence, dependencies being acyclic, for one that failed.
Settled(u) ==
    \/ Desire(u) = 0
    \/ residency[u] \in {"Resident", "Failed"}
    \/ ~DependenciesResident(u)

\* Once callers and gameplay are quiet, every wanted unit settles for good:
\* bounded queues, budgets and deferred decoding delay admission, never lose it.
DemandSettles ==
    \/ []<><<\E u \in Units : Demand(u) \/ Gameplay(u)>>_vars
    \/ <>[](manifest # "available" \/ \A u \in Units : Settled(u))

\* The abstract view: which units are in the world, and whether it still runs.
Residency == INSTANCE ContentResidency WITH
    Members <- Units,
    DependsOn <- [u \in Units |-> DependenciesOf(u)],
    resident <- {u \in Units : residency[u] = "Resident"},
    running <- phase # "stopped"

\* The service implements dependency-ordered residency: units enter the world
\* one at a time after their dependencies, leave it one at a time before them,
\* and all at once only when the service stops.
ResidencySpec == Residency!Spec

=============================================================================
