-------------------------- MODULE AuthoringHistory --------------------------
(***************************************************************************)
(* Authoring history of one open project: the hierarchy of a DataModel,    *)
(* the mutation gateway that edits it for Studio, the transaction history  *)
(* that undoes and redoes those edits, the revision and dirty state shown  *)
(* to Studio, and the change journal Studio rebuilds its own copy from.    *)
(*                                                                         *)
(*   src/src/runtime/AuthoritativeTransactions.cpp                         *)
(*   src/src/runtime/MutationGateway.cpp                                   *)
(*   src/src/runtime/PreparedPropertyCommit.cpp                            *)
(*   src/src/editor/EditorHost.cpp (the transaction, history, save and     *)
(*                                  snapshot requests)                     *)
(*                                                                         *)
(* An object identity is never reused: restoring a destroyed subtree       *)
(* builds new objects with new identities, and the history keeps a table   *)
(* of aliases from the identities its entries captured to the live ones.   *)
(* Each object carries one value, which stands for its properties,         *)
(* attributes, tags, extension values and script source: the gateway and   *)
(* the history treat all five alike, by their before and after values.     *)
(***************************************************************************)
EXTENDS Integers, FiniteSets, Sequences, SequencesExt

CONSTANTS
    Values,                          \* values of an object's state
    InitialValue,                    \* the value a loaded object starts with
    LoadedObjects,                   \* objects the opened project holds
    MaxId,                           \* bound: identities ever allocated
    MaxRevision,                     \* numeric_limits<uint64_t>::max()
    MaximumPersistenceObjects,       \* objects a project may hold
    MaximumTransactionChanges,       \* changes one transaction may hold
    MaximumTransactionSemanticBytes, \* bytes one transaction may hold
    MaximumPreparedPropertyWrites,   \* writes one property batch may hold
    RetainedTransactionLimit,        \* transactions the history retains
    RetainedByteLimit,               \* bytes the history retains
    Requests                         \* bound: the requests a run explores

\* "LocalEdit" is an edit by code other than Studio's session.
AllRequests == {"SetProperty", "Reparent", "Create", "Destroy", "Duplicate",
                "Transaction", "SetPropertyBatch", "History", "SaveProject",
                "GetSnapshot", "LocalEdit"}

ASSUME LimitAssumption ==
    /\ InitialValue \in Values
    /\ MaxId \in Nat /\ LoadedObjects \in 0 .. MaxId /\ MaxRevision \in Nat
    /\ MaximumPersistenceObjects \in Nat /\ MaximumTransactionSemanticBytes \in Nat
    /\ RetainedTransactionLimit \in Nat \ {0}
    /\ RetainedByteLimit \in Nat \ {0}
    /\ MaximumTransactionSemanticBytes <= RetainedByteLimit
    /\ Requests \subseteq AllRequests

VARIABLES
    world,          \* live object -> its parent, value and lineage
    nextId,         \* the next identity the object registry hands out
    open,           \* the open transaction, or NoTransaction
    history,        \* retained transactions, oldest first
    cursor,         \* how many of them are applied
    retainedBytes,  \* bytes charged for them
    aliases,        \* IdentityMappings: captured identity -> newer identity
    revision,       \* DataModel::AuthoritativeRevision
    persisted,      \* EditorHost::PersistedRevision
    saved,          \* the project file, by shape
    mirror,         \* Studio's copy, rebuilt from snapshot and journal
    outcome,        \* how the last undo or redo ended
    marks           \* ghost: marks[i + 1] is the shape after i entries

vars == <<world, nextId, open, history, cursor, retainedBytes, aliases,
          revision, persisted, saved, mirror, outcome, marks>>

historyVars == <<history, cursor, retainedBytes, aliases>>

Root == 0
Detached == -1
NoTransaction == [active |-> FALSE, changes |-> <<>>, records |-> <<>>]

-----------------------------------------------------------------------------
(* The hierarchy.                                                          *)

\* A set of objects that holds the parent of each of its members.
Upward(w, objects) ==
    \A y \in objects \ {Root} : w[y].parent \in objects

\* x and all above it: what every such set that holds x has in common.
Ancestors(w, x) ==
    {y \in DOMAIN w : \A objects \in SUBSET DOMAIN w :
                        x \in objects /\ Upward(w, objects) => y \in objects}

Subtree(w, x) == {y \in DOMAIN w : x \in Ancestors(w, y)}

\* The elements of a finite set in a given order, a set of pairs.
Sorted(S, order) ==
    [i \in 1..Cardinality(S) |->
        CHOOSE y \in S : Cardinality({z \in S : <<z, y>> \in order}) = i - 1]

ParentsFirst(w, S) ==
    LET depth == [y \in S |-> Cardinality(Ancestors(w, y))]
    IN  {p \in S \X S : \/ depth[p[1]] < depth[p[2]]
                        \/ depth[p[1]] = depth[p[2]] /\ p[1] < p[2]}

\* CollectDescendants: the subtree of x as a sequence, parents first.
Nodes(w, x) == LET below == Subtree(w, x) IN Sorted(below, ParentsFirst(w, below))

\* What a saved project, or a reader who ignores identities, can see.
Seen(w, x) == [lineage |-> w[x].lineage, value |-> w[x].value,
               parent |-> IF w[x].parent = Root THEN Root
                          ELSE w[w[x].parent].lineage]

Shape(w) == {Seen(w, x) : x \in DOMAIN w \ {Root}}

\* What Studio's copy records of an object.
Visible(w) == [x \in DOMAIN w |-> [parent |-> w[x].parent, value |-> w[x].value]]

-----------------------------------------------------------------------------
(* The journal. Studio applies records in order; one about an object it    *)
(* does not know is skipped, and creating one it knows resets it.          *)

WithCreated(records, made) ==
    records \o
        << [type |-> "Created", object |-> made.object],
           [type |-> "Property", object |-> made.object, value |-> made.value],
           [type |-> "Reparented", object |-> made.object, parent |-> made.parent] >>

CreatedRecords(w, ns) ==
    FoldLeft(WithCreated, <<>>,
             [i \in DOMAIN ns |-> [object |-> ns[i], value |-> w[ns[i]].value,
                                   parent |-> w[ns[i]].parent]])

\* Children go first.
WithDestroyed(records, x) ==
    << [type |-> "Reparented", object |-> x, parent |-> Detached],
       [type |-> "Destroyed", object |-> x] >> \o records

DestroyedRecords(ns) == FoldLeft(WithDestroyed, <<>>, ns)

MirrorApply(m, r) ==
    IF r.type = "Created"
    THEN [x \in DOMAIN m \cup {r.object} |->
            IF x = r.object THEN [parent |-> Detached, value |-> InitialValue]
            ELSE m[x]]
    ELSE IF r.object \notin DOMAIN m THEN m
    ELSE CASE r.type = "Property"   -> [m EXCEPT ![r.object].value = r.value]
           [] r.type = "Reparented" -> [m EXCEPT ![r.object].parent = r.parent]
           [] r.type = "Destroyed"  -> [x \in DOMAIN m \ {r.object} |-> m[x]]

Publish(m, records) == FoldLeft(MirrorApply, m, records)

-----------------------------------------------------------------------------
(* The gateway's commands. Each yields the world it leaves, the identity   *)
(* allocated last, the journal records it emits and the change it records. *)

SetValue(w, x, v) == [w EXCEPT ![x].value = v]

PropertyEffect(w, n, x, v) ==
    [world |-> SetValue(w, x, v), next |-> n,
     records |-> <<[type |-> "Property", object |-> x, value |-> v]>>,
     change |-> [kind |-> "Property", object |-> x,
                 before |-> w[x].value, after |-> v]]

ReparentEffect(w, n, x, p) ==
    [world |-> [w EXCEPT ![x].parent = p], next |-> n,
     records |-> <<[type |-> "Reparented", object |-> x, parent |-> p]>>,
     change |-> [kind |-> "Reparent", object |-> x,
                 before |-> w[x].parent, after |-> p]]

\* Attaches a copy of a captured subtree under p: the i-th captured object
\* becomes identity n + i - 1.
Attach(w, n, objects, snapshot, p) ==
    LET fresh(x) == n + (CHOOSE i \in DOMAIN objects : objects[i] = x) - 1
        born == {fresh(x) : x \in Range(objects)}
        origin(y) == objects[y - n + 1]
    IN  [y \in DOMAIN w \cup born |->
            IF y \in DOMAIN w THEN w[y]
            ELSE [snapshot[origin(y)] EXCEPT !.parent =
                    IF origin(y) = objects[1] THEN p ELSE fresh(@)]]

Born(n, objects) == [i \in DOMAIN objects |-> n + i - 1]

Removed(w, x) == [y \in DOMAIN w \ Subtree(w, x) |-> w[y]]

CreateEffect(w, n, p, v) ==
    LET made == [lineage |-> n, parent |-> p, value |-> v]
        alone == [y \in {n} |-> made]
        after == Attach(w, n, <<n>>, alone, p)
    IN  [world |-> after, next |-> n + 1,
         records |-> CreatedRecords(after, <<n>>),
         change |-> [kind |-> "Create", root |-> n, parent |-> p,
                     objects |-> <<n>>, snapshot |-> alone]]

DestroyEffect(w, n, x) ==
    [world |-> Removed(w, x), next |-> n,
     records |-> DestroyedRecords(Nodes(w, x)),
     change |-> [kind |-> "Destroy", root |-> x, parent |-> w[x].parent,
                 objects |-> Nodes(w, x),
                 snapshot |-> [y \in Subtree(w, x) |-> w[y]]]]

\* Variant: the entry keeps the source's snapshot for the clone.
DuplicateEffectOfSource(w, n, x) ==
    LET objects == Nodes(w, x)
        born == Born(n, objects)
        attached == Attach(w, n, objects, [y \in Subtree(w, x) |-> w[y]],
                           w[x].parent)
        after == [y \in DOMAIN attached |->
                    IF y \in Range(born) THEN [attached[y] EXCEPT !.lineage = y]
                    ELSE attached[y]]
    IN  [world |-> after, next |-> n + Len(objects),
         records |-> CreatedRecords(after, born),
         change |-> [kind |-> "Duplicate", root |-> n, parent |-> w[x].parent,
                     objects |-> born,
                     snapshot |-> [y \in Range(born) |-> attached[y]]]]

\* The clone is serialized again before it is attached, so the entry holds
\* the clone's own state and not its source's.
DuplicateEffect(w, n, x) ==
    LET objects == Nodes(w, x)
        born == Born(n, objects)
        attached == Attach(w, n, objects, [y \in Subtree(w, x) |-> w[y]],
                           w[x].parent)
        after == [y \in DOMAIN attached |->
                    IF y \in Range(born) THEN [attached[y] EXCEPT !.lineage = y]
                    ELSE attached[y]]
    IN  [world |-> after, next |-> n + Len(objects),
         records |-> CreatedRecords(after, born),
         change |-> [kind |-> "Duplicate", root |-> n, parent |-> w[x].parent,
                     objects |-> born,
                     snapshot |-> [y \in Range(born) |-> after[y]]]]

\* The gateway's checks before a command is applied. Setting the current
\* value or parent changes nothing and records nothing.
Objects(w) == DOMAIN w \ {Root}
CanSetValue(w, x, v) == w[x].value # v
\* Variant: only the object itself is refused as its parent.
CanReparentBelow(w, x, p) == p \notin {x, w[x].parent}
CanReparent(w, x, p) == p \notin Subtree(w, x) /\ p # w[x].parent
HasRoom(w, count) == Cardinality(Objects(w)) + count <= MaximumPersistenceObjects

IsSubtreeChange(c) == c.kind \in {"Create", "Destroy", "Duplicate"}

\* EstimateTransactionChangeBytes.
ChangeBytes(c) == IF IsSubtreeChange(c) THEN 1 + Len(c.objects) ELSE 1
AddChange(sum, c) == sum + ChangeBytes(c)
Bytes(changes) == FoldLeft(AddChange, 0, changes)

-----------------------------------------------------------------------------
(* The history.                                                            *)

\* ResolveIdentity: follows aliases, at most as many as there are.
ResolveIdentity(table, id) ==
    LET walk[n \in Nat] ==
          IF n = 0 THEN id
          ELSE IF walk[n - 1] \in DOMAIN table THEN table[walk[n - 1]]
          ELSE walk[n - 1]
    IN  walk[Cardinality(DOMAIN table)]

\* Variant: the pair is entered the wrong way round.
RemapIdentitySwapped(table, historical, current) ==
    [id \in DOMAIN table \cup {current} |->
        IF id = current \/ ResolveIdentity(table, id) = current
        THEN historical ELSE table[id]]

\* RemapIdentity: whatever resolves to the captured identity, and the
\* captured identity itself, now lead to the live one.
RemapIdentity(table, historical, current) ==
    [id \in DOMAIN table \cup {historical} |->
        IF id = historical \/ ResolveIdentity(table, id) = historical
        THEN current ELSE table[id]]

\* The identities an entry's changes mention.
Mentions(c) ==
    CASE c.kind = "Property" -> {c.object}
      [] c.kind = "Reparent" -> {c.object, c.before, c.after}
      [] OTHER               -> {c.root, c.parent} \cup Range(c.objects)

Referenced(entries) ==
    UNION {UNION {Mentions(c) : c \in Range(entries[i].changes)} :
           i \in DOMAIN entries}

AddEntry(sum, e) == sum + Bytes(e.changes)
TotalBytes(entries) == FoldLeft(AddEntry, 0, entries)

\* Variant: compares the size with ">" where the code has ">=".
EvictedLate(entries, bytes, need) ==
    CHOOSE k \in 0..Len(entries) :
        LET fits(j) == \/ j = Len(entries)
                       \/ /\ Len(entries) - j <= RetainedTransactionLimit
                          /\ need <= RetainedByteLimit
                                       - (bytes - TotalBytes(SubSeq(entries, 1, j)))
        IN  fits(k) /\ \A j \in 0..(k - 1) : ~fits(j)

\* How many entries Retain pops from the front to make room for "need".
Evicted(entries, bytes, need) ==
    CHOOSE k \in 0..Len(entries) :
        LET fits(j) == \/ j = Len(entries)
                       \/ /\ Len(entries) - j < RetainedTransactionLimit
                          /\ need <= RetainedByteLimit
                                       - (bytes - TotalBytes(SubSeq(entries, 1, j)))
        IN  fits(k) /\ \A j \in 0..(k - 1) : ~fits(j)

Retain(entry, shape) ==
    LET redo == SubSeq(history, cursor + 1, Len(history))
        kept == SubSeq(history, 1, cursor)
        bytes == retainedBytes - TotalBytes(redo)
        k == Evicted(kept, bytes, Bytes(entry.changes))
        after == Append(SubSeq(kept, k + 1, Len(kept)), entry)
    IN  /\ history' = after
        /\ cursor' = Len(after)
        /\ retainedBytes' = bytes - TotalBytes(SubSeq(kept, 1, k))
                              + Bytes(entry.changes)
        /\ aliases' = IF redo # <<>> \/ k > 0
                      THEN [id \in DOMAIN aliases \cap Referenced(after) |->
                              aliases[id]]
                      ELSE aliases
        /\ marks' = Append(SubSeq(marks, k + 1, cursor + 1), shape)

-----------------------------------------------------------------------------
(* Undo and redo. A replay carries the state it edits and its direction;   *)
(* it stops at the first change that does not apply.                       *)

Stale(st) == [st EXCEPT !.ok = FALSE]

With(st, effect) ==
    [st EXCEPT !.world = effect.world, !.next = effect.next,
               !.records = @ \o effect.records]

ReplayValue(st, c) ==
    LET x == ResolveIdentity(st.aliases, c.object)
        expected == IF st.forward THEN c.before ELSE c.after
        wanted == IF st.forward THEN c.after ELSE c.before
    IN  IF x \notin DOMAIN st.world \/ st.world[x].value # expected
        THEN Stale(st)
        ELSE With(st, PropertyEffect(st.world, st.next, x, wanted))

ReplayReparent(st, c) ==
    LET x == ResolveIdentity(st.aliases, c.object)
        expected == ResolveIdentity(st.aliases, IF st.forward THEN c.before ELSE c.after)
        wanted == ResolveIdentity(st.aliases, IF st.forward THEN c.after ELSE c.before)
    IN  IF \/ x \notin DOMAIN st.world
           \/ st.world[x].parent # expected
           \/ wanted \notin DOMAIN st.world
           \/ ~CanReparent(st.world, x, wanted)
        THEN Stale(st)
        ELSE With(st, ReparentEffect(st.world, st.next, x, wanted))

\* The identities a restored subtree had and has, pair by pair.
Reborn(objects, n) ==
    [i \in DOMAIN objects |-> [historical |-> objects[i], current |-> n + i - 1]]
Remap(table, pair) == RemapIdentity(table, pair.historical, pair.current)

\* Variant: the restored subtree is attached but not published.
ReplayRestoreSilent(st, c) ==
    LET p == ResolveIdentity(st.aliases, c.parent)
    IN  IF p \notin DOMAIN st.world \/ ~HasRoom(st.world, Len(c.objects))
        THEN Stale(st)
        ELSE [st EXCEPT !.world = Attach(@, st.next, c.objects, c.snapshot, p),
                        !.next = @ + Len(c.objects),
                        !.aliases = FoldLeft(Remap, @, Reborn(c.objects, st.next))]

ReplayRestore(st, c) ==
    LET p == ResolveIdentity(st.aliases, c.parent)
        after == Attach(st.world, st.next, c.objects, c.snapshot, p)
    IN  IF p \notin DOMAIN st.world \/ ~HasRoom(st.world, Len(c.objects))
        THEN Stale(st)
        ELSE [st EXCEPT !.world = after,
                        !.next = @ + Len(c.objects),
                        !.records = @ \o CreatedRecords(after,
                                                        Born(st.next, c.objects)),
                        !.aliases = FoldLeft(Remap, @, Reborn(c.objects, st.next))]

ReplayDestroy(st, c) ==
    LET x == ResolveIdentity(st.aliases, c.root)
    IN  IF x \notin DOMAIN st.world THEN Stale(st)
        ELSE With(st, DestroyEffect(st.world, st.next, x))

ApplyChange(st, c) ==
    IF c.kind = "Property" THEN ReplayValue(st, c)
    ELSE IF c.kind = "Reparent" THEN ReplayReparent(st, c)
    ELSE IF c.kind = "Destroy" <=> st.forward THEN ReplayDestroy(st, c)
    ELSE ReplayRestore(st, c)

\* One change of a replay; "applied" are those that took.
ReplayStep(st, c) ==
    IF ~st.ok THEN st
    ELSE LET t == ApplyChange(st, c)
         IN  IF t.ok THEN [t EXCEPT !.applied = Append(@, c)] ELSE t

\* Applies changes in the given order.
Replay(st, changes) == FoldLeft(ReplayStep, [st EXCEPT !.applied = <<>>], changes)

\* Variant: what was applied before the failure stays.
RollBackNothing(st) == [st EXCEPT !.ok = TRUE]

RollBack(st) ==
    Replay([st EXCEPT !.ok = TRUE, !.forward = ~@], Reverse(st.applied))

InOrder(changes, forward) == IF forward THEN changes ELSE Reverse(changes)

Start(forward) ==
    [world |-> world, next |-> nextId, aliases |-> aliases, records |-> <<>>,
     forward |-> forward, ok |-> TRUE, applied |-> <<>>]

-----------------------------------------------------------------------------
(* Actions.                                                                *)

Init ==
    /\ world = [x \in 0..LoadedObjects |->
                 [lineage |-> x, value |-> InitialValue,
                  parent |-> IF x = Root THEN Detached ELSE Root]]
    /\ nextId = LoadedObjects + 1
    /\ open = NoTransaction
    /\ history = <<>> /\ cursor = 0 /\ retainedBytes = 0
    /\ aliases = <<>>
    /\ revision = 0 /\ persisted = 0
    /\ saved = Shape(world)
    /\ mirror = Visible(world)
    /\ outcome = "None"
    /\ marks = <<Shape(world)>>

\* One revision, one journal batch and one history entry.
CommitEntry(entry, records, after) ==
    /\ revision' = revision + 1
    /\ mirror' = Publish(mirror, records)
    /\ Retain(entry, Shape(after))
    /\ open' = NoTransaction

Ordinary(changes) == [changes |-> changes, policy |-> "Ordinary"]

\* A command outside a group opens an implicit transaction, which commits at
\* once; inside the open group its change and its records are set aside.
Author(effect) ==
    /\ effect.next <= MaxId + 1
    /\ world' = effect.world
    /\ nextId' = effect.next
    /\ outcome' = "None"
    /\ revision < MaxRevision
    /\ \/ /\ ~open.active
          /\ ChangeBytes(effect.change) <= MaximumTransactionSemanticBytes
          /\ CommitEntry(Ordinary(<<effect.change>>), effect.records, effect.world)
       \/ /\ open.active
          /\ Len(open.changes) < MaximumTransactionChanges
          /\ Bytes(Append(open.changes, effect.change))
                <= MaximumTransactionSemanticBytes
          /\ open' = [open EXCEPT !.changes = Append(@, effect.change),
                                  !.records = @ \o effect.records]
          /\ UNCHANGED <<historyVars, revision, mirror, marks>>
    /\ UNCHANGED <<persisted, saved>>

SetProperty ==
    /\ "SetProperty" \in Requests
    /\ \E x \in Objects(world), v \in Values :
          /\ CanSetValue(world, x, v)
          /\ Author(PropertyEffect(world, nextId, x, v))

Reparent ==
    /\ "Reparent" \in Requests
    /\ \E x \in Objects(world), p \in DOMAIN world :
          /\ CanReparent(world, x, p)
          /\ Author(ReparentEffect(world, nextId, x, p))

Create ==
    /\ "Create" \in Requests
    /\ \E p \in DOMAIN world :
          /\ HasRoom(world, 1)
          /\ Author(CreateEffect(world, nextId, p, InitialValue))

Destroy ==
    /\ "Destroy" \in Requests
    /\ \E x \in Objects(world) : Author(DestroyEffect(world, nextId, x))

Duplicate ==
    /\ "Duplicate" \in Requests
    /\ \E x \in Objects(world) :
          /\ HasRoom(world, Cardinality(Subtree(world, x)))
          /\ Author(DuplicateEffect(world, nextId, x))

BeginTransaction ==
    /\ "Transaction" \in Requests
    /\ ~open.active
    /\ revision < MaxRevision
    /\ open' = [NoTransaction EXCEPT !.active = TRUE]
    /\ outcome' = "None"
    /\ UNCHANGED <<world, nextId, historyVars, revision, persisted, saved,
                   mirror, marks>>

\* CommitTransaction, a group that expired after five minutes, and a session
\* that ended: an empty group leaves no trace.  Outside edits may have used up
\* the revisions meanwhile; the group then stays open.
CommitTransaction ==
    /\ open.active
    /\ outcome' = "None"
    /\ IF open.changes = <<>>
       THEN open' = NoTransaction /\ UNCHANGED <<historyVars, revision, mirror, marks>>
       ELSE /\ revision < MaxRevision
            /\ CommitEntry(Ordinary(open.changes), open.records, world)
    /\ UNCHANGED <<world, nextId, persisted, saved>>

\* SetPropertyBatch: every write is checked before the first is stored.
\* Writes of the current value are dropped.
WriteBatch(xs, f) ==
    Sorted({x \in xs : CanSetValue(world, x, f[x])},
           {p \in xs \X xs : p[1] < p[2]})

Store(w, c) == SetValue(w, c.object, c.after)
Stored(w, changes) == FoldLeft(Store, w, changes)

ValueRecords(changes) ==
    [i \in DOMAIN changes |-> [type |-> "Property", object |-> changes[i].object,
                               value |-> changes[i].after]]

SetPropertyBatch ==
    /\ "SetPropertyBatch" \in Requests
    /\ \E xs \in SUBSET Objects(world) : \E f \in [xs -> Values] :
          LET writes == WriteBatch(xs, f)
              changes == [i \in DOMAIN writes |->
                            [kind |-> "Property", object |-> writes[i],
                             before |-> world[writes[i]].value, after |-> f[writes[i]]]]
          IN  /\ ~open.active
              /\ revision < MaxRevision
              /\ writes # <<>>
              /\ Cardinality(xs) <= MaximumPreparedPropertyWrites
              /\ Bytes(changes) <= RetainedByteLimit
              /\ world' = Stored(world, changes)
              /\ CommitEntry([changes |-> changes, policy |-> "PreparedPropertyBatch"],
                             ValueRecords(changes), world')
              /\ outcome' = "None"
              /\ UNCHANGED <<nextId, persisted, saved>>

\* Variant: the cursor moves without a new revision.
CompleteReplaySameRevision(after, next, table, records, position) ==
    /\ world' = after
    /\ nextId' = next
    /\ aliases' = table
    /\ mirror' = Publish(mirror, records)
    /\ cursor' = position
    /\ outcome' = "Success"
    /\ UNCHANGED revision

\* The entry is published under one new revision; the cursor moves over it.
CompleteReplay(after, next, table, records, position) ==
    /\ world' = after
    /\ nextId' = next
    /\ aliases' = table
    /\ mirror' = Publish(mirror, records)
    /\ revision' = revision + 1
    /\ cursor' = position
    /\ outcome' = "Success"

\* A replay that fails takes back what it applied and drops the records it
\* captured. A take-back that failed as well would escape as an exception.
AbandonReplay(back) ==
    /\ world' = back.world
    /\ nextId' = back.next
    /\ aliases' = back.aliases
    /\ outcome' = IF back.ok THEN "ExecutionFailed" ELSE "RollbackThrew"
    /\ UNCHANGED <<mirror, revision, cursor>>

ExecuteOrdinary(entry, forward, position) ==
    LET st == Replay(Start(forward), InOrder(entry.changes, forward))
        back == RollBack(st)
    IN  IF st.ok
        THEN /\ st.next <= MaxId + 1
             /\ CompleteReplay(st.world, st.next, st.aliases, st.records, position)
        ELSE back.next <= MaxId + 1 /\ AbandonReplay(back)

\* PreparedPropertyCommit::Replay: targets resolved, checked, then stored.
ExecutePrepared(entry, forward, position) ==
    LET writes == [i \in DOMAIN entry.changes |->
                     LET c == entry.changes[i]
                     IN  [object |-> ResolveIdentity(aliases, c.object),
                          before |-> IF forward THEN c.before ELSE c.after,
                          after |-> IF forward THEN c.after ELSE c.before]]
        fresh == \A i \in DOMAIN writes :
                    /\ writes[i].object \in DOMAIN world
                    /\ world[writes[i].object].value = writes[i].before
    IN  IF fresh
        THEN CompleteReplay(Stored(world, writes), nextId, aliases,
                            ValueRecords(writes), position)
        ELSE /\ outcome' = "ExecutionFailed"
             /\ UNCHANGED <<world, nextId, aliases, mirror, revision, cursor>>

ExecuteHistory(entry, forward, position) ==
    /\ ~open.active
    /\ revision < MaxRevision
    /\ IF entry.policy = "PreparedPropertyBatch"
       THEN ExecutePrepared(entry, forward, position)
       ELSE ExecuteOrdinary(entry, forward, position)
    /\ UNCHANGED <<open, history, retainedBytes, persisted, saved, marks>>

Undo ==
    /\ "History" \in Requests
    /\ cursor > 0
    /\ ExecuteHistory(history[cursor], FALSE, cursor - 1)

Redo ==
    /\ "History" \in Requests
    /\ cursor < Len(history)
    /\ ExecuteHistory(history[cursor + 1], TRUE, cursor + 1)

\* Save is refused while a group is open; a failed write changes nothing.
SaveProject ==
    /\ "SaveProject" \in Requests
    /\ ~open.active
    /\ persisted' = revision
    /\ saved' = Shape(world)
    /\ outcome' = "None"
    /\ UNCHANGED <<world, nextId, open, historyVars, revision, mirror, marks>>

\* Studio takes a new snapshot, at any time, also inside its own group: the
\* snapshot then already shows changes whose records are still to come.
GetSnapshot ==
    /\ "GetSnapshot" \in Requests
    /\ mirror' = Visible(world)
    /\ outcome' = "None"
    /\ UNCHANGED <<world, nextId, open, historyVars, revision, persisted, saved,
                   marks>>

\* A gateway command of another origin than Studio, here a write, a move or a
\* destruction, is applied and journaled at once and leaves no history.  In the
\* middle of a group its record overtakes those the group holds back.
LocalEdit ==
    /\ "LocalEdit" \in Requests
    /\ revision < MaxRevision
    /\ \E x \in Objects(world) :
          \E effect \in {PropertyEffect(world, nextId, x, v) :
                            v \in {u \in Values : CanSetValue(world, x, u)}}
                          \cup {ReparentEffect(world, nextId, x, p) :
                                  p \in {q \in DOMAIN world : CanReparent(world, x, q)}}
                          \cup {DestroyEffect(world, nextId, x)} :
            /\ world' = effect.world
            /\ mirror' = Publish(mirror, effect.records)
    /\ revision' = revision + 1
    /\ outcome' = "None"
    /\ UNCHANGED <<nextId, open, historyVars, persisted, saved, marks>>

Next ==
    \/ SetProperty
    \/ Reparent
    \/ Create
    \/ Destroy
    \/ Duplicate
    \/ BeginTransaction
    \/ CommitTransaction
    \/ SetPropertyBatch
    \/ Undo
    \/ Redo
    \/ SaveProject
    \/ GetSnapshot
    \/ LocalEdit

Spec == Init /\ [][Next]_vars

-----------------------------------------------------------------------------
(* Properties.                                                             *)

ObjectIds == 0..MaxId
Failures == {"ExecutionFailed", "RollbackThrew"}
Outcomes == {"None", "Success"} \cup Failures

\* Every variable has its type, and the hierarchy is a tree over live objects.
TypeOK ==
    /\ DOMAIN world \subseteq ObjectIds /\ Root \in DOMAIN world
    /\ \A x \in Objects(world) :
          /\ world[x].parent \in DOMAIN world
          /\ world[x].value \in Values
          /\ world[x].lineage \in ObjectIds
          /\ Root \in Ancestors(world, x)
    /\ nextId \in 1..(MaxId + 1)
    /\ open.active \in BOOLEAN
    /\ cursor \in 0..Len(history)
    /\ Len(marks) = Len(history) + 1
    /\ revision \in 0..MaxRevision /\ persisted \in 0..revision
    /\ outcome \in Outcomes

\* With no group open, the project is what it was when the entry before the
\* cursor was committed, whatever undo, redo, branching and eviction came
\* between (MutationGateway ExecuteHistory, AuthoritativeTransactions Retain).
\* It holds up to the first roll back that throws (RollBackSucceeds).
HistoryRestores == ~open.active => Shape(world) = marks[cursor + 1]

\* Studio's copy together with the records an open group holds back gives
\* the project itself, identities included.
MirrorConverges == Publish(mirror, open.records) = Visible(world)

\* An outside edit in the middle of a group that a record the group holds back
\* is to overwrite in Studio's copy: it changed what the record is about.
Overtakes ==
    /\ LocalEdit
    /\ \E r \in Range(open.records) :
          /\ r.object \in DOMAIN world
          /\ IF r.object \notin DOMAIN world' THEN r.type = "Created"
             ELSE \/ /\ r.type \in {"Created", "Property"}
                     /\ world'[r.object].value # world[r.object].value
                  \/ /\ r.type \in {"Created", "Reparented"}
                     /\ world'[r.object].parent # world[r.object].parent

\* Only a failed undo or redo, and an outside edit of what an open group has
\* itself edited, may leave Studio's copy behind: every other step that starts
\* from a faithful copy ends with one.  A snapshot taken in the middle of a
\* group is such a step, and so is an outside edit whose record overtakes the
\* group's (EditorHost GetSnapshot, MutationGateway Apply).
MirrorKeeps ==
    [][MirrorConverges /\ outcome' \notin Failures /\ ~Overtakes
         => MirrorConverges']_vars

\* No outside edit leaves Studio's copy behind.  Refuted in three steps: a group
\* begins, writes a value, and code outside writes another one; the commit then
\* publishes the group's value over the later one (MutationGateway Apply,
\* AuthoritativeTransactions Commit).
MirrorNeverOvertaken ==
    [][MirrorConverges /\ outcome' \notin Failures => MirrorConverges']_vars

\* A failed undo or redo moves nothing but the tree.  One that destroyed nothing
\* takes back all it did; one that did, and could restore it, takes back what
\* it did to every object that kept its identity (ExecuteHistory RollBack).
FailureIsAtomic ==
    [][outcome' \in Failures =>
         /\ UNCHANGED <<history, cursor, revision, mirror>>
         /\ DOMAIN world \subseteq DOMAIN world' =>
               outcome' = "ExecutionFailed" /\ Shape(world') = Shape(world)
         /\ outcome' = "ExecutionFailed" =>
               \A x \in Objects(world) \cap Objects(world') :
                  Seen(world', x) = Seen(world, x)]_vars

\* Taking back what a failed undo or redo had applied never fails in its turn,
\* which would leave the project between two entries.  Refuted by sixteen steps
\* without an outside edit: the second redo of a creation leaves an identity
\* captured after the first one without an alias (MutationGateway ExecuteHistory
\* RollBack, AuthoritativeTransactions RemapIdentity).
RollBackSucceeds == outcome # "RollbackThrew"

\* A failed undo or redo takes back all it did.  Refuted: an object it destroyed
\* comes back as the entry captured it, without what an outside edit did to it
\* since (MutationGateway ExecuteHistory, the snapshot restored by RollBack).
FailureRestores ==
    [][outcome' \in Failures => Shape(world') = Shape(world)]_vars

\* A project with nothing pending and shown as clean is the one on disk.
CleanIsSaved ==
    open.changes = <<>> /\ persisted = revision => saved = Shape(world)

\* Only a failed undo or redo may make the clean sign lie: whatever else
\* changes the project moves the revision, an undo back to the saved state
\* and an edit from outside included (EditorHost EncodeProjectState).
CleanMeansSaved ==
    [][CleanIsSaved /\ outcome' \notin Failures => CleanIsSaved']_vars

\* The history respects its limits and its byte account is exact, through
\* discarded redo suffixes and evictions (AuthoritativeTransactions Retain).
RetentionExact ==
    /\ Len(history) <= RetainedTransactionLimit
    /\ retainedBytes = TotalBytes(history)
    /\ retainedBytes <= RetainedByteLimit

\* Following aliases ends at an identity that has none, within the steps
\* ResolveIdentity allows itself (RemapIdentity).
AliasesEnd ==
    \A id \in DOMAIN aliases : ResolveIdentity(aliases, id) \notin DOMAIN aliases

\* An identity that was replaced is never live again, and its aliases lead to
\* one that was not replaced (ResolveIdentity, RemapIdentity).
AliasesNeverResurrect == AliasesEnd /\ DOMAIN aliases \cap DOMAIN world = {}

\* Whatever becomes visible outside a group costs exactly one revision: an
\* edit, a batch, an undo, a redo, a group however large (Commit,
\* CompleteUndo, CompleteRedo); nothing else moves it. A full history whose
\* entries are all equal may give way to one more of them, and look the same.
OneRevisionPerEntry ==
    [][/\ revision' \in {revision, revision + 1}
       /\ (history' # history \/ cursor' # cursor) => revision' = revision + 1
       /\ revision' = revision + 1 /\ "LocalEdit" \notin Requests =>
            \/ history' # history \/ cursor' # cursor
            \/ history # <<>> /\ \A i \in DOMAIN history : history[i] = history[1]]_vars

\* With no outside edit, the entry next to the cursor can always be undone
\* and redone: the alias table maps each identity an entry captured to the
\* live one.
ReplaySucceeds ==
    ~open.active =>
        /\ cursor > 0 => Replay(Start(FALSE), Reverse(history[cursor].changes)).ok
        /\ cursor < Len(history) =>
              Replay(Start(TRUE), history[cursor + 1].changes).ok

=============================================================================
