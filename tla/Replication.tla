---------------------------- MODULE Replication ----------------------------
(***************************************************************************)
(* How the server makes one client's replica follow the world.             *)
(*                                                                         *)
(* The server edits its instance tree and every edit leaves records in the *)
(* change journal.  The coordinator folds the journal into a catalog of    *)
(* what each object now looks like.  For every peer it then mixes two      *)
(* sources of frames, which overtake each other:                           *)
(*   - planned frames, built from the CURRENT catalog: objects that enter  *)
(*     or leave the peer's desired set, with the parent and reference      *)
(*     fixups those transitions need;                                      *)
(*   - journal frames, built from HISTORIC records read at the peer's own  *)
(*     cursor, filtered by what the planned frames already told.           *)
(* What the peer has been told is kept per object (known, accepted,        *)
(* pubEnds); a plan is computed in slices over several steps and is        *)
(* discarded when its inputs have changed.  The client applies each frame  *)
(* atomically or rejects it, and a rejection ends the connection.          *)
(*                                                                         *)
(* The client never answers a frame and the channel is reliable and        *)
(* ordered, so its state is a function of the frames accepted so far:      *)
(* `replica' is that function, updated as a frame is accepted.             *)
(*                                                                         *)
(* Objects carry one soft (nullable) reference, one tag and one name.      *)
(***************************************************************************)
EXTENDS Integers, Sequences, FiniteSets, SequencesExt, FiniteSetsExt

CONSTANTS
    Objects,        \* ObjectIds, as naturals: the code orders its sets by id
    Root,           \* the DataModel
    Owner,          \* the client's character: required while it is in the tree
    Tree,           \* the objects that exist when the peer registers, with their parents
    Edits,          \* the kinds of edit the world makes
    MaxEdits,       \* bound: how many of them
    MaxMoves,       \* bound: how often the client's focus moves
    InitialFocus,   \* the objects near the client when it registers
    PeerQuantum,    \* operations per frame
    ReadLimit,      \* journal records read per call
    Allowances,     \* what other peers may leave of the quantum
    MayDefer,       \* relevance may be too busy with other peers to evaluate this one
    MaySlice        \* a planning slice may end before its plan does

None == 0

ASSUME ObjectsAreNaturals == Objects \subseteq Nat \ {None} /\ IsFiniteSet(Objects)
ASSUME TreeIsRooted == /\ Root \in DOMAIN Tree /\ DOMAIN Tree \subseteq Objects
                       /\ Tree[Root] = None
                       /\ \A o \in DOMAIN Tree \ {Root} : Tree[o] \in DOMAIN Tree
ASSUME BoundsAreNaturals == /\ MaxEdits \in Nat /\ MaxMoves \in Nat
                            /\ PeerQuantum \in Nat \ {0} /\ ReadLimit \in Nat \ {0}
                            /\ Allowances \subseteq 1 .. PeerQuantum /\ PeerQuantum \in Allowances
ASSUME SwitchesAreBoolean == MayDefer \in BOOLEAN /\ MaySlice \in BOOLEAN

VARIABLES
    world,      \* live objects: parent, reference, tag and name
    gone,       \* destroyed objects: an id is never used twice
    journal,    \* the change records, oldest first
    edits,      \* how many edits were made
    focus,      \* the objects near the client
    moves,      \* how often the focus moved
    phase,      \* where the server is in its step: world, plan or produce
    catalog,    \* the coordinator's view of the world
    peer,       \* what the coordinator keeps for the peer
    plan,       \* the peer's planning continuation
    replica,    \* the client's objects
    failure     \* why the peer was dropped, or none

vars == <<world, gone, journal, edits, focus, moves, phase, catalog, peer, plan, replica, failure>>

-----------------------------------------------------------------------------
(* Trees given as partial functions to records with a parent.              *)

\* The object and its ancestors, as far as the tree knows them.
Chain(tree, o) ==
    LET up[k \in 0 .. Cardinality(Objects)] ==
            IF k = 0 THEN {o}
            ELSE up[k-1] \cup ({tree[x].parent : x \in up[k-1] \cap DOMAIN tree} \ {None})
    IN up[Cardinality(Objects)]

Depth(tree, o) == Cardinality(Chain(tree, o))

\* Parents first, or deepest first; ties by id.
ByAncestry(objects, tree, parentFirst) ==
    SetToSortSeq(objects, LAMBDA x, y :
        LET dx == Depth(tree, x) dy == Depth(tree, y)
        IN IF dx = dy THEN x < y ELSE IF parentFirst THEN dx < dy ELSE dx > dy)

InOrder(objects) == SetToSortSeq(objects, <)

ChildrenOf(tree, o) == {x \in DOMAIN tree : tree[x].parent = o}

Attached(tree) == {o \in DOMAIN tree : Root \in Chain(tree, o)}

Without(f, s) == [x \in DOMAIN f \ s |-> f[x]]

-----------------------------------------------------------------------------
(* The world: edits of the instance tree and the records they journal.     *)

Record(kind, o, value) == [kind |-> kind, object |-> o, value |-> value]

Tail1 == Len(journal) + 1

\* A reference to a destroyed object reads nil, though nothing journals it.
Read(o) == [world[o] EXCEPT !.ref = IF @ \in DOMAIN world THEN @ ELSE None]

Fresh(p) == [parent |-> p, ref |-> None, tag |-> FALSE, name |-> 0]

\* Destroying an object drops its tag, announces Destroyed, destroys the
\* children and only then reports the object destroyed.
Teardown(root) ==
    LET down[o \in Objects] ==
            LET kids == InOrder(ChildrenOf(world, o)) IN
            (IF world[o].tag THEN <<Record("untag", o, None)>> ELSE <<>>)
            \o <<Record("dying", o, None)>>
            \o FlattenSeq([i \in 1 .. Len(kids) |-> down[kids[i]]])
            \o <<Record("destroyed", o, None)>>
    IN down[root]

Edit(kind, newWorld, records) ==
    /\ kind \in Edits
    /\ phase = "world" /\ failure = "none" /\ edits < MaxEdits
    /\ edits' = edits + 1
    /\ world' = newWorld
    /\ gone' = gone \cup (DOMAIN world \ DOMAIN newWorld)
    /\ journal' = journal \o records
    /\ UNCHANGED <<focus, moves, phase, catalog, peer, plan, replica, failure>>

\* A new instance is adopted by the tree when it first gets a parent in it.
Create(o, p) ==
    /\ o \notin DOMAIN world \cup gone
    /\ p \in Attached(world)
    /\ Edit("create", [x \in DOMAIN world \cup {o} |-> IF x = o THEN Fresh(p) ELSE world[x]],
            <<Record("created", o, None), Record("reparented", o, p)>>)

Destroy(o) ==
    /\ o # Root
    /\ Edit("destroy", Without(world, {x \in DOMAIN world : o \in Chain(world, x)}), Teardown(o))

Reparent(o, p) ==
    /\ o # Root /\ world[o].parent # p
    /\ p # None => o \notin Chain(world, p)
    /\ Edit(IF p = None THEN "detach" ELSE "reparent",
            [world EXCEPT ![o].parent = p], <<Record("reparented", o, p)>>)

SetReference(o, t) ==
    /\ world[o].ref # t
    /\ Edit("reference", [world EXCEPT ![o].ref = t], <<Record("reference", o, t)>>)

SetTag(o) ==
    Edit("tag", [world EXCEPT ![o].tag = ~@],
         <<Record(IF world[o].tag THEN "untag" ELSE "tag", o, None)>>)

SetName(o) ==
    Edit("name", [world EXCEPT ![o].name = @ + 1], <<Record("name", o, world[o].name + 1)>>)

\* Something moves into or out of the client's range.
MoveFocus(f) ==
    /\ phase = "world" /\ failure = "none" /\ moves < MaxMoves /\ f # focus
    /\ focus' = f /\ moves' = moves + 1
    /\ UNCHANGED <<world, gone, journal, edits, phase, catalog, peer, plan, replica, failure>>

-----------------------------------------------------------------------------
(* The catalog.                                                            *)

\* The templates of destroyed objects that no peer knows are released.
ReclaimRetired(c) ==
    LET free == c.retired \ peer.known IN
    [c EXCEPT !.entries = Without(@, free), !.retired = @ \ free]

\* Every object a new record touches is captured again as it is now; what no
\* longer lives is retired but kept, for the peers that still know it.
RefreshCatalog(c) ==
    LET news == SubSeq(journal, c.cursor, Len(journal))
        touched == {news[i].object : i \in DOMAIN news}
        live == touched \cap DOMAIN world
        dead == touched \ live
        dependencies ==
            \/ \E o \in live : \/ o \notin DOMAIN c.entries \/ o \in c.retired
                               \/ c.entries[o].parent # world[o].parent
            \/ ~(dead \subseteq c.retired)
        references == \E o \in live \cap DOMAIN c.entries : c.entries[o].ref # Read(o).ref
        others == {i \in DOMAIN news : news[i].kind # "name"}
    IN [ entries |-> [o \in DOMAIN c.entries \cup live |->
                         IF o \in live THEN Read(o) ELSE c.entries[o]],
         retired |-> (c.retired \ live) \cup dead,
         cursor |-> Tail1,
         dependency |-> IF dependencies THEN Tail1 ELSE c.dependency,
         planning |-> IF dependencies \/ references THEN Tail1 ELSE c.planning,
         nameBegin |-> IF others = {} THEN c.nameBegin ELSE c.cursor + Max(others) ]

-----------------------------------------------------------------------------
(* Relevance and the request for a plan.                                   *)

\* What relevance wants the peer to see: the root, the client's own character
\* and whatever is near its focus.
Selection ==
    LET required == {Root} \cup ({Owner} \cap Attached(world)) IN
    [required |-> required, desired |-> required \cup (focus \cap Attached(world))]

NoSelection == [required |-> {}, desired |-> {}]

NoPlan == [ stage |-> "none", selection |-> NoSelection, revision |-> 0, fresh |-> TRUE,
            baseline |-> FALSE, entering |-> {}, leaving |-> {}, reparents |-> <<>>,
            clears |-> {}, restores |-> {}, cost |-> 0 ]

PlanDisposing == [NoPlan EXCEPT !.stage = "disposing"]

Settled(p, c) == p.pending = <<>> /\ p.selection = p.resolved /\ p.depCursor = c.dependency

\* A mutant of RequestPlanning: a peer that waits for a newer selection keeps
\* waiting when it comes.
RequestPlanningStillWaits(p, c, selection) ==
    LET q == [p EXCEPT !.resolved = IF selection = @ THEN @ ELSE NoSelection,
                       !.selection = selection]
    IN [q EXCEPT !.queued = @ \/ plan.stage # "none" \/ (~q.awaiting /\ ~Settled(q, c))]

RequestPlanning(p, c, selection) ==
    LET q == [p EXCEPT !.resolved = IF selection = @ THEN @ ELSE NoSelection,
                       !.awaiting = IF selection = p.selection THEN @ ELSE FALSE,
                       !.selection = selection]
    IN [q EXCEPT !.queued = @ \/ plan.stage # "none" \/ (~q.awaiting /\ ~Settled(q, c))]

\* A server step: released templates, one catalog refresh (nothing edits the
\* world until the step ends), and a selection if relevance gets to the peer.
BeginStep(evaluated) ==
    /\ phase = "world" /\ failure = "none"
    /\ evaluated \/ MayDefer
    /\ phase' = "plan"
    /\ \E c \in {RefreshCatalog(ReclaimRetired(catalog))} :
          /\ catalog' = c
          /\ peer' = IF evaluated THEN RequestPlanning(peer, c, Selection) ELSE peer
    /\ UNCHANGED <<world, gone, journal, edits, focus, moves, plan, replica, failure>>

-----------------------------------------------------------------------------
(* Planning.                                                               *)

Valid(pl) == /\ pl.selection = peer.selection
             /\ pl.revision = catalog.planning
             /\ pl.fresh

IsPlanningReady == plan.stage = "ready" /\ Valid(plan)

Current == Without(catalog.entries, catalog.retired)

\* The seeds, with the ancestors the catalog gives them.
Closure(seeds) == UNION {Chain(Current, o) : o \in seeds} \cap DOMAIN Current

CatalogParent(o) == catalog.entries[o].parent
CatalogRef(o) == catalog.entries[o].ref
AcceptedParent(o) == peer.accepted[o].parent
AcceptedRef(o) == peer.accepted[o].ref

\* What the planner reads: the sets it derives once, before it selects.
Inputs ==
    LET reuse == peer.selection = peer.resolved /\ peer.depCursor = catalog.dependency
        desired == IF reuse THEN peer.desired ELSE Closure(peer.selection.desired \cup peer.selection.required)
        required == IF reuse THEN peer.required ELSE Closure(peer.selection.required)
        enters == desired \ (peer.known \cup catalog.retired)
        leaves == peer.known \ desired
        moved == {o \in desired \cap peer.known : AcceptedParent(o) # CatalogParent(o)}
    IN [ stale |-> ~reuse /\ ~(peer.selection.required \subseteq DOMAIN Current),
         desired |-> desired, required |-> required, baseline |-> peer.known = {},
         enters |-> enters, leaves |-> leaves, moved |-> IF peer.known = {} THEN {} ELSE moved,
         critical |-> InOrder(enters \cap required) \o InOrder(leaves \cap catalog.retired),
         ordinary |-> InOrder(enters \ required) \o InOrder(leaves \ catalog.retired) ]

\* Children whose parent changed, and who are told so when that parent enters
\* or when the parent they were last told leaves.
EnterMoves(in, o) == {x \in in.moved : CatalogParent(x) = o /\ o \notin peer.known}
LeaveMoves(in, o) == {x \in in.moved : AcceptedParent(x) = o}

\* A mutant of Referrers: only what the peer was last told is restored, not what
\* the object refers to now.
ReferrersAsTold(in, o) ==
    IF in.baseline THEN {} ELSE {x \in in.desired \cap peer.known : AcceptedRef(x) = o}

Referrers(in, o) ==
    IF in.baseline THEN {} ELSE {x \in in.desired \cap peer.known : CatalogRef(x) = o}

\* Who was told a reference to an object that leaves.
Holders(in, o) == IF in.baseline THEN {} ELSE {x \in peer.known : AcceptedRef(x) = o}

\* An object enters with its unknown ancestors and leaves with what hangs below it.
EnterGroup(in, o) ==
    LET unknown == [x \in in.enters |-> catalog.entries[x]] IN Chain(unknown, o) \cap in.enters
LeaveGroup(in, o) ==
    LET leaving == [x \in in.leaves |-> peer.accepted[x]]
    IN {x \in in.leaves : o \in Chain(leaving, x)}

SumOver(S, f(_)) == FoldSet(LAMBDA x, acc : acc + f(x), 0, S)

\* One candidate of a queue: its group is taken whole, or not at all.
Candidate(in, acc, o) ==
    LET enter == o \in in.enters
        chosen == IF enter THEN acc.entering ELSE acc.leaving
        group == IF enter THEN EnterGroup(in, o) ELSE LeaveGroup(in, o)
        new == group \ chosen
        told(x) == Holders(in, x) \ (acc.leaving \cup group)
        EnterWork(x) == 1 + Cardinality(EnterMoves(in, x)) + Cardinality(Referrers(in, x))
        LeaveWork(x) == 1 + Cardinality(LeaveMoves(in, x)) + Cardinality(told(x))
        Vanishing(x) == Cardinality(told(x) \cap in.leaves)
        work == IF enter THEN SumOver(new, EnterWork) ELSE SumOver(new, LeaveWork)
        disappearing == IF enter THEN 0 ELSE SumOver(new, Vanishing)
        blocked == ~enter /\ \E x \in new : \E child \in LeaveMoves(in, x) :
                      /\ CatalogParent(child) # None
                      /\ CatalogParent(child) \notin peer.known \cup acc.entering
    IN IF acc.error \/ acc.cost = PeerQuantum \/ o \in chosen THEN acc
       ELSE IF Cardinality(group) > PeerQuantum THEN [acc EXCEPT !.error = TRUE]
       ELSE IF blocked THEN acc
       ELSE IF work > PeerQuantum
            THEN IF work - disappearing <= PeerQuantum THEN acc ELSE [acc EXCEPT !.error = TRUE]
       ELSE IF work > PeerQuantum - acc.cost THEN acc
       ELSE IF enter THEN [acc EXCEPT !.entering = @ \cup group, !.cost = @ + work]
       ELSE [acc EXCEPT !.leaving = @ \cup group, !.cost = @ + work]

\* A bootstrap that does not fit sends what is required first.
Select(in) ==
    LET pick(acc, o) == Candidate(in, acc, o)
        none == [entering |-> {}, leaving |-> {}, cost |-> 0,
                 error |-> in.baseline /\ Len(in.critical) > PeerQuantum]
        split == in.baseline /\ Cardinality(in.enters) + Cardinality(in.leaves) > PeerQuantum
        first == FoldLeft(pick, none, in.critical)
    IN IF split THEN first ELSE FoldLeft(pick, first, in.ordinary)

\* The finished plan: the chosen transitions and the fixups they carry.
Planned(pl, in, chosen) ==
    LET moved == UNION {EnterMoves(in, o) : o \in chosen.entering}
                 \cup UNION {LeaveMoves(in, o) : o \in chosen.leaving}
    IN [pl EXCEPT !.stage = "ready", !.baseline = in.baseline, !.cost = chosen.cost,
                  !.entering = chosen.entering, !.leaving = chosen.leaving,
                  !.reparents = [x \in moved |-> CatalogParent(x)],
                  !.clears = {[referrer |-> x, target |-> CatalogRef(x)] :
                                 x \in UNION {Holders(in, o) : o \in chosen.leaving} \ chosen.leaving},
                  !.restores = {[referrer |-> x, target |-> CatalogRef(x)] :
                                 x \in UNION {Referrers(in, o) : o \in chosen.entering}}]

Install(in) ==
    [peer EXCEPT !.desired = in.desired, !.required = in.required,
                 !.relevant = in.desired \cap peer.known,
                 !.pending = [o \in in.enters \cup in.leaves |-> IF o \in in.enters THEN "enter" ELSE "leave"],
                 !.depCursor = catalog.dependency, !.resolved = peer.selection]

\* The continuation runs to its end: it waits for a newer selection, it
\* fails, or its result is installed and is ready to be sent.
FinishRun(pl) ==
    \E in \in {Inputs} : \E chosen \in {Select(in)} :
        \/ /\ in.stale
           /\ peer' = [peer EXCEPT !.awaiting = TRUE]
           /\ plan' = PlanDisposing
           /\ UNCHANGED failure
        \/ /\ ~in.stale /\ chosen.error
           /\ failure' = "limit"
           /\ UNCHANGED <<peer, plan>>
        \/ /\ ~in.stale /\ ~chosen.error
           /\ peer' = [Install(in) EXCEPT !.queued = chosen.cost = 0]
           /\ plan' = IF chosen.cost = 0 THEN PlanDisposing ELSE Planned(pl, in, chosen)
           /\ UNCHANGED failure

FinishDisposal ==
    /\ plan' = NoPlan
    /\ peer' = [peer EXCEPT !.queued = ~(peer.awaiting \/ Settled(peer, catalog))]
    /\ UNCHANGED failure

\* ProcessPlanning gives a queued peer one slice: a plan whose inputs changed
\* is thrown away, a missing one is begun, and the slice may or may not finish.
ServicePlanning(finish) ==
    /\ phase = "plan" /\ peer.queued
    /\ finish \/ MaySlice
    /\ phase' = "produce"
    /\ \E pl \in {IF plan.stage \in {"running", "ready"} /\ ~Valid(plan) THEN PlanDisposing
                  ELSE IF plan.stage = "none"
                       THEN [NoPlan EXCEPT !.stage = "running", !.selection = peer.selection,
                                           !.revision = catalog.planning]
                  ELSE plan} :
          \/ /\ pl.stage = "ready"
             /\ peer' = [peer EXCEPT !.queued = FALSE]
             /\ UNCHANGED <<plan, failure>>
          \/ /\ pl.stage # "ready" /\ ~finish
             /\ plan' = pl
             /\ UNCHANGED <<peer, failure>>
          \/ pl.stage = "running" /\ finish /\ FinishRun(pl)
          \/ pl.stage = "disposing" /\ finish /\ FinishDisposal
    /\ UNCHANGED <<world, gone, journal, edits, focus, moves, catalog, replica>>

\* Nothing to plan, or other peers used this tick's planning work.
SkipPlanning ==
    /\ phase = "plan"
    /\ ~peer.queued \/ MaySlice
    /\ phase' = "produce"
    /\ UNCHANGED <<world, gone, journal, edits, focus, moves, catalog, peer, plan, replica, failure>>

-----------------------------------------------------------------------------
(* The client: a frame is applied whole or rejected.                       *)

Op(op, o, value) == [op |-> op, object |-> o, value |-> value]

\* One operation against the objects so far; ok records whether all were legal.
ApplyOperation(acc, op) ==
    LET objects == acc.objects
        o == op.object
        known == o \in DOMAIN objects
        set(field, value) == [acc EXCEPT !.objects[o][field] = value]
        refuse == [acc EXCEPT !.ok = FALSE]
    IN IF ~acc.ok THEN acc
       ELSE CASE op.op = "publish" ->
                   IF known \/ o \in acc.lifecycle
                      \/ (op.value.parent # None /\ op.value.parent \notin DOMAIN objects)
                   THEN refuse
                   ELSE [acc EXCEPT !.lifecycle = @ \cup {o},
                                    !.objects = [x \in DOMAIN objects \cup {o} |->
                                                    IF x = o THEN op.value ELSE objects[x]]]
              [] op.op = "remove" ->
                   IF ~known \/ o \in acc.lifecycle THEN refuse
                   ELSE [acc EXCEPT !.lifecycle = @ \cup {o},
                                    !.objects = Without(@, {x \in DOMAIN @ : o \in Chain(@, x)})]
              [] ~known -> refuse
              [] op.op = "reparent" ->
                   IF op.value # None /\ (op.value \notin DOMAIN objects \/ o \in Chain(objects, op.value))
                   THEN refuse ELSE set("parent", op.value)
              [] op.op = "reference" -> set("ref", op.value)
              [] op.op = "name" -> set("name", op.value)
              [] op.op = "tag" -> IF objects[o].tag THEN refuse ELSE set("tag", TRUE)
              [] op.op = "untag" -> IF objects[o].tag THEN set("tag", FALSE) ELSE refuse

\* The candidate is loaded as a snapshot before it is committed: one root, no
\* parent or reference outside it, no cycle.
ValidSnapshot(objects) ==
    /\ Cardinality({o \in DOMAIN objects : objects[o].parent = None}) = 1
    /\ \A o \in DOMAIN objects : /\ objects[o].parent \in DOMAIN objects \cup {None}
                                 /\ objects[o].ref \in DOMAIN objects \cup {None}
                                 /\ \E r \in Chain(objects, o) : objects[r].parent = None

\* A baseline carries every object it starts from; its order does not matter.
BaselineObjects(ops) ==
    [o \in {ops[i].object : i \in DOMAIN ops} |->
        ops[CHOOSE i \in DOMAIN ops : ops[i].object = o].value]

ApplyFrame(baseline, ops) ==
    LET start == [objects |-> replica, lifecycle |-> {}, ok |-> TRUE]
        done == IF baseline THEN [start EXCEPT !.objects = BaselineObjects(ops)]
                ELSE FoldLeft(ApplyOperation, start, ops)
    IN [done EXCEPT !.ok = @ /\ ValidSnapshot(done.objects)]

-----------------------------------------------------------------------------
(* Frames: prepared, accepted by the reliable scheduler and committed.     *)

\* A mutant of AcceptedAfter: a journalled reference leaves no trace in what the
\* peer is believed to hold.
AcceptedAfterStructural(ops, journalEnd) ==
    LET told(acc, op) ==
            LET o == op.object
                old == IF o \in DOMAIN acc THEN acc[o] ELSE
                       [parent |-> None, end |-> 0, nameEnd |-> 0, ref |-> None]
                new == CASE op.op = "publish" -> [old EXCEPT !.parent = op.value.parent, !.end = journalEnd,
                                                             !.ref = op.value.ref]
                         [] op.op = "reparent" -> [old EXCEPT !.parent = op.value, !.end = journalEnd]
                         [] OTHER -> old
            IN [x \in DOMAIN acc \cup {o} |-> IF x = o THEN new ELSE acc[x]]
    IN FoldLeft(told, peer.accepted, ops)

\* What the frame's operations make of the peer's accepted metadata.
AcceptedAfter(ops, journalEnd) ==
    LET told(acc, op) ==
            LET o == op.object
                old == IF o \in DOMAIN acc THEN acc[o] ELSE
                       [parent |-> None, end |-> 0, nameEnd |-> 0, ref |-> None]
                new == CASE op.op = "publish" -> [old EXCEPT !.parent = op.value.parent, !.end = journalEnd,
                                                             !.ref = op.value.ref]
                         [] op.op = "reparent" -> [old EXCEPT !.parent = op.value, !.end = journalEnd]
                         [] op.op = "reference" -> [old EXCEPT !.ref = op.value]
                         [] OTHER -> old
            IN [x \in DOMAIN acc \cup {o} |-> IF x = o THEN new ELSE acc[x]]
    IN FoldLeft(told, peer.accepted, ops)

\* ApplyPreparedCommit.  A plan made from what was accepted before goes stale
\* when a parent, a reference or the known set changes; the peer is queued
\* again while it has transitions or a plan.
Commit(entering, leaving, accepted, cursor, prefer) ==
    LET known == (peer.known \cup entering) \ leaving
        kept == [o \in known |-> accepted[o]]
        moved == \/ entering \cup leaving # {}
                 \/ \E o \in known : \/ kept[o].parent # AcceptedParent(o)
                                     \/ kept[o].ref # AcceptedRef(o)
        ends == [o \in (DOMAIN peer.pubEnds \cup entering) \ leaving |->
                    IF o \in entering /\ catalog.cursor > cursor THEN catalog.cursor
                    ELSE IF o \in DOMAIN peer.pubEnds THEN peer.pubEnds[o] ELSE 0]
        pending == Without(peer.pending, entering \cup leaving)
    IN /\ peer' = [peer EXCEPT !.known = known, !.cursor = cursor, !.accepted = kept, !.pubEnds = ends,
                               !.relevant = (@ \cup (entering \cap peer.desired)) \ leaving,
                               !.pending = pending, !.prefer = prefer,
                               !.queued = @ \/ pending # <<>> \/ plan.stage # "none"]
       /\ plan' = IF moved /\ plan.stage \in {"running", "ready"} THEN [plan EXCEPT !.fresh = FALSE] ELSE plan

\* The scheduler accepts the frame, and the client will apply or reject it.
Submit(baseline, ops) ==
    \E applied \in {ApplyFrame(baseline, ops)} :
        /\ replica' = IF applied.ok THEN applied.objects ELSE replica
        /\ failure' = IF applied.ok THEN "none" ELSE "rejected"

Drop(why) ==
    /\ failure' = why
    /\ UNCHANGED <<peer, plan, replica>>

\* The operations of a planned frame, in the order the client needs them.
PlannedOperations ==
    LET after(t) == (t \in peer.known /\ t \notin plan.leaving) \/ t \in plan.entering
        shown(o) == [catalog.entries[o] EXCEPT !.ref = IF after(@) THEN @ ELSE None]
        each(objects, op(_)) == [i \in 1 .. Len(objects) |-> op(objects[i])]
        ByReferrer(fixups) == SetToSortSeq(fixups, LAMBDA x, y : x.referrer < y.referrer)
        Clear(f) == Op("reference", f.referrer, IF after(f.target) THEN f.target ELSE None)
        Enter(o) == Op("publish", o, shown(o))
        Move(o) == Op("reparent", o, plan.reparents[o])
        Leave(o) == Op("remove", o, None)
        Restore(f) == Op("reference", f.referrer, f.target)
    IN each(ByReferrer(plan.clears), Clear)
       \o each(ByAncestry(plan.entering, catalog.entries, TRUE), Enter)
       \o each(ByAncestry(DOMAIN plan.reparents, catalog.entries, TRUE), Move)
       \o each(ByAncestry(plan.leaving, peer.accepted, FALSE), Leave)
       \o each(ByReferrer(plan.restores), Restore)

Affordable(allowance) == IsPlanningReady /\ plan.cost <= allowance

CanProduceRelevance(allowance) == phase = "produce" /\ failure = "none" /\ Affordable(allowance)

\* ProducePlannedFrame, accepted: bootstrap, or a batch of transitions.
ProduceRelevance(allowance) ==
    /\ CanProduceRelevance(allowance)
    /\ \/ /\ ~(plan.entering \subseteq DOMAIN Current)
          /\ Drop("stale")
       \/ /\ plan.entering \subseteq DOMAIN Current
          /\ \E ops \in {PlannedOperations} :
                \/ /\ Len(ops) > plan.cost
                   /\ Drop("budget")
                \/ /\ Len(ops) <= plan.cost
                   /\ Submit(plan.baseline, ops)
                   /\ Commit(plan.entering, plan.leaving, AcceptedAfter(ops, catalog.cursor),
                             IF plan.baseline THEN catalog.cursor ELSE peer.cursor,
                             plan.baseline /\ peer.prefer)
    /\ UNCHANGED <<world, gone, journal, edits, focus, moves, phase, catalog>>

\* Whether a record is already told by a name the peer accepted, or by one
\* this frame carries.
NameCovered(acc, r, seq) ==
    /\ r.kind = "name" /\ r.object \in peer.known
    /\ r.object \in acc.names \/ seq < peer.accepted[r.object].nameEnd

\* A mutant of Skipped: the history a complete publication already represents
\* is replayed over it.
SkippedIrrelevant(r, seq) == r.object \notin peer.relevant

\* Whether the complete publication of the object already represents it, or
\* the peer does not follow the object.
Skipped(r, seq) ==
    \/ r.object \in DOMAIN peer.pubEnds /\ seq < peer.pubEnds[r.object]
    \/ r.object \notin peer.relevant

\* What a record that is not skipped adds to the frame.
OperationOf(r, seq) ==
    LET o == r.object
        coalesced == seq >= catalog.nameBegin /\ o \notin catalog.retired
    IN CASE r.kind = "reparented" ->
              IF seq < peer.accepted[o].end \/ (r.value # None /\ r.value \notin peer.known) THEN <<>>
              ELSE <<Op("reparent", o, r.value)>>
         [] r.kind = "reference" ->
              <<Op("reference", o, IF CatalogRef(o) \in peer.known THEN CatalogRef(o) ELSE None)>>
         [] r.kind = "name" ->
              <<Op("name", o, IF coalesced THEN catalog.entries[o].name ELSE r.value)>>
         [] r.kind \in {"tag", "untag"} -> <<Op(r.kind, o, None)>>
         [] r.kind = "destroyed" -> <<Op("remove", o, None)>>
         [] OTHER -> <<>>

JournalRecord(acc, r, allowance) ==
    LET seq == acc.cursor
        names == IF r.kind = "name" /\ seq >= catalog.nameBegin /\ r.object \notin catalog.retired
                 THEN {r.object} ELSE {}
    IN IF acc.full THEN acc
       ELSE IF NameCovered(acc, r, seq) THEN [acc EXCEPT !.cursor = @ + 1]
       ELSE IF Len(acc.ops) = allowance THEN [acc EXCEPT !.full = TRUE]
       ELSE IF Skipped(r, seq) THEN [acc EXCEPT !.cursor = @ + 1]
       ELSE [acc EXCEPT !.cursor = @ + 1, !.ops = @ \o OperationOf(r, seq), !.names = @ \cup names]

CanProduceJournal(allowance) ==
    /\ phase = "produce" /\ failure = "none"
    /\ peer.known # {}
    /\ peer.prefer => ~Affordable(allowance)
    /\ peer.depCursor = catalog.dependency
    /\ peer.cursor <= Len(journal)

\* ProduceIncremental: the records after the peer's cursor, as far as the
\* read limit and the allowance go.  A batch that tells the peer nothing only
\* moves the cursor.
ProduceJournal(allowance) ==
    /\ CanProduceJournal(allowance)
    /\ LET records == SubSeq(journal, peer.cursor, Min({Len(journal), peer.cursor + ReadLimit - 1}))
           step(acc, r) == JournalRecord(acc, r, allowance)
           start == [ops |-> <<>>, cursor |-> peer.cursor, names |-> {}, full |-> FALSE]
       IN \E done \in {FoldLeft(step, start, records)} :
             \E accepted \in {AcceptedAfter(done.ops, done.cursor)} :
                LET left == {done.ops[i].object : i \in {j \in DOMAIN done.ops : done.ops[j].op = "remove"}}
                    named == [o \in DOMAIN accepted |->
                                 IF o \in done.names THEN [accepted[o] EXCEPT !.nameEnd = catalog.cursor]
                                 ELSE accepted[o]]
                IN \/ /\ done.ops = <<>>
                      /\ peer' = [peer EXCEPT !.cursor = done.cursor]
                      /\ UNCHANGED <<plan, replica, failure>>
                   \/ /\ done.ops # <<>>
                      /\ Submit(FALSE, done.ops)
                      /\ Commit({}, left, named, done.cursor, TRUE)
    /\ UNCHANGED <<world, gone, journal, edits, focus, moves, phase, catalog>>

\* The step's work, byte or transition budget is used up.
EndStep ==
    /\ phase = "produce" /\ failure = "none"
    /\ phase' = "world"
    /\ UNCHANGED <<world, gone, journal, edits, focus, moves, catalog, peer, plan, replica, failure>>

-----------------------------------------------------------------------------

\* RegisterPeerPlanned: the peer starts at the catalog's cursor with the
\* selection relevance made when it was added.
Init ==
    /\ world = [o \in DOMAIN Tree |-> Fresh(Tree[o])]
    /\ gone = {} /\ journal = <<>> /\ edits = 0
    /\ focus = InitialFocus /\ moves = 0
    /\ phase = "world"
    /\ catalog = [entries |-> world, retired |-> {}, cursor |-> 1, dependency |-> 1, planning |-> 1,
                  nameBegin |-> 1]
    /\ peer = [known |-> {}, relevant |-> {}, desired |-> {}, required |-> {}, cursor |-> 1,
               accepted |-> <<>>, pubEnds |-> <<>>, pending |-> <<>>, selection |-> Selection,
               resolved |-> NoSelection, awaiting |-> FALSE, depCursor |-> 0, queued |-> TRUE,
               prefer |-> TRUE]
    /\ plan = NoPlan
    /\ replica = <<>>
    /\ failure = "none"

Next ==
    \/ \E o \in Objects, p \in DOMAIN world : Create(o, p)
    \/ \E o \in DOMAIN world : Destroy(o)
    \/ \E o \in DOMAIN world, p \in DOMAIN world \cup {None} : Reparent(o, p)
    \/ \E o \in DOMAIN world, t \in DOMAIN world \cup {None} : SetReference(o, t)
    \/ \E o \in DOMAIN world : SetTag(o)
    \/ \E o \in DOMAIN world : SetName(o)
    \/ \E f \in SUBSET (Objects \ {Root}) : MoveFocus(f)
    \/ \E evaluated \in BOOLEAN : BeginStep(evaluated)
    \/ \E finish \in BOOLEAN : ServicePlanning(finish)
    \/ SkipPlanning
    \/ \E allowance \in Allowances : ProduceRelevance(allowance)
    \/ \E allowance \in Allowances : ProduceJournal(allowance)
    \/ EndStep

Spec == Init /\ [][Next]_vars

\* The server keeps stepping; evaluation and planning rotate over the peers and
\* reach this one again and again, and so do full allowances.  The four last
\* conjuncts are strong fairness with the enabling conditions written out: each
\* action is possible exactly when its guards hold and then changes something.
Fairness ==
    /\ WF_vars(BeginStep(TRUE) \/ BeginStep(FALSE)) /\ WF_vars(SkipPlanning) /\ WF_vars(EndStep)
    /\ <>[]~(phase = "world" /\ failure = "none") \/ []<><<BeginStep(TRUE)>>_vars
    /\ <>[]~(phase = "plan" /\ peer.queued) \/ []<><<ServicePlanning(TRUE)>>_vars
    /\ <>[]~CanProduceRelevance(PeerQuantum) \/ []<><<ProduceRelevance(PeerQuantum)>>_vars
    /\ <>[]~CanProduceJournal(PeerQuantum) \/ []<><<ProduceJournal(PeerQuantum)>>_vars

FairSpec == Spec /\ Fairness

-----------------------------------------------------------------------------
(* Properties.                                                             *)

\* Every field has its type; the peer's known set and its accepted metadata
\* name the same objects, which the planner checks before it starts.
TypeOK ==
    /\ DOMAIN world \subseteq Objects /\ gone \subseteq Objects \ DOMAIN world
    /\ phase \in {"world", "plan", "produce"}
    /\ catalog.cursor \in 1 .. Tail1 /\ peer.cursor \in 1 .. Tail1
    /\ peer.known = DOMAIN peer.accepted /\ peer.relevant \subseteq peer.known
    /\ peer.known \subseteq DOMAIN catalog.entries
    /\ plan.stage \in {"none", "running", "ready", "disposing"}
    /\ failure \in {"none", "limit", "rejected", "stale", "budget"}

\* The client accepts every frame: whatever order planned and journal frames
\* come in, no frame names an object the client lacks, publishes one twice,
\* repeats a tag, or leaves a dangling parent or reference behind, and no plan
\* is sent that its selected work does not cover.
FramesAccepted == failure \notin {"rejected", "stale", "budget"}

\* What the coordinator believes it told the client is what the client holds.
AcceptedIsReplica ==
    failure = "none" =>
        /\ peer.known = DOMAIN replica
        /\ \A o \in peer.known : /\ AcceptedParent(o) = replica[o].parent
                                 /\ AcceptedRef(o) = replica[o].ref

\* What the client should see: the objects relevance wants with their
\* ancestors, as they are in the world, references outside them nil.
Expected ==
    LET seen == UNION {Chain(world, o) : o \in Selection.desired} IN
    [o \in seen |-> [Read(o) EXCEPT !.ref = IF @ \in seen THEN @ ELSE None]]

CaughtUp ==
    /\ failure = "none" /\ phase = "produce" /\ peer.known # {}
    /\ peer.selection = Selection /\ Settled(peer, catalog)
    /\ catalog.cursor = Tail1 /\ peer.cursor = Tail1

\* Once a peer has nothing pending and has read the whole journal, its client
\* sees exactly the current world: no parent, reference, tag or name is lost
\* between the two sources of frames.
QuiescentAgrees == CaughtUp => replica = Expected

\* After the last edit and the last move the client does come to see the
\* world, unless the peer was dropped for exceeding a limit.
Converges == <>[](failure = "none" => replica = Expected)

=============================================================================
