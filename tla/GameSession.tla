---------------------------- MODULE GameSession ----------------------------
(***************************************************************************)
(* The session protocol of src/src/network/GameSession.cpp: one server      *)
(* session and the client sessions that connect to it over a transport.     *)
(*                                                                          *)
(* Each peer walks TransportConnected -> BootstrapPending -> Accepted ->    *)
(* Ready and, on the way, is registered with the scheduler, the relevance   *)
(* service, the replication coordinator, the Remote manager and the         *)
(* Character authority; any failure tears all of that down.  The Remote     *)
(* Instances of the tree are followed by three registries that have to      *)
(* agree: the session's ServerRemoteObjects, the Remote manager's registry  *)
(* and every peer's replication View.                                       *)
(*                                                                          *)
(* One client session opens one connection, so a client names its           *)
(* connection.  A server or client session is one record and the handlers   *)
(* are functions on it; Poll handles one event and Step is one action, as   *)
(* both run to completion on the session's thread.  Byte admission (pooled  *)
(* service), Characters and metrics are left out.                           *)
(***************************************************************************)
EXTENDS Integers, Sequences, FiniteSets, SequencesExt, FiniteSetsExt, Aggregates

CONSTANTS
    Clients,                \* client sessions, and their connections
    Remotes,                \* Remote Instances of the server's DataModel
    HandshakeTimeoutTicks,  \* Configuration.HandshakeTimeoutTicks
    MaxPeers,               \* MaximumGameSessionPeers
    MaxBurst,               \* bound: messages of a connection one Step hands over
    MaxBacklog,             \* bound: undelivered messages at which frames wait
    MaxFires,               \* bound: application messages a client or the server sends
    MaxFaults,              \* bound: resource failures and lost links
    MaxTreeChanges          \* bound: changes of the Remotes' place in the tree

ASSUME SessionAssumption ==
    /\ HandshakeTimeoutTicks \in Nat \ {0}
    /\ {MaxPeers, MaxBurst, MaxBacklog, MaxFires, MaxFaults, MaxTreeChanges} \subseteq Nat

VARIABLES
    server,    \* the server's GameSession::Implementation
    client,    \* the clients' GameSession::Implementation
    tree,      \* where each Remote Instance is: "out", "in", "destroyed"
    net,       \* the transport: inboxes and datagrams in flight
    ended,     \* why each connection was ended by a session, "none" while it was not
    used       \* what has been used of the bounds

vars == <<server, client, tree, net, ended, used>>

Services == {"scheduler", "relevance", "replication", "remotes", "authority"}
Phases == {"Absent", "TransportConnected", "BootstrapPending", "Accepted", "Ready"}
Causes == {"none", "timeout", "resource", "registry", "capacity", "shutdown",
           "protocol", "early datagram"}

(***************************************************************************)
(* Messages.  The scheduler hands over Control before structural and        *)
(* structural before application traffic (NetworkScheduler).                *)
(***************************************************************************)
Connected == [type |-> "connected"]
Disconnected == [type |-> "disconnected"]
ClientHello == [type |-> "hello"]
ServerAccepted(epoch) == [type |-> "accepted", epoch |-> epoch]
ClientReady(epoch) == [type |-> "ready", epoch |-> epoch]
Reliable == [type |-> "app"]
Datagram == [type |-> "datagram"]

\* The structural frames that publish some of live and let go of some of dead.
\* Collapse is what a property write of the frame destroys in the replica before
\* its own Leave operation arrives.
FramesOf(baseline, epoch, live, dead) ==
    [type : {"frame"}, baseline : {baseline}, epoch : {epoch},
     publish : SUBSET live, leave : SUBSET dead, collapse : SUBSET dead]

\* A connection's queue in the order its messages will be handed over.
Precedence(m) ==
    CASE m.type \in {"hello", "accepted", "ready"} -> 1
      [] m.type = "frame" -> 2
      [] OTHER -> 3

\* Mutant: first in, first out, whatever the class.
EnqueueLast(queue, m) == Append(queue, m)

\* How many messages of a queue go before m.
Ahead(queue, m) == Cardinality({i \in DOMAIN queue : Precedence(queue[i]) <= Precedence(m)})

Enqueue(queue, m) ==
    SubSeq(queue, 1, Ahead(queue, m)) \o <<m>> \o SubSeq(queue, Ahead(queue, m) + 1, Len(queue))

AfterFlush(queue, n) == SubSeq(queue, n + 1, Len(queue))

(***************************************************************************)
(* The server session.                                                      *)
(***************************************************************************)
NoPeer == [phase |-> "Absent", age |-> 0, epoch |-> 0,
           remoteMaterializedObjects |-> {}, materializedRemotes |-> {}]

IdleServer ==
    [status |-> "Created",
     peers |-> [c \in Clients |-> NoPeer],
     services |-> [c \in Clients |-> {}],       \* who has the connection registered
     players |-> {},                            \* session Players in the tree
     queue |-> [c \in Clients |-> <<>>],
     view |-> [c \in Clients |-> {}],           \* ReplicationView.KnownObjects
     objects |-> {},                            \* ServerRemoteObjects
     registry |-> {},                           \* RemoteManager::Remotes
     bound |-> {},                              \* RemoteBase::Manager is this one
     materialized |-> [c \in Clients |-> {}],   \* PeerState::MaterializedObjects
     published |-> [c \in Clients |-> {}],      \* PeerState::PublishedRemotes
     failures |-> {},                           \* PendingPeerFailures
     sessionFailure |-> FALSE,                  \* PendingSessionFailure
     nextEpoch |-> 1,
     closed |-> {},      \* <<connection, cause>> passed to Transport->Disconnect
     sent |-> [c \in Clients |-> <<>>]]         \* handed to the transport

Phase(s, c) == s.peers[c].phase
Peers(s) == {c \in Clients : Phase(s, c) # "Absent"}

\* What the handlers by[c] of the peers leave together.  Each changes the entries
\* of its own peer, so the order in which a loop runs them does not matter.
Together(s, by) ==
    [s EXCEPT !.peers = [c \in Clients |-> by[c].peers[c]],
              !.services = [c \in Clients |-> by[c].services[c]],
              !.players = {c \in Clients : c \in by[c].players},
              !.queue = [c \in Clients |-> by[c].queue[c]],
              !.view = [c \in Clients |-> by[c].view[c]],
              !.materialized = [c \in Clients |-> by[c].materialized[c]],
              !.published = [c \in Clients |-> by[c].published[c]],
              !.failures = UNION {by[c].failures : c \in Clients},
              !.closed = UNION {by[c].closed : c \in Clients}]

\* Mutant: the relevance service keeps the connection.
TearDownKeepsRelevance(s, c) ==
    IF c \notin Peers(s) THEN s
    ELSE [s EXCEPT !.peers[c] = NoPeer, !.services[c] = @ \ (Services \ {"relevance"}),
                   !.players = @ \ {c}, !.queue[c] = <<>>, !.view[c] = {},
                   !.materialized[c] = {}, !.published[c] = {}]

TearDownPeer(s, c) ==
    IF c \notin Peers(s) THEN s
    ELSE [s EXCEPT !.peers[c] = NoPeer,
                   !.services[c] = @ \ Services,
                   !.players = @ \ {c},
                   !.queue[c] = <<>>,
                   !.view[c] = {},
                   !.materialized[c] = {},
                   !.published[c] = {}]

FailPeer(s, c, cause) ==
    [TearDownPeer(s, c) EXCEPT !.closed = @ \cup {<<c, cause>>}]

\* FailSession and Stop: every resource is released, Transport->Stop closes
\* every connection, and the manager's lifetime token expires for the Remotes.
ReleaseSession(s, status, cause) ==
    [Together(s, [c \in Clients |-> TearDownPeer(s, c)]) EXCEPT
        !.status = status,
        !.objects = {}, !.registry = {}, !.bound = {},
        !.failures = {}, !.sessionFailure = FALSE,
        !.closed = @ \cup {<<c, cause>> : c \in Clients}]

FailSession(s, cause) ==
    IF s.status \in {"Failed", "Closed"} THEN s ELSE ReleaseSession(s, "Failed", cause)

FailingPeers(s) == {f[1] : f \in s.failures}

DrainFailures(s) ==
    IF s.sessionFailure THEN FailSession(s, "registry")
    ELSE IF s.failures = {} THEN s
    ELSE LET cause(c) == (CHOOSE f \in s.failures : f[1] = c)[2]
             by == [c \in Clients |-> IF c \in FailingPeers(s) \cap Peers(s)
                                      THEN FailPeer(s, c, cause(c)) ELSE s]
         IN [Together(s, by) EXCEPT !.failures = {}]

(***************************************************************************)
(* The Remote manager as the session uses it.                               *)
(***************************************************************************)
UnregisterRemote(s, r) ==
    [s EXCEPT !.registry = @ \ {r},
              !.materialized = [c \in Clients |-> @[c] \ {r}],
              !.published = [c \in Clients |-> @[c] \ {r}]]

CanUnmaterialize(s, c, r) ==
    \/ r \in s.registry \cap s.published[c]
    \/ r \in s.materialized[c]

\* MarkUnmaterialized of every Remote of a set.
MarkUnmaterialized(s, c, rs) ==
    [s EXCEPT !.materialized[c] = @ \ rs,
              !.published[c] = @ \ (rs \cap s.registry)]

\* A Remote that is registered but not bound to this manager fails the session.
RegisterServerObjects(s, rs) ==
    LET fresh == rs \ s.objects
        unbound == fresh \ s.bound
        refused == unbound \cap s.registry
    IN [s EXCEPT !.registry = @ \cup unbound,
                 !.bound = @ \cup (unbound \ refused),
                 !.objects = @ \cup (fresh \ refused),
                 !.sessionFailure = @ \/ refused # {}]

RegisterServerObject(s, r) == RegisterServerObjects(s, {r})

UnregisterServerObject(s, r) ==
    IF r \notin s.objects THEN s
    ELSE LET erased == [s EXCEPT !.objects = @ \ {r}]
         IN IF r \notin s.registry THEN [erased EXCEPT !.sessionFailure = TRUE]
            ELSE [UnregisterRemote(erased, r) EXCEPT
                    !.peers = [c \in Clients |-> [s.peers[c] EXCEPT !.materializedRemotes = @ \ {r}]]]

\* The Destroying handler of RemoteBase.
ReleaseBinding(s, r) ==
    IF r \in s.bound THEN [UnregisterRemote(s, r) EXCEPT !.bound = @ \ {r}] ELSE s

AddFailure(s, c, cause) ==
    IF c \in FailingPeers(s) THEN s
    ELSE [s EXCEPT !.failures = @ \cup {<<c, cause>>}]

(***************************************************************************)
(* Server: events.  A fault names the acquisition that fails, "none" when   *)
(* all succeed.                                                             *)
(***************************************************************************)
AcceptFaults == {"negotiation", "player", "relevance", "replication"}
ReadyFaults == {"remotes", "authority"}

OnServerConnected(s, c) ==
    IF Cardinality(Peers(s)) >= MaxPeers THEN FailPeer(s, c, "capacity")
    ELSE [s EXCEPT !.peers[c] = [NoPeer EXCEPT !.phase = "TransportConnected"]]

AcceptServerPeer(s, c, fault) ==
    LET registered == [s EXCEPT !.services[c] = {"scheduler"}]
        numbered == [registered EXCEPT !.peers[c].epoch = s.nextEpoch, !.nextEpoch = @ + 1]
        owned == [numbered EXCEPT !.players = @ \cup {c}]
        relevant == [owned EXCEPT !.services[c] = @ \cup {"relevance"}]
        replicated == [relevant EXCEPT !.services[c] = @ \cup {"replication"}]
    IN IF Phase(s, c) # "TransportConnected" THEN FailPeer(s, c, "protocol") ELSE
       CASE fault = "negotiation" -> FailPeer(s, c, "resource")
         [] fault = "player" -> FailPeer(numbered, c, "resource")
         [] fault = "relevance" -> FailPeer(owned, c, "resource")
         [] fault = "replication" -> FailPeer(relevant, c, "resource")
         [] OTHER -> [replicated EXCEPT !.peers[c].phase = "BootstrapPending"]

ReadyServerPeer(s, c, epoch, fault) ==
    LET remoted == [s EXCEPT !.services[c] = @ \cup {"remotes"}]
        all == [remoted EXCEPT !.services[c] = @ \cup {"authority"}]
    IN IF Phase(s, c) # "Accepted" \/ epoch # s.peers[c].epoch THEN FailPeer(s, c, "protocol") ELSE
       CASE fault = "remotes" -> FailPeer(s, c, "resource")
         [] fault = "authority" -> FailPeer(remoted, c, "resource")
         [] OTHER -> [all EXCEPT !.peers[c].phase = "Ready",
                                 !.peers[c].remoteMaterializedObjects = s.view[c],
                                 !.materialized[c] = s.view[c]]

\* HandleReceived for traffic other than the session's own messages.
GameplayReceived(s, c, cause) ==
    IF Phase(s, c) # "Ready" THEN FailPeer(s, c, cause) ELSE s

\* Mutant: the disconnected event of a peer is ignored.
ServerEventIgnoresClose(s, c, event, fault) ==
    IF event.type = "connected" THEN OnServerConnected(s, c)
    ELSE IF c \notin Peers(s) THEN s ELSE
    CASE event.type = "hello" -> AcceptServerPeer(s, c, fault)
      [] event.type = "ready" -> ReadyServerPeer(s, c, event.epoch, fault)
      [] OTHER -> s

ServerEvent(s, c, event, fault) ==
    IF event.type = "connected" THEN OnServerConnected(s, c)
    ELSE IF event.type = "disconnected" THEN TearDownPeer(s, c)
    ELSE IF c \notin Peers(s) THEN s ELSE
    CASE event.type = "hello" -> AcceptServerPeer(s, c, fault)
      [] event.type = "ready" -> ReadyServerPeer(s, c, event.epoch, fault)
      [] event.type = "app" -> GameplayReceived(s, c, "protocol")
      [] event.type = "datagram" -> GameplayReceived(s, c, "early datagram")

(***************************************************************************)
(* Server: the Step.                                                        *)
(***************************************************************************)
\* One tick of a handshake's clock; a handshake that is too old fails.
Tick(age) == IF age + 1 < HandshakeTimeoutTicks THEN age + 1 ELSE HandshakeTimeoutTicks

ExpireHandshake(s, c) ==
    LET aged == [s EXCEPT !.peers[c].age = Tick(@)]
    IN IF aged.peers[c].age < HandshakeTimeoutTicks THEN aged ELSE FailPeer(aged, c, "timeout")

\* Mutant: the clock stops with the hello.
ExpireSilentPeers(s) ==
    Together(s, [c \in Clients |->
        IF Phase(s, c) = "TransportConnected" THEN ExpireHandshake(s, c) ELSE s])

ExpireHandshakes(s) ==
    Together(s, [c \in Clients |->
        IF Phase(s, c) \notin {"Absent", "Ready"} THEN ExpireHandshake(s, c) ELSE s])

ApplyServerRemoteMaterialization(s, c, frame) ==
    LET follows == s.peers[c].remoteMaterializedObjects \cup frame.publish
        entered == [s EXCEPT !.materialized[c] = @ \cup (follows \ s.peers[c].remoteMaterializedObjects)]
        gone == follows \ s.view[c]
        left == MarkUnmaterialized(entered, c, gone)
    IN IF Phase(s, c) # "Ready" THEN s
       ELSE IF \A r \in gone : CanUnmaterialize(entered, c, r)
       THEN [left EXCEPT !.peers[c].remoteMaterializedObjects = follows \ gone]
       ELSE AddFailure(left, c, "registry")

\* Queue a frame and commit it to the peer's View.
SubmitStructural(s, c, frame) ==
    LET queued == [s EXCEPT !.queue[c] = Enqueue(@, frame),
                            !.view[c] = (@ \cup frame.publish) \ frame.leave]
    IN ApplyServerRemoteMaterialization(queued, c, frame)

\* Mutant: a peer counts as Ready as soon as its acceptance is queued.
ServeStructuralReady(s, c, frame) ==
    IF frame.type = "none" \/ c \notin Peers(s) THEN s
    ELSE IF ~frame.baseline THEN SubmitStructural(s, c, frame)
    ELSE [SubmitStructural(s, c, frame) EXCEPT
            !.queue[c] = Enqueue(@, ServerAccepted(s.peers[c].epoch)),
            !.peers[c].phase = "Ready"]

\* The structural pass for one peer, which was given the frame or no service.
\* A bootstrap is the baseline and then the acceptance.
ServeStructural(s, c, frame) ==
    IF frame.type = "none" \/ c \notin Peers(s) THEN s
    ELSE IF ~frame.baseline THEN SubmitStructural(s, c, frame)
    ELSE [SubmitStructural(s, c, frame) EXCEPT
            !.queue[c] = Enqueue(@, ServerAccepted(s.peers[c].epoch)),
            !.peers[c].phase = "Accepted"]

SynchronizePeer(s, c) ==
    LET desired == s.objects \cap s.view[c]
        stale == s.peers[c].materializedRemotes \ desired
        fresh == desired \ s.peers[c].materializedRemotes
        dropped == MarkUnmaterialized(s, c, stale)
        followed == [dropped EXCEPT !.materialized[c] = @ \cup fresh,
                                    !.published[c] = @ \cup (fresh \cap s.registry)]
    IN IF /\ \A r \in stale : CanUnmaterialize(s, c, r)
          /\ fresh \subseteq s.registry
       THEN [followed EXCEPT !.peers[c].materializedRemotes = desired]
       ELSE AddFailure(followed, c, "registry")

SynchronizeServerGraph(s) ==
    Together(s, [c \in Clients |-> IF Phase(s, c) = "Ready" THEN SynchronizePeer(s, c) ELSE s])

\* One flush of the peers' queues.  The step's allowance n[c] is shared by all
\* the flushes of the step: what an earlier one sent is gone from it.
FlushPeers(s, peers, n) ==
    LET Take(c) == IF c \in peers /\ "scheduler" \in s.services[c]
                   THEN Min({n[c] - Len(s.sent[c]), Len(s.queue[c])})
                   ELSE 0
    IN [s EXCEPT
          !.sent = [c \in Clients |-> @[c] \o SubSeq(s.queue[c], 1, Take(c))],
          !.queue = [c \in Clients |-> AfterFlush(@[c], Take(c))]]

\* The frames a Step may produce for a peer: a baseline while its bootstrap is
\* pending; later what the tree and its View differ in; or nothing this time.
Nothing == [type |-> "none"]

FramesFor(s, c) ==
    IF Len(net.toClient[c]) + Len(s.queue[c]) >= MaxBacklog THEN {Nothing} ELSE
    LET live == {r \in Remotes : tree[r] = "in"}
        dead == s.view[c] \ live
    IN {Nothing} \cup
       CASE Phase(s, c) = "BootstrapPending" -> FramesOf(TRUE, s.peers[c].epoch, live, {})
         [] Phase(s, c) \in {"Accepted", "Ready"} ->
                FramesOf(FALSE, s.peers[c].epoch, live \ s.view[c], dead)
                \ FramesOf(FALSE, s.peers[c].epoch, {}, {})
         [] OTHER -> {}

FrameChoices(s) ==
    LET choices == [c \in Clients |-> IF c \in Peers(s) THEN FramesFor(s, c) ELSE {Nothing}]
    IN {f \in [Clients -> UNION {choices[c] : c \in Clients}] : \A c \in Clients : f[c] \in choices[c]}

\* The structural pass.  Failing are the peers whose relevance, planning or
\* admission fails in this Step; they are not served.
ServePeers(s, frames, failing) ==
    Together(s, [c \in Clients |-> IF c \in failing THEN AddFailure(s, c, "resource")
                                                    ELSE ServeStructural(s, c, frames[c])])

(***************************************************************************)
(* The client session.  Its managers exist while a runtime is attached.     *)
(***************************************************************************)
IdleClient ==
    [status |-> "Created", phase |-> "Absent", age |-> 0, epoch |-> 0,
     baseline |-> FALSE,       \* BaselineApplied
     replica |-> {},           \* the Remotes the ReplicaApplier resolves
     known |-> {},             \* ClientKnownObjects
     remotes |-> {},           \* ClientRemoteObjects
     attached |-> FALSE,       \* ClientRuntimeAttached
     registry |-> {}, bound |-> {}, materialized |-> {}, published |-> {},
     queue |-> <<>>,
     hung |-> FALSE]           \* the host no longer calls the session

Release(k, status) == [IdleClient EXCEPT !.status = status]

EndedSession(k) == k.status \in {"Failed", "Closed"}
Runs(k) == k.status \notin {"Created", "Failed", "Closed"} /\ ~k.hung

OnClientConnected(k) ==
    [k EXCEPT !.phase = "TransportConnected", !.age = 0,
              !.queue = <<ClientHello>>]

TryFinalizeClientBootstrap(k) ==
    IF k.baseline /\ k.phase = "Accepted" THEN [k EXCEPT !.status = "Accepted"] ELSE k

\* The session's result of a handler: the session, and the cause if it failed.
Continues(k) == [session |-> k, cause |-> "none"]
Fails(k, cause) == [session |-> Release(k, "Failed"), cause |-> cause]

AcceptClientSession(k, epoch) ==
    IF k.phase # "TransportConnected" THEN Fails(k, "protocol")
    ELSE Continues(TryFinalizeClientBootstrap(
            [k EXCEPT !.phase = "Accepted", !.epoch = epoch, !.queue = <<>>]))

\* BindRemoteManager and PublishRemote of every replica Remote.
SynchronizeClientGraph(k) ==
    LET live == k.remotes \cap k.replica
        fresh == live \ k.bound
    IN IF fresh \cap k.registry # {} THEN Fails(k, "registry")
       ELSE Continues([k EXCEPT !.registry = @ \cup fresh, !.bound = @ \cup fresh,
                                !.published = @ \cup live, !.materialized = @ \cup live])

\* ReplicaApplier::ApplyFrame.  A destroyed Remote leaves the registry with its
\* destructor, unless a script of the client still holds it.
ApplyFrame(k, frame, held) ==
    LET destroyed == (frame.leave \cup frame.collapse) \cap k.replica
        released == (destroyed \ held) \cap k.bound
    IN [k EXCEPT !.replica = (@ \cup frame.publish) \ destroyed,
                 !.bound = @ \ destroyed,
                 !.registry = @ \ released,
                 !.materialized = @ \ released,
                 !.published = @ \ released]

\* Mutant: a Leave forgets the object and its materialization, not its publication.
FollowFrameKeepsPublished(k, frame) ==
    LET known == k.known \cup frame.publish
        gone == (frame.leave \cap known) \cup (known \ k.replica)
        follows == IF k.attached THEN k.materialized \cup frame.publish ELSE {}
    IN IF k.attached /\ ~(gone \subseteq (k.registry \cap k.published) \cup follows)
       THEN Fails(k, "registry")
       ELSE Continues([k EXCEPT !.known = known \ gone,
                                !.remotes = (@ \cup frame.publish) \ (gone \cup frame.leave),
                                !.materialized = follows \ gone,
                                !.baseline = @ \/ frame.baseline])

\* The rest of ApplyReplication before the graph is synchronized: publications,
\* then Leave operations and the sweep of what no longer resolves.
FollowFrame(k, frame) ==
    LET known == k.known \cup frame.publish
        gone == (frame.leave \cap known) \cup (known \ k.replica)
        follows == IF k.attached THEN k.materialized \cup frame.publish ELSE {}
    IN IF k.attached /\ ~(gone \subseteq (k.registry \cap k.published) \cup follows)
       THEN Fails(k, "registry")
       ELSE Continues([k EXCEPT !.known = known \ gone,
                                !.remotes = (@ \cup frame.publish) \ (gone \cup frame.leave),
                                !.materialized = follows \ gone,
                                !.published = @ \ gone,
                                !.baseline = @ \/ frame.baseline])

ClientEvent(k, event) ==
    IF event.type = "connected" THEN Continues(OnClientConnected(k))
    ELSE IF event.type = "disconnected" THEN [session |-> Release(k, "Failed"), cause |-> "shutdown"]
    ELSE IF k.phase = "Absent" THEN Continues(k) ELSE
    CASE event.type = "accepted" -> AcceptClientSession(k, event.epoch)
      [] event.type = "app" /\ k.phase = "Ready" -> Continues(k)
      [] OTHER -> Fails(k, "protocol")
(***************************************************************************)
(* The transport.  Reliable messages of a connection arrive in the order    *)
(* they were handed over; a datagram may overtake them or be lost; a closed *)
(* connection delivers what was in flight or drops it.                      *)
(***************************************************************************)
IdleNet ==
    [link |-> [c \in Clients |-> "none"],
     toServer |-> [c \in Clients |-> <<>>],
     toClient |-> [c \in Clients |-> <<>>],
     datagrams |-> [c \in Clients |-> 0]]

\* The server closes the connections of a set.
ClosedByServer(n, closing, keep) ==
    [n EXCEPT
        !.link = [c \in Clients |-> IF c \in closing THEN "down" ELSE @[c]],
        !.toServer = [c \in Clients |-> IF c \in closing THEN <<>> ELSE @[c]],
        !.datagrams = [c \in Clients |-> IF c \in closing THEN 0 ELSE @[c]],
        !.toClient = [c \in Clients |-> IF c \notin closing THEN @[c]
                          ELSE (IF keep THEN @[c] ELSE <<>>) \o <<Disconnected>>]]

ClosedByClient(n, c, keep) ==
    [n EXCEPT !.link[c] = "down",
              !.toClient[c] = <<>>,
              !.datagrams[c] = 0,
              !.toServer[c] = IF n.link[c] # "up" THEN @
                              ELSE (IF keep THEN @ ELSE <<>>) \o <<Disconnected>>]

\* The state after a server handler: what it sent, then what it closed.
ServerActs(s, transport) ==
    LET closing == {c \in Clients : transport.link[c] = "up" /\ \E f \in s.closed : f[1] = c}
        sending == [transport EXCEPT !.toClient =
                        [c \in Clients |-> IF transport.link[c] = "up" THEN @[c] \o s.sent[c] ELSE @[c]]]
    IN /\ server' = [s EXCEPT !.closed = {}, !.sent = [c \in Clients |-> <<>>]]
       /\ \E keep \in (IF closing = {} THEN {TRUE} ELSE BOOLEAN) :
            net' = ClosedByServer(sending, closing, keep)
       /\ ended' = [c \in Clients |->
                IF c \in closing /\ ended[c] = "none"
                THEN (CHOOSE f \in s.closed : f[1] = c)[2] ELSE ended[c]]

\* The state after a client handler.
ClientActs(c, result, transport) ==
    /\ client' = [client EXCEPT ![c] = result.session]
    /\ IF EndedSession(result.session)
       THEN \E keep \in BOOLEAN : net' = ClosedByClient(transport, c, keep)
       ELSE net' = transport
    /\ ended' = IF ended[c] = "none" THEN [ended EXCEPT ![c] = result.cause] ELSE ended

Spend(field) == used' = [used EXCEPT ![field] = @ + 1]

(***************************************************************************)
(* Actions of the server.                                                   *)
(***************************************************************************)
ServerStart ==
    /\ server.status = "Created"
    /\ LET live == {r \in Remotes : tree[r] = "in"}
       IN server' = [RegisterServerObjects(server, live) EXCEPT !.status = "Listening"]
    /\ UNCHANGED <<client, tree, net, ended, used>>

ServerStop ==
    /\ server.status = "Listening"
    /\ ServerActs(ReleaseSession(server, "Closed", "shutdown"), net)
    /\ UNCHANGED <<client, tree, used>>

\* Poll takes the next reliable event of a connection.
ServerPoll(c) ==
    /\ server.status = "Listening"
    /\ net.toServer[c] # <<>>
    /\ LET event == Head(net.toServer[c])
           rest == [net EXCEPT !.toServer[c] = Tail(@)]
           faults == CASE event.type = "hello" -> AcceptFaults
                       [] event.type = "ready" -> ReadyFaults
                       [] OTHER -> {}
       IN \E fault \in {"none"} \cup faults :
            /\ fault = "none" \/ used.faults < MaxFaults
            /\ \E handled \in {ServerEvent(server, c, event, fault)} :
               \E done \in {DrainFailures(handled)} : ServerActs(done, rest)
            /\ IF fault = "none" THEN UNCHANGED used ELSE Spend("faults")
    /\ UNCHANGED <<client, tree>>

\* Poll takes a datagram, whatever reliable events are still on their way.
ServerPollDatagram(c) ==
    /\ server.status = "Listening"
    /\ net.datagrams[c] > 0
    /\ ServerActs(DrainFailures(ServerEvent(server, c, Datagram, "none")),
                  [net EXCEPT !.datagrams[c] = @ - 1])
    /\ UNCHANGED <<client, tree, used>>

\* A Step adds at most a frame and an acceptance to what is queued.
MaxSend(c) ==
    IF "scheduler" \in server.services[c] THEN Len(server.queue[c]) + 2 ELSE 0

\* The phases of one Step in order, each named by the session it leaves:
\* failures and timeouts, the first flush, the structural pass and its flush,
\* the graph synchronization, the last flush.
ServerStep ==
    /\ server.status = "Listening"
    /\ \E drained \in {DrainFailures(server)} :
       \E expired \in {ExpireHandshakes(drained)} :
       \E n \in {m \in [Clients -> 0..MaxBurst] : \A c \in Clients : m[c] <= MaxSend(c)} :
       \E begun \in {FlushPeers(expired, Clients, n)} :
       \E frames \in FrameChoices(begun), failing \in SUBSET Peers(begun) :
        /\ Cardinality(failing) + used.faults <= MaxFaults
        /\ \E served \in {ServePeers(begun, frames, failing)} :
           \E flushed \in {FlushPeers(served, Clients \ {f[1] : f \in served.failures}, n)} :
           \E healthy \in {DrainFailures(flushed)} :
           \E graph \in {SynchronizeServerGraph(healthy)} :
           \E followed \in {DrainFailures(graph)} :
           \E done \in {FlushPeers(followed, Clients, n)} : ServerActs(done, net)
        /\ used' = [used EXCEPT !.faults = @ + Cardinality(failing)]
    /\ UNCHANGED <<client, tree>>

\* Relevance->Update fails: the whole session fails with it.
ServerStepFails ==
    /\ server.status = "Listening"
    /\ used.faults < MaxFaults
    /\ ServerActs(FailSession(ExpireHandshakes(DrainFailures(server)), "resource"), net)
    /\ Spend("faults")
    /\ UNCHANGED <<client, tree>>

\* A server script fires a Remote at a peer it is published to.
ServerFire(c) ==
    /\ server.status = "Listening"
    /\ server.published[c] # {}
    /\ used.serverFires < MaxFires
    /\ server' = [server EXCEPT !.queue[c] = Enqueue(@, Reliable)]
    /\ Spend("serverFires")
    /\ UNCHANGED <<client, tree, net, ended>>

(***************************************************************************)
(* Changes of the tree by server scripts, between two calls of the session. *)
(* A session that is not running has no handlers connected.                 *)
(***************************************************************************)
Observed(s, t) == IF s.status = "Listening" THEN t ELSE s

TreeChange(r, place, s) ==
    /\ used.treeChanges < MaxTreeChanges
    /\ tree' = [tree EXCEPT ![r] = place]
    /\ server' = Observed(server, s)
    /\ Spend("treeChanges")
    /\ UNCHANGED <<client, net, ended>>

AddRemote(r) ==
    /\ tree[r] = "out"
    /\ TreeChange(r, "in", RegisterServerObject(server, r))

UnparentRemote(r) ==
    /\ tree[r] = "in"
    /\ TreeChange(r, "out", UnregisterServerObject(server, r))

\* SetParent to another parent: DescendantRemoved and then DescendantAdded.
ReparentRemote(r) ==
    /\ tree[r] = "in"
    /\ TreeChange(r, "in", RegisterServerObject(UnregisterServerObject(server, r), r))

\* Destroy: the Destroying signal first, DescendantRemoved with SetParent(nil).
DestroyRemote(r) ==
    /\ tree[r] = "in"
    /\ TreeChange(r, "destroyed", UnregisterServerObject(ReleaseBinding(server, r), r))

(***************************************************************************)
(* Actions of a client.                                                     *)
(***************************************************************************)
ClientStart(c) ==
    /\ client[c].status = "Created"
    /\ client' = [client EXCEPT ![c].status = "Connecting"]
    /\ UNCHANGED <<server, tree, net, ended, used>>

ClientStop(c) ==
    /\ Runs(client[c])
    /\ ClientActs(c, [session |-> Release(client[c], "Closed"), cause |-> "shutdown"], net)
    /\ UNCHANGED <<server, tree, used>>

\* A frame is applied once the session has been accepted.
Applies(k, event) == event.type = "frame" /\ k.phase \notin {"Absent", "TransportConnected"}

ClientPoll(c) ==
    /\ Runs(client[c])
    /\ net.toClient[c] # <<>>
    /\ ~Applies(client[c], Head(net.toClient[c]))
    /\ \E result \in {ClientEvent(client[c], Head(net.toClient[c]))} :
        ClientActs(c, result, [net EXCEPT !.toClient[c] = Tail(@)])
    /\ UNCHANGED <<server, tree, used>>

\* ApplyReplication; held are the destroyed Remotes a client script still holds.
ClientPollFrame(c) ==
    /\ Runs(client[c])
    /\ net.toClient[c] # <<>>
    /\ LET frame == Head(net.toClient[c]) IN
       /\ Applies(client[c], frame)
       /\ \E held \in SUBSET ((frame.leave \cup frame.collapse) \cap client[c].bound) :
          \E applied \in {ApplyFrame(client[c], frame, held)} :
          \E followed \in {FollowFrame(applied, frame)} :
          \E synchronized \in {IF followed.session.attached
                               THEN SynchronizeClientGraph(followed.session) ELSE followed} :
          \E done \in {IF synchronized.cause # "none" THEN synchronized
                       ELSE Continues(TryFinalizeClientBootstrap(synchronized.session))} :
            ClientActs(c, done, [net EXCEPT !.toClient[c] = Tail(@)])
    /\ UNCHANGED <<server, tree, used>>

\* AttachClientRuntime: the managers, the replica's Remotes, then ClientReady.
ClientAttach(c) ==
    /\ client[c].status = "Accepted" /\ Runs(client[c])
    /\ LET k == [client[c] EXCEPT !.materialized = client[c].known]
           Ready(graph) == [graph.session EXCEPT !.attached = TRUE, !.phase = "Ready", !.age = 0,
                        !.status = "Ready",
                        !.queue = Enqueue(@, ClientReady(k.epoch))]
       IN \E fails \in BOOLEAN, graph \in {SynchronizeClientGraph(k)} :
            /\ fails => used.faults < MaxFaults
            /\ ClientActs(c, IF fails THEN Fails(k, "resource") ELSE Continues(Ready(graph)), net)
            /\ IF fails THEN Spend("faults") ELSE UNCHANGED used
    /\ UNCHANGED <<server, tree>>

ClientFire(c) ==
    /\ client[c].published # {} /\ Runs(client[c])
    /\ used.clientFires < MaxFires
    /\ \E message \in {Reliable, Datagram} :
        client' = [client EXCEPT ![c].queue = Enqueue(@, message)]
    /\ Spend("clientFires")
    /\ UNCHANGED <<server, tree, net, ended>>

\* Step: the handshake clock, then one flush.  A datagram may be lost.
ClientStep(c) ==
    /\ Runs(client[c])
    /\ client[c].phase # "Absent"
    /\ \E n \in 0..MaxBurst, lost \in BOOLEAN :
        LET k == client[c]
            waiting == k.phase # "Ready"
            age == IF waiting THEN Tick(k.age) ELSE 0
            sent == SubSeq(k.queue, 1, n)
            next == [k EXCEPT !.age = age, !.queue = AfterFlush(@, Len(sent))]
            inOrder == Subsequence(sent, {i \in DOMAIN sent : sent[i].type # "datagram"})
            passed == IF net.link[c] # "up" THEN net
                      ELSE [net EXCEPT !.toServer[c] = @ \o inOrder,
                                       !.datagrams[c] = IF lost THEN @ ELSE @ + Len(sent) - Len(inOrder)]
        IN /\ n <= Len(k.queue)
           /\ lost => Len(sent) # Len(inOrder)
           /\ IF waiting /\ age >= HandshakeTimeoutTicks
              THEN ClientActs(c, Fails(k, "timeout"), net)
              ELSE ClientActs(c, Continues(next), passed)
    /\ UNCHANGED <<server, tree, used>>

\* The client's host stalls while its transport keeps the connection alive.
ClientHang(c) ==
    /\ Runs(client[c])
    /\ used.faults < MaxFaults
    /\ client' = [client EXCEPT ![c].hung = TRUE]
    /\ Spend("faults")
    /\ UNCHANGED <<server, tree, net, ended>>

(***************************************************************************)
(* Actions of the transport.                                                *)
(***************************************************************************)
Connect(c) ==
    /\ client[c].status = "Connecting"
    /\ net.link[c] = "none"
    /\ net' = IF server.status = "Listening"
              THEN [net EXCEPT !.link[c] = "up", !.toServer[c] = <<Connected>>,
                               !.toClient[c] = <<Connected>>]
              ELSE [net EXCEPT !.link[c] = "down", !.toClient[c] = <<Disconnected>>]
    /\ UNCHANGED <<server, client, tree, ended, used>>

LoseLink(c) ==
    /\ net.link[c] = "up"
    /\ used.faults < MaxFaults
    /\ \E keep \in BOOLEAN :
        net' = [net EXCEPT !.link[c] = "down", !.datagrams[c] = 0,
                  !.toServer[c] = (IF keep THEN @ ELSE <<>>) \o <<Disconnected>>,
                  !.toClient[c] = (IF keep THEN @ ELSE <<>>) \o <<Disconnected>>]
    /\ Spend("faults")
    /\ UNCHANGED <<server, client, tree, ended>>

(***************************************************************************)
(* The specification.  A host that has not stalled calls Poll and Step of a *)
(* running session every frame and the transport answers a connection       *)
(* attempt; nothing obliges the host to start, stop or attach.              *)
(***************************************************************************)
Init ==
    /\ server = IdleServer
    /\ client = [c \in Clients |-> IdleClient]
    /\ tree \in [Remotes -> {"in", "out"}]
    /\ net = IdleNet
    /\ ended = [c \in Clients |-> "none"]
    /\ used = [faults |-> 0, treeChanges |-> 0, serverFires |-> 0, clientFires |-> 0]

Next ==
    \/ ServerStart \/ ServerStop \/ ServerStep \/ ServerStepFails
    \/ \E r \in Remotes :
        AddRemote(r) \/ UnparentRemote(r) \/ ReparentRemote(r) \/ DestroyRemote(r)
    \/ \E c \in Clients :
        \/ ServerPoll(c) \/ ServerPollDatagram(c) \/ ServerFire(c)
        \/ ClientStart(c) \/ ClientStop(c) \/ ClientPoll(c) \/ ClientPollFrame(c) \/ ClientAttach(c)
        \/ ClientFire(c) \/ ClientStep(c) \/ ClientHang(c)
        \/ Connect(c) \/ LoseLink(c)

Fairness ==
    /\ WF_vars(ServerStep)
    /\ \A c \in Clients :
        WF_vars(ServerPoll(c)) /\ WF_vars(ClientPoll(c) \/ ClientPollFrame(c)) /\ WF_vars(ClientStep(c)) /\ WF_vars(Connect(c))

Spec == Init /\ [][Next]_vars /\ Fairness

(***************************************************************************)
(* Properties.                                                              *)
(***************************************************************************)
PerClient(S) == [Clients -> S]

\* The type of the state: both kinds of session, the tree and the transport.
TypeOK ==
    /\ server.status \in {"Created", "Listening", "Failed", "Closed"}
    /\ \A c \in Clients :
        /\ Phase(server, c) \in Phases
        /\ server.peers[c].age \in 0..HandshakeTimeoutTicks
        /\ client[c].status \in {"Created", "Connecting", "Accepted", "Ready", "Failed", "Closed"}
        /\ client[c].phase \in Phases \ {"BootstrapPending"}
        /\ client[c].age \in 0..HandshakeTimeoutTicks
        /\ client[c].registry \cup client[c].published \cup client[c].replica \subseteq Remotes
    /\ server.services \in PerClient(SUBSET Services)
    /\ server.view \in PerClient(SUBSET Remotes)
    /\ server.objects \cup server.registry \cup server.bound \subseteq Remotes
    /\ server.failures = {} /\ server.sent = [c \in Clients |-> <<>>]
    /\ tree \in [Remotes -> {"out", "in", "destroyed"}]
    /\ net.link \in PerClient({"none", "up", "down"})
    /\ ended \in PerClient(Causes)

\* What a phase of the handshake has acquired.
ServicesOf(phase) ==
    CASE phase \in {"Absent", "TransportConnected"} -> {}
      [] phase \in {"BootstrapPending", "Accepted"} -> {"scheduler", "relevance", "replication"}
      [] phase = "Ready" -> Services

\* Whichever acquisition of the handshake fails, whoever hangs up and whenever:
\* a connection is registered with exactly the services its phase has acquired,
\* its Player and its queued messages exist only with them, and a session that
\* has ended holds nothing (AcceptServerPeer, ReadyServerPeer, TearDownPeer,
\* ReleaseSessionResources).
RegistrationsExact ==
    /\ \A c \in Clients :
        LET phase == Phase(server, c) IN
        /\ server.services[c] = ServicesOf(phase)
        /\ c \in server.players <=> "replication" \in ServicesOf(phase)
        /\ server.queue[c] # <<>> => "scheduler" \in server.services[c]
        /\ server.view[c] # {} => "replication" \in server.services[c]
        /\ server.materialized[c] \cup server.published[c] # {} => phase = "Ready"
        /\ EndedSession(client[c]) => client[c] = Release(client[c], client[c].status)
    /\ server.status # "Listening" => Peers(server) = {} /\ server.registry = {}

\* The two ends of a live connection never disagree about the handshake: a peer
\* the server serves as Ready belongs to a client that is Ready in the same
\* session epoch, and a client that is Ready is Accepted or Ready at a server
\* that still has it (ReadyServerPeer, AttachClientRuntime).
SidesAgree ==
    \A c \in Clients :
        LET p == server.peers[c] k == client[c] IN
        /\ p.phase = "Ready" /\ ~EndedSession(k) => k.phase = "Ready" /\ k.epoch = p.epoch
        /\ k.phase = "Ready" /\ p.phase # "Absent" =>
            p.phase \in {"Accepted", "Ready"} /\ p.epoch = k.epoch
        /\ \A d \in Clients \ {c} : p.epoch = server.peers[d].epoch => p.epoch = 0

\* Two conforming sessions over a transport that keeps reliable messages in
\* order never reject each other for a protocol violation: the acceptance
\* precedes the baseline although it is queued after it, ClientReady precedes
\* the client's gameplay, and no frame reaches a client before its acceptance
\* (HandleReceived, HandleSessionMessage, AcceptClientSession).  A datagram
\* that overtakes ClientReady is the one exception, recorded as a cause of its own.
ReliableNeverRejected == \A c \in Clients : ended[c] # "protocol"

\* A Remote is open for calls only where it exists: what the Remote manager has
\* published to a peer is registered and known to the peer's View, and what a
\* client has published resolves in its replica, whatever the tree, the frames
\* and the scripts that keep a Remote alive do (ApplyServerRemoteMaterialization,
\* SynchronizeServerGraph, UnregisterServerObject, ApplyReplication).
PublishedKnown ==
    \A c \in Clients :
        /\ server.published[c] \subseteq server.registry \cap server.view[c]
        /\ server.published[c] \subseteq server.materialized[c]
        /\ client[c].published \subseteq client[c].registry \cap client[c].replica

\* Every handshake ends: a peer the server has accepted from the transport
\* becomes Ready or is dropped, and a client that has started becomes Ready or
\* fails, even if the other end falls silent or never attaches its runtime
\* (the timeouts of Step).
HandshakeSettles ==
    \A c \in Clients :
        /\ Phase(server, c) \notin {"Absent", "Ready"} ~> Phase(server, c) \in {"Absent", "Ready"}
        /\ client[c].status \in {"Connecting", "Accepted"} ~>
            client[c].hung \/ client[c].status \in {"Ready", "Failed", "Closed"}

\* Neither end outlives the other: when a client's session has ended the server
\* drops its peer, and when the server drops a client the client's session ends
\* (the disconnected events of Poll).
EndsMeet ==
    \A c \in Clients :
        /\ EndedSession(client[c]) ~> Phase(server, c) = "Absent"
        /\ ended[c] # "none" ~> client[c].hung \/ EndedSession(client[c])

\* A Remote may be moved in the tree and destroyed like any other Instance: no
\* peer and no session is ended because a registry could not follow.  This is
\* what LuauRemotes.md says of Remotes; the code does not keep it.
RemotesOutliveTreeChanges == \A c \in Clients : ended[c] # "registry"
=============================================================================
