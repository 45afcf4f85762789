--------------------------- MODULE RemoteManager ---------------------------
(***************************************************************************)
(* Remote events and functions (src/src/network/RemoteManager.cpp): the    *)
(* managers of a server and of its clients, and what travels between them. *)
(*                                                                         *)
(* An end is one side of one connection; the server's manager owns the     *)
(* server end of every client, a client's manager owns one end.  Both      *)
(* sides run the same code.  Reliable messages travel on "wire" in order,  *)
(* sequenced events on "datagrams", where they are lost, repeated and      *)
(* reordered; the replication frames that make objects known to a client   *)
(* travel on "structural", in their own order (external, as GameSession    *)
(* uses them: the server registers an object when its frame is accepted,   *)
(* the client when it has applied the frame).                              *)
(*                                                                         *)
(* Pump's loops over overdue requests and deferred messages advance one    *)
(* element per action: completions are callbacks and may call the manager. *)
(* Its dispatch loop keeps the state of the pass in "pass".  Time is       *)
(* abstract: Elapse lets a deadline pass.  The rate limiter, the           *)
(* generated-message budget, the visibility callback and the scheduler may *)
(* refuse any call that they could refuse.  On a client the garbage        *)
(* collector decides how long a Remote outlives the frame that destroys it.*)
(***************************************************************************)
EXTENDS Integers, Sequences, FiniteSets, SequencesExt, FiniteSetsExt, Aggregates

CONSTANTS
    Clients,
    Functions_,     \* the remotes of kind Function
    Events,         \* of kind ReliableEvent
    Sequenced,      \* of kind UnreliableSequencedEvent
    Objects,        \* instances an argument may refer to
    Visible,        \* the remotes and objects that a client may come to see
    Transient,      \* the remotes that may leave a client's relevance
    Callers,        \* the sides of a connection that call, of {"server", "client"}
    MaximumMessages,                 \* Pump's argument
    MaximumMessagesPerTick,          \* the limit on a peer's queued messages
    MaximumInFlightRemoteRequests,
    MaxRequests, MaxSequence, MaxEvents,  \* bounds: calls of an end in one connection
    MaxGenerations, MaxPublications, \* bounds: connections of a client, lives of a remote
    MaxFrames,      \* bound: frames under way when an object is made known
    MaxFaults       \* bound: refusals by a budget or the scheduler, and disconnections

Remotes == Functions_ \cup Events \cup Sequenced

ASSUME RemoteBounds ==
    /\ {MaximumMessages, MaximumMessagesPerTick, MaximumInFlightRemoteRequests} \subseteq Nat \ {0}
    /\ {MaxRequests, MaxSequence, MaxEvents, MaxGenerations, MaxPublications, MaxFrames, MaxFaults}
           \subseteq Nat
    /\ Functions_ \cap Events = {} /\ Functions_ \cap Sequenced = {} /\ Events \cap Sequenced = {}
    /\ Remotes \cap Objects = {} /\ Visible \in [Clients -> SUBSET (Remotes \cup Objects)]

VARIABLES
    registered,  \* Remotes of each manager
    peers,       \* PeerState of each end, with its pending, incoming and deferred entries
    dispatch,    \* DispatchQueue of each manager
    pass,        \* the dispatch loop of a Pump under way, or Resting
    replies,     \* the RequestReply functions that handlers hold
    wire, datagrams, structural,
    faults,      \* the faults so far
    trace        \* history of the present connection; no decision reads it

vars == <<registered, peers, dispatch, pass, replies, wire, datagrams, structural, faults, trace>>

-----------------------------------------------------------------------------
(***************************************************************************)
(* State.                                                                  *)
(***************************************************************************)

Ends == Clients \X {"server", "client"}

Calling == {e \in Ends : e[2] \in Callers}

Managers == {"server"} \cup Clients

Other(e) == IF e[2] = "server" THEN <<e[1], "client">> ELSE <<e[1], "server">>

ManagerOf(e) == IF e[2] = "server" THEN "server" ELSE e[1]

\* PeerState as AddPeer makes it; "up" is false for an end without a peer.
NewPeer(up, generation) ==
    [ up |-> up, generation |-> generation, published |-> {}, materialized |-> {},
      publication |-> [r \in Remotes |-> 0],
      nextSequence |-> [r \in Remotes |-> 0], latestSequence |-> [r \in Remotes |-> 0],
      nextRequest |-> 1, latestRequest |-> 0,
      handlers |-> 0, outgoing |-> 0, queued |-> 0,
      pending |-> {}, incoming |-> {}, deferred |-> <<>>, terminal |-> FALSE ]

\* History: how each request ended, the requests whose handler answered, the
\* lives of each remote, the reliable events sent and the last one delivered,
\* and the life and sequence of the last sequenced event delivered.
NewTrace ==
    [ outcome |-> [q \in 1 .. MaxRequests |-> "none"], answered |-> {},
      life |-> [r \in Remotes |-> 0], sent |-> 0, delivered |-> 0,
      last |-> [r \in Remotes |-> [of |-> 0, life |-> 0, sequence |-> 0]] ]

Resting == [active |-> FALSE]

Init ==
    /\ registered = [m \in Managers |-> IF m = "server" THEN Remotes ELSE {}]
    /\ peers = [e \in Ends |-> NewPeer(FALSE, 0)]
    /\ dispatch = [m \in Managers |-> <<>>]
    /\ pass = [m \in Managers |-> Resting]
    /\ replies = [e \in Ends |-> {}]
    /\ wire = [e \in Ends |-> <<>>]
    /\ datagrams = [e \in Ends |-> {}]
    /\ structural = [c \in Clients |-> <<>>]
    /\ faults = 0
    /\ trace = [e \in Ends |-> NewTrace]

IsReliable(message) == message.kind # "sequenced"

IsCall(message) == message.kind \in {"event", "sequenced", "request"}

\* Responses, errors and cancellations count against AdmitGeneratedReliable.
IsGenerated(message) == message.kind \in {"response", "error", "cancel"}

Message(kind, remote, request) ==
    [ kind |-> kind, remote |-> remote, publication |-> 0, request |-> request,
      sequence |-> 0, needs |-> {}, life |-> 0, number |-> 0 ]

\* RemoteAvailable, but for the visibility callback.
RemoteAvailable(e, remote) ==
    /\ peers[e].up
    /\ remote \in registered[ManagerOf(e)]
    /\ remote \in peers[e].published \cap peers[e].materialized

-----------------------------------------------------------------------------
(***************************************************************************)
(* Sending.                                                                *)
(***************************************************************************)

\* What SendMessage and SubmitEncoded answer for peer x when no budget is spent.
SendResult(x, message, deferrable) ==
    IF ~x.up \/ x.publication[message.remote] = 0 THEN "refused"
    ELSE IF message.needs \subseteq x.materialized THEN "sent"
    ELSE IF deferrable /\ IsReliable(message) THEN "deferred" ELSE "refused"

\* What they may answer: the generated-message budget, the visibility of an
\* argument, the bound on deferred bytes or an unreliable drop refuse a message;
\* "cut" is a reliable rejection by the scheduler, which marks the connection
\* terminal.
SendOutcomes(x, message, deferrable) ==
    LET result == SendResult(x, message, deferrable)
        refusable == ~IsReliable(message) \/ IsGenerated(message) \/ message.needs # {}
    IN  {result} \cup
        (IF faults = MaxFaults \/ result = "refused" THEN {}
         ELSE (IF refusable THEN {"refused"} ELSE {}) \cup
              (IF result = "sent" /\ IsReliable(message) THEN {"cut"} ELSE {}))

Stamped(x, message) == [message EXCEPT !.publication = x.publication[message.remote]]

AfterSend(x, message, outcome) ==
    [x EXCEPT !.deferred = IF outcome = "deferred" THEN Append(@, Stamped(x, message)) ELSE @,
              !.terminal = @ \/ outcome = "cut"]

\* The scheduler and the transport take a message from end e.
Transmit(e, x, messages) ==
    LET stamped == [n \in DOMAIN messages |-> Stamped(x, messages[n])]
        reliable == {n \in DOMAIN stamped : IsReliable(stamped[n])}
    IN  /\ wire' = [wire EXCEPT ![e] = @ \o Subsequence(stamped, reliable)]
        /\ datagrams' = [datagrams EXCEPT ![e] = @ \cup {stamped[n] : n \in DOMAIN stamped \ reliable}]

SendOne(e, x, message, deferrable, outcome) ==
    /\ Transmit(e, x, IF outcome = "sent" THEN <<message>> ELSE <<>>)
    /\ faults' = IF outcome = SendResult(x, message, deferrable) THEN faults ELSE faults + 1

-----------------------------------------------------------------------------
(***************************************************************************)
(* Bookkeeping shared by the operations.                                   *)
(***************************************************************************)

PendingIds(x) == {p.request : p \in x.pending}

\* The messages held back but for the frames of these requests.
DeferredWithout(x, requests) ==
    Subsequence(x.deferred, {n \in DOMAIN x.deferred :
        ~(x.deferred[n].kind = "request" /\ x.deferred[n].request \in requests)})

\* Mutant: the entry stays in the table after its completion ran.
TakePendingKept(x, requests) == [x EXCEPT !.deferred = DeferredWithout(x, requests)]

\* TakePending: the entry, its slot and any frame of it that still waits for an
\* object go together.
TakePending(x, requests) ==
    [x EXCEPT !.pending = {p \in @ : p.request \notin requests},
              !.deferred = DeferredWithout(x, requests),
              !.outgoing = @ - Cardinality({p \in x.pending : p.request \in requests})]

\* RemovePeerState: what is left of the peer.
RemovePeerState(x) == NewPeer(FALSE, x.generation)

\* DrainTerminals, for one end.
Drained(x) == IF x.terminal THEN RemovePeerState(x) ELSE x

\* The requests that x tracked and y does not have run their completions, with
\* a status that says why they failed (which, no decision depends on).
Ended(t, x, y) ==
    [t EXCEPT !.outcome = [q \in DOMAIN @ |->
        IF q \in PendingIds(x) \ PendingIds(y) THEN "failed" ELSE @[q]]]

\* The end becomes y; its manager's queue drops what RemovePeerState or a
\* removed remote takes out of it.
Become(e, y, drop(_)) ==
    /\ peers' = [peers EXCEPT ![e] = y]
    /\ dispatch' = [dispatch EXCEPT ![ManagerOf(e)] =
                        Subsequence(@, {n \in DOMAIN @ : @[n].end # e \/ (y.up /\ ~drop(@[n].message))})]

Nothing(message) == FALSE

QueuedOf(e, drop(_)) ==
    LET queue == dispatch[ManagerOf(e)]
    IN  Cardinality({n \in DOMAIN queue : queue[n].end = e /\ drop(queue[n].message)})

-----------------------------------------------------------------------------
(***************************************************************************)
(* Connections, publication and materialization.                           *)
(***************************************************************************)

\* AddPeer at both ends of a connection whose identity is new: the session does
\* so when the client is ready.
AddPeer(c) ==
    LET generation == peers[<<c, "server">>].generation + 1
        ends == {<<c, "server">>, <<c, "client">>}
    IN  /\ \A e \in ends : ~peers[e].up
        /\ generation <= MaxGenerations
        /\ peers' = [e \in Ends |-> IF e \in ends THEN NewPeer(TRUE, generation) ELSE peers[e]]
        /\ wire' = [e \in Ends |-> IF e \in ends THEN <<>> ELSE wire[e]]
        /\ datagrams' = [e \in Ends |-> IF e \in ends THEN {} ELSE datagrams[e]]
        /\ structural' = [structural EXCEPT ![c] = <<>>]
        /\ trace' = [e \in Ends |-> IF e \in ends THEN NewTrace ELSE trace[e]]
        /\ registered' = [registered EXCEPT ![c] = {}]
        /\ pass["server"] = Resting /\ pass[c] = Resting
        /\ UNCHANGED <<dispatch, pass, replies, faults>>

\* The end goes, and what is on its way to it is lost.
EndGone(e) ==
    /\ Become(e, RemovePeerState(peers[e]), Nothing)
    /\ trace' = [trace EXCEPT ![e] = Ended(@, peers[e], RemovePeerState(peers[e]))]
    /\ wire' = [wire EXCEPT ![Other(e)] = <<>>]
    /\ UNCHANGED <<registered, pass, replies, datagrams>>

\* RemovePeer, from a disconnection or the destruction of a client's manager.
RemovePeer(e) ==
    /\ peers[e].up /\ pass[ManagerOf(e)] = Resting
    /\ peers[Other(e)].up => faults < MaxFaults
    /\ faults' = IF peers[Other(e)].up THEN faults + 1 ELSE faults
    /\ EndGone(e)
    /\ UNCHANGED structural

\* Mutant: a later life of the remote keeps the publication identity.
PublishedAgain(x, remote) ==
    [x EXCEPT !.published = @ \cup {remote}, !.materialized = @ \cup {remote},
              !.publication[remote] = 1,
              !.nextSequence[remote] = 0, !.latestSequence[remote] = 0]

\* PublishRemote for a remote that was not published: the identity after the
\* last one of this registration, and no sequence of the former life survives.
Published(x, remote) ==
    [x EXCEPT !.published = @ \cup {remote}, !.materialized = @ \cup {remote},
              !.publication[remote] = @ + 1,
              !.nextSequence[remote] = 0, !.latestSequence[remote] = 0]

PublishRemote(e, remote) ==
    /\ peers' = [peers EXCEPT ![e] = Published(@, remote)]
    /\ trace' = [trace EXCEPT ![e].life[remote] = @ + 1]

ServerPublishes(c, remote) ==
    LET e == <<c, "server">>
    IN  /\ peers[e].up /\ remote \in (registered["server"] \cap Visible[c]) \ peers[e].published
        /\ pass["server"] = Resting
        /\ peers[e].publication[remote] < MaxPublications
        /\ PublishRemote(e, remote)
        /\ structural' = [structural EXCEPT ![c] = Append(@, [enter |-> TRUE, object |-> remote])]
        /\ UNCHANGED <<registered, dispatch, pass, replies, wire, datagrams, faults>>

\* The errors that unpublishing sends for the requests it abandons.
Abandonments(x, remote) ==
    LET abandoned == {i \in x.incoming : i.remote = remote /\ i.accept}
    IN  Subsequence([q \in 1 .. x.latestRequest |-> Message("error", remote, q)],
                    {i.request : i \in abandoned})

\* UnpublishRemote's changes to the peer.
Unpublished(e, x, remote) ==
    LET OfRemote(message) == message.remote = remote
        taken == TakePending(x, {p.request : p \in {p \in x.pending : p.remote = remote}})
    IN  [taken EXCEPT
            !.published = @ \ {remote}, !.materialized = @ \ {remote},
            !.nextSequence[remote] = 0, !.latestSequence[remote] = 0,
            !.handlers = @ - Cardinality({i \in x.incoming : i.remote = remote}),
            !.incoming = {i \in @ : i.remote # remote},
            !.queued = @ - QueuedOf(e, OfRemote),
            !.deferred = Subsequence(@, {n \in DOMAIN @ : @[n].remote # remote})]

\* UnpublishRemote; UnregisterRemote does the same and erases the publication
\* identity.  Every abandoned request is answered unless a budget refuses it or the
\* scheduler cuts the connection, which DrainTerminals then removes.
Unpublish(e, remote, erased) ==
    LET x == peers[e]
        errors == Abandonments(x, remote)
        OfRemote(message) == message.remote = remote
    IN  \E sent \in SUBSET DOMAIN errors, cut \in BOOLEAN :
            LET y == [Unpublished(e, x, remote) EXCEPT
                         !.terminal = @ \/ cut,
                         !.publication[remote] = IF erased THEN 0 ELSE @]
                kept == Subsequence(errors, sent)
            IN  /\ sent = DOMAIN errors => ~cut
                /\ sent = DOMAIN errors \/ faults < MaxFaults
                /\ faults' = IF sent = DOMAIN errors THEN faults ELSE faults + 1
                /\ Become(e, Drained(y), OfRemote)
                /\ Transmit(e, x, kept)
                /\ trace' = [trace EXCEPT ![e] = Ended(@, x, Drained(y))]

ServerUnpublishes(c, remote) ==
    LET e == <<c, "server">>
    IN  /\ peers[e].up /\ remote \in peers[e].published \cap Transient
        /\ pass["server"] = Resting
        /\ Unpublish(e, remote, FALSE)
        /\ structural' = [structural EXCEPT ![c] = Append(@, [enter |-> FALSE, object |-> remote])]
        /\ UNCHANGED <<registered, pass, replies>>

\* MarkMaterialized and MarkUnmaterialized of an ordinary object.
Materialized(x, object, known) ==
    [x EXCEPT !.materialized = IF known THEN @ \cup {object} ELSE @ \ {object}]

ServerMaterializes(c, object, known) ==
    LET e == <<c, "server">>
    IN  /\ peers[e].up /\ pass["server"] = Resting /\ object \in Visible[c]
        /\ Len(structural[c]) < MaxFrames
        /\ known = (object \notin peers[e].materialized)
        /\ peers' = [peers EXCEPT ![e] = Materialized(@, object, known)]
        /\ structural' = [structural EXCEPT ![c] = Append(@, [enter |-> known, object |-> object])]
        /\ UNCHANGED <<registered, dispatch, pass, replies, wire, datagrams, faults, trace>>

\* The client applies the next frame: it binds and publishes a remote, or takes
\* it back.  A Remote that no script of the client holds is unregistered as the
\* frame destroys it, so the unpublication finds nothing and the session fails;
\* so it does when the remote comes back while its former copy is registered.
ClientApplies(c) ==
    LET e == <<c, "client">>
        frame == Head(structural[c])
    IN  /\ peers[e].up /\ structural[c] # <<>> /\ pass[c] = Resting
        /\ structural' = [structural EXCEPT ![c] = Tail(@)]
        /\ UNCHANGED <<pass, replies>>
        /\ \/ /\ frame.object \in Objects
              /\ peers' = [peers EXCEPT ![e] = Materialized(@, frame.object, frame.enter)]
              /\ UNCHANGED <<registered, dispatch, wire, datagrams, faults, trace>>
           \/ /\ frame.object \in Remotes \ registered[c] /\ frame.enter
              /\ registered' = [registered EXCEPT ![c] = @ \cup {frame.object}]
              /\ PublishRemote(e, frame.object)
              /\ UNCHANGED <<dispatch, wire, datagrams, faults>>
           \/ /\ frame.object \in Remotes /\ ~frame.enter
              /\ Unpublish(e, frame.object, FALSE)
              /\ UNCHANGED registered
           \/ /\ frame.object \in Remotes
              /\ frame.enter => frame.object \in registered[c]
              /\ EndGone(e)
              /\ UNCHANGED faults

\* The client's scripts let go of a Remote that a frame destroyed: its destructor
\* calls UnregisterRemote, in a handler or between two passes.
ClientReleases(c, remote) ==
    LET e == <<c, "client">>
    IN  /\ peers[e].up /\ remote \in registered[c] \ peers[e].published
        /\ registered' = [registered EXCEPT ![c] = @ \ {remote}]
        /\ Unpublish(e, remote, TRUE)
        /\ UNCHANGED <<pass, replies, structural>>

-----------------------------------------------------------------------------
(***************************************************************************)
(* Calls.                                                                  *)
(***************************************************************************)

\* StartRequest.  The identity is spent even when the message is refused.
StartRequest(e, remote, needs) ==
    LET x == peers[e]
        request == x.nextRequest
        message == [Message("request", remote, request) EXCEPT !.needs = needs]
        spent == [x EXCEPT !.nextRequest = @ + 1]
    IN  /\ remote \in Functions_ /\ RemoteAvailable(e, remote)
        /\ request <= MaxRequests
        /\ x.outgoing < MaximumInFlightRemoteRequests
        /\ \E outcome \in SendOutcomes(x, message, TRUE) :
               LET y == AfterSend(spent, message, outcome)
                   admitted == [y EXCEPT
                       !.pending = @ \cup {[request |-> request, remote |-> remote, due |-> FALSE]},
                       !.outgoing = @ + 1]
                   z == IF outcome \in {"sent", "deferred"} THEN admitted ELSE Drained(y)
               IN  /\ Become(e, z, Nothing)
                   /\ SendOne(e, x, message, TRUE, outcome)
                   /\ trace' = [trace EXCEPT ![e] =
                          IF outcome \in {"sent", "deferred"}
                          THEN [@ EXCEPT !.outcome[request] = "pending"]
                          ELSE Ended(@, x, z)]
        /\ UNCHANGED <<registered, pass, replies, structural>>

\* CancelRequest: complete first, then tell the other side.
CancelRequest(e, request) ==
    LET x == peers[e]
        p == CHOOSE p \in x.pending : p.request = request
        taken == TakePending(x, {request})
        message == Message("cancel", p.remote, request)
    IN  /\ request \in PendingIds(x)
        /\ \E outcome \in SendOutcomes(taken, message, FALSE) :
               LET y == Drained(AfterSend(taken, message, outcome))
               IN  /\ Become(e, y, Nothing)
                   /\ SendOne(e, taken, message, FALSE, outcome)
                   /\ trace' = [trace EXCEPT ![e] = Ended(@, x, y)]
        /\ UNCHANGED <<registered, pass, replies, structural>>

\* SendEvent.  A sequenced event spends its sequence before it is admitted.
SendEvent(e, remote, needs) ==
    LET x == peers[e]
        sequence == x.nextSequence[remote] + 1
        plain == [Message("event", remote, 0) EXCEPT !.needs = needs, !.number = trace[e].sent + 1]
        state == [Message("sequenced", remote, 0) EXCEPT
                     !.needs = needs, !.sequence = sequence, !.life = trace[e].life[remote]]
        message == IF remote \in Events THEN plain ELSE state
        spent == IF remote \in Events THEN x ELSE [x EXCEPT !.nextSequence[remote] = sequence]
    IN  /\ remote \in Events \cup Sequenced /\ RemoteAvailable(e, remote)
        /\ IF remote \in Events THEN trace[e].sent < MaxEvents ELSE sequence <= MaxSequence
        /\ \E outcome \in SendOutcomes(x, message, TRUE) :
               LET y == Drained(AfterSend(spent, message, outcome))
                   counted == message.kind = "event" /\ outcome \in {"sent", "deferred"}
                   t == IF counted THEN [trace[e] EXCEPT !.sent = @ + 1] ELSE trace[e]
               IN  /\ Become(e, y, Nothing)
                   /\ SendOne(e, x, message, TRUE, outcome)
                   /\ trace' = [trace EXCEPT ![e] = Ended(t, x, y)]
        /\ UNCHANGED <<registered, pass, replies, structural>>

-----------------------------------------------------------------------------
(***************************************************************************)
(* Replies and deadlines.                                                  *)
(***************************************************************************)

\* Mutant: the entry is looked up by the client's slot, whatever the connection.
AnswerableByAnyone(e, reply) ==
    {i \in peers[e].incoming : i.request = reply.request /\ i.remote = reply.remote}

\* Incoming request of a reply function, if SendReply still finds it.
Answerable(e, reply) ==
    {i \in peers[e].incoming :
        /\ peers[e].generation = reply.generation
        /\ i.request = reply.request /\ i.remote = reply.remote}

\* Mutant: the slot is not given back.
WithoutIncomingLeak(x, i) == [x EXCEPT !.incoming = @ \ {i}]

WithoutIncoming(x, i) == [x EXCEPT !.incoming = @ \ {i}, !.handlers = @ - 1]

\* A handler calls its reply function, at once or at any later time: SendReply.
\* The connection it may mark terminal is removed by a later DrainTerminals.
Reply(e, reply, kind, needs) ==
    LET message == [Message(kind, reply.remote, reply.request) EXCEPT !.needs = needs]
    IN  /\ reply \in replies[e] /\ (kind = "error" => needs = {})
        /\ replies' = [replies EXCEPT ![e] = @ \ {reply}]
        /\ UNCHANGED <<registered, dispatch, pass, structural>>
        /\ \/ /\ Answerable(e, reply) = {}
              /\ UNCHANGED <<peers, wire, datagrams, faults, trace>>
           \/ \E i \in Answerable(e, reply) :
                LET released == WithoutIncoming(peers[e], i)
                IN  \/ /\ ~(i.accept /\ ~i.late /\ RemoteAvailable(e, reply.remote))
                       /\ peers' = [peers EXCEPT ![e] = released]
                       /\ UNCHANGED <<wire, datagrams, faults, trace>>
                    \/ /\ i.accept /\ ~i.late /\ RemoteAvailable(e, reply.remote)
                       /\ \E outcome \in SendOutcomes(peers[e], message, TRUE) :
                              /\ peers' = [peers EXCEPT ![e] = AfterSend(released, message, outcome)]
                              /\ SendOne(e, peers[e], message, TRUE, outcome)
                              /\ trace' = [trace EXCEPT ![e].answered =
                                     IF kind = "response" /\ outcome \in {"sent", "deferred"}
                                     THEN @ \cup {<<reply.generation, reply.request>>} ELSE @]

\* A deadline passes (external: the clock).
ElapseRequest(e) ==
    /\ pass[ManagerOf(e)] = Resting
    /\ \E p \in peers[e].pending :
           /\ ~p.due
           /\ peers' = [peers EXCEPT ![e].pending = (@ \ {p}) \cup {[p EXCEPT !.due = TRUE]}]
    /\ UNCHANGED <<registered, dispatch, pass, replies, wire, datagrams, faults, structural, trace>>

ElapseHandler(e) ==
    /\ pass[ManagerOf(e)] = Resting
    /\ \E i \in peers[e].incoming :
           /\ ~i.expired
           /\ peers' = [peers EXCEPT ![e].incoming =
                  (@ \ {i}) \cup {IF i.late THEN [i EXCEPT !.expired = TRUE] ELSE [i EXCEPT !.late = TRUE]}]
    /\ UNCHANGED <<registered, dispatch, pass, replies, wire, datagrams, faults, structural, trace>>

\* Mutant: Pump returns early when no message is queued.
TimeOutRequestWhenBusy(e, request) ==
    LET x == peers[e]
        p == CHOOSE p \in x.pending : p.request = request
        taken == TakePending(x, {request})
        message == Message("cancel", p.remote, request)
    IN  /\ request \in PendingIds(x) /\ p.due /\ pass[ManagerOf(e)] = Resting
        /\ dispatch[ManagerOf(e)] # <<>>
        /\ \E outcome \in SendOutcomes(taken, message, FALSE) :
               /\ peers' = [peers EXCEPT ![e] = AfterSend(taken, message, outcome)]
               /\ SendOne(e, taken, message, FALSE, outcome)
        /\ trace' = [trace EXCEPT ![e].outcome[request] = "failed"]
        /\ UNCHANGED <<registered, dispatch, pass, replies, structural>>

\* Pump, first loop: an overdue request ends and the other side is told.
TimeOutRequest(e, request) ==
    LET x == peers[e]
        p == CHOOSE p \in x.pending : p.request = request
        taken == TakePending(x, {request})
        message == Message("cancel", p.remote, request)
    IN  /\ request \in PendingIds(x) /\ p.due /\ pass[ManagerOf(e)] = Resting
        /\ \E outcome \in SendOutcomes(taken, message, FALSE) :
               /\ peers' = [peers EXCEPT ![e] = AfterSend(taken, message, outcome)]
               /\ SendOne(e, taken, message, FALSE, outcome)
        /\ trace' = [trace EXCEPT ![e].outcome[request] = "failed"]
        /\ UNCHANGED <<registered, dispatch, pass, replies, structural>>

\* Pump, second loop: the reply deadline revokes the right to answer; the work
\* lease gives the handler's slot back.
TimeOutReply(e) ==
    /\ pass[ManagerOf(e)] = Resting
    /\ \E i \in peers[e].incoming :
           LET message == Message("error", i.remote, i.request)
               revoked == [peers[e] EXCEPT !.incoming = (@ \ {i}) \cup {[i EXCEPT !.accept = FALSE]}]
           IN  /\ i.accept /\ i.late
               /\ \E outcome \in SendOutcomes(peers[e], message, FALSE) :
                      /\ peers' = [peers EXCEPT ![e] = AfterSend(revoked, message, outcome)]
                      /\ SendOne(e, peers[e], message, FALSE, outcome)
    /\ UNCHANGED <<registered, dispatch, pass, replies, structural, trace>>

\* Mutant: the lease is looked at only while the reply is still accepted.
ExpireWorkAccepting(e) ==
    /\ pass[ManagerOf(e)] = Resting
    /\ \E i \in peers[e].incoming :
           /\ i.expired /\ i.accept
           /\ peers' = [peers EXCEPT ![e] = WithoutIncoming(@, i)]
    /\ UNCHANGED <<registered, dispatch, pass, replies, wire, datagrams, faults, structural, trace>>

ExpireWork(e) ==
    /\ pass[ManagerOf(e)] = Resting
    /\ \E i \in peers[e].incoming :
           /\ i.expired /\ ~i.accept
           /\ peers' = [peers EXCEPT ![e] = WithoutIncoming(@, i)]
    /\ UNCHANGED <<registered, dispatch, pass, replies, wire, datagrams, faults, structural, trace>>

\* Pump, third loop: a deferred message is sent when what it refers to is known,
\* and dropped when its request is over or its deadline has passed.
LiveRequest(x, message) ==
    message.kind = "request" =>
        \E p \in x.pending : p.request = message.request /\ p.remote = message.remote

ReleaseDeferred(e) ==
    /\ pass[ManagerOf(e)] = Resting
    /\ \E n \in DOMAIN peers[e].deferred :
           LET x == peers[e]
               message == x.deferred[n]
               without == [x EXCEPT !.deferred = RemoveAt(@, n)]
               ready == /\ LiveRequest(x, message) /\ RemoteAvailable(e, message.remote)
                        /\ message.needs \subseteq x.materialized
           IN  \E outcome \in IF ready THEN SendOutcomes(x, message, FALSE) ELSE {"refused"} :
                   /\ peers' = [peers EXCEPT ![e] = AfterSend(without, message, outcome)]
                   /\ wire' = [wire EXCEPT ![e] = IF outcome = "sent" THEN Append(@, message) ELSE @]
                   /\ faults' = IF ready /\ outcome # "sent" THEN faults + 1 ELSE faults
    /\ UNCHANGED <<registered, dispatch, pass, replies, datagrams, structural, trace>>

-----------------------------------------------------------------------------
(***************************************************************************)
(* Receiving and dispatching.                                              *)
(***************************************************************************)

\* HandleTransportEvent: a message joins its manager's queue, unless the peer is
\* gone or has too many there already.
Enqueue(e, message) ==
    IF peers[e].up /\ peers[e].queued < MaximumMessagesPerTick
    THEN /\ dispatch' = [dispatch EXCEPT ![ManagerOf(e)] = Append(@, [end |-> e, message |-> message])]
         /\ peers' = [peers EXCEPT ![e].queued = @ + 1]
    ELSE UNCHANGED <<dispatch, peers>>

ReceiveReliable(e) ==
    /\ wire[Other(e)] # <<>> /\ pass[ManagerOf(e)] = Resting
    /\ Enqueue(e, Head(wire[Other(e)]))
    /\ wire' = [wire EXCEPT ![Other(e)] = Tail(@)]
    /\ UNCHANGED <<registered, pass, replies, datagrams, structural, faults, trace>>

\* A datagram may arrive again later, after others, or never.
ReceiveDatagram(e) ==
    /\ pass[ManagerOf(e)] = Resting
    /\ \E message \in datagrams[Other(e)] : Enqueue(e, message)
    /\ UNCHANGED <<registered, pass, replies, wire, datagrams, faults, structural, trace>>

\* The dispatch loop of Pump begins: every peer with queued messages gets the
\* same share of the pass.
PumpBegin(m) ==
    LET active == {q.end : q \in Range(dispatch[m])}
    IN  /\ pass[m] = Resting /\ dispatch[m] # <<>>
        /\ pass' = [pass EXCEPT ![m] =
               [ active |-> TRUE, candidates |-> Len(dispatch[m]), processed |-> 0,
                 share |-> Max({1, MaximumMessages \div Cardinality(active)}),
                 byPeer |-> [e \in Ends |-> 0] ]]
        /\ UNCHANGED <<registered, peers, dispatch, replies, wire, datagrams, faults, structural, trace>>

PumpContinues(m) ==
    /\ pass[m].active
    /\ pass[m].processed < MaximumMessages /\ pass[m].candidates > 0 /\ dispatch[m] # <<>>

\* The message at the front belongs to a peer that has had its share: it goes to
\* the back of the queue.
PumpRotate(m) ==
    LET q == Head(dispatch[m])
    IN  /\ PumpContinues(m) /\ pass[m].byPeer[q.end] >= pass[m].share
        /\ dispatch' = [dispatch EXCEPT ![m] = Append(Tail(@), q)]
        /\ pass' = [pass EXCEPT ![m].candidates = @ - 1]
        /\ UNCHANGED <<registered, peers, replies, wire, datagrams, faults, structural, trace>>

\* The message at the front is taken and leaves its peer's account.
PumpTake(m, e) ==
    /\ PumpContinues(m) /\ e = Head(dispatch[m]).end
    /\ pass[m].byPeer[e] < pass[m].share
    /\ dispatch' = [dispatch EXCEPT ![m] = Tail(@)]
    /\ pass' = [pass EXCEPT ![m].candidates = @ - 1, ![m].processed = @ + 1, ![m].byPeer[e] = @ + 1]

Taken(x) == [x EXCEPT !.queued = @ - 1]

\* Why Dispatch turns a message away before it looks at its kind: the remote is
\* not available, the publication is another one, an argument is not known.
Unavailable(e, message) == ~RemoteAvailable(e, message.remote)

OtherPublication(e, message) == message.publication # peers[e].publication[message.remote]

UnknownArgument(e, message) == ~(message.needs \subseteq peers[e].materialized)

Acceptable(e, message) ==
    ~Unavailable(e, message) /\ ~OtherPublication(e, message) /\ ~UnknownArgument(e, message)

\* RejectRequest: an error goes back if it can.
RejectRequest(e, message) ==
    LET error == Message("error", message.remote, message.request)
        x == Taken(peers[e])
    IN  /\ message.kind = "request"
        /\ \E outcome \in SendOutcomes(x, error, FALSE) :
               /\ peers' = [peers EXCEPT ![e] = AfterSend(x, error, outcome)]
               /\ SendOne(e, x, error, FALSE, outcome)
        /\ UNCHANGED trace

Drop(e) ==
    /\ peers' = [peers EXCEPT ![e] = Taken(@)]
    /\ UNCHANGED <<wire, datagrams, faults, trace>>

\* A budget for calls is spent: the call is dropped without an answer.
RateLimited(e, message) ==
    /\ IsCall(message) /\ faults < MaxFaults
    /\ peers' = [peers EXCEPT ![e] = Taken(@)]
    /\ faults' = faults + 1
    /\ UNCHANGED <<wire, datagrams, trace>>

\* A message of another publication gets no answer either.
DispatchRefused(e, message) ==
    \/ RateLimited(e, message)
    \/ ~Unavailable(e, message) /\ OtherPublication(e, message) /\ Drop(e)
    \/ /\ \/ Unavailable(e, message)
          \/ ~OtherPublication(e, message) /\ UnknownArgument(e, message)
       /\ \/ RejectRequest(e, message)
          \/ message.kind # "request" /\ Drop(e)

DispatchEvent(e, message) ==
    /\ message.kind = "event" /\ Acceptable(e, message)
    /\ peers' = [peers EXCEPT ![e] = Taken(@)]
    /\ trace' = [trace EXCEPT ![e].delivered = message.number]
    /\ UNCHANGED <<wire, datagrams, faults>>

\* Only a newer sequence than the latest of this publication is delivered.
NewerSequence(e, message) == message.sequence > peers[e].latestSequence[message.remote]

DispatchSequenced(e, message) ==
    /\ message.kind = "sequenced" /\ Acceptable(e, message)
    /\ IF NewerSequence(e, message)
       THEN /\ peers' = [peers EXCEPT ![e] =
                   [Taken(@) EXCEPT !.latestSequence[message.remote] = message.sequence]]
            /\ trace' = [trace EXCEPT ![e].last[message.remote] =
                   [ of |-> trace[e].life[message.remote], life |-> message.life,
                     sequence |-> message.sequence ]]
            /\ UNCHANGED <<wire, datagrams, faults>>
       ELSE Drop(e)

\* A response or an error ends the request it names; a late one finds nothing.
DispatchAnswer(e, message) ==
    /\ message.kind \in {"response", "error"} /\ Acceptable(e, message)
    /\ \/ /\ \E p \in peers[e].pending : p.request = message.request /\ p.remote = message.remote
          /\ peers' = [peers EXCEPT ![e] = TakePending(Taken(@), {message.request})]
          /\ trace' = [trace EXCEPT ![e].outcome[message.request] =
                 IF message.kind = "response" THEN "success" ELSE "failed"]
          /\ UNCHANGED <<wire, datagrams, faults>>
       \/ /\ ~\E p \in peers[e].pending : p.request = message.request /\ p.remote = message.remote
          /\ Drop(e)

\* A cancellation revokes the answer; the handler keeps its slot.
DispatchCancel(e, message) ==
    /\ message.kind = "cancel" /\ Acceptable(e, message)
    /\ LET revoked == {IF i.request = message.request /\ i.remote = message.remote
                       THEN [i EXCEPT !.accept = FALSE] ELSE i : i \in peers[e].incoming}
       IN  peers' = [peers EXCEPT ![e] = [Taken(@) EXCEPT !.incoming = revoked]]
    /\ UNCHANGED <<wire, datagrams, faults, trace>>

\* A request whose identity is not newer, or that finds no free slot, is
\* rejected; any other starts its handler, which gets a reply function.
DispatchRequest(e, message) ==
    LET x == Taken(peers[e])
        seen == [x EXCEPT !.latestRequest = message.request]
        started == [ request |-> message.request, remote |-> message.remote,
                     accept |-> TRUE, late |-> FALSE, expired |-> FALSE ]
    IN  /\ message.kind = "request" /\ Acceptable(e, message)
        /\ \/ /\ message.request <= x.latestRequest
              /\ RejectRequest(e, message)
              /\ UNCHANGED replies
           \/ /\ message.request > x.latestRequest
              /\ x.handlers >= MaximumInFlightRemoteRequests
              /\ LET error == Message("error", message.remote, message.request)
                 IN  \E outcome \in SendOutcomes(seen, error, FALSE) :
                        /\ peers' = [peers EXCEPT ![e] = AfterSend(seen, error, outcome)]
                        /\ SendOne(e, seen, error, FALSE, outcome)
              /\ UNCHANGED <<replies, trace>>
           \/ /\ message.request > x.latestRequest
              /\ x.handlers < MaximumInFlightRemoteRequests
              /\ peers' = [peers EXCEPT ![e] =
                     [seen EXCEPT !.incoming = @ \cup {started}, !.handlers = @ + 1]]
              /\ replies' = [replies EXCEPT ![e] = @ \cup
                     {[generation |-> x.generation, request |-> message.request, remote |-> message.remote]}]
              /\ UNCHANGED <<wire, datagrams, faults, trace>>

Dispatch(m, e) ==
    LET message == Head(dispatch[m]).message
    IN  /\ PumpTake(m, e)
        /\ UNCHANGED <<registered, structural>>
        /\ \/ DispatchRequest(e, message)
           \/ /\ \/ DispatchRefused(e, message) \/ DispatchEvent(e, message)
                 \/ DispatchSequenced(e, message) \/ DispatchAnswer(e, message)
                 \/ DispatchCancel(e, message)
              /\ UNCHANGED replies

\* The loop ends, and Pump removes the peers that became terminal.
PumpEnd(m) ==
    LET cut == {e \in Ends : ManagerOf(e) = m /\ peers[e].terminal}
    IN  /\ pass[m].active /\ ~PumpContinues(m)
        /\ pass' = [pass EXCEPT ![m] = Resting]
        /\ peers' = [e \in Ends |-> IF e \in cut THEN RemovePeerState(peers[e]) ELSE peers[e]]
        /\ dispatch' = [dispatch EXCEPT ![m] = Subsequence(@, {n \in DOMAIN @ : @[n].end \notin cut})]
        /\ trace' = [e \in Ends |-> IF e \in cut
               THEN Ended(trace[e], peers[e], RemovePeerState(peers[e])) ELSE trace[e]]
        /\ UNCHANGED <<registered, replies, wire, datagrams, faults, structural>>

\* Pump on an empty queue still drains.
DrainTerminals(m) ==
    LET cut == {e \in Ends : ManagerOf(e) = m /\ peers[e].terminal}
    IN  /\ pass[m] = Resting /\ dispatch[m] = <<>> /\ cut # {}
        /\ peers' = [e \in Ends |-> IF e \in cut THEN RemovePeerState(peers[e]) ELSE peers[e]]
        /\ trace' = [e \in Ends |-> IF e \in cut
               THEN Ended(trace[e], peers[e], RemovePeerState(peers[e])) ELSE trace[e]]
        /\ UNCHANGED <<registered, dispatch, pass, replies, wire, datagrams, faults, structural>>

-----------------------------------------------------------------------------
Session(c) ==
    \/ AddPeer(c)
    \/ \E remote \in Remotes : ServerPublishes(c, remote) \/ ServerUnpublishes(c, remote)
    \/ \E object \in Objects, known \in BOOLEAN : ServerMaterializes(c, object, known)
    \/ ClientApplies(c)
    \/ \E remote \in Remotes : ClientReleases(c, remote)

\* The instances that the arguments or the results of a call refer to.
Needs(e) == {{}} \cup {{o} : o \in Objects \cap Visible[e[1]]}

Answer(e, reply) ==
    \E kind \in {"response", "error"}, needs \in Needs(e) : Reply(e, reply, kind, needs)

Call(e) ==
    \/ \E remote \in Remotes, needs \in Needs(e) :
           StartRequest(e, remote, needs) \/ SendEvent(e, remote, needs)
    \/ \E request \in 1 .. MaxRequests : CancelRequest(e, request)

Elapse(e) == ElapseRequest(e) \/ ElapseHandler(e)

PumpDeadlines(e) ==
    \/ \E request \in 1 .. MaxRequests : TimeOutRequest(e, request)
    \/ TimeOutReply(e) \/ ExpireWork(e)

Pump(m) ==
    \/ PumpBegin(m) \/ PumpRotate(m) \/ PumpEnd(m) \/ DrainTerminals(m)
    \/ \E e \in Ends : Dispatch(m, e)

Next ==
    \/ \E c \in Clients : Session(c)
    \/ \E e \in Ends : RemovePeer(e)
    \/ \E e \in Calling : Call(e)
    \/ \E e \in Ends : \E reply \in replies[e] : Answer(e, reply)
    \/ \E e \in Ends : Elapse(e)
    \/ \E e \in Ends : PumpDeadlines(e) \/ ReleaseDeferred(e)
    \/ \E e \in Ends : ReceiveReliable(e) \/ ReceiveDatagram(e)
    \/ \E m \in Managers : Pump(m)

Spec == Init /\ [][Next]_vars

\* Elapse(e) and Pump(m) are enabled.
CanElapse(e) ==
    /\ pass[ManagerOf(e)] = Resting
    /\ (\E p \in peers[e].pending : ~p.due) \/ (\E i \in peers[e].incoming : ~i.expired)

CanPump(m) ==
    \/ pass[m] # Resting \/ dispatch[m] # <<>>
    \/ \E e \in Ends : ManagerOf(e) = m /\ peers[e].terminal

\* Time passes, and the session pumps each manager in every step; each Pump runs
\* every loop, though a dispatch pass keeps the others waiting meanwhile.
Fairness ==
    /\ \A e \in Ends : ([]<>~CanElapse(e) \/ []<><<Elapse(e)>>_vars) /\ SF_vars(PumpDeadlines(e))
    /\ \A m \in Managers : []<>~CanPump(m) \/ []<><<Pump(m)>>_vars

FairSpec == Spec /\ Fairness

-----------------------------------------------------------------------------
(***************************************************************************)
(* Properties.                                                             *)
(***************************************************************************)

\* The counters that admission decisions read are what they count, at every
\* point of a pass and after every removal (ConcurrentHandlers against
\* IncomingRequests, PendingOutgoingRequests against PendingRequests,
\* QueuedDispatchMessages against DispatchQueue), and stay within the limits
\* the peer agreed; a message held back belongs to a request still pending.
AccountsExact ==
    \A e \in Ends :
        LET x == peers[e]
        IN  /\ x.handlers = Cardinality(x.incoming) /\ x.handlers <= MaximumInFlightRemoteRequests
            /\ x.outgoing = Cardinality(x.pending) /\ x.outgoing <= MaximumInFlightRemoteRequests
            /\ x.queued = QueuedOf(e, LAMBDA message : TRUE)
            /\ x.queued <= MaximumMessagesPerTick
            /\ \A n \in DOMAIN x.deferred : LiveRequest(x, x.deferred[n])

\* A request's completion runs exactly once: while the manager tracks the
\* request none has run, and once one has, whatever arrives, times out, is
\* cancelled, unpublished or disconnected later changes nothing.
CompletedOnce ==
    [][\A e \in Ends : \A q \in 1 .. MaxRequests :
        LET before == trace[e].outcome[q]
            after == trace'[e].outcome[q]
        IN  /\ peers'[e].generation = peers[e].generation
                   => (before \in {"none", "pending"} \/ after = before)
            /\ (after = "pending") = (q \in PendingIds(peers'[e]))]_vars

\* A request succeeds only with what the handler of that request, started in
\* this very connection, gave to its reply function: request identities start
\* again with every connection, so a reply function that outlives its
\* connection must not answer the new connection's request of the same number.
AnswersMatch ==
    \A e \in Ends : \A q \in 1 .. MaxRequests :
        trace[e].outcome[q] = "success" =>
            <<peers[e].generation, q>> \in trace[Other(e)].answered

\* A sequenced event delivered to a handler is newer than the last one delivered
\* in the receiver's life of the remote, and was not sent in an earlier life:
\* datagrams repeat, overtake each other and outlive a publication.  A client is
\* safe from an earlier life only while its publications number its lives, that
\* is until its scripts let go of a copy of the remote.
SequencedFresh ==
    [][\A e \in Ends : \A r \in Sequenced :
        LET before == trace[e].last[r]
            after == trace'[e].last[r]
            numbered == e[2] = "server" \/ peers[e].publication[r] = after.of
        IN  after # before /\ after.of # 0 =>
                /\ numbered => after.life >= after.of
                /\ before.of = after.of => after.sequence > before.sequence]_vars

\* What the documentation says of a remote that is published again: it receives a
\* newer publication, so no event of an earlier life reaches a handler.
RepublishedFresh ==
    [][\A e \in Ends : \A r \in Sequenced :
        LET after == trace'[e].last[r]
        IN  after # trace[e].last[r] /\ after.of # 0 => after.life = after.of]_vars

\* Every request ends, even when the answer is lost, refused by a budget or
\* never given.  An end issues finitely many requests (MaxRequests), so it is
\* enough that whenever it waits for some it later waits for none.
RequestsEnd ==
    \A e \in Calling :
        (\E q \in 1 .. MaxRequests : trace[e].outcome[q] = "pending") ~>
            (\A q \in 1 .. MaxRequests : trace[e].outcome[q] # "pending")

\* A handler that never replies does not hold its slot for ever: the work lease
\* gives it back.
HandlerSlotsFreed ==
    \A e \in Calling :
        peers[Other(e)].handlers = MaximumInFlightRemoteRequests ~>
            peers[Other(e)].handlers < MaximumInFlightRemoteRequests

\* What the documentation says of a reliable event's stream: events are
\* delivered in the order they were sent.
ReliableOrder ==
    [][\A e \in Ends :
        trace'[e].delivered # trace[e].delivered /\ trace'[e].delivered # 0
            => trace'[e].delivered > trace[e].delivered]_vars
=============================================================================
