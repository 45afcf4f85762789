------------------------ MODULE RemoteManagerProofs ------------------------
(***************************************************************************)
(* Proofs about the Remote manager, for all clients, remotes, objects,     *)
(* limits and bounds.  First its requests: the completion of a request     *)
(* runs exactly once, whatever arrives, times out, is cancelled,           *)
(* unpublished or disconnected.                                            *)
(*                                                                         *)
(* Then the manager's tables and what travels between two managers: the    *)
(* counters that admission reads are exact, a request succeeds only with   *)
(* the answer given to it in this connection, and a sequenced event is     *)
(* newer than the last one of the life and, at the server, of no earlier   *)
(* life of its remote.                                                     *)
(***************************************************************************)
EXTENDS RemoteManager, AggregateTheorems

-----------------------------------------------------------------------------
(* What an end keeps of its requests.                                      *)

Requests == [request : Nat, remote : Remotes, due : BOOLEAN]

PeerRecord(x) ==
    x = [ up |-> x.up, generation |-> x.generation, published |-> x.published,
          materialized |-> x.materialized, publication |-> x.publication,
          nextSequence |-> x.nextSequence, latestSequence |-> x.latestSequence,
          nextRequest |-> x.nextRequest, latestRequest |-> x.latestRequest,
          handlers |-> x.handlers, outgoing |-> x.outgoing, queued |-> x.queued,
          pending |-> x.pending, incoming |-> x.incoming, deferred |-> x.deferred,
          terminal |-> x.terminal ]

TraceRecord(t) ==
    /\ t = [ outcome |-> t.outcome, answered |-> t.answered, life |-> t.life,
             sent |-> t.sent, delivered |-> t.delivered, last |-> t.last ]
    /\ t.outcome \in [1 .. MaxRequests -> {"none", "pending", "failed", "success"}]

PeerOK(x) ==
    /\ PeerRecord(x)
    /\ x.up \in BOOLEAN /\ x.generation \in Nat /\ x.nextRequest \in Nat
    /\ x.pending \in SUBSET Requests

\* The pending requests are those whose completion is still to run, and
\* identities are new.
Ledger(x, t) ==
    /\ PeerOK(x) /\ TraceRecord(t)
    /\ \A q \in 1 .. MaxRequests : t.outcome[q] = "pending" <=> q \in PendingIds(x)
    /\ x.up => \A q \in 1 .. MaxRequests : q >= x.nextRequest => t.outcome[q] = "none"

\* The invariant; both ends of a client agree on the number of its connection.
RequestsOK ==
    /\ peers = [e \in Ends |-> peers[e]] /\ trace = [e \in Ends |-> trace[e]]
    /\ \A e \in Ends : /\ Ledger(peers[e], trace[e])
                       /\ peers[e].generation = peers[Other(e)].generation

\* What a step may do to the ledger of an end whose connection stays.
Completions(t, u) ==
    \A q \in 1 .. MaxRequests : t.outcome[q] \in {"none", "pending"} \/ u.outcome[q] = t.outcome[q]

Evolves(x, t, y, u) ==
    /\ Ledger(y, u) /\ y.generation = x.generation /\ Completions(t, u)

\* The step of CompletedOnce.
CompletedStep ==
    \A e \in Ends : \A q \in 1 .. MaxRequests :
        /\ peers'[e].generation = peers[e].generation
              => (trace[e].outcome[q] \in {"none", "pending"}
                  \/ trace'[e].outcome[q] = trace[e].outcome[q])
        /\ (trace'[e].outcome[q] = "pending") = (q \in PendingIds(peers'[e]))

\* An end loses requests, or its peer, but gains none.
Shrinks(x, y) ==
    /\ PeerOK(y) /\ y.generation = x.generation /\ PendingIds(y) \subseteq PendingIds(x)
    /\ y.up => x.up /\ x.nextRequest \in Nat /\ y.nextRequest >= x.nextRequest

Keeps(x, y) == Shrinks(x, y) /\ PendingIds(y) = PendingIds(x)

\* Ends that all evolve.
LEMMA EndsEvolve ==
    ASSUME RequestsOK, peers' = [e \in Ends |-> peers'[e]], trace' = [e \in Ends |-> trace'[e]],
           \A e \in Ends : Evolves(peers[e], trace[e], peers'[e], trace'[e])
    PROVE  RequestsOK' /\ CompletedStep
<1>1. \A e \in Ends : Other(e) \in Ends
  BY DEF Ends, Other
<1>2. \A e \in Ends : peers'[e].generation = peers'[Other(e)].generation
  BY <1>1 DEF Evolves, RequestsOK
<1>3. \A e \in Ends : Ledger(peers'[e], trace'[e])
  BY DEF Evolves
<1>4. CompletedStep
  BY <1>3 DEF CompletedStep, Evolves, Completions, Ledger
<1>. QED
  BY <1>2, <1>3, <1>4 DEF RequestsOK

\* A ledger with nothing changed.
LEMMA Unchanged ==
    ASSUME NEW x, NEW t, Ledger(x, t)
    PROVE  Evolves(x, t, x, t)
BY DEF Evolves, Completions

\* One end evolves.
LEMMA OneEvolves ==
    ASSUME RequestsOK, NEW e \in Ends, NEW y, NEW u, Evolves(peers[e], trace[e], y, u),
           peers' = [peers EXCEPT ![e] = y], trace' = [trace EXCEPT ![e] = u]
    PROVE  RequestsOK' /\ CompletedStep
<1>1. /\ peers' = [f \in Ends |-> IF f = e THEN y ELSE peers[f]]
      /\ trace' = [f \in Ends |-> IF f = e THEN u ELSE trace[f]]
  BY DEF RequestsOK
<1>2. peers' = [f \in Ends |-> peers'[f]] /\ trace' = [f \in Ends |-> trace'[f]]
  BY <1>1
<1>3. \A f \in Ends : Evolves(peers[f], trace[f], peers'[f], trace'[f])
  BY <1>1, Unchanged DEF RequestsOK
<1>. QED
  BY <1>2, <1>3, EndsEvolve

\* A ledger evolves when the requests that go get an outcome and the others keep theirs.
LEMMA ShrinkEvolves ==
    ASSUME NEW x, NEW t, Ledger(x, t), NEW y, Shrinks(x, y), NEW u, TraceRecord(u),
           \A q \in 1 .. MaxRequests :
               IF q \in PendingIds(x) /\ q \notin PendingIds(y)
               THEN u.outcome[q] \in {"failed", "success"} ELSE u.outcome[q] = t.outcome[q]
    PROVE  Evolves(x, t, y, u)
<1>1. PeerOK(y) /\ y.generation = x.generation /\ PendingIds(y) \subseteq PendingIds(x)
  BY DEF Shrinks
<1>2. \A q \in 1 .. MaxRequests : t.outcome[q] = "pending" <=> q \in PendingIds(x)
  BY DEF Ledger
<1>3. \A q \in 1 .. MaxRequests : u.outcome[q] = "pending" <=> q \in PendingIds(y)
  BY <1>1, <1>2
<1>4. Completions(t, u)
  BY <1>2 DEF Completions
<1>5. ASSUME y.up, NEW q \in 1 .. MaxRequests, q >= y.nextRequest
      PROVE  u.outcome[q] = "none"
  <2>1. x.up /\ x.nextRequest \in Nat /\ y.nextRequest \in Nat /\ y.nextRequest >= x.nextRequest
    BY <1>1, <1>5 DEF Shrinks, PeerOK
  <2>2. q >= x.nextRequest
    BY <1>5, <2>1
  <2>3. t.outcome[q] = "none"
    BY <2>1, <2>2 DEF Ledger
  <2>. QED
    BY <1>2, <2>3
<1>. QED
  BY <1>1, <1>3, <1>4, <1>5 DEF Ledger, Evolves

\* Ended gives such outcomes.
LEMMA EndedEvolves ==
    ASSUME NEW x, NEW t, Ledger(x, t), NEW y, Shrinks(x, y)
    PROVE  Evolves(x, t, y, Ended(t, x, y))
<1>1. TraceRecord(t) /\ t.outcome \in [1 .. MaxRequests -> {"none", "pending", "failed", "success"}]
  BY DEF Ledger, TraceRecord
<1>. DEFINE u == Ended(t, x, y)
            o == [q \in 1 .. MaxRequests |->
                     IF q \in PendingIds(x) \ PendingIds(y) THEN "failed" ELSE t.outcome[q]]
<1>2. u = [t EXCEPT !.outcome = o]
  BY <1>1 DEF Ended
<1>. HIDE DEF u
<1>3. o \in [1 .. MaxRequests -> {"none", "pending", "failed", "success"}]
  BY <1>1
<1>4. u.outcome = o /\ TraceRecord(u)
  <2>. HIDE DEF o
  <2>1. u = [ outcome |-> o, answered |-> t.answered, life |-> t.life,
              sent |-> t.sent, delivered |-> t.delivered, last |-> t.last ]
    BY <1>1, <1>2 DEF TraceRecord
  <2>. QED
    BY <1>3, <2>1 DEF TraceRecord
<1>5. Evolves(x, t, y, u)
  BY <1>4, ShrinkEvolves
<1>. QED
  BY <1>5 DEF u

\* An end keeps its requests and their outcomes.
LEMMA KeepEvolves ==
    ASSUME NEW x, NEW t, Ledger(x, t), NEW y, Keeps(x, y), NEW u, TraceRecord(u),
           u.outcome = t.outcome
    PROVE  Evolves(x, t, y, u)
BY ShrinkEvolves DEF Keeps

-----------------------------------------------------------------------------
(* The bookkeeping of the operations.                                      *)

\* A peer whose other fields change keeps its requests.
LEMMA OthersChange ==
    ASSUME NEW x, PeerOK(x), NEW y, PeerRecord(y),
           y.up = x.up, y.generation = x.generation, y.nextRequest = x.nextRequest,
           y.pending = x.pending
    PROVE  Keeps(x, y)
BY DEF Keeps, Shrinks, PeerOK, PendingIds

\* Losses add up.
LEMMA ShrinksTwice ==
    ASSUME NEW x, NEW y, NEW z, Shrinks(x, y), Shrinks(y, z)
    PROVE  Shrinks(x, z)
<1>1. /\ PeerOK(y) /\ y.generation = x.generation /\ PendingIds(y) \subseteq PendingIds(x)
      /\ PeerOK(z) /\ z.generation = y.generation /\ PendingIds(z) \subseteq PendingIds(y)
  BY DEF Shrinks
<1>2. ASSUME z.up PROVE x.up /\ x.nextRequest \in Nat /\ z.nextRequest >= x.nextRequest
  <2>1. y.up /\ y.nextRequest \in Nat /\ z.nextRequest >= y.nextRequest /\ z.nextRequest \in Nat
    BY <1>1, <1>2 DEF Shrinks, PeerOK
  <2>2. x.up /\ x.nextRequest \in Nat /\ y.nextRequest >= x.nextRequest
    BY <2>1 DEF Shrinks
  <2>. QED
    BY <2>1, <2>2
<1>. QED
  BY <1>1, <1>2 DEF Shrinks

\* A peer that keeps its requests, and then again.
LEMMA KeepsTwice ==
    ASSUME NEW x, NEW y, NEW z, Keeps(x, y), Keeps(y, z)
    PROVE  Keeps(x, z)
BY ShrinksTwice DEF Keeps

\* The updates of single fields.
LEMMA FieldKeeps ==
    ASSUME NEW x, PeerOK(x), NEW v, NEW w
    PROVE  /\ Keeps(x, x)
           /\ Keeps(x, [x EXCEPT !.deferred = v])
           /\ Keeps(x, [x EXCEPT !.materialized = v])
           /\ Keeps(x, [x EXCEPT !.incoming = v])
           /\ Keeps(x, [x EXCEPT !.queued = v])
           /\ Keeps(x, [x EXCEPT !.latestRequest = v])
           /\ Keeps(x, [x EXCEPT !.nextSequence = v])
           /\ Keeps(x, [x EXCEPT !.latestSequence = v])
           /\ Keeps(x, [x EXCEPT !.terminal = v])
           /\ Keeps(x, [x EXCEPT !.published = v])
           /\ Keeps(x, [x EXCEPT !.publication = v])
           /\ Keeps(x, [x EXCEPT !.handlers = v])
           /\ Keeps(x, [x EXCEPT !.incoming = v, !.handlers = w])
           /\ Keeps(x, [x EXCEPT !.deferred = v, !.terminal = w])
<1>. DEFINE Ok(y) == /\ PeerRecord(y) /\ y.up = x.up /\ y.generation = x.generation
                     /\ y.nextRequest = x.nextRequest /\ y.pending = x.pending
<1>1. PeerRecord(x)
  BY DEF PeerOK
<1>2. Ok(x)
  BY <1>1
<1>3. Ok([x EXCEPT !.deferred = v]) /\ Ok([x EXCEPT !.materialized = v])
  BY <1>1 DEF PeerRecord
<1>4. Ok([x EXCEPT !.incoming = v]) /\ Ok([x EXCEPT !.queued = v])
  BY <1>1 DEF PeerRecord
<1>5. Ok([x EXCEPT !.latestRequest = v]) /\ Ok([x EXCEPT !.nextSequence = v])
  BY <1>1 DEF PeerRecord
<1>6. Ok([x EXCEPT !.latestSequence = v]) /\ Ok([x EXCEPT !.terminal = v])
  BY <1>1 DEF PeerRecord
<1>9. Ok([x EXCEPT !.published = v]) /\ Ok([x EXCEPT !.publication = v]) /\ Ok([x EXCEPT !.handlers = v])
  BY <1>1 DEF PeerRecord
<1>7. Ok([x EXCEPT !.incoming = v, !.handlers = w]) /\ Ok([x EXCEPT !.deferred = v, !.terminal = w])
  <2>. DEFINE i == [x EXCEPT !.incoming = v]  d == [x EXCEPT !.deferred = v]
  <2>1. Ok(i) /\ Ok(d)
    BY <1>3, <1>4
  <2>. HIDE DEF i, d
  <2>2. Ok([i EXCEPT !.handlers = w])
    BY <2>1 DEF PeerRecord
  <2>3. Ok([d EXCEPT !.terminal = w])
    BY <2>1 DEF PeerRecord
  <2>. HIDE DEF Ok
  <2>. QED
    BY <2>2, <2>3, Zenon DEF i, d
<1>8. \A y : Ok(y) => Keeps(x, y)
  BY OthersChange
<1>. HIDE DEF Ok
<1>. QED
  BY <1>2, <1>3, <1>4, <1>5, <1>6, <1>7, <1>8, <1>9

\* Sending keeps the requests.
LEMMA AfterSendKeeps ==
    ASSUME NEW x, PeerOK(x), NEW message, NEW outcome
    PROVE  Keeps(x, AfterSend(x, message, outcome))
BY FieldKeeps DEF AfterSend

\* A message taken from the queue, and a slot given back.
LEMMA TakenKeeps ==
    ASSUME NEW x, PeerOK(x)
    PROVE  /\ Keeps(x, Taken(x))
           /\ \A i : Keeps(x, WithoutIncoming(x, i))
           /\ \A object, known : Keeps(x, Materialized(x, object, known))
<1>1. Keeps(x, Taken(x))
  BY FieldKeeps DEF Taken
<1>2. ASSUME NEW i PROVE Keeps(x, WithoutIncoming(x, i))
  BY FieldKeeps DEF WithoutIncoming
<1>3. ASSUME NEW object, NEW known PROVE Keeps(x, Materialized(x, object, known))
  BY FieldKeeps DEF Materialized
<1>. QED
  BY <1>1, <1>2, <1>3

\* A peer that is gone.
LEMMA NewPeerOK ==
    ASSUME NEW up \in BOOLEAN, NEW generation \in Nat
    PROVE  /\ PeerOK(NewPeer(up, generation)) /\ PendingIds(NewPeer(up, generation)) = {}
           /\ NewPeer(up, generation).up = up /\ NewPeer(up, generation).generation = generation
           /\ NewPeer(up, generation).nextRequest = 1
BY DEF NewPeer, PeerOK, PeerRecord, PendingIds

\* RemovePeerState and DrainTerminals only lose requests.
LEMMA DrainedShrinks ==
    ASSUME NEW x, PeerOK(x)
    PROVE  Shrinks(x, RemovePeerState(x)) /\ Shrinks(x, Drained(x))
<1>1. Shrinks(x, RemovePeerState(x))
  <2>1. x.generation \in Nat /\ FALSE \in BOOLEAN
    BY DEF PeerOK
  <2>. QED
    BY <2>1, NewPeerOK DEF RemovePeerState, Shrinks
<1>2. Shrinks(x, x)
  BY FieldKeeps DEF Keeps
<1>. QED
  BY <1>1, <1>2 DEF Drained

\* TakePending loses exactly the requests it is told to.
LEMMA TakePendingShrinks ==
    ASSUME NEW x, PeerOK(x), NEW requests
    PROVE  /\ Shrinks(x, TakePending(x, requests))
           /\ PendingIds(TakePending(x, requests)) = PendingIds(x) \ requests
<1>. DEFINE left == {p \in x.pending : p.request \notin requests}
<1>1. PICK d, o : TakePending(x, requests) = [x EXCEPT !.pending = left, !.deferred = d, !.outgoing = o]
  BY Zenon DEF TakePending
<1>. DEFINE y == [x EXCEPT !.pending = left, !.deferred = d, !.outgoing = o]
<1>2. left \in SUBSET Requests
  BY DEF PeerOK
<1>. HIDE DEF left
<1>3. /\ PeerRecord(y) /\ y.up = x.up /\ y.generation = x.generation /\ y.nextRequest = x.nextRequest
      /\ y.pending = left
  <2>. DEFINE Ok(z) == /\ PeerRecord(z) /\ z.up = x.up /\ z.generation = x.generation
                       /\ z.nextRequest = x.nextRequest /\ z.pending = left
              a == [x EXCEPT !.pending = left]  b == [a EXCEPT !.deferred = d]
              c == [b EXCEPT !.outgoing = o]
  <2>1. Ok(a)
    BY DEF PeerOK, PeerRecord
  <2>. HIDE DEF a
  <2>2. Ok(b)
    BY <2>1 DEF PeerRecord
  <2>. HIDE DEF b
  <2>3. Ok(c)
    BY <2>2 DEF PeerRecord
  <2>. HIDE DEF c
  <2>4. y = c
    BY Zenon DEF a, b, c
  <2>. QED
    BY <2>3, <2>4
<1>. HIDE DEF y
<1>4. PendingIds(y) = PendingIds(x) \ requests
  BY <1>3 DEF PendingIds, left
<1>5. Shrinks(x, y)
  BY <1>2, <1>3, <1>4 DEF Shrinks, PeerOK
<1>. QED
  BY <1>1, <1>4, <1>5 DEF y

\* One more field changes.
LEMMA FieldShrinks ==
    ASSUME NEW x, NEW y, Shrinks(x, y), NEW v
    PROVE  /\ Shrinks(x, [y EXCEPT !.deferred = v]) /\ Shrinks(x, [y EXCEPT !.materialized = v])
           /\ Shrinks(x, [y EXCEPT !.publication = v])
           /\ Shrinks(x, [y EXCEPT !.incoming = v]) /\ Shrinks(x, [y EXCEPT !.queued = v])
           /\ Shrinks(x, [y EXCEPT !.nextSequence = v]) /\ Shrinks(x, [y EXCEPT !.latestSequence = v])
           /\ Shrinks(x, [y EXCEPT !.terminal = v]) /\ Shrinks(x, [y EXCEPT !.published = v])
           /\ Shrinks(x, [y EXCEPT !.handlers = v])
<1>1. PeerOK(y)
  BY DEF Shrinks
<1>2. \A z : Keeps(y, z) => Shrinks(x, z)
  BY ShrinksTwice DEF Keeps
<1>. QED
  BY <1>1, <1>2, FieldKeeps

\* Publication changes keep the requests.
LEMMA FieldsPublished ==
    ASSUME NEW x, NEW y, Keeps(x, y), NEW v
    PROVE  /\ Keeps(x, [y EXCEPT !.published = v]) /\ Keeps(x, [y EXCEPT !.materialized = v])
           /\ Keeps(x, [y EXCEPT !.publication = v]) /\ Keeps(x, [y EXCEPT !.nextSequence = v])
           /\ Keeps(x, [y EXCEPT !.latestSequence = v])
<1>1. PeerOK(y)
  BY DEF Keeps, Shrinks
<1>2. \A z : Keeps(y, z) => Keeps(x, z)
  BY KeepsTwice
<1>. QED
  BY <1>1, <1>2, FieldKeeps

\* PublishRemote keeps the requests.
LEMMA PublishedKeeps ==
    ASSUME NEW x, PeerOK(x), NEW remote
    PROVE  Keeps(x, Published(x, remote))
<1>. DEFINE a == [x EXCEPT !.published = x.published \cup {remote}]
            b == [a EXCEPT !.materialized = x.materialized \cup {remote}]
            c == [b EXCEPT !.publication[remote] = x.publication[remote] + 1]
            d == [c EXCEPT !.nextSequence[remote] = 0]
            f == [d EXCEPT !.latestSequence[remote] = 0]
<1>0. Keeps(x, x)
  BY FieldKeeps
<1>1. Keeps(x, a)
  BY <1>0, FieldsPublished, Zenon
<1>. HIDE DEF a
<1>2. Keeps(x, b)
  BY <1>1, FieldsPublished, Zenon
<1>. HIDE DEF b
<1>3. Keeps(x, c)
  <2>1. c = [b EXCEPT !.publication = [b.publication EXCEPT ![remote] = x.publication[remote] + 1]]
    OBVIOUS
  <2>. QED
    BY <1>2, <2>1, FieldsPublished, Zenon
<1>. HIDE DEF c
<1>4. Keeps(x, d)
  <2>1. d = [c EXCEPT !.nextSequence = [c.nextSequence EXCEPT ![remote] = 0]]
    OBVIOUS
  <2>. QED
    BY <1>3, <2>1, FieldsPublished, Zenon
<1>. HIDE DEF d
<1>5. Keeps(x, f)
  <2>1. f = [d EXCEPT !.latestSequence = [d.latestSequence EXCEPT ![remote] = 0]]
    OBVIOUS
  <2>. QED
    BY <1>4, <2>1, FieldsPublished, Zenon
<1>6. Published(x, remote) = f
  BY Zenon DEF Published, a, b, c, d
<1>. QED
  BY <1>5, <1>6

\* UnpublishRemote loses the requests of the remote.
LEMMA UnpublishedShrinks ==
    ASSUME NEW e, NEW x, PeerOK(x), NEW remote
    PROVE  Shrinks(x, Unpublished(e, x, remote))
<1>. DEFINE taken == TakePending(x, {p.request : p \in {p \in x.pending : p.remote = remote}})
            OfRemote(message) == message.remote = remote
            a == [taken EXCEPT !.published = taken.published \ {remote}]
            b == [a EXCEPT !.materialized = taken.materialized \ {remote}]
            c == [b EXCEPT !.nextSequence[remote] = 0]
            d == [c EXCEPT !.latestSequence[remote] = 0]
            f == [d EXCEPT !.handlers = taken.handlers - Cardinality({i \in x.incoming : i.remote = remote})]
            g == [f EXCEPT !.incoming = {i \in taken.incoming : i.remote # remote}]
            h == [g EXCEPT !.queued = taken.queued - QueuedOf(e, OfRemote)]
            k == [h EXCEPT !.deferred = Subsequence(taken.deferred,
                                     {n \in DOMAIN taken.deferred : taken.deferred[n].remote # remote})]
<1>0. Shrinks(x, taken)
  BY TakePendingShrinks
<1>. HIDE DEF taken
<1>1. Shrinks(x, a)
  BY <1>0, FieldShrinks, Zenon
<1>. HIDE DEF a
<1>2. Shrinks(x, b)
  BY <1>1, FieldShrinks, Zenon
<1>. HIDE DEF b
<1>3. Shrinks(x, c)
  <2>1. c = [b EXCEPT !.nextSequence = [b.nextSequence EXCEPT ![remote] = 0]]
    OBVIOUS
  <2>. QED
    BY <1>2, <2>1, FieldShrinks, Zenon
<1>. HIDE DEF c
<1>4. Shrinks(x, d)
  <2>1. d = [c EXCEPT !.latestSequence = [c.latestSequence EXCEPT ![remote] = 0]]
    OBVIOUS
  <2>. QED
    BY <1>3, <2>1, FieldShrinks, Zenon
<1>. HIDE DEF d
<1>5. Shrinks(x, f)
  BY <1>4, FieldShrinks, Zenon
<1>. HIDE DEF f
<1>6. Shrinks(x, g)
  BY <1>5, FieldShrinks, Zenon
<1>. HIDE DEF g
<1>7. Shrinks(x, h)
  BY <1>6, FieldShrinks, Zenon
<1>. HIDE DEF h
<1>8. Shrinks(x, k)
  BY <1>7, FieldShrinks, Zenon
<1>. HIDE DEF k
<1>9. Unpublished(e, x, remote) = k
  BY Zenon DEF Unpublished, taken, a, b, c, d, f, g, h, k
<1>. QED
  BY <1>8, <1>9

-----------------------------------------------------------------------------
(* The actions.                                                            *)

\* What the proofs below use of an end.
LEMMA EndFacts ==
    ASSUME RequestsOK, NEW e \in Ends
    PROVE  /\ PeerOK(peers[e]) /\ TraceRecord(trace[e]) /\ Ledger(peers[e], trace[e])
           /\ trace[e].outcome \in [1 .. MaxRequests -> {"none", "pending", "failed", "success"}]
BY DEF RequestsOK, Ledger, TraceRecord

\* An end loses requests, whose completions run.
LEMMA EndLoses ==
    ASSUME RequestsOK, NEW e \in Ends, NEW y, Shrinks(peers[e], y),
           peers' = [peers EXCEPT ![e] = y],
           trace' = [trace EXCEPT ![e] = Ended(trace[e], peers[e], y)]
    PROVE  RequestsOK' /\ CompletedStep
<1>1. Evolves(peers[e], trace[e], y, Ended(trace[e], peers[e], y))
  BY EndFacts, EndedEvolves
<1>. QED
  BY <1>1, OneEvolves

\* An end keeps its requests.
LEMMA EndKeeps ==
    ASSUME RequestsOK, NEW e \in Ends, NEW y, Keeps(peers[e], y),
           peers' = [peers EXCEPT ![e] = y],
           NEW u, TraceRecord(u), u.outcome = trace[e].outcome, trace' = [trace EXCEPT ![e] = u]
    PROVE  RequestsOK' /\ CompletedStep
<1>1. Evolves(peers[e], trace[e], y, u)
  BY EndFacts, KeepEvolves
<1>. QED
  BY <1>1, OneEvolves

\* An end keeps its requests and its history.
LEMMA EndStays ==
    ASSUME RequestsOK, NEW e \in Ends, NEW y, Keeps(peers[e], y),
           peers' = [peers EXCEPT ![e] = y], UNCHANGED trace
    PROVE  RequestsOK' /\ CompletedStep
<1>1. trace' = [trace EXCEPT ![e] = trace[e]]
  BY DEF RequestsOK
<1>. QED
  BY <1>1, EndFacts, EndKeeps

\* Nothing changes at the ends.
LEMMA NothingHappens ==
    ASSUME RequestsOK, UNCHANGED <<peers, trace>>
    PROVE  RequestsOK' /\ CompletedStep
<1>1. \A e \in Ends : Evolves(peers[e], trace[e], peers'[e], trace'[e])
  BY EndFacts, Unchanged
<1>. QED
  BY <1>1, EndsEvolve DEF RequestsOK

\* An end that goes ends every request of its own.
LEMMA EndGoneRequests ==
    ASSUME RequestsOK, NEW e \in Ends, EndGone(e)
    PROVE  RequestsOK' /\ CompletedStep
<1>1. /\ peers' = [peers EXCEPT ![e] = RemovePeerState(peers[e])]
      /\ trace' = [trace EXCEPT ![e] = Ended(trace[e], peers[e], RemovePeerState(peers[e]))]
  BY Zenon DEF EndGone, Become
<1>. QED
  BY <1>1, EndFacts, DrainedShrinks, EndLoses

\* The history of other things keeps the outcomes.
LEMMA HistoryChanges ==
    ASSUME NEW t, TraceRecord(t), NEW v
    PROVE  /\ TraceRecord([t EXCEPT !.life = v]) /\ [t EXCEPT !.life = v].outcome = t.outcome
           /\ TraceRecord([t EXCEPT !.sent = v]) /\ [t EXCEPT !.sent = v].outcome = t.outcome
           /\ TraceRecord([t EXCEPT !.answered = v]) /\ [t EXCEPT !.answered = v].outcome = t.outcome
           /\ TraceRecord([t EXCEPT !.delivered = v]) /\ [t EXCEPT !.delivered = v].outcome = t.outcome
           /\ TraceRecord([t EXCEPT !.last = v]) /\ [t EXCEPT !.last = v].outcome = t.outcome
<1>1. TraceRecord([t EXCEPT !.life = v]) /\ [t EXCEPT !.life = v].outcome = t.outcome
  BY DEF TraceRecord
<1>2. TraceRecord([t EXCEPT !.sent = v]) /\ [t EXCEPT !.sent = v].outcome = t.outcome
  BY DEF TraceRecord
<1>3. TraceRecord([t EXCEPT !.answered = v]) /\ [t EXCEPT !.answered = v].outcome = t.outcome
  BY DEF TraceRecord
<1>4. TraceRecord([t EXCEPT !.delivered = v]) /\ [t EXCEPT !.delivered = v].outcome = t.outcome
  BY DEF TraceRecord
<1>5. TraceRecord([t EXCEPT !.last = v]) /\ [t EXCEPT !.last = v].outcome = t.outcome
  BY DEF TraceRecord
<1>. QED
  BY <1>1, <1>2, <1>3, <1>4, <1>5

\* Publishing changes no request.
LEMMA PublishStep ==
    ASSUME RequestsOK, NEW e \in Ends, NEW remote, PublishRemote(e, remote)
    PROVE  RequestsOK' /\ CompletedStep
<1>. DEFINE u == [trace[e] EXCEPT !.life = [trace[e].life EXCEPT ![remote] = trace[e].life[remote] + 1]]
<1>1. peers' = [peers EXCEPT ![e] = Published(peers[e], remote)] /\ trace' = [trace EXCEPT ![e] = u]
  BY DEF PublishRemote
<1>2. TraceRecord(u) /\ u.outcome = trace[e].outcome
  BY EndFacts, HistoryChanges, Zenon
<1>. HIDE DEF u
<1>. QED
  BY <1>1, <1>2, EndFacts, PublishedKeeps, EndKeeps

\* Unpublishing ends the requests of the remote.
LEMMA UnpublishRequests ==
    ASSUME RequestsOK, NEW e \in Ends, NEW remote, NEW erased, Unpublish(e, remote, erased)
    PROVE  RequestsOK' /\ CompletedStep
<1>. DEFINE b == Unpublished(e, peers[e], remote)
<1>1. PICK cut \in BOOLEAN :
          LET y == [b EXCEPT !.terminal = @ \/ cut, !.publication[remote] = IF erased THEN 0 ELSE @]
          IN  /\ peers' = [peers EXCEPT ![e] = Drained(y)]
              /\ trace' = [trace EXCEPT ![e] = Ended(trace[e], peers[e], Drained(y))]
  BY Zenon DEF Unpublish, Become
<1>. DEFINE d == [b EXCEPT !.terminal = b.terminal \/ cut]
            pn == [d.publication EXCEPT ![remote] = IF erased THEN 0 ELSE @]
            y == [d EXCEPT !.publication = pn]
<1>2. Shrinks(peers[e], y)
  <2>1. Shrinks(peers[e], b)
    BY EndFacts, UnpublishedShrinks
  <2>. HIDE DEF b
  <2>2. Shrinks(peers[e], d)
    BY <2>1, FieldShrinks, Zenon
  <2>. HIDE DEF d, pn
  <2>. QED
    BY <2>2, FieldShrinks, Zenon
<1>3. peers' = [peers EXCEPT ![e] = Drained(y)]
      /\ trace' = [trace EXCEPT ![e] = Ended(trace[e], peers[e], Drained(y))]
  BY <1>1, Zenon
<1>. HIDE DEF y
<1>4. Shrinks(peers[e], Drained(y))
  BY <1>2, DrainedShrinks, ShrinksTwice DEF Shrinks
<1>. QED
  BY <1>3, <1>4, EndLoses

\* The session's handling of publication and materialization.
LEMMA SessionStep ==
    ASSUME RequestsOK, NEW c \in Clients,
           \/ \E remote \in Remotes : ServerPublishes(c, remote) \/ ServerUnpublishes(c, remote)
           \/ \E object \in Objects, known \in BOOLEAN : ServerMaterializes(c, object, known)
           \/ ClientApplies(c)
           \/ \E remote \in Remotes : ClientReleases(c, remote)
    PROVE  RequestsOK' /\ CompletedStep
<1>1. <<c, "server">> \in Ends /\ <<c, "client">> \in Ends
  BY DEF Ends
<1>2. ASSUME NEW remote \in Remotes, ServerPublishes(c, remote)
      PROVE  RequestsOK' /\ CompletedStep
  BY <1>1, <1>2, PublishStep DEF ServerPublishes
<1>3. ASSUME NEW remote \in Remotes, ServerUnpublishes(c, remote)
      PROVE  RequestsOK' /\ CompletedStep
  BY <1>1, <1>3, UnpublishRequests DEF ServerUnpublishes
<1>4. ASSUME NEW object, NEW known, NEW e \in Ends, UNCHANGED trace,
             peers' = [peers EXCEPT ![e] = Materialized(peers[e], object, known)]
      PROVE  RequestsOK' /\ CompletedStep
  BY <1>4, EndFacts, TakenKeeps, EndStays
<1>5. ASSUME NEW object \in Objects, NEW known \in BOOLEAN, ServerMaterializes(c, object, known)
      PROVE  RequestsOK' /\ CompletedStep
  BY <1>1, <1>4, <1>5 DEF ServerMaterializes
<1>6. CASE ClientApplies(c)
  <2>. DEFINE e == <<c, "client">>  frame == Head(structural[c])
  <2>1. \/ /\ peers' = [peers EXCEPT ![e] = Materialized(peers[e], frame.object, frame.enter)]
           /\ UNCHANGED trace
        \/ PublishRemote(e, frame.object)
        \/ Unpublish(e, frame.object, FALSE)
        \/ EndGone(e)
    BY <1>6, Zenon DEF ClientApplies
  <2>. HIDE DEF e, frame
  <2>2. e \in Ends
    BY <1>1 DEF e
  <2>. QED
    BY <1>4, <2>1, <2>2, PublishStep, UnpublishRequests, EndGoneRequests
<1>7. ASSUME NEW remote \in Remotes, ClientReleases(c, remote)
      PROVE  RequestsOK' /\ CompletedStep
  BY <1>1, <1>7, UnpublishRequests DEF ClientReleases
<1>. QED
  BY <1>2, <1>3, <1>5, <1>6, <1>7

\* StartRequest admits one request under a new identity, or none.
LEMMA StartRequestRequests ==
    ASSUME RequestsOK, NEW e \in Ends, NEW remote \in Remotes, NEW needs, StartRequest(e, remote, needs)
    PROVE  RequestsOK' /\ CompletedStep
<1>. DEFINE x == peers[e]  t == trace[e]  request == x.nextRequest
            message == [Message("request", remote, request) EXCEPT !.needs = needs]
            spent == [x EXCEPT !.nextRequest = x.nextRequest + 1]
            entry == [request |-> request, remote |-> remote, due |-> FALSE]
<1>1. PICK outcome :
          LET y == AfterSend(spent, message, outcome)
              admitted == [y EXCEPT !.pending = y.pending \cup {entry}, !.outgoing = y.outgoing + 1]
              z == IF outcome \in {"sent", "deferred"} THEN admitted ELSE Drained(y)
          IN  /\ peers' = [peers EXCEPT ![e] = z]
              /\ trace' = [trace EXCEPT ![e] =
                     IF outcome \in {"sent", "deferred"}
                     THEN [t EXCEPT !.outcome[request] = "pending"] ELSE Ended(t, x, z)]
  BY Zenon DEF StartRequest, Become
<1>2. x.up /\ request <= MaxRequests
  BY Zenon DEF StartRequest, RemoteAvailable
<1>3. PeerOK(x) /\ TraceRecord(t) /\ Ledger(x, t)
  BY EndFacts
<1>. DEFINE y == AfterSend(spent, message, outcome)
<1>. HIDE DEF x, t, message
<1>4. /\ PeerOK(spent) /\ spent.up = x.up /\ spent.generation = x.generation
      /\ spent.nextRequest = request + 1 /\ spent.pending = x.pending
  <2>1. x.nextRequest \in Nat /\ request + 1 \in Nat
    BY <1>3 DEF PeerOK
  <2>. DEFINE n == request + 1
  <2>. HIDE DEF n
  <2>2. spent = [x EXCEPT !.nextRequest = n] /\ n \in Nat
    BY <2>1 DEF n
  <2>. HIDE DEF spent, request
  <2>3. /\ PeerRecord(spent) /\ spent.up = x.up /\ spent.generation = x.generation
        /\ spent.nextRequest = n /\ spent.pending = x.pending
    BY <1>3, <2>2 DEF PeerOK, PeerRecord
  <2>. QED
    BY <1>3, <2>2, <2>3 DEF PeerOK, n
<1>9. request \in Nat
  BY <1>3 DEF PeerOK
<1>. HIDE DEF spent, request
<1>5. Keeps(spent, y)
  BY <1>4, AfterSendKeeps
<1>10. Keeps(x, spent)
  BY <1>3, <1>4, <1>9 DEF Keeps, Shrinks, PendingIds, PeerOK, request
<1>. HIDE DEF y
<1>6. CASE outcome \in {"sent", "deferred"}
  <2>. DEFINE z == [y EXCEPT !.pending = y.pending \cup {entry}, !.outgoing = y.outgoing + 1]
              u == [t EXCEPT !.outcome[request] = "pending"]
  <2>1. peers' = [peers EXCEPT ![e] = z] /\ trace' = [trace EXCEPT ![e] = u]
    BY <1>1, <1>6 DEF x, t, y, spent, message, request
  <2>2. /\ PeerOK(y) /\ y.generation = x.generation /\ PendingIds(y) = PendingIds(x)
        /\ y.up => y.nextRequest >= request + 1
    BY <1>4, <1>5 DEF Keeps, Shrinks, PendingIds
  <2>. DEFINE more == y.pending \cup {entry}
  <2>3. more \in SUBSET Requests /\ {p.request : p \in more} = PendingIds(x) \cup {request}
    <3>1. entry \in Requests
      BY <1>9 DEF Requests
    <3>2. entry.request = request
      OBVIOUS
    <3>. HIDE DEF entry
    <3>3. {p.request : p \in more} = PendingIds(y) \cup {request}
      BY <3>2 DEF PendingIds
    <3>. QED
      BY <2>2, <3>1, <3>3 DEF PeerOK
  <2>. HIDE DEF more
  <2>4. /\ PeerRecord(z) /\ z.up = y.up /\ z.generation = y.generation
        /\ z.nextRequest = y.nextRequest /\ z.pending = more
    <3>. DEFINE a == [y EXCEPT !.pending = more]  n == y.outgoing + 1  b == [a EXCEPT !.outgoing = n]
    <3>1. /\ PeerRecord(a) /\ a.up = y.up /\ a.generation = y.generation
          /\ a.nextRequest = y.nextRequest /\ a.pending = more
      BY <2>2 DEF PeerOK, PeerRecord
    <3>. HIDE DEF a, n
    <3>2. /\ PeerRecord(b) /\ b.up = a.up /\ b.generation = a.generation
          /\ b.nextRequest = a.nextRequest /\ b.pending = a.pending
      BY <3>1 DEF PeerRecord
    <3>3. z = b
      BY Zenon DEF a, n, more
    <3>. HIDE DEF z, b
    <3>. QED
      BY <3>1, <3>2, <3>3
  <2>. HIDE DEF z
  <2>5. PeerOK(z) /\ PendingIds(z) = PendingIds(x) \cup {request}
    BY <2>2, <2>3, <2>4 DEF PeerOK, PendingIds
  <2>6. /\ TraceRecord(u)
        /\ \A q \in 1 .. MaxRequests : u.outcome[q] = IF q = request THEN "pending" ELSE t.outcome[q]
    <3>. DEFINE o == [t.outcome EXCEPT ![request] = "pending"]
    <3>1. /\ t.outcome \in [1 .. MaxRequests -> {"none", "pending", "failed", "success"}]
          /\ t = [ outcome |-> t.outcome, answered |-> t.answered, life |-> t.life,
                   sent |-> t.sent, delivered |-> t.delivered, last |-> t.last ]
      BY <1>3 DEF TraceRecord
    <3>2. /\ o \in [1 .. MaxRequests -> {"none", "pending", "failed", "success"}]
          /\ \A q \in 1 .. MaxRequests : o[q] = IF q = request THEN "pending" ELSE t.outcome[q]
      BY <3>1
    <3>3. u = [t EXCEPT !.outcome = o]
      BY <3>1
    <3>. HIDE DEF o, u
    <3>4. u = [ outcome |-> o, answered |-> t.answered, life |-> t.life,
                sent |-> t.sent, delivered |-> t.delivered, last |-> t.last ]
      BY <3>1, <3>3
    <3>. QED
      BY <3>2, <3>4 DEF TraceRecord
  <2>. HIDE DEF u
  <2>7. /\ \A q \in 1 .. MaxRequests : t.outcome[q] = "pending" <=> q \in PendingIds(x)
        /\ \A q \in 1 .. MaxRequests : q >= request => t.outcome[q] = "none"
    BY <1>2, <1>3 DEF Ledger, request
  <2>8. Ledger(z, u)
    <3>1. \A q \in 1 .. MaxRequests : u.outcome[q] = "pending" <=> q \in PendingIds(z)
      BY <2>5, <2>6, <2>7
    <3>2. z.up => \A q \in 1 .. MaxRequests : q >= z.nextRequest => u.outcome[q] = "none"
      <4>. SUFFICES ASSUME z.up, NEW q \in 1 .. MaxRequests, q >= z.nextRequest
                    PROVE  u.outcome[q] = "none"
        OBVIOUS
      <4>1. z.nextRequest \in Nat /\ z.nextRequest >= request + 1
        BY <2>2, <2>4, <2>5 DEF PeerOK
      <4>2. q >= request /\ q # request
        BY <1>9, <4>1
      <4>. QED
        BY <2>6, <2>7, <4>2
    <3>. QED
      BY <2>5, <2>6, <3>1, <3>2 DEF Ledger
  <2>9. Completions(t, u)
    <3>. SUFFICES ASSUME NEW q \in 1 .. MaxRequests
                  PROVE  t.outcome[q] \in {"none", "pending"} \/ u.outcome[q] = t.outcome[q]
      BY DEF Completions
    <3>1. CASE q = request
      BY <1>9, <2>7, <3>1
    <3>2. CASE q # request
      BY <2>6, <3>2
    <3>. QED
      BY <3>1, <3>2
  <2>10. Evolves(x, t, z, u)
    BY <2>2, <2>4, <2>8, <2>9 DEF Evolves
  <2>. QED
    BY <2>1, <2>10, OneEvolves DEF x, t
<1>7. CASE outcome \notin {"sent", "deferred"}
  <2>1. peers' = [peers EXCEPT ![e] = Drained(y)] /\ trace' = [trace EXCEPT ![e] = Ended(t, x, Drained(y))]
    BY <1>1, <1>7 DEF x, t, y, spent, message, request
  <2>2. Shrinks(x, y) /\ PeerOK(y)
    BY <1>5, <1>10, ShrinksTwice DEF Keeps, Shrinks
  <2>3. Shrinks(x, Drained(y))
    BY <2>2, DrainedShrinks, ShrinksTwice
  <2>. QED
    BY <2>1, <2>3, EndLoses DEF x, t
<1>. QED
  BY <1>6, <1>7

\* What a sent message and a removal of terminal peers leave of an end that
\* has lost requests.
LEMMA SentShrinks ==
    ASSUME NEW x, NEW y, Shrinks(x, y), NEW message, NEW outcome
    PROVE  /\ Shrinks(x, AfterSend(y, message, outcome))
           /\ PendingIds(AfterSend(y, message, outcome)) = PendingIds(y)
           /\ Shrinks(x, Drained(AfterSend(y, message, outcome)))
<1>. DEFINE z == AfterSend(y, message, outcome)
<1>1. PeerOK(y)
  BY DEF Shrinks
<1>2. Keeps(y, z)
  BY <1>1, AfterSendKeeps
<1>. HIDE DEF z
<1>3. Shrinks(x, z) /\ PeerOK(z) /\ PendingIds(z) = PendingIds(y)
  BY <1>2, ShrinksTwice DEF Keeps, Shrinks
<1>4. Shrinks(x, Drained(z))
  BY <1>3, DrainedShrinks, ShrinksTwice
<1>. QED
  BY <1>3, <1>4 DEF z

\* CancelRequest ends the request it names, and all of them when it cuts the
\* connection.
LEMMA CancelRequestRequests ==
    ASSUME RequestsOK, NEW e \in Ends, NEW request, CancelRequest(e, request)
    PROVE  RequestsOK' /\ CompletedStep
<1>1. PICK message, outcome :
          LET y == Drained(AfterSend(TakePending(peers[e], {request}), message, outcome))
          IN  /\ peers' = [peers EXCEPT ![e] = y]
              /\ trace' = [trace EXCEPT ![e] = Ended(trace[e], peers[e], y)]
  BY Zenon DEF CancelRequest, Become
<1>. DEFINE y == Drained(AfterSend(TakePending(peers[e], {request}), message, outcome))
<1>2. peers' = [peers EXCEPT ![e] = y] /\ trace' = [trace EXCEPT ![e] = Ended(trace[e], peers[e], y)]
  BY <1>1
<1>3. Shrinks(peers[e], y)
  BY EndFacts, TakePendingShrinks, SentShrinks, Zenon
<1>. HIDE DEF y
<1>. QED
  BY <1>2, <1>3, EndLoses

\* SendEvent touches no request unless it cuts the connection.
LEMMA SendEventRequests ==
    ASSUME RequestsOK, NEW e \in Ends, NEW remote, NEW needs, SendEvent(e, remote, needs)
    PROVE  RequestsOK' /\ CompletedStep
<1>. DEFINE x == peers[e]  t == trace[e]
            next == [x EXCEPT !.nextSequence[remote] = x.nextSequence[remote] + 1]
            more == [t EXCEPT !.sent = t.sent + 1]
<1>1. \E spent \in {x, next}, u \in {t, more} : \E message, outcome :
          /\ peers' = [peers EXCEPT ![e] = Drained(AfterSend(spent, message, outcome))]
          /\ trace' = [trace EXCEPT ![e] = Ended(u, x, Drained(AfterSend(spent, message, outcome)))]
  <2>. DEFINE spent == IF remote \in Events THEN x ELSE next
              plain == [Message("event", remote, 0) EXCEPT !.needs = needs, !.number = t.sent + 1]
              state == [Message("sequenced", remote, 0) EXCEPT
                           !.needs = needs, !.sequence = x.nextSequence[remote] + 1, !.life = t.life[remote]]
              message == IF remote \in Events THEN plain ELSE state
  <2>1. PICK outcome :
            /\ peers' = [peers EXCEPT ![e] = Drained(AfterSend(spent, message, outcome))]
            /\ trace' = [trace EXCEPT ![e] = Ended(
                   IF message.kind = "event" /\ outcome \in {"sent", "deferred"} THEN more ELSE t,
                   x, Drained(AfterSend(spent, message, outcome)))]
    BY Zenon DEF SendEvent, Become
  <2>. HIDE DEF message, next, more
  <2>2. CASE message.kind = "event" /\ outcome \in {"sent", "deferred"}
    BY <2>1, <2>2
  <2>3. CASE ~(message.kind = "event" /\ outcome \in {"sent", "deferred"})
    BY <2>1, <2>3
  <2>. QED
    BY <2>2, <2>3
<1>11. PICK spent \in {x, next}, u \in {t, more} : \E message, outcome :
          /\ peers' = [peers EXCEPT ![e] = Drained(AfterSend(spent, message, outcome))]
          /\ trace' = [trace EXCEPT ![e] = Ended(u, x, Drained(AfterSend(spent, message, outcome)))]
  BY <1>1
<1>2. PICK message, outcome :
          /\ peers' = [peers EXCEPT ![e] = Drained(AfterSend(spent, message, outcome))]
          /\ trace' = [trace EXCEPT ![e] = Ended(u, x, Drained(AfterSend(spent, message, outcome)))]
  BY <1>11
<1>. DEFINE y == Drained(AfterSend(spent, message, outcome))
<1>3. Keeps(x, x) /\ Keeps(x, next)
  <2>1. next = [x EXCEPT !.nextSequence = [x.nextSequence EXCEPT ![remote] = x.nextSequence[remote] + 1]]
    OBVIOUS
  <2>. QED
    BY <2>1, EndFacts, FieldKeeps, Zenon
<1>4. Shrinks(x, spent)
  <2>. HIDE DEF next
  <2>. QED
    BY <1>3 DEF Keeps
<1>5. Shrinks(x, y)
  BY <1>4, SentShrinks
<1>6. Ledger(x, u)
  <2>1. Ledger(x, t) /\ TraceRecord(t)
    BY EndFacts
  <2>2. TraceRecord(more) /\ more.outcome = t.outcome
    BY <2>1, HistoryChanges
  <2>. HIDE DEF more, x, t
  <2>3. TraceRecord(u) /\ u.outcome = t.outcome
    BY <2>1, <2>2
  <2>. QED
    BY <2>1, <2>3 DEF Ledger
<1>7. Completions(t, u) /\ \A q : u.outcome[q] = t.outcome[q]
  <2>1. more.outcome = t.outcome
    BY EndFacts, HistoryChanges
  <2>. HIDE DEF more, t
  <2>. QED
    BY <2>1 DEF Completions
<1>8. peers' = [peers EXCEPT ![e] = y] /\ trace' = [trace EXCEPT ![e] = Ended(u, x, y)]
  BY <1>2
<1>. HIDE DEF y, next, more
<1>9. Evolves(x, u, y, Ended(u, x, y))
  BY <1>5, <1>6, EndedEvolves
<1>10. Evolves(x, t, y, Ended(u, x, y))
  BY <1>7, <1>9 DEF Evolves, Completions
<1>. QED
  BY <1>8, <1>10, OneEvolves

\* A request ends with an outcome, at an end that keeps the others.
LEMMA OneEnds ==
    ASSUME RequestsOK, NEW e \in Ends, NEW request, request \in PendingIds(peers[e]),
           NEW y, Shrinks(peers[e], y), PendingIds(y) = PendingIds(peers[e]) \ {request},
           NEW v \in {"failed", "success"}, peers' = [peers EXCEPT ![e] = y],
           trace' = [trace EXCEPT ![e] = [trace[e] EXCEPT !.outcome[request] = v]]
    PROVE  RequestsOK' /\ CompletedStep
<1>. DEFINE x == peers[e]  t == trace[e]
            o == [t.outcome EXCEPT ![request] = v]
            u == [t EXCEPT !.outcome[request] = v]
<1>1. /\ Ledger(x, t) /\ t.outcome \in [1 .. MaxRequests -> {"none", "pending", "failed", "success"}]
      /\ t = [ outcome |-> t.outcome, answered |-> t.answered, life |-> t.life,
               sent |-> t.sent, delivered |-> t.delivered, last |-> t.last ]
  BY EndFacts DEF TraceRecord
<1>2. trace' = [trace EXCEPT ![e] = u]
  OBVIOUS
<1>. HIDE DEF x, t
<1>3. /\ o \in [1 .. MaxRequests -> {"none", "pending", "failed", "success"}]
      /\ \A q \in 1 .. MaxRequests : o[q] = IF q = request THEN v ELSE t.outcome[q]
  BY <1>1
<1>4. u = [t EXCEPT !.outcome = o]
  BY <1>1
<1>. HIDE DEF o, u
<1>5. u = [ outcome |-> o, answered |-> t.answered, life |-> t.life,
            sent |-> t.sent, delivered |-> t.delivered, last |-> t.last ]
  BY <1>1, <1>4
<1>6. TraceRecord(u) /\ u.outcome = o
  BY <1>3, <1>5 DEF TraceRecord
<1>7. Shrinks(x, y) /\ PendingIds(y) = PendingIds(x) \ {request} /\ request \in PendingIds(x)
  BY DEF x
<1>8. \A q \in 1 .. MaxRequests :
          IF q \in PendingIds(x) /\ q \notin PendingIds(y)
          THEN u.outcome[q] \in {"failed", "success"} ELSE u.outcome[q] = t.outcome[q]
  BY <1>3, <1>6, <1>7
<1>9. Evolves(x, t, y, u)
  BY <1>1, <1>6, <1>7, <1>8, ShrinkEvolves
<1>. QED
  BY <1>2, <1>9, OneEvolves DEF x, t

\* A reply function that a handler calls answers a request of the other side.
LEMMA ReplyRequests ==
    ASSUME RequestsOK, NEW e \in Ends, NEW reply, NEW kind, NEW needs, Reply(e, reply, kind, needs)
    PROVE  RequestsOK' /\ CompletedStep
<1>. DEFINE x == peers[e]  t == trace[e]
<1>1. CASE UNCHANGED <<peers, trace>>
  BY <1>1, NothingHappens
<1>2. CASE \E i : peers' = [peers EXCEPT ![e] = WithoutIncoming(x, i)] /\ UNCHANGED trace
  BY <1>2, EndFacts, TakenKeeps, EndStays
<1>3. ASSUME NEW i, NEW message, NEW outcome, NEW answered,
             peers' = [peers EXCEPT ![e] = AfterSend(WithoutIncoming(x, i), message, outcome)],
             trace' = [trace EXCEPT ![e] = [t EXCEPT !.answered = answered]]
      PROVE  RequestsOK' /\ CompletedStep
  <2>1. TraceRecord([t EXCEPT !.answered = answered]) /\ [t EXCEPT !.answered = answered].outcome = t.outcome
    BY EndFacts, HistoryChanges
  <2>2. Keeps(x, WithoutIncoming(x, i)) /\ PeerOK(WithoutIncoming(x, i))
    BY EndFacts, TakenKeeps DEF Keeps, Shrinks
  <2>3. Keeps(x, AfterSend(WithoutIncoming(x, i), message, outcome))
    BY <2>2, AfterSendKeeps, KeepsTwice
  <2>. QED
    BY <1>3, <2>1, <2>3, EndKeeps
<1>4. \/ UNCHANGED <<peers, trace>>
      \/ \E i : peers' = [peers EXCEPT ![e] = WithoutIncoming(x, i)] /\ UNCHANGED trace
      \/ \E i, message, outcome, answered :
             /\ peers' = [peers EXCEPT ![e] = AfterSend(WithoutIncoming(x, i), message, outcome)]
             /\ trace' = [trace EXCEPT ![e] = [t EXCEPT !.answered = answered]]
  <2>. DEFINE message == [Message(kind, reply.remote, reply.request) EXCEPT !.needs = needs]
  <2>1. \/ UNCHANGED <<peers, trace>>
        \/ \E i : peers' = [peers EXCEPT ![e] = WithoutIncoming(x, i)] /\ UNCHANGED trace
        \/ \E i, outcome :
               /\ peers' = [peers EXCEPT ![e] = AfterSend(WithoutIncoming(x, i), message, outcome)]
               /\ trace' = [trace EXCEPT ![e].answered =
                      IF kind = "response" /\ outcome \in {"sent", "deferred"}
                      THEN t.answered \cup {<<reply.generation, reply.request>>} ELSE t.answered]
    BY Zenon DEF Reply
  <2>. HIDE DEF message
  <2>2. ASSUME NEW answered, trace' = [trace EXCEPT ![e].answered = answered]
        PROVE  trace' = [trace EXCEPT ![e] = [t EXCEPT !.answered = answered]]
    BY <2>2
  <2>. QED
    BY <2>1, <2>2
<1>. QED
  BY <1>1, <1>2, <1>3, <1>4

\* Deadlines pass.
LEMMA ElapseRequests ==
    ASSUME RequestsOK, NEW e \in Ends, ElapseRequest(e) \/ ElapseHandler(e)
    PROVE  RequestsOK' /\ CompletedStep
<1>. DEFINE x == peers[e]
<1>0. PeerOK(x)
  BY EndFacts
<1>1. CASE ElapseRequest(e)
  <2>1. PICK p \in x.pending :
            /\ UNCHANGED trace
            /\ peers' = [peers EXCEPT ![e].pending =
                             (x.pending \ {p}) \cup {[p EXCEPT !.due = TRUE]}]
    BY <1>1, Zenon DEF ElapseRequest
  <2>. DEFINE due == [p EXCEPT !.due = TRUE]  pending == (x.pending \ {p}) \cup {due}
              y == [x EXCEPT !.pending = pending]
  <2>2. p \in Requests /\ due \in Requests /\ due.request = p.request
    BY <1>0 DEF PeerOK, Requests
  <2>. HIDE DEF due
  <2>3. pending \in SUBSET Requests /\ {q.request : q \in pending} = PendingIds(x)
    BY <1>0, <2>2 DEF PeerOK, PendingIds
  <2>4. peers' = [peers EXCEPT ![e] = y]
    BY <2>1 DEF due
  <2>. HIDE DEF pending, x
  <2>5. /\ PeerRecord(y) /\ y.up = x.up /\ y.generation = x.generation
        /\ y.nextRequest = x.nextRequest /\ y.pending = pending
    BY <1>0 DEF PeerOK, PeerRecord
  <2>. HIDE DEF y
  <2>6. Keeps(x, y)
    <3>1. x.up \in BOOLEAN /\ x.generation \in Nat /\ x.nextRequest \in Nat
      BY <1>0 DEF PeerOK
    <3>2. PeerOK(y)
      BY <2>3, <2>5, <3>1 DEF PeerOK
    <3>3. PendingIds(y) = PendingIds(x)
      BY <2>3, <2>5 DEF PendingIds
    <3>. QED
      BY <2>5, <3>1, <3>2, <3>3 DEF Keeps, Shrinks
  <2>. QED
    BY <2>1, <2>4, <2>6, EndStays DEF x
<1>2. CASE ElapseHandler(e)
  <2>1. PICK incoming : UNCHANGED trace /\ peers' = [peers EXCEPT ![e].incoming = incoming]
    BY <1>2, Zenon DEF ElapseHandler
  <2>2. peers' = [peers EXCEPT ![e] = [x EXCEPT !.incoming = incoming]]
    BY <2>1
  <2>3. Keeps(x, [x EXCEPT !.incoming = incoming])
    BY <1>0, FieldKeeps
  <2>. QED
    BY <2>1, <2>2, <2>3, EndStays
<1>. QED
  BY <1>1, <1>2

\* An overdue request ends as failed.
LEMMA TimeOutRequestRequests ==
    ASSUME RequestsOK, NEW e \in Ends, NEW request, TimeOutRequest(e, request)
    PROVE  RequestsOK' /\ CompletedStep
<1>. DEFINE x == peers[e]  taken == TakePending(x, {request})
<1>1. PICK message, outcome : peers' = [peers EXCEPT ![e] = AfterSend(taken, message, outcome)]
  BY Zenon DEF TimeOutRequest
<1>2. request \in PendingIds(x) /\ trace' = [trace EXCEPT ![e].outcome[request] = "failed"]
  BY Zenon DEF TimeOutRequest
<1>3. trace' = [trace EXCEPT ![e] = [trace[e] EXCEPT !.outcome[request] = "failed"]]
  BY <1>2
<1>4. Shrinks(x, taken) /\ PendingIds(taken) = PendingIds(x) \ {request}
  BY EndFacts, TakePendingShrinks
<1>. HIDE DEF taken
<1>5. /\ Shrinks(x, AfterSend(taken, message, outcome))
      /\ PendingIds(AfterSend(taken, message, outcome)) = PendingIds(x) \ {request}
  BY <1>4, SentShrinks
<1>. DEFINE y == AfterSend(taken, message, outcome)
<1>6. peers' = [peers EXCEPT ![e] = y] /\ Shrinks(x, y) /\ PendingIds(y) = PendingIds(x) \ {request}
  BY <1>1, <1>5
<1>. HIDE DEF y
<1>. QED
  BY <1>2, <1>3, <1>6, OneEnds

\* A response or an error ends the request it names, if it still waits.
LEMMA DispatchAnswerStep ==
    ASSUME RequestsOK, NEW e \in Ends, NEW message, DispatchAnswer(e, message)
    PROVE  RequestsOK' /\ CompletedStep
<1>. DEFINE x == peers[e]
<1>0. Keeps(x, Taken(x)) /\ PeerOK(Taken(x))
  BY EndFacts, TakenKeeps DEF Keeps, Shrinks
<1>1. CASE /\ \E p \in x.pending : p.request = message.request /\ p.remote = message.remote
           /\ peers' = [peers EXCEPT ![e] = TakePending(Taken(x), {message.request})]
           /\ trace' = [trace EXCEPT ![e].outcome[message.request] =
                 IF message.kind = "response" THEN "success" ELSE "failed"]
  <2>. DEFINE v == IF message.kind = "response" THEN "success" ELSE "failed"
              y == TakePending(Taken(x), {message.request})
  <2>1. message.request \in PendingIds(x)
    BY <1>1, Zenon DEF PendingIds
  <2>2. v \in {"failed", "success"}
    OBVIOUS
  <2>3. Shrinks(x, y) /\ PendingIds(y) = PendingIds(x) \ {message.request}
    BY <1>0, TakePendingShrinks, ShrinksTwice DEF Keeps
  <2>. HIDE DEF v
  <2>4. trace' = [trace EXCEPT ![e] = [trace[e] EXCEPT !.outcome[message.request] = v]]
    BY <1>1 DEF v
  <2>5. peers' = [peers EXCEPT ![e] = y]
    BY <1>1
  <2>. HIDE DEF y
  <2>. QED
    BY <2>1, <2>2, <2>3, <2>4, <2>5, OneEnds
<1>2. CASE Drop(e)
  BY <1>0, <1>2, EndStays, Zenon DEF Drop
<1>. QED
  BY <1>1, <1>2, Zenon DEF DispatchAnswer

\* The other deadlines, and messages held back.
LEMMA DeadlineStep ==
    ASSUME RequestsOK, NEW e \in Ends, TimeOutReply(e) \/ ExpireWork(e) \/ ReleaseDeferred(e)
    PROVE  RequestsOK' /\ CompletedStep
<1>. DEFINE x == peers[e]
<1>0. PeerOK(x)
  BY EndFacts
<1>1. ASSUME NEW y, Keeps(x, y), NEW message, NEW outcome, UNCHANGED trace,
             peers' = [peers EXCEPT ![e] = AfterSend(y, message, outcome)]
      PROVE  RequestsOK' /\ CompletedStep
  <2>1. PeerOK(y)
    BY <1>1 DEF Keeps, Shrinks
  <2>2. Keeps(x, AfterSend(y, message, outcome))
    BY <1>1, <2>1, AfterSendKeeps, KeepsTwice
  <2>. QED
    BY <1>1, <2>2, EndStays
<1>2. CASE TimeOutReply(e)
  <2>1. PICK incoming, message, outcome :
            /\ UNCHANGED trace
            /\ peers' = [peers EXCEPT ![e] = AfterSend([x EXCEPT !.incoming = incoming], message, outcome)]
    BY <1>2, Zenon DEF TimeOutReply
  <2>2. Keeps(x, [x EXCEPT !.incoming = incoming])
    BY <1>0, FieldKeeps
  <2>. QED
    BY <1>1, <2>1, <2>2
<1>3. CASE ExpireWork(e)
  <2>1. PICK i : UNCHANGED trace /\ peers' = [peers EXCEPT ![e] = WithoutIncoming(x, i)]
    BY <1>3, Zenon DEF ExpireWork
  <2>. QED
    BY <1>0, <2>1, TakenKeeps, EndStays
<1>4. CASE ReleaseDeferred(e)
  <2>1. PICK deferred, message, outcome :
            /\ UNCHANGED trace
            /\ peers' = [peers EXCEPT ![e] = AfterSend([x EXCEPT !.deferred = deferred], message, outcome)]
    BY <1>4, Zenon DEF ReleaseDeferred
  <2>2. Keeps(x, [x EXCEPT !.deferred = deferred])
    BY <1>0, FieldKeeps
  <2>. QED
    BY <1>1, <2>1, <2>2
<1>. QED
  BY <1>2, <1>3, <1>4

\* A message joins the queue.
LEMMA ReceiveRequests ==
    ASSUME RequestsOK, NEW e \in Ends, ReceiveReliable(e) \/ ReceiveDatagram(e)
    PROVE  RequestsOK' /\ CompletedStep
<1>. DEFINE x == peers[e]
<1>1. UNCHANGED trace /\ \E message : Enqueue(e, message)
  BY Zenon DEF ReceiveReliable, ReceiveDatagram
<1>2. CASE UNCHANGED peers
  BY <1>1, <1>2, NothingHappens
<1>3. CASE peers' = [peers EXCEPT ![e].queued = x.queued + 1]
  <2>. DEFINE n == x.queued + 1
  <2>. HIDE DEF n
  <2>1. peers' = [peers EXCEPT ![e] = [x EXCEPT !.queued = n]]
    BY <1>3 DEF n
  <2>2. Keeps(x, [x EXCEPT !.queued = n])
    BY EndFacts, FieldKeeps
  <2>. QED
    BY <1>1, <2>1, <2>2, EndStays
<1>. QED
  BY <1>1, <1>2, <1>3, Zenon DEF Enqueue

\* A message leaves the queue; only an answer ends a request.
LEMMA DispatchRequests ==
    ASSUME RequestsOK, NEW m, NEW e \in Ends, Dispatch(m, e)
    PROVE  RequestsOK' /\ CompletedStep
<1>. DEFINE x == peers[e]  message == Head(dispatch[m]).message
            error == Message("error", message.remote, message.request)
            seen == [Taken(x) EXCEPT !.latestRequest = message.request]
<1>1. Keeps(x, Taken(x)) /\ PeerOK(Taken(x))
  BY EndFacts, TakenKeeps DEF Keeps, Shrinks
<1>2. Keeps(x, seen) /\ PeerOK(seen)
  <2>1. Keeps(Taken(x), seen)
    BY <1>1, FieldKeeps
  <2>. QED
    BY <1>1, <2>1, KeepsTwice DEF Keeps, Shrinks
<1>3. ASSUME NEW y, Keeps(x, y), PeerOK(y), NEW sent, NEW outcome,
             peers' = [peers EXCEPT ![e] = AfterSend(y, sent, outcome)], UNCHANGED trace
      PROVE  RequestsOK' /\ CompletedStep
  <2>1. Keeps(x, AfterSend(y, sent, outcome))
    BY <1>3, AfterSendKeeps, KeepsTwice
  <2>. QED
    BY <1>3, <2>1, EndStays
<1>4. CASE Drop(e) \/ RateLimited(e, message)
  BY <1>1, <1>4, EndStays, Zenon DEF Drop, RateLimited
<1>5. CASE RejectRequest(e, message)
  <2>1. PICK sent, outcome : peers' = [peers EXCEPT ![e] = AfterSend(Taken(x), sent, outcome)] /\ UNCHANGED trace
    BY <1>5, Zenon DEF RejectRequest
  <2>. QED
    BY <1>1, <1>3, <2>1
<1>6. CASE DispatchRefused(e, message)
  BY <1>4, <1>5, <1>6, Zenon DEF DispatchRefused
<1>7. CASE DispatchEvent(e, message)
  <2>1. peers' = [peers EXCEPT ![e] = Taken(x)] /\ trace' = [trace EXCEPT ![e].delivered = message.number]
    BY <1>7, Zenon DEF DispatchEvent
  <2>. DEFINE u == [trace[e] EXCEPT !.delivered = message.number]
  <2>2. trace' = [trace EXCEPT ![e] = u]
    BY <2>1
  <2>3. TraceRecord(u) /\ u.outcome = trace[e].outcome
    BY EndFacts, HistoryChanges
  <2>. HIDE DEF u
  <2>. QED
    BY <1>1, <2>1, <2>2, <2>3, EndKeeps
<1>8. CASE DispatchSequenced(e, message)
  <2>. DEFINE r == message.remote
              y == [Taken(x) EXCEPT !.latestSequence[r] = message.sequence]
              last == [ of |-> trace[e].life[r], life |-> message.life, sequence |-> message.sequence ]
              u == [trace[e] EXCEPT !.last = [trace[e].last EXCEPT ![r] = last]]
  <2>1. CASE peers' = [peers EXCEPT ![e] = y] /\ trace' = [trace EXCEPT ![e].last[r] = last]
    <3>1. trace' = [trace EXCEPT ![e] = u]
      BY <2>1
    <3>2. TraceRecord(u) /\ u.outcome = trace[e].outcome
      BY EndFacts, HistoryChanges, Zenon
    <3>3. Keeps(x, y)
      <4>1. y = [Taken(x) EXCEPT !.latestSequence = [Taken(x).latestSequence EXCEPT ![r] = message.sequence]]
        OBVIOUS
      <4>. HIDE DEF y
      <4>2. Keeps(Taken(x), y)
        BY <1>1, <4>1, FieldKeeps, Zenon
      <4>. QED
        BY <1>1, <4>2, KeepsTwice
    <3>. HIDE DEF u, y
    <3>. QED
      BY <2>1, <3>1, <3>2, <3>3, EndKeeps
  <2>. QED
    BY <1>4, <1>8, <2>1, Zenon DEF DispatchSequenced
<1>9. CASE DispatchCancel(e, message)
  <2>1. PICK incoming : UNCHANGED trace /\ peers' = [peers EXCEPT ![e] = [Taken(x) EXCEPT !.incoming = incoming]]
    BY <1>9, Zenon DEF DispatchCancel
  <2>2. Keeps(x, [Taken(x) EXCEPT !.incoming = incoming])
    BY <1>1, FieldKeeps, KeepsTwice
  <2>. QED
    BY <2>1, <2>2, EndStays
<1>10. CASE DispatchRequest(e, message)
  <2>1. CASE RejectRequest(e, message)
    BY <1>5, <2>1
  <2>2. CASE \E sent, outcome : peers' = [peers EXCEPT ![e] = AfterSend(seen, sent, outcome)] /\ UNCHANGED trace
    BY <1>2, <1>3, <2>2
  <2>3. CASE \E incoming, handlers :
                 peers' = [peers EXCEPT ![e] = [seen EXCEPT !.incoming = incoming, !.handlers = handlers]]
                     /\ UNCHANGED trace
    <3>1. PICK incoming, handlers :
              peers' = [peers EXCEPT ![e] = [seen EXCEPT !.incoming = incoming, !.handlers = handlers]]
                  /\ UNCHANGED trace
      BY <2>3
    <3>. DEFINE y == [seen EXCEPT !.incoming = incoming, !.handlers = handlers]
    <3>. HIDE DEF seen
    <3>2. Keeps(seen, y)
      BY <1>2, FieldKeeps
    <3>3. Keeps(x, y)
      BY <1>2, <3>2, KeepsTwice
    <3>. QED
      BY <3>1, <3>3, EndStays
  <2>. HIDE DEF message
  <2>. QED
    BY <1>10, <2>1, <2>2, <2>3, Zenon DEF DispatchRequest
<1>11. CASE DispatchAnswer(e, message)
  BY <1>11, DispatchAnswerStep
<1>. QED
  BY <1>6, <1>7, <1>8, <1>9, <1>10, <1>11, Zenon DEF Dispatch

\* The peers that became terminal are removed together.
LEMMA TerminalsStep ==
    ASSUME RequestsOK, NEW cut \in SUBSET Ends,
           peers' = [e \in Ends |-> IF e \in cut THEN RemovePeerState(peers[e]) ELSE peers[e]],
           trace' = [e \in Ends |-> IF e \in cut
               THEN Ended(trace[e], peers[e], RemovePeerState(peers[e])) ELSE trace[e]]
    PROVE  RequestsOK' /\ CompletedStep
<1>1. ASSUME NEW e \in Ends PROVE Evolves(peers[e], trace[e], peers'[e], trace'[e])
  BY EndFacts, DrainedShrinks, EndedEvolves, Unchanged
<1>. QED
  BY <1>1, EndsEvolve

\* Pump.
LEMMA PumpStep ==
    ASSUME RequestsOK, NEW m, Pump(m)
    PROVE  RequestsOK' /\ CompletedStep
<1>1. CASE PumpBegin(m) \/ PumpRotate(m)
  BY <1>1, NothingHappens, Zenon DEF PumpBegin, PumpRotate
<1>2. CASE PumpEnd(m) \/ DrainTerminals(m)
  <2>. DEFINE cut == {e \in Ends : ManagerOf(e) = m /\ peers[e].terminal}
  <2>1. /\ peers' = [e \in Ends |-> IF e \in cut THEN RemovePeerState(peers[e]) ELSE peers[e]]
        /\ trace' = [e \in Ends |-> IF e \in cut
               THEN Ended(trace[e], peers[e], RemovePeerState(peers[e])) ELSE trace[e]]
    BY <1>2, Zenon DEF PumpEnd, DrainTerminals
  <2>2. cut \in SUBSET Ends
    OBVIOUS
  <2>. HIDE DEF cut
  <2>. QED
    BY <2>1, <2>2, TerminalsStep
<1>3. CASE \E e \in Ends : Dispatch(m, e)
  BY <1>3, DispatchRequests
<1>. QED
  BY <1>1, <1>2, <1>3, Zenon DEF Pump

\* A new connection starts with no request at either end, and another number.
LEMMA AddPeerRequests ==
    ASSUME RequestsOK, NEW c \in Clients, AddPeer(c)
    PROVE  RequestsOK' /\ CompletedStep
<1>. DEFINE generation == peers[<<c, "server">>].generation + 1
            ends == {<<c, "server">>, <<c, "client">>}
            new == NewPeer(TRUE, generation)
<1>1. /\ peers' = [e \in Ends |-> IF e \in ends THEN new ELSE peers[e]]
      /\ trace' = [e \in Ends |-> IF e \in ends THEN NewTrace ELSE trace[e]]
  BY Zenon DEF AddPeer
<1>2. /\ \A e \in Ends : Other(e) \in Ends /\ (Other(e) \in ends <=> e \in ends)
      /\ \A e \in ends : e \in Ends
  BY DEF Ends, Other
<1>3. generation \in Nat /\ \A e \in ends : peers[e].generation # generation
  <2>1. <<c, "server">> \in Ends /\ Other(<<c, "server">>) = <<c, "client">>
    BY DEF Ends, Other
  <2>2. /\ peers[<<c, "server">>].generation \in Nat
        /\ peers[<<c, "client">>].generation = peers[<<c, "server">>].generation
    BY <2>1 DEF RequestsOK, Ledger, PeerOK
  <2>. QED
    BY <2>2
<1>. HIDE DEF generation
<1>4. /\ PeerOK(new) /\ PendingIds(new) = {} /\ new.generation = generation /\ new.nextRequest = 1
  BY <1>3, NewPeerOK
<1>5. /\ TraceRecord(NewTrace) /\ \A q \in 1 .. MaxRequests : NewTrace.outcome[q] = "none"
  BY DEF NewTrace, TraceRecord
<1>. HIDE DEF new, ends
<1>6. Ledger(new, NewTrace)
  BY <1>4, <1>5 DEF Ledger
<1>7. ASSUME NEW e \in Ends
      PROVE  /\ Ledger(peers'[e], trace'[e])
             /\ peers'[e].generation = peers'[Other(e)].generation
  BY <1>1, <1>2, <1>4, <1>6 DEF RequestsOK
<1>8. peers' = [e \in Ends |-> peers'[e]] /\ trace' = [e \in Ends |-> trace'[e]]
  BY <1>1
<1>9. RequestsOK'
  BY <1>7, <1>8 DEF RequestsOK
<1>10. ASSUME NEW e \in Ends, peers'[e].generation = peers[e].generation
       PROVE  trace'[e] = trace[e]
  BY <1>1, <1>3, <1>4, <1>10
<1>11. CompletedStep
  <2>1. ASSUME NEW e \in Ends, NEW q \in 1 .. MaxRequests
        PROVE  (trace'[e].outcome[q] = "pending") = (q \in PendingIds(peers'[e]))
    BY <1>7 DEF Ledger
  <2>. QED
    BY <1>10, <2>1 DEF CompletedStep
<1>. QED
  BY <1>9, <1>11

-----------------------------------------------------------------------------
(* The invariant and the theorems.                                         *)

\* The first connection has not begun.
LEMMA RequestsInit == Init => RequestsOK
<1>. SUFFICES ASSUME Init PROVE RequestsOK
  OBVIOUS
<1>. DEFINE new == NewPeer(FALSE, 0)
<1>1. peers = [e \in Ends |-> new] /\ trace = [e \in Ends |-> NewTrace]
  BY Zenon DEF Init
<1>2. PeerOK(new) /\ PendingIds(new) = {} /\ ~new.up
  BY NewPeerOK
<1>3. /\ TraceRecord(NewTrace) /\ \A q \in 1 .. MaxRequests : NewTrace.outcome[q] = "none"
  BY DEF NewTrace, TraceRecord
<1>. HIDE DEF new
<1>4. Ledger(new, NewTrace)
  BY <1>2, <1>3 DEF Ledger
<1>5. \A e \in Ends : Other(e) \in Ends
  BY DEF Ends, Other
<1>. QED
  BY <1>1, <1>4, <1>5 DEF RequestsOK

\* One step per disjunct of Next.
LEMMA RequestsNext ==
    ASSUME RequestsOK, [Next]_vars
    PROVE  RequestsOK' /\ CompletedStep
<1>1. CASE \E c \in Clients : Session(c)
  BY <1>1, AddPeerRequests, SessionStep, Zenon DEF Session
<1>2. CASE \E e \in Ends : RemovePeer(e)
  BY <1>2, EndGoneRequests DEF RemovePeer
<1>3. CASE \E e \in Calling : Call(e)
  <2>1. PICK e \in Calling : Call(e)
    BY <1>3
  <2>2. e \in Ends
    BY DEF Calling
  <2>3. CASE \E remote \in Remotes, needs \in Needs(e) :
                StartRequest(e, remote, needs) \/ SendEvent(e, remote, needs)
    BY <2>2, <2>3, StartRequestRequests, SendEventRequests
  <2>4. CASE \E request \in 1 .. MaxRequests : CancelRequest(e, request)
    BY <2>2, <2>4, CancelRequestRequests
  <2>. QED
    BY <2>1, <2>3, <2>4, Zenon DEF Call
<1>4. CASE \E e \in Ends : \E reply \in replies[e] : Answer(e, reply)
  BY <1>4, ReplyRequests DEF Answer
<1>5. CASE \E e \in Ends : Elapse(e)
  BY <1>5, ElapseRequests DEF Elapse
<1>6. CASE \E e \in Ends : PumpDeadlines(e) \/ ReleaseDeferred(e)
  BY <1>6, TimeOutRequestRequests, DeadlineStep DEF PumpDeadlines
<1>7. CASE \E e \in Ends : ReceiveReliable(e) \/ ReceiveDatagram(e)
  BY <1>7, ReceiveRequests
<1>8. CASE \E m \in Managers : Pump(m)
  BY <1>8, PumpStep
<1>9. CASE UNCHANGED vars
  BY <1>9, NothingHappens DEF vars
<1>. QED
  BY <1>1, <1>2, <1>3, <1>4, <1>5, <1>6, <1>7, <1>8, <1>9, Zenon DEF Next

\* The ledger of every end is exact in every reachable state: PendingRequests
\* holds the requests whose completion has not run, and NextRequestId is newer
\* than any of them.
THEOREM RequestsHold == Spec => []RequestsOK
<1>1. Init => RequestsOK
  BY RequestsInit
<1>2. RequestsOK /\ [Next]_vars => RequestsOK'
  BY RequestsNext
<1>. QED
  BY <1>1, <1>2, PTL DEF Spec

\* A request's completion runs exactly once (CompletePending), whatever arrives,
\* times out, is cancelled, unpublished or disconnected.
THEOREM CompletesOnce == Spec => CompletedOnce
<1>1. RequestsOK /\ [Next]_vars => [CompletedStep]_vars
  BY RequestsNext
<1>2. Spec => [][CompletedStep]_vars
  BY <1>1, RequestsHold, PTL DEF Spec
<1>3. CompletedStep <=> \A e \in Ends : \A q \in 1 .. MaxRequests :
        LET before == trace[e].outcome[q]
            after == trace'[e].outcome[q]
        IN  /\ peers'[e].generation = peers[e].generation
                   => (before \in {"none", "pending"} \/ after = before)
            /\ (after = "pending") = (q \in PendingIds(peers'[e]))
  BY Zenon DEF CompletedStep
<1>. QED
  BY <1>2, <1>3, PTL DEF CompletedOnce

-----------------------------------------------------------------------------
(* The types of the state.                                                 *)

Msg == [ kind : {"event", "sequenced", "request", "response", "error", "cancel"},
         remote : Remotes, publication : Nat, request : Nat,
         sequence : Nat, needs : SUBSET Objects, life : Nat, number : Nat ]

Outgoing == [request : Nat, remote : Remotes, due : BOOLEAN]

Incoming == [request : Nat \ {0}, remote : Remotes, accept : BOOLEAN, late : BOOLEAN, expired : BOOLEAN]

Peer == [ up : BOOLEAN, generation : Nat, published : SUBSET Remotes,
          materialized : SUBSET (Remotes \cup Objects), publication : [Remotes -> Nat],
          nextSequence : [Remotes -> Nat], latestSequence : [Remotes -> Nat],
          nextRequest : Nat, latestRequest : Nat, handlers : Int, outgoing : Int, queued : Int,
          pending : SUBSET Outgoing, incoming : SUBSET Incoming, deferred : Seq(Msg),
          terminal : BOOLEAN ]

Fields == { "up", "generation", "published", "materialized", "publication", "nextSequence",
            "latestSequence", "nextRequest", "latestRequest", "handlers", "outgoing", "queued",
            "pending", "incoming", "deferred", "terminal" }

Delivered == [of : Nat, life : Nat, sequence : Nat]

Trace == [ outcome : [1 .. MaxRequests -> {"none", "pending", "failed", "success"}],
           answered : SUBSET (Nat \X Nat), life : [Remotes -> Nat], sent : Nat, delivered : Nat,
           last : [Remotes -> Delivered] ]

\* y is x but for the fields F.
Same(x, y, F) == \A f \in Fields \ F : y[f] = x[f]

-----------------------------------------------------------------------------
(* The tables of a peer.                                                   *)

\* PendingRequests and its counter.
OutTable(x) ==
    /\ IsFiniteSet(x.pending)
    /\ x.outgoing = Cardinality(x.pending) /\ x.outgoing <= MaximumInFlightRemoteRequests
    /\ \A p, q \in x.pending : p.request = q.request => p = q
    /\ \A p \in x.pending : p.request < x.nextRequest

\* IncomingRequests and its counter.
InTable(x) ==
    /\ IsFiniteSet(x.incoming)
    /\ x.handlers = Cardinality(x.incoming) /\ x.handlers <= MaximumInFlightRemoteRequests
    /\ \A i, j \in x.incoming : i.request = j.request => i = j
    /\ \A i \in x.incoming : i.request <= x.latestRequest

\* A request held back is pending.
Live(x) == \A n \in DOMAIN x.deferred : LiveRequest(x, x.deferred[n])

\* All of it, with the messages M held back.
Sane(x, M) == x \in Peer /\ OutTable(x) /\ InTable(x) /\ Live(x) /\ x.deferred \in Seq(M)

\* One field changes after another.
LEMMA SameTwice ==
    ASSUME NEW x, NEW y, NEW z, NEW F, NEW G, Same(x, y, F), Same(y, z, G)
    PROVE  Same(x, z, F \cup G)
BY DEF Same

\* What the tables depend on.
LEMMA SameTables ==
    ASSUME NEW x, NEW y, NEW F, Same(x, y, F)
    PROVE  /\ OutTable(x) /\ F \cap {"pending", "outgoing", "nextRequest"} = {} => OutTable(y)
           /\ InTable(x) /\ F \cap {"incoming", "handlers", "latestRequest"} = {} => InTable(y)
           /\ Live(x) /\ F \cap {"pending", "deferred"} = {} => Live(y)
<1>1. OutTable(x) /\ F \cap {"pending", "outgoing", "nextRequest"} = {} => OutTable(y)
  <2>. SUFFICES ASSUME OutTable(x), F \cap {"pending", "outgoing", "nextRequest"} = {} PROVE OutTable(y)
    OBVIOUS
  <2>1. y.pending = x.pending /\ y.outgoing = x.outgoing /\ y.nextRequest = x.nextRequest
    BY DEF Same, Fields
  <2>. QED
    BY <2>1 DEF OutTable
<1>2. InTable(x) /\ F \cap {"incoming", "handlers", "latestRequest"} = {} => InTable(y)
  <2>. SUFFICES ASSUME InTable(x), F \cap {"incoming", "handlers", "latestRequest"} = {} PROVE InTable(y)
    OBVIOUS
  <2>1. y.incoming = x.incoming /\ y.handlers = x.handlers /\ y.latestRequest = x.latestRequest
    BY DEF Same, Fields
  <2>. QED
    BY <2>1 DEF InTable
<1>3. Live(x) /\ F \cap {"pending", "deferred"} = {} => Live(y)
  <2>. SUFFICES ASSUME Live(x), F \cap {"pending", "deferred"} = {} PROVE Live(y)
    OBVIOUS
  <2>1. y.pending = x.pending /\ y.deferred = x.deferred
    BY DEF Same, Fields
  <2>. QED
    BY <2>1 DEF Live, LiveRequest
<1>. QED
  BY <1>1, <1>2, <1>3

\* A field outside the tables changes.
LEMMA FieldSane ==
    ASSUME NEW x, NEW M, Sane(x, M)
    PROVE  /\ \A v \in Int : Sane([x EXCEPT !.queued = v], M) /\ Same(x, [x EXCEPT !.queued = v], {"queued"})
           /\ \A v \in BOOLEAN : Sane([x EXCEPT !.terminal = v], M) /\ Same(x, [x EXCEPT !.terminal = v], {"terminal"})
           /\ \A v \in SUBSET (Remotes \cup Objects) :
                 Sane([x EXCEPT !.materialized = v], M) /\ Same(x, [x EXCEPT !.materialized = v], {"materialized"})
           /\ \A v \in SUBSET Remotes :
                 Sane([x EXCEPT !.published = v], M) /\ Same(x, [x EXCEPT !.published = v], {"published"})
           /\ \A v \in [Remotes -> Nat] :
                 /\ Sane([x EXCEPT !.publication = v], M) /\ Same(x, [x EXCEPT !.publication = v], {"publication"})
                 /\ Sane([x EXCEPT !.nextSequence = v], M) /\ Same(x, [x EXCEPT !.nextSequence = v], {"nextSequence"})
                 /\ Sane([x EXCEPT !.latestSequence = v], M)
                 /\ Same(x, [x EXCEPT !.latestSequence = v], {"latestSequence"})
<1>. DEFINE Fine(y, F) == Sane(y, M) /\ Same(x, y, F)
<1>1. x \in Peer
  BY DEF Sane
<1>2. ASSUME NEW F \in SUBSET {"queued", "terminal", "materialized", "published", "publication",
                               "nextSequence", "latestSequence"},
             NEW y \in Peer, Same(x, y, F)
      PROVE  Fine(y, F)
  <2>1. y.deferred = x.deferred
    BY <1>2 DEF Same, Fields
  <2>. QED
    BY <1>2, <2>1, SameTables DEF Sane
<1>. DEFINE Put(y, F) == y \in Peer /\ Same(x, y, F)
<1>3. \A v \in Int : Put([x EXCEPT !.queued = v], {"queued"})
  BY <1>1 DEF Peer, Same, Fields
<1>4. \A v \in BOOLEAN : Put([x EXCEPT !.terminal = v], {"terminal"})
  BY <1>1 DEF Peer, Same, Fields
<1>5. \A v \in SUBSET (Remotes \cup Objects) : Put([x EXCEPT !.materialized = v], {"materialized"})
  BY <1>1 DEF Peer, Same, Fields
<1>6. \A v \in SUBSET Remotes : Put([x EXCEPT !.published = v], {"published"})
  BY <1>1 DEF Peer, Same, Fields
<1>7. ASSUME NEW v \in [Remotes -> Nat]
      PROVE  /\ Put([x EXCEPT !.publication = v], {"publication"})
             /\ Put([x EXCEPT !.nextSequence = v], {"nextSequence"})
             /\ Put([x EXCEPT !.latestSequence = v], {"latestSequence"})
  BY <1>1 DEF Peer, Same, Fields
<1>8. \A F \in SUBSET {"queued", "terminal", "materialized", "published", "publication",
                       "nextSequence", "latestSequence"} : \A y : Put(y, F) => Fine(y, F)
  BY <1>2
<1>. HIDE DEF Put, Fine
<1>9. /\ \A v \in Int : Fine([x EXCEPT !.queued = v], {"queued"})
      /\ \A v \in BOOLEAN : Fine([x EXCEPT !.terminal = v], {"terminal"})
      /\ \A v \in SUBSET (Remotes \cup Objects) : Fine([x EXCEPT !.materialized = v], {"materialized"})
      /\ \A v \in SUBSET Remotes : Fine([x EXCEPT !.published = v], {"published"})
      /\ \A v \in [Remotes -> Nat] : /\ Fine([x EXCEPT !.publication = v], {"publication"})
                                     /\ Fine([x EXCEPT !.nextSequence = v], {"nextSequence"})
                                     /\ Fine([x EXCEPT !.latestSequence = v], {"latestSequence"})
  BY <1>3, <1>4, <1>5, <1>6, <1>7, <1>8
<1>. QED
  BY <1>9 DEF Fine

-----------------------------------------------------------------------------
(* The bookkeeping of the operations.                                      *)

\* Two tables with the same requests, each once, have the same size.
LEMMA SameRequests ==
    ASSUME NEW I, IsFiniteSet(I), NEW J,
           \A i, j \in I : i.request = j.request => i = j,
           \A i, j \in J : i.request = j.request => i = j,
           \A i \in I : \E j \in J : j.request = i.request,
           \A j \in J : \E i \in I : j.request = i.request
    PROVE  IsFiniteSet(J) /\ Cardinality(J) = Cardinality(I)
<1>. DEFINE f == [i \in I |-> CHOOSE j \in J : j.request = i.request]
<1>1. \A i \in I : \E j \in J : j.request = i.request
  OBVIOUS
<1>2. \A j \in J : \E i \in I : j.request = i.request
  OBVIOUS
<1>3. \A i \in I : f[i] \in J /\ f[i].request = i.request
  BY <1>1
<1>. HIDE DEF f
<1>4. f \in [I -> J]
  BY <1>3 DEF f
<1>5. \A i, j \in I : f[i] = f[j] => i = j
  BY <1>3
<1>6. \A j \in J : \E i \in I : f[i] = j
  BY <1>2, <1>3
<1>7. f \in Bijection(I, J)
  BY <1>4, <1>5, <1>6 DEF Bijection, Injection, Surjection, IsInjective
<1>. QED
  BY <1>7, FS_Bijection DEF ExistsBijection

\* What a sent message leaves at the sender.
LEMMA AfterSendSane ==
    ASSUME NEW x, NEW M, M \subseteq Msg, Sane(x, M), NEW message, NEW outcome,
           outcome = "deferred" => Stamped(x, message) \in M /\ LiveRequest(x, Stamped(x, message))
    PROVE  /\ Sane(AfterSend(x, message, outcome), M)
           /\ Same(x, AfterSend(x, message, outcome), {"deferred", "terminal"})
<1>. DEFINE d == IF outcome = "deferred" THEN Append(x.deferred, Stamped(x, message)) ELSE x.deferred
            y == AfterSend(x, message, outcome)
            b == x.terminal \/ outcome = "cut"
<1>1. x \in Peer /\ x.deferred \in Seq(M) /\ Live(x) /\ b \in BOOLEAN
  BY DEF Sane
<1>2. d \in Seq(M) /\ d \in Seq(Msg) /\ \A n \in DOMAIN d : LiveRequest(x, d[n])
  BY <1>1 DEF Live
<1>3. y = [x EXCEPT !.deferred = d, !.terminal = b]
  BY DEF AfterSend
<1>. HIDE DEF d, y, b
<1>4. y \in Peer /\ y.deferred = d /\ Same(x, y, {"deferred", "terminal"})
  BY <1>1, <1>2, <1>3 DEF Peer, Same, Fields
<1>5. OutTable(y) /\ InTable(y) /\ y.pending = x.pending
  <2>1. y.pending = x.pending
    BY <1>4 DEF Same, Fields
  <2>. QED
    BY <1>4, <2>1, SameTables DEF Sane
<1>6. Live(y)
  BY <1>2, <1>4, <1>5 DEF Live, LiveRequest
<1>. QED
  BY <1>2, <1>4, <1>5, <1>6 DEF Sane, y

\* A message taken from the queue, a publication, an object made known.
LEMMA OthersSane ==
    ASSUME NEW x, NEW M, Sane(x, M)
    PROVE  /\ Sane(Taken(x), M) /\ Same(x, Taken(x), {"queued"}) /\ Taken(x).queued = x.queued - 1
           /\ \A object \in Remotes \cup Objects : \A known :
                 /\ Sane(Materialized(x, object, known), M)
                 /\ Same(x, Materialized(x, object, known), {"materialized"})
<1>1. x \in Peer
  BY DEF Sane
<1>2. x.queued \in Int /\ x.queued - 1 \in Int /\ Taken(x).queued = x.queued - 1
  BY <1>1 DEF Peer, Taken
<1>3. Sane(Taken(x), M) /\ Same(x, Taken(x), {"queued"})
  BY <1>2, FieldSane DEF Taken
<1>4. ASSUME NEW object \in Remotes \cup Objects, NEW known
      PROVE  /\ Sane(Materialized(x, object, known), M)
             /\ Same(x, Materialized(x, object, known), {"materialized"})
  <2>. DEFINE v == IF known THEN x.materialized \cup {object} ELSE x.materialized \ {object}
  <2>1. v \in SUBSET (Remotes \cup Objects)
    BY <1>1 DEF Peer
  <2>2. Materialized(x, object, known) = [x EXCEPT !.materialized = v]
    BY DEF Materialized
  <2>. HIDE DEF v
  <2>. QED
    BY <2>1, <2>2, FieldSane
<1>. QED
  BY <1>2, <1>3, <1>4

\* A handler's slot is given back.
LEMMA WithoutIncomingSane ==
    ASSUME NEW x, NEW M, Sane(x, M), NEW i \in x.incoming
    PROVE  /\ Sane(WithoutIncoming(x, i), M)
           /\ Same(x, WithoutIncoming(x, i), {"incoming", "handlers"})
<1>. DEFINE y == WithoutIncoming(x, i)  rest == x.incoming \ {i}  n == x.handlers - 1
<1>1. x \in Peer /\ InTable(x)
  BY DEF Sane
<1>2. rest \in SUBSET Incoming /\ n \in Int
  BY <1>1 DEF Peer
<1>3. IsFiniteSet(rest) /\ Cardinality(rest) = n /\ n <= x.handlers
  <2>1. Cardinality(x.incoming) \in Nat /\ x.handlers = Cardinality(x.incoming)
    BY <1>1, FS_CardinalityType DEF InTable
  <2>2. IsFiniteSet(rest) /\ Cardinality(rest) = Cardinality(x.incoming) - 1
    BY <1>1, FS_RemoveElement DEF InTable
  <2>. QED
    BY <2>1, <2>2
<1>4. y = [x EXCEPT !.incoming = rest, !.handlers = n]
  BY DEF WithoutIncoming
<1>. HIDE DEF y, rest, n
<1>5. /\ y \in Peer /\ y.incoming = rest /\ y.handlers = n /\ y.latestRequest = x.latestRequest
      /\ Same(x, y, {"incoming", "handlers"}) /\ y.deferred = x.deferred
  BY <1>1, <1>2, <1>4 DEF Peer, Same, Fields
<1>6. OutTable(y) /\ Live(y)
  BY <1>5, SameTables DEF Sane
<1>7. InTable(y)
  <2>1. MaximumInFlightRemoteRequests \in Nat /\ x.handlers \in Int
    BY <1>1, RemoteBounds DEF Peer
  <2>2. n <= MaximumInFlightRemoteRequests
    BY <1>1, <1>2, <1>3, <2>1 DEF InTable
  <2>3. rest \subseteq x.incoming
    BY DEF rest
  <2>. QED
    BY <1>1, <1>3, <1>5, <2>2, <2>3 DEF InTable
<1>. QED
  BY <1>5, <1>6, <1>7 DEF Sane, y

\* TakePending: the entries, their count and their frames go together.
LEMMA TakePendingSane ==
    ASSUME NEW x, NEW M, M \subseteq Msg, Sane(x, M), NEW requests
    PROVE  /\ Sane(TakePending(x, requests), M)
           /\ Same(x, TakePending(x, requests), {"pending", "deferred", "outgoing"})
           /\ TakePending(x, requests).pending = {p \in x.pending : p.request \notin requests}
<1>. DEFINE gone == {p \in x.pending : p.request \in requests}
            left == {p \in x.pending : p.request \notin requests}
            K == {n \in DOMAIN x.deferred :
                     ~(x.deferred[n].kind = "request" /\ x.deferred[n].request \in requests)}
            d == DeferredWithout(x, requests)
            n == x.outgoing - Cardinality(gone)
            y == TakePending(x, requests)
<1>1. x \in Peer /\ OutTable(x) /\ x.deferred \in Seq(M) /\ Live(x)
  BY DEF Sane
<1>2. /\ IsFiniteSet(left) /\ Cardinality(left) = n /\ n \in Nat /\ n <= x.outgoing
  <2>1. IsFiniteSet(x.pending) /\ x.outgoing = Cardinality(x.pending)
    BY <1>1 DEF OutTable
  <2>2. left = x.pending \ gone /\ x.pending \cap gone = gone
    OBVIOUS
  <2>. HIDE DEF left, gone
  <2>3. /\ IsFiniteSet(left) /\ Cardinality(left) = Cardinality(x.pending) - Cardinality(gone)
        /\ Cardinality(left) <= Cardinality(x.pending)
    <3>1. left \in SUBSET x.pending
      BY <2>2
    <3>2. Cardinality(x.pending \ gone) = Cardinality(x.pending) - Cardinality(x.pending \cap gone)
      BY <2>1, FS_Difference
    <3>. QED
      BY <2>1, <2>2, <3>1, <3>2, FS_Subset
  <2>. QED
    BY <2>1, <2>3, FS_CardinalityType
<1>3. /\ d \in Seq(M) /\ d \in Seq(Msg)
      /\ \A k \in DOMAIN d : \E m \in K : d[k] = x.deferred[m]
  <2>1. K \in SUBSET DOMAIN x.deferred
    OBVIOUS
  <2>2. d = Subsequence(x.deferred, K)
    BY Zenon DEF DeferredWithout
  <2>. HIDE DEF K, d
  <2>3. d \in Seq(M) /\ \A k \in DOMAIN d : \E m \in K : d[k] = x.deferred[m]
    BY <1>1, <2>1, <2>2, SubsequenceElements
  <2>. QED
    BY <2>3
<1>4. y = [x EXCEPT !.pending = left, !.deferred = d, !.outgoing = n]
  BY Zenon DEF TakePending
<1>5. left \in SUBSET Outgoing
  BY <1>1 DEF Peer
<1>6. \A k \in DOMAIN d : d[k].kind = "request" =>
          /\ d[k].request \notin requests
          /\ \E p \in x.pending : p.request = d[k].request /\ p.remote = d[k].remote
  BY <1>1, <1>3 DEF Live, LiveRequest
<1>. HIDE DEF d, y, n, K
<1>7. /\ y \in Peer /\ y.pending = left /\ y.deferred = d /\ y.outgoing = n
      /\ y.nextRequest = x.nextRequest /\ Same(x, y, {"pending", "deferred", "outgoing"})
  <2>. HIDE DEF left
  <2>. DEFINE a == [x EXCEPT !.pending = left]  b == [a EXCEPT !.deferred = d]
              c == [b EXCEPT !.outgoing = n]
  <2>1. a \in Peer /\ Same(x, a, {"pending"}) /\ a.pending = left
    BY <1>1, <1>5 DEF Peer, Same, Fields
  <2>. HIDE DEF a
  <2>2. b \in Peer /\ Same(a, b, {"deferred"}) /\ b.deferred = d
    BY <1>3, <2>1 DEF Peer, Same, Fields
  <2>. HIDE DEF b
  <2>3. c \in Peer /\ Same(b, c, {"outgoing"}) /\ c.outgoing = n
    <3>1. n \in Int
      BY <1>2
    <3>. QED
      BY <2>2, <3>1 DEF Peer, Same, Fields
  <2>. HIDE DEF c
  <2>4. y = c
    BY <1>4, Zenon DEF a, b, c
  <2>5. Same(x, c, {"pending", "deferred", "outgoing"})
    BY <2>1, <2>2, <2>3 DEF Same
  <2>6. c.pending = left /\ c.deferred = d /\ c.nextRequest = x.nextRequest
    BY <2>1, <2>2, <2>3 DEF Same, Fields
  <2>. QED
    BY <2>3, <2>4, <2>5, <2>6
<1>8. OutTable(y)
  <2>1. MaximumInFlightRemoteRequests \in Nat /\ x.outgoing \in Int
    BY <1>1, RemoteBounds DEF Peer
  <2>2. n <= MaximumInFlightRemoteRequests
    BY <1>1, <1>2, <2>1 DEF OutTable
  <2>. QED
    BY <1>1, <1>2, <1>7, <2>2 DEF OutTable
<1>9. InTable(y)
  BY <1>7, SameTables DEF Sane
<1>10. Live(y)
  BY <1>6, <1>7 DEF Live, LiveRequest
<1>. QED
  BY <1>3, <1>7, <1>8, <1>9, <1>10 DEF Sane, y

\* A remote's life begins: a new publication identity and no old sequence.
LEMMA PublishedSane ==
    ASSUME NEW x, NEW M, Sane(x, M), NEW remote \in Remotes
    PROVE  LET y == Published(x, remote)
           IN  /\ Sane(y, M)
               /\ Same(x, y, {"published", "materialized", "publication", "nextSequence", "latestSequence"})
               /\ y.published = x.published \cup {remote}
               /\ y.publication = [x.publication EXCEPT ![remote] = x.publication[remote] + 1]
               /\ y.latestSequence = [x.latestSequence EXCEPT ![remote] = 0]
<1>. DEFINE pd == x.published \cup {remote}  md == x.materialized \cup {remote}
            pn == [x.publication EXCEPT ![remote] = x.publication[remote] + 1]
            ns == [x.nextSequence EXCEPT ![remote] = 0]
            ls == [x.latestSequence EXCEPT ![remote] = 0]
            a == [x EXCEPT !.published = pd]  b == [a EXCEPT !.materialized = md]
            c == [b EXCEPT !.publication = pn]  d == [c EXCEPT !.nextSequence = ns]
            f == [d EXCEPT !.latestSequence = ls]
<1>1. x \in Peer
  BY DEF Sane
<1>2. /\ pd \in SUBSET Remotes /\ md \in SUBSET (Remotes \cup Objects)
      /\ pn \in [Remotes -> Nat] /\ ns \in [Remotes -> Nat] /\ ls \in [Remotes -> Nat]
  BY <1>1 DEF Peer
<1>. HIDE DEF pd, md, pn, ns, ls
<1>3. Sane(a, M) /\ Same(x, a, {"published"}) /\ a.published = pd
  BY <1>1, <1>2, FieldSane DEF Peer
<1>. HIDE DEF a
<1>4. Sane(b, M) /\ Same(a, b, {"materialized"})
  BY <1>2, <1>3, FieldSane
<1>. HIDE DEF b
<1>5. Sane(c, M) /\ Same(b, c, {"publication"}) /\ c.publication = pn
  <2>1. Sane(c, M) /\ Same(b, c, {"publication"})
    BY <1>2, <1>4, FieldSane
  <2>2. b \in Peer
    BY <1>4 DEF Sane
  <2>. QED
    BY <2>1, <2>2 DEF Peer
<1>. HIDE DEF c
<1>6. Sane(d, M) /\ Same(c, d, {"nextSequence"})
  BY <1>2, <1>5, FieldSane
<1>. HIDE DEF d
<1>7. Sane(f, M) /\ Same(d, f, {"latestSequence"}) /\ f.latestSequence = ls
  <2>1. Sane(f, M) /\ Same(d, f, {"latestSequence"})
    BY <1>2, <1>6, FieldSane
  <2>2. d \in Peer
    BY <1>6 DEF Sane
  <2>. QED
    BY <2>1, <2>2 DEF Peer
<1>. HIDE DEF f
<1>8. Same(x, f, {"published", "materialized", "publication", "nextSequence", "latestSequence"})
  BY <1>3, <1>4, <1>5, <1>6, <1>7 DEF Same
<1>9. f.published = pd /\ f.publication = pn
  BY <1>3, <1>4, <1>5, <1>6, <1>7 DEF Same, Fields
<1>10. Published(x, remote) = f
  BY Zenon DEF Published, a, b, c, d, f, pd, md, pn, ns, ls
<1>. QED
  BY <1>7, <1>8, <1>9, <1>10 DEF pd, pn, ls

\* The queued messages of one remote.
QueuedRemote(e, remote) == QueuedOf(e, LAMBDA message : message.remote = remote)

\* y is x without a remote, of which it had so many messages in the queue.
Forgets(x, y, remote, away) ==
    /\ Same(x, y, {"pending", "deferred", "outgoing", "published", "materialized",
                   "nextSequence", "latestSequence", "handlers", "incoming", "queued"})
    /\ y.published = x.published \ {remote}
    /\ y.latestSequence = [x.latestSequence EXCEPT ![remote] = 0]
    /\ y.queued = x.queued - away

\* UnpublishRemote: the remote's entries leave the tables with their counts.
LEMMA UnpublishedSane ==
    ASSUME NEW e, NEW x, NEW M, M \subseteq Msg, Sane(x, M), NEW remote \in Remotes,
           NEW away \in Int, away = QueuedRemote(e, remote),
           NEW y, y = Unpublished(e, x, remote)
    PROVE  Sane(y, M) /\ Forgets(x, y, remote, away)
<1>. DEFINE taken == TakePending(x, {p.request : p \in {p \in x.pending : p.remote = remote}})
            pd == taken.published \ {remote}  md == taken.materialized \ {remote}
            ns == [taken.nextSequence EXCEPT ![remote] = 0]
            ls == [taken.latestSequence EXCEPT ![remote] = 0]
            gone == {i \in x.incoming : i.remote = remote}
            left == {i \in taken.incoming : i.remote # remote}
            hs == taken.handlers - Cardinality(gone)
            qs == taken.queued - away
            K == {n \in DOMAIN taken.deferred : taken.deferred[n].remote # remote}
            ds == Subsequence(taken.deferred, K)
            a == [taken EXCEPT !.published = pd]  b == [a EXCEPT !.materialized = md]
            c == [b EXCEPT !.nextSequence = ns]  d == [c EXCEPT !.latestSequence = ls]
            f == [d EXCEPT !.handlers = hs]  g == [f EXCEPT !.incoming = left]
            h == [g EXCEPT !.queued = qs]  k == [h EXCEPT !.deferred = ds]
<1>1. Sane(taken, M) /\ Same(x, taken, {"pending", "deferred", "outgoing"})
  BY TakePendingSane
<1>2. x \in Peer /\ taken \in Peer /\ InTable(x) /\ InTable(taken) /\ taken.deferred \in Seq(M) /\ Live(taken)
  BY <1>1 DEF Sane
<1>3. /\ taken.published = x.published /\ taken.latestSequence = x.latestSequence
      /\ taken.handlers = x.handlers /\ taken.incoming = x.incoming /\ taken.queued = x.queued
  BY <1>1 DEF Same, Fields
<1>. HIDE DEF taken
<1>4. /\ pd \in SUBSET Remotes /\ md \in SUBSET (Remotes \cup Objects)
      /\ ns \in [Remotes -> Nat] /\ ls \in [Remotes -> Nat] /\ qs \in Int
  <2>1. pd \in SUBSET Remotes /\ md \in SUBSET (Remotes \cup Objects)
    BY <1>2 DEF Peer
  <2>2. ns \in [Remotes -> Nat] /\ ls \in [Remotes -> Nat]
    BY <1>2 DEF Peer
  <2>3. taken.queued \in Int /\ away \in Int
    BY <1>2 DEF Peer
  <2>. QED
    BY <2>1, <2>2, <2>3
<1>5. /\ left \in SUBSET Incoming /\ hs \in Int /\ IsFiniteSet(left) /\ hs = Cardinality(left)
      /\ hs <= MaximumInFlightRemoteRequests
  <2>1. IsFiniteSet(x.incoming) /\ x.handlers = Cardinality(x.incoming) /\ x.handlers <= MaximumInFlightRemoteRequests
    BY <1>2 DEF InTable
  <2>2. left = x.incoming \ gone /\ x.incoming \cap gone = gone /\ left \in SUBSET x.incoming
    BY <1>3
  <2>3. left \in SUBSET Incoming
    BY <1>2, <2>2 DEF Peer
  <2>. HIDE DEF left, gone
  <2>4. Cardinality(x.incoming \ gone) = Cardinality(x.incoming) - Cardinality(x.incoming \cap gone)
    BY <2>1, FS_Difference
  <2>5. IsFiniteSet(left) /\ Cardinality(left) <= Cardinality(x.incoming) /\ Cardinality(left) \in Nat
    BY <2>1, <2>2, FS_Subset, FS_CardinalityType
  <2>6. hs = Cardinality(left)
    BY <1>3, <2>1, <2>2, <2>4
  <2>7. Cardinality(x.incoming) \in Nat /\ MaximumInFlightRemoteRequests \in Nat
    BY <2>1, FS_CardinalityType, RemoteBounds
  <2>. HIDE DEF hs
  <2>. QED
    BY <2>1, <2>3, <2>5, <2>6, <2>7
<1>6. ds \in Seq(M) /\ ds \in Seq(Msg) /\ \A n \in DOMAIN ds : \E m \in DOMAIN taken.deferred : ds[n] = taken.deferred[m]
  <2>1. K \in SUBSET DOMAIN taken.deferred
    OBVIOUS
  <2>. HIDE DEF K
  <2>2. ds \in Seq(M) /\ \A n \in DOMAIN ds : \E m \in K : ds[n] = taken.deferred[m]
    BY <1>2, <2>1, SubsequenceElements
  <2>. HIDE DEF ds
  <2>. QED
    BY <2>1, <2>2
<1>. HIDE DEF pd, md, ns, ls, qs, hs, ds, K, a, b, c, d, f, g, h, k
<1>7. Sane(a, M) /\ Same(taken, a, {"published"}) /\ a.published = pd
  BY <1>1, <1>2, <1>4, FieldSane DEF Peer, a
<1>8. Sane(b, M) /\ Same(a, b, {"materialized"})
  BY <1>4, <1>7, FieldSane DEF b
<1>9. Sane(c, M) /\ Same(b, c, {"nextSequence"})
  BY <1>4, <1>8, FieldSane DEF c
<1>10. Sane(d, M) /\ Same(c, d, {"latestSequence"}) /\ d.latestSequence = ls
  <2>1. Sane(d, M) /\ Same(c, d, {"latestSequence"})
    BY <1>4, <1>9, FieldSane DEF d
  <2>2. c \in Peer
    BY <1>9 DEF Sane
  <2>. QED
    BY <2>1, <2>2 DEF d, Peer
<1>11. f \in Peer /\ Same(d, f, {"handlers"}) /\ f.handlers = hs
  BY <1>5, <1>10 DEF Sane, Peer, Same, Fields, f
<1>12. g \in Peer /\ Same(f, g, {"incoming"}) /\ g.incoming = left
  <2>. HIDE DEF left
  <2>. QED
    BY <1>5, <1>11 DEF Peer, Same, Fields, g
<1>13. h \in Peer /\ Same(g, h, {"queued"}) /\ h.queued = qs
  BY <1>4, <1>12 DEF Peer, Same, Fields, h
<1>14. k \in Peer /\ Same(h, k, {"deferred"}) /\ k.deferred = ds
  BY <1>6, <1>13 DEF Peer, Same, Fields, k
<1>15. /\ Same(d, k, {"handlers", "incoming", "queued", "deferred"})
       /\ Same(taken, k, {"published", "materialized", "nextSequence", "latestSequence",
                          "handlers", "incoming", "queued", "deferred"})
       /\ Same(x, k, {"pending", "deferred", "outgoing", "published", "materialized",
                      "nextSequence", "latestSequence", "handlers", "incoming", "queued"})
  BY <1>1, <1>7, <1>8, <1>9, <1>10, <1>11, <1>12, <1>13, <1>14 DEF Same
<1>16. /\ k.published = pd /\ k.latestSequence = ls /\ k.handlers = hs /\ k.incoming = left
       /\ k.queued = qs /\ k.pending = taken.pending /\ k.latestRequest = taken.latestRequest
  BY <1>7, <1>8, <1>9, <1>10, <1>11, <1>12, <1>13, <1>14 DEF Same, Fields
<1>17. OutTable(k)
  <2>1. OutTable(d)
    BY <1>10 DEF Sane
  <2>. QED
    BY <1>15, <2>1, SameTables
<1>18. InTable(k)
  <2>1. left \subseteq taken.incoming
    OBVIOUS
  <2>. HIDE DEF left
  <2>. QED
    BY <1>2, <1>5, <1>16, <2>1 DEF InTable
<1>19. Live(k)
  BY <1>2, <1>6, <1>14, <1>16 DEF Live, LiveRequest
<1>20. Sane(k, M)
  BY <1>6, <1>14, <1>17, <1>18, <1>19 DEF Sane
<1>21. Unpublished(e, x, remote) = k
  BY Zenon DEF Unpublished, a, b, c, d, f, g, h, k, taken, pd, md, ns, ls, left, gone, hs, qs, ds, K, QueuedRemote
<1>. QED
  BY <1>3, <1>15, <1>16, <1>20, <1>21 DEF pd, ls, qs, Forgets

-----------------------------------------------------------------------------
(* The invariant.                                                          *)

\* What a message may be that left the end of generation g whose handlers
\* answered the requests a: the publication of a sequenced event is not ahead of
\* its life, and a response is the answer of a handler.
Good(g, a) ==
    {m \in Msg : /\ m.kind = "sequenced" => m.publication <= m.life
                 /\ m.kind = "response" => <<g, m.request>> \in a}

\* What may be under way from end f.
From(f) == Good(peers[f].generation, trace[f].answered)

\* The publication identity counts lives of the remote in this connection, all of
\* them unless the remote was unregistered between two, and the latest sequence is
\* not behind the last event delivered in this life.
Current(x, t) ==
    /\ x.up => \A r \in Remotes : x.publication[r] <= t.life[r]
    /\ \A r \in Remotes : t.last[r].of <= t.life[r]
    /\ x.up => \A r \in x.published :
                  t.last[r].of = t.life[r] => t.last[r].sequence <= x.latestSequence[r]

\* The publication identities number the lives.
Numbers(x, t) == x.up => x.publication = t.life

\* One end and its history.
EndOK(x, t) ==
    /\ t \in Trace /\ Current(x, t)
    /\ Sane(x, Good(x.generation, t.answered))

\* What a manager's queue holds.
Entry == [end : Ends, message : Msg]

EntriesOf(m) == {q \in Entry : ManagerOf(q.end) = m /\ q.message \in From(Other(q.end))}

\* The places of end e's messages in a queue.
Places(s, e) == {n \in DOMAIN s : s[n].end = e}

\* Those of them among the places K.
PlacesIn(s, e, K) == {n \in K : s[n].end = e}

EndsOK ==
    /\ peers \in [Ends -> Peer] /\ trace \in [Ends -> Trace]
    /\ \A e \in Ends : EndOK(peers[e], trace[e])
    /\ \A e \in Ends : e[2] = "server" => Numbers(peers[e], trace[e])
    /\ \A e \in Ends : peers[Other(e)].generation = peers[e].generation

LinksOK ==
    /\ wire \in [Ends -> Seq(Msg)] /\ datagrams \in [Ends -> SUBSET Msg]
    /\ \A e \in Ends : wire[e] \in Seq(From(e)) /\ datagrams[e] \subseteq From(e)

QueuesOK ==
    /\ dispatch \in [Managers -> Seq(Entry)]
    /\ \A m \in Managers : dispatch[m] \in Seq(EntriesOf(m))
    /\ \A e \in Ends :
           /\ peers[e].queued = Cardinality(Places(dispatch[ManagerOf(e)], e))
           /\ peers[e].queued <= MaximumMessagesPerTick
           /\ ~peers[e].up => peers[e].queued = 0

StateOK == EndsOK /\ LinksOK /\ QueuesOK /\ AnswersMatch

-----------------------------------------------------------------------------
(* What one end may do.                                                    *)

\* As history t of end x becomes u, remote r gets an event for the life that the
\* end is in, newer than the last one of that life and sent in no earlier one if
\* the publication numbers the life, or none.
Fresh(x, t, u, r) ==
    LET before == t.last[r]
        after == u.last[r]
    IN  after # before /\ after.of # 0 =>
            /\ x.up /\ after.of = t.life[r]
            /\ x.publication[r] = after.of => after.life >= after.of
            /\ before.of = after.of => after.sequence > before.sequence

\* End x with history t becomes y with history u, when the handlers of the other
\* end answered the requests a.
Advances(x, t, y, u, a) ==
    /\ EndOK(y, u)
    /\ y.generation = x.generation
    /\ t.answered \subseteq u.answered
    /\ \A q \in 1 .. MaxRequests :
           u.outcome[q] = "success" => t.outcome[q] = "success" \/ <<x.generation, q>> \in a
    /\ \A r \in Remotes : Fresh(x, t, u, r)

\* The same, and the publications go on to number the lives.
Moves(x, t, y, u, a) ==
    Advances(x, t, y, u, a) /\ (Numbers(x, t) => Numbers(y, u))

\* Every end has another one and a manager.
LEMMA OtherEnd ==
    ASSUME NEW e \in Ends
    PROVE  Other(e) \in Ends /\ Other(Other(e)) = e /\ ManagerOf(e) \in Managers
BY DEF Ends, Other, ManagerOf, Managers

\* An end without entries is sane, whatever messages there may be.
LEMMA NewPeerSane ==
    ASSUME NEW up \in BOOLEAN, NEW g \in Nat, NEW M
    PROVE  /\ Sane(NewPeer(up, g), M)
           /\ NewPeer(up, g).up = up /\ NewPeer(up, g).generation = g /\ NewPeer(up, g).queued = 0
           /\ NewPeer(up, g).publication = [r \in Remotes |-> 0] /\ NewPeer(up, g).published = {}
<1>. DEFINE x == NewPeer(up, g)
<1>1. x \in Peer
  <2>1. <<>> \in Seq(Msg)
    OBVIOUS
  <2>. QED
    BY <2>1 DEF NewPeer, Peer
<1>2. /\ x.pending = {} /\ x.incoming = {} /\ x.handlers = 0 /\ x.outgoing = 0 /\ x.deferred = <<>>
      /\ x.up = up /\ x.generation = g /\ x.queued = 0
      /\ x.publication = [r \in Remotes |-> 0] /\ x.published = {}
  BY DEF NewPeer
<1>. HIDE DEF x
<1>3. IsFiniteSet({}) /\ Cardinality({}) = 0 /\ 0 <= MaximumInFlightRemoteRequests
  <2>1. IsFiniteSet({})
    BY FS_EmptySet
  <2>2. Cardinality({}) = 0
    BY <2>1, FS_EmptySet
  <2>. QED
    BY <2>1, <2>2, RemoteBounds
<1>4. OutTable(x) /\ InTable(x)
  BY <1>2, <1>3 DEF OutTable, InTable
<1>5. Live(x)
  BY <1>2 DEF Live
<1>6. Sane(x, M)
  BY <1>1, <1>2, <1>4, <1>5 DEF Sane
<1>. QED
  BY <1>2, <1>6 DEF x

\* A failed request changes nothing else of the history.
LEMMA EndedTrace ==
    ASSUME NEW t \in Trace, NEW x, NEW y
    PROVE  /\ Ended(t, x, y) \in Trace
           /\ Ended(t, x, y).life = t.life /\ Ended(t, x, y).last = t.last
           /\ Ended(t, x, y).answered = t.answered
           /\ \A q \in 1 .. MaxRequests : Ended(t, x, y).outcome[q] = "success" => t.outcome[q] = "success"
<1>. DEFINE o == [q \in DOMAIN t.outcome |->
                     IF q \in PendingIds(x) \ PendingIds(y) THEN "failed" ELSE t.outcome[q]]
<1>1. o \in [1 .. MaxRequests -> {"none", "pending", "failed", "success"}]
  BY DEF Trace
<1>2. \A q \in 1 .. MaxRequests : o[q] = "success" => t.outcome[q] = "success"
  BY DEF Trace
<1>3. Ended(t, x, y) = [t EXCEPT !.outcome = o]
  BY DEF Ended
<1>. HIDE DEF o
<1>. QED
  BY <1>1, <1>2, <1>3 DEF Trace

\* No publication begins, and no sequenced event is delivered.
LEMMA CalmAdvances ==
    ASSUME NEW x, NEW t, EndOK(x, t), NEW y, NEW u \in Trace, NEW a,
           Sane(y, Good(x.generation, u.answered)), y.generation = x.generation,
           y.up => /\ x.up /\ y.published \subseteq x.published
                   /\ \A r \in Remotes : y.publication[r] <= x.publication[r]
                   /\ \A r \in y.published : y.latestSequence[r] = x.latestSequence[r],
           u.life = t.life, u.last = t.last, t.answered \subseteq u.answered,
           \A q \in 1 .. MaxRequests :
               u.outcome[q] = "success" => t.outcome[q] = "success" \/ <<x.generation, q>> \in a
    PROVE  Advances(x, t, y, u, a)
<1>1. Current(y, u)
  <2>1. Current(x, t)
    BY DEF EndOK
  <2>2. \A r \in Remotes : x.publication[r] \in Nat /\ y.publication[r] \in Nat /\ t.life[r] \in Nat
    BY DEF EndOK, Sane, Peer, Trace
  <2>3. ASSUME y.up, NEW r \in Remotes
        PROVE  y.publication[r] <= u.life[r]
    BY <2>1, <2>2, <2>3 DEF Current
  <2>. QED
    BY <2>1, <2>3 DEF Current
<1>2. EndOK(y, u)
  BY <1>1 DEF EndOK
<1>3. \A r \in Remotes : Fresh(x, t, u, r)
  BY DEF Fresh
<1>. QED
  BY <1>2, <1>3 DEF Advances

\* The same, when the publications stay.
LEMMA CalmMoves ==
    ASSUME NEW x, NEW t, EndOK(x, t), NEW y, NEW u \in Trace, NEW a,
           Sane(y, Good(x.generation, u.answered)), y.generation = x.generation,
           y.up => /\ x.up /\ y.publication = x.publication /\ y.published \subseteq x.published
                   /\ \A r \in y.published : y.latestSequence[r] = x.latestSequence[r],
           u.life = t.life, u.last = t.last, t.answered \subseteq u.answered,
           \A q \in 1 .. MaxRequests :
               u.outcome[q] = "success" => t.outcome[q] = "success" \/ <<x.generation, q>> \in a
    PROVE  Moves(x, t, y, u, a)
<1>1. \A r \in Remotes : x.publication[r] \in Nat /\ x.publication[r] <= x.publication[r]
  BY DEF EndOK, Sane, Peer
<1>2. Advances(x, t, y, u, a)
  BY <1>1, CalmAdvances
<1>3. Numbers(x, t) => Numbers(y, u)
  BY DEF Numbers
<1>. QED
  BY <1>2, <1>3 DEF Moves

\* What an end keeps when only the fields of its tables change.
Calm == {"terminal", "queued", "nextSequence", "materialized", "pending", "outgoing", "incoming",
         "handlers", "deferred", "nextRequest", "latestRequest"}

\* The same, when the end's identity and publications stay.
LEMMA QuietMoves ==
    ASSUME NEW x, NEW t, EndOK(x, t), NEW y, NEW F \in SUBSET Calm, Same(x, y, F), NEW u \in Trace, NEW a,
           Sane(y, Good(x.generation, u.answered)),
           u.life = t.life, u.last = t.last, t.answered \subseteq u.answered,
           \A q \in 1 .. MaxRequests :
               u.outcome[q] = "success" => t.outcome[q] = "success" \/ <<x.generation, q>> \in a
    PROVE  Moves(x, t, y, u, a)
<1>1. /\ y.up = x.up /\ y.generation = x.generation /\ y.published = x.published
      /\ y.publication = x.publication /\ y.latestSequence = x.latestSequence
  BY DEF Same, Fields, Calm
<1>. QED
  BY <1>1, CalmMoves

\* The same, when the end may be removed besides.
LEMMA DrainedMoves ==
    ASSUME NEW x, NEW t, EndOK(x, t), NEW y, NEW F \in SUBSET Calm, Same(x, y, F), NEW u \in Trace, NEW a,
           Sane(y, Good(x.generation, u.answered)),
           u.life = t.life, u.last = t.last, t.answered \subseteq u.answered,
           \A q \in 1 .. MaxRequests :
               u.outcome[q] = "success" => t.outcome[q] = "success" \/ <<x.generation, q>> \in a,
           NEW z, z = Drained(y) \/ z = RemovePeerState(y)
    PROVE  /\ Moves(x, t, z, u, a)
           /\ (~z.up /\ z.queued = 0) \/ z = y
<1>1. CASE z = y
  BY <1>1, QuietMoves
<1>2. CASE z = RemovePeerState(y)
  <2>1. y \in Peer /\ y.generation = x.generation
    BY DEF Sane, Same, Fields, Calm
  <2>2. y.generation \in Nat
    BY <2>1 DEF Peer
  <2>3. z = NewPeer(FALSE, y.generation)
    BY <1>2 DEF RemovePeerState
  <2>4. ~z.up /\ z.queued = 0 /\ z.generation = x.generation /\ Sane(z, Good(x.generation, u.answered))
    BY <2>1, <2>2, <2>3, NewPeerSane
  <2>5. Moves(x, t, z, u, a)
    BY <2>4, CalmMoves
  <2>. QED
    BY <2>4, <2>5
<1>. QED
  BY <1>1, <1>2 DEF Drained

-----------------------------------------------------------------------------
(* From one end to all.                                                    *)

\* What was under way may still be.
Grown == \A f \in Ends : From(f) \subseteq From(f)'

FreshStep == \A f \in Ends : \A r \in Remotes : Fresh(peers[f], trace[f], trace'[f], r)

\* An end that does nothing.
LEMMA StillMoves ==
    ASSUME NEW x, NEW t, EndOK(x, t), NEW a
    PROVE  Moves(x, t, x, t, a)
BY DEF Moves, Advances, Fresh

\* Every end advances, and the publications of a server's go on to number the lives.
LEMMA AllMove ==
    ASSUME EndsOK, AnswersMatch,
           peers' = [e \in Ends |-> peers'[e]], trace' = [e \in Ends |-> trace'[e]],
           \A e \in Ends : Advances(peers[e], trace[e], peers'[e], trace'[e], trace[Other(e)].answered),
           \A e \in Ends : e[2] = "server" =>
               (Numbers(peers[e], trace[e]) => Numbers(peers'[e], trace'[e]))
    PROVE  EndsOK' /\ AnswersMatch' /\ Grown /\ FreshStep
<1>1. \A e \in Ends : EndOK(peers'[e], trace'[e]) /\ peers'[e].generation = peers[e].generation
  BY DEF Advances
<1>2. \A e \in Ends : peers'[e] \in Peer /\ trace'[e] \in Trace
  BY <1>1 DEF EndOK, Sane
<1>3. peers' \in [Ends -> Peer] /\ trace' \in [Ends -> Trace]
  BY <1>2
<1>4. EndsOK'
  BY <1>1, <1>3, OtherEnd DEF EndsOK
<1>5. \A e \in Ends : trace[e].answered \subseteq trace'[e].answered
  BY DEF Advances
<1>6. Grown
  BY <1>1, <1>5 DEF Grown, From, Good
<1>7. AnswersMatch'
  <2>. SUFFICES ASSUME NEW e \in Ends, NEW q \in 1 .. MaxRequests, trace'[e].outcome[q] = "success"
                PROVE  <<peers'[e].generation, q>> \in trace'[Other(e)].answered
    BY Zenon DEF AnswersMatch
  <2>1. trace[e].outcome[q] = "success" \/ <<peers[e].generation, q>> \in trace[Other(e)].answered
    BY DEF Advances
  <2>2. <<peers[e].generation, q>> \in trace[Other(e)].answered
    BY <2>1 DEF AnswersMatch
  <2>. QED
    BY <1>1, <1>5, <2>2, OtherEnd
<1>8. FreshStep
  BY DEF FreshStep, Advances
<1>. QED
  BY <1>4, <1>6, <1>7, <1>8

\* One end advances.
LEMMA OneAdvances ==
    ASSUME EndsOK, AnswersMatch, NEW e \in Ends, NEW y, NEW u,
           peers' = [peers EXCEPT ![e] = y], trace' = [trace EXCEPT ![e] = u],
           Advances(peers[e], trace[e], y, u, trace[Other(e)].answered),
           e[2] = "server" => (Numbers(peers[e], trace[e]) => Numbers(y, u))
    PROVE  /\ EndsOK' /\ AnswersMatch' /\ Grown /\ FreshStep
           /\ From(e)' = Good(y.generation, u.answered) /\ peers'[e] = y
           /\ \A f \in Ends : f # e => peers'[f] = peers[f]
<1>1. peers = [f \in Ends |-> peers[f]] /\ trace = [f \in Ends |-> trace[f]]
  BY DEF EndsOK
<1>2. /\ peers' = [f \in Ends |-> peers'[f]] /\ trace' = [f \in Ends |-> trace'[f]]
      /\ peers'[e] = y /\ trace'[e] = u
      /\ \A f \in Ends : f # e => peers'[f] = peers[f] /\ trace'[f] = trace[f]
  BY <1>1
<1>3. ASSUME NEW f \in Ends
      PROVE  /\ Advances(peers[f], trace[f], peers'[f], trace'[f], trace[Other(f)].answered)
             /\ f[2] = "server" => (Numbers(peers[f], trace[f]) => Numbers(peers'[f], trace'[f]))
  <2>1. CASE f = e
    BY <1>2, <2>1
  <2>2. CASE f # e
    <3>1. Moves(peers[f], trace[f], peers[f], trace[f], trace[Other(f)].answered)
      BY StillMoves DEF EndsOK
    <3>. QED
      BY <1>2, <2>2, <3>1 DEF Moves
  <2>. QED
    BY <2>1, <2>2
<1>4. EndsOK' /\ AnswersMatch' /\ Grown /\ FreshStep
  BY <1>2, <1>3, AllMove
<1>. QED
  BY <1>2, <1>4 DEF From

\* One end moves.
LEMMA OneMoves ==
    ASSUME EndsOK, AnswersMatch, NEW e \in Ends, NEW y, NEW u,
           peers' = [peers EXCEPT ![e] = y], trace' = [trace EXCEPT ![e] = u],
           Moves(peers[e], trace[e], y, u, trace[Other(e)].answered)
    PROVE  /\ EndsOK' /\ AnswersMatch' /\ Grown /\ FreshStep
           /\ From(e)' = Good(y.generation, u.answered) /\ peers'[e] = y
           /\ \A f \in Ends : f # e => peers'[f] = peers[f]
BY OneAdvances DEF Moves

\* The same, when the history does not change.
LEMMA OneMovesUnseen ==
    ASSUME EndsOK, AnswersMatch, NEW e \in Ends, NEW y,
           peers' = [peers EXCEPT ![e] = y], trace' = trace,
           Moves(peers[e], trace[e], y, trace[e], trace[Other(e)].answered)
    PROVE  /\ EndsOK' /\ AnswersMatch' /\ Grown /\ FreshStep
           /\ From(e)' = Good(y.generation, trace[e].answered) /\ peers'[e] = y
           /\ \A f \in Ends : f # e => peers'[f] = peers[f]
<1>1. trace' = [trace EXCEPT ![e] = trace[e]]
  BY DEF EndsOK
<1>. QED
  BY <1>1, OneMoves

-----------------------------------------------------------------------------
(* Links.                                                                  *)

\* Nothing is sent or received.
LEMMA LinksKept ==
    ASSUME LinksOK, Grown, wire' = wire, datagrams' = datagrams
    PROVE  LinksOK'
<1>1. ASSUME NEW e \in Ends
      PROVE  wire[e] \in Seq(From(e)') /\ datagrams[e] \subseteq From(e)'
  <2>1. From(e) \subseteq From(e)' /\ wire[e] \in Seq(From(e)) /\ datagrams[e] \subseteq From(e)
    BY DEF LinksOK, Grown
  <2>. QED
    BY <2>1
<1>. QED
  BY <1>1 DEF LinksOK

\* One link changes.
LEMMA OneLink ==
    ASSUME LinksOK, Grown, NEW e \in Ends, NEW w \in Seq(From(e)'), NEW d \in SUBSET From(e)',
           wire' = [wire EXCEPT ![e] = w], datagrams' = [datagrams EXCEPT ![e] = d]
    PROVE  LinksOK'
<1>1. From(e)' \subseteq Msg
  BY DEF From, Good
<1>2. wire' \in [Ends -> Seq(Msg)] /\ datagrams' \in [Ends -> SUBSET Msg]
  <2>1. w \in Seq(Msg) /\ d \in SUBSET Msg
    BY <1>1
  <2>. QED
    BY <2>1 DEF LinksOK
<1>3. ASSUME NEW f \in Ends
      PROVE  wire'[f] \in Seq(From(f)') /\ datagrams'[f] \subseteq From(f)'
  <2>1. From(f) \subseteq From(f)' /\ wire[f] \in Seq(From(f)) /\ datagrams[f] \subseteq From(f)
    BY DEF LinksOK, Grown
  <2>2. wire[f] \in Seq(From(f)')
    BY <2>1
  <2>3. /\ wire'[f] = IF f = e THEN w ELSE wire[f]
        /\ datagrams'[f] = IF f = e THEN d ELSE datagrams[f]
    BY DEF LinksOK
  <2>. QED
    BY <2>1, <2>2, <2>3
<1>. QED
  BY <1>2, <1>3 DEF LinksOK

\* A reliable message is appended or the first one leaves, or all of them.
LEMMA OneWire ==
    ASSUME LinksOK, Grown, NEW e \in Ends, NEW w \in Seq(From(e)'),
           wire' = [wire EXCEPT ![e] = w], datagrams' = datagrams
    PROVE  LinksOK'
<1>1. datagrams' = [datagrams EXCEPT ![e] = datagrams[e]]
  BY DEF LinksOK
<1>2. datagrams[e] \in SUBSET From(e)'
  BY DEF LinksOK, Grown
<1>. QED
  BY <1>1, <1>2, OneLink

\* The scheduler takes messages.
LEMMA Transmitted ==
    ASSUME LinksOK, Grown, NEW e \in Ends, NEW x, NEW messages, NEW L \in Nat, DOMAIN messages = 1 .. L,
           \A n \in 1 .. L : Stamped(x, messages[n]) \in From(e)',
           Transmit(e, x, messages)
    PROVE  LinksOK'
<1>. DEFINE stamped == [n \in DOMAIN messages |-> Stamped(x, messages[n])]
            reliable == {n \in DOMAIN stamped : IsReliable(stamped[n])}
            more == Subsequence(stamped, reliable)
            w == wire[e] \o more
            d == datagrams[e] \cup {stamped[n] : n \in DOMAIN stamped \ reliable}
<1>1. stamped \in Seq(From(e)') /\ \A n \in DOMAIN stamped : stamped[n] \in From(e)'
  <2>1. stamped \in [1 .. L -> From(e)']
    OBVIOUS
  <2>. QED
    BY <2>1, SeqDef
<1>2. more \in Seq(From(e)')
  <2>1. reliable \in SUBSET DOMAIN stamped
    OBVIOUS
  <2>. HIDE DEF stamped, reliable
  <2>. QED
    BY <1>1, <2>1, SubsequenceElements
<1>3. wire[e] \in Seq(From(e)') /\ datagrams[e] \subseteq From(e)'
  <2>1. From(e) \subseteq From(e)' /\ wire[e] \in Seq(From(e)) /\ datagrams[e] \subseteq From(e)
    BY DEF LinksOK, Grown
  <2>. QED
    BY <2>1
<1>4. w \in Seq(From(e)')
  <2>. HIDE DEF more
  <2>. QED
    BY <1>2, <1>3
<1>5. d \in SUBSET From(e)'
  <2>. HIDE DEF reliable
  <2>1. {stamped[n] : n \in DOMAIN stamped \ reliable} \subseteq From(e)'
    BY <1>1
  <2>. QED
    BY <1>3, <2>1
<1>6. wire' = [wire EXCEPT ![e] = w] /\ datagrams' = [datagrams EXCEPT ![e] = d]
  BY Zenon DEF Transmit
<1>. HIDE DEF w, d
<1>. QED
  BY <1>4, <1>5, <1>6, OneLink

\* At most one message is sent.
LEMMA OneSent ==
    ASSUME LinksOK, Grown, NEW e \in Ends, NEW x, NEW message, NEW deferrable, NEW outcome,
           outcome = "sent" => Stamped(x, message) \in From(e)',
           SendOne(e, x, message, deferrable, outcome)
    PROVE  LinksOK'
<1>1. Transmit(e, x, IF outcome = "sent" THEN <<message>> ELSE <<>>)
  BY DEF SendOne
<1>2. CASE outcome = "sent"
  <2>1. Transmit(e, x, <<message>>)
    BY <1>1, <1>2
  <2>2. DOMAIN <<message>> = 1 .. 1 /\ \A n \in 1 .. 1 : <<message>>[n] = message
    OBVIOUS
  <2>. QED
    BY <1>2, <2>1, <2>2, Transmitted
<1>3. CASE outcome # "sent"
  <2>1. Transmit(e, x, <<>>)
    BY <1>1, <1>3
  <2>2. DOMAIN <<>> = 1 .. 0
    OBVIOUS
  <2>. QED
    BY <2>1, <2>2, Transmitted
<1>. QED
  BY <1>2, <1>3

-----------------------------------------------------------------------------
(* Queues.                                                                 *)

\* The places of an end are finitely many.
LEMMA PlacesFinite ==
    ASSUME NEW S, NEW s \in Seq(S), NEW e
    PROVE  IsFiniteSet(Places(s, e)) /\ Cardinality(Places(s, e)) \in Nat
<1>1. Len(s) \in Nat /\ Places(s, e) \in SUBSET (1 .. Len(s))
  BY DEF Places
<1>. QED
  BY <1>1, RankBijection

\* A message joins the queue.
LEMMA PlacesAppend ==
    ASSUME NEW S, NEW s \in Seq(S), NEW q \in S, NEW e
    PROVE  Cardinality(Places(Append(s, q), e)) =
               IF q.end = e THEN Cardinality(Places(s, e)) + 1 ELSE Cardinality(Places(s, e))
<1>. DEFINE r == Append(s, q)
<1>1. /\ Len(s) \in Nat /\ DOMAIN r = 1 .. Len(s) + 1 /\ DOMAIN s = 1 .. Len(s)
      /\ r[Len(s) + 1] = q /\ \A n \in 1 .. Len(s) : r[n] = s[n]
  OBVIOUS
<1>. HIDE DEF r
<1>2. Places(r, e) = IF q.end = e THEN Places(s, e) \cup {Len(s) + 1} ELSE Places(s, e)
  <2>1. \A n : n \in 1 .. Len(s) + 1 <=> n \in 1 .. Len(s) \/ n = Len(s) + 1
    BY <1>1
  <2>2. \A n : n \in Places(r, e) <=> n \in Places(s, e) \/ (n = Len(s) + 1 /\ q.end = e)
    BY <1>1, <2>1 DEF Places
  <2>. QED
    BY <2>2
<1>3. Len(s) + 1 \notin Places(s, e)
  BY <1>1 DEF Places
<1>4. IsFiniteSet(Places(s, e))
  BY PlacesFinite
<1>5. Cardinality(Places(s, e) \cup {Len(s) + 1}) = Cardinality(Places(s, e)) + 1
  BY <1>3, <1>4, FS_AddElement
<1>. QED
  BY <1>2, <1>5 DEF r

\* The first message leaves it.
LEMMA PlacesTail ==
    ASSUME NEW S, NEW s \in Seq(S), s # <<>>, NEW e
    PROVE  Cardinality(Places(Tail(s), e)) =
               IF Head(s).end = e THEN Cardinality(Places(s, e)) - 1 ELSE Cardinality(Places(s, e))
<1>. DEFINE r == Tail(s)  A == Places(s, e) \ {1}  B == Places(r, e)  f == [n \in A |-> n - 1]
<1>1. /\ Len(s) \in Nat /\ Len(s) >= 1 /\ DOMAIN r = 1 .. Len(s) - 1 /\ DOMAIN s = 1 .. Len(s)
      /\ Head(s) = s[1] /\ \A n \in 1 .. Len(s) - 1 : r[n] = s[n + 1]
  OBVIOUS
<1>. HIDE DEF r
<1>2. IsFiniteSet(Places(s, e)) /\ Cardinality(Places(s, e)) \in Nat
  BY PlacesFinite
<1>3. \A n \in A : n \in 2 .. Len(s) /\ s[n].end = e
  BY <1>1 DEF Places
<1>4. \A n \in A : n - 1 \in B
  <2>. SUFFICES ASSUME NEW n \in A PROVE n - 1 \in B
    OBVIOUS
  <2>1. n - 1 \in 1 .. Len(s) - 1 /\ (n - 1) + 1 = n
    BY <1>1, <1>3
  <2>2. r[n - 1] = s[n]
    BY <1>1, <2>1
  <2>. QED
    BY <1>1, <1>3, <2>1, <2>2 DEF Places
<1>5. \A n \in B : n \in Int /\ n + 1 \in A /\ (n + 1) - 1 = n
  <2>. SUFFICES ASSUME NEW n \in B PROVE n \in Int /\ n + 1 \in A /\ (n + 1) - 1 = n
    OBVIOUS
  <2>1. n \in 1 .. Len(s) - 1 /\ r[n].end = e
    BY <1>1 DEF Places
  <2>2. n + 1 \in 1 .. Len(s) /\ n + 1 # 1 /\ s[n + 1].end = e
    BY <1>1, <2>1
  <2>. QED
    BY <1>1, <2>1, <2>2 DEF Places
<1>6. \A n, k \in A : f[n] = f[k] => n = k
  <2>. SUFFICES ASSUME NEW n \in A, NEW k \in A, n - 1 = k - 1 PROVE n = k
    OBVIOUS
  <2>1. n \in Int /\ k \in Int
    BY <1>1, <1>3
  <2>. QED
    BY <2>1
<1>. HIDE DEF A, B
<1>7. f \in [A -> B]
  BY <1>4
<1>8. \A k \in B : \E n \in A : f[n] = k
  BY <1>5
<1>. HIDE DEF f
<1>9. f \in Bijection(A, B)
  BY <1>6, <1>7, <1>8 DEF Bijection, Injection, Surjection, IsInjective
<1>10. IsFiniteSet(A)
  BY <1>2, FS_Subset DEF A
<1>11. Cardinality(B) = Cardinality(A)
  BY <1>9, <1>10, FS_Bijection DEF ExistsBijection
<1>12. CASE Head(s).end = e
  <2>1. 1 \in Places(s, e)
    BY <1>1, <1>12 DEF Places
  <2>2. Cardinality(Places(s, e) \ {1}) = Cardinality(Places(s, e)) - 1
    BY <1>2, <2>1, FS_RemoveElement
  <2>. QED
    BY <1>11, <1>12, <2>2 DEF A, B, r
<1>13. CASE Head(s).end # e
  <2>1. 1 \notin Places(s, e)
    BY <1>1, <1>13 DEF Places
  <2>2. A = Places(s, e)
    BY <2>1 DEF A
  <2>. QED
    BY <1>11, <1>13, <2>2 DEF B, r
<1>. QED
  BY <1>12, <1>13

\* Some messages leave it.
LEMMA PlacesSubsequence ==
    ASSUME NEW S, NEW s \in Seq(S), NEW K \in SUBSET DOMAIN s
    PROVE  /\ Subsequence(s, K) \in Seq(S)
           /\ \A e : Cardinality(Places(Subsequence(s, K), e)) = Cardinality(PlacesIn(s, e, K))
<1>. SUFFICES ASSUME NEW e
              PROVE  /\ Subsequence(s, K) \in Seq(S)
                     /\ Cardinality(Places(Subsequence(s, K), e)) = Cardinality(PlacesIn(s, e, K))
  OBVIOUS
<1>. DEFINE r == Subsequence(s, K)
            A == PlacesIn(s, e, K)  B == Places(r, e)
            f == [k \in A |-> Rank(K)[k]]
<1>1. Len(s) \in Nat /\ K \in SUBSET (1 .. Len(s))
  OBVIOUS
<1>2. /\ IsFiniteSet(K)
      /\ r \in Seq(S) /\ Len(r) = Cardinality(K)
      /\ \A k \in K : Rank(K)[k] \in DOMAIN r /\ r[Rank(K)[k]] = s[k]
  BY SubsequenceElements
<1>3. /\ \A j, k \in K : Rank(K)[j] = Rank(K)[k] => j = k
      /\ \A n \in 1 .. Cardinality(K) : \E k \in K : Rank(K)[k] = n
  BY <1>1, RankBijection
<1>4. DOMAIN r = 1 .. Cardinality(K)
  BY <1>2
<1>. HIDE DEF r
<1>5. f \in [A -> B] /\ \A j, k \in A : f[j] = f[k] => j = k
  BY <1>2, <1>3 DEF Places, PlacesIn
<1>6. \A n \in B : \E k \in A : f[k] = n
  <2>. SUFFICES ASSUME NEW n \in B PROVE \E k \in A : f[k] = n
    OBVIOUS
  <2>1. n \in DOMAIN r /\ r[n].end = e
    BY DEF Places
  <2>2. PICK k \in K : Rank(K)[k] = n
    BY <1>3, <1>4, <2>1
  <2>3. r[n] = s[k]
    BY <1>2, <2>2
  <2>4. k \in A
    BY <2>1, <2>3 DEF PlacesIn
  <2>. QED
    BY <2>2, <2>4
<1>7. f \in Bijection(A, B)
  BY <1>5, <1>6 DEF Bijection, Injection, Surjection, IsInjective
<1>8. IsFiniteSet(A)
  BY <1>2, FS_Subset DEF PlacesIn
<1>. HIDE DEF A, B, f
<1>9. Cardinality(B) = Cardinality(A)
  BY <1>7, <1>8, FS_Bijection DEF ExistsBijection
<1>. QED
  BY <1>2, <1>9 DEF A, B, r

\* What an end's entry says of its manager's queue.
Accounted(x, s, e) ==
    /\ x.queued = Cardinality(Places(s, e)) /\ x.queued <= MaximumMessagesPerTick
    /\ ~x.up => x.queued = 0

\* A manager's queue changes.
LEMMA QueueStep ==
    ASSUME QueuesOK, Grown, NEW m \in Managers, NEW s \in Seq(EntriesOf(m)),
           dispatch' = [dispatch EXCEPT ![m] = s],
           \A f \in Ends : ManagerOf(f) = m => Accounted(peers'[f], s, f),
           \A f \in Ends : ManagerOf(f) # m => peers'[f] = peers[f]
    PROVE  QueuesOK'
<1>1. \A k \in Managers : EntriesOf(k) \subseteq EntriesOf(k)' /\ EntriesOf(k) \subseteq Entry
  BY OtherEnd DEF EntriesOf, Grown, Entry
<1>2. s \in Seq(Entry)
  BY <1>1
<1>3. dispatch' \in [Managers -> Seq(Entry)] /\ dispatch'[m] = s
      /\ \A k \in Managers : k # m => dispatch'[k] = dispatch[k]
  BY <1>2 DEF QueuesOK
<1>4. ASSUME NEW k \in Managers
      PROVE  dispatch'[k] \in Seq(EntriesOf(k)')
  <2>1. dispatch'[k] \in Seq(EntriesOf(k))
    BY <1>3 DEF QueuesOK
  <2>. QED
    BY <1>1, <2>1
<1>5. ASSUME NEW f \in Ends
      PROVE  Accounted(peers'[f], dispatch'[ManagerOf(f)], f)
  <2>1. CASE ManagerOf(f) = m
    BY <1>3, <2>1
  <2>2. CASE ManagerOf(f) # m
    BY <1>3, <2>2, OtherEnd DEF QueuesOK, Accounted
  <2>. QED
    BY <2>1, <2>2
<1>. QED
  BY <1>3, <1>4, <1>5 DEF QueuesOK, Accounted

\* No queue changes.
LEMMA QueuesKept ==
    ASSUME QueuesOK, Grown, dispatch' = dispatch,
           \A f \in Ends : Accounted(peers'[f], dispatch[ManagerOf(f)], f)
    PROVE  QueuesOK'
<1>1. \A k \in Managers : EntriesOf(k) \subseteq EntriesOf(k)'
  BY OtherEnd DEF EntriesOf, Grown, Entry
<1>2. ASSUME NEW k \in Managers
      PROVE  dispatch'[k] \in Seq(EntriesOf(k)')
  <2>1. dispatch'[k] \in Seq(EntriesOf(k))
    BY DEF QueuesOK
  <2>. QED
    BY <1>1, <2>1
<1>. QED
  BY <1>2 DEF QueuesOK, Accounted

\* The same, when one end moves and its account stays.
LEMMA QueuesStill ==
    ASSUME QueuesOK, Grown, dispatch' = dispatch, NEW e \in Ends,
           peers'[e].up = peers[e].up, peers'[e].queued = peers[e].queued,
           \A f \in Ends : f # e => peers'[f] = peers[f]
    PROVE  QueuesOK'
<1>1. ASSUME NEW f \in Ends
      PROVE  Accounted(peers'[f], dispatch[ManagerOf(f)], f)
  <2>1. peers'[f].up = peers[f].up /\ peers'[f].queued = peers[f].queued
    OBVIOUS
  <2>. QED
    BY <2>1 DEF QueuesOK, Accounted
<1>. QED
  BY <1>1, QueuesKept

\* Messages of one end leave its manager's queue.
LEMMA QueueCut ==
    ASSUME QueuesOK, Grown, NEW e \in Ends, NEW K \in SUBSET DOMAIN dispatch[ManagerOf(e)],
           dispatch' = [dispatch EXCEPT ![ManagerOf(e)] = Subsequence(dispatch[ManagerOf(e)], K)],
           \A n \in DOMAIN dispatch[ManagerOf(e)] : dispatch[ManagerOf(e)][n].end # e => n \in K,
           peers'[e].queued = Cardinality(PlacesIn(dispatch[ManagerOf(e)], e, K)),
           peers'[e].queued <= MaximumMessagesPerTick, ~peers'[e].up => peers'[e].queued = 0,
           \A f \in Ends : f # e => peers'[f] = peers[f]
    PROVE  QueuesOK'
<1>. DEFINE m == ManagerOf(e)  q == dispatch[m]  s == Subsequence(q, K)
<1>1. m \in Managers /\ q \in Seq(EntriesOf(m)) /\ K \in SUBSET DOMAIN q
  BY OtherEnd DEF QueuesOK
<1>2. s \in Seq(EntriesOf(m)) /\ \A f : Cardinality(Places(s, f)) = Cardinality(PlacesIn(q, f, K))
  <2>1. s = Subsequence(q, K)
    OBVIOUS
  <2>. HIDE DEF q, m, s
  <2>2. s \in Seq(EntriesOf(m))
    BY <1>1, <2>1, PlacesSubsequence
  <2>3. \A f : Cardinality(Places(Subsequence(q, K), f)) = Cardinality(PlacesIn(q, f, K))
    BY <1>1, PlacesSubsequence
  <2>. QED
    BY <2>1, <2>2, <2>3
<1>3. dispatch' = [dispatch EXCEPT ![m] = s]
  OBVIOUS
<1>. HIDE DEF s
<1>4. ASSUME NEW f \in Ends, ManagerOf(f) = m
      PROVE  Accounted(peers'[f], s, f)
  <2>1. CASE f = e
    BY <1>2, <2>1 DEF Accounted
  <2>2. CASE f # e
    <3>1. PlacesIn(q, f, K) = Places(q, f)
      BY <2>2 DEF Places, PlacesIn
    <3>. QED
      BY <1>2, <1>4, <2>2, <3>1 DEF Accounted, QueuesOK
  <2>. QED
    BY <2>1, <2>2
<1>5. \A f \in Ends : ManagerOf(f) # m => peers'[f] = peers[f]
  OBVIOUS
<1>. HIDE DEF m
<1>. QED
  BY <1>1, <1>2, <1>3, <1>4, <1>5, QueueStep

\* Become, when nothing leaves the queue but with the end.
LEMMA BecameStill ==
    ASSUME QueuesOK, Grown, NEW e \in Ends, NEW y,
           dispatch' = [dispatch EXCEPT ![ManagerOf(e)] =
               Subsequence(@, {n \in DOMAIN @ : @[n].end # e \/ y.up})],
           y.up => peers[e].up /\ y.queued = peers[e].queued, ~y.up => y.queued = 0,
           peers'[e] = y, \A f \in Ends : f # e => peers'[f] = peers[f]
    PROVE  QueuesOK'
<1>. DEFINE q == dispatch[ManagerOf(e)]  K == {n \in DOMAIN q : q[n].end # e \/ y.up}
<1>1. K \in SUBSET DOMAIN q /\ \A n \in DOMAIN q : q[n].end # e => n \in K
  OBVIOUS
<1>2. dispatch' = [dispatch EXCEPT ![ManagerOf(e)] = Subsequence(q, K)]
  OBVIOUS
<1>3. y.queued = Cardinality(PlacesIn(q, e, K)) /\ y.queued <= MaximumMessagesPerTick
  <2>1. CASE y.up
    <3>1. PlacesIn(q, e, K) = Places(q, e)
      BY <2>1 DEF Places, PlacesIn
    <3>2. peers[e].queued = Cardinality(Places(q, e)) /\ peers[e].queued <= MaximumMessagesPerTick
      BY DEF QueuesOK
    <3>. QED
      BY <2>1, <3>1, <3>2
  <2>2. CASE ~y.up
    <3>1. PlacesIn(q, e, K) = {}
      BY <2>2 DEF PlacesIn
    <3>2. Cardinality({}) = 0
      BY FS_EmptySet
    <3>3. 0 <= MaximumMessagesPerTick
      BY RemoteBounds
    <3>. QED
      BY <2>2, <3>1, <3>2, <3>3
  <2>. QED
    BY <2>1, <2>2
<1>. HIDE DEF K
<1>. QED
  BY <1>1, <1>2, <1>3, QueueCut

\* Become, when a remote's messages leave the queue.
LEMMA BecameWithout ==
    ASSUME QueuesOK, Grown, NEW e \in Ends, NEW y, NEW remote,
           dispatch' = [dispatch EXCEPT ![ManagerOf(e)] =
               Subsequence(@, {n \in DOMAIN @ : @[n].end # e \/ (y.up /\ @[n].message.remote # remote)})],
           y.up => y.queued = peers[e].queued - Cardinality({n \in DOMAIN dispatch[ManagerOf(e)] :
                                  /\ dispatch[ManagerOf(e)][n].end = e
                                  /\ dispatch[ManagerOf(e)][n].message.remote = remote}),
           ~y.up => y.queued = 0,
           peers'[e] = y, \A f \in Ends : f # e => peers'[f] = peers[f]
    PROVE  QueuesOK'
<1>. DEFINE q == dispatch[ManagerOf(e)]
            K == {n \in DOMAIN q : q[n].end # e \/ (y.up /\ q[n].message.remote # remote)}
            gone == {n \in DOMAIN q : q[n].end = e /\ q[n].message.remote = remote}
            all == Places(q, e)
<1>1. K \in SUBSET DOMAIN q /\ \A n \in DOMAIN q : q[n].end # e => n \in K
  OBVIOUS
<1>2. dispatch' = [dispatch EXCEPT ![ManagerOf(e)] = Subsequence(q, K)]
  OBVIOUS
<1>3. y.queued = Cardinality(PlacesIn(q, e, K)) /\ y.queued <= MaximumMessagesPerTick
  <2>1. CASE y.up
    <3>1. PlacesIn(q, e, K) = all \ gone /\ all \cap gone = gone
      BY <2>1 DEF Places, PlacesIn
    <3>2. peers[e].queued = Cardinality(all) /\ peers[e].queued <= MaximumMessagesPerTick
      BY DEF QueuesOK
    <3>3. IsFiniteSet(all)
      <4>1. q \in Seq(Entry)
        BY OtherEnd DEF QueuesOK
      <4>. QED
        BY <4>1, PlacesFinite
    <3>4. y.queued = peers[e].queued - Cardinality(gone)
      BY <2>1
    <3>. HIDE DEF all, gone, K, q
    <3>5. Cardinality(all \ gone) = Cardinality(all) - Cardinality(all \cap gone)
      BY <3>3, FS_Difference
    <3>6. all \ gone \in SUBSET all /\ gone \in SUBSET all
      BY <3>1
    <3>7. Cardinality(gone) \in Nat /\ Cardinality(all) \in Nat
      BY <3>3, <3>6, FS_Subset, FS_CardinalityType
    <3>8. MaximumMessagesPerTick \in Nat
      BY RemoteBounds
    <3>9. y.queued = Cardinality(all \ gone)
      BY <3>1, <3>2, <3>4, <3>5
    <3>10. y.queued <= MaximumMessagesPerTick
      BY <3>2, <3>4, <3>7, <3>8
    <3>. QED
      BY <3>1, <3>9, <3>10
  <2>2. CASE ~y.up
    <3>1. PlacesIn(q, e, K) = {}
      BY <2>2 DEF PlacesIn
    <3>2. Cardinality({}) = 0
      BY FS_EmptySet
    <3>3. 0 <= MaximumMessagesPerTick
      BY RemoteBounds
    <3>. QED
      BY <2>2, <3>1, <3>2, <3>3
  <2>. QED
    BY <2>1, <2>2
<1>. HIDE DEF K
<1>. QED
  BY <1>1, <1>2, <1>3, QueueCut

\* The first entry of a queue.
LEMMA FirstEntry ==
    ASSUME QueuesOK, NEW m \in Managers, dispatch[m] # <<>>
    PROVE  /\ Head(dispatch[m]) \in EntriesOf(m) /\ Tail(dispatch[m]) \in Seq(EntriesOf(m))
           /\ Head(dispatch[m]).end \in Ends /\ ManagerOf(Head(dispatch[m]).end) = m
           /\ Head(dispatch[m]).message \in From(Other(Head(dispatch[m]).end))
<1>1. dispatch[m] \in Seq(EntriesOf(m))
  BY DEF QueuesOK
<1>2. Head(dispatch[m]) \in EntriesOf(m) /\ Tail(dispatch[m]) \in Seq(EntriesOf(m))
  BY <1>1
<1>. QED
  BY <1>2 DEF EntriesOf, Entry

\* HandleTransportEvent.
LEMMA Enqueued ==
    ASSUME EndsOK, QueuesOK, Grown, NEW e \in Ends, NEW message \in From(Other(e)),
           Enqueue(e, message)
    PROVE  QueuesOK'
<1>. DEFINE m == ManagerOf(e)  q == [end |-> e, message |-> message]  s == Append(dispatch[m], q)
<1>1. CASE peers[e].up /\ peers[e].queued < MaximumMessagesPerTick
  <2>1. /\ dispatch' = [dispatch EXCEPT ![m] = s]
        /\ peers' = [peers EXCEPT ![e].queued = peers[e].queued + 1]
    BY <1>1 DEF Enqueue
  <2>2. q \in EntriesOf(m)
    BY DEF EntriesOf, Entry, From, Good
  <2>3. m \in Managers /\ dispatch[m] \in Seq(EntriesOf(m)) /\ s \in Seq(EntriesOf(m))
    <3>1. m \in Managers /\ dispatch[m] \in Seq(EntriesOf(m))
      BY OtherEnd DEF QueuesOK
    <3>. HIDE DEF q
    <3>. QED
      BY <2>2, <3>1
  <2>4. peers'[e].up = peers[e].up /\ peers'[e].queued = peers[e].queued + 1
    BY <2>1 DEF EndsOK, Peer
  <2>5. \A f \in Ends : f # e => peers'[f] = peers[f]
    BY <2>1 DEF EndsOK
  <2>6. \A f : Cardinality(Places(s, f)) =
                   IF e = f THEN Cardinality(Places(dispatch[m], f)) + 1 ELSE Cardinality(Places(dispatch[m], f))
    <3>1. q.end = e
      OBVIOUS
    <3>. HIDE DEF q, m
    <3>. QED
      BY <2>2, <2>3, <3>1, PlacesAppend
  <2>7. MaximumMessagesPerTick \in Nat /\ peers[e].queued \in Int
    BY RemoteBounds DEF EndsOK, Peer
  <2>. HIDE DEF s
  <2>8. ASSUME NEW f \in Ends, ManagerOf(f) = m
        PROVE  Accounted(peers'[f], s, f)
    <3>1. CASE f = e
      <4>1. peers[e].queued = Cardinality(Places(dispatch[m], e))
        BY DEF QueuesOK
      <4>2. peers'[e].queued = Cardinality(Places(s, e))
        BY <2>4, <2>6, <4>1
      <4>3. peers'[e].queued <= MaximumMessagesPerTick
        BY <1>1, <2>4, <2>7
      <4>. QED
        BY <1>1, <2>4, <3>1, <4>2, <4>3 DEF Accounted
    <3>2. CASE f # e
      BY <2>5, <2>6, <2>8, <3>2 DEF Accounted, QueuesOK
    <3>. QED
      BY <3>1, <3>2
  <2>9. \A f \in Ends : ManagerOf(f) # m => peers'[f] = peers[f]
    BY <2>5
  <2>. HIDE DEF m
  <2>. QED
    BY <2>1, <2>3, <2>8, <2>9, QueueStep
<1>2. CASE ~(peers[e].up /\ peers[e].queued < MaximumMessagesPerTick)
  BY <1>2, QueuesStill DEF Enqueue
<1>. QED
  BY <1>1, <1>2

\* The first message is taken.
LEMMA TakenQueue ==
    ASSUME QueuesOK, Grown, NEW m \in Managers, dispatch[m] # <<>>, NEW e, e = Head(dispatch[m]).end,
           dispatch' = [dispatch EXCEPT ![m] = Tail(@)],
           peers[e].queued \in Int,
           peers'[e].up = peers[e].up, peers'[e].queued = peers[e].queued - 1,
           \A f \in Ends : f # e => peers'[f] = peers[f]
    PROVE  QueuesOK'
<1>. DEFINE s == Tail(dispatch[m])
<1>1. e \in Ends /\ ManagerOf(e) = m /\ s \in Seq(EntriesOf(m)) /\ dispatch[m] \in Seq(EntriesOf(m))
  BY FirstEntry DEF QueuesOK
<1>2. \A f : Cardinality(Places(s, f)) =
                 IF e = f THEN Cardinality(Places(dispatch[m], f)) - 1 ELSE Cardinality(Places(dispatch[m], f))
  BY <1>1, PlacesTail
<1>3. Cardinality(Places(s, e)) \in Nat /\ MaximumMessagesPerTick \in Nat
  BY <1>1, PlacesFinite, RemoteBounds
<1>4. dispatch' = [dispatch EXCEPT ![m] = s]
  OBVIOUS
<1>. HIDE DEF s
<1>5. ASSUME NEW f \in Ends, ManagerOf(f) = m
      PROVE  Accounted(peers'[f], s, f)
  <2>1. CASE f = e
    <3>1. peers[e].queued = Cardinality(Places(dispatch[m], e)) /\ peers[e].queued <= MaximumMessagesPerTick
      BY <1>1 DEF QueuesOK
    <3>2. Cardinality(Places(s, e)) = Cardinality(Places(dispatch[m], e)) - 1
      BY <1>2
    <3>3. peers'[e].queued = Cardinality(Places(s, e)) /\ peers'[e].queued <= MaximumMessagesPerTick
      BY <1>3, <3>1, <3>2
    <3>4. peers[e].queued # 0
      BY <1>3, <3>1, <3>2
    <3>5. peers[e].up
      BY <1>1, <3>4 DEF QueuesOK
    <3>. QED
      BY <2>1, <3>3, <3>5 DEF Accounted
  <2>2. CASE f # e
    BY <1>2, <1>5, <2>2 DEF Accounted, QueuesOK
  <2>. QED
    BY <2>1, <2>2
<1>6. \A f \in Ends : ManagerOf(f) # m => peers'[f] = peers[f]
  BY <1>1
<1>. QED
  BY <1>1, <1>4, <1>5, <1>6, QueueStep

\* The first message goes to the back.
LEMMA RotatedQueue ==
    ASSUME QueuesOK, Grown, NEW m \in Managers, dispatch[m] # <<>>,
           dispatch' = [dispatch EXCEPT ![m] = Append(Tail(@), Head(dispatch[m]))],
           peers' = peers
    PROVE  QueuesOK'
<1>. DEFINE q == Head(dispatch[m])  r == Tail(dispatch[m])  s == Append(r, q)
<1>1. q \in EntriesOf(m) /\ r \in Seq(EntriesOf(m)) /\ dispatch[m] \in Seq(EntriesOf(m))
  BY FirstEntry DEF QueuesOK
<1>2. \A f : Cardinality(Places(r, f)) =
                 IF q.end = f THEN Cardinality(Places(dispatch[m], f)) - 1 ELSE Cardinality(Places(dispatch[m], f))
  BY <1>1, PlacesTail
<1>3. \A f : Cardinality(Places(dispatch[m], f)) \in Nat
  BY <1>1, PlacesFinite
<1>. HIDE DEF q, r
<1>4. s \in Seq(EntriesOf(m))
  BY <1>1
<1>5. \A f : Cardinality(Places(s, f)) =
                 IF q.end = f THEN Cardinality(Places(r, f)) + 1 ELSE Cardinality(Places(r, f))
  BY <1>1, PlacesAppend
<1>6. dispatch' = [dispatch EXCEPT ![m] = s]
  BY DEF q, r
<1>. HIDE DEF s
<1>7. \A f : Cardinality(Places(s, f)) = Cardinality(Places(dispatch[m], f))
  BY <1>2, <1>3, <1>5
<1>8. \A f \in Ends : ManagerOf(f) = m => Accounted(peers'[f], s, f)
  BY <1>7 DEF Accounted, QueuesOK
<1>. QED
  BY <1>4, <1>6, <1>8, QueueStep

-----------------------------------------------------------------------------
(* Sending.                                                                *)

\* Only a message that may wait is held back.
LEMMA NotDeferred ==
    ASSUME NEW x, NEW message, NEW outcome \in SendOutcomes(x, message, FALSE)
    PROVE  outcome # "deferred"
BY DEF SendOutcomes, SendResult

\* A message is a good one once it bears its publication.
LEMMA StampedGood ==
    ASSUME NEW x \in Peer, NEW m \in Msg, NEW g, NEW a,
           m.kind = "sequenced" => x.publication[m.remote] <= m.life,
           m.kind = "response" => <<g, m.request>> \in a
    PROVE  /\ Stamped(x, m) \in Good(g, a) /\ Stamped(x, m).kind = m.kind
           /\ Stamped(x, m).request = m.request /\ Stamped(x, m).remote = m.remote
<1>1. x.publication[m.remote] \in Nat
  BY DEF Peer, Msg
<1>. QED
  BY <1>1 DEF Stamped, Msg, Good

\* The same, of a message without arguments.
LEMMA PlainGood ==
    ASSUME NEW x \in Peer, NEW remote \in Remotes, NEW request \in Nat,
           NEW kind \in {"error", "cancel"}, NEW g, NEW a
    PROVE  /\ Stamped(x, Message(kind, remote, request)) \in Good(g, a)
           /\ Stamped(x, Message(kind, remote, request)).kind = kind
<1>1. Message(kind, remote, request) \in Msg /\ Message(kind, remote, request).kind = kind
  BY DEF Message, Msg
<1>. QED
  BY <1>1, StampedGood

\* One end moves and sends a message.
LEMMA SendStep ==
    ASSUME StateOK, NEW e \in Ends, NEW y, NEW u,
           peers' = [peers EXCEPT ![e] = y], trace' = [trace EXCEPT ![e] = u],
           Moves(peers[e], trace[e], y, u, trace[Other(e)].answered),
           NEW x, NEW message, NEW deferrable, NEW outcome,
           outcome = "sent" => Stamped(x, message) \in Good(peers[e].generation, u.answered),
           SendOne(e, x, message, deferrable, outcome)
    PROVE  /\ EndsOK' /\ LinksOK' /\ AnswersMatch' /\ Grown /\ FreshStep
           /\ peers'[e] = y /\ \A f \in Ends : f # e => peers'[f] = peers[f]
<1>1. EndsOK /\ AnswersMatch /\ LinksOK
  BY DEF StateOK
<1>2. /\ EndsOK' /\ AnswersMatch' /\ Grown /\ FreshStep
      /\ From(e)' = Good(y.generation, u.answered) /\ peers'[e] = y
      /\ \A f \in Ends : f # e => peers'[f] = peers[f]
  BY <1>1, OneMoves
<1>3. outcome = "sent" => Stamped(x, message) \in From(e)'
  BY <1>2 DEF Moves, Advances
<1>4. LinksOK'
  BY <1>1, <1>2, <1>3, OneSent
<1>. QED
  BY <1>2, <1>4

\* What a step establishes.
StepOK == StateOK' /\ FreshStep

\* Become, when nothing leaves the queue but with the end.
LEMMA BecomeNothing ==
    ASSUME StateOK, NEW e \in Ends, NEW y, Become(e, y, Nothing)
    PROVE  /\ peers' = [peers EXCEPT ![e] = y]
           /\ Grown /\ peers'[e] = y /\ (\A f \in Ends : f # e => peers'[f] = peers[f])
                 /\ (y.up => peers[e].up /\ y.queued = peers[e].queued) /\ (~y.up => y.queued = 0)
              => QueuesOK'
<1>1. peers' = [peers EXCEPT ![e] = y]
  BY DEF Become
<1>2. dispatch' = [dispatch EXCEPT ![ManagerOf(e)] =
          Subsequence(@, {n \in DOMAIN @ : @[n].end # e \/ y.up})]
  BY DEF Become, Nothing
<1>3. QueuesOK
  BY DEF StateOK
<1>. QED
  BY <1>1, <1>2, <1>3, BecameStill

\* What is known of an end.
LEMMA EndKnown ==
    ASSUME StateOK, NEW e \in Ends
    PROVE  /\ EndOK(peers[e], trace[e]) /\ peers[e] \in Peer /\ trace[e] \in Trace
           /\ Sane(peers[e], From(e)) /\ Current(peers[e], trace[e])
           /\ From(e) = Good(peers[e].generation, trace[e].answered) /\ From(e) \subseteq Msg
           /\ peers[Other(e)].generation = peers[e].generation
BY DEF StateOK, EndsOK, EndOK, Sane, From, Good

-----------------------------------------------------------------------------
(* The operations of one end.                                              *)

\* A history with another outcome.
Outcome(t, request, v) == [t EXCEPT !.outcome[request] = v]

\* One outcome of the history changes.
LEMMA OutcomeTrace ==
    ASSUME NEW t \in Trace, NEW request, NEW v \in {"none", "pending", "failed", "success"}
    PROVE  LET u == Outcome(t, request, v)
           IN  /\ u \in Trace /\ u.life = t.life /\ u.last = t.last /\ u.answered = t.answered
               /\ \A q \in 1 .. MaxRequests :
                     u.outcome[q] = "success" => t.outcome[q] = "success" \/ (q = request /\ v = "success")
<1>. DEFINE o == [t.outcome EXCEPT ![request] = v]
<1>1. /\ o \in [1 .. MaxRequests -> {"none", "pending", "failed", "success"}]
      /\ \A q \in 1 .. MaxRequests : o[q] = IF q = request THEN v ELSE t.outcome[q]
  BY DEF Trace
<1>2. Outcome(t, request, v) = [t EXCEPT !.outcome = o]
  BY DEF Outcome
<1>. HIDE DEF o
<1>. QED
  BY <1>1, <1>2 DEF Trace

\* An end goes.
LEMMA EndGoneStep ==
    ASSUME StateOK, NEW e \in Ends, EndGone(e)
    PROVE  StepOK
<1>. DEFINE x == peers[e]  t == trace[e]  y == RemovePeerState(x)  u == Ended(t, x, y)
<1>1. /\ EndOK(x, t) /\ x \in Peer /\ t \in Trace /\ Sane(x, Good(x.generation, t.answered))
  BY EndKnown
<1>2. /\ Become(e, y, Nothing) /\ trace' = [trace EXCEPT ![e] = u]
      /\ wire' = [wire EXCEPT ![Other(e)] = <<>>] /\ datagrams' = datagrams
  BY DEF EndGone
<1>3. /\ u \in Trace /\ u.life = t.life /\ u.last = t.last /\ u.answered = t.answered
      /\ \A q \in 1 .. MaxRequests : u.outcome[q] = "success" => t.outcome[q] = "success"
  BY <1>1, EndedTrace
<1>. HIDE DEF u
<1>4. Same(x, x, {}) /\ {} \in SUBSET Calm
  BY DEF Same
<1>5. Moves(x, t, y, u, trace[Other(e)].answered)
  BY <1>1, <1>3, <1>4, DrainedMoves
<1>6. ~y.up /\ y.queued = 0
  BY DEF RemovePeerState, NewPeer
<1>. HIDE DEF y
<1>7. peers' = [peers EXCEPT ![e] = y] /\ EndsOK /\ AnswersMatch /\ LinksOK
  BY <1>2, BecomeNothing DEF StateOK
<1>8. /\ EndsOK' /\ AnswersMatch' /\ Grown /\ FreshStep
      /\ peers'[e] = y /\ \A f \in Ends : f # e => peers'[f] = peers[f]
  BY <1>2, <1>5, <1>7, OneMoves
<1>9. QueuesOK'
  BY <1>2, <1>6, <1>8, BecomeNothing
<1>10. LinksOK'
  <2>1. Other(e) \in Ends /\ <<>> \in Seq(From(Other(e))')
    BY OtherEnd
  <2>. QED
    BY <1>2, <1>7, <1>8, <2>1, OneWire
<1>. QED
  BY <1>8, <1>9, <1>10 DEF StepOK, StateOK

\* An entry of the table of requests made.
LEMMA PendingEntry ==
    ASSUME NEW x \in Peer, NEW request, request \in PendingIds(x),
           NEW p, p = (CHOOSE q \in x.pending : q.request = request)
    PROVE  p \in x.pending /\ p.request = request /\ p.remote \in Remotes /\ request \in Nat
<1>1. \E q \in x.pending : q.request = request
  BY DEF PendingIds
<1>2. p \in x.pending /\ p.request = request
  BY <1>1
<1>. QED
  BY <1>2 DEF Peer, Outgoing

\* What a cancellation leaves.
LEMMA CancelledSane ==
    ASSUME StateOK, NEW e \in Ends, NEW request, request \in PendingIds(peers[e]),
           NEW p, p = (CHOOSE q \in peers[e].pending : q.request = request),
           NEW taken, taken = TakePending(peers[e], {request}),
           NEW message, message = Message("cancel", p.remote, request),
           NEW outcome \in SendOutcomes(taken, message, FALSE)
    PROVE  LET y == AfterSend(taken, message, outcome)
           IN  /\ Sane(y, From(e)) /\ Stamped(taken, message) \in From(e)
               /\ Same(peers[e], y, {"pending", "deferred", "outgoing", "terminal"})
<1>1. peers[e] \in Peer /\ Sane(peers[e], From(e)) /\ From(e) \subseteq Msg
  BY EndKnown
<1>2. p.remote \in Remotes /\ request \in Nat
  BY <1>1, PendingEntry
<1>3. Sane(taken, From(e)) /\ Same(peers[e], taken, {"pending", "deferred", "outgoing"})
  BY <1>1, TakePendingSane
<1>4. taken \in Peer
  BY <1>3 DEF Sane
<1>5. Stamped(taken, message) \in From(e)
  BY <1>2, <1>4, PlainGood DEF From
<1>6. outcome # "deferred"
  BY NotDeferred
<1>7. Sane(AfterSend(taken, message, outcome), From(e))
      /\ Same(taken, AfterSend(taken, message, outcome), {"deferred", "terminal"})
  BY <1>1, <1>3, <1>6, AfterSendSane
<1>. HIDE DEF AfterSend
<1>8. Same(peers[e], AfterSend(taken, message, outcome), {"pending", "deferred", "outgoing", "terminal"})
  BY <1>3, <1>7 DEF Same
<1>. QED
  BY <1>5, <1>7, <1>8

\* CancelRequest.
LEMMA CancelRequestStep ==
    ASSUME StateOK, NEW e \in Ends, NEW request, CancelRequest(e, request)
    PROVE  StepOK
<1>. DEFINE x == peers[e]  t == trace[e]
            p == CHOOSE q \in x.pending : q.request = request
            taken == TakePending(x, {request})
            message == Message("cancel", p.remote, request)
<1>1. request \in PendingIds(x)
  BY DEF CancelRequest
<1>2. PICK outcome \in SendOutcomes(taken, message, FALSE) :
          /\ Become(e, Drained(AfterSend(taken, message, outcome)), Nothing)
          /\ SendOne(e, taken, message, FALSE, outcome)
          /\ trace' = [trace EXCEPT ![e] = Ended(@, x, Drained(AfterSend(taken, message, outcome)))]
  BY DEF CancelRequest
<1>. DEFINE z == AfterSend(taken, message, outcome)  y == Drained(z)  u == Ended(t, x, y)
<1>3. /\ Sane(z, From(e)) /\ Stamped(taken, message) \in From(e)
      /\ Same(x, z, {"pending", "deferred", "outgoing", "terminal"})
  BY <1>1, CancelledSane
<1>4. EndOK(x, t) /\ t \in Trace /\ From(e) = Good(x.generation, t.answered)
  BY EndKnown
<1>5. trace' = [trace EXCEPT ![e] = u]
  BY <1>2
<1>6. /\ u \in Trace /\ u.life = t.life /\ u.last = t.last /\ u.answered = t.answered
      /\ \A q \in 1 .. MaxRequests : u.outcome[q] = "success" => t.outcome[q] = "success"
  BY <1>4, EndedTrace
<1>. HIDE DEF u, z, taken, message
<1>7. {"pending", "deferred", "outgoing", "terminal"} \in SUBSET Calm
  BY DEF Calm
<1>8. Moves(x, t, y, u, trace[Other(e)].answered) /\ ((~y.up /\ y.queued = 0) \/ y = z)
  BY <1>3, <1>4, <1>6, <1>7, DrainedMoves
<1>9. z.up = x.up /\ z.queued = x.queued
  BY <1>3 DEF Same, Fields
<1>10. (y.up => x.up /\ y.queued = x.queued) /\ (~y.up => y.queued = 0)
  <2>1. ~x.up => x.queued = 0
    BY DEF StateOK, QueuesOK
  <2>. QED
    BY <1>8, <1>9, <2>1
<1>11. Become(e, y, Nothing)
  BY <1>2 DEF z
<1>. HIDE DEF y
<1>12. peers' = [peers EXCEPT ![e] = y]
  BY <1>11, BecomeNothing
<1>13. /\ EndsOK' /\ LinksOK' /\ AnswersMatch' /\ Grown /\ FreshStep
       /\ peers'[e] = y /\ \A f \in Ends : f # e => peers'[f] = peers[f]
  <2>1. Stamped(taken, message) \in Good(peers[e].generation, u.answered)
    BY <1>3, <1>4, <1>6
  <2>2. SendOne(e, taken, message, FALSE, outcome)
    BY <1>2
  <2>. QED
    BY <1>5, <1>8, <1>12, <2>1, <2>2, SendStep
<1>14. QueuesOK'
  BY <1>10, <1>11, <1>13, BecomeNothing
<1>. QED
  BY <1>13, <1>14 DEF StepOK, StateOK

\* TimeOutRequest.
LEMMA TimeOutRequestStep ==
    ASSUME StateOK, NEW e \in Ends, NEW request, TimeOutRequest(e, request)
    PROVE  StepOK
<1>. DEFINE x == peers[e]  t == trace[e]
            p == CHOOSE q \in x.pending : q.request = request
            taken == TakePending(x, {request})
            message == Message("cancel", p.remote, request)
            u == Outcome(t, request, "failed")
<1>1. request \in PendingIds(x)
  BY DEF TimeOutRequest
<1>2. PICK outcome \in SendOutcomes(taken, message, FALSE) :
          /\ peers' = [peers EXCEPT ![e] = AfterSend(taken, message, outcome)]
          /\ SendOne(e, taken, message, FALSE, outcome)
  BY DEF TimeOutRequest
<1>. DEFINE y == AfterSend(taken, message, outcome)
<1>3. /\ Sane(y, From(e)) /\ Stamped(taken, message) \in From(e)
      /\ Same(x, y, {"pending", "deferred", "outgoing", "terminal"})
  BY <1>1, CancelledSane
<1>4. EndOK(x, t) /\ t \in Trace /\ From(e) = Good(x.generation, t.answered)
  BY EndKnown
<1>5. trace' = [trace EXCEPT ![e] = u] /\ dispatch' = dispatch
  <2>1. trace' = [trace EXCEPT ![e].outcome[request] = "failed"]
    BY DEF TimeOutRequest
  <2>. QED
    BY <2>1 DEF TimeOutRequest, Outcome
<1>6. /\ u \in Trace /\ u.life = t.life /\ u.last = t.last /\ u.answered = t.answered
      /\ \A q \in 1 .. MaxRequests : u.outcome[q] = "success" => t.outcome[q] = "success"
  BY <1>4, OutcomeTrace
<1>. HIDE DEF u, y, taken, message
<1>7. {"pending", "deferred", "outgoing", "terminal"} \in SUBSET Calm
  BY DEF Calm
<1>8. Moves(x, t, y, u, trace[Other(e)].answered)
  BY <1>3, <1>4, <1>6, <1>7, QuietMoves
<1>9. y.up = x.up /\ y.queued = x.queued
  BY <1>3 DEF Same, Fields
<1>10. peers' = [peers EXCEPT ![e] = y]
  BY <1>2 DEF y
<1>11. /\ EndsOK' /\ LinksOK' /\ AnswersMatch' /\ Grown /\ FreshStep
       /\ peers'[e] = y /\ \A f \in Ends : f # e => peers'[f] = peers[f]
  <2>1. Stamped(taken, message) \in Good(peers[e].generation, u.answered)
    BY <1>3, <1>4, <1>6
  <2>2. SendOne(e, taken, message, FALSE, outcome)
    BY <1>2
  <2>. QED
    BY <1>5, <1>8, <1>10, <2>1, <2>2, SendStep
<1>12. QueuesOK'
  BY <1>5, <1>9, <1>11, QueuesStill DEF StateOK
<1>. QED
  BY <1>11, <1>12 DEF StepOK, StateOK

\* The incoming requests are the same, though not what is recorded of them.
LEMMA IncomingSane ==
    ASSUME NEW x, NEW M, Sane(x, M), NEW J \in SUBSET Incoming,
           \A i, j \in J : i.request = j.request => i = j,
           \A i \in x.incoming : \E j \in J : j.request = i.request,
           \A j \in J : \E i \in x.incoming : j.request = i.request
    PROVE  Sane([x EXCEPT !.incoming = J], M) /\ Same(x, [x EXCEPT !.incoming = J], {"incoming"})
<1>. DEFINE y == [x EXCEPT !.incoming = J]
<1>1. x \in Peer /\ InTable(x)
  BY DEF Sane
<1>2. y \in Peer /\ y.incoming = J /\ Same(x, y, {"incoming"})
  BY <1>1 DEF Peer, Same, Fields
<1>. HIDE DEF y
<1>3. IsFiniteSet(J) /\ Cardinality(J) = Cardinality(x.incoming)
  BY <1>1, SameRequests DEF InTable
<1>4. y.handlers = x.handlers /\ y.latestRequest = x.latestRequest /\ y.deferred = x.deferred
  BY <1>2 DEF Same, Fields
<1>5. \A j \in J : j.request <= x.latestRequest
  BY <1>1 DEF InTable
<1>6. InTable(y)
  BY <1>1, <1>2, <1>3, <1>4, <1>5 DEF InTable
<1>7. OutTable(y) /\ Live(y)
  BY <1>2, SameTables DEF Sane
<1>. QED
  BY <1>2, <1>4, <1>6, <1>7 DEF Sane, y

\* One of them is recorded anew.
LEMMA IncomingSwap ==
    ASSUME NEW x, NEW M, Sane(x, M), NEW i \in x.incoming, NEW j \in Incoming, j.request = i.request
    PROVE  LET y == [x EXCEPT !.incoming = (x.incoming \ {i}) \cup {j}]
           IN  Sane(y, M) /\ Same(x, y, {"incoming"})
<1>. DEFINE J == (x.incoming \ {i}) \cup {j}
<1>1. x.incoming \in SUBSET Incoming /\ \A k, l \in x.incoming : k.request = l.request => k = l
  BY DEF Sane, InTable, Peer
<1>2. J \in SUBSET Incoming
  BY <1>1
<1>3. \A k, l \in J : k.request = l.request => k = l
  BY <1>1
<1>4. \A k \in x.incoming : \E l \in J : l.request = k.request
  <2>. SUFFICES ASSUME NEW k \in x.incoming PROVE \E l \in J : l.request = k.request
    OBVIOUS
  <2>1. CASE k = i
    BY <2>1
  <2>2. CASE k # i
    <3>1. k \in J
      BY <2>2
    <3>. QED
      BY <3>1
  <2>. QED
    BY <2>1, <2>2
<1>5. \A l \in J : \E k \in x.incoming : l.request = k.request
  OBVIOUS
<1>. HIDE DEF J
<1>6. Sane([x EXCEPT !.incoming = J], M) /\ Same(x, [x EXCEPT !.incoming = J], {"incoming"})
  BY <1>2, <1>3, <1>4, <1>5, IncomingSane
<1>. QED
  BY <1>6 DEF J

\* A request made is recorded anew.
LEMMA PendingSwap ==
    ASSUME NEW x, NEW M, Sane(x, M), NEW p \in x.pending, NEW r \in Outgoing,
           r.request = p.request, r.remote = p.remote
    PROVE  LET y == [x EXCEPT !.pending = (x.pending \ {p}) \cup {r}]
           IN  Sane(y, M) /\ Same(x, y, {"pending"})
<1>. DEFINE J == (x.pending \ {p}) \cup {r}  y == [x EXCEPT !.pending = J]
<1>1. x \in Peer /\ OutTable(x) /\ Live(x) /\ x.pending \in SUBSET Outgoing
  BY DEF Sane, Peer
<1>2. J \in SUBSET Outgoing
  BY <1>1
<1>3. \A k, l \in J : k.request = l.request => k = l
  BY <1>1 DEF OutTable
<1>4. \A k \in x.pending : \E l \in J : l.request = k.request /\ l.remote = k.remote
  <2>. SUFFICES ASSUME NEW k \in x.pending PROVE \E l \in J : l.request = k.request /\ l.remote = k.remote
    OBVIOUS
  <2>1. CASE k = p
    BY <2>1
  <2>2. CASE k # p
    <3>1. k \in J
      BY <2>2
    <3>. QED
      BY <3>1
  <2>. QED
    BY <2>1, <2>2
<1>5. \A l \in J : \E k \in x.pending : l.request = k.request
  OBVIOUS
<1>. HIDE DEF J
<1>6. IsFiniteSet(J) /\ Cardinality(J) = Cardinality(x.pending)
  BY <1>1, <1>3, <1>4, <1>5, SameRequests DEF OutTable
<1>7. y \in Peer /\ y.pending = J /\ Same(x, y, {"pending"})
  BY <1>1, <1>2 DEF Peer, Same, Fields
<1>. HIDE DEF y
<1>8. /\ y.outgoing = x.outgoing /\ y.nextRequest = x.nextRequest /\ y.deferred = x.deferred
  BY <1>7 DEF Same, Fields
<1>9. \A j \in J : j.request < x.nextRequest
  BY <1>1, <1>5 DEF OutTable
<1>10. OutTable(y)
  BY <1>1, <1>3, <1>6, <1>7, <1>8, <1>9 DEF OutTable
<1>11. Live(y)
  BY <1>1, <1>4, <1>7, <1>8 DEF Live, LiveRequest
<1>12. InTable(y)
  BY <1>7, SameTables DEF Sane
<1>13. Sane(y, M)
  BY <1>7, <1>8, <1>10, <1>11, <1>12 DEF Sane
<1>. QED
  BY <1>7, <1>13 DEF y, J

\* An end changes its tables, and nothing else happens.
LEMMA LocalStep ==
    ASSUME StateOK, NEW e \in Ends, NEW y, peers' = [peers EXCEPT ![e] = y],
           dispatch' = dispatch, wire' = wire, datagrams' = datagrams, trace' = trace,
           Sane(y, From(e)), NEW F \in SUBSET (Calm \ {"queued"}), Same(peers[e], y, F)
    PROVE  StepOK
<1>1. EndOK(peers[e], trace[e]) /\ From(e) = Good(peers[e].generation, trace[e].answered) /\ trace[e] \in Trace
  BY EndKnown
<1>2. F \in SUBSET Calm
  OBVIOUS
<1>3. Moves(peers[e], trace[e], y, trace[e], trace[Other(e)].answered)
  BY <1>1, <1>2, QuietMoves
<1>4. EndsOK /\ LinksOK /\ QueuesOK /\ AnswersMatch
  BY DEF StateOK
<1>5. /\ EndsOK' /\ AnswersMatch' /\ Grown /\ FreshStep /\ peers'[e] = y
      /\ \A f \in Ends : f # e => peers'[f] = peers[f]
  BY <1>3, <1>4, OneMovesUnseen
<1>6. y.up = peers[e].up /\ y.queued = peers[e].queued
  BY DEF Same, Fields, Calm
<1>7. LinksOK' /\ QueuesOK'
  BY <1>4, <1>5, <1>6, LinksKept, QueuesStill
<1>. QED
  BY <1>5, <1>7 DEF StepOK, StateOK

\* An end changes its tables and sends a message.
LEMMA LocalSendStep ==
    ASSUME StateOK, NEW e \in Ends, NEW y, peers' = [peers EXCEPT ![e] = y], dispatch' = dispatch,
           NEW u \in Trace, trace' = [trace EXCEPT ![e] = u],
           u.life = trace[e].life, u.last = trace[e].last, trace[e].answered \subseteq u.answered,
           \A q \in 1 .. MaxRequests : u.outcome[q] = "success" => trace[e].outcome[q] = "success",
           Sane(y, Good(peers[e].generation, u.answered)),
           NEW F \in SUBSET (Calm \ {"queued"}), Same(peers[e], y, F),
           NEW x, NEW message, NEW deferrable, NEW outcome,
           outcome = "sent" => Stamped(x, message) \in Good(peers[e].generation, u.answered),
           SendOne(e, x, message, deferrable, outcome)
    PROVE  StepOK
<1>1. EndOK(peers[e], trace[e])
  BY EndKnown
<1>2. F \in SUBSET Calm
  OBVIOUS
<1>3. Moves(peers[e], trace[e], y, u, trace[Other(e)].answered)
  BY <1>1, <1>2, QuietMoves
<1>4. /\ EndsOK' /\ LinksOK' /\ AnswersMatch' /\ Grown /\ FreshStep
      /\ peers'[e] = y /\ \A f \in Ends : f # e => peers'[f] = peers[f]
  BY <1>3, SendStep
<1>5. y.up = peers[e].up /\ y.queued = peers[e].queued
  BY DEF Same, Fields, Calm
<1>6. QueuesOK'
  BY <1>4, <1>5, QueuesStill DEF StateOK
<1>. QED
  BY <1>4, <1>6 DEF StepOK, StateOK

\* The clock: ElapseRequest and ElapseHandler.
LEMMA ElapseStep ==
    ASSUME StateOK, NEW e \in Ends, Elapse(e)
    PROVE  StepOK
<1>. DEFINE x == peers[e]
<1>1. Sane(x, From(e)) /\ x \in Peer
  BY EndKnown
<1>2. CASE ElapseRequest(e)
  <2>1. PICK p \in x.pending :
            peers' = [peers EXCEPT ![e].pending = (@ \ {p}) \cup {[p EXCEPT !.due = TRUE]}]
    BY <1>2 DEF ElapseRequest
  <2>. DEFINE r == [p EXCEPT !.due = TRUE]  y == [x EXCEPT !.pending = (x.pending \ {p}) \cup {r}]
  <2>2. r \in Outgoing /\ r.request = p.request /\ r.remote = p.remote
    <3>1. p \in Outgoing
      BY <1>1 DEF Peer
    <3>. QED
      BY <3>1 DEF Outgoing
  <2>3. peers' = [peers EXCEPT ![e] = y]
    BY <2>1
  <2>4. dispatch' = dispatch /\ wire' = wire /\ datagrams' = datagrams /\ trace' = trace
    BY <1>2 DEF ElapseRequest
  <2>. HIDE DEF r
  <2>5. Sane(y, From(e)) /\ Same(x, y, {"pending"})
    BY <1>1, <2>2, PendingSwap
  <2>6. {"pending"} \in SUBSET (Calm \ {"queued"})
    BY DEF Calm
  <2>. HIDE DEF y
  <2>. QED
    BY <2>3, <2>4, <2>5, <2>6, LocalStep
<1>3. CASE ElapseHandler(e)
  <2>1. PICK i \in x.incoming :
            peers' = [peers EXCEPT ![e].incoming =
                (@ \ {i}) \cup {IF i.late THEN [i EXCEPT !.expired = TRUE] ELSE [i EXCEPT !.late = TRUE]}]
    BY <1>3 DEF ElapseHandler
  <2>. DEFINE j == IF i.late THEN [i EXCEPT !.expired = TRUE] ELSE [i EXCEPT !.late = TRUE]
              y == [x EXCEPT !.incoming = (x.incoming \ {i}) \cup {j}]
  <2>2. j \in Incoming /\ j.request = i.request
    <3>1. i \in Incoming
      BY <1>1 DEF Peer
    <3>. QED
      BY <3>1 DEF Incoming
  <2>3. peers' = [peers EXCEPT ![e] = y]
    BY <2>1
  <2>4. dispatch' = dispatch /\ wire' = wire /\ datagrams' = datagrams /\ trace' = trace
    BY <1>3 DEF ElapseHandler
  <2>. HIDE DEF j
  <2>5. Sane(y, From(e)) /\ Same(x, y, {"incoming"})
    BY <1>1, <2>2, IncomingSwap
  <2>6. {"incoming"} \in SUBSET (Calm \ {"queued"})
    BY DEF Calm
  <2>. HIDE DEF y
  <2>. QED
    BY <2>3, <2>4, <2>5, <2>6, LocalStep
<1>. QED
  BY <1>2, <1>3 DEF Elapse

\* ExpireWork.
LEMMA ExpireWorkStep ==
    ASSUME StateOK, NEW e \in Ends, ExpireWork(e)
    PROVE  StepOK
<1>1. Sane(peers[e], From(e))
  BY EndKnown
<1>2. PICK i \in peers[e].incoming : peers' = [peers EXCEPT ![e] = WithoutIncoming(@, i)]
  BY DEF ExpireWork
<1>. DEFINE y == WithoutIncoming(peers[e], i)
<1>3. Sane(y, From(e)) /\ Same(peers[e], y, {"incoming", "handlers"})
  BY <1>1, WithoutIncomingSane
<1>4. /\ peers' = [peers EXCEPT ![e] = y]
      /\ dispatch' = dispatch /\ wire' = wire /\ datagrams' = datagrams /\ trace' = trace
  BY <1>2 DEF ExpireWork
<1>5. {"incoming", "handlers"} \in SUBSET (Calm \ {"queued"})
  BY DEF Calm
<1>. HIDE DEF y
<1>. QED
  BY <1>3, <1>4, <1>5, LocalStep

\* ServerMaterializes.
LEMMA ServerMaterializesStep ==
    ASSUME StateOK, NEW c \in Clients, NEW object \in Objects, NEW known,
           ServerMaterializes(c, object, known)
    PROVE  StepOK
<1>. DEFINE e == <<c, "server">>  y == Materialized(peers[e], object, known)
<1>1. e \in Ends
  BY DEF Ends
<1>2. Sane(peers[e], From(e))
  BY <1>1, EndKnown
<1>3. Sane(y, From(e)) /\ Same(peers[e], y, {"materialized"})
  BY <1>2, OthersSane
<1>4. /\ peers' = [peers EXCEPT ![e] = y]
      /\ dispatch' = dispatch /\ wire' = wire /\ datagrams' = datagrams /\ trace' = trace
  BY DEF ServerMaterializes
<1>5. {"materialized"} \in SUBSET (Calm \ {"queued"})
  BY DEF Calm
<1>. HIDE DEF y, e
<1>. QED
  BY <1>1, <1>3, <1>4, <1>5, LocalStep

\* TimeOutReply.
LEMMA TimeOutReplyStep ==
    ASSUME StateOK, NEW e \in Ends, TimeOutReply(e)
    PROVE  StepOK
<1>. DEFINE x == peers[e]  t == trace[e]
<1>1. /\ Sane(x, From(e)) /\ x \in Peer /\ t \in Trace
      /\ From(e) = Good(x.generation, t.answered) /\ From(e) \subseteq Msg
  BY EndKnown
<1>2. PICK i \in x.incoming :
          \E outcome \in SendOutcomes(x, Message("error", i.remote, i.request), FALSE) :
              /\ peers' = [peers EXCEPT ![e] =
                     AfterSend([x EXCEPT !.incoming = (@ \ {i}) \cup {[i EXCEPT !.accept = FALSE]}],
                               Message("error", i.remote, i.request), outcome)]
              /\ SendOne(e, x, Message("error", i.remote, i.request), FALSE, outcome)
  BY DEF TimeOutReply
<1>. DEFINE message == Message("error", i.remote, i.request)  j == [i EXCEPT !.accept = FALSE]
            revoked == [x EXCEPT !.incoming = (x.incoming \ {i}) \cup {j}]
<1>3. PICK outcome \in SendOutcomes(x, message, FALSE) :
          /\ peers' = [peers EXCEPT ![e] = AfterSend(revoked, message, outcome)]
          /\ SendOne(e, x, message, FALSE, outcome)
  BY <1>2
<1>. DEFINE y == AfterSend(revoked, message, outcome)
<1>4. i \in Incoming
  BY <1>1 DEF Peer
<1>5. j \in Incoming /\ j.request = i.request
  BY <1>4 DEF Incoming
<1>6. Stamped(x, message) \in Good(x.generation, t.answered)
  <2>1. i.remote \in Remotes /\ i.request \in Nat
    BY <1>4 DEF Incoming
  <2>. QED
    BY <1>1, <2>1, PlainGood
<1>7. outcome # "deferred"
  BY NotDeferred
<1>. HIDE DEF j
<1>8. Sane(revoked, From(e)) /\ Same(x, revoked, {"incoming"})
  BY <1>1, <1>5, IncomingSwap
<1>. HIDE DEF revoked, message
<1>9. Sane(y, From(e)) /\ Same(revoked, y, {"deferred", "terminal"})
  BY <1>1, <1>7, <1>8, AfterSendSane
<1>10. peers' = [peers EXCEPT ![e] = y] /\ SendOne(e, x, message, FALSE, outcome)
  BY <1>3
<1>. HIDE DEF y
<1>11. Same(x, y, {"incoming", "deferred", "terminal"})
  BY <1>8, <1>9 DEF Same
<1>12. {"incoming", "deferred", "terminal"} \in SUBSET (Calm \ {"queued"})
  BY DEF Calm
<1>13. dispatch' = dispatch /\ trace' = [trace EXCEPT ![e] = t]
  BY DEF TimeOutReply, StateOK, EndsOK
<1>14. Sane(y, Good(x.generation, t.answered))
  BY <1>1, <1>9
<1>. QED
  BY <1>1, <1>6, <1>10, <1>11, <1>12, <1>13, <1>14, LocalSendStep

\* More answers make more messages good.
LEMMA GoodGrows ==
    ASSUME NEW g, NEW a, NEW b, a \subseteq b
    PROVE  Good(g, a) \subseteq Good(g, b) /\ Good(g, b) \subseteq Msg
BY DEF Good

\* The messages held back may be more, the entry stays sane.
LEMMA SaneGrows ==
    ASSUME NEW x, NEW M, NEW N, M \subseteq N, Sane(x, M)
    PROVE  Sane(x, N)
<1>1. x.deferred \in Seq(N)
  BY DEF Sane
<1>. QED
  BY <1>1 DEF Sane

\* SendReply: an answer that is sent or held back is recorded in the history.
LEMMA ReplyStep ==
    ASSUME StateOK, NEW e \in Ends, NEW reply, NEW kind \in {"response", "error"},
           NEW needs \in SUBSET Objects, Reply(e, reply, kind, needs)
    PROVE  StepOK
<1>. DEFINE x == peers[e]  t == trace[e]
            message == [Message(kind, reply.remote, reply.request) EXCEPT !.needs = needs]
<1>1. /\ Sane(x, From(e)) /\ x \in Peer /\ t \in Trace
      /\ From(e) = Good(x.generation, t.answered) /\ From(e) \subseteq Msg
  BY EndKnown
<1>2. dispatch' = dispatch
  BY DEF Reply
<1>3. CASE UNCHANGED <<peers, wire, datagrams, faults, trace>>
  <2>1. peers' = [peers EXCEPT ![e] = x]
    BY <1>3 DEF StateOK, EndsOK
  <2>2. Same(x, x, {}) /\ {} \in SUBSET (Calm \ {"queued"})
    BY DEF Same
  <2>. QED
    BY <1>1, <1>2, <1>3, <2>1, <2>2, LocalStep
<1>4. ASSUME NEW i \in Answerable(e, reply), peers' = [peers EXCEPT ![e] = WithoutIncoming(x, i)],
             UNCHANGED <<wire, datagrams, faults, trace>>
      PROVE  StepOK
  <2>. DEFINE y == WithoutIncoming(x, i)
  <2>1. i \in x.incoming
    BY DEF Answerable
  <2>2. Sane(y, From(e)) /\ Same(x, y, {"incoming", "handlers"})
    BY <1>1, <2>1, WithoutIncomingSane
  <2>3. {"incoming", "handlers"} \in SUBSET (Calm \ {"queued"})
    BY DEF Calm
  <2>. HIDE DEF y
  <2>4. peers' = [peers EXCEPT ![e] = y]
    BY <1>4 DEF y
  <2>. QED
    BY <1>2, <1>4, <2>2, <2>3, <2>4, LocalStep
<1>5. ASSUME NEW i \in Answerable(e, reply), NEW outcome \in SendOutcomes(x, message, TRUE),
             peers' = [peers EXCEPT ![e] = AfterSend(WithoutIncoming(x, i), message, outcome)],
             SendOne(e, x, message, TRUE, outcome),
             trace' = [trace EXCEPT ![e].answered =
                 IF kind = "response" /\ outcome \in {"sent", "deferred"}
                 THEN @ \cup {<<reply.generation, reply.request>>} ELSE @]
      PROVE  StepOK
  <2>. DEFINE released == WithoutIncoming(x, i)  y == AfterSend(released, message, outcome)
              a == IF kind = "response" /\ outcome \in {"sent", "deferred"}
                   THEN t.answered \cup {<<reply.generation, reply.request>>} ELSE t.answered
              u == [t EXCEPT !.answered = a]  M == Good(x.generation, a)
  <2>1. /\ i \in x.incoming /\ x.generation = reply.generation
        /\ i.request = reply.request /\ i.remote = reply.remote
    BY DEF Answerable
  <2>2. reply.request \in Nat /\ reply.remote \in Remotes /\ reply.generation \in Nat
    BY <1>1, <2>1 DEF Peer, Incoming
  <2>3. a \in SUBSET (Nat \X Nat) /\ t.answered \subseteq a
    BY <1>1, <2>2 DEF Trace
  <2>4. outcome \in {"sent", "deferred"} /\ kind = "response" => <<x.generation, reply.request>> \in a
    BY <2>1
  <2>5. trace' = [trace EXCEPT ![e] = u]
    BY <1>5
  <2>. HIDE DEF a
  <2>6. u \in Trace /\ u.answered = a /\ u.life = t.life /\ u.last = t.last /\ u.outcome = t.outcome
    BY <1>1, <2>3 DEF Trace
  <2>7. From(e) \subseteq M /\ M \subseteq Msg
    BY <1>1, <2>3, GoodGrows
  <2>8. Sane(x, M)
    BY <1>1, <2>7, SaneGrows
  <2>. HIDE DEF u, M
  <2>9. Sane(released, M) /\ Same(x, released, {"incoming", "handlers"})
    BY <2>1, <2>8, WithoutIncomingSane
  <2>10. released \in Peer
    BY <2>9 DEF Sane
  <2>. HIDE DEF released
  <2>11. ASSUME NEW z \in Peer, outcome \in {"sent", "deferred"}
         PROVE  Stamped(z, message) \in M /\ Stamped(z, message).kind # "request"
    <3>1. message \in Msg /\ message.kind = kind /\ message.request = reply.request
      <4>. DEFINE m == Message(kind, reply.remote, reply.request)
      <4>1. m \in Msg /\ m.kind = kind /\ m.request = reply.request
        BY <2>2 DEF Message, Msg
      <4>. HIDE DEF m
      <4>2. [m EXCEPT !.needs = needs] \in Msg /\ [m EXCEPT !.needs = needs].kind = kind
            /\ [m EXCEPT !.needs = needs].request = reply.request
        BY <4>1 DEF Msg
      <4>. QED
        BY <4>2 DEF m
    <3>. HIDE DEF message
    <3>2. message.kind = "response" => <<x.generation, message.request>> \in a
      BY <2>4, <2>11, <3>1
    <3>. QED
      BY <3>1, <3>2, StampedGood DEF M
  <2>12. outcome = "deferred" => Stamped(released, message) \in M /\ LiveRequest(released, Stamped(released, message))
    BY <2>10, <2>11 DEF LiveRequest
  <2>13. outcome = "sent" => Stamped(x, message) \in M
    BY <1>1, <2>11
  <2>. HIDE DEF message
  <2>14. Sane(y, M) /\ Same(released, y, {"deferred", "terminal"})
    BY <2>7, <2>9, <2>12, AfterSendSane
  <2>. HIDE DEF y
  <2>15. Same(x, y, {"incoming", "handlers", "deferred", "terminal"})
    BY <2>9, <2>14 DEF Same
  <2>16. {"incoming", "handlers", "deferred", "terminal"} \in SUBSET (Calm \ {"queued"})
    BY DEF Calm
  <2>17. peers' = [peers EXCEPT ![e] = y]
    BY <1>5 DEF y, released
  <2>18. Sane(y, Good(peers[e].generation, u.answered))
    BY <2>6, <2>14 DEF M
  <2>19. outcome = "sent" => Stamped(x, message) \in Good(peers[e].generation, u.answered)
    BY <2>6, <2>13 DEF M
  <2>. QED
    BY <1>2, <1>5, <2>3, <2>5, <2>6, <2>15, <2>16, <2>17, <2>18, <2>19, LocalSendStep
<1>6. \/ UNCHANGED <<peers, wire, datagrams, faults, trace>>
      \/ \E i \in Answerable(e, reply) :
             \/ /\ peers' = [peers EXCEPT ![e] = WithoutIncoming(x, i)]
                /\ UNCHANGED <<wire, datagrams, faults, trace>>
             \/ \E outcome \in SendOutcomes(x, message, TRUE) :
                    /\ peers' = [peers EXCEPT ![e] = AfterSend(WithoutIncoming(x, i), message, outcome)]
                    /\ SendOne(e, x, message, TRUE, outcome)
                    /\ trace' = [trace EXCEPT ![e].answered =
                           IF kind = "response" /\ outcome \in {"sent", "deferred"}
                           THEN @ \cup {<<reply.generation, reply.request>>} ELSE @]
  BY Zenon DEF Reply
<1>. HIDE DEF message
<1>. QED
  BY <1>3, <1>4, <1>5, <1>6

\* What is left of a sequence without one element.
LEMMA RemoveAtElements ==
    ASSUME NEW S, NEW s \in Seq(S), NEW n \in DOMAIN s
    PROVE  /\ RemoveAt(s, n) \in Seq(S)
           /\ \A k \in DOMAIN RemoveAt(s, n) : \E l \in DOMAIN s : RemoveAt(s, n)[k] = s[l]
<1>. DEFINE a == SubSeq(s, 1, n - 1)  b == SubSeq(s, n + 1, Len(s))  r == a \o b
<1>1. Len(s) \in Nat /\ n \in 1 .. Len(s) /\ DOMAIN s = 1 .. Len(s)
  OBVIOUS
<1>2. a \in Seq(S) /\ b \in Seq(S)
  BY <1>1
<1>3. \A k \in DOMAIN a : \E l \in DOMAIN s : a[k] = s[l]
  BY <1>1
<1>4. \A k \in DOMAIN b : \E l \in DOMAIN s : b[k] = s[l]
  <2>. SUFFICES ASSUME NEW k \in DOMAIN b PROVE \E l \in DOMAIN s : b[k] = s[l]
    OBVIOUS
  <2>1. k \in 1 .. Len(s) - n /\ b[k] = s[n + k]
    BY <1>1
  <2>2. n + k \in DOMAIN s
    BY <1>1, <2>1
  <2>. QED
    BY <2>1, <2>2
<1>. HIDE DEF a, b
<1>5. r \in Seq(S) /\ DOMAIN r = 1 .. Len(a) + Len(b) /\ DOMAIN a = 1 .. Len(a) /\ DOMAIN b = 1 .. Len(b)
      /\ Len(a) \in Nat /\ Len(b) \in Nat
  BY <1>2
<1>6. ASSUME NEW k \in DOMAIN r
      PROVE  \E l \in DOMAIN s : r[k] = s[l]
  <2>1. CASE k <= Len(a)
    <3>1. k \in DOMAIN a /\ r[k] = a[k]
      BY <1>2, <1>5, <2>1
    <3>. QED
      BY <1>3, <3>1
  <2>2. CASE ~(k <= Len(a))
    <3>1. k - Len(a) \in DOMAIN b /\ r[k] = b[k - Len(a)]
      BY <1>2, <1>5, <2>2
    <3>. QED
      BY <1>4, <3>1
  <2>. QED
    BY <2>1, <2>2
<1>. QED
  BY <1>5, <1>6 DEF RemoveAt, a, b

\* Pump's third loop: a message that waited is sent or dropped.
LEMMA ReleaseDeferredStep ==
    ASSUME StateOK, NEW e \in Ends, ReleaseDeferred(e)
    PROVE  StepOK
<1>. DEFINE x == peers[e]  t == trace[e]
<1>1. /\ Sane(x, From(e)) /\ x \in Peer /\ t \in Trace /\ EndOK(x, t)
      /\ From(e) = Good(x.generation, t.answered) /\ From(e) \subseteq Msg
      /\ x.deferred \in Seq(From(e))
  BY EndKnown DEF Sane
<1>2. PICK n \in DOMAIN x.deferred :
          \E ready \in BOOLEAN :
          \E outcome \in IF ready THEN SendOutcomes(x, x.deferred[n], FALSE) ELSE {"refused"} :
              /\ peers' = [peers EXCEPT ![e] =
                     AfterSend([x EXCEPT !.deferred = RemoveAt(@, n)], x.deferred[n], outcome)]
              /\ wire' = [wire EXCEPT ![e] = IF outcome = "sent" THEN Append(@, x.deferred[n]) ELSE @]
  <2>1. PICK n \in DOMAIN x.deferred :
            LET message == x.deferred[n]
                without == [x EXCEPT !.deferred = RemoveAt(@, n)]
                ready == /\ LiveRequest(x, message) /\ RemoteAvailable(e, message.remote)
                         /\ message.needs \subseteq x.materialized
            IN  \E outcome \in IF ready THEN SendOutcomes(x, message, FALSE) ELSE {"refused"} :
                    /\ peers' = [peers EXCEPT ![e] = AfterSend(without, message, outcome)]
                    /\ wire' = [wire EXCEPT ![e] = IF outcome = "sent" THEN Append(@, message) ELSE @]
    BY Zenon DEF ReleaseDeferred
  <2>. DEFINE ready == /\ LiveRequest(x, x.deferred[n]) /\ RemoteAvailable(e, x.deferred[n].remote)
                       /\ x.deferred[n].needs \subseteq x.materialized
  <2>2. ready \in BOOLEAN
    OBVIOUS
  <2>3. \E outcome \in IF ready THEN SendOutcomes(x, x.deferred[n], FALSE) ELSE {"refused"} :
            /\ peers' = [peers EXCEPT ![e] =
                   AfterSend([x EXCEPT !.deferred = RemoveAt(@, n)], x.deferred[n], outcome)]
            /\ wire' = [wire EXCEPT ![e] = IF outcome = "sent" THEN Append(@, x.deferred[n]) ELSE @]
    BY <2>1
  <2>. HIDE DEF ready
  <2>. QED
    BY <2>2, <2>3
<1>. DEFINE message == x.deferred[n]  d == RemoveAt(x.deferred, n)
            without == [x EXCEPT !.deferred = d]
<1>3. PICK outcome \in SendOutcomes(x, message, FALSE) \cup {"refused"} :
          /\ peers' = [peers EXCEPT ![e] = AfterSend(without, message, outcome)]
          /\ wire' = [wire EXCEPT ![e] = IF outcome = "sent" THEN Append(@, message) ELSE @]
  BY <1>2
<1>4. outcome # "deferred"
  BY NotDeferred
<1>5. d \in Seq(From(e)) /\ \A k \in DOMAIN d : \E l \in DOMAIN x.deferred : d[k] = x.deferred[l]
  BY <1>1, RemoveAtElements
<1>6. d \in Seq(Msg) /\ message \in From(e)
  <2>. HIDE DEF d
  <2>. QED
    BY <1>1, <1>5
<1>. HIDE DEF d
<1>7. without \in Peer /\ without.deferred = d /\ Same(x, without, {"deferred"})
  BY <1>1, <1>6 DEF Peer, Same, Fields
<1>8. Sane(without, From(e))
  <2>. HIDE DEF without
  <2>1. without.pending = x.pending
    BY <1>7 DEF Same, Fields
  <2>2. Live(without)
    BY <1>1, <1>5, <1>7, <2>1 DEF Sane, Live, LiveRequest
  <2>3. OutTable(without) /\ InTable(without)
    BY <1>1, <1>7, SameTables DEF Sane
  <2>. QED
    BY <1>5, <1>7, <2>2, <2>3 DEF Sane
<1>. DEFINE y == AfterSend(without, message, outcome)
<1>. HIDE DEF without, message
<1>9. Sane(y, From(e)) /\ Same(without, y, {"deferred", "terminal"})
  BY <1>1, <1>4, <1>8, AfterSendSane
<1>10. peers' = [peers EXCEPT ![e] = y]
  BY <1>3
<1>. HIDE DEF y
<1>11. Same(x, y, {"deferred", "terminal"}) /\ {"deferred", "terminal"} \in SUBSET Calm
  BY <1>7, <1>9 DEF Same, Calm
<1>12. Moves(x, t, y, t, trace[Other(e)].answered)
  BY <1>1, <1>9, <1>11, QuietMoves
<1>13. EndsOK /\ LinksOK /\ QueuesOK /\ AnswersMatch /\ dispatch' = dispatch /\ datagrams' = datagrams /\ trace' = trace
  BY DEF StateOK, ReleaseDeferred
<1>14. /\ EndsOK' /\ AnswersMatch' /\ Grown /\ FreshStep /\ peers'[e] = y
       /\ \A f \in Ends : f # e => peers'[f] = peers[f]
  BY <1>10, <1>12, <1>13, OneMovesUnseen
<1>15. y.up = x.up /\ y.queued = x.queued
  BY <1>11 DEF Same, Fields
<1>16. QueuesOK'
  BY <1>13, <1>14, <1>15, QueuesStill
<1>17. LinksOK'
  <2>. DEFINE w == IF outcome = "sent" THEN Append(wire[e], message) ELSE wire[e]
  <2>1. wire[e] \in Seq(From(e)) /\ From(e) \subseteq From(e)'
    BY <1>13, <1>14 DEF LinksOK, Grown
  <2>2. message \in From(e)
    BY <1>6 DEF message
  <2>3. w \in Seq(From(e)')
    BY <2>1, <2>2
  <2>4. wire' = [wire EXCEPT ![e] = w]
    BY <1>3
  <2>. HIDE DEF w
  <2>. QED
    BY <1>13, <1>14, <2>3, <2>4, OneWire
<1>. QED
  BY <1>14, <1>16, <1>17 DEF StepOK, StateOK

\* An identity or a sequence is spent.
LEMMA SpentSane ==
    ASSUME NEW x, NEW M, Sane(x, M)
    PROVE  LET y == [x EXCEPT !.nextRequest = x.nextRequest + 1]
           IN  Sane(y, M) /\ Same(x, y, {"nextRequest"}) /\ y.nextRequest = x.nextRequest + 1
<1>. DEFINE n == x.nextRequest + 1  y == [x EXCEPT !.nextRequest = n]
<1>1. x \in Peer /\ OutTable(x)
  BY DEF Sane
<1>2. n \in Nat /\ x.nextRequest \in Nat
  BY <1>1 DEF Peer
<1>3. \A p \in x.pending : p.request < n
  <2>1. \A p \in x.pending : p.request \in Nat /\ p.request < x.nextRequest
    BY <1>1 DEF OutTable, Peer, Outgoing
  <2>. QED
    BY <1>2, <2>1
<1>. HIDE DEF n
<1>4. y \in Peer /\ y.nextRequest = n /\ Same(x, y, {"nextRequest"})
  BY <1>1, <1>2 DEF Peer, Same, Fields
<1>. HIDE DEF y
<1>5. y.pending = x.pending /\ y.outgoing = x.outgoing /\ y.deferred = x.deferred
  BY <1>4 DEF Same, Fields
<1>6. OutTable(y)
  BY <1>1, <1>3, <1>4, <1>5 DEF OutTable
<1>7. InTable(y) /\ Live(y)
  BY <1>4, SameTables DEF Sane
<1>8. Sane(y, M)
  BY <1>4, <1>5, <1>6, <1>7 DEF Sane
<1>. QED
  BY <1>4, <1>8 DEF y, n

\* SendEvent.
LEMMA SendEventStep ==
    ASSUME StateOK, NEW e \in Ends, NEW remote \in Remotes, NEW needs \in SUBSET Objects,
           SendEvent(e, remote, needs)
    PROVE  StepOK
<1>. DEFINE x == peers[e]  t == trace[e]
            sequence == x.nextSequence[remote] + 1
            plain == [Message("event", remote, 0) EXCEPT !.needs = needs, !.number = t.sent + 1]
            state == [Message("sequenced", remote, 0) EXCEPT
                         !.needs = needs, !.sequence = sequence, !.life = t.life[remote]]
            message == IF remote \in Events THEN plain ELSE state
            spent == IF remote \in Events THEN x ELSE [x EXCEPT !.nextSequence[remote] = sequence]
<1>1. /\ Sane(x, From(e)) /\ x \in Peer /\ t \in Trace /\ EndOK(x, t) /\ Current(x, t)
      /\ From(e) = Good(x.generation, t.answered) /\ From(e) \subseteq Msg
  BY EndKnown
<1>2. PICK outcome \in SendOutcomes(x, message, TRUE) :
          LET y == Drained(AfterSend(spent, message, outcome))
              counted == message.kind = "event" /\ outcome \in {"sent", "deferred"}
              v == IF counted THEN [t EXCEPT !.sent = @ + 1] ELSE t
          IN  /\ Become(e, y, Nothing)
              /\ SendOne(e, x, message, TRUE, outcome)
              /\ trace' = [trace EXCEPT ![e] = Ended(v, x, y)]
  BY Zenon DEF SendEvent
<1>. DEFINE z == AfterSend(spent, message, outcome)  y == Drained(z)
            counted == message.kind = "event" /\ outcome \in {"sent", "deferred"}
            v == IF counted THEN [t EXCEPT !.sent = @ + 1] ELSE t
            u == Ended(v, x, y)
<1>3. Become(e, y, Nothing) /\ SendOne(e, x, message, TRUE, outcome) /\ trace' = [trace EXCEPT ![e] = u]
  BY <1>2
<1>4. x.up
  BY DEF SendEvent, RemoteAvailable
<1>5. sequence \in Nat /\ t.life[remote] \in Nat /\ t.sent + 1 \in Nat
      /\ x.publication[remote] <= t.life[remote]
  <2>1. x.nextSequence[remote] \in Nat /\ t.life[remote] \in Nat /\ t.sent \in Nat
    BY <1>1 DEF Peer, Trace
  <2>2. x.publication[remote] <= t.life[remote]
    BY <1>1, <1>4 DEF Current
  <2>. QED
    BY <2>1, <2>2
<1>6. message \in Msg /\ (message.kind = "sequenced" => x.publication[message.remote] <= message.life)
      /\ message.kind \in {"event", "sequenced"}
  <2>1. plain \in Msg /\ plain.kind = "event"
    <3>. DEFINE m == Message("event", remote, 0)  a == [m EXCEPT !.needs = needs]
                k == t.sent + 1
    <3>1. m \in Msg /\ m.kind = "event"
      BY DEF Message, Msg
    <3>. HIDE DEF m
    <3>2. a \in Msg /\ a.kind = "event"
      BY <3>1 DEF Msg
    <3>. HIDE DEF a
    <3>3. k \in Nat
      BY <1>5
    <3>. HIDE DEF k
    <3>4. [a EXCEPT !.number = k] \in Msg /\ [a EXCEPT !.number = k].kind = "event"
      BY <3>2, <3>3 DEF Msg
    <3>5. plain = [a EXCEPT !.number = k]
      BY Zenon DEF a, m, k
    <3>. QED
      BY <3>4, <3>5
  <2>2. state \in Msg /\ state.kind = "sequenced" /\ state.life = t.life[remote] /\ state.remote = remote
    <3>. DEFINE m == Message("sequenced", remote, 0)  a == [m EXCEPT !.needs = needs]
                l == t.life[remote]
                b == [a EXCEPT !.sequence = sequence]  c == [b EXCEPT !.life = l]
    <3>1. m \in Msg /\ m.kind = "sequenced" /\ m.remote = remote
      BY DEF Message, Msg
    <3>. HIDE DEF m
    <3>2. a \in Msg /\ a.kind = "sequenced" /\ a.remote = remote
      BY <3>1 DEF Msg
    <3>3. sequence \in Nat /\ l \in Nat
      BY <1>5
    <3>. HIDE DEF a, sequence, l
    <3>4. b \in Msg /\ b.kind = "sequenced" /\ b.remote = remote
      BY <3>2, <3>3 DEF Msg
    <3>. HIDE DEF b
    <3>5. c \in Msg /\ c.kind = "sequenced" /\ c.remote = remote /\ c.life = l
      BY <3>3, <3>4 DEF Msg
    <3>6. state = c
      BY Zenon DEF a, b, m, l
    <3>. QED
      BY <3>5, <3>6 DEF l
  <2>. HIDE DEF plain, state
  <2>. QED
    BY <1>5, <2>1, <2>2
<1>7. /\ Sane(spent, From(e)) /\ spent \in Peer /\ spent.publication = x.publication
      /\ Same(x, spent, {"nextSequence"})
  <2>. DEFINE ns == [x.nextSequence EXCEPT ![remote] = sequence]
  <2>1. ns \in [Remotes -> Nat]
    BY <1>1, <1>5 DEF Peer
  <2>2. Sane([x EXCEPT !.nextSequence = ns], From(e)) /\ Same(x, [x EXCEPT !.nextSequence = ns], {"nextSequence"})
    <3>. HIDE DEF ns
    <3>. QED
      BY <1>1, <2>1, FieldSane
  <2>3. [x EXCEPT !.nextSequence[remote] = sequence] = [x EXCEPT !.nextSequence = ns]
    OBVIOUS
  <2>4. Same(x, x, {"nextSequence"})
    BY DEF Same
  <2>. HIDE DEF ns, sequence
  <2>5. Sane(spent, From(e)) /\ Same(x, spent, {"nextSequence"})
    BY <1>1, <2>2, <2>3, <2>4
  <2>. HIDE DEF spent
  <2>. QED
    BY <2>5 DEF Sane, Same, Fields
<1>. HIDE DEF message, spent
<1>8. Stamped(spent, message) \in From(e) /\ LiveRequest(spent, Stamped(spent, message))
  <2>1. Stamped(spent, message) \in Good(x.generation, t.answered) /\ Stamped(spent, message).kind # "request"
    BY <1>6, <1>7, StampedGood
  <2>. QED
    BY <1>1, <2>1 DEF LiveRequest
<1>9. Stamped(x, message) \in Good(x.generation, t.answered)
  BY <1>1, <1>6, StampedGood
<1>10. Sane(z, From(e)) /\ Same(spent, z, {"deferred", "terminal"})
  BY <1>1, <1>7, <1>8, AfterSendSane
<1>. HIDE DEF z
<1>11. Same(x, z, {"nextSequence", "deferred", "terminal"})
  BY <1>7, <1>10 DEF Same
<1>12. v \in Trace /\ v.life = t.life /\ v.last = t.last /\ v.answered = t.answered /\ v.outcome = t.outcome
  BY <1>1, <1>5 DEF Trace
<1>. HIDE DEF v
<1>13. /\ u \in Trace /\ u.life = t.life /\ u.last = t.last /\ u.answered = t.answered
       /\ \A q \in 1 .. MaxRequests : u.outcome[q] = "success" => t.outcome[q] = "success"
  <2>. HIDE DEF y
  <2>. QED
    BY <1>12, EndedTrace
<1>. HIDE DEF u
<1>14. {"nextSequence", "deferred", "terminal"} \in SUBSET Calm
  BY DEF Calm
<1>15. Moves(x, t, y, u, trace[Other(e)].answered) /\ ((~y.up /\ y.queued = 0) \/ y = z)
  BY <1>1, <1>10, <1>11, <1>13, <1>14, DrainedMoves
<1>16. z.up = x.up /\ z.queued = x.queued
  BY <1>11 DEF Same, Fields
<1>17. (y.up => x.up /\ y.queued = x.queued) /\ (~y.up => y.queued = 0)
  BY <1>4, <1>15, <1>16
<1>. HIDE DEF y
<1>18. peers' = [peers EXCEPT ![e] = y]
  BY <1>3, BecomeNothing
<1>19. /\ EndsOK' /\ LinksOK' /\ AnswersMatch' /\ Grown /\ FreshStep
       /\ peers'[e] = y /\ \A f \in Ends : f # e => peers'[f] = peers[f]
  <2>1. Stamped(x, message) \in Good(peers[e].generation, u.answered)
    BY <1>9, <1>13
  <2>. QED
    BY <1>3, <1>15, <1>18, <2>1, SendStep
<1>20. QueuesOK'
  BY <1>3, <1>17, <1>19, BecomeNothing
<1>. QED
  BY <1>19, <1>20 DEF StepOK, StateOK

\* What StartRequest does to the tables.
Spend(x) == [x EXCEPT !.nextRequest = x.nextRequest + 1]

Admit(y, request, remote) ==
    [y EXCEPT !.pending = @ \cup {[request |-> request, remote |-> remote, due |-> FALSE]},
              !.outgoing = @ + 1]

\* A request that is sent or held back joins the table.
LEMMA AdmittedSane ==
    ASSUME NEW x, NEW M, M \subseteq Msg, Sane(x, M), x.outgoing < MaximumInFlightRemoteRequests,
           NEW message \in Msg, message.kind = "request", message.request = x.nextRequest,
           NEW outcome \in {"sent", "deferred"},
           NEW spent, spent = Spend(x),
           Stamped(spent, message) \in M,
           Stamped(spent, message).request = message.request, Stamped(spent, message).remote = message.remote,
           NEW y, y = AfterSend(spent, message, outcome)
    PROVE  /\ Sane(Admit(y, message.request, message.remote), M)
           /\ Same(x, Admit(y, message.request, message.remote),
                   {"nextRequest", "deferred", "terminal", "pending", "outgoing"})
<1>. DEFINE r == [request |-> x.nextRequest, remote |-> message.remote, due |-> FALSE]
            d == IF outcome = "deferred" THEN Append(spent.deferred, Stamped(spent, message)) ELSE spent.deferred
            b == spent.terminal \/ outcome = "cut"
            P == y.pending \cup {r}  n == y.outgoing + 1
            a == [spent EXCEPT !.deferred = d]  c == [a EXCEPT !.terminal = b]
            f == [c EXCEPT !.pending = P]  z == [f EXCEPT !.outgoing = n]
<1>1. Sane(spent, M) /\ Same(x, spent, {"nextRequest"}) /\ spent.nextRequest = x.nextRequest + 1
  BY SpentSane DEF Spend
<1>2. /\ x \in Peer /\ spent \in Peer /\ OutTable(x) /\ InTable(spent) /\ Live(x)
      /\ spent.deferred \in Seq(M) /\ x.nextRequest \in Nat
  BY <1>1 DEF Sane, Peer
<1>3. spent.deferred = x.deferred /\ spent.pending = x.pending /\ spent.outgoing = x.outgoing
  BY <1>1 DEF Same, Fields
<1>4. /\ d \in Seq(M) /\ d \in Seq(Msg) /\ b \in BOOLEAN
      /\ \A k \in DOMAIN d : d[k] = Stamped(spent, message) \/ \E l \in DOMAIN x.deferred : d[k] = x.deferred[l]
  <2>1. d \in Seq(M)
    BY <1>2
  <2>2. \A k \in DOMAIN d : d[k] = Stamped(spent, message) \/ \E l \in DOMAIN x.deferred : d[k] = x.deferred[l]
    BY <1>2, <1>3
  <2>. HIDE DEF d
  <2>3. b \in BOOLEAN
    BY <1>2
  <2>. QED
    BY <2>1, <2>2, <2>3
<1>5. y = c
  BY Zenon DEF AfterSend, a, c, d, b
<1>. HIDE DEF d, b, P, n, a, c, f, z
<1>6. a \in Peer /\ Same(spent, a, {"deferred"}) /\ a.deferred = d
  BY <1>2, <1>4 DEF Peer, Same, Fields, a
<1>7. c \in Peer /\ Same(a, c, {"terminal"})
  BY <1>4, <1>6 DEF Peer, Same, Fields, c
<1>8. c.pending = x.pending /\ c.outgoing = x.outgoing
  BY <1>3, <1>6, <1>7 DEF Same, Fields
<1>9. r \in Outgoing /\ r.request = x.nextRequest /\ r.remote = message.remote
  BY <1>2 DEF Outgoing, Msg
<1>. HIDE DEF r
<1>10. P = x.pending \cup {r} /\ n = x.outgoing + 1 /\ P \in SUBSET Outgoing /\ n \in Int
  <2>1. P = x.pending \cup {r} /\ n = x.outgoing + 1
    BY <1>5, <1>8 DEF P, n
  <2>2. x.pending \in SUBSET Outgoing /\ x.outgoing \in Int
    BY <1>2 DEF Peer
  <2>. QED
    BY <1>9, <2>1, <2>2
<1>11. /\ \A p \in x.pending : p.request \in Nat /\ p.request < x.nextRequest
       /\ \A p, q \in x.pending : p.request = q.request => p = q
  BY <1>2 DEF OutTable, Peer, Outgoing
<1>12. r \notin x.pending
  BY <1>2, <1>9, <1>11
<1>13. IsFiniteSet(P) /\ Cardinality(P) = n /\ n <= MaximumInFlightRemoteRequests
  <2>1. IsFiniteSet(x.pending) /\ x.outgoing = Cardinality(x.pending)
    BY <1>2 DEF OutTable
  <2>2. IsFiniteSet(P) /\ Cardinality(P) = Cardinality(x.pending) + 1
    BY <1>10, <1>12, <2>1, FS_AddElement
  <2>3. Cardinality(x.pending) \in Nat /\ MaximumInFlightRemoteRequests \in Nat
    BY <2>1, FS_CardinalityType, RemoteBounds
  <2>. QED
    BY <1>10, <2>1, <2>2, <2>3
<1>14. f \in Peer /\ Same(c, f, {"pending"}) /\ f.pending = P
  BY <1>7, <1>10 DEF Peer, Same, Fields, f
<1>15. z \in Peer /\ Same(f, z, {"outgoing"}) /\ z.outgoing = n
  BY <1>10, <1>14 DEF Peer, Same, Fields, z
<1>16. Same(x, z, {"nextRequest", "deferred", "terminal", "pending", "outgoing"})
  BY <1>1, <1>6, <1>7, <1>14, <1>15 DEF Same
<1>17. z.pending = P /\ z.deferred = d /\ z.nextRequest = x.nextRequest + 1
  <2>1. a.nextRequest = x.nextRequest + 1 /\ a.deferred = d
    BY <1>1, <1>6 DEF Same, Fields
  <2>2. c.nextRequest = x.nextRequest + 1 /\ c.deferred = d
    BY <1>7, <2>1 DEF Same, Fields
  <2>3. f.nextRequest = x.nextRequest + 1 /\ f.deferred = d
    BY <1>14, <2>2 DEF Same, Fields
  <2>. QED
    BY <1>14, <1>15, <2>3 DEF Same, Fields
<1>18. OutTable(z)
  <2>1. \A p, q \in P : p.request = q.request => p = q
    BY <1>2, <1>9, <1>10, <1>11
  <2>2. \A p \in P : p.request < x.nextRequest + 1
    BY <1>2, <1>9, <1>10, <1>11
  <2>. QED
    BY <1>13, <1>15, <1>17, <2>1, <2>2 DEF OutTable
<1>19. InTable(z)
  BY <1>16, SameTables DEF Sane
<1>20. Live(z)
  <2>. SUFFICES ASSUME NEW k \in DOMAIN d PROVE LiveRequest(z, d[k])
    BY <1>17 DEF Live
  <2>1. CASE d[k] = Stamped(spent, message)
    <3>1. r \in P
      BY <1>10
    <3>. QED
      BY <1>9, <1>17, <2>1, <3>1 DEF LiveRequest
  <2>2. CASE \E l \in DOMAIN x.deferred : d[k] = x.deferred[l]
    <3>1. x.pending \subseteq P
      BY <1>10
    <3>. QED
      BY <1>2, <1>17, <2>2, <3>1 DEF Live, LiveRequest
  <2>. QED
    BY <1>4, <2>1, <2>2
<1>21. Sane(z, M)
  BY <1>4, <1>15, <1>17, <1>18, <1>19, <1>20 DEF Sane
<1>22. Admit(y, message.request, message.remote) = z
  BY <1>5, Zenon DEF Admit, P, n, f, z, r
<1>. QED
  BY <1>16, <1>21, <1>22

\* StartRequest.
LEMMA StartRequestStep ==
    ASSUME StateOK, NEW e \in Ends, NEW remote \in Remotes, NEW needs \in SUBSET Objects,
           StartRequest(e, remote, needs)
    PROVE  StepOK
<1>. DEFINE x == peers[e]  t == trace[e]  request == x.nextRequest
            message == [Message("request", remote, request) EXCEPT !.needs = needs]
            spent == Spend(x)
<1>1. /\ Sane(x, From(e)) /\ x \in Peer /\ t \in Trace /\ EndOK(x, t)
      /\ From(e) = Good(x.generation, t.answered) /\ From(e) \subseteq Msg
  BY EndKnown
<1>2. x.up /\ x.outgoing < MaximumInFlightRemoteRequests
  BY DEF StartRequest, RemoteAvailable
<1>3. PICK outcome \in SendOutcomes(x, message, TRUE) :
          LET y == AfterSend(spent, message, outcome)
              admitted == Admit(y, request, remote)
              z == IF outcome \in {"sent", "deferred"} THEN admitted ELSE Drained(y)
          IN  /\ Become(e, z, Nothing)
              /\ SendOne(e, x, message, TRUE, outcome)
              /\ trace' = [trace EXCEPT ![e] =
                     IF outcome \in {"sent", "deferred"}
                     THEN [@ EXCEPT !.outcome[request] = "pending"]
                     ELSE Ended(@, x, z)]
  BY Zenon DEF StartRequest, Spend, Admit
<1>4. message \in Msg /\ message.kind = "request" /\ message.request = request /\ message.remote = remote
  <2>. DEFINE m == Message("request", remote, request)
  <2>1. request \in Nat
    BY <1>1 DEF Peer
  <2>2. m \in Msg /\ m.kind = "request" /\ m.request = request /\ m.remote = remote
    BY <2>1 DEF Message, Msg
  <2>. HIDE DEF m
  <2>3. [m EXCEPT !.needs = needs] \in Msg /\ [m EXCEPT !.needs = needs].kind = "request"
        /\ [m EXCEPT !.needs = needs].request = request /\ [m EXCEPT !.needs = needs].remote = remote
    BY <2>2 DEF Msg
  <2>. QED
    BY <2>3 DEF m
<1>5. Sane(spent, From(e)) /\ Same(x, spent, {"nextRequest"})
  BY <1>1, SpentSane DEF Spend
<1>6. spent \in Peer
  BY <1>5 DEF Sane
<1>7. /\ Stamped(spent, message) \in From(e) /\ Stamped(spent, message).request = message.request
      /\ Stamped(spent, message).remote = message.remote
      /\ Stamped(x, message) \in Good(x.generation, t.answered)
  <2>. DEFINE g == x.generation  a == t.answered
  <2>1. /\ message.kind = "sequenced" => spent.publication[message.remote] <= message.life
        /\ message.kind = "sequenced" => x.publication[message.remote] <= message.life
        /\ message.kind = "response" => <<g, message.request>> \in a
    BY <1>4
  <2>2. From(e) = Good(g, a) /\ x \in Peer /\ message \in Msg
    BY <1>1, <1>4
  <2>. HIDE DEF spent, message, x, t, g, a
  <2>3. /\ Stamped(spent, message) \in Good(g, a) /\ Stamped(spent, message).request = message.request
        /\ Stamped(spent, message).remote = message.remote
    BY <1>6, <2>1, <2>2, StampedGood
  <2>4. Stamped(x, message) \in Good(g, a)
    BY <2>1, <2>2, StampedGood
  <2>. QED
    BY <2>2, <2>3, <2>4 DEF g, a
<1>. DEFINE y == AfterSend(spent, message, outcome)
            admitted == Admit(y, request, remote)
            z == IF outcome \in {"sent", "deferred"} THEN admitted ELSE Drained(y)
            u == IF outcome \in {"sent", "deferred"} THEN [t EXCEPT !.outcome[request] = "pending"]
                 ELSE Ended(t, x, z)
            G == {"nextRequest", "deferred", "terminal", "pending", "outgoing"}
<1>8. Become(e, z, Nothing) /\ SendOne(e, x, message, TRUE, outcome) /\ trace' = [trace EXCEPT ![e] = u]
  <2>1. Become(e, z, Nothing) /\ SendOne(e, x, message, TRUE, outcome)
    BY <1>3, Zenon
  <2>2. trace' = [trace EXCEPT ![e] =
                     IF outcome \in {"sent", "deferred"}
                     THEN [@ EXCEPT !.outcome[request] = "pending"]
                     ELSE Ended(@, x, z)]
    BY <1>3, Zenon
  <2>. HIDE DEF z, request
  <2>. QED
    BY <2>1, <2>2
<1>9. G \in SUBSET Calm
  BY DEF Calm
<1>10. /\ u \in Trace /\ u.life = t.life /\ u.last = t.last /\ u.answered = t.answered
       /\ \A q \in 1 .. MaxRequests : u.outcome[q] = "success" => t.outcome[q] = "success"
  <2>1. CASE outcome \in {"sent", "deferred"}
    <3>. DEFINE w == Outcome(t, request, "pending")
    <3>1. /\ w \in Trace /\ w.life = t.life /\ w.last = t.last /\ w.answered = t.answered
          /\ \A q \in 1 .. MaxRequests : w.outcome[q] = "success" => t.outcome[q] = "success"
      <4>1. "pending" \in {"none", "pending", "failed", "success"} /\ "pending" # "success"
        OBVIOUS
      <4>. HIDE DEF request
      <4>. QED
        BY <1>1, <4>1, OutcomeTrace
    <3>2. u = w
      BY <2>1 DEF Outcome
    <3>. HIDE DEF w, u
    <3>. QED
      BY <3>1, <3>2
  <2>2. CASE outcome \notin {"sent", "deferred"}
    <3>. HIDE DEF z
    <3>. QED
      BY <1>1, <2>2, EndedTrace
  <2>. QED
    BY <2>1, <2>2
<1>. HIDE DEF u
<1>11. /\ Moves(x, t, z, u, trace[Other(e)].answered)
       /\ (z.up => x.up /\ z.queued = x.queued) /\ (~z.up => z.queued = 0)
  <2>1. CASE outcome \in {"sent", "deferred"}
    <3>1. Sane(admitted, From(e)) /\ Same(x, admitted, G)
      <4>. HIDE DEF message, G, From
      <4>1. /\ Sane(Admit(y, message.request, message.remote), From(e))
            /\ Same(x, Admit(y, message.request, message.remote),
                    {"nextRequest", "deferred", "terminal", "pending", "outgoing"})
        BY <1>1, <1>2, <1>4, <1>7, <2>1, AdmittedSane
      <4>. QED
        BY <1>4, <4>1 DEF G
    <3>2. z = admitted
      BY <2>1
    <3>. HIDE DEF admitted, z, G
    <3>3. Moves(x, t, z, u, trace[Other(e)].answered)
      BY <1>1, <1>9, <1>10, <3>1, <3>2, QuietMoves
    <3>4. z.up = x.up /\ z.queued = x.queued
      BY <3>1, <3>2 DEF Same, Fields, G
    <3>. QED
      BY <1>2, <3>3, <3>4
  <2>2. CASE outcome \notin {"sent", "deferred"}
    <3>. HIDE DEF spent, message, G
    <3>1. outcome # "deferred"
      BY <2>2
    <3>2. Sane(y, From(e)) /\ Same(spent, y, {"deferred", "terminal"})
      BY <1>1, <1>5, <3>1, AfterSendSane
    <3>. HIDE DEF y
    <3>3. Same(x, y, G)
      BY <1>5, <3>2 DEF Same, G
    <3>4. z = Drained(y)
      BY <2>2
    <3>. HIDE DEF z
    <3>5. Moves(x, t, z, u, trace[Other(e)].answered) /\ ((~z.up /\ z.queued = 0) \/ z = y)
      BY <1>1, <1>9, <1>10, <3>2, <3>3, <3>4, DrainedMoves
    <3>6. y.up = x.up /\ y.queued = x.queued
      BY <3>3 DEF Same, Fields, G
    <3>. QED
      BY <1>2, <3>5, <3>6
  <2>. QED
    BY <2>1, <2>2
<1>. HIDE DEF z, message
<1>12. peers' = [peers EXCEPT ![e] = z]
  BY <1>8, BecomeNothing
<1>13. /\ EndsOK' /\ LinksOK' /\ AnswersMatch' /\ Grown /\ FreshStep
       /\ peers'[e] = z /\ \A f \in Ends : f # e => peers'[f] = peers[f]
  <2>1. Stamped(x, message) \in Good(peers[e].generation, u.answered)
    BY <1>7, <1>10
  <2>. QED
    BY <1>8, <1>11, <1>12, <2>1, SendStep
<1>14. QueuesOK'
  BY <1>8, <1>11, <1>13, BecomeNothing
<1>. QED
  BY <1>13, <1>14 DEF StepOK, StateOK

\* PublishRemote: a life of the remote begins.
LEMMA PublishMoves ==
    ASSUME StateOK, NEW e \in Ends, NEW remote \in Remotes, PublishRemote(e, remote),
           dispatch' = dispatch, wire' = wire, datagrams' = datagrams
    PROVE  StepOK
<1>. DEFINE x == peers[e]  t == trace[e]  y == Published(x, remote)
            l == [t.life EXCEPT ![remote] = t.life[remote] + 1]
            u == [t EXCEPT !.life = l]
            F == {"published", "materialized", "publication", "nextSequence", "latestSequence"}
<1>1. /\ Sane(x, From(e)) /\ x \in Peer /\ t \in Trace /\ Current(x, t)
      /\ From(e) = Good(x.generation, t.answered)
  BY EndKnown
<1>2. /\ Sane(y, From(e)) /\ Same(x, y, F) /\ y.published = x.published \cup {remote}
      /\ y.publication = [x.publication EXCEPT ![remote] = x.publication[remote] + 1]
      /\ y.latestSequence = [x.latestSequence EXCEPT ![remote] = 0]
  BY <1>1, PublishedSane
<1>3. peers' = [peers EXCEPT ![e] = y] /\ trace' = [trace EXCEPT ![e] = u]
  BY DEF PublishRemote
<1>. HIDE DEF y
<1>4. l \in [Remotes -> Nat]
  BY <1>1 DEF Trace
<1>. HIDE DEF l
<1>5. /\ u \in Trace /\ u.life = l /\ u.last = t.last /\ u.answered = t.answered /\ u.outcome = t.outcome
  BY <1>1, <1>4 DEF Trace
<1>. HIDE DEF u
<1>6. y.up = x.up /\ y.queued = x.queued /\ y.generation = x.generation
  BY <1>2 DEF Same, Fields
<1>7. \A r \in Remotes : t.last[r].of \in Nat /\ t.life[r] \in Nat /\ t.last[r].of <= t.life[r]
  BY <1>1 DEF Current, Trace, Delivered
<1>8. /\ l[remote] = t.life[remote] + 1
      /\ \A r \in Remotes : r # remote => l[r] = t.life[r]
  BY <1>1 DEF l, Trace
<1>9. Current(y, u)
  <2>1. ASSUME y.up, NEW r \in Remotes
        PROVE  y.publication[r] <= u.life[r]
    <3>1. x.publication[r] \in Nat /\ x.publication[r] <= t.life[r] /\ t.life[r] \in Nat
      BY <1>1, <1>6, <2>1 DEF Current, Peer, Trace
    <3>2. CASE r = remote
      <4>1. y.publication[r] = x.publication[r] + 1
        BY <1>1, <1>2, <3>2 DEF Peer
      <4>. QED
        BY <1>5, <1>8, <3>1, <3>2, <4>1
    <3>3. CASE r # remote
      <4>1. y.publication[r] = x.publication[r]
        BY <1>1, <1>2, <3>3 DEF Peer
      <4>. QED
        BY <1>5, <1>8, <3>1, <3>3, <4>1
    <3>. QED
      BY <3>2, <3>3
  <2>2. \A r \in Remotes : u.last[r].of <= u.life[r]
    <3>. SUFFICES ASSUME NEW r \in Remotes PROVE t.last[r].of <= l[r]
      BY <1>5
    <3>1. CASE r = remote
      BY <1>7, <1>8, <3>1
    <3>2. CASE r # remote
      BY <1>7, <1>8, <3>2
    <3>. QED
      BY <3>1, <3>2
  <2>3. ASSUME y.up, NEW r \in y.published, u.last[r].of = u.life[r]
        PROVE  u.last[r].sequence <= y.latestSequence[r]
    <3>1. r # remote
      BY <1>5, <1>7, <1>8, <2>3
    <3>2. r \in x.published /\ r \in Remotes /\ l[r] = t.life[r] /\ y.latestSequence[r] = x.latestSequence[r]
      BY <1>1, <1>2, <1>8, <2>3, <3>1 DEF Peer
    <3>. QED
      BY <1>1, <1>5, <1>6, <2>3, <3>2 DEF Current
  <2>. QED
    BY <2>1, <2>2, <2>3 DEF Current
<1>10. EndOK(y, u)
  BY <1>1, <1>2, <1>5, <1>6, <1>9 DEF EndOK
<1>11. Moves(x, t, y, u, trace[Other(e)].answered)
  <2>1. Advances(x, t, y, u, trace[Other(e)].answered)
    BY <1>5, <1>6, <1>10 DEF Advances, Fresh
  <2>2. ASSUME Numbers(x, t)
        PROVE  Numbers(y, u)
    <3>. SUFFICES ASSUME y.up PROVE y.publication = u.life
      BY DEF Numbers
    <3>1. t.life = x.publication
      BY <1>6, <2>2 DEF Numbers
    <3>. QED
      BY <1>2, <1>5, <3>1 DEF l
  <2>. QED
    BY <2>1, <2>2 DEF Moves
<1>12. EndsOK /\ LinksOK /\ QueuesOK /\ AnswersMatch
  BY DEF StateOK
<1>13. /\ EndsOK' /\ AnswersMatch' /\ Grown /\ FreshStep /\ peers'[e] = y
       /\ \A f \in Ends : f # e => peers'[f] = peers[f]
  BY <1>3, <1>11, <1>12, OneMoves
<1>14. LinksOK' /\ QueuesOK'
  BY <1>6, <1>12, <1>13, LinksKept, QueuesStill
<1>. QED
  BY <1>13, <1>14 DEF StepOK, StateOK

\* The errors for the requests that an unpublished remote abandons.
LEMMA AbandonmentsTyped ==
    ASSUME NEW x \in Peer, InTable(x), NEW remote \in Remotes
    PROVE  Abandonments(x, remote) \in Seq({m \in Msg : m.kind = "error"})
<1>. DEFINE S == {m \in Msg : m.kind = "error"}
            all == [q \in 1 .. x.latestRequest |-> Message("error", remote, q)]
            abandoned == {i \in x.incoming : i.remote = remote /\ i.accept}
            K == {i.request : i \in abandoned}
<1>1. x.latestRequest \in Nat
  BY DEF Peer
<1>2. \A q \in 1 .. x.latestRequest : Message("error", remote, q) \in S
  BY <1>1 DEF Message, Msg
<1>3. all \in Seq(S) /\ DOMAIN all = 1 .. x.latestRequest
  <2>. HIDE DEF S
  <2>. QED
    BY <1>1, <1>2, SeqDef
<1>4. K \in SUBSET DOMAIN all
  <2>1. \A i \in x.incoming : i.request \in Nat \ {0} /\ i.request <= x.latestRequest
    BY DEF InTable, Peer, Incoming
  <2>2. \A i \in x.incoming : i.request \in 1 .. x.latestRequest
    BY <1>1, <2>1
  <2>. QED
    BY <1>3, <2>2
<1>5. Abandonments(x, remote) = Subsequence(all, K)
  BY DEF Abandonments
<1>. HIDE DEF all, K, S
<1>6. Abandonments(x, remote) \in Seq(S)
  BY <1>3, <1>4, <1>5, SubsequenceElements
<1>. QED
  BY <1>6 DEF S

\* Unpublish.
LEMMA UnpublishStep ==
    ASSUME StateOK, NEW e \in Ends, NEW remote \in Remotes, NEW erased \in BOOLEAN,
           Unpublish(e, remote, erased), erased => e[2] = "client"
    PROVE  StepOK
<1>. DEFINE x == peers[e]  t == trace[e]  errors == Abandonments(x, remote)
            q == dispatch[ManagerOf(e)]
            away == Cardinality({n \in DOMAIN q : q[n].end = e /\ q[n].message.remote = remote})
            b == Unpublished(e, x, remote)
<1>1. /\ Sane(x, From(e)) /\ x \in Peer /\ t \in Trace /\ EndOK(x, t) /\ InTable(x)
      /\ From(e) = Good(x.generation, t.answered) /\ From(e) \subseteq Msg
  BY EndKnown DEF Sane
<1>2. PICK sent \in SUBSET DOMAIN errors, cut \in BOOLEAN :
          LET y == [b EXCEPT !.terminal = @ \/ cut, !.publication[remote] = IF erased THEN 0 ELSE @]
          IN  /\ peers' = [peers EXCEPT ![e] = Drained(y)]
              /\ dispatch' = [dispatch EXCEPT ![ManagerOf(e)] =
                     Subsequence(@, {n \in DOMAIN @ :
                         @[n].end # e \/ (Drained(y).up /\ @[n].message.remote # remote)})]
              /\ Transmit(e, x, Subsequence(errors, sent))
              /\ trace' = [trace EXCEPT ![e] = Ended(@, x, Drained(y))]
  BY Zenon DEF Unpublish, Become
<1>. DEFINE d == [b EXCEPT !.terminal = b.terminal \/ cut]
            pn == [d.publication EXCEPT ![remote] = IF erased THEN 0 ELSE @]
            c == [d EXCEPT !.publication = pn]  z == Drained(c)  u == Ended(t, x, z)
            F == {"pending", "deferred", "outgoing", "published", "materialized",
                  "nextSequence", "latestSequence", "handlers", "incoming", "queued"}
<1>3. QueuedRemote(e, remote) = away /\ away \in Int
  <2>1. QueuedRemote(e, remote) = away
    BY DEF QueuedRemote, QueuedOf
  <2>2. q \in Seq(Entry)
    BY OtherEnd DEF StateOK, QueuesOK
  <2>3. IsFiniteSet(Places(q, e))
    BY <2>2, PlacesFinite
  <2>4. {n \in DOMAIN q : q[n].end = e /\ q[n].message.remote = remote} \in SUBSET Places(q, e)
    BY DEF Places
  <2>. HIDE DEF q
  <2>5. away \in Nat
    BY <2>3, <2>4, FS_Subset, FS_CardinalityType
  <2>. QED
    BY <2>1, <2>5
<1>. HIDE DEF away, b
<1>4. /\ Sane(b, From(e)) /\ Same(x, b, F) /\ b.published = x.published \ {remote}
      /\ b.latestSequence = [x.latestSequence EXCEPT ![remote] = 0]
      /\ b.queued = x.queued - away
  <2>1. b = Unpublished(e, x, remote)
    BY DEF b
  <2>2. From(e) \subseteq Msg /\ Sane(x, From(e)) /\ away \in Int /\ away = QueuedRemote(e, remote)
    BY <1>1, <1>3
  <2>. HIDE DEF x
  <2>3. Sane(b, From(e)) /\ Forgets(x, b, remote, away)
    BY <2>1, <2>2, UnpublishedSane
  <2>. QED
    BY <2>3 DEF Forgets
<1>5. b \in Peer /\ (b.terminal \/ cut) \in BOOLEAN
  BY <1>4 DEF Sane
<1>6. Sane(d, From(e)) /\ Same(b, d, {"terminal"}) /\ d \in Peer
  <2>. DEFINE v == b.terminal \/ cut
  <2>1. v \in BOOLEAN
    OBVIOUS
  <2>. HIDE DEF v
  <2>2. Sane([b EXCEPT !.terminal = v], From(e)) /\ Same(b, [b EXCEPT !.terminal = v], {"terminal"})
    BY <1>4, <2>1, FieldSane
  <2>. QED
    BY <2>2 DEF v, Sane
<1>7. /\ peers' = [peers EXCEPT ![e] = z] /\ Transmit(e, x, Subsequence(errors, sent))
      /\ trace' = [trace EXCEPT ![e] = u]
      /\ dispatch' = [dispatch EXCEPT ![ManagerOf(e)] =
             Subsequence(@, {n \in DOMAIN @ : @[n].end # e \/ (z.up /\ @[n].message.remote # remote)})]
  <2>1. [b EXCEPT !.terminal = @ \/ cut, !.publication[remote] = IF erased THEN 0 ELSE @] = c
    OBVIOUS
  <2>. HIDE DEF c
  <2>. QED
    BY <1>2, <2>1, Zenon
<1>. HIDE DEF d, F
<1>8. /\ Sane(c, From(e)) /\ Same(d, c, {"publication"}) /\ c.publication = pn
      /\ \A r \in Remotes : c.publication[r] \in Nat /\ c.publication[r] <= d.publication[r]
      /\ ~erased => c.publication = d.publication
  <2>1. d.publication \in [Remotes -> Nat]
    BY <1>6 DEF Peer
  <2>2. /\ pn \in [Remotes -> Nat] /\ \A r \in Remotes : pn[r] <= d.publication[r]
        /\ ~erased => pn = d.publication
    BY <2>1
  <2>. HIDE DEF pn
  <2>3. Sane(c, From(e)) /\ Same(d, c, {"publication"})
    BY <1>6, <2>2, FieldSane
  <2>4. c.publication = pn
    BY <1>6 DEF Peer
  <2>. QED
    BY <2>2, <2>3, <2>4
<1>. HIDE DEF c, pn
<1>9. /\ c.published = x.published \ {remote} /\ c.queued = x.queued - away
      /\ c.latestSequence = [x.latestSequence EXCEPT ![remote] = 0]
      /\ c.up = x.up /\ c.generation = x.generation
      /\ \A r \in Remotes : c.publication[r] <= x.publication[r]
      /\ ~erased => c.publication = x.publication
  <2>1. /\ b.up = x.up /\ b.publication = x.publication /\ b.generation = x.generation
    BY <1>4 DEF Same, Fields, F
  <2>2. /\ d.up = b.up /\ d.publication = b.publication /\ d.generation = b.generation
        /\ d.published = b.published /\ d.queued = b.queued /\ d.latestSequence = b.latestSequence
    BY <1>6 DEF Same, Fields
  <2>3. /\ c.up = d.up /\ c.generation = d.generation
        /\ c.published = d.published /\ c.queued = d.queued /\ c.latestSequence = d.latestSequence
    BY <1>8 DEF Same, Fields
  <2>. QED
    BY <1>4, <1>8, <2>1, <2>2, <2>3
<1>10. z = c \/ (~z.up /\ z.queued = 0 /\ z.generation = x.generation /\ Sane(z, From(e)))
  <2>1. CASE z = c
    BY <2>1
  <2>2. CASE z = RemovePeerState(c)
    <3>1. x.generation \in Nat
      BY <1>1 DEF Peer
    <3>2. z = NewPeer(FALSE, x.generation)
      BY <1>9, <2>2 DEF RemovePeerState
    <3>. HIDE DEF z
    <3>. QED
      BY <3>1, <3>2, NewPeerSane
  <2>. QED
    BY <2>1, <2>2 DEF Drained
<1>11. /\ u \in Trace /\ u.life = t.life /\ u.last = t.last /\ u.answered = t.answered
       /\ \A k \in 1 .. MaxRequests : u.outcome[k] = "success" => t.outcome[k] = "success"
  <2>. HIDE DEF z
  <2>. QED
    BY <1>1, EndedTrace
<1>. HIDE DEF u, z
<1>12. /\ Advances(x, t, z, u, trace[Other(e)].answered)
       /\ e[2] = "server" => (Numbers(x, t) => Numbers(z, u))
  <2>1. Sane(z, Good(x.generation, u.answered)) /\ z.generation = x.generation
    BY <1>1, <1>8, <1>9, <1>10, <1>11
  <2>2. z.up => /\ x.up /\ z.published \subseteq x.published
                /\ \A r \in Remotes : z.publication[r] <= x.publication[r]
                /\ \A r \in z.published : z.latestSequence[r] = x.latestSequence[r]
    BY <1>1, <1>9, <1>10 DEF Peer
  <2>3. Advances(x, t, z, u, trace[Other(e)].answered)
    BY <1>1, <1>11, <2>1, <2>2, CalmAdvances
  <2>4. ASSUME e[2] = "server", Numbers(x, t)
        PROVE  Numbers(z, u)
    BY <1>9, <1>10, <1>11, <2>4 DEF Numbers
  <2>. QED
    BY <2>3, <2>4
<1>13. EndsOK /\ LinksOK /\ QueuesOK /\ AnswersMatch
  BY DEF StateOK
<1>14. /\ EndsOK' /\ AnswersMatch' /\ Grown /\ FreshStep /\ From(e)' = Good(z.generation, u.answered)
       /\ peers'[e] = z /\ \A f \in Ends : f # e => peers'[f] = peers[f]
  <2>1. peers' = [peers EXCEPT ![e] = z] /\ trace' = [trace EXCEPT ![e] = u]
    BY <1>7
  <2>2. /\ Advances(peers[e], trace[e], z, u, trace[Other(e)].answered)
        /\ e[2] = "server" => (Numbers(peers[e], trace[e]) => Numbers(z, u))
    BY <1>12
  <2>3. /\ EndsOK' /\ AnswersMatch' /\ Grown /\ FreshStep /\ peers'[e] = z
        /\ \A f \in Ends : f # e => peers'[f] = peers[f]
    BY <1>13, <2>1, <2>2, OneAdvances
  <2>4. trace'[e] = u
    BY <1>13, <2>1 DEF EndsOK
  <2>. QED
    BY <2>3, <2>4 DEF From
<1>15. QueuesOK'
  <2>1. ~z.up => z.queued = 0
    <3>1. CASE z = c /\ ~z.up
      <4>1. x.queued = 0 /\ x.queued = Cardinality(Places(q, e))
        BY <1>9, <1>13, <3>1 DEF QueuesOK
      <4>2. q \in Seq(Entry)
        BY <1>13, OtherEnd DEF QueuesOK
      <4>3. IsFiniteSet(Places(q, e))
        BY <4>2, PlacesFinite
      <4>4. Places(q, e) = {}
        BY <4>1, <4>3, FS_EmptySet
      <4>5. {n \in DOMAIN q : q[n].end = e /\ q[n].message.remote = remote} = {}
        BY <4>4 DEF Places
      <4>6. away = 0
        BY <4>5, FS_EmptySet DEF away
      <4>. QED
        BY <1>9, <3>1, <4>1, <4>6
    <3>. QED
      BY <1>10, <3>1
  <2>2. z.up => z.queued = peers[e].queued - Cardinality({n \in DOMAIN dispatch[ManagerOf(e)] :
                                  /\ dispatch[ManagerOf(e)][n].end = e
                                  /\ dispatch[ManagerOf(e)][n].message.remote = remote})
    BY <1>9, <1>10 DEF away
  <2>. QED
    BY <1>7, <1>13, <1>14, <2>1, <2>2, BecameWithout
<1>16. LinksOK'
  <2>. DEFINE S == {m \in Msg : m.kind = "error"}  kept == Subsequence(errors, sent)
  <2>1. errors \in Seq(S)
    BY <1>1, AbandonmentsTyped
  <2>. HIDE DEF S, errors
  <2>2. kept \in Seq(S)
    BY <2>1, SubsequenceElements
  <2>. HIDE DEF kept
  <2>3. Len(kept) \in Nat /\ DOMAIN kept = 1 .. Len(kept) /\ \A n \in 1 .. Len(kept) : kept[n] \in S
    BY <2>2
  <2>4. ASSUME NEW n \in 1 .. Len(kept)
        PROVE  Stamped(x, kept[n]) \in From(e)'
    <3>1. kept[n] \in Msg /\ kept[n].kind = "error"
      BY <2>3 DEF S
    <3>2. Stamped(x, kept[n]) \in Good(x.generation, u.answered)
      BY <1>1, <3>1, StampedGood
    <3>. QED
      BY <1>12, <1>14, <3>2 DEF Advances
  <2>5. Transmit(e, x, kept)
    BY <1>7 DEF kept, errors
  <2>. QED
    BY <1>13, <1>14, <2>3, <2>4, <2>5, Transmitted
<1>. QED
  BY <1>14, <1>15, <1>16 DEF StepOK, StateOK

\* ServerPublishes and ServerUnpublishes.
LEMMA ServerPublishesStep ==
    ASSUME StateOK, NEW c \in Clients, NEW remote \in Remotes,
           ServerPublishes(c, remote) \/ ServerUnpublishes(c, remote)
    PROVE  StepOK
<1>1. <<c, "server">> \in Ends
  BY DEF Ends
<1>2. CASE ServerPublishes(c, remote)
  <2>1. /\ PublishRemote(<<c, "server">>, remote)
        /\ dispatch' = dispatch /\ wire' = wire /\ datagrams' = datagrams
    BY <1>2 DEF ServerPublishes
  <2>. QED
    BY <1>1, <2>1, PublishMoves
<1>3. CASE ServerUnpublishes(c, remote)
  <2>1. Unpublish(<<c, "server">>, remote, FALSE)
    BY <1>3 DEF ServerUnpublishes
  <2>. QED
    BY <1>1, <2>1, UnpublishStep
<1>. QED
  BY <1>2, <1>3

\* ClientApplies.
LEMMA ClientAppliesStep ==
    ASSUME StateOK, NEW c \in Clients, ClientApplies(c)
    PROVE  StepOK
<1>. DEFINE e == <<c, "client">>  frame == Head(structural[c])
<1>1. e \in Ends
  BY DEF Ends
<1>2. Sane(peers[e], From(e))
  BY <1>1, EndKnown
<1>3. ASSUME frame.object \in Objects,
             peers' = [peers EXCEPT ![e] = Materialized(@, frame.object, frame.enter)],
             UNCHANGED <<registered, dispatch, wire, datagrams, faults, trace>>
      PROVE  StepOK
  <2>. DEFINE y == Materialized(peers[e], frame.object, frame.enter)
  <2>1. Sane(y, From(e)) /\ Same(peers[e], y, {"materialized"})
    BY <1>2, <1>3, OthersSane
  <2>2. /\ peers' = [peers EXCEPT ![e] = y]
        /\ dispatch' = dispatch /\ wire' = wire /\ datagrams' = datagrams /\ trace' = trace
    BY <1>3
  <2>3. {"materialized"} \in SUBSET (Calm \ {"queued"})
    BY DEF Calm
  <2>. HIDE DEF y, e
  <2>. QED
    BY <1>1, <2>1, <2>2, <2>3, LocalStep
<1>4. ASSUME frame.object \in Remotes, PublishRemote(e, frame.object),
             UNCHANGED <<dispatch, wire, datagrams, faults>>
      PROVE  StepOK
  <2>1. dispatch' = dispatch /\ wire' = wire /\ datagrams' = datagrams
    BY <1>4
  <2>. QED
    BY <1>1, <1>4, <2>1, PublishMoves
<1>5. ASSUME frame.object \in Remotes, Unpublish(e, frame.object, FALSE)
      PROVE  StepOK
  BY <1>1, <1>5, UnpublishStep
<1>6. \/ /\ frame.object \in Objects
         /\ peers' = [peers EXCEPT ![e] = Materialized(@, frame.object, frame.enter)]
         /\ UNCHANGED <<registered, dispatch, wire, datagrams, faults, trace>>
      \/ /\ frame.object \in Remotes /\ PublishRemote(e, frame.object)
         /\ UNCHANGED <<dispatch, wire, datagrams, faults>>
      \/ (frame.object \in Remotes /\ Unpublish(e, frame.object, FALSE))
      \/ EndGone(e)
  BY Zenon DEF ClientApplies
<1>7. CASE EndGone(e)
  BY <1>1, <1>7, EndGoneStep
<1>. QED
  BY <1>3, <1>4, <1>5, <1>6, <1>7

\* ClientReleases.
LEMMA ClientReleasesStep ==
    ASSUME StateOK, NEW c \in Clients, NEW remote \in Remotes, ClientReleases(c, remote)
    PROVE  StepOK
<1>1. <<c, "client">> \in Ends /\ <<c, "client">>[2] = "client"
  BY DEF Ends
<1>2. Unpublish(<<c, "client">>, remote, TRUE)
  BY DEF ClientReleases
<1>. QED
  BY <1>1, <1>2, UnpublishStep

-----------------------------------------------------------------------------
(* Receiving.                                                              *)

\* Nothing moves.
LEMMA NobodyMoves ==
    ASSUME StateOK, peers' = peers, trace' = trace
    PROVE  EndsOK' /\ AnswersMatch' /\ Grown /\ FreshStep
BY DEF StateOK, EndsOK, AnswersMatch, Grown, From, FreshStep, Fresh

\* A message joins the queue: only its count moves.
LEMMA EnqueueMoves ==
    ASSUME StateOK, NEW e \in Ends, NEW message, Enqueue(e, message), trace' = trace
    PROVE  EndsOK' /\ AnswersMatch' /\ Grown /\ FreshStep
<1>. DEFINE x == peers[e]  t == trace[e]  n == x.queued + 1  y == [x EXCEPT !.queued = n]
<1>1. /\ EndOK(x, t) /\ x \in Peer /\ t \in Trace /\ Sane(x, From(e))
      /\ From(e) = Good(x.generation, t.answered)
  BY EndKnown
<1>2. CASE peers' = peers
  BY <1>2, NobodyMoves
<1>3. CASE peers' = [peers EXCEPT ![e] = y]
  <2>1. n \in Int
    BY <1>1 DEF Peer
  <2>. HIDE DEF n
  <2>2. Sane(y, From(e)) /\ Same(x, y, {"queued"})
    BY <1>1, <2>1, FieldSane
  <2>3. {"queued"} \in SUBSET Calm
    BY DEF Calm
  <2>. HIDE DEF y
  <2>4. Moves(x, t, y, t, trace[Other(e)].answered)
    BY <1>1, <2>2, <2>3, QuietMoves
  <2>5. EndsOK /\ AnswersMatch
    BY DEF StateOK
  <2>. QED
    BY <1>3, <2>4, <2>5, OneMovesUnseen
<1>4. peers' = peers \/ peers' = [peers EXCEPT ![e] = y]
  <2>1. CASE peers[e].up /\ peers[e].queued < MaximumMessagesPerTick
    BY <2>1 DEF Enqueue
  <2>2. CASE ~(peers[e].up /\ peers[e].queued < MaximumMessagesPerTick)
    BY <2>2 DEF Enqueue
  <2>. QED
    BY <2>1, <2>2
<1>. QED
  BY <1>2, <1>3, <1>4

\* ReceiveReliable and ReceiveDatagram.
LEMMA ReceiveStep ==
    ASSUME StateOK, NEW e \in Ends, ReceiveReliable(e) \/ ReceiveDatagram(e)
    PROVE  StepOK
<1>1. Other(e) \in Ends /\ EndsOK /\ LinksOK /\ QueuesOK
  BY OtherEnd DEF StateOK
<1>2. CASE ReceiveReliable(e)
  <2>. DEFINE w == wire[Other(e)]
  <2>1. /\ w # <<>> /\ Enqueue(e, Head(w)) /\ wire' = [wire EXCEPT ![Other(e)] = Tail(@)]
        /\ datagrams' = datagrams /\ trace' = trace
    BY <1>2 DEF ReceiveReliable
  <2>2. w \in Seq(From(Other(e)))
    BY <1>1 DEF LinksOK
  <2>3. EndsOK' /\ AnswersMatch' /\ Grown /\ FreshStep
    BY <2>1, EnqueueMoves
  <2>4. Head(w) \in From(Other(e)) /\ Tail(w) \in Seq(From(Other(e)))
    BY <2>1, <2>2
  <2>5. QueuesOK'
    BY <1>1, <2>1, <2>3, <2>4, Enqueued
  <2>6. From(Other(e)) \subseteq From(Other(e))'
    BY <1>1, <2>3 DEF Grown
  <2>7. Tail(w) \in Seq(From(Other(e))')
    BY <2>4, <2>6
  <2>8. wire' = [wire EXCEPT ![Other(e)] = Tail(w)]
    BY <2>1
  <2>9. LinksOK'
    BY <1>1, <2>1, <2>3, <2>7, <2>8, OneWire
  <2>. QED
    BY <2>3, <2>5, <2>9 DEF StepOK, StateOK
<1>3. CASE ReceiveDatagram(e)
  <2>1. PICK message \in datagrams[Other(e)] : Enqueue(e, message)
    BY <1>3 DEF ReceiveDatagram
  <2>2. wire' = wire /\ datagrams' = datagrams /\ trace' = trace
    BY <1>3 DEF ReceiveDatagram
  <2>3. message \in From(Other(e))
    BY <1>1 DEF LinksOK
  <2>4. EndsOK' /\ AnswersMatch' /\ Grown /\ FreshStep
    BY <2>1, <2>2, EnqueueMoves
  <2>5. QueuesOK' /\ LinksOK'
    BY <1>1, <2>1, <2>2, <2>3, <2>4, Enqueued, LinksKept
  <2>. QED
    BY <2>4, <2>5 DEF StepOK, StateOK
<1>. QED
  BY <1>2, <1>3

\* PumpBegin and PumpRotate.
LEMMA PumpTurnsStep ==
    ASSUME StateOK, NEW m \in Managers, PumpBegin(m) \/ PumpRotate(m)
    PROVE  StepOK
<1>1. EndsOK /\ LinksOK /\ QueuesOK
  BY DEF StateOK
<1>2. peers' = peers /\ trace' = trace /\ wire' = wire /\ datagrams' = datagrams
  BY DEF PumpBegin, PumpRotate
<1>3. EndsOK' /\ AnswersMatch' /\ Grown /\ FreshStep
  BY <1>2, NobodyMoves
<1>4. LinksOK'
  BY <1>1, <1>2, <1>3, LinksKept
<1>5. CASE PumpBegin(m)
  <2>1. dispatch' = dispatch
    BY <1>5 DEF PumpBegin
  <2>2. \A f \in Ends : Accounted(peers'[f], dispatch[ManagerOf(f)], f)
    BY <1>1, <1>2 DEF QueuesOK, Accounted
  <2>3. QueuesOK'
    BY <1>1, <1>3, <2>1, <2>2, QueuesKept
  <2>. QED
    BY <1>3, <1>4, <2>3 DEF StepOK, StateOK
<1>6. CASE PumpRotate(m)
  <2>1. dispatch[m] # <<>> /\ dispatch' = [dispatch EXCEPT ![m] = Append(Tail(@), Head(dispatch[m]))]
    BY <1>6 DEF PumpRotate, PumpContinues
  <2>2. QueuesOK'
    BY <1>1, <1>2, <1>3, <2>1, RotatedQueue
  <2>. QED
    BY <1>3, <1>4, <2>2 DEF StepOK, StateOK
<1>. QED
  BY <1>5, <1>6

\* DrainTerminals of some ends.
LEMMA CutMoves ==
    ASSUME StateOK, NEW cut \in SUBSET Ends,
           peers' = [e \in Ends |-> IF e \in cut THEN RemovePeerState(peers[e]) ELSE peers[e]],
           trace' = [e \in Ends |-> IF e \in cut
               THEN Ended(trace[e], peers[e], RemovePeerState(peers[e])) ELSE trace[e]]
    PROVE  /\ EndsOK' /\ AnswersMatch' /\ Grown /\ FreshStep
           /\ \A f \in Ends : IF f \in cut THEN ~peers'[f].up /\ peers'[f].queued = 0
                              ELSE peers'[f] = peers[f]
<1>1. ASSUME NEW e \in Ends
      PROVE  /\ Moves(peers[e], trace[e], peers'[e], trace'[e], trace[Other(e)].answered)
             /\ IF e \in cut THEN ~peers'[e].up /\ peers'[e].queued = 0 ELSE peers'[e] = peers[e]
  <2>. DEFINE x == peers[e]  t == trace[e]  z == RemovePeerState(x)  u == Ended(t, x, z)
  <2>1. /\ EndOK(x, t) /\ x \in Peer /\ t \in Trace /\ Sane(x, Good(x.generation, t.answered))
    BY EndKnown
  <2>2. CASE e \in cut
    <3>1. peers'[e] = z /\ trace'[e] = u
      BY <2>2
    <3>2. /\ u \in Trace /\ u.life = t.life /\ u.last = t.last /\ u.answered = t.answered
          /\ \A q \in 1 .. MaxRequests : u.outcome[q] = "success" => t.outcome[q] = "success"
      BY <2>1, EndedTrace
    <3>. HIDE DEF u
    <3>3. Same(x, x, {}) /\ {} \in SUBSET Calm
      BY DEF Same
    <3>4. Moves(x, t, z, u, trace[Other(e)].answered)
      BY <2>1, <3>2, <3>3, DrainedMoves
    <3>5. ~z.up /\ z.queued = 0
      BY DEF RemovePeerState, NewPeer
    <3>. QED
      BY <2>2, <3>1, <3>4, <3>5
  <2>3. CASE e \notin cut
    <3>1. peers'[e] = x /\ trace'[e] = t
      BY <2>3
    <3>. QED
      BY <2>1, <2>3, <3>1, StillMoves
  <2>. QED
    BY <2>2, <2>3
<1>2. EndsOK /\ AnswersMatch
  BY DEF StateOK
<1>3. peers' = [e \in Ends |-> peers'[e]] /\ trace' = [e \in Ends |-> trace'[e]]
  OBVIOUS
<1>4. EndsOK' /\ AnswersMatch' /\ Grown /\ FreshStep
  BY <1>1, <1>2, <1>3, AllMove DEF Moves
<1>. QED
  BY <1>1, <1>4

\* PumpEnd and DrainTerminals.
LEMMA DrainStep ==
    ASSUME StateOK, NEW m \in Managers, PumpEnd(m) \/ DrainTerminals(m)
    PROVE  StepOK
<1>. DEFINE cut == {e \in Ends : ManagerOf(e) = m /\ peers[e].terminal}
            q == dispatch[m]  K == {n \in DOMAIN q : q[n].end \notin cut}
            s == Subsequence(q, K)
<1>1. LinksOK /\ QueuesOK /\ q \in Seq(EntriesOf(m))
  BY DEF StateOK, QueuesOK
<1>2. /\ peers' = [e \in Ends |-> IF e \in cut THEN RemovePeerState(peers[e]) ELSE peers[e]]
      /\ trace' = [e \in Ends |-> IF e \in cut
             THEN Ended(trace[e], peers[e], RemovePeerState(peers[e])) ELSE trace[e]]
      /\ wire' = wire /\ datagrams' = datagrams
  BY DEF PumpEnd, DrainTerminals
<1>3. \/ dispatch' = [dispatch EXCEPT ![m] = s]
      \/ (q = <<>> /\ dispatch' = dispatch)
  <2>1. CASE PumpEnd(m)
    BY <2>1, Zenon DEF PumpEnd
  <2>2. CASE DrainTerminals(m)
    BY <2>2 DEF DrainTerminals
  <2>. QED
    BY <2>1, <2>2
<1>4. \A f \in cut : f \in Ends /\ ManagerOf(f) = m
  OBVIOUS
<1>5. K \in SUBSET DOMAIN q
  OBVIOUS
<1>6. \A f : PlacesIn(q, f, K) = IF f \in cut THEN {} ELSE Places(q, f)
  BY DEF PlacesIn, Places
<1>. HIDE DEF cut, K
<1>7. /\ EndsOK' /\ AnswersMatch' /\ Grown /\ FreshStep
      /\ \A f \in Ends : IF f \in cut THEN ~peers'[f].up /\ peers'[f].queued = 0
                         ELSE peers'[f] = peers[f]
  <2>1. cut \in SUBSET Ends
    BY <1>4
  <2>. QED
    BY <1>2, <2>1, CutMoves
<1>8. LinksOK'
  BY <1>1, <1>2, <1>7, LinksKept
<1>9. Cardinality({}) = 0 /\ 0 <= MaximumMessagesPerTick
  BY FS_EmptySet, RemoteBounds
<1>10. CASE dispatch' = [dispatch EXCEPT ![m] = s]
  <2>1. s \in Seq(EntriesOf(m)) /\ \A f : Cardinality(Places(s, f)) = Cardinality(PlacesIn(q, f, K))
    <3>. HIDE DEF q
    <3>1. s \in Seq(EntriesOf(m))
      BY <1>1, <1>5, PlacesSubsequence
    <3>2. \A f : Cardinality(Places(s, f)) = Cardinality(PlacesIn(q, f, K))
      BY <1>1, <1>5, PlacesSubsequence
    <3>. QED
      BY <3>1, <3>2
  <2>. HIDE DEF s
  <2>2. ASSUME NEW f \in Ends, ManagerOf(f) = m
        PROVE  Accounted(peers'[f], s, f)
    <3>1. CASE f \in cut
      BY <1>6, <1>7, <1>9, <2>1, <3>1 DEF Accounted
    <3>2. CASE f \notin cut
      <4>1. peers'[f] = peers[f] /\ Cardinality(Places(s, f)) = Cardinality(Places(q, f))
        BY <1>6, <1>7, <2>1, <3>2
      <4>. QED
        BY <1>1, <2>2, <4>1 DEF Accounted, QueuesOK
    <3>. QED
      BY <3>1, <3>2
  <2>3. \A f \in Ends : ManagerOf(f) # m => peers'[f] = peers[f]
    BY <1>4, <1>7
  <2>4. QueuesOK'
    BY <1>1, <1>7, <1>10, <2>1, <2>2, <2>3, QueueStep
  <2>. QED
    BY <1>7, <1>8, <2>4 DEF StepOK, StateOK
<1>11. CASE q = <<>> /\ dispatch' = dispatch
  <2>1. ASSUME NEW f \in Ends
        PROVE  Accounted(peers'[f], dispatch[ManagerOf(f)], f)
    <3>1. CASE f \in cut
      <4>1. dispatch[ManagerOf(f)] = <<>>
        BY <1>4, <1>11, <3>1
      <4>2. Places(<<>>, f) = {}
        BY DEF Places
      <4>. QED
        BY <1>7, <1>9, <3>1, <4>1, <4>2 DEF Accounted
    <3>2. CASE f \notin cut
      BY <1>1, <1>7, <3>2 DEF Accounted, QueuesOK
    <3>. QED
      BY <3>1, <3>2
  <2>2. QueuesOK'
    BY <1>1, <1>7, <1>11, <2>1, QueuesKept
  <2>. QED
    BY <1>7, <1>8, <2>2 DEF StepOK, StateOK
<1>. QED
  BY <1>3, <1>10, <1>11

-----------------------------------------------------------------------------
(* A connection begins.                                                    *)

\* The history of a new connection fits its entry.
LEMMA NewEndOK ==
    ASSUME NEW up \in BOOLEAN, NEW g \in Nat
    PROVE  /\ EndOK(NewPeer(up, g), NewTrace) /\ Numbers(NewPeer(up, g), NewTrace)
           /\ \A r \in Remotes : NewTrace.last[r].of = 0
           /\ \A q \in 1 .. MaxRequests : NewTrace.outcome[q] = "none"
<1>. DEFINE x == NewPeer(up, g)  t == NewTrace
            none == [of |-> 0, life |-> 0, sequence |-> 0]
<1>1. /\ Sane(x, Good(g, t.answered)) /\ x.generation = g /\ x.publication = [r \in Remotes |-> 0]
      /\ x.published = {}
  BY NewPeerSane
<1>2. /\ t.life = [r \in Remotes |-> 0] /\ t.last = [r \in Remotes |-> none]
      /\ t.outcome = [q \in 1 .. MaxRequests |-> "none"]
  BY DEF NewTrace
<1>3. none \in Delivered /\ none.of = 0
  BY DEF Delivered
<1>4. t \in Trace
  <2>. HIDE DEF none
  <2>1. [r \in Remotes |-> none] \in [Remotes -> Delivered]
    BY <1>3
  <2>2. [r \in Remotes |-> 0] \in [Remotes -> Nat]
    OBVIOUS
  <2>3. [q \in 1 .. MaxRequests |-> "none"] \in [1 .. MaxRequests -> {"none", "pending", "failed", "success"}]
    OBVIOUS
  <2>4. t = [ outcome |-> [q \in 1 .. MaxRequests |-> "none"], answered |-> {},
              life |-> [r \in Remotes |-> 0], sent |-> 0, delivered |-> 0,
              last |-> [r \in Remotes |-> none] ]
    BY DEF NewTrace, none
  <2>5. {} \in SUBSET (Nat \X Nat) /\ 0 \in Nat
    OBVIOUS
  <2>. QED
    BY <2>1, <2>2, <2>3, <2>4, <2>5 DEF Trace
<1>. HIDE DEF x, t, none
<1>5. \A r \in Remotes : t.last[r].of = 0 /\ t.life[r] = 0
  BY <1>2, <1>3
<1>6. Current(x, t) /\ Numbers(x, t)
  <2>1. \A r \in Remotes : x.publication[r] = 0
    BY <1>1
  <2>. QED
    BY <1>1, <1>2, <1>5, <2>1 DEF Current, Numbers
<1>7. EndOK(x, t)
  BY <1>1, <1>4, <1>6 DEF EndOK
<1>. QED
  BY <1>2, <1>5, <1>6, <1>7 DEF x, t

\* AddPeer: nothing of the former connection is left but what is on its way to
\* no one.
LEMMA AddPeerStep ==
    ASSUME StateOK, NEW c \in Clients, AddPeer(c)
    PROVE  StepOK
<1>. DEFINE ends == {<<c, "server">>, <<c, "client">>}
            g == peers[<<c, "server">>].generation + 1
            x == NewPeer(TRUE, g)
<1>1. EndsOK /\ LinksOK /\ QueuesOK /\ AnswersMatch
  BY DEF StateOK
<1>2. /\ \A e \in ends : ~peers[e].up
      /\ peers' = [e \in Ends |-> IF e \in ends THEN x ELSE peers[e]]
      /\ wire' = [e \in Ends |-> IF e \in ends THEN <<>> ELSE wire[e]]
      /\ datagrams' = [e \in Ends |-> IF e \in ends THEN {} ELSE datagrams[e]]
      /\ trace' = [e \in Ends |-> IF e \in ends THEN NewTrace ELSE trace[e]]
      /\ dispatch' = dispatch
  BY DEF AddPeer
<1>3. /\ ends \in SUBSET Ends /\ \A e \in Ends : e \in ends <=> Other(e) \in ends
      /\ <<c, "server">> \in Ends
  BY DEF Ends, Other
<1>4. g \in Nat
  BY <1>1, <1>3 DEF EndsOK, Peer
<1>5. /\ EndOK(x, NewTrace) /\ Numbers(x, NewTrace) /\ \A r \in Remotes : NewTrace.last[r].of = 0
      /\ \A q \in 1 .. MaxRequests : NewTrace.outcome[q] = "none"
      /\ x.up /\ x.generation = g /\ x.queued = 0
  BY <1>4, NewEndOK, NewPeerSane
<1>. HIDE DEF x, g, ends
<1>6. \A e \in Ends : /\ peers'[e] = IF e \in ends THEN x ELSE peers[e]
                      /\ wire'[e] = IF e \in ends THEN <<>> ELSE wire[e]
                      /\ datagrams'[e] = IF e \in ends THEN {} ELSE datagrams[e]
                      /\ trace'[e] = IF e \in ends THEN NewTrace ELSE trace[e]
  BY <1>2
<1>7. \A e \in Ends : EndOK(peers'[e], trace'[e]) /\ peers'[Other(e)].generation = peers'[e].generation
  BY <1>1, <1>3, <1>5, <1>6, OtherEnd DEF EndsOK
<1>8. EndsOK'
  <2>1. \A e \in Ends : peers'[e] \in Peer /\ trace'[e] \in Trace
    BY <1>7 DEF EndOK, Sane
  <2>2. peers' = [e \in Ends |-> peers'[e]] /\ trace' = [e \in Ends |-> trace'[e]]
    BY <1>2
  <2>3. peers' \in [Ends -> Peer] /\ trace' \in [Ends -> Trace]
    BY <2>1, <2>2
  <2>. QED
    BY <1>1, <1>5, <1>6, <1>7, <2>3 DEF EndsOK
<1>9. \A f \in Ends : f \notin ends => From(f)' = From(f)
  BY <1>6 DEF From
<1>10. LinksOK'
  <2>1. ASSUME NEW f \in Ends
        PROVE  /\ wire'[f] \in Seq(From(f)') /\ datagrams'[f] \subseteq From(f)'
               /\ wire'[f] \in Seq(Msg) /\ datagrams'[f] \subseteq Msg
    <3>1. CASE f \in ends
      <4>1. <<>> \in Seq(From(f)') /\ <<>> \in Seq(Msg)
        OBVIOUS
      <4>2. wire'[f] = <<>> /\ datagrams'[f] = {}
        BY <1>6, <3>1
      <4>. QED
        BY <4>1, <4>2
    <3>2. CASE f \notin ends
      BY <1>1, <1>6, <1>9, <3>2 DEF LinksOK
    <3>. QED
      BY <3>1, <3>2
  <2>2. wire' = [e \in Ends |-> wire'[e]] /\ datagrams' = [e \in Ends |-> datagrams'[e]]
    BY <1>2
  <2>3. wire' \in [Ends -> Seq(Msg)] /\ datagrams' \in [Ends -> SUBSET Msg]
    BY <2>1, <2>2
  <2>. QED
    BY <2>1, <2>3 DEF LinksOK
<1>11. AnswersMatch'
  <2>. SUFFICES ASSUME NEW e \in Ends, NEW q \in 1 .. MaxRequests, trace'[e].outcome[q] = "success"
                PROVE  <<peers'[e].generation, q>> \in trace'[Other(e)].answered
    BY Zenon DEF AnswersMatch
  <2>1. e \notin ends
    BY <1>5, <1>6
  <2>2. peers'[e] = peers[e] /\ trace'[e] = trace[e] /\ trace'[Other(e)] = trace[Other(e)]
    BY <1>3, <1>6, <2>1, OtherEnd
  <2>. QED
    BY <1>1, <2>2 DEF AnswersMatch
<1>12. FreshStep
  BY <1>5, <1>6 DEF FreshStep, Fresh
<1>13. \A e \in ends : e \in Ends /\ peers[e].queued = 0 /\ Places(dispatch[ManagerOf(e)], e) = {}
  <2>. SUFFICES ASSUME NEW e \in ends
                PROVE  e \in Ends /\ peers[e].queued = 0 /\ Places(dispatch[ManagerOf(e)], e) = {}
    OBVIOUS
  <2>1. e \in Ends /\ ~peers[e].up
    BY <1>2, <1>3
  <2>2. peers[e].queued = 0 /\ Cardinality(Places(dispatch[ManagerOf(e)], e)) = 0
    BY <1>1, <2>1 DEF QueuesOK
  <2>3. IsFiniteSet(Places(dispatch[ManagerOf(e)], e))
    <3>1. dispatch[ManagerOf(e)] \in Seq(Entry)
      BY <1>1, <2>1, OtherEnd DEF QueuesOK
    <3>. QED
      BY <3>1, PlacesFinite
  <2>4. Places(dispatch[ManagerOf(e)], e) = {}
    BY <2>2, <2>3, FS_EmptySet
  <2>. QED
    BY <2>1, <2>2, <2>4
<1>14. ASSUME NEW k \in Managers
       PROVE  dispatch[k] \in Seq(EntriesOf(k)')
  <2>. DEFINE s == dispatch[k]
  <2>0. ASSUME NEW o \in EntriesOf(k), o.end \notin ends
        PROVE  o \in EntriesOf(k)'
    <3>1. o \in Entry /\ o.end \in Ends /\ ManagerOf(o.end) = k /\ o.message \in From(Other(o.end))
      BY DEF EntriesOf, Entry
    <3>2. Other(o.end) \in Ends /\ Other(o.end) \notin ends
      BY <1>3, <2>0, <3>1, OtherEnd
    <3>3. From(Other(o.end))' = From(Other(o.end))
      BY <1>9, <3>2
    <3>. QED
      BY <3>1, <3>3 DEF EntriesOf
  <2>1. s \in Seq(EntriesOf(k))
    BY <1>1 DEF QueuesOK
  <2>2. ASSUME NEW n \in DOMAIN s
        PROVE  s[n] \in EntriesOf(k)'
    <3>1. s[n] \in EntriesOf(k)
      BY <2>1
    <3>2. s[n] \in Entry /\ s[n].end \in Ends /\ ManagerOf(s[n].end) = k /\ s[n].message \in From(Other(s[n].end))
      BY <3>1 DEF EntriesOf, Entry
    <3>3. s[n].end \notin ends
      <4>1. s[n].end \in ends => n \in Places(dispatch[ManagerOf(s[n].end)], s[n].end)
        BY <3>2 DEF Places
      <4>. QED
        BY <1>13, <4>1
    <3>. QED
      BY <2>0, <3>1, <3>3
  <2>3. s \in Seq(EntriesOf(k)')
    BY <2>1, <2>2
  <2>. QED
    BY <2>3
<1>15. ASSUME NEW f \in Ends
       PROVE  Accounted(peers'[f], dispatch[ManagerOf(f)], f)
  <2>1. CASE f \in ends
    <3>1. Cardinality({}) = 0 /\ 0 <= MaximumMessagesPerTick
      BY FS_EmptySet, RemoteBounds
    <3>. QED
      BY <1>5, <1>6, <1>13, <2>1, <3>1 DEF Accounted
  <2>2. CASE f \notin ends
    BY <1>1, <1>6, <2>2 DEF Accounted, QueuesOK
  <2>. QED
    BY <2>1, <2>2
<1>16. QueuesOK'
  BY <1>1, <1>2, <1>14, <1>15 DEF QueuesOK, Accounted
<1>. QED
  BY <1>8, <1>10, <1>11, <1>12, <1>16 DEF StepOK, StateOK

-----------------------------------------------------------------------------
(* Dispatch.                                                               *)

\* What Pump takes from the queue.
LEMMA TakenMessage ==
    ASSUME StateOK, NEW m \in Managers, NEW e, PumpTake(m, e)
    PROVE  /\ e \in Ends /\ dispatch[m] # <<>> /\ e = Head(dispatch[m]).end
           /\ dispatch' = [dispatch EXCEPT ![m] = Tail(@)]
           /\ Head(dispatch[m]).message \in From(Other(e)) /\ Head(dispatch[m]).message \in Msg
<1>1. /\ dispatch[m] # <<>> /\ e = Head(dispatch[m]).end
      /\ dispatch' = [dispatch EXCEPT ![m] = Tail(@)]
  BY DEF PumpTake, PumpContinues
<1>2. QueuesOK
  BY DEF StateOK
<1>3. e \in Ends /\ Head(dispatch[m]).message \in From(Other(e))
  BY <1>1, <1>2, FirstEntry
<1>. QED
  BY <1>1, <1>3 DEF From, Good

\* The end to which the message is addressed moves.
LEMMA TakeStep ==
    ASSUME StateOK, NEW m \in Managers, NEW e, PumpTake(m, e), NEW y, NEW u,
           peers' = [peers EXCEPT ![e] = y], trace' = [trace EXCEPT ![e] = u],
           Moves(peers[e], trace[e], y, u, trace[Other(e)].answered),
           y.up = peers[e].up, y.queued = Taken(peers[e]).queued
    PROVE  EndsOK' /\ QueuesOK' /\ AnswersMatch' /\ Grown /\ FreshStep
<1>1. /\ e \in Ends /\ dispatch[m] # <<>> /\ e = Head(dispatch[m]).end
      /\ dispatch' = [dispatch EXCEPT ![m] = Tail(@)]
  BY TakenMessage
<1>2. EndsOK /\ QueuesOK /\ AnswersMatch
  BY DEF StateOK
<1>3. /\ EndsOK' /\ AnswersMatch' /\ Grown /\ FreshStep
      /\ peers'[e] = y /\ \A f \in Ends : f # e => peers'[f] = peers[f]
  BY <1>1, <1>2, OneMoves
<1>4. peers[e].queued \in Int /\ Taken(peers[e]).queued = peers[e].queued - 1
  <2>1. Sane(peers[e], From(e)) /\ peers[e] \in Peer
    BY <1>1, EndKnown
  <2>. QED
    BY <2>1, OthersSane DEF Peer
<1>5. QueuesOK'
  <2>1. peers'[e].up = peers[e].up /\ peers'[e].queued = peers[e].queued - 1
    BY <1>3, <1>4
  <2>. QED
    BY <1>1, <1>2, <1>3, <1>4, <2>1, TakenQueue
<1>. QED
  BY <1>3, <1>5

\* It changes its tables, and answers nothing.
LEMMA TakeQuietly ==
    ASSUME StateOK, NEW m \in Managers, NEW e, PumpTake(m, e), NEW y, NEW u \in Trace,
           peers' = [peers EXCEPT ![e] = y], trace' = [trace EXCEPT ![e] = u],
           wire' = wire, datagrams' = datagrams,
           u.life = trace[e].life, u.last = trace[e].last, u.answered = trace[e].answered,
           \A q \in 1 .. MaxRequests : u.outcome[q] = "success" =>
               trace[e].outcome[q] = "success" \/ <<peers[e].generation, q>> \in trace[Other(e)].answered,
           Sane(y, From(e)), NEW F \in SUBSET (Calm \ {"queued"}), Same(Taken(peers[e]), y, F)
    PROVE  StepOK
<1>1. e \in Ends
  BY TakenMessage
<1>2. /\ EndOK(peers[e], trace[e]) /\ Sane(peers[e], From(e))
      /\ From(e) = Good(peers[e].generation, trace[e].answered)
  BY <1>1, EndKnown
<1>3. Same(peers[e], Taken(peers[e]), {"queued"})
  BY <1>2, OthersSane
<1>4. Same(peers[e], y, {"queued"} \cup F) /\ {"queued"} \cup F \in SUBSET Calm
  BY <1>3, SameTwice DEF Calm
<1>5. Sane(y, Good(peers[e].generation, u.answered)) /\ trace[e].answered \subseteq u.answered
  BY <1>2
<1>6. Moves(peers[e], trace[e], y, u, trace[Other(e)].answered)
  BY <1>2, <1>4, <1>5, QuietMoves
<1>7. y.up = peers[e].up /\ y.queued = Taken(peers[e]).queued
  BY <1>3 DEF Same, Fields, Calm
<1>8. EndsOK' /\ QueuesOK' /\ AnswersMatch' /\ Grown /\ FreshStep
  BY <1>6, <1>7, TakeStep
<1>9. LinksOK'
  BY <1>8, LinksKept DEF StateOK
<1>. QED
  BY <1>8, <1>9 DEF StepOK, StateOK

\* It changes its tables, and the history stays as it is.
LEMMA TakeUnseen ==
    ASSUME StateOK, NEW m \in Managers, NEW e, PumpTake(m, e), NEW y,
           peers' = [peers EXCEPT ![e] = y], trace' = trace, wire' = wire, datagrams' = datagrams,
           Sane(y, From(e)), NEW F \in SUBSET (Calm \ {"queued"}), Same(Taken(peers[e]), y, F)
    PROVE  StepOK
<1>1. e \in Ends
  BY TakenMessage
<1>2. trace[e] \in Trace
  BY <1>1, EndKnown
<1>3. trace' = [trace EXCEPT ![e] = trace[e]]
  BY DEF StateOK, EndsOK
<1>. QED
  BY <1>2, <1>3, TakeQuietly

\* It answers with an error.
LEMMA TakeError ==
    ASSUME StateOK, NEW m \in Managers, NEW e, PumpTake(m, e), NEW x, trace' = trace,
           Sane(x, From(e)), NEW F \in SUBSET (Calm \ {"queued"}), Same(Taken(peers[e]), x, F),
           NEW remote \in Remotes, NEW request \in Nat, NEW error, error = Message("error", remote, request),
           NEW outcome \in SendOutcomes(x, error, FALSE),
           NEW y, y = AfterSend(x, error, outcome), peers' = [peers EXCEPT ![e] = y],
           SendOne(e, x, error, FALSE, outcome)
    PROVE  StepOK
<1>. DEFINE G == {"queued"} \cup F \cup {"deferred", "terminal"}
<1>1. e \in Ends
  BY TakenMessage
<1>2. /\ EndOK(peers[e], trace[e]) /\ Sane(peers[e], From(e)) /\ trace[e] \in Trace /\ From(e) \subseteq Msg
      /\ From(e) = Good(peers[e].generation, trace[e].answered)
  BY <1>1, EndKnown
<1>3. Same(peers[e], Taken(peers[e]), {"queued"})
  BY <1>2, OthersSane
<1>4. outcome # "deferred"
  BY NotDeferred
<1>5. Sane(y, From(e)) /\ Same(x, y, {"deferred", "terminal"})
  BY <1>2, <1>4, AfterSendSane
<1>6. x \in Peer /\ Stamped(x, error) \in From(e)
  <2>1. x \in Peer
    BY DEF Sane
  <2>2. Stamped(x, Message("error", remote, request)) \in Good(peers[e].generation, trace[e].answered)
    BY <2>1, PlainGood
  <2>. QED
    BY <1>2, <2>1, <2>2
<1>8. Same(peers[e], y, G) /\ G \in SUBSET Calm
  BY <1>3, <1>5 DEF Same, Calm
<1>. HIDE DEF G
<1>9. Sane(y, Good(peers[e].generation, trace[e].answered))
  BY <1>2, <1>5
<1>10. Moves(peers[e], trace[e], y, trace[e], trace[Other(e)].answered)
  BY <1>2, <1>8, <1>9, QuietMoves
<1>11. y.up = peers[e].up /\ y.queued = Taken(peers[e]).queued
  BY <1>3, <1>5 DEF Same, Fields, Calm
<1>12. trace' = [trace EXCEPT ![e] = trace[e]]
  BY DEF StateOK, EndsOK
<1>13. EndsOK' /\ QueuesOK' /\ AnswersMatch' /\ Grown /\ FreshStep
  <2>. DEFINE t == trace[e]
  <2>1. trace' = [trace EXCEPT ![e] = t] /\ Moves(peers[e], trace[e], y, t, trace[Other(e)].answered)
    BY <1>10, <1>12
  <2>. HIDE DEF t
  <2>. QED
    BY <1>11, <2>1, TakeStep, Zenon
<1>14. From(e) \subseteq From(e)' /\ LinksOK
  BY <1>1, <1>13 DEF Grown, StateOK
<1>15. LinksOK'
  BY <1>1, <1>6, <1>13, <1>14, OneSent
<1>. QED
  BY <1>13, <1>15 DEF StepOK, StateOK

\* A message that is dropped: Drop and RateLimited.
LEMMA DropStep ==
    ASSUME StateOK, NEW m \in Managers, NEW e, PumpTake(m, e),
           peers' = [peers EXCEPT ![e] = Taken(@)],
           wire' = wire, datagrams' = datagrams, trace' = trace
    PROVE  StepOK
<1>. DEFINE y == Taken(peers[e])
<1>1. e \in Ends
  BY TakenMessage
<1>2. Sane(peers[e], From(e))
  BY <1>1, EndKnown
<1>3. Sane(y, From(e)) /\ Same(y, y, {}) /\ {} \in SUBSET (Calm \ {"queued"})
  BY <1>2, OthersSane DEF Same
<1>4. peers' = [peers EXCEPT ![e] = y]
  OBVIOUS
<1>. QED
  BY <1>3, <1>4, TakeUnseen

\* RejectRequest.
LEMMA RejectStep ==
    ASSUME StateOK, NEW m \in Managers, NEW e, PumpTake(m, e),
           NEW message \in Msg, RejectRequest(e, message)
    PROVE  StepOK
<1>. DEFINE x == Taken(peers[e])  error == Message("error", message.remote, message.request)
<1>1. e \in Ends
  BY TakenMessage
<1>2. Sane(peers[e], From(e))
  BY <1>1, EndKnown
<1>3. Sane(x, From(e)) /\ Same(x, x, {}) /\ {} \in SUBSET (Calm \ {"queued"})
  BY <1>2, OthersSane DEF Same
<1>4. message.remote \in Remotes /\ message.request \in Nat
  BY DEF Msg
<1>5. trace' = trace
  BY DEF RejectRequest
<1>6. PICK outcome \in SendOutcomes(x, error, FALSE) :
          /\ peers' = [peers EXCEPT ![e] = AfterSend(x, error, outcome)]
          /\ SendOne(e, x, error, FALSE, outcome)
  BY DEF RejectRequest
<1>. HIDE DEF error
<1>7. error = Message("error", message.remote, message.request)
  BY DEF error
<1>. QED
  BY <1>3, <1>4, <1>5, <1>6, <1>7, TakeError

\* DispatchRefused.
LEMMA RefusedStep ==
    ASSUME StateOK, NEW m \in Managers, NEW e, PumpTake(m, e),
           NEW message \in Msg, DispatchRefused(e, message)
    PROVE  StepOK
<1>1. RateLimited(e, message) \/ Drop(e) \/ RejectRequest(e, message)
  BY Zenon DEF DispatchRefused
<1>2. CASE RateLimited(e, message)
  <2>1. /\ peers' = [peers EXCEPT ![e] = Taken(@)]
        /\ wire' = wire /\ datagrams' = datagrams /\ trace' = trace
    BY <1>2 DEF RateLimited
  <2>. QED
    BY <2>1, DropStep
<1>3. CASE Drop(e)
  <2>1. /\ peers' = [peers EXCEPT ![e] = Taken(@)]
        /\ wire' = wire /\ datagrams' = datagrams /\ trace' = trace
    BY <1>3 DEF Drop
  <2>. QED
    BY <2>1, DropStep
<1>4. CASE RejectRequest(e, message)
  BY <1>4, RejectStep
<1>. QED
  BY <1>1, <1>2, <1>3, <1>4

\* DispatchEvent.
LEMMA EventStep ==
    ASSUME StateOK, NEW m \in Managers, NEW e, PumpTake(m, e),
           NEW message \in Msg, DispatchEvent(e, message)
    PROVE  StepOK
<1>. DEFINE y == Taken(peers[e])  t == trace[e]  u == [t EXCEPT !.delivered = message.number]
<1>1. e \in Ends
  BY TakenMessage
<1>2. Sane(peers[e], From(e)) /\ t \in Trace
  BY <1>1, EndKnown
<1>3. Sane(y, From(e)) /\ Same(y, y, {}) /\ {} \in SUBSET (Calm \ {"queued"})
  BY <1>2, OthersSane DEF Same
<1>4. message.number \in Nat
  BY DEF Msg
<1>5. u \in Trace /\ u.life = t.life /\ u.last = t.last /\ u.answered = t.answered /\ u.outcome = t.outcome
  BY <1>2, <1>4 DEF Trace
<1>6. /\ peers' = [peers EXCEPT ![e] = y] /\ trace' = [trace EXCEPT ![e] = u]
      /\ wire' = wire /\ datagrams' = datagrams
  BY DEF DispatchEvent
<1>. HIDE DEF u
<1>. QED
  BY <1>3, <1>5, <1>6, TakeQuietly

\* DispatchCancel.
LEMMA CancelStep ==
    ASSUME StateOK, NEW m \in Managers, NEW e, PumpTake(m, e),
           NEW message \in Msg, DispatchCancel(e, message)
    PROVE  StepOK
<1>. DEFINE x == Taken(peers[e])
            again(i) == IF i.request = message.request /\ i.remote = message.remote
                        THEN [i EXCEPT !.accept = FALSE] ELSE i
            J == {again(i) : i \in peers[e].incoming}
            y == [x EXCEPT !.incoming = J]
<1>1. e \in Ends
  BY TakenMessage
<1>2. Sane(peers[e], From(e))
  BY <1>1, EndKnown
<1>3. Sane(x, From(e)) /\ x.incoming = peers[e].incoming
  BY <1>2, OthersSane DEF Taken
<1>4. /\ peers' = [peers EXCEPT ![e] = y]
      /\ trace' = trace /\ wire' = wire /\ datagrams' = datagrams
  BY DEF DispatchCancel
<1>. HIDE DEF x
<1>5. x.incoming \in SUBSET Incoming /\ \A i, j \in x.incoming : i.request = j.request => i = j
  BY <1>3 DEF Sane, Peer, InTable
<1>6. \A i \in x.incoming : again(i) \in Incoming /\ again(i).request = i.request
  BY <1>5 DEF Incoming
<1>. HIDE DEF again
<1>7. J \in SUBSET Incoming
  BY <1>3, <1>6
<1>8. \A i, j \in J : i.request = j.request => i = j
  BY <1>3, <1>5, <1>6
<1>9. \A i \in x.incoming : \E j \in J : j.request = i.request
  BY <1>3, <1>6
<1>10. \A j \in J : \E i \in x.incoming : j.request = i.request
  BY <1>3, <1>6
<1>. HIDE DEF J
<1>11. Sane(y, From(e)) /\ Same(x, y, {"incoming"})
  BY <1>3, <1>7, <1>8, <1>9, <1>10, IncomingSane
<1>12. {"incoming"} \in SUBSET (Calm \ {"queued"})
  BY DEF Calm
<1>13. Same(Taken(peers[e]), y, {"incoming"})
  BY <1>11 DEF x
<1>. HIDE DEF y
<1>. QED
  BY <1>4, <1>11, <1>12, <1>13, TakeUnseen

\* DispatchAnswer: only the answer that a handler of this connection gave ends a
\* request with success.
LEMMA AnswerStep ==
    ASSUME StateOK, NEW m \in Managers, NEW e, PumpTake(m, e),
           NEW message \in From(Other(e)), DispatchAnswer(e, message)
    PROVE  StepOK
<1>. DEFINE x == Taken(peers[e])  t == trace[e]  v == IF message.kind = "response" THEN "success" ELSE "failed"
            y == TakePending(x, {message.request})  u == Outcome(t, message.request, v)
<1>1. e \in Ends
  BY TakenMessage
<1>2. Sane(peers[e], From(e)) /\ t \in Trace /\ From(e) \subseteq Msg
  BY <1>1, EndKnown
<1>3. Sane(x, From(e)) /\ x.pending = peers[e].pending
  BY <1>2, OthersSane DEF Taken
<1>4. CASE Drop(e)
  <2>1. /\ peers' = [peers EXCEPT ![e] = Taken(@)]
        /\ wire' = wire /\ datagrams' = datagrams /\ trace' = trace
    BY <1>4 DEF Drop
  <2>. QED
    BY <2>1, DropStep
<1>5. CASE /\ peers' = [peers EXCEPT ![e] = y] /\ trace' = [trace EXCEPT ![e].outcome[message.request] = v]
           /\ UNCHANGED <<wire, datagrams, faults>>
  <2>1. Sane(y, From(e)) /\ Same(x, y, {"pending", "deferred", "outgoing"})
    BY <1>2, <1>3, TakePendingSane
  <2>2. {"pending", "deferred", "outgoing"} \in SUBSET (Calm \ {"queued"})
    BY DEF Calm
  <2>3. v = "success" => <<peers[e].generation, message.request>> \in trace[Other(e)].answered
    <3>1. peers[Other(e)].generation = peers[e].generation
      BY <1>1, EndKnown
    <3>. QED
      BY <3>1 DEF From, Good
  <2>4. v \in {"none", "pending", "failed", "success"}
    OBVIOUS
  <2>5. trace' = [trace EXCEPT ![e] = u]
    BY <1>5 DEF Outcome
  <2>. HIDE DEF v
  <2>6. /\ u \in Trace /\ u.life = t.life /\ u.last = t.last /\ u.answered = t.answered
        /\ \A q \in 1 .. MaxRequests :
              u.outcome[q] = "success" => t.outcome[q] = "success" \/ (q = message.request /\ v = "success")
    BY <1>2, <2>4, OutcomeTrace
  <2>7. \A q \in 1 .. MaxRequests : u.outcome[q] = "success" =>
            trace[e].outcome[q] = "success" \/ <<peers[e].generation, q>> \in trace[Other(e)].answered
    BY <2>3, <2>6
  <2>8. peers' = [peers EXCEPT ![e] = y] /\ wire' = wire /\ datagrams' = datagrams
    BY <1>5
  <2>. HIDE DEF u, y, x
  <2>9. Same(Taken(peers[e]), y, {"pending", "deferred", "outgoing"})
    BY <2>1 DEF x
  <2>. QED
    BY <2>1, <2>2, <2>5, <2>6, <2>7, <2>8, <2>9, TakeQuietly
<1>6. \/ Drop(e)
      \/ /\ peers' = [peers EXCEPT ![e] = y] /\ trace' = [trace EXCEPT ![e].outcome[message.request] = v]
         /\ UNCHANGED <<wire, datagrams, faults>>
  BY Zenon DEF DispatchAnswer
<1>. QED
  BY <1>4, <1>5, <1>6

\* DispatchSequenced: an event of this life of the remote, newer than the last.
LEMMA SequencedStep ==
    ASSUME StateOK, NEW m \in Managers, NEW e, PumpTake(m, e),
           NEW message \in From(Other(e)), DispatchSequenced(e, message)
    PROVE  StepOK
<1>. DEFINE x == peers[e]  t == trace[e]  r == message.remote
            ls == [x.latestSequence EXCEPT ![r] = message.sequence]
            y == [Taken(x) EXCEPT !.latestSequence = ls]
            one == [of |-> t.life[r], life |-> message.life, sequence |-> message.sequence]
            la == [t.last EXCEPT ![r] = one]
            u == [t EXCEPT !.last = la]
<1>1. e \in Ends
  BY TakenMessage
<1>2. /\ Sane(x, From(e)) /\ x \in Peer /\ t \in Trace /\ EndOK(x, t) /\ Current(x, t)
      /\ From(e) = Good(x.generation, t.answered)
  BY <1>1, EndKnown
<1>3. /\ message \in Msg /\ r \in Remotes /\ message.sequence \in Nat /\ message.life \in Nat
      /\ message.kind = "sequenced" /\ message.publication <= message.life
  BY DEF From, Good, Msg, DispatchSequenced
<1>4. x.up /\ r \in x.published /\ message.publication = x.publication[r]
  BY DEF DispatchSequenced, Acceptable, Unavailable, RemoteAvailable, OtherPublication
<1>5. CASE Drop(e)
  <2>1. /\ peers' = [peers EXCEPT ![e] = Taken(@)]
        /\ wire' = wire /\ datagrams' = datagrams /\ trace' = trace
    BY <1>5 DEF Drop
  <2>. QED
    BY <2>1, DropStep
<1>6. ASSUME NewerSequence(e, message), peers' = [peers EXCEPT ![e] = y], trace' = [trace EXCEPT ![e] = u],
             wire' = wire, datagrams' = datagrams
      PROVE  StepOK
  <2>1. message.sequence > x.latestSequence[r] /\ x.latestSequence[r] \in Nat
    BY <1>2, <1>3, <1>6 DEF NewerSequence, Peer
  <2>2. one \in Delivered /\ message.life >= x.publication[r]
    <3>1. message.publication \in Nat
      BY <1>3 DEF Msg
    <3>. QED
      BY <1>2, <1>3, <1>4, <3>1 DEF Delivered, Trace
  <2>3. /\ one.of = t.life[r] /\ one.life = message.life /\ one.sequence = message.sequence
    OBVIOUS
  <2>. HIDE DEF one
  <2>4. /\ la \in [Remotes -> Delivered] /\ la[r] = one
        /\ \A s \in Remotes : s # r => la[s] = t.last[s]
    BY <1>2, <1>3, <2>2 DEF Trace
  <2>. HIDE DEF la
  <2>5. u \in Trace /\ u.last = la /\ u.life = t.life /\ u.answered = t.answered /\ u.outcome = t.outcome
    BY <1>2, <2>4 DEF Trace
  <2>6. /\ ls \in [Remotes -> Nat] /\ ls[r] = message.sequence
        /\ \A s \in Remotes : s # r => ls[s] = x.latestSequence[s]
    BY <1>2, <1>3 DEF Peer
  <2>7. Sane(Taken(x), From(e)) /\ Same(x, Taken(x), {"queued"})
    BY <1>2, OthersSane
  <2>. HIDE DEF ls, u
  <2>8. Sane(y, From(e)) /\ Same(Taken(x), y, {"latestSequence"}) /\ y.latestSequence = ls
    <3>1. Sane(y, From(e)) /\ Same(Taken(x), y, {"latestSequence"})
      BY <2>6, <2>7, FieldSane
    <3>2. Taken(x) \in Peer
      BY <2>7 DEF Sane
    <3>. QED
      BY <3>1, <3>2 DEF Peer
  <2>. HIDE DEF y
  <2>9. /\ y.up = x.up /\ y.generation = x.generation /\ y.publication = x.publication
        /\ y.published = x.published /\ y.queued = Taken(x).queued
    BY <2>7, <2>8 DEF Same, Fields
  <2>10. \A s \in Remotes : /\ t.last[s] \in Delivered /\ t.last[s].of <= t.life[s] /\ t.life[s] \in Nat
                            /\ s \in x.published /\ t.last[s].of = t.life[s] =>
                                  t.last[s].sequence <= x.latestSequence[s]
    BY <1>2, <1>4 DEF Current, Trace
  <2>11. Current(y, u)
    <3>1. y.up => \A s \in Remotes : y.publication[s] <= u.life[s]
      BY <1>2, <2>5, <2>9 DEF Current
    <3>2. ASSUME NEW s \in Remotes
          PROVE  u.last[s].of <= u.life[s]
      <4>1. CASE s = r
        BY <2>3, <2>4, <2>5, <2>10, <4>1
      <4>2. CASE s # r
        BY <2>4, <2>5, <2>10, <4>2
      <4>. QED
        BY <4>1, <4>2
    <3>3. ASSUME NEW s \in y.published, u.last[s].of = u.life[s]
          PROVE  u.last[s].sequence <= y.latestSequence[s]
      <4>1. s \in x.published /\ s \in Remotes
        BY <1>2, <2>9 DEF Peer
      <4>2. CASE s = r
        BY <1>3, <2>3, <2>4, <2>5, <2>6, <2>8, <4>2
      <4>3. CASE s # r
        BY <2>4, <2>5, <2>6, <2>8, <2>10, <3>3, <4>1, <4>3
      <4>. QED
        BY <4>2, <4>3
    <3>. QED
      BY <3>1, <3>2, <3>3 DEF Current
  <2>12. ASSUME NEW s \in Remotes
         PROVE  Fresh(x, t, u, s)
    <3>1. CASE s = r
      <4>1. u.last[s] = one /\ one.of = t.life[s] /\ one.life >= x.publication[s]
        BY <2>2, <2>3, <2>4, <2>5, <3>1
      <4>2. ASSUME t.last[s].of = one.of
            PROVE  one.sequence > t.last[s].sequence
        <5>1. t.last[s].sequence <= x.latestSequence[s] /\ t.last[s].sequence \in Nat
          BY <1>4, <2>3, <2>10, <3>1, <4>2 DEF Delivered
        <5>2. one.sequence > x.latestSequence[s]
          BY <2>1, <2>3, <3>1
        <5>3. one.sequence \in Nat /\ x.latestSequence[s] \in Nat
          BY <1>3, <2>1, <2>3, <3>1
        <5>. QED
          BY <5>1, <5>2, <5>3
      <4>. QED
        BY <1>4, <4>1, <4>2 DEF Fresh
    <3>2. CASE s # r
      BY <2>4, <2>5, <3>2 DEF Fresh
    <3>. QED
      BY <3>1, <3>2
  <2>13. EndOK(y, u)
    BY <1>2, <2>5, <2>8, <2>9, <2>11 DEF EndOK
  <2>14. Moves(x, t, y, u, trace[Other(e)].answered)
    <3>1. Advances(x, t, y, u, trace[Other(e)].answered)
      BY <2>5, <2>9, <2>12, <2>13 DEF Advances
    <3>2. Numbers(x, t) => Numbers(y, u)
      BY <2>5, <2>9 DEF Numbers
    <3>. QED
      BY <3>1, <3>2 DEF Moves
  <2>15. EndsOK' /\ QueuesOK' /\ AnswersMatch' /\ Grown /\ FreshStep
    <3>1. peers' = [peers EXCEPT ![e] = y] /\ trace' = [trace EXCEPT ![e] = u]
      BY <1>6 DEF y
    <3>. QED
      BY <2>9, <2>14, <3>1, TakeStep
  <2>16. LinksOK'
    BY <1>6, <2>15, LinksKept DEF StateOK
  <2>. QED
    BY <2>15, <2>16 DEF StepOK, StateOK
<1>7. \/ Drop(e)
      \/ /\ NewerSequence(e, message) /\ wire' = wire /\ datagrams' = datagrams
         /\ peers' = [peers EXCEPT ![e] = y] /\ trace' = [trace EXCEPT ![e] = u]
  <2>1. CASE NewerSequence(e, message)
    <3>1. /\ peers' = [peers EXCEPT ![e] = [Taken(@) EXCEPT !.latestSequence[r] = message.sequence]]
          /\ trace' = [trace EXCEPT ![e].last[r] = one]
          /\ UNCHANGED <<wire, datagrams, faults>>
      BY <2>1, Zenon DEF DispatchSequenced
    <3>2. Taken(x).latestSequence = x.latestSequence
      BY <1>2 DEF Taken, Peer
    <3>3. [Taken(x) EXCEPT !.latestSequence[r] = message.sequence] = y
      BY <3>2
    <3>. HIDE DEF y, one
    <3>. QED
      BY <2>1, <3>1, <3>3
  <2>2. CASE ~NewerSequence(e, message)
    BY <2>2, Zenon DEF DispatchSequenced
  <2>. QED
    BY <2>1, <2>2
<1>. QED
  BY <1>5, <1>6, <1>7

\* A newer request was seen.
LEMMA SeenSane ==
    ASSUME NEW x, NEW M, Sane(x, M), NEW n \in Nat, x.latestRequest < n,
           NEW y, y = [x EXCEPT !.latestRequest = n]
    PROVE  Sane(y, M) /\ Same(x, y, {"latestRequest"}) /\ y.latestRequest = n
<1>1. x \in Peer /\ InTable(x)
  BY DEF Sane
<1>2. y \in Peer /\ Same(x, y, {"latestRequest"}) /\ y.latestRequest = n
  BY <1>1 DEF Peer, Same, Fields
<1>3. /\ y.incoming = x.incoming /\ y.handlers = x.handlers /\ y.deferred = x.deferred
  BY <1>2 DEF Same, Fields
<1>4. \A i \in x.incoming : i.request \in Nat /\ i.request <= x.latestRequest
  BY <1>1 DEF InTable, Peer, Incoming
<1>5. \A i \in x.incoming : i.request <= n
  <2>1. x.latestRequest \in Nat
    BY <1>1 DEF Peer
  <2>. QED
    BY <1>4, <2>1
<1>6. InTable(y)
  BY <1>1, <1>2, <1>3, <1>5 DEF InTable
<1>7. OutTable(y) /\ Live(y)
  BY <1>2, SameTables DEF Sane
<1>. QED
  BY <1>2, <1>3, <1>6, <1>7 DEF Sane

\* A handler starts in a free slot, for a request newer than all others.
LEMMA StartedSane ==
    ASSUME NEW x, NEW M, Sane(x, M), x.handlers < MaximumInFlightRemoteRequests,
           NEW i \in Incoming, i.request = x.latestRequest, \A j \in x.incoming : j.request < i.request,
           NEW J, J = x.incoming \cup {i}, NEW n, n = x.handlers + 1,
           NEW y, y = [x EXCEPT !.incoming = J, !.handlers = n]
    PROVE  Sane(y, M) /\ Same(x, y, {"incoming", "handlers"})
<1>1. x \in Peer /\ InTable(x)
  BY DEF Sane
<1>2. /\ IsFiniteSet(x.incoming) /\ x.handlers = Cardinality(x.incoming)
      /\ \A j, k \in x.incoming : j.request = k.request => j = k
      /\ \A j \in x.incoming : j.request <= x.latestRequest /\ j.request \in Nat
      /\ x.latestRequest \in Nat /\ x.handlers \in Int
  BY <1>1 DEF InTable, Peer, Incoming
<1>3. i \notin x.incoming
  <2>1. i.request \in Nat
    BY <1>2
  <2>2. ~(i.request < i.request)
    BY <2>1
  <2>. QED
    BY <2>2
<1>4. IsFiniteSet(J) /\ Cardinality(J) = n
  BY <1>2, <1>3, FS_AddElement
<1>5. J \in SUBSET Incoming /\ n \in Int
  BY <1>1, <1>2 DEF Peer
<1>6. /\ y \in Peer /\ y.incoming = J /\ y.handlers = n /\ y.latestRequest = x.latestRequest
      /\ Same(x, y, {"incoming", "handlers"}) /\ y.deferred = x.deferred
  BY <1>1, <1>5 DEF Peer, Same, Fields
<1>7. OutTable(y) /\ Live(y)
  BY <1>6, SameTables DEF Sane
<1>8. \A j, k \in J : j.request = k.request => j = k
  <2>. SUFFICES ASSUME NEW j \in J, NEW k \in J, j.request = k.request PROVE j = k
    OBVIOUS
  <2>1. i.request \in Nat /\ \A l \in x.incoming : l.request # i.request
    BY <1>2
  <2>. QED
    BY <1>2, <2>1
<1>9. \A j \in J : j.request <= x.latestRequest
  BY <1>2
<1>10. n <= MaximumInFlightRemoteRequests
  <2>1. MaximumInFlightRemoteRequests \in Nat
    BY RemoteBounds
  <2>. QED
    BY <1>2, <2>1
<1>11. InTable(y)
  BY <1>4, <1>6, <1>8, <1>9, <1>10 DEF InTable
<1>. QED
  BY <1>6, <1>7, <1>11 DEF Sane

\* DispatchRequest.
LEMMA RequestStep ==
    ASSUME StateOK, NEW m \in Managers, NEW e, PumpTake(m, e),
           NEW message \in Msg, DispatchRequest(e, message)
    PROVE  StepOK
<1>. DEFINE x == Taken(peers[e])  seen == [x EXCEPT !.latestRequest = message.request]
            error == Message("error", message.remote, message.request)
            started == [ request |-> message.request, remote |-> message.remote,
                         accept |-> TRUE, late |-> FALSE, expired |-> FALSE ]
            J == seen.incoming \cup {started}  n == seen.handlers + 1
            y == [seen EXCEPT !.incoming = J, !.handlers = n]
<1>1. e \in Ends
  BY TakenMessage
<1>2. Sane(peers[e], From(e)) /\ peers[e] \in Peer
  BY <1>1, EndKnown
<1>3. Sane(x, From(e)) /\ x \in Peer
  BY <1>2, OthersSane DEF Sane
<1>4. message.remote \in Remotes /\ message.request \in Nat
  BY DEF Msg
<1>5. \/ RejectRequest(e, message)
      \/ /\ message.request > x.latestRequest /\ trace' = trace
         /\ \E outcome \in SendOutcomes(seen, error, FALSE) :
                /\ peers' = [peers EXCEPT ![e] = AfterSend(seen, error, outcome)]
                /\ SendOne(e, seen, error, FALSE, outcome)
      \/ /\ message.request > x.latestRequest /\ x.handlers < MaximumInFlightRemoteRequests
         /\ peers' = [peers EXCEPT ![e] =
                [seen EXCEPT !.incoming = @ \cup {started}, !.handlers = @ + 1]]
         /\ wire' = wire /\ datagrams' = datagrams /\ trace' = trace
  <2>. HIDE DEF y, J, n
  <2>. QED
    BY Zenon DEF DispatchRequest
<1>6. CASE RejectRequest(e, message)
  BY <1>6, RejectStep
<1>. HIDE DEF x
<1>7. ASSUME message.request > x.latestRequest
      PROVE  /\ Sane(seen, From(e)) /\ Same(x, seen, {"latestRequest"})
             /\ seen.latestRequest = message.request
             /\ \A j \in seen.incoming : j.request < message.request
             /\ seen.handlers = x.handlers
  <2>1. x.latestRequest \in Nat /\ x.latestRequest < message.request
    BY <1>3, <1>4, <1>7 DEF Peer
  <2>2. Sane(seen, From(e)) /\ Same(x, seen, {"latestRequest"}) /\ seen.latestRequest = message.request
    <3>. DEFINE z == seen
    <3>1. z = [x EXCEPT !.latestRequest = message.request]
      OBVIOUS
    <3>. HIDE DEF z
    <3>2. Sane(z, From(e)) /\ Same(x, z, {"latestRequest"}) /\ z.latestRequest = message.request
      BY <1>3, <1>4, <2>1, <3>1, SeenSane
    <3>. QED
      BY <3>2 DEF z
  <2>. HIDE DEF seen
  <2>3. seen.incoming = x.incoming /\ seen.handlers = x.handlers
    BY <2>2 DEF Same, Fields
  <2>4. \A j \in x.incoming : j.request \in Nat /\ j.request <= x.latestRequest
    BY <1>3 DEF Sane, InTable, Peer, Incoming
  <2>5. \A j \in x.incoming : j.request < message.request
    BY <1>4, <2>1, <2>4
  <2>. QED
    BY <2>2, <2>3, <2>5
<1>. HIDE DEF seen
<1>8. {"latestRequest"} \in SUBSET (Calm \ {"queued"})
  BY DEF Calm
<1>9. ASSUME message.request > x.latestRequest, trace' = trace,
             NEW outcome \in SendOutcomes(seen, error, FALSE),
             peers' = [peers EXCEPT ![e] = AfterSend(seen, error, outcome)],
             SendOne(e, seen, error, FALSE, outcome)
      PROVE  StepOK
  <2>1. Sane(seen, From(e)) /\ Same(Taken(peers[e]), seen, {"latestRequest"})
    BY <1>7, <1>9 DEF x
  <2>2. error = Message("error", message.remote, message.request)
    OBVIOUS
  <2>. HIDE DEF error
  <2>. QED
    BY <1>4, <1>8, <1>9, <2>1, <2>2, TakeError
<1>10. ASSUME message.request > x.latestRequest, x.handlers < MaximumInFlightRemoteRequests,
              peers' = [peers EXCEPT ![e] = y],
              wire' = wire, datagrams' = datagrams, trace' = trace
       PROVE  StepOK
  <2>1. /\ Sane(seen, From(e)) /\ Same(x, seen, {"latestRequest"})
        /\ seen.latestRequest = message.request
        /\ \A j \in seen.incoming : j.request < message.request
        /\ seen.handlers < MaximumInFlightRemoteRequests
    BY <1>7, <1>10
  <2>2. started \in Incoming /\ started.request = message.request
    <3>1. x.latestRequest \in Nat
      BY <1>3 DEF Peer
    <3>2. message.request # 0
      BY <1>4, <1>10, <3>1
    <3>. QED
      BY <1>4, <3>2 DEF Incoming
  <2>3. J = seen.incoming \cup {started} /\ n = seen.handlers + 1
        /\ y = [seen EXCEPT !.incoming = J, !.handlers = n]
    OBVIOUS
  <2>. HIDE DEF y, J, n, started
  <2>4. Sane(y, From(e)) /\ Same(seen, y, {"incoming", "handlers"})
    BY <2>1, <2>2, <2>3, StartedSane
  <2>5. Same(Taken(peers[e]), y, {"latestRequest", "incoming", "handlers"})
    BY <2>1, <2>4 DEF Same, x
  <2>6. {"latestRequest", "incoming", "handlers"} \in SUBSET (Calm \ {"queued"})
    BY DEF Calm
  <2>. QED
    BY <1>10, <2>4, <2>5, <2>6, TakeUnseen
<1>11. y = [seen EXCEPT !.incoming = @ \cup {started}, !.handlers = @ + 1]
  <2>. HIDE DEF started
  <2>. QED
    BY DEF y, J, n
<1>. HIDE DEF y, error, started, J, n
<1>. QED
  BY <1>5, <1>6, <1>9, <1>10, <1>11

\* Dispatch of any message.
LEMMA DispatchStep ==
    ASSUME StateOK, NEW m \in Managers, NEW e \in Ends, Dispatch(m, e)
    PROVE  StepOK
<1>. DEFINE message == Head(dispatch[m]).message
<1>1. PumpTake(m, e)
  BY DEF Dispatch
<1>2. message \in From(Other(e)) /\ message \in Msg
  BY <1>1, TakenMessage
<1>3. \/ DispatchRequest(e, message) \/ DispatchRefused(e, message) \/ DispatchEvent(e, message)
      \/ DispatchSequenced(e, message) \/ DispatchAnswer(e, message) \/ DispatchCancel(e, message)
  BY Zenon DEF Dispatch
<1>. HIDE DEF message
<1>4. CASE DispatchRequest(e, message)
  BY <1>1, <1>2, <1>4, RequestStep
<1>5. CASE DispatchRefused(e, message)
  BY <1>1, <1>2, <1>5, RefusedStep
<1>6. CASE DispatchEvent(e, message)
  BY <1>1, <1>2, <1>6, EventStep
<1>7. CASE DispatchSequenced(e, message)
  BY <1>1, <1>2, <1>7, SequencedStep
<1>8. CASE DispatchAnswer(e, message)
  BY <1>1, <1>2, <1>8, AnswerStep
<1>9. CASE DispatchCancel(e, message)
  BY <1>1, <1>2, <1>9, CancelStep
<1>. QED
  BY <1>3, <1>4, <1>5, <1>6, <1>7, <1>8, <1>9

-----------------------------------------------------------------------------
(* The whole system.                                                       *)

\* At first no end has a peer and nothing is under way.
LEMMA StateInit == Init => StateOK
<1>. SUFFICES ASSUME Init PROVE StateOK
  OBVIOUS
<1>. DEFINE x == NewPeer(FALSE, 0)
<1>1. /\ peers = [e \in Ends |-> x] /\ trace = [e \in Ends |-> NewTrace]
      /\ wire = [e \in Ends |-> <<>>] /\ datagrams = [e \in Ends |-> {}]
      /\ dispatch = [m \in Managers |-> <<>>]
  BY DEF Init
<1>2. /\ EndOK(x, NewTrace) /\ Numbers(x, NewTrace)
      /\ \A q \in 1 .. MaxRequests : NewTrace.outcome[q] = "none"
      /\ ~x.up /\ x.queued = 0
  BY NewEndOK, NewPeerSane
<1>. HIDE DEF x
<1>3. \A e \in Ends : peers[e] = x /\ trace[e] = NewTrace /\ wire[e] = <<>> /\ datagrams[e] = {}
  BY <1>1
<1>4. EndsOK
  <2>1. x \in Peer /\ NewTrace \in Trace
    BY <1>2 DEF EndOK, Sane
  <2>. QED
    BY <1>1, <1>2, <1>3, <2>1, OtherEnd DEF EndsOK
<1>5. LinksOK
  <2>1. <<>> \in Seq(Msg) /\ \A f \in Ends : <<>> \in Seq(From(f))
    OBVIOUS
  <2>2. wire \in [Ends -> Seq(Msg)] /\ datagrams \in [Ends -> SUBSET Msg]
    BY <1>1, <2>1
  <2>. QED
    BY <1>3, <2>1, <2>2 DEF LinksOK
<1>6. QueuesOK
  <2>1. <<>> \in Seq(Entry) /\ \A m \in Managers : <<>> \in Seq(EntriesOf(m))
    OBVIOUS
  <2>2. \A m \in Managers : dispatch[m] = <<>>
    BY <1>1
  <2>3. dispatch \in [Managers -> Seq(Entry)]
    BY <1>1, <2>1
  <2>4. \A e : Places(<<>>, e) = {}
    BY DEF Places
  <2>5. Cardinality({}) = 0 /\ 0 <= MaximumMessagesPerTick
    BY FS_EmptySet, RemoteBounds
  <2>6. \A e \in Ends : Places(dispatch[ManagerOf(e)], e) = {}
    BY <2>2, <2>4, OtherEnd
  <2>. QED
    BY <1>2, <1>3, <2>1, <2>2, <2>3, <2>5, <2>6 DEF QueuesOK
<1>7. AnswersMatch
  BY <1>2, <1>3 DEF AnswersMatch
<1>. QED
  BY <1>4, <1>5, <1>6, <1>7 DEF StateOK

\* A step that changes nothing.
LEMMA StutterStep ==
    ASSUME StateOK, UNCHANGED vars
    PROVE  StepOK
<1>1. /\ peers' = peers /\ trace' = trace /\ wire' = wire /\ datagrams' = datagrams /\ dispatch' = dispatch
  BY DEF vars
<1>2. EndsOK' /\ AnswersMatch' /\ Grown /\ FreshStep
  BY <1>1, NobodyMoves
<1>3. LinksOK /\ QueuesOK
  BY DEF StateOK
<1>4. \A f \in Ends : Accounted(peers'[f], dispatch[ManagerOf(f)], f)
  BY <1>1, <1>3 DEF QueuesOK, Accounted
<1>5. LinksOK' /\ QueuesOK'
  BY <1>1, <1>2, <1>3, <1>4, LinksKept, QueuesKept
<1>. QED
  BY <1>2, <1>5 DEF StepOK, StateOK

\* Every step keeps the state sane, and delivers only fresh sequenced events.
LEMMA StateNext == StateOK /\ [Next]_vars => StepOK
<1>. SUFFICES ASSUME StateOK, [Next]_vars PROVE StepOK
  OBVIOUS
<1>1. ASSUME NEW c \in Clients, Session(c)
      PROVE  StepOK
  <2>1. CASE AddPeer(c)
    BY <2>1, AddPeerStep
  <2>2. CASE \E remote \in Remotes : ServerPublishes(c, remote) \/ ServerUnpublishes(c, remote)
    BY <2>2, ServerPublishesStep
  <2>3. CASE \E object \in Objects, known \in BOOLEAN : ServerMaterializes(c, object, known)
    BY <2>3, ServerMaterializesStep
  <2>4. CASE ClientApplies(c)
    BY <2>4, ClientAppliesStep
  <2>5. CASE \E remote \in Remotes : ClientReleases(c, remote)
    BY <2>5, ClientReleasesStep
  <2>. QED
    BY <1>1, <2>1, <2>2, <2>3, <2>4, <2>5, Zenon DEF Session
<1>2. \A e \in Ends : Needs(e) \in SUBSET (SUBSET Objects)
  BY DEF Needs
<1>3. ASSUME NEW e \in Calling, Call(e)
      PROVE  StepOK
  <2>1. e \in Ends
    BY DEF Calling
  <2>2. ASSUME NEW remote \in Remotes, NEW needs \in Needs(e),
               StartRequest(e, remote, needs) \/ SendEvent(e, remote, needs)
        PROVE  StepOK
    <3>1. needs \in SUBSET Objects
      BY <1>2, <2>1
    <3>. QED
      BY <2>1, <2>2, <3>1, StartRequestStep, SendEventStep
  <2>3. CASE \E request \in 1 .. MaxRequests : CancelRequest(e, request)
    BY <2>1, <2>3, CancelRequestStep
  <2>. QED
    BY <1>3, <2>2, <2>3, Zenon DEF Call
<1>4. ASSUME NEW e \in Ends, NEW reply, Answer(e, reply)
      PROVE  StepOK
  <2>1. PICK kind \in {"response", "error"}, needs \in Needs(e) : Reply(e, reply, kind, needs)
    BY <1>4 DEF Answer
  <2>2. needs \in SUBSET Objects
    BY <1>2
  <2>. QED
    BY <2>1, <2>2, ReplyStep
<1>5. ASSUME NEW e \in Ends, PumpDeadlines(e) \/ ReleaseDeferred(e)
      PROVE  StepOK
  BY <1>5, TimeOutRequestStep, TimeOutReplyStep, ExpireWorkStep, ReleaseDeferredStep DEF PumpDeadlines
<1>6. ASSUME NEW m \in Managers, Pump(m)
      PROVE  StepOK
  BY <1>6, PumpTurnsStep, DrainStep, DispatchStep DEF Pump
<1>7. CASE \E c \in Clients : Session(c)
  BY <1>1, <1>7
<1>8. CASE \E e \in Ends : RemovePeer(e)
  BY <1>8, EndGoneStep DEF RemovePeer
<1>9. CASE \E e \in Calling : Call(e)
  BY <1>3, <1>9
<1>10. CASE \E e \in Ends : \E reply \in replies[e] : Answer(e, reply)
  BY <1>4, <1>10
<1>11. CASE \E e \in Ends : Elapse(e)
  BY <1>11, ElapseStep
<1>12. CASE \E e \in Ends : PumpDeadlines(e) \/ ReleaseDeferred(e)
  BY <1>5, <1>12
<1>13. CASE \E e \in Ends : ReceiveReliable(e) \/ ReceiveDatagram(e)
  BY <1>13, ReceiveStep
<1>14. CASE \E m \in Managers : Pump(m)
  BY <1>6, <1>14
<1>15. CASE UNCHANGED vars
  BY <1>15, StutterStep
<1>. QED
  BY <1>7, <1>8, <1>9, <1>10, <1>11, <1>12, <1>13, <1>14, <1>15, Zenon DEF Next

\* In every reachable state the entries of the peers, the queues and the links
\* are sane: the invariant the other theorems follow from.
THEOREM StateHolds == Spec => []StateOK
<1>1. Init => StateOK
  BY StateInit
<1>2. StateOK /\ [Next]_vars => StateOK'
  BY StateNext DEF StepOK
<1>. QED
  BY <1>1, <1>2, PTL DEF Spec

\* The counters that admission decisions read are what they count: no path of
\* Dispatch, SendReply, UnpublishRemote, TakePending or RemovePeerState changes
\* a table without its counter, or a counter without its table.
THEOREM CountersExact == Spec => []AccountsExact
<1>1. StateOK => AccountsExact
  <2>. SUFFICES ASSUME StateOK, NEW e \in Ends
                PROVE  LET x == peers[e]
                       IN  /\ x.handlers = Cardinality(x.incoming) /\ x.handlers <= MaximumInFlightRemoteRequests
                           /\ x.outgoing = Cardinality(x.pending) /\ x.outgoing <= MaximumInFlightRemoteRequests
                           /\ x.queued = QueuedOf(e, LAMBDA message : TRUE)
                           /\ x.queued <= MaximumMessagesPerTick
                           /\ \A n \in DOMAIN x.deferred : LiveRequest(x, x.deferred[n])
    BY Zenon DEF AccountsExact
  <2>1. OutTable(peers[e]) /\ InTable(peers[e]) /\ Live(peers[e])
    BY EndKnown DEF Sane
  <2>2. /\ peers[e].queued = Cardinality(Places(dispatch[ManagerOf(e)], e))
        /\ peers[e].queued <= MaximumMessagesPerTick
    BY DEF StateOK, QueuesOK
  <2>3. QueuedOf(e, LAMBDA message : TRUE) = Cardinality(Places(dispatch[ManagerOf(e)], e))
    BY DEF QueuedOf, Places
  <2>. QED
    BY <2>1, <2>2, <2>3 DEF OutTable, InTable, Live
<1>. QED
  BY <1>1, StateHolds, PTL

\* A request succeeds only with what its own handler gave to its reply function
\* in this very connection, though request identities start again with every
\* connection and reply functions outlive them.
THEOREM AnswersOwn == Spec => []AnswersMatch
<1>1. StateOK => AnswersMatch
  BY DEF StateOK
<1>. QED
  BY <1>1, StateHolds, PTL

\* The server never hands a handler a sequenced event of an earlier life of the
\* remote, though datagrams repeat, overtake each other and outlive a
\* publication; nor does a client as long as its publications number its lives,
\* which ends when its scripts let go of a copy of the remote (UnregisterRemote).
\* Within a life every end delivers only what is newer than the last event.
THEOREM DeliversFresh == Spec => SequencedFresh
<1>1. StateOK /\ [Next]_vars => [FreshStep /\ EndsOK]_vars
  BY StateNext DEF StepOK, StateOK
<1>2. Spec => [][FreshStep /\ EndsOK]_vars
  BY <1>1, StateHolds, PTL DEF Spec
<1>3. FreshStep /\ EndsOK => \A e \in Ends : \A r \in Sequenced :
        LET before == trace[e].last[r]
            after == trace'[e].last[r]
            numbered == e[2] = "server" \/ peers[e].publication[r] = after.of
        IN  after # before /\ after.of # 0 =>
                /\ numbered => after.life >= after.of
                /\ before.of = after.of => after.sequence > before.sequence
  <2>. SUFFICES ASSUME FreshStep, EndsOK, NEW e \in Ends, NEW r \in Sequenced,
                       trace'[e].last[r] # trace[e].last[r], trace'[e].last[r].of # 0
                PROVE  LET before == trace[e].last[r]
                           after == trace'[e].last[r]
                           numbered == e[2] = "server" \/ peers[e].publication[r] = after.of
                       IN  /\ numbered => after.life >= after.of
                           /\ before.of = after.of => after.sequence > before.sequence
    OBVIOUS
  <2>1. r \in Remotes
    BY DEF Remotes
  <2>2. Fresh(peers[e], trace[e], trace'[e], r)
    BY <2>1 DEF FreshStep
  <2>3. e[2] = "server" => peers[e].publication[r] = trace'[e].last[r].of
    BY <2>1, <2>2 DEF EndsOK, Numbers, Fresh
  <2>. QED
    BY <2>2, <2>3 DEF Fresh
<1>. QED
  BY <1>2, <1>3, PTL DEF SequencedFresh

=============================================================================
