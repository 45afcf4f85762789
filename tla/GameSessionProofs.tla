------------------------ MODULE GameSessionProofs ------------------------
(***************************************************************************)
(* Proofs about the session protocol, for all clients, Remotes, timeouts   *)
(* and bounds: the ends of a connection agree about the handshake, neither *)
(* rejects the other's reliable messages, a connection holds exactly the   *)
(* registrations of its phase, and a Remote is published only where it     *)
(* exists.                                                                 *)
(***************************************************************************)
EXTENDS GameSession, AggregateTheorems

-----------------------------------------------------------------------------
(* Messages and queues.                                                    *)

Signals == [type : {"connected", "disconnected", "hello", "app", "datagram"}]
Numbered == [type : {"accepted", "ready"}, epoch : Nat]
Frames == [type : {"frame"}, baseline : BOOLEAN, epoch : Nat, publish : SUBSET Remotes,
           leave : SUBSET Remotes, collapse : SUBSET Remotes]
Messages == Signals \cup Numbered \cup Frames

\* A queue in the order of precedence.
Sorted(q) == \A i, j \in DOMAIN q : i < j => Precedence(q[i]) <= Precedence(q[j])

\* t is s with m put at position k.
Inserted(s, t, k, m) ==
    /\ k \in 1 .. Len(s) + 1 /\ Len(t) = Len(s) + 1
    /\ \A i \in 1 .. Len(t) : t[i] = IF i < k THEN s[i] ELSE IF i = k THEN m ELSE s[i - 1]

\* t is the beginning of s.
Begins(t, s) == Len(t) <= Len(s) /\ \A i \in 1 .. Len(t) : t[i] = s[i]

LEMMA PrecedenceType ==
    ASSUME NEW m
    PROVE  /\ Precedence(m) \in {1, 2, 3}
           /\ m.type = "frame" => Precedence(m) = 2
           /\ m.type = "app" => Precedence(m) = 3
           /\ m.type \in {"hello", "accepted", "ready"} => Precedence(m) = 1
<1>1. CASE m.type \in {"hello", "accepted", "ready"}
  BY <1>1 DEF Precedence
<1>2. CASE m.type = "frame"
  BY <1>2 DEF Precedence
<1>3. CASE m.type \notin {"hello", "accepted", "ready", "frame"}
  BY <1>3 DEF Precedence
<1>. QED
  BY <1>1, <1>2, <1>3

\* In a sorted queue the messages that go before m are the first ones.
LEMMA AheadFirst ==
    ASSUME NEW S, NEW q \in Seq(S), Sorted(q), NEW m
    PROVE  /\ Ahead(q, m) \in 0 .. Len(q)
           /\ \A i \in DOMAIN q : i <= Ahead(q, m) <=> Precedence(q[i]) <= Precedence(m)
<1>. DEFINE K == {i \in DOMAIN q : Precedence(q[i]) <= Precedence(m)}
<1>1. Len(q) \in Nat /\ DOMAIN q = 1 .. Len(q) /\ K \in SUBSET (1 .. Len(q))
  OBVIOUS
<1>2. \A i, j \in 1 .. Len(q) : i \in K /\ j < i => j \in K
  <2>1. \A i \in 1 .. Len(q) : Precedence(q[i]) \in Int
    BY PrecedenceType
  <2>2. Precedence(m) \in Int
    BY PrecedenceType
  <2>. QED
    BY <1>1, <2>1, <2>2 DEF Sorted
<1>3. Ahead(q, m) = Cardinality(K)
  BY DEF Ahead
<1>. HIDE DEF K
<1>4. /\ IsFiniteSet(K) /\ Cardinality(K) \in Nat /\ Cardinality(K) <= Len(q)
      /\ \A k \in K : Rank(K)[k] \in 1 .. Cardinality(K)
      /\ \A n \in 1 .. Cardinality(K) : \E k \in K : Rank(K)[k] = n
  BY <1>1, RankBijection
<1>5. \A k \in K : Rank(K)[k] = k
  <2>. SUFFICES ASSUME NEW k \in K PROVE Rank(K)[k] = k
    OBVIOUS
  <2>1. {j \in K : j <= k} = 1 .. k
    <3>1. \A j \in 1 .. k : j \in K /\ j <= k
      BY <1>1, <1>2
    <3>2. \A j \in K : j <= k => j \in 1 .. k
      BY <1>1
    <3>. QED
      BY <3>1, <3>2
  <2>2. k \in Int /\ 1 \in Int /\ ~(1 > k)
    BY <1>1
  <2>3. Cardinality(1 .. k) = IF 1 > k THEN 0 ELSE k - 1 + 1
    BY <2>2, FS_Interval, Zenon
  <2>4. Cardinality(1 .. k) = k
    BY <2>2, <2>3
  <2>. QED
    BY <2>1, <2>4 DEF Rank
<1>6. \A i \in 1 .. Len(q) : i \in K <=> i <= Cardinality(K)
  <2>1. \A i \in K : i <= Cardinality(K)
    BY <1>4, <1>5
  <2>2. ASSUME NEW i \in 1 .. Len(q), i <= Cardinality(K)
        PROVE  i \in K
    <3>1. i \in 1 .. Cardinality(K)
      BY <1>1, <1>4, <2>2
    <3>. QED
      BY <1>4, <1>5, <3>1
  <2>. QED
    BY <2>1, <2>2
<1>. QED
  BY <1>1, <1>3, <1>4, <1>6 DEF K

\* A message is put behind those that go before it; the queue stays sorted.
LEMMA EnqueueInserts ==
    ASSUME NEW S, NEW q \in Seq(S), Sorted(q), NEW m \in S
    PROVE  /\ Enqueue(q, m) \in Seq(S) /\ Sorted(Enqueue(q, m))
           /\ Inserted(q, Enqueue(q, m), Ahead(q, m) + 1, m)
<1>. DEFINE n == Ahead(q, m)  t == Enqueue(q, m)
<1>1. /\ n \in 0 .. Len(q)
      /\ \A i \in DOMAIN q : i <= n <=> Precedence(q[i]) <= Precedence(m)
  BY AheadFirst
<1>2. Len(q) \in Nat /\ DOMAIN q = 1 .. Len(q) /\ \A i \in 1 .. Len(q) : q[i] \in S
  OBVIOUS
<1>3. t = SubSeq(q, 1, n) \o <<m>> \o SubSeq(q, n + 1, Len(q))
  BY DEF Enqueue
<1>. HIDE DEF n, t
<1>4. /\ SubSeq(q, 1, n) \in Seq(S) /\ Len(SubSeq(q, 1, n)) = n
      /\ \A i \in 1 .. n : SubSeq(q, 1, n)[i] = q[i]
  BY <1>1, <1>2
<1>5. /\ SubSeq(q, n + 1, Len(q)) \in Seq(S) /\ Len(SubSeq(q, n + 1, Len(q))) = Len(q) - n
      /\ \A i \in 1 .. Len(q) - n : SubSeq(q, n + 1, Len(q))[i] = q[n + i]
  <2>1. n + 1 \in 1 .. Len(q) + 1 /\ Len(q) \in (n + 1) - 1 .. Len(q)
    BY <1>1, <1>2
  <2>2. /\ SubSeq(q, n + 1, Len(q)) \in Seq(S)
        /\ Len(SubSeq(q, n + 1, Len(q))) = Len(q) - (n + 1) + 1
        /\ \A i \in 1 .. Len(q) - (n + 1) + 1 : SubSeq(q, n + 1, Len(q))[i] = q[(n + 1) + i - 1]
    BY <2>1, SubSeqProperties
  <2>3. Len(q) - (n + 1) + 1 = Len(q) - n /\ \A i \in Int : (n + 1) + i - 1 = n + i
    BY <1>1, <1>2
  <2>. DEFINE b == SubSeq(q, n + 1, Len(q))
  <2>. HIDE DEF b
  <2>4. b \in Seq(S) /\ Len(b) = Len(q) - n
    BY <2>2, <2>3 DEF b
  <2>5. \A i \in 1 .. Len(q) - n : b[i] = q[(n + 1) + i - 1]
    BY <2>2, <2>3 DEF b
  <2>6. \A i \in 1 .. Len(q) - n : b[i] = q[n + i]
    BY <1>1, <1>2, <2>5
  <2>. QED
    BY <2>4, <2>6 DEF b
<1>6. <<m>> \in Seq(S) /\ Len(<<m>>) = 1 /\ <<m>>[1] = m
  OBVIOUS
<1>7. /\ t \in Seq(S) /\ Len(t) = Len(q) + 1
      /\ \A i \in 1 .. Len(t) : t[i] = IF i < n + 1 THEN q[i] ELSE IF i = n + 1 THEN m ELSE q[i - 1]
  <2>. DEFINE a == SubSeq(q, 1, n)  b == SubSeq(q, n + 1, Len(q))
  <2>. HIDE DEF a, b
  <2>1. /\ a \in Seq(S) /\ Len(a) = n /\ b \in Seq(S) /\ Len(b) = Len(q) - n
        /\ (\A i \in 1 .. n : a[i] = q[i]) /\ (\A i \in 1 .. Len(q) - n : b[i] = q[n + i])
    BY <1>4, <1>5 DEF a, b
  <2>2. t = (a \o <<m>>) \o b
    BY <1>3 DEF a, b
  <2>3. /\ a \o <<m>> \in Seq(S) /\ Len(a \o <<m>>) = n + 1
        /\ \A i \in 1 .. n + 1 : (a \o <<m>>)[i] = IF i < n + 1 THEN q[i] ELSE m
    BY <1>1, <1>2, <1>6, <2>1
  <2>4. t \in Seq(S) /\ Len(t) = Len(q) + 1
    <3>1. t \in Seq(S) /\ Len(t) = Len(a \o <<m>>) + Len(b)
      BY <2>1, <2>2, <2>3, ConcatProperties
    <3>2. Len(a \o <<m>>) + Len(b) = Len(q) + 1
      <4>. DEFINE l == Len(a \o <<m>>)  r == Len(b)
      <4>1. l = n + 1 /\ r = Len(q) - n
        BY <2>1, <2>3
      <4>. HIDE DEF l, r
      <4>2. l + r = Len(q) + 1
        BY <1>1, <1>2, <4>1
      <4>. QED
        BY <4>2 DEF l, r
    <3>. QED
      BY <3>1, <3>2
  <2>5. \A i \in 1 .. n + 1 : t[i] = (a \o <<m>>)[i]
    BY <1>1, <1>2, <2>1, <2>2, <2>3
  <2>6. ASSUME NEW i \in 1 .. Len(t), i > n + 1
        PROVE  t[i] = q[i - 1]
    <3>1. t[i] = b[i - (n + 1)] /\ i - (n + 1) \in 1 .. Len(q) - n
      BY <1>1, <1>2, <2>1, <2>2, <2>3, <2>4, <2>6
    <3>2. n + (i - (n + 1)) = i - 1
      BY <1>1, <1>2, <2>4
    <3>. QED
      BY <2>1, <3>1, <3>2
  <2>. QED
    BY <1>1, <1>2, <2>3, <2>4, <2>5, <2>6
<1>8. Inserted(q, t, n + 1, m)
  BY <1>1, <1>2, <1>7 DEF Inserted
<1>9. Sorted(t)
  <2>1. \A i \in 1 .. Len(q) : Precedence(q[i]) \in Int
    BY PrecedenceType
  <2>2. Precedence(m) \in Int
    BY PrecedenceType
  <2>. SUFFICES ASSUME NEW i \in 1 .. Len(t), NEW j \in 1 .. Len(t), i < j
                PROVE  Precedence(t[i]) <= Precedence(t[j])
    BY <1>7 DEF Sorted
  <2>3. CASE j <= n
    BY <1>1, <1>2, <1>7, <2>3 DEF Sorted
  <2>4. CASE j = n + 1
    <3>1. i \in 1 .. Len(q) /\ i <= n /\ i < n + 1 /\ ~(j < n + 1)
      BY <1>1, <1>2, <1>7, <2>4
    <3>2. t[i] = q[i] /\ t[j] = m
      BY <1>7, <2>4, <3>1
    <3>3. Precedence(q[i]) <= Precedence(m)
      BY <1>1, <1>2, <3>1
    <3>. QED
      BY <3>2, <3>3
  <2>5. CASE j > n + 1 /\ i = n + 1
    <3>1. j - 1 \in 1 .. Len(q) /\ ~(j - 1 <= n) /\ t[j] = q[j - 1] /\ t[i] = m
      BY <1>1, <1>2, <1>7, <2>5
    <3>. QED
      BY <1>1, <1>2, <2>1, <2>2, <3>1
  <2>6. CASE j > n + 1 /\ i < n + 1
    <3>1. j - 1 \in 1 .. Len(q) /\ i \in 1 .. Len(q) /\ i < j - 1 /\ t[j] = q[j - 1] /\ t[i] = q[i]
      BY <1>1, <1>2, <1>7, <2>6
    <3>. QED
      BY <1>2, <3>1 DEF Sorted
  <2>7. CASE i > n + 1
    <3>1. j - 1 \in 1 .. Len(q) /\ i - 1 \in 1 .. Len(q) /\ i - 1 < j - 1 /\ t[j] = q[j - 1] /\ t[i] = q[i - 1]
      BY <1>1, <1>2, <1>7, <2>7
    <3>. QED
      BY <1>2, <3>1 DEF Sorted
  <2>. QED
    BY <1>1, <2>3, <2>4, <2>5, <2>6, <2>7
<1>. QED
  BY <1>7, <1>8, <1>9 DEF n, t

-----------------------------------------------------------------------------
(* The agreement of the two ends of one connection: the server's phase P   *)
(* and epoch E, the client's stage K and epoch X, whether the link is up,  *)
(* and what may still arrive at the client (in) and at the server (out).   *)

Has(q, type) == \E i \in DOMAIN q : q[i].type = type
Precedes(q, i, type) == \E j \in DOMAIN q : j < i /\ q[j].type = type

\* No frame overtakes the acceptance, which finds a client that waits for it;
\* gameplay finds a client that is Ready.
InboundAt(i, P, E, K, in, out) ==
    /\ in[i].type \in {"connected", "disconnected", "accepted", "frame", "app"}
    /\ in[i].type = "connected" => i = 1 /\ K = "Absent"
    /\ in[i].type = "accepted" =>
          /\ K = "TransportConnected"
          /\ \A j \in DOMAIN in : in[j].type = "accepted" => j = i
          /\ P # "Absent" => P = "Accepted" /\ in[i].epoch = E
          /\ ~Has(out, "hello")
    /\ in[i].type = "frame" => K \in {"Accepted", "Ready"} \/ Precedes(in, i, "accepted")
    /\ in[i].type = "app" => K = "Ready"

InboundOK(P, E, K, in, out) == \A i \in DOMAIN in : InboundAt(i, P, E, K, in, out)

\* Hello and ready travel once, each to a peer in the phase that takes it, and
\* gameplay does not overtake ready.
OutboundAt(i, P, E, K, X, out) ==
    /\ out[i].type \in {"connected", "disconnected", "hello", "ready", "app", "datagram"}
    /\ out[i].type = "connected" => i = 1 /\ P = "Absent"
    /\ out[i].type = "hello" =>
          /\ K \in {"TransportConnected", "Ended"}
          /\ \A j \in DOMAIN out : out[j].type = "hello" => j = i
          /\ P \in {"Absent", "TransportConnected"}
    /\ out[i].type = "ready" =>
          /\ K \in {"Ready", "Ended"}
          /\ \A j \in DOMAIN out : out[j].type = "ready" => j = i
          /\ P # "Absent" => P = "Accepted" /\ out[i].epoch = E
          /\ K = "Ready" => out[i].epoch = X
    /\ out[i].type = "app" => P \in {"Absent", "Ready"} \/ Precedes(out, i, "ready")

OutboundOK(P, E, K, X, out) == \A i \in DOMAIN out : OutboundAt(i, P, E, K, X, out)

\* What the phase of one end says of the other, and of what is under way.
PhasesOK(P, E, K, X, up, in, out) ==
    /\ P \in {"TransportConnected", "BootstrapPending"} \/ Has(out, "connected") =>
          /\ K \in {"Absent", "TransportConnected", "Ended"}
          /\ \A i \in DOMAIN in : in[i].type \in {"connected", "disconnected"}
          /\ ~Has(out, "ready") /\ ~Has(out, "app")
    /\ P \in {"BootstrapPending", "Accepted", "Ready"} => K # "Absent"
    /\ P = "Ready" => K = "Ended" \/ (K = "Ready" /\ X = E)
    /\ K \in {"Accepted", "Ready"} /\ P # "Absent" => P \in {"Accepted", "Ready"} /\ X = E
    /\ P = "Accepted" /\ up => K \in {"Accepted", "Ready"} \/ Has(in, "accepted")
    /\ K = "Ready" /\ P = "Accepted" /\ up => Has(out, "ready")
    /\ K = "Ended" => in = <<>> /\ ~up

Stages == {"Absent", "TransportConnected", "Accepted", "Ready", "Ended"}

HandshakeOK(P, E, K, X, up, in, out) ==
    /\ P \in Phases /\ K \in Stages /\ up \in BOOLEAN
    /\ in \in Seq(Messages) /\ out \in Seq(Messages)
    /\ InboundOK(P, E, K, in, out)
    /\ OutboundOK(P, E, K, X, out)
    /\ PhasesOK(P, E, K, X, up, in, out)

\* The peer is torn down; what was queued for the client is gone.
LEMMA TornDown ==
    ASSUME NEW P, NEW E, NEW K, NEW X, NEW up, NEW in, NEW out, NEW rest \in Seq(Messages),
           HandshakeOK(P, E, K, X, up, in, out), Begins(rest, in)
    PROVE  HandshakeOK("Absent", 0, K, X, up, rest, out)
<1>1. /\ in \in Seq(Messages) /\ DOMAIN in = 1 .. Len(in) /\ Len(in) \in Nat
      /\ DOMAIN rest = 1 .. Len(rest) /\ Len(rest) \in Nat
      /\ DOMAIN rest \subseteq DOMAIN in /\ \A i \in DOMAIN rest : rest[i] = in[i]
  BY DEF HandshakeOK, Begins
<1>2. InboundOK("Absent", 0, K, rest, out)
  <2>1. InboundOK(P, E, K, in, out)
    BY DEF HandshakeOK
  <2>2. \A i \in DOMAIN rest : Precedes(in, i, "accepted") => Precedes(rest, i, "accepted")
    BY <1>1 DEF Precedes
  <2>. QED
    BY <1>1, <2>1, <2>2 DEF InboundOK, InboundAt
<1>3. OutboundOK("Absent", 0, K, X, out)
  BY DEF HandshakeOK, OutboundOK, OutboundAt
<1>4. PhasesOK("Absent", 0, K, X, up, rest, out)
  <2>1. K = "Ended" => rest = <<>>
    BY <1>1 DEF HandshakeOK, PhasesOK, Begins
  <2>2. Has(out, "connected") => P = "Absent"
    BY DEF HandshakeOK, OutboundOK, OutboundAt, Has
  <2>. QED
    BY <1>1, <2>1, <2>2 DEF HandshakeOK, PhasesOK
<1>. QED
  BY <1>2, <1>3, <1>4 DEF HandshakeOK, Phases

\* The beginning of a queue, to which the end of the connection may be added.
Severed(t, s) ==
    \E n \in 0 .. Len(s) :
        /\ Len(t) \in {n, n + 1}
        /\ \A i \in 1 .. n : t[i] = s[i]
        /\ Len(t) = n + 1 => t[n + 1] = Disconnected

\* The queue after its first message.
Popped(t, s) == Len(s) = Len(t) + 1 /\ \A i \in 1 .. Len(t) : t[i] = s[i + 1]

\* The acceptance and the baseline are queued for a live client.
LEMMA Bootstrapped ==
    ASSUME NEW E \in Nat, NEW K, NEW X, NEW in, NEW out, NEW f \in Frames,
           HandshakeOK("BootstrapPending", E, K, X, TRUE, in, out)
    PROVE  HandshakeOK("Accepted", E, K, X, TRUE, in \o <<ServerAccepted(E), f>>, out)
<1>. DEFINE a == ServerAccepted(E)  t == in \o <<a, f>>
<1>1. a \in Messages /\ a.type = "accepted" /\ a.epoch = E /\ f \in Messages /\ f.type = "frame"
  BY DEF ServerAccepted, Messages, Numbered, Frames
<1>. HIDE DEF a
<1>2. /\ in \in Seq(Messages) /\ Len(in) \in Nat /\ <<a, f>> \in Seq(Messages)
      /\ t \in Seq(Messages) /\ Len(t) = Len(in) + 2
      /\ \A i \in 1 .. Len(in) : t[i] = in[i]
      /\ t[Len(in) + 1] = a /\ t[Len(in) + 2] = f
  BY <1>1 DEF HandshakeOK
<1>. HIDE DEF t
<1>3. K = "TransportConnected" /\ ~Has(out, "hello")
  <2>1. ~Has(out, "hello")
    BY DEF HandshakeOK, OutboundOK, OutboundAt, Has
  <2>. QED
    BY <2>1 DEF HandshakeOK, PhasesOK, Stages
<1>4. \A i \in 1 .. Len(in) : in[i].type = "disconnected"
  BY <1>2, <1>3 DEF HandshakeOK, PhasesOK, InboundOK, InboundAt
<1>5. DOMAIN t = 1 .. Len(in) + 2
  BY <1>2
<1>6. InboundOK("Accepted", E, K, t, out)
  <2>1. Precedes(t, Len(in) + 2, "accepted")
    BY <1>1, <1>2, <1>5 DEF Precedes
  <2>2. \A i \in DOMAIN t : i \in 1 .. Len(in) \/ i = Len(in) + 1 \/ i = Len(in) + 2
    BY <1>2, <1>5
  <2>. QED
    BY <1>1, <1>2, <1>3, <1>4, <2>1, <2>2 DEF InboundOK, InboundAt
<1>7. OutboundOK("Accepted", E, K, X, out)
  BY <1>3 DEF HandshakeOK, OutboundOK, OutboundAt, PhasesOK, Has
<1>8. PhasesOK("Accepted", E, K, X, TRUE, t, out)
  <2>1. ~Has(out, "connected")
    BY DEF HandshakeOK, OutboundOK, OutboundAt, Has
  <2>2. Has(t, "accepted")
    BY <1>1, <1>2, <1>5 DEF Has
  <2>. QED
    BY <1>3, <2>1, <2>2 DEF PhasesOK
<1>. QED
  BY <1>2, <1>6, <1>7, <1>8 DEF HandshakeOK, Phases, t, a

\* The same when the link is down: nothing reaches the client.
LEMMA BootstrappedAlone ==
    ASSUME NEW E \in Nat, NEW K, NEW X, NEW in, NEW out,
           HandshakeOK("BootstrapPending", E, K, X, FALSE, in, out)
    PROVE  HandshakeOK("Accepted", E, K, X, FALSE, in, out)
<1>1. ~Has(out, "hello") /\ ~Has(out, "connected") /\ ~Has(out, "ready") /\ ~Has(out, "app")
  BY DEF HandshakeOK, OutboundOK, OutboundAt, PhasesOK, Has
<1>2. \A i \in DOMAIN in : in[i].type \in {"connected", "disconnected"}
  BY DEF HandshakeOK, PhasesOK
<1>3. InboundOK("Accepted", E, K, in, out)
  BY <1>2 DEF HandshakeOK, InboundOK, InboundAt
<1>4. OutboundOK("Accepted", E, K, X, out)
  BY <1>1 DEF HandshakeOK, OutboundOK, OutboundAt, Has
<1>5. PhasesOK("Accepted", E, K, X, FALSE, in, out)
  BY <1>1 DEF HandshakeOK, PhasesOK
<1>. QED
  BY <1>3, <1>4, <1>5 DEF HandshakeOK, Phases

\* A frame or gameplay is queued for a live client.
LEMMA TrafficQueued ==
    ASSUME NEW P, NEW E, NEW K, NEW X, NEW in, NEW out, NEW t \in Seq(Messages), NEW k, NEW m,
           HandshakeOK(P, E, K, X, TRUE, in, out), Inserted(in, t, k, m),
           \/ (m.type = "frame" /\ P \in {"Accepted", "Ready"})
           \/ (m.type = "app" /\ P = "Ready"),
           \A i \in DOMAIN in : in[i].type = "accepted" => i < k
    PROVE  HandshakeOK(P, E, K, X, TRUE, t, out)
<1>1. /\ in \in Seq(Messages) /\ Len(in) \in Nat /\ DOMAIN in = 1 .. Len(in)
      /\ k \in 1 .. Len(in) + 1 /\ DOMAIN t = 1 .. Len(in) + 1
      /\ \A i \in 1 .. Len(in) + 1 : t[i] = IF i < k THEN in[i] ELSE IF i = k THEN m ELSE in[i - 1]
  BY DEF HandshakeOK, Inserted
<1>2. \A i \in DOMAIN t : i < k \/ i = k \/ i > k
  BY <1>1
<1>3. \A i \in DOMAIN t : /\ i < k => i \in DOMAIN in /\ t[i] = in[i]
                          /\ i = k => t[i] = m
                          /\ i > k => i - 1 \in DOMAIN in /\ t[i] = in[i - 1]
  BY <1>1
<1>4. \A i \in DOMAIN in : in[i].type = "accepted" => i \in DOMAIN t /\ t[i] = in[i]
  BY <1>1
<1>5. K # "Ended"
  BY DEF HandshakeOK, PhasesOK
<1>6. P = "Ready" => K = "Ready"
  BY <1>5 DEF HandshakeOK, PhasesOK
<1>7. P = "Accepted" => K \in {"Accepted", "Ready"} \/ Has(in, "accepted")
  BY DEF HandshakeOK, PhasesOK
<1>8. m.type = "frame" => K \in {"Accepted", "Ready"} \/ Precedes(t, k, "accepted")
  BY <1>4, <1>6, <1>7 DEF Has, Precedes
<1>9. K # "Absent"
  BY DEF HandshakeOK, PhasesOK
<1>10. InboundOK(P, E, K, t, out)
  <2>. SUFFICES ASSUME NEW i \in DOMAIN t
                PROVE  InboundAt(i, P, E, K, t, out)
    BY Zenon DEF InboundOK
  <2>1. CASE i = k
    BY <1>3, <1>6, <1>8, <2>1 DEF InboundAt
  <2>2. ASSUME NEW h \in DOMAIN in, t[i] = in[h], (h = i /\ i < k) \/ (h = i - 1 /\ i > k)
        PROVE  InboundAt(i, P, E, K, t, out)
    <3>1. /\ in[h].type \in {"connected", "disconnected", "accepted", "frame", "app"}
          /\ in[h].type = "connected" => K = "Absent"
          /\ in[h].type = "accepted" =>
                /\ K = "TransportConnected"
                /\ \A j \in DOMAIN in : in[j].type = "accepted" => j = h
                /\ P # "Absent" => P = "Accepted" /\ in[h].epoch = E
                /\ ~Has(out, "hello")
          /\ in[h].type = "frame" => K \in {"Accepted", "Ready"} \/ Precedes(in, h, "accepted")
          /\ in[h].type = "app" => K = "Ready"
      BY DEF HandshakeOK, InboundOK, InboundAt
    <3>2. Precedes(in, h, "accepted") => Precedes(t, i, "accepted")
      BY <1>1, <1>4, <2>2 DEF Precedes
    <3>3. ASSUME NEW j \in DOMAIN t, t[i].type = "accepted", t[j].type = "accepted"
          PROVE  j = i
      <4>1. h = i /\ h < k
        BY <1>1, <2>2, <3>3
      <4>2. j # k
        BY <1>3, <3>3
      <4>3. j > k => FALSE
        BY <1>1, <1>3, <3>3
      <4>. QED
        BY <1>2, <1>3, <2>2, <3>1, <3>3, <4>1, <4>2, <4>3
    <3>. QED
      BY <1>9, <2>2, <3>1, <3>2, <3>3 DEF InboundAt
  <2>3. CASE i < k
    <3>1. i \in DOMAIN in /\ t[i] = in[i]
      BY <1>3, <2>3
    <3>. QED
      BY <2>2, <2>3, <3>1
  <2>4. CASE i > k
    <3>1. i - 1 \in DOMAIN in /\ t[i] = in[i - 1]
      BY <1>3, <2>4
    <3>. QED
      BY <2>2, <2>4, <3>1
  <2>. QED
    BY <1>2, <2>1, <2>3, <2>4
<1>11. PhasesOK(P, E, K, X, TRUE, t, out)
  <2>1. Has(in, "accepted") => Has(t, "accepted")
    BY <1>4 DEF Has
  <2>2. ~(P \in {"TransportConnected", "BootstrapPending"} \/ Has(out, "connected"))
    BY DEF HandshakeOK, OutboundOK, OutboundAt, Has
  <2>. QED
    BY <1>5, <2>1, <2>2 DEF HandshakeOK, PhasesOK
<1>. QED
  BY <1>10, <1>11 DEF HandshakeOK

\* What a queue and its rest have in common.
LEMMA PoppedFacts ==
    ASSUME NEW s \in Seq(Messages), NEW t \in Seq(Messages), Popped(t, s)
    PROVE  /\ 1 \in DOMAIN s
           /\ \A i \in DOMAIN t : i + 1 \in DOMAIN s /\ t[i] = s[i + 1] /\ i # 0 /\ i \in Nat
           /\ \A i \in DOMAIN s : i = 1 \/ (i - 1 \in DOMAIN t /\ s[i] = t[i - 1])
           /\ \A type : Has(t, type) => \E i \in DOMAIN s : i # 1 /\ s[i].type = type
           /\ \A type : Has(s, type) => s[1].type = type \/ Has(t, type)
           /\ \A type : \A i \in DOMAIN t :
                 Precedes(s, i + 1, type) => s[1].type = type \/ Precedes(t, i, type)
<1>1. /\ Len(s) \in Nat /\ Len(t) \in Nat /\ DOMAIN s = 1 .. Len(s) /\ DOMAIN t = 1 .. Len(t)
      /\ Len(s) = Len(t) + 1 /\ \A i \in 1 .. Len(t) : t[i] = s[i + 1]
  BY DEF Popped
<1>2. \A i \in DOMAIN t : i + 1 \in DOMAIN s /\ t[i] = s[i + 1] /\ i # 0 /\ i \in Nat
  BY <1>1
<1>3. \A i \in DOMAIN s : i = 1 \/ (i - 1 \in DOMAIN t /\ s[i] = t[i - 1])
  <2>. SUFFICES ASSUME NEW i \in DOMAIN s, i # 1 PROVE i - 1 \in DOMAIN t /\ s[i] = t[i - 1]
    OBVIOUS
  <2>1. i - 1 \in 1 .. Len(t) /\ (i - 1) + 1 = i
    BY <1>1
  <2>. QED
    BY <1>1, <2>1
<1>4. \A type : Has(t, type) => \E i \in DOMAIN s : i # 1 /\ s[i].type = type
  BY <1>2 DEF Has
<1>5. \A type : Has(s, type) => s[1].type = type \/ Has(t, type)
  BY <1>3 DEF Has
<1>6. ASSUME NEW type, NEW i \in DOMAIN t, Precedes(s, i + 1, type)
      PROVE  s[1].type = type \/ Precedes(t, i, type)
  <2>1. PICK j \in DOMAIN s : j < i + 1 /\ s[j].type = type
    BY <1>6 DEF Precedes
  <2>2. CASE j # 1
    <3>1. j - 1 \in DOMAIN t /\ s[j] = t[j - 1] /\ j - 1 < i
      BY <1>1, <1>3, <2>1, <2>2
    <3>. QED
      BY <2>1, <3>1 DEF Precedes
  <2>. QED
    BY <2>1, <2>2
<1>. QED
  BY <1>1, <1>2, <1>3, <1>4, <1>5, <1>6

\* The server takes the first message that arrives: one it ignores since it has
\* no peer for it, and the four that take a handshake further.
LEMMA ServerTakes ==
    ASSUME NEW P, NEW E, NEW K, NEW X, NEW up, NEW in, NEW out, NEW rest \in Seq(Messages),
           NEW Q, NEW F,
           HandshakeOK(P, E, K, X, up, in, out), Popped(rest, out),
           \/ (P = "Absent" /\ Q = P /\ F = E)
           \/ (out[1].type = "connected" /\ Q = "TransportConnected" /\ F = 0)
           \/ (out[1].type = "hello" /\ P = "TransportConnected" /\ Q = "BootstrapPending")
           \/ (out[1].type = "ready" /\ P = "Accepted" /\ Q = "Ready" /\ F = E)
           \/ (out[1].type \in {"app", "datagram"} /\ P = "Ready" /\ Q = P /\ F = E)
    PROVE  HandshakeOK(Q, F, K, X, up, in, rest)
<1>1. /\ in \in Seq(Messages) /\ out \in Seq(Messages)
      /\ InboundOK(P, E, K, in, out) /\ OutboundOK(P, E, K, X, out) /\ PhasesOK(P, E, K, X, up, in, out)
  BY DEF HandshakeOK
<1>2. /\ 1 \in DOMAIN out
      /\ \A i \in DOMAIN rest : i + 1 \in DOMAIN out /\ rest[i] = out[i + 1] /\ i # 0 /\ i \in Nat
      /\ \A type : Has(rest, type) => \E i \in DOMAIN out : i # 1 /\ out[i].type = type
      /\ \A type : Has(out, type) => out[1].type = type \/ Has(rest, type)
      /\ \A type : \A i \in DOMAIN rest :
            Precedes(out, i + 1, type) => out[1].type = type \/ Precedes(rest, i, type)
  BY <1>1, PoppedFacts, Zenon
<1>3. \A type : Has(rest, type) => Has(out, type)
  BY <1>2 DEF Has
<1>4. \A i \in DOMAIN out : OutboundAt(i, P, E, K, X, out)
  BY <1>1 DEF OutboundOK
<1>5. \A i \in DOMAIN rest : OutboundAt(i + 1, P, E, K, X, out)
  BY <1>2, <1>4
<1>6. ~Has(rest, "connected")
  BY <1>2, <1>4 DEF OutboundAt
<1>7. CASE P = "Absent" /\ Q = P /\ F = E
  <2>1. InboundOK(Q, F, K, in, rest)
    BY <1>1, <1>3, <1>7 DEF InboundOK, InboundAt
  <2>2. OutboundOK(Q, F, K, X, rest)
    BY <1>2, <1>5, <1>6, <1>7 DEF OutboundOK, OutboundAt, Has
  <2>3. PhasesOK(Q, F, K, X, up, in, rest)
    BY <1>1, <1>3, <1>6, <1>7 DEF PhasesOK
  <2>. QED
    BY <1>7, <2>1, <2>2, <2>3 DEF HandshakeOK
<1>8. CASE out[1].type = "connected" /\ Q = "TransportConnected" /\ F = 0
  <2>1. P = "Absent" /\ Has(out, "connected")
    BY <1>2, <1>4, <1>8 DEF OutboundAt, Has
  <2>2. InboundOK(Q, F, K, in, rest)
    BY <1>1, <1>3, <2>1 DEF InboundOK, InboundAt, PhasesOK
  <2>3. ~Has(rest, "ready") /\ ~Has(rest, "app")
    BY <1>1, <1>3, <2>1 DEF PhasesOK
  <2>4. OutboundOK(Q, F, K, X, rest)
    BY <1>2, <1>5, <1>6, <1>8, <2>3 DEF OutboundOK, OutboundAt, Has
  <2>5. PhasesOK(Q, F, K, X, up, in, rest)
    BY <1>1, <1>3, <1>8, <2>1, <2>3 DEF PhasesOK
  <2>. QED
    BY <1>8, <2>2, <2>4, <2>5 DEF HandshakeOK, Phases
<1>9. CASE out[1].type = "hello" /\ P = "TransportConnected" /\ Q = "BootstrapPending"
  <2>1. ~Has(rest, "hello") /\ K \in {"TransportConnected", "Ended"}
    <3>1. \A j \in DOMAIN out : out[j].type = "hello" => j = 1
      BY <1>2, <1>4, <1>9 DEF OutboundAt
    <3>. QED
      BY <1>2, <1>4, <1>9, <3>1 DEF OutboundAt
  <2>2. ~Has(rest, "ready") /\ ~Has(rest, "app")
    BY <1>1, <1>3, <1>9 DEF PhasesOK
  <2>3. InboundOK(Q, F, K, in, rest)
    BY <1>1, <1>3, <1>9 DEF InboundOK, InboundAt, PhasesOK
  <2>4. OutboundOK(Q, F, K, X, rest)
    BY <1>2, <1>5, <1>6, <1>9, <2>1, <2>2 DEF OutboundOK, OutboundAt, Has
  <2>5. PhasesOK(Q, F, K, X, up, in, rest)
    BY <1>1, <1>3, <1>9, <2>1, <2>2 DEF PhasesOK
  <2>. QED
    BY <1>9, <2>3, <2>4, <2>5 DEF HandshakeOK, Phases
<1>10. CASE out[1].type = "ready" /\ P = "Accepted" /\ Q = "Ready" /\ F = E
  <2>1. /\ ~Has(rest, "ready") /\ K \in {"Ready", "Ended"}
        /\ out[1].epoch = E /\ (K = "Ready" => X = E)
    <3>1. \A j \in DOMAIN out : out[j].type = "ready" => j = 1
      BY <1>2, <1>4, <1>10 DEF OutboundAt
    <3>2. OutboundAt(1, P, E, K, X, out)
      BY <1>2, <1>4
    <3>. QED
      BY <1>2, <1>10, <3>1, <3>2 DEF OutboundAt
  <2>2. ~Has(rest, "hello") /\ ~Has(out, "connected")
    BY <1>2, <1>3, <1>4, <1>10 DEF OutboundAt, Has
  <2>3. InboundOK(Q, F, K, in, rest)
    BY <1>1, <1>10, <2>1 DEF InboundOK, InboundAt
  <2>4. OutboundOK(Q, F, K, X, rest)
    BY <1>2, <1>5, <1>6, <1>10, <2>1, <2>2 DEF OutboundOK, OutboundAt, Has
  <2>5. PhasesOK(Q, F, K, X, up, in, rest)
    BY <1>1, <1>6, <1>10, <2>1, <2>2 DEF PhasesOK
  <2>. QED
    BY <1>10, <2>3, <2>4, <2>5 DEF HandshakeOK, Phases
<1>11. CASE out[1].type \in {"app", "datagram"} /\ P = "Ready" /\ Q = P /\ F = E
  <2>1. InboundOK(Q, F, K, in, rest)
    BY <1>1, <1>3, <1>11 DEF InboundOK, InboundAt
  <2>2. OutboundOK(Q, F, K, X, rest)
    BY <1>2, <1>5, <1>6, <1>11 DEF OutboundOK, OutboundAt, Has
  <2>3. PhasesOK(Q, F, K, X, up, in, rest)
    BY <1>1, <1>3, <1>6, <1>11 DEF PhasesOK
  <2>. QED
    BY <1>11, <2>1, <2>2, <2>3 DEF HandshakeOK
<1>. QED
  BY <1>7, <1>8, <1>9, <1>10, <1>11

-----------------------------------------------------------------------------
(* The client takes its messages, ends, attaches its runtime and fires.     *)

\* A client that is connected says hello.
LEMMA ClientConnected ==
    ASSUME NEW P, NEW E, NEW X, NEW up, NEW in, NEW out, NEW rest \in Seq(Messages), NEW t,
           HandshakeOK(P, E, "Absent", X, up, in, out), Popped(rest, in), in[1].type = "connected",
           t = IF up THEN Append(out, ClientHello) ELSE out
    PROVE  HandshakeOK(P, E, "TransportConnected", X, up, rest, t)
<1>1. /\ in \in Seq(Messages) /\ out \in Seq(Messages) /\ up \in BOOLEAN /\ P \in Phases
      /\ InboundOK(P, E, "Absent", in, out) /\ OutboundOK(P, E, "Absent", X, out)
      /\ PhasesOK(P, E, "Absent", X, up, in, out)
  BY DEF HandshakeOK
<1>2. \A i \in DOMAIN rest : i + 1 \in DOMAIN in /\ rest[i] = in[i + 1] /\ i # 0 /\ i \in Nat
  BY <1>1, PoppedFacts, Zenon
<1>3. \A i \in DOMAIN in : in[i].type \in {"connected", "disconnected"}
  <2>1. ~Has(in, "accepted")
    BY <1>1 DEF InboundOK, InboundAt, Has
  <2>2. \A i \in DOMAIN in : ~Precedes(in, i, "accepted")
    BY <2>1 DEF Has, Precedes
  <2>. QED
    BY <1>1, <2>1, <2>2 DEF InboundOK, InboundAt, Has
<1>4. \A i \in DOMAIN rest : rest[i].type = "disconnected"
  <2>1. \A i \in DOMAIN in : in[i].type = "connected" => i = 1
    BY <1>1 DEF InboundOK, InboundAt
  <2>2. \A i \in DOMAIN rest : i + 1 # 1
    BY <1>2
  <2>. QED
    BY <1>2, <1>3, <2>1, <2>2
<1>5. P \in {"Absent", "TransportConnected"}
  BY <1>1 DEF PhasesOK, Phases
<1>6. ~Has(out, "hello") /\ ~Has(out, "ready")
  BY <1>1 DEF OutboundOK, OutboundAt, Has
<1>7. ClientHello \in Messages /\ ClientHello.type = "hello"
  BY DEF ClientHello, Messages, Signals
<1>. DEFINE h == ClientHello
<1>. HIDE DEF h
<1>8. /\ t \in Seq(Messages) /\ DOMAIN out \subseteq DOMAIN t
      /\ \A i \in DOMAIN out : t[i] = out[i]
      /\ \A i \in DOMAIN t : i \in DOMAIN out \/ (t[i].type = "hello" /\ i = Len(out) + 1 /\ i \notin DOMAIN out)
  <2>1. CASE up
    <3>1. t = Append(out, h)
      BY <2>1 DEF h
    <3>. QED
      BY <1>1, <1>7, <3>1 DEF h
  <2>2. CASE ~up
    BY <1>1, <2>2
  <2>. QED
    BY <2>1, <2>2
<1>9. \A i \in DOMAIN out : Precedes(out, i, "ready") => Precedes(t, i, "ready")
  BY <1>8 DEF Precedes
<1>10. /\ ~Has(t, "ready") /\ (Has(t, "connected") => Has(out, "connected"))
       /\ (Has(t, "app") => Has(out, "app"))
  BY <1>6, <1>8 DEF Has
<1>11. InboundOK(P, E, "TransportConnected", rest, t)
  BY <1>4 DEF InboundOK, InboundAt
<1>12. OutboundOK(P, E, "TransportConnected", X, t)
  <2>. SUFFICES ASSUME NEW i \in DOMAIN t PROVE OutboundAt(i, P, E, "TransportConnected", X, t)
    BY DEF OutboundOK
  <2>1. \A j \in DOMAIN t : t[j].type = "hello" => j = Len(out) + 1
    BY <1>6, <1>8 DEF Has
  <2>2. CASE i \in DOMAIN out
    <3>1. OutboundAt(i, P, E, "Absent", X, out) /\ t[i] = out[i]
      BY <1>1, <1>8, <2>2 DEF OutboundOK
    <3>2. t[i].type \notin {"hello", "ready"}
      BY <1>6, <1>8, <2>2 DEF Has
    <3>. QED
      BY <1>9, <2>2, <3>1, <3>2 DEF OutboundAt
  <2>3. CASE i \notin DOMAIN out
    BY <1>5, <1>8, <2>1, <2>3 DEF OutboundAt
  <2>. QED
    BY <2>2, <2>3
<1>13. PhasesOK(P, E, "TransportConnected", X, up, rest, t)
  BY <1>1, <1>4, <1>5, <1>10 DEF PhasesOK
<1>. QED
  BY <1>1, <1>8, <1>11, <1>12, <1>13 DEF HandshakeOK, Stages

\* An accepted client has nothing left to send.
LEMMA ClientAccepted ==
    ASSUME NEW P, NEW E, NEW X, NEW up, NEW in, NEW out, NEW rest \in Seq(Messages),
           NEW t \in Seq(Messages),
           HandshakeOK(P, E, "TransportConnected", X, up, in, out), Popped(rest, in),
           in[1].type = "accepted", Begins(t, out)
    PROVE  HandshakeOK(P, E, "Accepted", in[1].epoch, up, rest, t)
<1>1. /\ in \in Seq(Messages) /\ out \in Seq(Messages) /\ up \in BOOLEAN /\ P \in Phases
      /\ InboundOK(P, E, "TransportConnected", in, out)
      /\ OutboundOK(P, E, "TransportConnected", X, out)
      /\ PhasesOK(P, E, "TransportConnected", X, up, in, out)
  BY DEF HandshakeOK
<1>2. /\ 1 \in DOMAIN in
      /\ \A i \in DOMAIN rest : i + 1 \in DOMAIN in /\ rest[i] = in[i + 1] /\ i # 0 /\ i \in Nat
  BY <1>1, PoppedFacts, Zenon
<1>3. /\ DOMAIN t \subseteq DOMAIN out /\ \A i \in DOMAIN t : t[i] = out[i]
  <2>1. /\ DOMAIN t = 1 .. Len(t) /\ DOMAIN out = 1 .. Len(out) /\ Len(t) \in Nat /\ Len(out) \in Nat
        /\ Len(t) <= Len(out)
    BY <1>1 DEF Begins
  <2>. QED
    BY <2>1 DEF Begins
<1>4. /\ \A j \in DOMAIN in : in[j].type = "accepted" => j = 1
      /\ P # "Absent" => P = "Accepted" /\ in[1].epoch = E
      /\ ~Has(out, "hello")
  BY <1>1, <1>2 DEF InboundOK, InboundAt
<1>5. \A i \in DOMAIN rest : rest[i].type \in {"disconnected", "frame"}
  <2>1. \A i \in DOMAIN rest : i + 1 # 1
    BY <1>2
  <2>2. \A i \in DOMAIN in : in[i].type \in {"disconnected", "frame", "accepted"}
    BY <1>1 DEF InboundOK, InboundAt
  <2>. QED
    BY <1>2, <1>4, <2>1, <2>2
<1>6. ~Has(out, "ready") /\ ~Has(out, "connected")
  <2>1. ~Has(out, "ready")
    BY <1>1 DEF OutboundOK, OutboundAt, Has
  <2>. QED
    BY <1>1, <1>2, <2>1 DEF PhasesOK
<1>7. ~Has(t, "hello") /\ ~Has(t, "ready") /\ ~Has(t, "connected")
  BY <1>3, <1>4, <1>6 DEF Has
<1>8. InboundOK(P, E, "Accepted", rest, t)
  BY <1>5 DEF InboundOK, InboundAt
<1>9. OutboundOK(P, E, "Accepted", in[1].epoch, t)
  <2>. SUFFICES ASSUME NEW i \in DOMAIN t PROVE OutboundAt(i, P, E, "Accepted", in[1].epoch, t)
    BY DEF OutboundOK
  <2>1. OutboundAt(i, P, E, "TransportConnected", X, out) /\ t[i] = out[i]
    BY <1>1, <1>3 DEF OutboundOK
  <2>2. t[i].type \notin {"hello", "ready", "connected"} /\ ~Precedes(out, i, "ready")
    BY <1>6, <1>7 DEF Has, Precedes
  <2>. QED
    BY <2>1, <2>2 DEF OutboundAt
<1>10. PhasesOK(P, E, "Accepted", in[1].epoch, up, rest, t)
  BY <1>4, <1>7 DEF PhasesOK
<1>. QED
  BY <1>1, <1>8, <1>9, <1>10 DEF HandshakeOK, Stages

\* An accepted client takes a frame, a Ready one gameplay as well.
LEMMA ClientTakes ==
    ASSUME NEW P, NEW E, NEW K, NEW X, NEW up, NEW in, NEW out, NEW rest \in Seq(Messages),
           HandshakeOK(P, E, K, X, up, in, out), Popped(rest, in), K \in {"Accepted", "Ready"}
    PROVE  HandshakeOK(P, E, K, X, up, rest, out)
<1>1. /\ in \in Seq(Messages) /\ InboundOK(P, E, K, in, out) /\ PhasesOK(P, E, K, X, up, in, out)
  BY DEF HandshakeOK
<1>2. \A i \in DOMAIN rest : i + 1 \in DOMAIN in /\ rest[i] = in[i + 1] /\ i # 0 /\ i \in Nat
  BY <1>1, PoppedFacts, Zenon
<1>3. InboundOK(P, E, K, rest, out)
  <2>. SUFFICES ASSUME NEW i \in DOMAIN rest PROVE InboundAt(i, P, E, K, rest, out)
    BY DEF InboundOK
  <2>1. InboundAt(i + 1, P, E, K, in, out) /\ rest[i] = in[i + 1]
    BY <1>1, <1>2 DEF InboundOK
  <2>. QED
    BY <2>1 DEF InboundAt
<1>4. PhasesOK(P, E, K, X, up, rest, out)
  BY <1>1 DEF PhasesOK
<1>. QED
  BY <1>3, <1>4 DEF HandshakeOK

\* What a severed queue still holds.
LEMMA SeveredFacts ==
    ASSUME NEW s \in Seq(Messages), NEW t \in Seq(Messages), Severed(t, s)
    PROVE  /\ \A i \in DOMAIN t : (i \in DOMAIN s /\ t[i] = s[i]) \/ t[i] = Disconnected
           /\ \A type : \A i \in DOMAIN t : i \in DOMAIN s /\ t[i] = s[i] /\ Precedes(s, i, type) => Precedes(t, i, type)
<1>1. PICK n \in 0 .. Len(s) :
        /\ Len(t) \in {n, n + 1}
        /\ \A i \in 1 .. n : t[i] = s[i]
        /\ Len(t) = n + 1 => t[n + 1] = Disconnected
  BY DEF Severed
<1>2. DOMAIN t = 1 .. Len(t) /\ DOMAIN s = 1 .. Len(s) /\ Len(s) \in Nat /\ Len(t) \in Nat
  OBVIOUS
<1>3. \A i \in DOMAIN t : i \in 1 .. n \/ (i = n + 1 /\ Len(t) = n + 1)
  BY <1>1, <1>2
<1>4. \A i \in 1 .. n : i \in DOMAIN s /\ i \in DOMAIN t
  <2>1. n \in Nat /\ n <= Len(s) /\ (Len(t) = n \/ Len(t) = n + 1)
    <3>1. n \in Nat /\ n <= Len(s)
      BY <1>2
    <3>2. Len(t) = n \/ Len(t) = n + 1
      BY <1>1, Zenon
    <3>. QED
      BY <3>1, <3>2
  <2>2. \A a, b \in Nat : n \in Nat /\ n <= a /\ (b = n \/ b = n + 1) =>
            \A i \in 1 .. n : i \in 1 .. a /\ i \in 1 .. b
    OBVIOUS
  <2>. QED
    BY <1>2, <2>1, <2>2
<1>5. \A i \in DOMAIN t : \A j \in DOMAIN s : j < i => j \in 1 .. n
  BY <1>1, <1>2, <1>3
<1>. QED
  BY <1>1, <1>3, <1>4, <1>5 DEF Precedes

\* The client's session ends: it hears no more, and the server hears at most
\* what was under way and then of the end.
LEMMA ClientEnded ==
    ASSUME NEW P, NEW E, NEW K, NEW X, NEW up, NEW in, NEW out, NEW t \in Seq(Messages),
           HandshakeOK(P, E, K, X, up, in, out), Severed(t, out)
    PROVE  HandshakeOK(P, E, "Ended", 0, FALSE, <<>>, t)
<1>1. /\ out \in Seq(Messages) /\ P \in Phases
      /\ OutboundOK(P, E, K, X, out) /\ PhasesOK(P, E, K, X, up, in, out)
  BY DEF HandshakeOK
<1>2. /\ \A i \in DOMAIN t : (i \in DOMAIN out /\ t[i] = out[i]) \/ t[i] = Disconnected
      /\ \A type : \A i \in DOMAIN t :
            i \in DOMAIN out /\ t[i] = out[i] /\ Precedes(out, i, type) => Precedes(t, i, type)
  BY <1>1, SeveredFacts, Zenon
<1>3. Disconnected.type = "disconnected"
  BY DEF Disconnected
<1>4. \A type : type # "disconnected" /\ Has(t, type) => Has(out, type)
  BY <1>2, <1>3 DEF Has
<1>5. OutboundOK(P, E, "Ended", 0, t)
  <2>. SUFFICES ASSUME NEW i \in DOMAIN t PROVE OutboundAt(i, P, E, "Ended", 0, t)
    BY DEF OutboundOK
  <2>1. CASE t[i] = Disconnected
    BY <1>3, <2>1 DEF OutboundAt
  <2>2. CASE t[i] # Disconnected
    <3>1. OutboundAt(i, P, E, K, X, out) /\ i \in DOMAIN out /\ t[i] = out[i]
      BY <1>1, <1>2, <2>2 DEF OutboundOK
    <3>2. Precedes(out, i, "ready") => Precedes(t, i, "ready")
      BY <1>2, <3>1
    <3>3. \A j \in DOMAIN t : t[j].type \in {"hello", "ready"} => j \in DOMAIN out /\ t[j] = out[j]
      BY <1>2, <1>3
    <3>. QED
      BY <3>1, <3>2, <3>3 DEF OutboundAt
  <2>. QED
    BY <2>1, <2>2
<1>6. InboundOK(P, E, "Ended", <<>>, t)
  BY DEF InboundOK
<1>7. PhasesOK(P, E, "Ended", 0, FALSE, <<>>, t)
  <2>1. /\ Has(t, "ready") => Has(out, "ready")
        /\ Has(t, "app") => Has(out, "app")
        /\ Has(t, "connected") => Has(out, "connected")
    BY <1>4
  <2>2. \A i \in DOMAIN <<>> : FALSE
    OBVIOUS
  <2>. QED
    BY <1>1, <2>1, <2>2 DEF PhasesOK
<1>8. <<>> \in Seq(Messages)
  OBVIOUS
<1>. QED
  BY <1>1, <1>5, <1>6, <1>7, <1>8 DEF HandshakeOK, Stages

\* The link goes down: each end hears at most what was under way, then of the end.
LEMMA SeveredOK ==
    ASSUME NEW P, NEW E, NEW K, NEW X, NEW up, NEW in, NEW out,
           NEW r \in Seq(Messages), NEW t \in Seq(Messages),
           HandshakeOK(P, E, K, X, up, in, out), K # "Ended", Severed(r, in), Severed(t, out)
    PROVE  HandshakeOK(P, E, K, X, FALSE, r, t)
<1>1. /\ in \in Seq(Messages) /\ out \in Seq(Messages) /\ P \in Phases /\ K \in Stages
      /\ InboundOK(P, E, K, in, out)
      /\ OutboundOK(P, E, K, X, out) /\ PhasesOK(P, E, K, X, up, in, out)
  BY DEF HandshakeOK
<1>2. /\ \A i \in DOMAIN t : (i \in DOMAIN out /\ t[i] = out[i]) \/ t[i] = Disconnected
      /\ \A type : \A i \in DOMAIN t :
            i \in DOMAIN out /\ t[i] = out[i] /\ Precedes(out, i, type) => Precedes(t, i, type)
  BY <1>1, SeveredFacts, Zenon
<1>3. /\ \A i \in DOMAIN r : (i \in DOMAIN in /\ r[i] = in[i]) \/ r[i] = Disconnected
      /\ \A type : \A i \in DOMAIN r :
            i \in DOMAIN in /\ r[i] = in[i] /\ Precedes(in, i, type) => Precedes(r, i, type)
  BY <1>1, SeveredFacts, Zenon
<1>4. Disconnected.type = "disconnected"
  BY DEF Disconnected
<1>5. \A type : type # "disconnected" /\ Has(t, type) => Has(out, type)
  BY <1>2, <1>4 DEF Has
<1>6. InboundOK(P, E, K, r, t)
  <2>. SUFFICES ASSUME NEW i \in DOMAIN r PROVE InboundAt(i, P, E, K, r, t)
    BY DEF InboundOK
  <2>1. CASE r[i] = Disconnected
    BY <1>4, <2>1 DEF InboundAt
  <2>2. CASE r[i] # Disconnected
    <3>1. InboundAt(i, P, E, K, in, out) /\ i \in DOMAIN in /\ r[i] = in[i]
      BY <1>1, <1>3, <2>2 DEF InboundOK
    <3>2. Precedes(in, i, "accepted") => Precedes(r, i, "accepted")
      BY <1>3, <3>1
    <3>3. \A j \in DOMAIN r : r[j].type = "accepted" => j \in DOMAIN in /\ r[j] = in[j]
      BY <1>3, <1>4
    <3>4. Has(t, "hello") => Has(out, "hello")
      BY <1>5
    <3>. QED
      BY <3>1, <3>2, <3>3, <3>4 DEF InboundAt
  <2>. QED
    BY <2>1, <2>2
<1>7. OutboundOK(P, E, K, X, t)
  <2>. SUFFICES ASSUME NEW i \in DOMAIN t PROVE OutboundAt(i, P, E, K, X, t)
    BY DEF OutboundOK
  <2>1. CASE t[i] = Disconnected
    BY <1>4, <2>1 DEF OutboundAt
  <2>2. CASE t[i] # Disconnected
    <3>1. OutboundAt(i, P, E, K, X, out) /\ i \in DOMAIN out /\ t[i] = out[i]
      BY <1>1, <1>2, <2>2 DEF OutboundOK
    <3>2. Precedes(out, i, "ready") => Precedes(t, i, "ready")
      BY <1>2, <3>1
    <3>3. \A j \in DOMAIN t : t[j].type \in {"hello", "ready"} => j \in DOMAIN out /\ t[j] = out[j]
      BY <1>2, <1>4
    <3>. QED
      BY <3>1, <3>2, <3>3 DEF OutboundAt
  <2>. QED
    BY <2>1, <2>2
<1>8. PhasesOK(P, E, K, X, FALSE, r, t)
  <2>1. /\ Has(t, "ready") => Has(out, "ready")
        /\ Has(t, "app") => Has(out, "app")
        /\ Has(t, "connected") => Has(out, "connected")
    BY <1>5
  <2>2. \A i \in DOMAIN r : r[i].type = "disconnected" \/ (i \in DOMAIN in /\ r[i].type = in[i].type)
    BY <1>3, <1>4
  <2>. QED
    BY <1>1, <2>1, <2>2 DEF PhasesOK
<1>. QED
  BY <1>1, <1>6, <1>7, <1>8 DEF HandshakeOK

\* The runtime is attached and the server told so.
LEMMA ClientAttached ==
    ASSUME NEW P, NEW E, NEW X \in Nat, NEW up, NEW in, NEW out, NEW t,
           HandshakeOK(P, E, "Accepted", X, up, in, out),
           t = IF up THEN Append(out, ClientReady(X)) ELSE out
    PROVE  HandshakeOK(P, E, "Ready", X, up, in, t)
<1>1. /\ in \in Seq(Messages) /\ out \in Seq(Messages) /\ up \in BOOLEAN /\ P \in Phases
      /\ InboundOK(P, E, "Accepted", in, out) /\ OutboundOK(P, E, "Accepted", X, out)
      /\ PhasesOK(P, E, "Accepted", X, up, in, out)
  BY DEF HandshakeOK
<1>2. P \in {"Absent", "Accepted"} /\ (P = "Accepted" => X = E)
  BY <1>1 DEF PhasesOK, Phases
<1>3. ~Has(out, "hello") /\ ~Has(out, "ready") /\ ~Has(out, "connected")
  <2>1. ~Has(out, "hello") /\ ~Has(out, "ready")
    BY <1>1 DEF OutboundOK, OutboundAt, Has
  <2>. QED
    BY <1>1, <2>1 DEF PhasesOK
<1>4. ClientReady(X) \in Messages /\ ClientReady(X).type = "ready" /\ ClientReady(X).epoch = X
  BY DEF ClientReady, Messages, Numbered
<1>. DEFINE m == ClientReady(X)
<1>. HIDE DEF m
<1>5. /\ t \in Seq(Messages) /\ DOMAIN out \subseteq DOMAIN t
      /\ \A i \in DOMAIN out : t[i] = out[i]
      /\ \A i \in DOMAIN t : i \in DOMAIN out \/ (t[i] = m /\ i = Len(out) + 1 /\ i \notin DOMAIN out)
      /\ up => Len(out) + 1 \in DOMAIN t /\ t[Len(out) + 1] = m
  <2>1. CASE up
    <3>1. t = Append(out, m)
      BY <2>1 DEF m
    <3>. QED
      BY <1>1, <1>4, <3>1 DEF m
  <2>2. CASE ~up
    BY <1>1, <2>2
  <2>. QED
    BY <2>1, <2>2
<1>6. \A i \in DOMAIN t : t[i].type \in {"hello", "ready", "connected"} =>
            t[i] = m /\ i = Len(out) + 1 /\ i \notin DOMAIN out
  BY <1>3, <1>5 DEF Has
<1>7. ~Has(t, "hello") /\ ~Has(t, "connected") /\ (up => Has(t, "ready"))
  BY <1>4, <1>5, <1>6 DEF Has, m
<1>8. InboundOK(P, E, "Ready", in, t)
  BY <1>1, <1>7 DEF InboundOK, InboundAt
<1>9. OutboundOK(P, E, "Ready", X, t)
  <2>. SUFFICES ASSUME NEW i \in DOMAIN t PROVE OutboundAt(i, P, E, "Ready", X, t)
    BY DEF OutboundOK
  <2>1. CASE i \in DOMAIN out
    <3>1. OutboundAt(i, P, E, "Accepted", X, out) /\ t[i] = out[i]
      BY <1>1, <1>5, <2>1 DEF OutboundOK
    <3>2. t[i].type \notin {"hello", "ready", "connected"} /\ ~Precedes(out, i, "ready")
      BY <1>3, <1>6, <2>1 DEF Has, Precedes
    <3>. QED
      BY <3>1, <3>2 DEF OutboundAt
  <2>2. CASE i \notin DOMAIN out
    <3>1. t[i].type = "ready" /\ t[i].epoch = X
      BY <1>4, <1>5, <2>2 DEF m
    <3>2. \A j \in DOMAIN t : t[j].type = "ready" => j = i
      BY <1>5, <1>6, <2>2
    <3>. QED
      BY <1>2, <3>1, <3>2 DEF OutboundAt
  <2>. QED
    BY <2>1, <2>2
<1>10. PhasesOK(P, E, "Ready", X, up, in, t)
  BY <1>1, <1>2, <1>7 DEF PhasesOK
<1>. QED
  BY <1>1, <1>5, <1>8, <1>9, <1>10 DEF HandshakeOK, Stages

\* A Ready client fires: the message is put behind its readiness.
LEMMA ClientFires ==
    ASSUME NEW P, NEW E, NEW X, NEW in, NEW out, NEW t \in Seq(Messages), NEW k, NEW m,
           HandshakeOK(P, E, "Ready", X, TRUE, in, out), Inserted(out, t, k, m),
           m.type \in {"app", "datagram"},
           \A i \in DOMAIN out : out[i].type = "ready" => i < k
    PROVE  HandshakeOK(P, E, "Ready", X, TRUE, in, t)
<1>1. /\ in \in Seq(Messages) /\ out \in Seq(Messages) /\ P \in Phases
      /\ InboundOK(P, E, "Ready", in, out) /\ OutboundOK(P, E, "Ready", X, out)
      /\ PhasesOK(P, E, "Ready", X, TRUE, in, out)
  BY DEF HandshakeOK
<1>2. /\ Len(out) \in Nat /\ DOMAIN out = 1 .. Len(out)
      /\ k \in 1 .. Len(out) + 1 /\ DOMAIN t = 1 .. Len(out) + 1
      /\ \A i \in 1 .. Len(out) + 1 : t[i] = IF i < k THEN out[i] ELSE IF i = k THEN m ELSE out[i - 1]
  BY <1>1 DEF Inserted
<1>3. \A i \in DOMAIN t : /\ i < k \/ i = k \/ i > k
                          /\ i < k => i \in DOMAIN out /\ t[i] = out[i]
                          /\ i = k => t[i] = m
                          /\ i > k => i - 1 \in DOMAIN out /\ t[i] = out[i - 1]
  BY <1>2
<1>4. P \in {"Absent", "Accepted", "Ready"} /\ ~Has(out, "connected") /\ ~Has(out, "hello")
  <2>1. ~Has(out, "hello")
    BY <1>1 DEF OutboundOK, OutboundAt, Has
  <2>. QED
    BY <1>1, <2>1 DEF PhasesOK
<1>5. ~Has(t, "connected") /\ ~Has(t, "hello")
  BY <1>3, <1>4 DEF Has
<1>6. \A i \in DOMAIN out : out[i].type = "ready" => i \in DOMAIN t /\ t[i] = out[i] /\ i < k
  BY <1>2
<1>7. Has(out, "ready") => Has(t, "ready") /\ Precedes(t, k, "ready")
  BY <1>6 DEF Has, Precedes
<1>8. InboundOK(P, E, "Ready", in, t)
  BY <1>1, <1>5 DEF InboundOK, InboundAt
<1>9. OutboundOK(P, E, "Ready", X, t)
  <2>. SUFFICES ASSUME NEW i \in DOMAIN t PROVE OutboundAt(i, P, E, "Ready", X, t)
    BY DEF OutboundOK
  <2>1. CASE i = k
    <3>1. t[i].type \in {"app", "datagram"}
      BY <1>3, <2>1
    <3>2. P = "Accepted" => Precedes(t, i, "ready")
      BY <1>1, <1>7, <2>1 DEF PhasesOK
    <3>. QED
      BY <1>4, <3>1, <3>2 DEF OutboundAt
  <2>2. ASSUME NEW h \in DOMAIN out, t[i] = out[h], h = i \/ h = i - 1, h = i => i < k
        PROVE  OutboundAt(i, P, E, "Ready", X, t)
    <3>1. OutboundAt(h, P, E, "Ready", X, out)
      BY <1>1 DEF OutboundOK
    <3>2. Precedes(out, h, "ready") => Precedes(t, i, "ready")
      <4>1. \A j \in DOMAIN out : j < h => j < i
        BY <1>2, <2>2
      <4>. QED
        BY <1>6, <4>1 DEF Precedes
    <3>3. \A j \in DOMAIN t : t[j].type = "ready" => j < k /\ j \in DOMAIN out /\ t[j] = out[j]
      <4>. SUFFICES ASSUME NEW j \in DOMAIN t, t[j].type = "ready"
                    PROVE  j < k /\ j \in DOMAIN out /\ t[j] = out[j]
        OBVIOUS
      <4>1. j # k
        BY <1>3
      <4>2. ~(j > k)
        BY <1>2, <1>3
      <4>. QED
        BY <1>3, <4>1, <4>2
    <3>4. ASSUME t[i].type = "ready" PROVE \A j \in DOMAIN t : t[j].type = "ready" => j = i
      <4>1. i < k /\ i \in DOMAIN out /\ t[i] = out[i]
        BY <3>3, <3>4
      <4>2. \A j \in DOMAIN out : out[j].type = "ready" => j = h
        BY <2>2, <3>1, <3>4 DEF OutboundAt
      <4>. QED
        BY <3>3, <3>4, <4>1, <4>2
    <3>5. t[i].type \notin {"hello", "connected"}
      BY <1>5 DEF Has
    <3>. QED
      BY <2>2, <3>1, <3>2, <3>4, <3>5 DEF OutboundAt
  <2>. QED
    BY <1>2, <1>3, <2>1, <2>2
<1>10. PhasesOK(P, E, "Ready", X, TRUE, in, t)
  BY <1>1, <1>5, <1>7 DEF PhasesOK
<1>. QED
  BY <1>1, <1>8, <1>9, <1>10 DEF HandshakeOK

\* t is s without some of its datagrams: r says where the kept messages are.
ThinsBy(t, s, K, r) ==
    /\ K \in SUBSET DOMAIN s /\ r \in [K -> DOMAIN t]
    /\ \A n \in DOMAIN t : \E k \in K : r[k] = n
    /\ \A j, k \in K : j < k => r[j] < r[k]
    /\ \A k \in K : t[r[k]] = s[k]
    /\ \A i \in DOMAIN s : i \notin K => s[i].type = "datagram"
Thinning(t, s) == \E K, r : ThinsBy(t, s, K, r)

\* Datagrams leave the queue of reliable messages.
LEMMA ClientSends ==
    ASSUME NEW P, NEW E, NEW K, NEW X, NEW up, NEW in, NEW out, NEW t \in Seq(Messages),
           HandshakeOK(P, E, K, X, up, in, out), Thinning(t, out)
    PROVE  HandshakeOK(P, E, K, X, up, in, t)
<1>1. /\ in \in Seq(Messages) /\ out \in Seq(Messages)
      /\ InboundOK(P, E, K, in, out) /\ OutboundOK(P, E, K, X, out)
      /\ PhasesOK(P, E, K, X, up, in, out)
  BY DEF HandshakeOK
<1>11. PICK kept, r : ThinsBy(t, out, kept, r)
  BY Zenon DEF Thinning
<1>2. /\ kept \in SUBSET DOMAIN out /\ r \in [kept -> DOMAIN t]
      /\ \A n \in DOMAIN t : \E k \in kept : r[k] = n
      /\ \A j, k \in kept : j < k => r[j] < r[k]
      /\ \A k \in kept : t[r[k]] = out[k]
      /\ \A i \in DOMAIN out : i \notin kept => out[i].type = "datagram"
  BY <1>11 DEF ThinsBy
<1>3. DOMAIN t = 1 .. Len(t) /\ DOMAIN out = 1 .. Len(out) /\ Len(t) \in Nat /\ Len(out) \in Nat
  BY <1>1
<1>4. \A j, k \in kept : r[j] = r[k] => j = k
  <2>. SUFFICES ASSUME NEW j \in kept, NEW k \in kept, r[j] = r[k], j < k PROVE FALSE
    BY <1>2, <1>3
  <2>. QED
    BY <1>2, <1>3
<1>5. \A k \in kept : k = 1 => r[k] = 1
  <2>. SUFFICES ASSUME 1 \in kept PROVE r[1] = 1
    OBVIOUS
  <2>1. r[1] \in 1 .. Len(t) /\ 1 \in 1 .. Len(t)
    BY <1>2, <1>3
  <2>2. PICK k \in kept : r[k] = 1
    BY <1>2, <1>3, <2>1
  <2>3. k = 1 \/ 1 < k
    BY <1>2, <1>3
  <2>4. 1 < k => r[1] < 1
    BY <1>2, <2>2
  <2>. QED
    BY <2>1, <2>2, <2>3, <2>4
<1>6. \A type : type # "datagram" => (Has(t, type) <=> Has(out, type))
  <2>1. \A i \in DOMAIN out : out[i].type # "datagram" => i \in kept /\ r[i] \in DOMAIN t /\ t[r[i]] = out[i]
    BY <1>2
  <2>2. \A n \in DOMAIN t : \E k \in kept : t[n] = out[k] /\ k \in DOMAIN out
    BY <1>2
  <2>. QED
    BY <2>1, <2>2 DEF Has
<1>7. InboundOK(P, E, K, in, t)
  <2>1. Has(t, "hello") <=> Has(out, "hello")
    BY <1>6
  <2>. QED
    BY <1>1, <2>1 DEF InboundOK, InboundAt
<1>8. OutboundOK(P, E, K, X, t)
  <2>. SUFFICES ASSUME NEW n \in DOMAIN t PROVE OutboundAt(n, P, E, K, X, t)
    BY DEF OutboundOK
  <2>1. PICK k \in kept : r[k] = n
    BY <1>2
  <2>2. k \in DOMAIN out /\ t[n] = out[k] /\ OutboundAt(k, P, E, K, X, out)
    BY <1>1, <1>2, <2>1 DEF OutboundOK
  <2>3. k = 1 => n = 1
    BY <1>5, <2>1
  <2>4. Precedes(out, k, "ready") => Precedes(t, n, "ready")
    <3>. SUFFICES ASSUME NEW j \in DOMAIN out, j < k, out[j].type = "ready" PROVE Precedes(t, n, "ready")
      BY DEF Precedes
    <3>1. j \in kept
      BY <1>2
    <3>2. r[j] < n /\ r[j] \in DOMAIN t /\ t[r[j]].type = "ready"
      BY <1>2, <2>1, <3>1
    <3>. QED
      BY <3>2 DEF Precedes
  <2>5. \A type \in {"hello", "ready"} : (\A j \in DOMAIN out : out[j].type = type => j = k) =>
            (\A i \in DOMAIN t : t[i].type = type => i = n)
    <3>. SUFFICES ASSUME NEW type, \A j \in DOMAIN out : out[j].type = type => j = k,
                         NEW i \in DOMAIN t, t[i].type = type
                  PROVE  i = n
      OBVIOUS
    <3>1. PICK j \in kept : r[j] = i
      BY <1>2
    <3>2. j \in DOMAIN out /\ out[j].type = type
      BY <1>2, <3>1
    <3>. QED
      BY <2>1, <3>1, <3>2
  <2>. QED
    BY <2>2, <2>3, <2>4, <2>5 DEF OutboundAt
<1>9. PhasesOK(P, E, K, X, up, in, t)
  <2>1. /\ Has(t, "ready") <=> Has(out, "ready")
        /\ Has(t, "app") <=> Has(out, "app")
        /\ Has(t, "connected") <=> Has(out, "connected")
    BY <1>6
  <2>. QED
    BY <1>1, <2>1 DEF PhasesOK
<1>. QED
  BY <1>7, <1>8, <1>9 DEF HandshakeOK

-----------------------------------------------------------------------------
(* Queues that are put together, flushed and cut off.                       *)

LEMMA ConcatFacts ==
    ASSUME NEW S, NEW a \in Seq(S), NEW b \in Seq(S), NEW t, t = a \o b
    PROVE  /\ t \in Seq(S) /\ Len(t) = Len(a) + Len(b) /\ DOMAIN t = 1 .. Len(a) + Len(b)
           /\ Len(a) \in Nat /\ Len(b) \in Nat /\ DOMAIN a = 1 .. Len(a) /\ DOMAIN b = 1 .. Len(b)
           /\ \A i \in 1 .. Len(a) : t[i] = a[i]
           /\ \A i \in 1 .. Len(b) : t[Len(a) + i] = b[i]
<1>1. /\ t \in Seq(S) /\ Len(t) = Len(a) + Len(b) /\ Len(a) \in Nat /\ Len(b) \in Nat
      /\ DOMAIN a = 1 .. Len(a) /\ DOMAIN b = 1 .. Len(b) /\ DOMAIN t = 1 .. Len(t)
  BY ConcatProperties
<1>2. \A i \in 1 .. Len(a) : t[i] = a[i]
  BY <1>1
<1>3. \A i \in 1 .. Len(b) : t[Len(a) + i] = b[i]
  <2>. SUFFICES ASSUME NEW i \in 1 .. Len(b) PROVE t[Len(a) + i] = b[i]
    OBVIOUS
  <2>1. Len(a) + i \in 1 .. Len(a) + Len(b) /\ Len(a) + i > Len(a) /\ (Len(a) + i) - Len(a) = i
    BY <1>1
  <2>. QED
    BY <1>1, <2>1, ConcatProperties
<1>. QED
  BY <1>1, <1>2, <1>3

\* Dropping what is behind leaves the beginning.
LEMMA FrontBegins ==
    ASSUME NEW S, NEW a \in Seq(S), NEW b \in Seq(S), NEW t, NEW u, t = a \o b, u = a \o <<>>
    PROVE  u = a /\ Begins(u, t)
<1>1. /\ Len(t) = Len(a) + Len(b) /\ Len(a) \in Nat /\ Len(b) \in Nat
      /\ \A i \in 1 .. Len(a) : t[i] = a[i]
  BY ConcatFacts
<1>2. u = a
  BY ConcatEmptySeq
<1>. QED
  BY <1>1, <1>2 DEF Begins

\* Putting a message into the part behind.
LEMMA InsertedBehind ==
    ASSUME NEW S, NEW a \in Seq(S), NEW q \in Seq(S), NEW p \in Seq(S), NEW k, NEW m,
           Inserted(q, p, k, m), NEW s, NEW t, s = a \o q, t = a \o p
    PROVE  Inserted(s, t, Len(a) + k, m)
<1>1. /\ Len(s) = Len(a) + Len(q) /\ Len(a) \in Nat /\ Len(q) \in Nat
      /\ \A i \in 1 .. Len(a) : s[i] = a[i]
      /\ \A i \in 1 .. Len(q) : s[Len(a) + i] = q[i]
  BY ConcatFacts
<1>2. /\ Len(t) = Len(a) + Len(p) /\ Len(p) \in Nat
      /\ \A i \in 1 .. Len(a) : t[i] = a[i]
      /\ \A i \in 1 .. Len(p) : t[Len(a) + i] = p[i]
  BY ConcatFacts
<1>3. /\ k \in 1 .. Len(q) + 1 /\ Len(p) = Len(q) + 1
      /\ \A i \in 1 .. Len(p) : p[i] = IF i < k THEN q[i] ELSE IF i = k THEN m ELSE q[i - 1]
  BY DEF Inserted
<1>. DEFINE la == Len(a)  lq == Len(q)  lp == Len(p)  ls == Len(s)  lt == Len(t)
<1>4. /\ la \in Nat /\ lq \in Nat /\ lp = lq + 1 /\ ls = la + lq /\ lt = la + lp
      /\ k \in 1 .. lq + 1
  BY <1>1, <1>2, <1>3
<1>5. /\ \A i \in 1 .. la : s[i] = a[i] /\ t[i] = a[i]
      /\ \A i \in 1 .. lq : s[la + i] = q[i]
      /\ \A i \in 1 .. lp : t[la + i] = p[i]
      /\ \A i \in 1 .. lp : p[i] = IF i < k THEN q[i] ELSE IF i = k THEN m ELSE q[i - 1]
  BY <1>1, <1>2, <1>3
<1>. HIDE DEF la, lq, lp, ls, lt
<1>6. ASSUME NEW i \in 1 .. lt
      PROVE  /\ i < la + k => t[i] = s[i]
             /\ i = la + k => t[i] = m
             /\ i > la + k => t[i] = s[i - 1]
  <2>1. i \in Int /\ la \in Int /\ k \in Int
    BY <1>4
  <2>2. CASE i <= la
    <3>1. i \in 1 .. la /\ i < la + k
      BY <1>4, <2>2
    <3>2. t[i] = s[i]
      BY <1>5, <3>1
    <3>3. i # la + k /\ ~(i > la + k)
      BY <1>4, <2>1, <3>1
    <3>. QED
      BY <3>2, <3>3
  <2>3. CASE i > la
    <3>. DEFINE j == i - la
    <3>1. j \in 1 .. lp /\ la + j = i
      BY <1>4, <2>3
    <3>. HIDE DEF j
    <3>2. t[i] = p[j]
      BY <1>5, <3>1
    <3>3. ASSUME j < k PROVE t[i] = s[i]
      <4>1. j \in 1 .. lq
        BY <1>4, <3>1, <3>3
      <4>. QED
        BY <1>5, <3>1, <3>2, <3>3, <4>1
    <3>4. ASSUME j = k PROVE t[i] = m
      BY <1>4, <1>5, <3>1, <3>2, <3>4
    <3>5. ASSUME j > k PROVE t[i] = s[i - 1]
      <4>1. j - 1 \in 1 .. lq /\ la + (j - 1) = i - 1 /\ ~(j < k) /\ j # k
        BY <1>4, <3>1, <3>5
      <4>2. t[i] = q[j - 1]
        BY <1>5, <3>1, <3>2, <4>1
      <4>3. s[i - 1] = q[j - 1]
        BY <1>5, <4>1
      <4>. QED
        BY <4>2, <4>3
    <3>6. (i < la + k => j < k) /\ (i = la + k => j = k) /\ (i > la + k => j > k)
      BY <1>4, <2>1, <3>1
    <3>. QED
      BY <3>3, <3>4, <3>5, <3>6
  <2>4. i <= la \/ i > la
    BY <2>1
  <2>. QED
    BY <2>2, <2>3, <2>4
<1>7. la + k \in 1 .. ls + 1 /\ lt = ls + 1
  BY <1>4
<1>8. ASSUME NEW i \in 1 .. lt
      PROVE  t[i] = IF i < la + k THEN s[i] ELSE IF i = la + k THEN m ELSE s[i - 1]
  <2>1. i < la + k \/ i = la + k \/ i > la + k
    BY <1>4
  <2>. QED
    BY <1>6, <2>1
<1>. QED
  BY <1>7, <1>8 DEF Inserted, la, ls, lt

\* A flush takes the front of a queue, which was behind what was sent.
\* d is the front of queue q and r the rest.
Flushed(q, n, d, r) ==
    /\ d \in Seq(Messages) /\ Len(d) = n /\ r \in Seq(Messages) /\ q = d \o r
    /\ r # <<>> => q # <<>>
    /\ Sorted(q) => Sorted(r)

LEMMA FlushedQueue ==
    ASSUME NEW q \in Seq(Messages), NEW n \in 0 .. Len(q)
    PROVE  Flushed(q, n, SubSeq(q, 1, n), AfterFlush(q, n))
<1>. DEFINE f == SubSeq(q, 1, n)  g == AfterFlush(q, n)  l == Len(q)
<1>1. l \in Nat /\ n \in 0 .. l /\ DOMAIN q = 1 .. l
  OBVIOUS
<1>2. f \in Seq(Messages) /\ Len(f) = n /\ \A i \in 1 .. n : f[i] = q[i]
  BY <1>1
<1>3. g \in Seq(Messages) /\ Len(g) = l - n /\ \A i \in 1 .. l - n : g[i] = q[n + i]
  <2>1. n + 1 \in 1 .. Len(q) + 1 /\ Len(q) \in (n + 1) - 1 .. Len(q)
    BY <1>1
  <2>2. /\ SubSeq(q, n + 1, Len(q)) \in Seq(Messages)
        /\ Len(SubSeq(q, n + 1, Len(q))) = Len(q) - (n + 1) + 1
        /\ \A i \in 1 .. Len(q) - (n + 1) + 1 : SubSeq(q, n + 1, Len(q))[i] = q[(n + 1) + i - 1]
    BY <2>1, SubSeqProperties
  <2>3. g = SubSeq(q, n + 1, Len(q))
    BY DEF AfterFlush
  <2>. HIDE DEF g
  <2>4. g \in Seq(Messages) /\ Len(g) = l - (n + 1) + 1
    BY <2>2, <2>3
  <2>5. \A i \in 1 .. l - (n + 1) + 1 : g[i] = q[(n + 1) + i - 1]
    BY <2>2, <2>3
  <2>. HIDE DEF l
  <2>6. l - (n + 1) + 1 = l - n /\ \A i \in Int : (n + 1) + i - 1 = n + i
    BY <1>1
  <2>. QED
    BY <2>4, <2>5, <2>6
<1>. HIDE DEF f, g
<1>. DEFINE t == f \o g
<1>4. /\ t \in Seq(Messages) /\ Len(t) = Len(f) + Len(g) /\ \A i \in 1 .. Len(f) : t[i] = f[i]
      /\ \A i \in 1 .. Len(g) : t[Len(f) + i] = g[i]
  BY <1>2, <1>3, ConcatFacts
<1>. HIDE DEF t
<1>5. t = q
  <2>. DEFINE lt == Len(t)
  <2>1. lt = l /\ t \in Seq(Messages) /\ DOMAIN t = 1 .. lt
    <3>1. lt = n + (l - n)
      BY <1>2, <1>3, <1>4
    <3>. HIDE DEF l, lt
    <3>2. lt = l
      BY <1>1, <3>1
    <3>3. t \in Seq(Messages) /\ DOMAIN t = 1 .. Len(t)
      BY <1>4
    <3>. QED
      BY <3>2, <3>3 DEF lt
  <2>2. ASSUME NEW i \in 1 .. l PROVE t[i] = q[i]
    <3>1. CASE i <= n
      BY <1>1, <1>2, <1>4, <3>1
    <3>2. CASE i > n
      <4>. DEFINE j == i - n
      <4>1. j \in 1 .. l - n /\ n + j = i
        BY <1>1, <3>2
      <4>. HIDE DEF j, l
      <4>2. t[n + j] = g[j] /\ g[j] = q[n + j]
        BY <1>2, <1>3, <1>4, <4>1
      <4>. QED
        BY <4>1, <4>2
    <3>. QED
      BY <1>1, <3>1, <3>2
  <2>. QED
    BY <1>1, <2>1, <2>2, SeqEqual
<1>6. g # <<>> => q # <<>>
  BY <1>1, <1>3
<1>7. Sorted(q) => Sorted(g)
  <2>. SUFFICES ASSUME Sorted(q), NEW i \in 1 .. Len(g), NEW j \in 1 .. Len(g), i < j
                PROVE  Precedence(g[i]) <= Precedence(g[j])
    <3>1. DOMAIN g = 1 .. Len(g)
      BY <1>3
    <3>. QED
      BY <3>1, Zenon DEF Sorted
  <2>1. g[i] = q[n + i] /\ g[j] = q[n + j] /\ n + i \in DOMAIN q /\ n + j \in DOMAIN q /\ n + i < n + j
    BY <1>1, <1>3
  <2>. QED
    BY <2>1 DEF Sorted
<1>. QED
  BY <1>2, <1>3, <1>5, <1>6, <1>7 DEF f, g, t, Flushed

\* The ways a queue is cut off.
LEMMA SeveredWays ==
    ASSUME NEW a \in Seq(Messages), NEW b \in Seq(Messages), NEW s, s = a \o b
    PROVE  /\ s \in Seq(Messages)
           /\ Severed(s, s) /\ Severed(<<>>, s)
           /\ Severed(<<>> \o <<Disconnected>>, s) /\ Severed(a \o <<Disconnected>>, s)
           /\ <<>> \o <<Disconnected>> \in Seq(Messages) /\ a \o <<Disconnected>> \in Seq(Messages)
<1>1. Disconnected \in Messages
  BY DEF Disconnected, Messages, Signals
<1>. DEFINE D == Disconnected
<1>. HIDE DEF D
<1>2. /\ s \in Seq(Messages) /\ Len(s) = Len(a) + Len(b) /\ Len(a) \in Nat /\ Len(b) \in Nat
      /\ \A i \in 1 .. Len(a) : s[i] = a[i]
  BY ConcatFacts
<1>3. Severed(s, s)
  <2>1. Len(s) \in 0 .. Len(s) /\ Len(s) # Len(s) + 1
    BY <1>2
  <2>. QED
    BY <2>1 DEF Severed
<1>4. Severed(<<>>, s)
  <2>1. 0 \in 0 .. Len(s) /\ Len(<<>>) = 0
    BY <1>2
  <2>. QED
    BY <2>1 DEF Severed
<1>5. Severed(<<>> \o <<D>>, s) /\ <<>> \o <<D>> \in Seq(Messages)
  <2>1. <<>> \o <<D>> = <<D>> /\ <<D>> \in Seq(Messages) /\ Len(<<D>>) = 1 /\ <<D>>[1] = D
    BY <1>1 DEF D
  <2>2. 0 \in 0 .. Len(s)
    BY <1>2
  <2>. QED
    BY <2>1, <2>2 DEF Severed, D
<1>6. Severed(a \o <<D>>, s) /\ a \o <<D>> \in Seq(Messages)
  <2>. DEFINE t == a \o <<D>>
  <2>1. <<D>> \in Seq(Messages) /\ Len(<<D>>) = 1 /\ <<D>>[1] = D
    BY <1>1 DEF D
  <2>2. /\ t \in Seq(Messages) /\ Len(t) = Len(a) + 1
        /\ \A i \in 1 .. Len(a) : t[i] = a[i]
        /\ t[Len(a) + 1] = D
    BY <2>1, ConcatFacts
  <2>. HIDE DEF t
  <2>3. Len(a) \in 0 .. Len(s)
    BY <1>2
  <2>. QED
    BY <1>2, <2>2, <2>3 DEF Severed, D, t
<1>. QED
  BY <1>2, <1>3, <1>4, <1>5, <1>6 DEF D

-----------------------------------------------------------------------------
(* The invariant, of a server session s, a client session k and a           *)
(* transport n, for one connection c at a time.                             *)

PeerRecs == [phase : Phases, age : 0 .. HandshakeTimeoutTicks, epoch : Nat,
             remoteMaterializedObjects : SUBSET Remotes, materializedRemotes : SUBSET Remotes]

Blames == Clients \X (Causes \ {"protocol"})

Sessions == [status : {"Created", "Listening", "Failed", "Closed"},
             peers : PerClient(PeerRecs), services : PerClient(SUBSET Services),
             players : SUBSET Clients, queue : PerClient(Seq(Messages)),
             view : PerClient(SUBSET Remotes),
             objects : SUBSET Remotes, registry : SUBSET Remotes, bound : SUBSET Remotes,
             materialized : PerClient(SUBSET Remotes), published : PerClient(SUBSET Remotes),
             failures : SUBSET Blames, sessionFailure : BOOLEAN, nextEpoch : Nat \ {0},
             closed : SUBSET Blames, sent : PerClient(Seq(Messages))]

ClientRecs == [status : {"Created", "Connecting", "Accepted", "Ready", "Failed", "Closed"},
               phase : Phases \ {"BootstrapPending"}, age : 0 .. HandshakeTimeoutTicks, epoch : Nat,
               baseline : BOOLEAN, replica : SUBSET Remotes, known : SUBSET Remotes,
               remotes : SUBSET Remotes, attached : BOOLEAN,
               registry : SUBSET Remotes, bound : SUBSET Remotes,
               materialized : SUBSET Remotes, published : SUBSET Remotes,
               queue : Seq(Messages), hung : BOOLEAN]

Transports == [link : PerClient({"none", "up", "down"}),
               toServer : PerClient(Seq(Messages)), toClient : PerClient(Seq(Messages)),
               datagrams : PerClient(Int)]

\* The client's phase, "Ended" when its session has ended.
Stage(k) == IF EndedSession(k) THEN "Ended" ELSE k.phase

\* What may still arrive at the client, and at the server.
Inbound(s, n, c) ==
    IF n.link[c] = "up" THEN (n.toClient[c] \o s.sent[c]) \o s.queue[c] ELSE n.toClient[c]
Outbound(k, n, c) == IF n.link[c] = "up" THEN n.toServer[c] \o k.queue ELSE n.toServer[c]

Pair(s, k, n, c) ==
    HandshakeOK(s.peers[c].phase, s.peers[c].epoch, Stage(k), k.epoch, n.link[c] = "up",
                Inbound(s, n, c), Outbound(k, n, c))

LinkOK(s, k, n, c) ==
    /\ n.link[c] = "none" =>
          /\ n.toClient[c] = <<>> /\ n.toServer[c] = <<>>
          /\ Stage(k) = "Absent" /\ s.peers[c].phase = "Absent"
    /\ k.status = "Created" => n.link[c] = "none"

\* A connection is registered with the services of its phase and its tables are
\* filled only in the phases that use them; what is published is registered, in
\* the View and followed.
PeerOK(s, c) ==
    LET phase == s.peers[c].phase IN
    /\ s.services[c] = ServicesOf(phase)
    /\ c \in s.players <=> phase \in {"BootstrapPending", "Accepted", "Ready"}
    /\ s.queue[c] # <<>> \/ s.view[c] # {} => phase \in {"Accepted", "Ready"}
    /\ s.materialized[c] # {} \/ s.published[c] # {} => phase = "Ready"
    /\ s.published[c] \subseteq s.registry /\ s.published[c] \subseteq s.view[c]
    /\ s.published[c] \subseteq s.materialized[c]
    /\ s.published[c] \subseteq s.peers[c].remoteMaterializedObjects
    /\ phase = "Ready" /\ c \notin FailingPeers(s) => s.peers[c].remoteMaterializedObjects = s.view[c]
    /\ Sorted(s.queue[c])

\* A connection the server has closed has no peer.
Closing(s, c) == \E f \in s.closed : f[1] = c

PeerGood(s, k, n, c) ==
    /\ PeerOK(s, c) /\ Pair(s, k, n, c) /\ LinkOK(s, k, n, c)
    /\ Closing(s, c) => s.peers[c].phase = "Absent"

\* No session epoch is given twice.
Epochs(s) ==
    \A c \in Clients :
        /\ s.peers[c].epoch < s.nextEpoch
        /\ \A d \in Clients \ {c} : s.peers[c].epoch = s.peers[d].epoch => s.peers[c].epoch = 0

\* A session that does not listen has no peers.
IdleUnlessListening(s) ==
    s.status # "Listening" =>
        s.registry = {} /\ s.failures = {} /\ \A c \in Clients : s.peers[c].phase = "Absent"

Good(s, ks, n) ==
    /\ s \in Sessions /\ Epochs(s) /\ IdleUnlessListening(s)
    /\ \A c \in Clients : PeerGood(s, ks[c], n, c)

-----------------------------------------------------------------------------
(* Handlers of one connection, and loops over the connections.              *)

AgreeAt(s, t, c) ==
    /\ t.peers[c] = s.peers[c] /\ t.services[c] = s.services[c]
    /\ c \in t.players <=> c \in s.players
    /\ t.queue[c] = s.queue[c] /\ t.view[c] = s.view[c]
    /\ t.materialized[c] = s.materialized[c] /\ t.published[c] = s.published[c]
    /\ c \in FailingPeers(t) <=> c \in FailingPeers(s)
    /\ Closing(t, c) <=> Closing(s, c)

SameNet(n, m, c) ==
    m.link[c] = n.link[c] /\ m.toClient[c] = n.toClient[c] /\ m.toServer[c] = n.toServer[c]

\* t is s after a handler of connection c.
Local(s, t, c) ==
    /\ t \in Sessions /\ t.status = s.status /\ t.registry = s.registry /\ t.sent = s.sent
    /\ \A d \in Clients \ {c} : AgreeAt(s, t, d)
    /\ \/ t.nextEpoch = s.nextEpoch /\ t.peers[c].epoch \in {0, s.peers[c].epoch}
       \/ t.nextEpoch = s.nextEpoch + 1 /\ t.peers[c].epoch \in {0, s.nextEpoch}

\* t is s after an iteration for connection c of a loop over the peers.
Tame(s, t, c) ==
    /\ Local(s, t, c) /\ t.nextEpoch = s.nextEpoch
    /\ s.failures \subseteq t.failures /\ s.closed \subseteq t.closed
    /\ s.peers[c].phase = "Absent" => t = s

LEMMA SamePeer ==
    ASSUME NEW s, NEW t, NEW k, NEW n, NEW m, NEW c, PeerGood(s, k, n, c),
           AgreeAt(s, t, c), t.registry = s.registry, t.sent[c] = s.sent[c], SameNet(n, m, c)
    PROVE  PeerGood(t, k, m, c)
<1>1. PeerOK(t, c)
  BY DEF PeerGood, PeerOK, AgreeAt
<1>2. Inbound(t, m, c) = Inbound(s, n, c) /\ Outbound(k, m, c) = Outbound(k, n, c)
  BY DEF Inbound, Outbound, AgreeAt, SameNet
<1>3. Pair(t, k, m, c)
  BY <1>2 DEF PeerGood, Pair, AgreeAt, SameNet
<1>4. LinkOK(t, k, m, c)
  BY DEF PeerGood, LinkOK, AgreeAt, SameNet
<1>. QED
  BY <1>1, <1>3, <1>4 DEF PeerGood, AgreeAt

LEMMA LocalEpochs ==
    ASSUME NEW s \in Sessions, NEW t \in Sessions, NEW c \in Clients, Epochs(s),
           \A d \in Clients \ {c} : t.peers[d] = s.peers[d],
           \/ t.nextEpoch = s.nextEpoch /\ t.peers[c].epoch \in {0, s.peers[c].epoch}
           \/ t.nextEpoch = s.nextEpoch + 1 /\ t.peers[c].epoch \in {0, s.nextEpoch}
    PROVE  Epochs(t)
<1>. DEFINE e(d) == s.peers[d].epoch  f(d) == t.peers[d].epoch  x == s.nextEpoch  y == t.nextEpoch
<1>1. x \in Nat \ {0} /\ \A d \in Clients : e(d) \in Nat /\ f(d) \in Nat
  BY DEF Sessions, PeerRecs, PerClient
<1>2. /\ \A d \in Clients : e(d) < x /\ \A g \in Clients \ {d} : e(d) = e(g) => e(d) = 0
      /\ \A d \in Clients \ {c} : f(d) = e(d)
      /\ (y = x /\ f(c) \in {0, e(c)}) \/ (y = x + 1 /\ f(c) \in {0, x})
  BY DEF Epochs
<1>3. SUFFICES \A d \in Clients : f(d) < y /\ \A g \in Clients \ {d} : f(d) = f(g) => f(d) = 0
  BY DEF Epochs
<1>. HIDE DEF e, f, x, y
<1>4. \A d \in Clients : f(d) < y
  BY <1>1, <1>2
<1>5. \A d, g \in Clients : d # g /\ f(d) = f(g) => f(d) = 0
  <2>. SUFFICES ASSUME NEW d \in Clients, NEW g \in Clients, d # g, f(d) = f(g) PROVE f(d) = 0
    OBVIOUS
  <2>1. CASE d # c /\ g # c
    BY <1>2, <2>1
  <2>2. CASE d = c
    <3>1. f(g) = e(g) /\ e(g) < x
      BY <1>2, <2>2
    <3>. QED
      BY <1>1, <1>2, <2>2, <3>1
  <2>3. CASE g = c
    <3>1. f(d) = e(d) /\ e(d) < x
      BY <1>2, <2>3
    <3>. QED
      BY <1>1, <1>2, <2>3, <3>1
  <2>. QED
    BY <2>1, <2>2, <2>3
<1>. QED
  BY <1>4, <1>5

\* The other connections do not notice.
LEMMA OnePeer ==
    ASSUME NEW s, NEW t, NEW ks, NEW n, NEW m, NEW c \in Clients, Good(s, ks, n), Local(s, t, c),
           s.status = "Listening", PeerGood(t, ks[c], m, c),
           \A d \in Clients \ {c} : SameNet(n, m, d)
    PROVE  Good(t, ks, m)
<1>1. /\ s \in Sessions /\ Epochs(s) /\ t \in Sessions
      /\ \A d \in Clients : PeerGood(s, ks[d], n, d)
      /\ t.status = s.status /\ t.registry = s.registry /\ t.sent = s.sent
      /\ \A d \in Clients \ {c} : AgreeAt(s, t, d)
  BY DEF Good, Local
<1>2. Epochs(t)
  <2>1. \A d \in Clients \ {c} : t.peers[d] = s.peers[d]
    BY <1>1 DEF AgreeAt
  <2>. QED
    BY <1>1, <2>1, LocalEpochs DEF Local
<1>3. \A d \in Clients \ {c} : PeerGood(t, ks[d], m, d)
  <2>. SUFFICES ASSUME NEW d \in Clients \ {c} PROVE PeerGood(t, ks[d], m, d)
    OBVIOUS
  <2>1. PeerGood(s, ks[d], n, d) /\ AgreeAt(s, t, d) /\ SameNet(n, m, d) /\ t.sent[d] = s.sent[d]
    BY <1>1
  <2>. QED
    BY <1>1, <2>1, SamePeer
<1>4. \A d \in Clients : PeerGood(t, ks[d], m, d)
  BY <1>3
<1>5. IdleUnlessListening(t)
  BY <1>1 DEF IdleUnlessListening
<1>. QED
  BY <1>1, <1>2, <1>4, <1>5 DEF Good

\* What the iterations of a loop leave together.
LEMMA TogetherAgrees ==
    ASSUME NEW s \in Sessions, NEW by, \A c \in Clients : Tame(s, by[c], c),
           NEW t, t = Together(s, by)
    PROVE  /\ t \in Sessions /\ t.status = s.status /\ t.registry = s.registry /\ t.sent = s.sent
           /\ t.nextEpoch = s.nextEpoch
           /\ \A c \in Clients : AgreeAt(by[c], t, c)
<1>1. \A c \in Clients :
        /\ by[c] \in Sessions /\ \A d \in Clients \ {c} : AgreeAt(s, by[c], d)
        /\ s.failures \subseteq by[c].failures /\ s.closed \subseteq by[c].closed
  BY DEF Tame, Local
<1>2. /\ t.status = s.status /\ t.registry = s.registry /\ t.sent = s.sent
      /\ t.nextEpoch = s.nextEpoch /\ t.objects = s.objects /\ t.bound = s.bound
      /\ t.sessionFailure = s.sessionFailure
      /\ t.peers = [c \in Clients |-> by[c].peers[c]]
      /\ t.services = [c \in Clients |-> by[c].services[c]]
      /\ t.players = {c \in Clients : c \in by[c].players}
      /\ t.queue = [c \in Clients |-> by[c].queue[c]]
      /\ t.view = [c \in Clients |-> by[c].view[c]]
      /\ t.materialized = [c \in Clients |-> by[c].materialized[c]]
      /\ t.published = [c \in Clients |-> by[c].published[c]]
      /\ t.failures = UNION {by[c].failures : c \in Clients}
      /\ t.closed = UNION {by[c].closed : c \in Clients}
      /\ t = [status |-> t.status, peers |-> t.peers, services |-> t.services, players |-> t.players,
              queue |-> t.queue, view |-> t.view, objects |-> t.objects, registry |-> t.registry,
              bound |-> t.bound, materialized |-> t.materialized, published |-> t.published,
              failures |-> t.failures, sessionFailure |-> t.sessionFailure,
              nextEpoch |-> t.nextEpoch, closed |-> t.closed, sent |-> t.sent]
  BY DEF Together, Sessions
<1>3. t \in Sessions
  <2>1. \A c \in Clients :
          /\ by[c].peers[c] \in PeerRecs /\ by[c].services[c] \in SUBSET Services
          /\ by[c].queue[c] \in Seq(Messages) /\ by[c].view[c] \in SUBSET Remotes
          /\ by[c].materialized[c] \in SUBSET Remotes /\ by[c].published[c] \in SUBSET Remotes
          /\ by[c].failures \subseteq Blames /\ by[c].closed \subseteq Blames
    BY <1>1 DEF Sessions, PerClient
  <2>2. /\ t.peers \in PerClient(PeerRecs) /\ t.services \in PerClient(SUBSET Services)
        /\ t.players \in SUBSET Clients /\ t.queue \in PerClient(Seq(Messages))
        /\ t.view \in PerClient(SUBSET Remotes) /\ t.materialized \in PerClient(SUBSET Remotes)
        /\ t.published \in PerClient(SUBSET Remotes)
    BY <1>2, <2>1 DEF PerClient
  <2>3. t.failures \in SUBSET Blames /\ t.closed \in SUBSET Blames
    BY <1>2, <2>1
  <2>4. /\ s.status \in {"Created", "Listening", "Failed", "Closed"}
        /\ s.objects \in SUBSET Remotes /\ s.registry \in SUBSET Remotes /\ s.bound \in SUBSET Remotes
        /\ s.sessionFailure \in BOOLEAN /\ s.nextEpoch \in Nat \ {0} /\ s.sent \in PerClient(Seq(Messages))
    BY DEF Sessions
  <2>. QED
    BY <1>2, <2>2, <2>3, <2>4 DEF Sessions
<1>4. ASSUME NEW c \in Clients PROVE AgreeAt(by[c], t, c)
  <2>1. /\ t.peers[c] = by[c].peers[c] /\ t.services[c] = by[c].services[c]
        /\ c \in t.players <=> c \in by[c].players
        /\ t.queue[c] = by[c].queue[c] /\ t.view[c] = by[c].view[c]
        /\ t.materialized[c] = by[c].materialized[c] /\ t.published[c] = by[c].published[c]
    BY <1>2
  <2>2. /\ \A d \in Clients : d # c /\ c \in FailingPeers(by[d]) => c \in FailingPeers(s)
        /\ \A d \in Clients : d # c /\ Closing(by[d], c) => Closing(s, c)
    BY <1>1 DEF AgreeAt
  <2>3. c \in FailingPeers(t) <=> c \in FailingPeers(by[c])
    <3>1. c \in FailingPeers(s) => c \in FailingPeers(by[c])
      BY <1>1 DEF FailingPeers
    <3>2. c \in FailingPeers(t) => \E d \in Clients : c \in FailingPeers(by[d])
      BY <1>2 DEF FailingPeers
    <3>3. c \in FailingPeers(by[c]) => c \in FailingPeers(t)
      BY <1>2 DEF FailingPeers
    <3>. QED
      BY <2>2, <3>1, <3>2, <3>3
  <2>4. Closing(t, c) <=> Closing(by[c], c)
    <3>1. Closing(s, c) => Closing(by[c], c)
      BY <1>1 DEF Closing
    <3>2. Closing(t, c) => \E d \in Clients : Closing(by[d], c)
      BY <1>2 DEF Closing
    <3>3. Closing(by[c], c) => Closing(t, c)
      BY <1>2 DEF Closing
    <3>. QED
      BY <2>2, <3>1, <3>2, <3>3
  <2>. QED
    BY <2>1, <2>3, <2>4 DEF AgreeAt
<1>. QED
  BY <1>2, <1>3, <1>4

LEMMA TogetherGood ==
    ASSUME NEW s, NEW ks, NEW n, Good(s, ks, n), NEW by,
           \A c \in Clients : Tame(s, by[c], c) /\ PeerGood(by[c], ks[c], n, c),
           NEW t, t = Together(s, by)
    PROVE  Good(t, ks, n) /\ t.sent = s.sent /\ t.status = s.status
<1>1. s \in Sessions /\ Epochs(s) /\ IdleUnlessListening(s)
  BY DEF Good
<1>2. /\ t \in Sessions /\ t.status = s.status /\ t.registry = s.registry /\ t.sent = s.sent
      /\ t.nextEpoch = s.nextEpoch
      /\ \A c \in Clients : AgreeAt(by[c], t, c)
  BY <1>1, TogetherAgrees
<1>3. \A c \in Clients : /\ t.peers[c] = by[c].peers[c]
                         /\ by[c].peers[c].epoch \in {0, s.peers[c].epoch}
                         /\ s.peers[c].phase = "Absent" => by[c] = s
  <2>. SUFFICES ASSUME NEW c \in Clients
                PROVE  /\ t.peers[c] = by[c].peers[c]
                       /\ by[c].peers[c].epoch \in {0, s.peers[c].epoch}
                       /\ s.peers[c].phase = "Absent" => by[c] = s
    OBVIOUS
  <2>1. s.nextEpoch \in Nat
    BY <1>1 DEF Sessions
  <2>2. Local(s, by[c], c) /\ by[c].nextEpoch = s.nextEpoch /\ (s.peers[c].phase = "Absent" => by[c] = s)
    BY DEF Tame
  <2>3. by[c].peers[c].epoch \in {0, s.peers[c].epoch}
    BY <2>1, <2>2 DEF Local
  <2>. QED
    BY <1>2, <2>2, <2>3 DEF AgreeAt
<1>4. Epochs(t)
  <2>. DEFINE e(d) == s.peers[d].epoch  f(d) == t.peers[d].epoch  x == s.nextEpoch
  <2>1. x \in Nat \ {0} /\ \A d \in Clients : e(d) \in Nat
    BY <1>1 DEF Sessions, PeerRecs, PerClient
  <2>2. /\ \A d \in Clients : e(d) < x /\ \A g \in Clients \ {d} : e(d) = e(g) => e(d) = 0
        /\ \A d \in Clients : f(d) \in {0, e(d)}
    BY <1>1, <1>3 DEF Epochs
  <2>3. SUFFICES \A d \in Clients : f(d) < x /\ \A g \in Clients \ {d} : f(d) = f(g) => f(d) = 0
    BY <1>2 DEF Epochs
  <2>. HIDE DEF e, f, x
  <2>. QED
    BY <2>1, <2>2
<1>5. IdleUnlessListening(t)
  <2>. SUFFICES ASSUME s.status # "Listening"
                PROVE  t.registry = {} /\ t.failures = {} /\ \A c \in Clients : t.peers[c].phase = "Absent"
    BY <1>2 DEF IdleUnlessListening
  <2>1. s.registry = {} /\ s.failures = {} /\ \A c \in Clients : s.peers[c].phase = "Absent" /\ by[c] = s
    BY <1>1, <1>3 DEF IdleUnlessListening
  <2>2. t.failures = {}
    <3>1. t.failures = UNION {by[c].failures : c \in Clients}
      BY <1>1 DEF Together, Sessions
    <3>. QED
      BY <2>1, <3>1
  <2>. QED
    BY <1>2, <1>3, <2>1, <2>2
<1>6. ASSUME NEW c \in Clients PROVE PeerGood(t, ks[c], n, c)
  <2>1. by[c].registry = s.registry /\ by[c].sent = s.sent
    BY DEF Tame, Local
  <2>2. PeerGood(by[c], ks[c], n, c) /\ AgreeAt(by[c], t, c) /\ SameNet(n, n, c)
    BY <1>2 DEF SameNet
  <2>. QED
    BY <1>2, <2>1, <2>2, SamePeer
<1>. QED
  BY <1>2, <1>4, <1>5, <1>6 DEF Good

-----------------------------------------------------------------------------
(* A peer is torn down, fails, or its handshake expires.                    *)

LEMMA TearDownFacts ==
    ASSUME NEW x \in Sessions, NEW c \in Peers(x), NEW v, v = TearDownPeer(x, c)
    PROVE  /\ v \in Sessions
           /\ v.peers[c] = NoPeer /\ v.services[c] = {} /\ c \notin v.players
           /\ v.queue[c] = <<>> /\ v.view[c] = {} /\ v.materialized[c] = {} /\ v.published[c] = {}
           /\ v.status = x.status /\ v.registry = x.registry /\ v.sent = x.sent
           /\ v.nextEpoch = x.nextEpoch /\ v.failures = x.failures /\ v.closed = x.closed
           /\ \A d \in Clients \ {c} : AgreeAt(x, v, d)
<1>1. c \in Clients
  BY DEF Peers
<1>2. v = [x EXCEPT !.peers[c] = NoPeer, !.services[c] = @ \ Services,
                    !.players = @ \ {c}, !.queue[c] = <<>>, !.view[c] = {},
                    !.materialized[c] = {}, !.published[c] = {}]
  BY DEF TearDownPeer
<1>3. /\ x.peers \in PerClient(PeerRecs) /\ x.services \in PerClient(SUBSET Services)
      /\ x.players \in SUBSET Clients /\ x.queue \in PerClient(Seq(Messages))
      /\ x.view \in PerClient(SUBSET Remotes) /\ x.materialized \in PerClient(SUBSET Remotes)
      /\ x.published \in PerClient(SUBSET Remotes)
  BY DEF Sessions
<1>4. /\ v.peers = [x.peers EXCEPT ![c] = NoPeer]
      /\ v.services = [x.services EXCEPT ![c] = @ \ Services]
      /\ v.players = x.players \ {c}
      /\ v.queue = [x.queue EXCEPT ![c] = <<>>] /\ v.view = [x.view EXCEPT ![c] = {}]
      /\ v.materialized = [x.materialized EXCEPT ![c] = {}]
      /\ v.published = [x.published EXCEPT ![c] = {}]
      /\ v.status = x.status /\ v.registry = x.registry /\ v.sent = x.sent
      /\ v.nextEpoch = x.nextEpoch /\ v.failures = x.failures /\ v.closed = x.closed
  BY <1>2 DEF Sessions
<1>5. NoPeer \in PeerRecs
  BY SessionAssumption DEF NoPeer, PeerRecs, Phases
<1>6. /\ v.peers \in PerClient(PeerRecs) /\ v.services \in PerClient(SUBSET Services)
      /\ v.players \in SUBSET Clients /\ v.queue \in PerClient(Seq(Messages))
      /\ v.view \in PerClient(SUBSET Remotes) /\ v.materialized \in PerClient(SUBSET Remotes)
      /\ v.published \in PerClient(SUBSET Remotes)
  <2>1. <<>> \in Seq(Messages)
    OBVIOUS
  <2>. QED
    BY <1>1, <1>3, <1>4, <1>5, <2>1 DEF PerClient
<1>7. v \in Sessions
  BY <1>2, <1>6 DEF Sessions
<1>8. /\ v.peers[c] = NoPeer /\ v.services[c] = {} /\ c \notin v.players
      /\ v.queue[c] = <<>> /\ v.view[c] = {} /\ v.materialized[c] = {} /\ v.published[c] = {}
  BY <1>1, <1>3, <1>4 DEF PerClient
<1>9. \A d \in Clients \ {c} : AgreeAt(x, v, d)
  BY <1>3, <1>4 DEF PerClient, AgreeAt, FailingPeers, Closing
<1>. QED
  BY <1>4, <1>7, <1>8, <1>9

\* A connection that has no peer holds nothing.
LEMMA AbsentOK ==
    ASSUME NEW v, NEW c, v.peers[c].phase = "Absent", v.services[c] = {}, c \notin v.players,
           v.queue[c] = <<>>, v.view[c] = {}, v.materialized[c] = {}, v.published[c] = {}
    PROVE  PeerOK(v, c)
<1>1. Sorted(v.queue[c])
  BY DEF Sorted
<1>2. ServicesOf("Absent") = {}
  BY DEF ServicesOf
<1>. QED
  BY <1>1, <1>2 DEF PeerOK

LEMMA AgreeTwice ==
    ASSUME NEW s, NEW t, NEW u, NEW c, AgreeAt(s, t, c), AgreeAt(t, u, c)
    PROVE  AgreeAt(s, u, c)
BY DEF AgreeAt

\* The transport is told to close a connection.
LEMMA ClosedFacts ==
    ASSUME NEW v \in Sessions, NEW c \in Clients, NEW cause \in Causes \ {"protocol"},
           NEW u, u = [v EXCEPT !.closed = @ \cup {<<c, cause>>}]
    PROVE  /\ u \in Sessions
           /\ u.peers = v.peers /\ u.services = v.services /\ u.players = v.players
           /\ u.queue = v.queue /\ u.view = v.view /\ u.materialized = v.materialized
           /\ u.published = v.published
           /\ u.status = v.status /\ u.registry = v.registry /\ u.sent = v.sent
           /\ u.nextEpoch = v.nextEpoch /\ u.failures = v.failures /\ v.closed \subseteq u.closed
           /\ \A d \in Clients \ {c} : AgreeAt(v, u, d)
<1>1. <<c, cause>> \in Blames
  BY DEF Blames
<1>2. u.closed = v.closed \cup {<<c, cause>>}
  BY DEF Sessions
<1>3. /\ u.peers = v.peers /\ u.services = v.services /\ u.players = v.players
      /\ u.queue = v.queue /\ u.view = v.view /\ u.materialized = v.materialized
      /\ u.published = v.published
      /\ u.status = v.status /\ u.registry = v.registry /\ u.sent = v.sent
      /\ u.nextEpoch = v.nextEpoch /\ u.failures = v.failures
  BY DEF Sessions
<1>4. u \in Sessions
  BY <1>1 DEF Sessions
<1>5. \A d \in Clients \ {c} : Closing(u, d) <=> Closing(v, d)
  BY <1>2 DEF Closing
<1>. QED
  BY <1>2, <1>3, <1>4, <1>5 DEF AgreeAt, FailingPeers

\* The peer of a connection is torn down, in the middle of a handler or not.
LEMMA Dropped ==
    ASSUME NEW s, NEW ks, NEW n \in Transports, Good(s, ks, n), NEW c \in Clients,
           NEW x, Local(s, x, c), c \in Peers(x) \/ x = s,
           NEW cause \in Causes \ {"protocol"},
           NEW u, u = TearDownPeer(x, c) \/ u = FailPeer(x, c, cause)
    PROVE  /\ Local(s, u, c) /\ PeerGood(u, ks[c], n, c)
           /\ u.peers[c].phase = "Absent" /\ u.nextEpoch = x.nextEpoch
           /\ u.failures = x.failures /\ x.closed \subseteq u.closed
<1>1. /\ x \in Sessions /\ x.status = s.status /\ x.registry = s.registry /\ x.sent = s.sent
      /\ \A d \in Clients \ {c} : AgreeAt(s, x, d)
      /\ \/ x.nextEpoch = s.nextEpoch /\ x.peers[c].epoch \in {0, s.peers[c].epoch}
         \/ x.nextEpoch = s.nextEpoch + 1 /\ x.peers[c].epoch \in {0, s.nextEpoch}
  BY DEF Local
<1>2. /\ s \in Sessions /\ PeerOK(s, c) /\ Pair(s, ks[c], n, c) /\ LinkOK(s, ks[c], n, c)
  BY DEF Good, PeerGood
<1>. DEFINE v == TearDownPeer(x, c)
<1>3. /\ v \in Sessions /\ v.status = s.status /\ v.registry = s.registry /\ v.sent = s.sent
      /\ v.nextEpoch = x.nextEpoch /\ v.failures = x.failures /\ v.closed = x.closed
      /\ \A d \in Clients \ {c} : AgreeAt(s, v, d)
      /\ v.peers[c].phase = "Absent" /\ v.peers[c].epoch \in {0, x.peers[c].epoch}
      /\ PeerOK(v, c) /\ Pair(v, ks[c], n, c)
  <2>1. CASE c \in Peers(x)
    <3>1. /\ v \in Sessions
          /\ v.peers[c] = NoPeer /\ v.services[c] = {} /\ c \notin v.players
          /\ v.queue[c] = <<>> /\ v.view[c] = {} /\ v.materialized[c] = {} /\ v.published[c] = {}
          /\ v.status = x.status /\ v.registry = x.registry /\ v.sent = x.sent
          /\ v.nextEpoch = x.nextEpoch /\ v.failures = x.failures /\ v.closed = x.closed
          /\ \A d \in Clients \ {c} : AgreeAt(x, v, d)
      BY <1>1, <2>1, TearDownFacts
    <3>. HIDE DEF v
    <3>2. v.peers[c].phase = "Absent" /\ v.peers[c].epoch = 0
      BY <3>1 DEF NoPeer
    <3>3. PeerOK(v, c)
      BY <3>1, <3>2, AbsentOK
    <3>4. Pair(v, ks[c], n, c)
      <4>1. /\ n.toClient[c] \in Seq(Messages) /\ s.sent[c] \in Seq(Messages)
            /\ s.queue[c] \in Seq(Messages)
        BY <1>2 DEF Sessions, Transports, PerClient
      <4>2. n.toClient[c] \o s.sent[c] \in Seq(Messages)
        BY <4>1
      <4>. DEFINE a == n.toClient[c] \o s.sent[c]  i == Inbound(v, n, c)  j == Inbound(s, n, c)
                  b == s.queue[c]
      <4>3. i \in Seq(Messages) /\ Begins(i, j)
        <5>1. CASE n.link[c] = "up"
          <6>1. i = a \o <<>> /\ j = a \o s.queue[c]
            BY <1>1, <3>1, <5>1 DEF Inbound
          <6>2. a \in Seq(Messages) /\ b \in Seq(Messages)
            BY <4>1, <4>2
          <6>3. j = a \o b
            BY <6>1
          <6>. HIDE DEF a, b, i, j
          <6>4. i = a
            BY <6>1, <6>2
          <6>5. Begins(a, a \o b)
            BY <6>2, FrontBegins
          <6>. QED
            BY <6>2, <6>3, <6>4, <6>5
        <5>2. CASE n.link[c] # "up"
          <6>1. i = n.toClient[c] /\ j = n.toClient[c]
            BY <5>2 DEF Inbound
          <6>. HIDE DEF i, j
          <6>. QED
            BY <4>1, <6>1 DEF Begins
        <5>. QED
          BY <5>1, <5>2
      <4>. HIDE DEF a, b, i, j
      <4>4. HandshakeOK(s.peers[c].phase, s.peers[c].epoch, Stage(ks[c]), ks[c].epoch,
                        n.link[c] = "up", j, Outbound(ks[c], n, c))
        BY <1>2 DEF Pair, j
      <4>5. HandshakeOK("Absent", 0, Stage(ks[c]), ks[c].epoch,
                        n.link[c] = "up", i, Outbound(ks[c], n, c))
        BY <4>3, <4>4, TornDown
      <4>. QED
        BY <3>2, <4>5 DEF Pair, i
    <3>5. \A d \in Clients \ {c} : AgreeAt(s, v, d)
      BY <1>1, <3>1, AgreeTwice
    <3>. QED
      BY <1>1, <3>1, <3>2, <3>3, <3>4, <3>5
  <2>2. CASE c \notin Peers(x)
    <3>1. x = s /\ v = s
      BY <2>2 DEF TearDownPeer
    <3>2. s.peers[c].phase = "Absent"
      BY <2>2, <3>1 DEF Peers, Phase
    <3>3. \A d \in Clients \ {c} : AgreeAt(s, s, d)
      BY DEF AgreeAt
    <3>. HIDE DEF v
    <3>. QED
      BY <1>1, <1>2, <3>1, <3>2, <3>3
  <2>. QED
    BY <2>1, <2>2
<1>. HIDE DEF v
<1>4. v.peers[c].epoch \in {0, x.peers[c].epoch}
  BY <1>3
<1>5. Local(s, v, c)
  BY <1>1, <1>3, <1>4 DEF Local
<1>6. LinkOK(v, ks[c], n, c)
  BY <1>2, <1>3 DEF LinkOK
<1>7. PeerGood(v, ks[c], n, c)
  BY <1>3, <1>6 DEF PeerGood
<1>8. CASE u = v
  BY <1>3, <1>5, <1>7, <1>8
<1>9. CASE u = FailPeer(x, c, cause)
  <2>1. u = [v EXCEPT !.closed = @ \cup {<<c, cause>>}]
    BY <1>9 DEF FailPeer, v
  <2>2. /\ u \in Sessions
        /\ u.peers = v.peers /\ u.services = v.services /\ u.players = v.players
        /\ u.queue = v.queue /\ u.view = v.view /\ u.materialized = v.materialized
        /\ u.published = v.published
        /\ u.status = v.status /\ u.registry = v.registry /\ u.sent = v.sent
        /\ u.nextEpoch = v.nextEpoch /\ u.failures = v.failures /\ v.closed \subseteq u.closed
        /\ \A d \in Clients \ {c} : AgreeAt(v, u, d)
    BY <1>3, <2>1, ClosedFacts
  <2>3. \A d \in Clients \ {c} : AgreeAt(s, u, d)
    BY <1>3, <2>2, AgreeTwice
  <2>4. Local(s, u, c)
    BY <1>5, <2>2, <2>3 DEF Local
  <2>5. PeerOK(u, c)
    BY <1>3, <2>2 DEF PeerOK, FailingPeers
  <2>6. Inbound(u, n, c) = Inbound(v, n, c)
    BY <2>2 DEF Inbound
  <2>7. Pair(u, ks[c], n, c) /\ LinkOK(u, ks[c], n, c)
    BY <1>3, <1>6, <2>2, <2>6 DEF Pair, LinkOK
  <2>. QED
    BY <1>3, <2>2, <2>4, <2>5, <2>7 DEF PeerGood
<1>. QED
  BY <1>8, <1>9 DEF v

LEMMA LocalStays ==
    ASSUME NEW s \in Sessions, NEW c
    PROVE  Local(s, s, c) /\ Tame(s, s, c)
<1>1. \A d \in Clients \ {c} : AgreeAt(s, s, d)
  BY DEF AgreeAt
<1>. QED
  BY <1>1 DEF Local, Tame

\* A handshake grows older or fails.
LEMMA Expires ==
    ASSUME NEW s, NEW ks, NEW n \in Transports, Good(s, ks, n), NEW c \in Clients,
           s.peers[c].phase # "Absent", NEW u, u = ExpireHandshake(s, c)
    PROVE  Tame(s, u, c) /\ PeerGood(u, ks[c], n, c)
<1>. DEFINE x == [s EXCEPT !.peers[c].age = Tick(@)]
<1>1. /\ s \in Sessions /\ PeerGood(s, ks[c], n, c) /\ s.peers \in PerClient(PeerRecs)
      /\ s.peers[c] \in PeerRecs
  BY DEF Good, Sessions, PerClient
<1>2. Tick(s.peers[c].age) \in 0 .. HandshakeTimeoutTicks
  BY <1>1, SessionAssumption DEF Tick, PeerRecs
<1>3. /\ x \in Sessions /\ x.peers = [s.peers EXCEPT ![c].age = Tick(@)]
      /\ x.services = s.services /\ x.players = s.players /\ x.queue = s.queue /\ x.view = s.view
      /\ x.materialized = s.materialized /\ x.published = s.published
      /\ x.status = s.status /\ x.registry = s.registry /\ x.sent = s.sent
      /\ x.nextEpoch = s.nextEpoch /\ x.failures = s.failures /\ x.closed = s.closed
  <2>1. [s.peers EXCEPT ![c].age = Tick(@)] \in PerClient(PeerRecs)
    BY <1>1, <1>2 DEF PerClient, PeerRecs
  <2>. QED
    BY <1>1, <2>1 DEF Sessions
<1>. HIDE DEF x
<1>4. /\ x.peers[c].phase = s.peers[c].phase /\ x.peers[c].epoch = s.peers[c].epoch
      /\ x.peers[c].remoteMaterializedObjects = s.peers[c].remoteMaterializedObjects
      /\ \A d \in Clients \ {c} : x.peers[d] = s.peers[d]
  BY <1>1, <1>3 DEF PerClient, PeerRecs
<1>5. \A d \in Clients \ {c} : AgreeAt(s, x, d)
  BY <1>3, <1>4 DEF AgreeAt, FailingPeers, Closing
<1>6. Local(s, x, c)
  BY <1>3, <1>4, <1>5 DEF Local
<1>7. PeerGood(x, ks[c], n, c)
  <2>1. PeerOK(x, c)
    BY <1>1, <1>3, <1>4 DEF PeerGood, PeerOK, FailingPeers
  <2>2. Inbound(x, n, c) = Inbound(s, n, c)
    BY <1>3 DEF Inbound
  <2>3. Pair(x, ks[c], n, c) /\ LinkOK(x, ks[c], n, c)
    BY <1>1, <1>4, <2>2 DEF PeerGood, Pair, LinkOK
  <2>. QED
    BY <1>1, <1>3, <1>4, <2>1, <2>3 DEF PeerGood, Closing
<1>8. CASE u = x
  BY <1>3, <1>6, <1>7, <1>8 DEF Tame
<1>9. CASE u = FailPeer(x, c, "timeout")
  <2>1. c \in Peers(x) /\ "timeout" \in Causes \ {"protocol"}
    BY <1>4 DEF Peers, Phase, Causes
  <2>2. /\ Local(s, u, c) /\ PeerGood(u, ks[c], n, c) /\ u.nextEpoch = x.nextEpoch
        /\ u.failures = x.failures /\ x.closed \subseteq u.closed
    BY <1>6, <1>9, <2>1, Dropped
  <2>. QED
    BY <1>3, <2>2 DEF Tame
<1>. QED
  BY <1>8, <1>9 DEF ExpireHandshake, x

LEMMA ExpiresAll ==
    ASSUME NEW s, NEW ks, NEW n \in Transports, Good(s, ks, n), NEW t, t = ExpireHandshakes(s)
    PROVE  Good(t, ks, n) /\ t.sent = s.sent /\ t.status = s.status
<1>. DEFINE by == [c \in Clients |-> IF Phase(s, c) \notin {"Absent", "Ready"} THEN ExpireHandshake(s, c) ELSE s]
<1>1. \A c \in Clients : Tame(s, by[c], c) /\ PeerGood(by[c], ks[c], n, c)
  <2>. SUFFICES ASSUME NEW c \in Clients PROVE Tame(s, by[c], c) /\ PeerGood(by[c], ks[c], n, c)
    OBVIOUS
  <2>1. CASE s.peers[c].phase \notin {"Absent", "Ready"}
    <3>1. by[c] = ExpireHandshake(s, c)
      BY <2>1 DEF Phase
    <3>. HIDE DEF by
    <3>. QED
      BY <2>1, <3>1, Expires
  <2>2. CASE s.peers[c].phase \in {"Absent", "Ready"}
    <3>1. by[c] = s
      BY <2>2 DEF Phase
    <3>. HIDE DEF by
    <3>. QED
      BY <3>1, LocalStays DEF Good
  <2>. QED
    BY <2>1, <2>2
<1>2. t = Together(s, by)
  BY DEF ExpireHandshakes
<1>. HIDE DEF by
<1>. QED
  BY <1>1, <1>2, TogetherGood

-----------------------------------------------------------------------------
(* Failures, and the end of a session.                                      *)

LEMMA AddFailureFacts ==
    ASSUME NEW x \in Sessions, NEW c \in Clients, NEW cause \in Causes \ {"protocol"},
           NEW t, t = AddFailure(x, c, cause)
    PROVE  /\ t \in Sessions /\ c \in FailingPeers(t) /\ x.failures \subseteq t.failures
           /\ t.peers = x.peers /\ t.services = x.services /\ t.players = x.players
           /\ t.queue = x.queue /\ t.view = x.view /\ t.materialized = x.materialized
           /\ t.published = x.published
           /\ t.status = x.status /\ t.registry = x.registry /\ t.sent = x.sent
           /\ t.nextEpoch = x.nextEpoch /\ t.closed = x.closed
           /\ \A d \in Clients \ {c} : AgreeAt(x, t, d)
<1>1. CASE c \in FailingPeers(x)
  <2>1. t = x
    BY <1>1 DEF AddFailure
  <2>. QED
    BY <1>1, <2>1 DEF AgreeAt
<1>2. CASE c \notin FailingPeers(x)
  <2>1. t = [x EXCEPT !.failures = @ \cup {<<c, cause>>}]
    BY <1>2 DEF AddFailure
  <2>2. <<c, cause>> \in Blames
    BY DEF Blames
  <2>3. /\ t.failures = x.failures \cup {<<c, cause>>}
        /\ t.peers = x.peers /\ t.services = x.services /\ t.players = x.players
        /\ t.queue = x.queue /\ t.view = x.view /\ t.materialized = x.materialized
        /\ t.published = x.published
        /\ t.status = x.status /\ t.registry = x.registry /\ t.sent = x.sent
        /\ t.nextEpoch = x.nextEpoch /\ t.closed = x.closed
    BY <2>1 DEF Sessions
  <2>4. t \in Sessions
    BY <2>1, <2>2 DEF Sessions
  <2>5. \A d \in Clients : d \in FailingPeers(t) <=> d \in FailingPeers(x) \/ d = c
    <3>1. <<c, cause>>[1] = c
      OBVIOUS
    <3>. QED
      BY <2>3, <3>1 DEF FailingPeers
  <2>. QED
    BY <2>3, <2>4, <2>5 DEF AgreeAt, Closing
<1>. QED
  BY <1>1, <1>2

LEMMA Failing ==
    ASSUME NEW s, NEW ks, NEW n, Good(s, ks, n), NEW c \in Clients, s.peers[c].phase # "Absent",
           NEW cause \in Causes \ {"protocol"}, NEW t, t = AddFailure(s, c, cause)
    PROVE  Tame(s, t, c) /\ PeerGood(t, ks[c], n, c)
<1>1. s \in Sessions /\ PeerGood(s, ks[c], n, c)
  BY DEF Good
<1>2. /\ t \in Sessions /\ c \in FailingPeers(t) /\ s.failures \subseteq t.failures
      /\ t.peers = s.peers /\ t.services = s.services /\ t.players = s.players
      /\ t.queue = s.queue /\ t.view = s.view /\ t.materialized = s.materialized
      /\ t.published = s.published
      /\ t.status = s.status /\ t.registry = s.registry /\ t.sent = s.sent
      /\ t.nextEpoch = s.nextEpoch /\ t.closed = s.closed
      /\ \A d \in Clients \ {c} : AgreeAt(s, t, d)
  BY <1>1, AddFailureFacts
<1>3. Tame(s, t, c)
  BY <1>2 DEF Tame, Local
<1>4. PeerOK(t, c)
  BY <1>1, <1>2 DEF PeerGood, PeerOK
<1>5. Inbound(t, n, c) = Inbound(s, n, c)
  BY <1>2 DEF Inbound
<1>6. Pair(t, ks[c], n, c) /\ LinkOK(t, ks[c], n, c)
  BY <1>1, <1>2, <1>5 DEF PeerGood, Pair, LinkOK
<1>. QED
  BY <1>1, <1>2, <1>3, <1>4, <1>6 DEF PeerGood, Closing

LEMMA AbsentHolds ==
    ASSUME NEW v, NEW c, PeerOK(v, c), v.peers[c].phase = "Absent"
    PROVE  /\ v.services[c] = {} /\ c \notin v.players /\ v.queue[c] = <<>> /\ v.view[c] = {}
           /\ v.materialized[c] = {} /\ v.published[c] = {}
BY DEF PeerOK, ServicesOf

\* Every peer of a session is torn down.
LEMMA Releases ==
    ASSUME NEW s, NEW ks, NEW n \in Transports, Good(s, ks, n),
           NEW status \in {"Failed", "Closed"}, NEW cause \in Causes \ {"protocol"},
           NEW t, t = ReleaseSession(s, status, cause)
    PROVE  Good(t, ks, n) /\ t.sent = s.sent /\ t.failures = {} /\ t.status = status
<1>. DEFINE by == [c \in Clients |-> TearDownPeer(s, c)]
            u == Together(s, by)
<1>1. \A c \in Clients :
        /\ Tame(s, by[c], c) /\ PeerGood(by[c], ks[c], n, c) /\ by[c].peers[c].phase = "Absent"
  <2>. SUFFICES ASSUME NEW c \in Clients
                PROVE  /\ Tame(s, by[c], c) /\ PeerGood(by[c], ks[c], n, c)
                       /\ by[c].peers[c].phase = "Absent"
    OBVIOUS
  <2>. DEFINE v == TearDownPeer(s, c)
  <2>1. s \in Sessions /\ Local(s, s, c)
    BY LocalStays DEF Good
  <2>2. s.peers[c].phase = "Absent" => v = s
    BY DEF TearDownPeer, Peers, Phase
  <2>3. by[c] = v
    OBVIOUS
  <2>4. v = TearDownPeer(s, c)
    OBVIOUS
  <2>. HIDE DEF v, by
  <2>5. /\ Local(s, v, c) /\ PeerGood(v, ks[c], n, c)
        /\ v.peers[c].phase = "Absent" /\ v.nextEpoch = s.nextEpoch
        /\ v.failures = s.failures /\ s.closed \subseteq v.closed
    BY <2>1, <2>4, Dropped
  <2>. QED
    BY <2>2, <2>3, <2>5 DEF Tame
<1>2. u = Together(s, by)
  OBVIOUS
<1>3. t = [u EXCEPT !.status = status, !.objects = {}, !.registry = {}, !.bound = {},
                    !.failures = {}, !.sessionFailure = FALSE,
                    !.closed = @ \cup {<<c, cause>> : c \in Clients}]
  BY DEF ReleaseSession
<1>. HIDE DEF u, by
<1>4. Good(u, ks, n) /\ u.sent = s.sent
  BY <1>1, <1>2, TogetherGood
<1>5. \A c \in Clients : u.peers[c].phase = "Absent"
  <2>1. \A c \in Clients : AgreeAt(by[c], u, c)
    BY <1>1, <1>2, TogetherAgrees DEF Good
  <2>. QED
    BY <1>1, <2>1 DEF AgreeAt
<1>6. u \in Sessions /\ Epochs(u) /\ \A c \in Clients : PeerGood(u, ks[c], n, c)
  BY <1>4 DEF Good
<1>7. /\ t.status = status /\ t.registry = {} /\ t.failures = {}
      /\ t.peers = u.peers /\ t.services = u.services /\ t.players = u.players
      /\ t.queue = u.queue /\ t.view = u.view /\ t.materialized = u.materialized
      /\ t.published = u.published /\ t.sent = u.sent /\ t.nextEpoch = u.nextEpoch
  BY <1>3, <1>6 DEF Sessions
<1>8. t \in Sessions
  <2>1. {<<c, cause>> : c \in Clients} \subseteq Blames
    BY DEF Blames
  <2>2. u.closed \cup {<<c, cause>> : c \in Clients} \in SUBSET Blames
    BY <1>6, <2>1 DEF Sessions
  <2>. DEFINE cl == u.closed \cup {<<c, cause>> : c \in Clients}
              v == [u EXCEPT !.status = status, !.objects = {}, !.registry = {}, !.bound = {}]
              w == [v EXCEPT !.failures = {}, !.closed = cl]
  <2>3. cl \in SUBSET Blames
    BY <2>2
  <2>4. t = [w EXCEPT !.sessionFailure = FALSE]
    BY <1>3, <1>6 DEF Sessions
  <2>. HIDE DEF cl
  <2>5. v \in Sessions
    BY <1>6 DEF Sessions
  <2>. HIDE DEF v
  <2>6. w \in Sessions
    BY <2>3, <2>5 DEF Sessions
  <2>. HIDE DEF w
  <2>. QED
    BY <2>4, <2>6 DEF Sessions
<1>9. ASSUME NEW c \in Clients PROVE PeerGood(t, ks[c], n, c)
  <2>1. PeerOK(u, c) /\ Pair(u, ks[c], n, c) /\ LinkOK(u, ks[c], n, c) /\ u.peers[c].phase = "Absent"
    BY <1>5, <1>6 DEF PeerGood
  <2>2. PeerOK(t, c)
    BY <1>7, <2>1, AbsentHolds, AbsentOK
  <2>3. Inbound(t, n, c) = Inbound(u, n, c)
    BY <1>7 DEF Inbound
  <2>4. Pair(t, ks[c], n, c) /\ LinkOK(t, ks[c], n, c)
    BY <1>7, <2>1, <2>3 DEF Pair, LinkOK
  <2>. QED
    BY <1>7, <2>1, <2>2, <2>4 DEF PeerGood
<1>10. Epochs(t)
  BY <1>6, <1>7 DEF Epochs
<1>11. IdleUnlessListening(t)
  BY <1>5, <1>7 DEF IdleUnlessListening
<1>. QED
  BY <1>4, <1>7, <1>8, <1>9, <1>10, <1>11 DEF Good

LEMMA FailsSession ==
    ASSUME NEW s, NEW ks, NEW n \in Transports, Good(s, ks, n),
           NEW cause \in Causes \ {"protocol"}, NEW t, t = FailSession(s, cause)
    PROVE  Good(t, ks, n) /\ t.sent = s.sent /\ t.failures = {}
<1>1. CASE s.status \in {"Failed", "Closed"}
  <2>1. t = s
    BY <1>1 DEF FailSession
  <2>2. s.failures = {}
    BY <1>1 DEF Good, IdleUnlessListening
  <2>. QED
    BY <2>1, <2>2
<1>2. CASE s.status \notin {"Failed", "Closed"}
  <2>1. t = ReleaseSession(s, "Failed", cause)
    BY <1>2 DEF FailSession
  <2>. QED
    BY <2>1, Releases
<1>. QED
  BY <1>1, <1>2

\* The failures of a handler are drained before it returns.
LEMMA Drains ==
    ASSUME NEW s, NEW ks, NEW n \in Transports, Good(s, ks, n), NEW t, t = DrainFailures(s)
    PROVE  Good(t, ks, n) /\ t.sent = s.sent /\ t.failures = {}
<1>. DEFINE cause(c) == (CHOOSE f \in s.failures : f[1] = c)[2]
            by == [c \in Clients |-> IF c \in FailingPeers(s) \cap Peers(s)
                                     THEN FailPeer(s, c, cause(c)) ELSE s]
            u == Together(s, by)
<1>1. CASE s.sessionFailure
  <2>1. t = FailSession(s, "registry") /\ "registry" \in Causes \ {"protocol"}
    BY <1>1 DEF DrainFailures, Causes
  <2>. QED
    BY <2>1, FailsSession
<1>2. CASE ~s.sessionFailure /\ s.failures = {}
  BY <1>2 DEF DrainFailures
<1>3. CASE ~s.sessionFailure /\ s.failures # {}
  <2>1. t = [u EXCEPT !.failures = {}]
    BY <1>3 DEF DrainFailures
  <2>2. s \in Sessions /\ \A c \in Clients : PeerGood(s, ks[c], n, c)
    BY DEF Good
  <2>3. \A c \in Clients :
          /\ Tame(s, by[c], c) /\ PeerGood(by[c], ks[c], n, c)
          /\ by[c].failures = s.failures
          /\ c \in FailingPeers(s) => by[c].peers[c].phase = "Absent"
    <3>. SUFFICES ASSUME NEW c \in Clients
                  PROVE  /\ Tame(s, by[c], c) /\ PeerGood(by[c], ks[c], n, c)
                         /\ by[c].failures = s.failures
                         /\ c \in FailingPeers(s) => by[c].peers[c].phase = "Absent"
      OBVIOUS
    <3>1. Local(s, s, c) /\ Tame(s, s, c)
      BY <2>2, LocalStays
    <3>2. CASE c \in FailingPeers(s) \cap Peers(s)
      <4>1. \E f \in s.failures : f[1] = c
        BY <3>2 DEF FailingPeers
      <4>2. cause(c) \in Causes \ {"protocol"}
        BY <2>2, <4>1 DEF Sessions, Blames
      <4>3. by[c] = FailPeer(s, c, cause(c)) /\ s.peers[c].phase # "Absent"
        BY <3>2 DEF Peers, Phase
      <4>. HIDE DEF by, cause
      <4>4. /\ Local(s, by[c], c) /\ PeerGood(by[c], ks[c], n, c)
            /\ by[c].peers[c].phase = "Absent" /\ by[c].nextEpoch = s.nextEpoch
            /\ by[c].failures = s.failures /\ s.closed \subseteq by[c].closed
        BY <3>1, <4>2, <4>3, Dropped
      <4>. QED
        BY <4>3, <4>4 DEF Tame
    <3>3. CASE c \notin FailingPeers(s) \cap Peers(s)
      <4>1. by[c] = s /\ (c \in FailingPeers(s) => s.peers[c].phase = "Absent")
        BY <3>3 DEF Peers, Phase
      <4>. HIDE DEF by
      <4>. QED
        BY <2>2, <3>1, <4>1
    <3>. QED
      BY <3>2, <3>3
  <2>4. u = Together(s, by)
    OBVIOUS
  <2>. HIDE DEF u, by, cause
  <2>5. Good(u, ks, n) /\ u.sent = s.sent /\ u.status = s.status
    BY <2>3, <2>4, TogetherGood
  <2>6. \A c \in Clients : AgreeAt(by[c], u, c)
    BY <2>2, <2>3, <2>4, TogetherAgrees
  <2>7. u \in Sessions /\ Epochs(u) /\ IdleUnlessListening(u) /\ \A c \in Clients : PeerGood(u, ks[c], n, c)
    BY <2>5 DEF Good
  <2>8. /\ t \in Sessions /\ t.failures = {} /\ t.status = u.status /\ t.registry = u.registry
        /\ t.peers = u.peers /\ t.services = u.services /\ t.players = u.players
        /\ t.queue = u.queue /\ t.view = u.view /\ t.materialized = u.materialized
        /\ t.published = u.published /\ t.sent = u.sent /\ t.nextEpoch = u.nextEpoch
        /\ t.closed = u.closed
    BY <2>1, <2>7 DEF Sessions
  <2>9. ASSUME NEW c \in Clients PROVE PeerGood(t, ks[c], n, c)
    <3>1. PeerOK(u, c) /\ Pair(u, ks[c], n, c) /\ LinkOK(u, ks[c], n, c)
          /\ (Closing(u, c) => u.peers[c].phase = "Absent")
      BY <2>7 DEF PeerGood
    <3>2. c \in FailingPeers(u) => u.peers[c].phase = "Absent"
      BY <2>3, <2>6 DEF AgreeAt, FailingPeers
    <3>3. PeerOK(t, c)
      BY <2>8, <3>1, <3>2 DEF PeerOK
    <3>4. Inbound(t, n, c) = Inbound(u, n, c)
      BY <2>8 DEF Inbound
    <3>5. Pair(t, ks[c], n, c) /\ LinkOK(t, ks[c], n, c)
      BY <2>8, <3>1, <3>4 DEF Pair, LinkOK
    <3>. QED
      BY <2>8, <3>1, <3>3, <3>5 DEF PeerGood, Closing
  <2>10. Epochs(t) /\ IdleUnlessListening(t)
    BY <2>7, <2>8 DEF Epochs, IdleUnlessListening
  <2>. QED
    BY <2>5, <2>8, <2>9, <2>10 DEF Good
<1>. QED
  BY <1>1, <1>2, <1>3

-----------------------------------------------------------------------------
(* A flush hands over the front of the queues.                              *)

LEMMA LeastOfTwo ==
    ASSUME NEW i \in Int, NEW j \in Int
    PROVE  Min({i, j}) = IF i <= j THEN i ELSE j
<1>1. \A x \in {i, j} : (\A y \in {i, j} : x <= y) => x = IF i <= j THEN i ELSE j
  OBVIOUS
<1>2. \E x \in {i, j} : \A y \in {i, j} : x <= y
  <2>1. CASE i <= j
    BY <2>1
  <2>2. CASE ~(i <= j)
    BY <2>2
  <2>. QED
    BY <2>1, <2>2
<1>3. LET m == CHOOSE x \in {i, j} : \A y \in {i, j} : x <= y IN m \in {i, j} /\ \A y \in {i, j} : m <= y
  BY <1>2
<1>. QED
  BY <1>1, <1>3 DEF Min

\* What was behind what is handed over stays behind it.
Regroups(a, b, d, r) == (a \o (b \o d)) \o r = (a \o b) \o (d \o r)

LEMMA Regrouped ==
    ASSUME NEW a \in Seq(Messages), NEW b \in Seq(Messages), NEW d \in Seq(Messages),
           NEW r \in Seq(Messages), a \o b \in Seq(Messages)
    PROVE  Regroups(a, b, d, r)
<1>1. a \o (b \o d) = (a \o b) \o d
  OBVIOUS
<1>2. ((a \o b) \o d) \o r = (a \o b) \o (d \o r)
  <2>. DEFINE x == a \o b
  <2>. HIDE DEF x
  <2>1. x \in Seq(Messages)
    BY DEF x
  <2>2. (x \o d) \o r = x \o (d \o r)
    BY <2>1
  <2>. QED
    BY <2>2 DEF x
<1>. QED
  BY <1>1, <1>2 DEF Regroups

LEMMA Flushes ==
    ASSUME NEW s, NEW ks, NEW n \in Transports, Good(s, ks, n), NEW b \in [Clients -> Nat],
           \A c \in Clients : Len(s.sent[c]) <= b[c], NEW peers, NEW t, t = FlushPeers(s, peers, b)
    PROVE  /\ Good(t, ks, n) /\ t.failures = s.failures
           /\ \A c \in Clients : Len(t.sent[c]) <= b[c]
<1>. DEFINE Take(c) == IF c \in peers /\ "scheduler" \in s.services[c]
                       THEN Min({b[c] - Len(s.sent[c]), Len(s.queue[c])})
                       ELSE 0
<1>1. t = [s EXCEPT
             !.sent = [c \in Clients |-> @[c] \o SubSeq(s.queue[c], 1, Take(c))],
             !.queue = [c \in Clients |-> AfterFlush(@[c], Take(c))]]
  BY DEF FlushPeers
<1>2. /\ s \in Sessions /\ Epochs(s) /\ IdleUnlessListening(s)
      /\ \A c \in Clients : PeerGood(s, ks[c], n, c)
  BY DEF Good
<1>3. \A c \in Clients : s.sent[c] \in Seq(Messages) /\ s.queue[c] \in Seq(Messages)
                         /\ n.toClient[c] \in Seq(Messages)
  BY <1>2 DEF Sessions, PerClient, Transports
<1>4. ASSUME NEW c \in Clients
      PROVE  Take(c) \in 0 .. Len(s.queue[c]) /\ Take(c) <= b[c] - Len(s.sent[c])
  <2>. DEFINE i == b[c] - Len(s.sent[c])  j == Len(s.queue[c])
  <2>1. i \in Nat /\ j \in Nat
    <3>1. b[c] \in Nat /\ Len(s.sent[c]) \in Nat /\ Len(s.queue[c]) \in Nat /\ Len(s.sent[c]) <= b[c]
      BY <1>3
    <3>. QED
      BY <3>1
  <2>2. Min({i, j}) = IF i <= j THEN i ELSE j
    <3>. HIDE DEF i, j
    <3>. QED
      BY <2>1, LeastOfTwo
  <2>3. Take(c) \in {0, Min({i, j})}
    OBVIOUS
  <2>. HIDE DEF i, j, Take
  <2>4. Take(c) \in 0 .. j /\ Take(c) <= i
    BY <2>1, <2>2, <2>3
  <2>. QED
    BY <2>4 DEF i, j
<1>. HIDE DEF Take
<1>5. /\ t.sent = [c \in Clients |-> s.sent[c] \o SubSeq(s.queue[c], 1, Take(c))]
      /\ t.queue = [c \in Clients |-> AfterFlush(s.queue[c], Take(c))]
      /\ t.peers = s.peers /\ t.services = s.services /\ t.players = s.players
      /\ t.view = s.view /\ t.materialized = s.materialized /\ t.published = s.published
      /\ t.status = s.status /\ t.registry = s.registry /\ t.nextEpoch = s.nextEpoch
      /\ t.failures = s.failures /\ t.closed = s.closed
  BY <1>1, <1>2 DEF Sessions
<1>6. ASSUME NEW c \in Clients
      PROVE  /\ t.sent[c] \in Seq(Messages) /\ t.queue[c] \in Seq(Messages)
             /\ Len(t.sent[c]) <= b[c] /\ PeerGood(t, ks[c], n, c)
  <2>. DEFINE q == s.queue[c]  w == s.sent[c]  x == n.toClient[c]  d == SubSeq(q, 1, Take(c))
              r == AfterFlush(q, Take(c))
  <2>1. /\ t.sent[c] = w \o d /\ t.queue[c] = r
        /\ q \in Seq(Messages) /\ w \in Seq(Messages) /\ x \in Seq(Messages)
    BY <1>3, <1>5
  <2>2. x \o w \in Seq(Messages) /\ Take(c) \in 0 .. Len(q) /\ Take(c) <= b[c] - Len(w)
    BY <1>4, <2>1
  <2>3. /\ d \in Seq(Messages) /\ Len(d) = Take(c) /\ r \in Seq(Messages)
        /\ (x \o (w \o d)) \o r = (x \o w) \o q
        /\ r # <<>> => q # <<>>
        /\ Sorted(q) => Sorted(r)
    <3>1. Flushed(q, Take(c), d, r)
      <4>1. q \in Seq(Messages) /\ Take(c) \in 0 .. Len(q)
        BY <2>1, <2>2
      <4>. HIDE DEF q
      <4>. QED
        BY <4>1, FlushedQueue
    <3>2. x \in Seq(Messages) /\ w \in Seq(Messages) /\ x \o w \in Seq(Messages)
      BY <2>1, <2>2
    <3>. HIDE DEF q, x, w, d, r
    <3>3. d \in Seq(Messages) /\ r \in Seq(Messages)
      BY <3>1 DEF Flushed
    <3>4. q = d \o r
      BY <3>1 DEF Flushed
    <3>5. Regroups(x, w, d, r)
      BY <3>2, <3>3, Regrouped
    <3>6. (x \o (w \o d)) \o r = (x \o w) \o q
      BY <3>4, <3>5, Zenon DEF Regroups
    <3>. QED
      BY <3>1, <3>6, Zenon DEF Flushed
  <2>4. PeerOK(s, c) /\ Pair(s, ks[c], n, c) /\ LinkOK(s, ks[c], n, c)
        /\ (Closing(s, c) => s.peers[c].phase = "Absent")
    BY <1>2 DEF PeerGood
  <2>5. Inbound(t, n, c) = Inbound(s, n, c)
    <3>1. CASE n.link[c] = "up"
      <4>1. Inbound(t, n, c) = (x \o (w \o d)) \o r /\ Inbound(s, n, c) = (x \o w) \o q
        BY <2>1, <3>1 DEF Inbound
      <4>. HIDE DEF x, w, d, r, q
      <4>. QED
        BY <2>3, <4>1
    <3>2. CASE n.link[c] # "up"
      BY <3>2 DEF Inbound
    <3>. QED
      BY <3>1, <3>2
  <2>6. PeerOK(t, c)
    BY <1>5, <2>1, <2>3, <2>4 DEF PeerOK, FailingPeers
  <2>7. Pair(t, ks[c], n, c) /\ LinkOK(t, ks[c], n, c)
    BY <1>5, <2>4, <2>5 DEF Pair, LinkOK
  <2>8. PeerGood(t, ks[c], n, c)
    BY <1>5, <2>4, <2>6, <2>7 DEF PeerGood, Closing
  <2>. HIDE DEF w, d, q, r, x
  <2>9. w \o d \in Seq(Messages) /\ Len(w \o d) = Len(w) + Len(d)
    <3>1. w \in Seq(Messages) /\ d \in Seq(Messages)
      BY <2>1, <2>3
    <3>. QED
      BY <3>1
  <2>10. Len(w \o d) <= b[c]
    <3>1. Len(w) \in Nat /\ Take(c) \in Int /\ b[c] \in Nat
      BY <2>1, <2>2
    <3>. QED
      BY <2>2, <2>3, <2>9, <3>1
  <2>. QED
    BY <2>1, <2>3, <2>8, <2>9, <2>10
<1>7. t \in Sessions
  <2>1. t.sent \in PerClient(Seq(Messages)) /\ t.queue \in PerClient(Seq(Messages))
    BY <1>5, <1>6 DEF PerClient
  <2>. QED
    BY <1>1, <1>2, <2>1 DEF Sessions
<1>8. Epochs(t) /\ IdleUnlessListening(t)
  BY <1>2, <1>5 DEF Epochs, IdleUnlessListening
<1>. QED
  BY <1>5, <1>6, <1>7, <1>8 DEF Good

-----------------------------------------------------------------------------
(* The structural pass: frames, and the Remotes they make a peer follow.    *)

\* A message is queued for a live peer.
LEMMA Queued ==
    ASSUME NEW s, NEW ks, NEW n \in Transports, Good(s, ks, n), NEW c \in Clients,
           NEW m \in Messages,
           \/ (m.type = "frame" /\ s.peers[c].phase \in {"Accepted", "Ready"})
           \/ (m.type = "app" /\ s.peers[c].phase = "Ready"),
           NEW x, x.queue[c] = Enqueue(s.queue[c], m), x.sent[c] = s.sent[c],
           x.peers[c].phase = s.peers[c].phase, x.peers[c].epoch = s.peers[c].epoch
    PROVE  Pair(x, ks[c], n, c) /\ x.queue[c] \in Seq(Messages) /\ Sorted(x.queue[c])
<1>. DEFINE q == s.queue[c]  p == x.queue[c]  k == Ahead(q, m) + 1  a == n.toClient[c] \o s.sent[c]
<1>1. PeerOK(s, c) /\ Pair(s, ks[c], n, c) /\ s \in Sessions
  BY DEF Good, PeerGood
<1>2. q \in Seq(Messages) /\ n.toClient[c] \in Seq(Messages) /\ s.sent[c] \in Seq(Messages)
  BY <1>1 DEF Sessions, PerClient, Transports
<1>3. a \in Seq(Messages)
  BY <1>2
<1>4. p = Enqueue(q, m) /\ Sorted(q)
  BY <1>1 DEF PeerOK
<1>. HIDE DEF q, p, a
<1>5. p \in Seq(Messages) /\ Sorted(p) /\ Inserted(q, p, k, m)
  BY <1>2, <1>4, EnqueueInserts
<1>6. /\ k - 1 \in 0 .. Len(q) /\ k \in Int /\ DOMAIN q = 1 .. Len(q)
      /\ \A i \in DOMAIN q : q[i].type = "accepted" => i < k
  <2>1. /\ Ahead(q, m) \in 0 .. Len(q)
        /\ \A i \in DOMAIN q : i <= Ahead(q, m) <=> Precedence(q[i]) <= Precedence(m)
    BY <1>2, <1>4, AheadFirst
  <2>2. Precedence(m) \in {2, 3}
    BY PrecedenceType
  <2>3. \A i \in DOMAIN q : q[i].type = "accepted" => Precedence(q[i]) = 1
    BY PrecedenceType
  <2>4. \A i \in DOMAIN q : q[i].type = "accepted" => i <= Ahead(q, m)
    BY <2>1, <2>2, <2>3
  <2>5. DOMAIN q = 1 .. Len(q) /\ Len(q) \in Nat
    BY <1>2
  <2>. QED
    BY <2>1, <2>4, <2>5
<1>. HIDE DEF k
<1>7. CASE n.link[c] = "up"
  <2>. DEFINE i == Inbound(s, n, c)  j == Inbound(x, n, c)  l == Len(a) + k
  <2>1. i = a \o q /\ j = a \o p
    BY <1>7 DEF Inbound, a, p, q
  <2>. HIDE DEF i, j
  <2>2. Inserted(i, j, Len(a) + k, m)
    BY <1>2, <1>3, <1>5, <2>1, InsertedBehind
  <2>3. j \in Seq(Messages)
    BY <1>3, <1>5, <2>1
  <2>4. \A h \in DOMAIN i : i[h].type = "accepted" => h < Len(a) + k
    <3>1. /\ Len(a) \in Nat /\ Len(q) \in Nat /\ DOMAIN i = 1 .. Len(a) + Len(q)
          /\ \A h \in 1 .. Len(q) : i[Len(a) + h] = q[h]
      BY <1>2, <1>3, <2>1, ConcatFacts
    <3>. SUFFICES ASSUME NEW h \in DOMAIN i, i[h].type = "accepted" PROVE h < Len(a) + k
      OBVIOUS
    <3>. DEFINE la == Len(a)  lq == Len(q)
    <3>2. la \in Nat /\ lq \in Nat /\ h \in 1 .. la + lq /\ k \in Int /\ k - 1 \in 0 .. lq
      BY <1>6, <3>1
    <3>3. h > la => h - la \in 1 .. lq /\ i[la + (h - la)] = q[h - la]
      BY <3>1, <3>2
    <3>4. h > la => q[h - la].type = "accepted" /\ h - la \in DOMAIN q
      <4>. HIDE DEF la, lq
      <4>1. h > la => la + (h - la) = h
        BY <3>2
      <4>2. DOMAIN q = 1 .. lq
        BY <1>6 DEF lq
      <4>. QED
        BY <3>3, <4>1, <4>2
    <3>5. h > la => h - la < k
      BY <1>6, <3>4
    <3>. HIDE DEF la, lq
    <3>6. h < la + k
      BY <3>2, <3>5
    <3>. QED
      BY <3>6 DEF la
  <2>. DEFINE P == s.peers[c].phase  E == s.peers[c].epoch  K == Stage(ks[c])  X == ks[c].epoch
              o == Outbound(ks[c], n, c)
  <2>5. HandshakeOK(P, E, K, X, TRUE, i, o)
    BY <1>1, <1>7 DEF Pair, i
  <2>6. (m.type = "frame" /\ P \in {"Accepted", "Ready"}) \/ (m.type = "app" /\ P = "Ready")
    OBVIOUS
  <2>7. x.peers[c].phase = P /\ x.peers[c].epoch = E
    OBVIOUS
  <2>. HIDE DEF P, E, K, X, o, l
  <2>8. HandshakeOK(P, E, K, X, TRUE, j, o)
    BY <2>2, <2>3, <2>4, <2>5, <2>6, TrafficQueued
  <2>9. Pair(x, ks[c], n, c)
    BY <1>7, <2>7, <2>8 DEF Pair, j, K, X, o
  <2>. QED
    BY <1>5, <2>9 DEF p
<1>8. CASE n.link[c] # "up"
  <2>1. Inbound(x, n, c) = Inbound(s, n, c)
    BY <1>8 DEF Inbound
  <2>2. Pair(x, ks[c], n, c)
    BY <1>1, <2>1 DEF Pair
  <2>. QED
    BY <1>5, <2>2 DEF p
<1>. QED
  BY <1>7, <1>8

\* t is x after a handler has changed which Remotes connection c follows.
Rematerialized(x, t, c) ==
    /\ t \in Sessions /\ t.status = x.status /\ t.registry = x.registry /\ t.sent = x.sent
    /\ t.nextEpoch = x.nextEpoch /\ t.closed = x.closed /\ t.queue = x.queue /\ t.view = x.view
    /\ t.services = x.services /\ t.players = x.players
    /\ t.peers[c].phase = x.peers[c].phase /\ t.peers[c].epoch = x.peers[c].epoch
    /\ x.failures \subseteq t.failures
    /\ \A d \in Clients \ {c} : AgreeAt(x, t, d)

\* The tables of a connection's Remotes are replaced.
Tabled(x, c, ms, ps) == [x EXCEPT !.materialized[c] = ms, !.published[c] = ps]
Entered(x, c, ms) == [x EXCEPT !.materialized[c] = ms]
FollowsObjects(x, c, rs) == [x EXCEPT !.peers[c].remoteMaterializedObjects = rs]
FollowsRemotes(x, c, rs) == [x EXCEPT !.peers[c].materializedRemotes = rs]

LEMMA Remade ==
    ASSUME NEW x \in Sessions, NEW c \in Clients, NEW ms \in SUBSET Remotes, NEW ps \in SUBSET Remotes,
           NEW t, t = Tabled(x, c, ms, ps)
    PROVE  /\ Rematerialized(x, t, c) /\ t.failures = x.failures /\ t.peers = x.peers
           /\ t.materialized[c] = ms /\ t.published[c] = ps
<1>1. /\ x.materialized \in PerClient(SUBSET Remotes) /\ x.published \in PerClient(SUBSET Remotes)
  BY DEF Sessions
<1>2. /\ t.materialized = [x.materialized EXCEPT ![c] = ms]
      /\ t.published = [x.published EXCEPT ![c] = ps]
      /\ t.status = x.status /\ t.registry = x.registry /\ t.sent = x.sent
      /\ t.nextEpoch = x.nextEpoch /\ t.closed = x.closed /\ t.queue = x.queue /\ t.view = x.view
      /\ t.services = x.services /\ t.players = x.players /\ t.peers = x.peers
      /\ t.failures = x.failures
  BY DEF Sessions, Tabled
<1>3. /\ t.materialized \in PerClient(SUBSET Remotes) /\ t.published \in PerClient(SUBSET Remotes)
      /\ t.materialized[c] = ms /\ t.published[c] = ps
      /\ \A d \in Clients \ {c} : t.materialized[d] = x.materialized[d] /\ t.published[d] = x.published[d]
  BY <1>1, <1>2 DEF PerClient
<1>4. t \in Sessions
  BY <1>3 DEF Sessions, Tabled
<1>. QED
  BY <1>2, <1>3, <1>4 DEF Rematerialized, AgreeAt, FailingPeers, Closing

LEMMA RematerializedTwice ==
    ASSUME NEW x, NEW y, NEW t, NEW c, Rematerialized(x, y, c), Rematerialized(y, t, c)
    PROVE  Rematerialized(x, t, c)
<1>1. \A d \in Clients \ {c} : AgreeAt(x, t, d)
  BY AgreeTwice DEF Rematerialized
<1>. QED
  BY <1>1 DEF Rematerialized

LEMMA Refollowed ==
    ASSUME NEW x \in Sessions, NEW c \in Clients, NEW rs \in SUBSET Remotes,
           NEW t, t = FollowsObjects(x, c, rs)
                \/ t = FollowsRemotes(x, c, rs)
    PROVE  /\ Rematerialized(x, t, c) /\ t.failures = x.failures
           /\ t.materialized = x.materialized /\ t.published = x.published
           /\ t = FollowsObjects(x, c, rs) =>
                 t.peers[c].remoteMaterializedObjects = rs
           /\ t = FollowsRemotes(x, c, rs) =>
                 t.peers[c].remoteMaterializedObjects = x.peers[c].remoteMaterializedObjects
<1>1. x.peers \in PerClient(PeerRecs) /\ x.peers[c] \in PeerRecs
  BY DEF Sessions, PerClient
<1>2. /\ t.status = x.status /\ t.registry = x.registry /\ t.sent = x.sent
      /\ t.nextEpoch = x.nextEpoch /\ t.closed = x.closed /\ t.queue = x.queue /\ t.view = x.view
      /\ t.services = x.services /\ t.players = x.players
      /\ t.materialized = x.materialized /\ t.published = x.published
      /\ t.failures = x.failures
  BY DEF Sessions, FollowsObjects, FollowsRemotes
<1>3. ASSUME NEW p, p = [x.peers[c] EXCEPT !.remoteMaterializedObjects = rs]
                 \/ p = [x.peers[c] EXCEPT !.materializedRemotes = rs]
      PROVE  p \in PeerRecs /\ p.phase = x.peers[c].phase /\ p.epoch = x.peers[c].epoch
  BY <1>1, <1>3 DEF PeerRecs
<1>4. CASE t = FollowsObjects(x, c, rs)
  <2>. DEFINE p == [x.peers[c] EXCEPT !.remoteMaterializedObjects = rs]
  <2>1. p.remoteMaterializedObjects = rs
    BY <1>1 DEF PeerRecs
  <2>2. p \in PeerRecs /\ p.phase = x.peers[c].phase /\ p.epoch = x.peers[c].epoch
    BY <1>3
  <2>3. t.peers = [x.peers EXCEPT ![c] = p]
    BY <1>4 DEF Sessions, FollowsObjects
  <2>. HIDE DEF p
  <2>4. t.peers \in PerClient(PeerRecs) /\ t.peers[c] = p /\ \A d \in Clients \ {c} : t.peers[d] = x.peers[d]
    BY <1>1, <2>2, <2>3 DEF PerClient
  <2>5. t \in Sessions
    BY <1>4, <2>4 DEF Sessions, FollowsObjects
  <2>6. Rematerialized(x, t, c)
    BY <1>2, <2>2, <2>4, <2>5 DEF Rematerialized, AgreeAt, FailingPeers, Closing
  <2>7. x.peers[c].remoteMaterializedObjects = t.peers[c].remoteMaterializedObjects
        \/ t # FollowsRemotes(x, c, rs)
    <3>. SUFFICES ASSUME t = FollowsRemotes(x, c, rs)
                  PROVE  x.peers[c].remoteMaterializedObjects = t.peers[c].remoteMaterializedObjects
      OBVIOUS
    <3>1. t.peers = [x.peers EXCEPT ![c].materializedRemotes = rs]
      BY DEF Sessions, FollowsObjects, FollowsRemotes
    <3>. QED
      BY <1>1, <3>1 DEF PerClient, PeerRecs
  <2>. QED
    BY <1>2, <2>1, <2>4, <2>6, <2>7
<1>5. CASE t = FollowsRemotes(x, c, rs)
  <2>. DEFINE p == [x.peers[c] EXCEPT !.materializedRemotes = rs]
  <2>1. p.remoteMaterializedObjects = x.peers[c].remoteMaterializedObjects
    BY <1>1 DEF PeerRecs
  <2>2. p \in PeerRecs /\ p.phase = x.peers[c].phase /\ p.epoch = x.peers[c].epoch
    BY <1>3
  <2>3. t.peers = [x.peers EXCEPT ![c] = p]
    BY <1>5 DEF Sessions, FollowsRemotes
  <2>. HIDE DEF p
  <2>4. t.peers \in PerClient(PeerRecs) /\ t.peers[c] = p /\ \A d \in Clients \ {c} : t.peers[d] = x.peers[d]
    BY <1>1, <2>2, <2>3 DEF PerClient
  <2>5. t \in Sessions
    BY <1>5, <2>4 DEF Sessions, FollowsRemotes
  <2>6. Rematerialized(x, t, c)
    BY <1>2, <2>2, <2>4, <2>5 DEF Rematerialized, AgreeAt, FailingPeers, Closing
  <2>7. t.peers[c].remoteMaterializedObjects = rs
        \/ t # FollowsObjects(x, c, rs)
    <3>. SUFFICES ASSUME t = FollowsObjects(x, c, rs)
                  PROVE  t.peers[c].remoteMaterializedObjects = rs
      OBVIOUS
    <3>1. t.peers = [x.peers EXCEPT ![c].remoteMaterializedObjects = rs]
      BY DEF Sessions, FollowsObjects, FollowsRemotes
    <3>. QED
      BY <1>1, <3>1 DEF PerClient, PeerRecs
  <2>. QED
    BY <1>2, <2>1, <2>4, <2>6, <2>7
<1>. QED
  BY <1>4, <1>5

\* A Remote is open for calls of connection c only where it exists.
Opens(t, c) ==
    /\ t.published[c] \subseteq t.registry /\ t.published[c] \subseteq t.view[c]
    /\ t.published[c] \subseteq t.materialized[c]
    /\ t.published[c] \subseteq t.peers[c].remoteMaterializedObjects

\* t is x after some Remotes have been entered for connection c, and others marked unmaterialized.
Marked(x, t, c, ms, rs) ==
    /\ Rematerialized(x, t, c) /\ t.failures = x.failures /\ t.peers = x.peers
    /\ t.materialized[c] = ms \ rs /\ t.published[c] = x.published[c] \ (rs \cap x.registry)

LEMMA Marks ==
    ASSUME NEW x \in Sessions, NEW c \in Clients, NEW rs \in SUBSET Remotes,
           NEW ms \in SUBSET Remotes, NEW y, y = Entered(x, c, ms),
           NEW t, t = MarkUnmaterialized(y, c, rs)
    PROVE  Marked(x, t, c, ms, rs)
<1>. DEFINE ns == ms \ rs  ps == x.published[c] \ (rs \cap x.registry)
            qs == x.published[c]
<1>1. ns \in SUBSET Remotes /\ ps \in SUBSET Remotes /\ qs \in SUBSET Remotes
  BY DEF Sessions, PerClient
<1>2. y = Tabled(x, c, ms, qs)
  <2>1. x.published = [x.published EXCEPT ![c] = qs]
    BY DEF Sessions, PerClient
  <2>. QED
    BY <2>1 DEF Sessions, Entered, Tabled
<1>. HIDE DEF ns, ps, qs
<1>3. /\ Rematerialized(x, y, c) /\ y.failures = x.failures /\ y.peers = x.peers
      /\ y.materialized[c] = ms /\ y.published[c] = qs
  BY <1>1, <1>2, Remade
<1>4. y \in Sessions /\ y.registry = x.registry
  BY <1>3 DEF Rematerialized
<1>5. t = Tabled(y, c, ns, ps)
  <2>1. t = [y EXCEPT !.materialized[c] = y.materialized[c] \ rs,
                      !.published[c] = y.published[c] \ (rs \cap y.registry)]
    BY DEF MarkUnmaterialized
  <2>. QED
    BY <1>3, <1>4, <2>1 DEF ns, ps, qs, Tabled
<1>6. /\ Rematerialized(y, t, c) /\ t.failures = y.failures /\ t.peers = y.peers
      /\ t.materialized[c] = ns /\ t.published[c] = ps
  BY <1>1, <1>4, <1>5, Remade
<1>7. Rematerialized(x, t, c)
  BY <1>3, <1>6, RematerializedTwice
<1>. QED
  BY <1>3, <1>6, <1>7 DEF ns, ps, Marked

LEMMA FailsAfter ==
    ASSUME NEW x, NEW y, NEW c \in Clients, Rematerialized(x, y, c), NEW cause \in Causes \ {"protocol"},
           NEW t, t = AddFailure(y, c, cause)
    PROVE  /\ Rematerialized(x, t, c) /\ c \in FailingPeers(t)
           /\ Opens(y, c) => Opens(t, c)
<1>1. y \in Sessions
  BY DEF Rematerialized
<1>2. /\ t \in Sessions /\ c \in FailingPeers(t) /\ y.failures \subseteq t.failures
      /\ t.peers = y.peers /\ t.services = y.services /\ t.players = y.players
      /\ t.queue = y.queue /\ t.view = y.view /\ t.materialized = y.materialized
      /\ t.published = y.published
      /\ t.status = y.status /\ t.registry = y.registry /\ t.sent = y.sent
      /\ t.nextEpoch = y.nextEpoch /\ t.closed = y.closed
      /\ \A d \in Clients \ {c} : AgreeAt(y, t, d)
  BY <1>1, AddFailureFacts
<1>3. Rematerialized(y, t, c)
  BY <1>2 DEF Rematerialized
<1>. QED
  BY <1>2, <1>3, RematerializedTwice DEF Opens

LEMMA Follows ==
    ASSUME NEW x \in Sessions, NEW c \in Clients, NEW frame \in Frames,
           x.peers[c].phase = "Ready",
           x.published[c] \subseteq x.registry, x.published[c] \subseteq x.materialized[c],
           x.published[c] \subseteq x.peers[c].remoteMaterializedObjects,
           NEW t, t = ApplyServerRemoteMaterialization(x, c, frame)
    PROVE  /\ Rematerialized(x, t, c) /\ Opens(t, c)
           /\ \/ c \in FailingPeers(t)
              \/ t.peers[c].remoteMaterializedObjects =
                    (x.peers[c].remoteMaterializedObjects \cup frame.publish) \cap x.view[c]
<1>. DEFINE old == x.peers[c].remoteMaterializedObjects
            follows == old \cup frame.publish
            ms == x.materialized[c] \cup (follows \ old)
            entered == Entered(x, c, ms)
            gone == follows \ x.view[c]
            left == MarkUnmaterialized(entered, c, gone)
            rs == follows \ gone
<1>1. /\ old \in SUBSET Remotes /\ frame.publish \in SUBSET Remotes
      /\ x.materialized[c] \in SUBSET Remotes
  BY DEF Sessions, PerClient, PeerRecs, Frames
<1>2. ms \in SUBSET Remotes /\ gone \in SUBSET Remotes /\ rs \in SUBSET Remotes /\ follows \in SUBSET Remotes
  BY <1>1
<1>3. \/ t = FollowsObjects(left, c, rs)
      \/ t = AddFailure(left, c, "registry")
  BY DEF ApplyServerRemoteMaterialization, Phase, Entered, FollowsObjects
<1>4. rs = follows \cap x.view[c] /\ x.published[c] \subseteq follows /\ x.published[c] \subseteq ms
  OBVIOUS
<1>5. left = MarkUnmaterialized(entered, c, gone) /\ entered = Entered(x, c, ms)
  OBVIOUS
<1>. HIDE DEF entered, left, ms, rs, gone
<1>11. Marked(x, left, c, ms, gone)
  BY <1>2, <1>5, Marks
<1>6. /\ Rematerialized(x, left, c) /\ left.failures = x.failures /\ left.peers = x.peers
      /\ left.materialized[c] = ms \ gone /\ left.published[c] = x.published[c] \ (gone \cap x.registry)
  BY <1>11 DEF Marked
<1>7. left \in Sessions /\ left.registry = x.registry /\ left.view = x.view
  BY <1>6 DEF Rematerialized
<1>8. /\ left.published[c] \subseteq x.registry /\ left.published[c] \subseteq x.view[c]
      /\ left.published[c] \subseteq left.materialized[c] /\ left.published[c] \subseteq rs
      /\ left.published[c] \subseteq old
  BY <1>4, <1>6 DEF gone
<1>. HIDE DEF follows, old
<1>9. CASE t = FollowsObjects(left, c, rs)
  <2>1. /\ Rematerialized(left, t, c) /\ t.failures = left.failures
        /\ t.materialized = left.materialized /\ t.published = left.published
        /\ t.peers[c].remoteMaterializedObjects = rs
    BY <1>2, <1>7, <1>9, Refollowed
  <2>2. t.registry = x.registry /\ t.view = x.view
    BY <1>7, <2>1 DEF Rematerialized
  <2>3. Opens(t, c)
    BY <1>8, <2>1, <2>2 DEF Opens
  <2>. QED
    BY <1>4, <1>6, <2>1, <2>3, RematerializedTwice DEF follows, old
<1>10. CASE t = AddFailure(left, c, "registry")
  <2>1. "registry" \in Causes \ {"protocol"}
    BY DEF Causes
  <2>2. left.peers[c].remoteMaterializedObjects = old
    BY <1>6 DEF old
  <2>3. Opens(left, c)
    BY <1>7, <1>8, <2>2 DEF Opens
  <2>. QED
    BY <1>6, <1>10, <2>1, <2>3, FailsAfter
<1>. QED
  BY <1>3, <1>9, <1>10

LEMMA Synchronizes ==
    ASSUME NEW s, NEW ks, NEW n \in Transports, Good(s, ks, n), NEW c \in Clients,
           s.peers[c].phase = "Ready", c \notin FailingPeers(s), NEW t, t = SynchronizePeer(s, c)
    PROVE  Tame(s, t, c) /\ PeerGood(t, ks[c], n, c)
<1>. DEFINE desired == s.objects \cap s.view[c]
            stale == s.peers[c].materializedRemotes \ desired
            fresh == desired \ s.peers[c].materializedRemotes
            ms == s.materialized[c]
            same == Entered(s, c, ms)
            dropped == MarkUnmaterialized(s, c, stale)
            ns == dropped.materialized[c] \cup fresh
            ps == dropped.published[c] \cup (fresh \cap s.registry)
            followed == Tabled(dropped, c, ns, ps)
<1>1. /\ s \in Sessions /\ PeerGood(s, ks[c], n, c) /\ PeerOK(s, c)
  BY DEF Good, PeerGood
<1>2. /\ desired \in SUBSET Remotes /\ stale \in SUBSET Remotes /\ fresh \in SUBSET Remotes
      /\ ms \in SUBSET Remotes /\ fresh \subseteq s.view[c]
  BY <1>1 DEF Sessions, PerClient, PeerRecs
<1>3. \/ t = FollowsRemotes(followed, c, desired)
      \/ t = AddFailure(followed, c, "registry")
  BY DEF SynchronizePeer, Tabled, FollowsRemotes
<1>4. same = s
  <2>1. [s.materialized EXCEPT ![c] = s.materialized[c]] = s.materialized
    BY <1>1 DEF Sessions, PerClient
  <2>. QED
    BY <1>1, <2>1 DEF Sessions, Entered
<1>5. same = Entered(s, c, ms) /\ dropped = MarkUnmaterialized(same, c, stale)
  BY <1>4
<1>6. followed = Tabled(dropped, c, ns, ps)
  OBVIOUS
<1>. HIDE DEF same, dropped, followed, desired, stale, fresh, ms
<1>21. Marked(s, dropped, c, ms, stale)
  BY <1>1, <1>2, <1>5, Marks
<1>7. /\ Rematerialized(s, dropped, c) /\ dropped.failures = s.failures /\ dropped.peers = s.peers
      /\ dropped.materialized[c] = ms \ stale
      /\ dropped.published[c] = s.published[c] \ (stale \cap s.registry)
  BY <1>21 DEF Marked
<1>8. dropped \in Sessions /\ dropped.registry = s.registry /\ dropped.view = s.view
  BY <1>7 DEF Rematerialized
<1>9. ns \in SUBSET Remotes /\ ps \in SUBSET Remotes
  BY <1>2, <1>8 DEF Sessions, PerClient
<1>10. /\ s.published[c] \subseteq s.registry /\ s.published[c] \subseteq s.view[c]
       /\ s.published[c] \subseteq s.materialized[c]
       /\ s.peers[c].remoteMaterializedObjects = s.view[c]
  BY <1>1 DEF PeerOK
<1>11. ps \subseteq s.registry /\ ps \subseteq s.view[c] /\ ps \subseteq ns
  BY <1>2, <1>7, <1>10 DEF ms
<1>. HIDE DEF ns, ps
<1>12. /\ Rematerialized(dropped, followed, c) /\ followed.failures = dropped.failures
       /\ followed.peers = dropped.peers
       /\ followed.materialized[c] = ns /\ followed.published[c] = ps
  BY <1>6, <1>8, <1>9, Remade
<1>13. Rematerialized(s, followed, c)
  BY <1>7, <1>12, RematerializedTwice
<1>14. followed \in Sessions /\ followed.registry = s.registry /\ followed.view = s.view
  BY <1>13 DEF Rematerialized
<1>15. Opens(followed, c) /\ followed.peers[c].remoteMaterializedObjects = s.view[c]
  BY <1>7, <1>10, <1>11, <1>12, <1>14 DEF Opens
<1>16. /\ Rematerialized(s, t, c) /\ Opens(t, c)
       /\ c \in FailingPeers(t) \/ t.peers[c].remoteMaterializedObjects = s.view[c]
  <2>1. CASE t = FollowsRemotes(followed, c, desired)
    <3>1. /\ Rematerialized(followed, t, c) /\ t.failures = followed.failures
          /\ t.materialized = followed.materialized /\ t.published = followed.published
          /\ t.peers[c].remoteMaterializedObjects = followed.peers[c].remoteMaterializedObjects
      BY <1>2, <1>14, <2>1, Refollowed
    <3>2. t.registry = s.registry /\ t.view = s.view
      BY <1>14, <3>1 DEF Rematerialized
    <3>3. Opens(t, c)
      BY <1>14, <1>15, <3>1, <3>2 DEF Opens
    <3>. QED
      BY <1>13, <1>15, <3>1, <3>3, RematerializedTwice
  <2>2. CASE t = AddFailure(followed, c, "registry")
    <3>1. "registry" \in Causes \ {"protocol"}
      BY DEF Causes
    <3>. QED
      BY <1>13, <1>15, <2>2, <3>1, FailsAfter
  <2>. QED
    BY <1>3, <2>1, <2>2
<1>17. Tame(s, t, c)
  BY <1>16 DEF Rematerialized, Tame, Local
<1>18. PeerOK(t, c)
  BY <1>1, <1>16 DEF PeerOK, Opens, Rematerialized
<1>19. Inbound(t, n, c) = Inbound(s, n, c)
  BY <1>16 DEF Inbound, Rematerialized
<1>20. Pair(t, ks[c], n, c) /\ LinkOK(t, ks[c], n, c)
  BY <1>1, <1>16, <1>19 DEF PeerGood, Pair, LinkOK, Rematerialized
<1>. QED
  BY <1>1, <1>16, <1>17, <1>18, <1>20 DEF PeerGood, Closing, Rematerialized

LEMMA SynchronizesGraph ==
    ASSUME NEW s, NEW ks, NEW n \in Transports, Good(s, ks, n), s.failures = {},
           NEW t, t = SynchronizeServerGraph(s)
    PROVE  Good(t, ks, n) /\ t.sent = s.sent
<1>. DEFINE by == [c \in Clients |-> IF Phase(s, c) = "Ready" THEN SynchronizePeer(s, c) ELSE s]
<1>1. \A c \in Clients : Tame(s, by[c], c) /\ PeerGood(by[c], ks[c], n, c)
  <2>. SUFFICES ASSUME NEW c \in Clients PROVE Tame(s, by[c], c) /\ PeerGood(by[c], ks[c], n, c)
    OBVIOUS
  <2>1. CASE s.peers[c].phase = "Ready"
    <3>1. by[c] = SynchronizePeer(s, c) /\ c \notin FailingPeers(s)
      BY <2>1 DEF Phase, FailingPeers
    <3>. HIDE DEF by
    <3>. QED
      BY <2>1, <3>1, Synchronizes
  <2>2. CASE s.peers[c].phase # "Ready"
    <3>1. by[c] = s
      BY <2>2 DEF Phase
    <3>. HIDE DEF by
    <3>. QED
      BY <3>1, LocalStays DEF Good
  <2>. QED
    BY <2>1, <2>2
<1>2. t = Together(s, by)
  BY DEF SynchronizeServerGraph
<1>. HIDE DEF by
<1>. QED
  BY <1>1, <1>2, TogetherGood

\* A message is queued, and the View of the connection becomes vs.
Submitted(s, c, m, vs) == [s EXCEPT !.queue[c] = Enqueue(@, m), !.view[c] = vs]

\* t is s after that.
Holds(s, t, c, m, vs) ==
    /\ t \in Sessions /\ t.queue[c] = Enqueue(s.queue[c], m) /\ t.view[c] = vs
    /\ t.peers = s.peers /\ t.services = s.services /\ t.players = s.players
    /\ t.materialized = s.materialized /\ t.published = s.published
    /\ t.status = s.status /\ t.registry = s.registry /\ t.sent = s.sent
    /\ t.nextEpoch = s.nextEpoch /\ t.failures = s.failures /\ t.closed = s.closed
    /\ \A d \in Clients \ {c} : AgreeAt(s, t, d)

LEMMA SubmittedFacts ==
    ASSUME NEW s \in Sessions, NEW c \in Clients, NEW m, Enqueue(s.queue[c], m) \in Seq(Messages),
           NEW vs \in SUBSET Remotes, NEW x, x = Submitted(s, c, m, vs)
    PROVE  Holds(s, x, c, m, vs)
<1>1. s.queue \in PerClient(Seq(Messages)) /\ s.view \in PerClient(SUBSET Remotes)
  BY DEF Sessions
<1>2. /\ x.queue = [s.queue EXCEPT ![c] = Enqueue(s.queue[c], m)] /\ x.view = [s.view EXCEPT ![c] = vs]
      /\ x.peers = s.peers /\ x.services = s.services /\ x.players = s.players
      /\ x.materialized = s.materialized /\ x.published = s.published
      /\ x.status = s.status /\ x.registry = s.registry /\ x.sent = s.sent
      /\ x.nextEpoch = s.nextEpoch /\ x.failures = s.failures /\ x.closed = s.closed
  BY DEF Sessions, Submitted
<1>3. /\ x.queue \in PerClient(Seq(Messages)) /\ x.view \in PerClient(SUBSET Remotes)
      /\ x.queue[c] = Enqueue(s.queue[c], m) /\ x.view[c] = vs
      /\ \A d \in Clients \ {c} : x.queue[d] = s.queue[d] /\ x.view[d] = s.view[d]
  BY <1>1, <1>2 DEF PerClient
<1>4. x \in Sessions
  BY <1>3 DEF Sessions, Submitted
<1>. QED
  BY <1>2, <1>3, <1>4 DEF AgreeAt, FailingPeers, Closing, Holds

\* A frame that is no baseline.
LEMMA Submits ==
    ASSUME NEW s, NEW ks, NEW n \in Transports, Good(s, ks, n), NEW c \in Clients,
           NEW frame \in Frames, s.peers[c].phase \in {"Accepted", "Ready"},
           NEW t, t = SubmitStructural(s, c, frame)
    PROVE  Tame(s, t, c) /\ PeerGood(t, ks[c], n, c)
<1>. DEFINE vs == (s.view[c] \cup frame.publish) \ frame.leave
            x == Submitted(s, c, frame, vs)
<1>1. s \in Sessions /\ PeerGood(s, ks[c], n, c) /\ PeerOK(s, c)
  BY DEF Good, PeerGood
<1>2. s.queue[c] \in Seq(Messages) /\ frame \in Messages /\ frame.type = "frame"
      /\ vs \in SUBSET Remotes /\ Sorted(s.queue[c])
  BY <1>1 DEF Sessions, PerClient, Messages, Frames, PeerOK
<1>3. Enqueue(s.queue[c], frame) \in Seq(Messages)
  BY <1>2, EnqueueInserts
<1>4. t = ApplyServerRemoteMaterialization(x, c, frame)
  BY DEF SubmitStructural, Submitted
<1>5. x = Submitted(s, c, frame, vs)
  OBVIOUS
<1>6. (s.view[c] \cup frame.publish) \cap vs = vs
  OBVIOUS
<1>. HIDE DEF x, vs
<1>7. /\ x \in Sessions /\ x.queue[c] = Enqueue(s.queue[c], frame) /\ x.view[c] = vs
      /\ x.peers = s.peers /\ x.services = s.services /\ x.players = s.players
      /\ x.materialized = s.materialized /\ x.published = s.published
      /\ x.status = s.status /\ x.registry = s.registry /\ x.sent = s.sent
      /\ x.nextEpoch = s.nextEpoch /\ x.failures = s.failures /\ x.closed = s.closed
      /\ \A d \in Clients \ {c} : AgreeAt(s, x, d)
  <2>1. Holds(s, x, c, frame, vs)
    BY <1>1, <1>2, <1>3, <1>5, SubmittedFacts
  <2>. QED
    BY <2>1 DEF Holds
<1>8. Pair(x, ks[c], n, c) /\ Sorted(x.queue[c])
  BY <1>2, <1>7, Queued
<1>9. FailingPeers(x) = FailingPeers(s)
  BY <1>7 DEF FailingPeers
<1>10. ~Closing(s, c)
  BY <1>1 DEF PeerGood
<1>11. CASE s.peers[c].phase = "Accepted"
  <2>1. t = x
    BY <1>4, <1>7, <1>11 DEF ApplyServerRemoteMaterialization, Phase
  <2>2. PeerOK(x, c)
    BY <1>1, <1>7, <1>8, <1>11 DEF PeerOK
  <2>3. Tame(s, x, c)
    BY <1>7, <1>11 DEF Tame, Local
  <2>4. LinkOK(x, ks[c], n, c)
    BY <1>1, <1>7 DEF PeerGood, LinkOK
  <2>. QED
    BY <1>7, <1>8, <1>10, <2>1, <2>2, <2>3, <2>4 DEF PeerGood, Closing
<1>12. CASE s.peers[c].phase = "Ready"
  <2>1. /\ x.published[c] \subseteq x.registry /\ x.published[c] \subseteq x.materialized[c]
        /\ x.published[c] \subseteq x.peers[c].remoteMaterializedObjects
    BY <1>1, <1>7 DEF PeerOK
  <2>2. /\ Rematerialized(x, t, c) /\ Opens(t, c)
        /\ \/ c \in FailingPeers(t)
           \/ t.peers[c].remoteMaterializedObjects =
                 (x.peers[c].remoteMaterializedObjects \cup frame.publish) \cap x.view[c]
    BY <1>4, <1>7, <1>12, <2>1, Follows
  <2>3. /\ t \in Sessions /\ t.status = s.status /\ t.registry = s.registry /\ t.sent = s.sent
        /\ t.nextEpoch = s.nextEpoch /\ t.closed = s.closed
        /\ t.services = s.services /\ t.players = s.players
        /\ t.peers[c].phase = s.peers[c].phase /\ t.peers[c].epoch = s.peers[c].epoch
        /\ s.failures \subseteq t.failures /\ t.queue = x.queue /\ t.view = x.view
        /\ \A d \in Clients \ {c} : AgreeAt(x, t, d)
    BY <1>7, <2>2 DEF Rematerialized
  <2>4. \A d \in Clients \ {c} : AgreeAt(s, t, d)
    BY <1>7, <2>3, AgreeTwice
  <2>5. Tame(s, t, c)
    BY <1>12, <2>3, <2>4 DEF Tame, Local
  <2>6. c \notin FailingPeers(t) => t.peers[c].remoteMaterializedObjects = t.view[c]
    <3>. SUFFICES ASSUME c \notin FailingPeers(t) PROVE t.peers[c].remoteMaterializedObjects = t.view[c]
      OBVIOUS
    <3>1. c \notin FailingPeers(s)
      BY <2>3 DEF FailingPeers
    <3>2. s.peers[c].remoteMaterializedObjects = s.view[c]
      BY <1>1, <1>12, <3>1 DEF PeerOK
    <3>. QED
      BY <1>6, <1>7, <2>2, <2>3, <3>2
  <2>7. PeerOK(t, c)
    BY <1>1, <1>8, <1>12, <2>2, <2>3, <2>6 DEF PeerOK, Opens
  <2>8. Inbound(t, n, c) = Inbound(x, n, c)
    BY <1>7, <2>3 DEF Inbound
  <2>9. Pair(t, ks[c], n, c) /\ LinkOK(t, ks[c], n, c)
    BY <1>1, <1>7, <1>8, <2>3, <2>8 DEF PeerGood, Pair, LinkOK
  <2>. QED
    BY <1>10, <2>3, <2>5, <2>7, <2>9 DEF PeerGood, Closing
<1>. QED
  BY <1>11, <1>12

\* The acceptance is queued after the baseline and goes before it.
LEMMA BootstrapQueue ==
    ASSUME NEW f \in Frames, NEW a \in Messages, a.type = "accepted"
    PROVE  Enqueue(<<>>, f) \in Seq(Messages) /\ Enqueue(Enqueue(<<>>, f), a) = <<a, f>>
<1>1. <<>> \in Seq(Messages) /\ f \in Messages /\ f.type = "frame"
  BY DEF Messages, Frames
<1>2. Sorted(<<>>) /\ Len(<<>>) = 0
  BY DEF Sorted
<1>. DEFINE q == Enqueue(<<>>, f)  t == Enqueue(q, a)
<1>3. q \in Seq(Messages) /\ Sorted(q) /\ Inserted(<<>>, q, Ahead(<<>>, f) + 1, f)
  BY <1>1, <1>2, EnqueueInserts
<1>. HIDE DEF q
<1>4. Len(q) = 1 /\ q[1] = f
  <2>1. Ahead(<<>>, f) \in 0 .. Len(<<>>)
    BY <1>1, <1>2, AheadFirst
  <2>2. Ahead(<<>>, f) + 1 = 1
    BY <1>2, <2>1
  <2>3. Inserted(<<>>, q, 1, f)
    BY <1>3, <2>2
  <2>. QED
    BY <1>2, <2>3 DEF Inserted
<1>5. t \in Seq(Messages) /\ Inserted(q, t, Ahead(q, a) + 1, a)
  BY <1>3, EnqueueInserts
<1>6. Ahead(q, a) = 0
  <2>1. /\ Ahead(q, a) \in 0 .. Len(q)
        /\ \A i \in DOMAIN q : i <= Ahead(q, a) <=> Precedence(q[i]) <= Precedence(a)
    BY <1>3, AheadFirst
  <2>2. Precedence(f) = 2 /\ Precedence(a) = 1
    BY <1>1, PrecedenceType
  <2>3. 1 \in DOMAIN q
    BY <1>3, <1>4
  <2>4. ~(1 <= Ahead(q, a))
    BY <1>4, <2>1, <2>2, <2>3
  <2>. QED
    BY <1>4, <2>1, <2>4
<1>. HIDE DEF t
<1>7. Len(t) = 2 /\ t[1] = a /\ t[2] = f
  <2>1. Inserted(q, t, 1, a)
    BY <1>5, <1>6
  <2>2. /\ Len(t) = Len(q) + 1
        /\ \A i \in 1 .. Len(t) : t[i] = IF i < 1 THEN q[i] ELSE IF i = 1 THEN a ELSE q[i - 1]
    BY <2>1 DEF Inserted
  <2>. QED
    BY <1>4, <2>2
<1>8. t = <<a, f>>
  BY <1>1, <1>5, <1>7, SeqEqual
<1>. QED
  BY <1>3, <1>8 DEF q, t

LEMMA Bootstraps ==
    ASSUME NEW s, NEW ks, NEW n \in Transports, Good(s, ks, n), NEW c \in Clients,
           NEW frame \in Frames, s.peers[c].phase = "BootstrapPending", frame.baseline,
           NEW t, t = ServeStructural(s, c, frame)
    PROVE  Tame(s, t, c) /\ PeerGood(t, ks[c], n, c)
<1>. DEFINE vs == (s.view[c] \cup frame.publish) \ frame.leave
            x == Submitted(s, c, frame, vs)
            E == s.peers[c].epoch  acc == ServerAccepted(E)
            q == <<acc, frame>>
            p == [s.peers[c] EXCEPT !.phase = "Accepted"]
<1>1. /\ s \in Sessions /\ PeerGood(s, ks[c], n, c) /\ PeerOK(s, c)
      /\ Pair(s, ks[c], n, c) /\ LinkOK(s, ks[c], n, c) /\ ~Closing(s, c)
  BY DEF Good, PeerGood
<1>2. s.peers[c] \in PeerRecs /\ E \in Nat /\ s.queue[c] = <<>> /\ s.peers \in PerClient(PeerRecs)
  BY <1>1 DEF Sessions, PerClient, PeerRecs, PeerOK
<1>3. frame.type = "frame" /\ frame \in Messages /\ vs \in SUBSET Remotes
  BY <1>1 DEF Sessions, PerClient, Messages, Frames
<1>4. acc \in Messages /\ acc.type = "accepted"
  BY <1>2 DEF ServerAccepted, Messages, Numbered
<1>5. Enqueue(<<>>, frame) \in Seq(Messages) /\ Enqueue(Enqueue(<<>>, frame), acc) = q
  BY <1>4, BootstrapQueue
<1>6. x = Submitted(s, c, frame, vs)
  OBVIOUS
<1>7. q \in Seq(Messages)
  BY <1>3, <1>4
<1>8. SubmitStructural(s, c, frame) = x
  BY <1>1 DEF SubmitStructural, Submitted, ApplyServerRemoteMaterialization, Phase, Sessions
<1>9. t = [x EXCEPT !.queue[c] = Enqueue(@, acc), !.peers[c].phase = "Accepted"]
  BY <1>3, <1>8 DEF ServeStructural, Peers, Phase
<1>. HIDE DEF x, vs, acc, q
<1>10. /\ x \in Sessions /\ x.queue[c] = Enqueue(<<>>, frame) /\ x.view[c] = vs
       /\ x.peers = s.peers /\ x.services = s.services /\ x.players = s.players
       /\ x.materialized = s.materialized /\ x.published = s.published
       /\ x.status = s.status /\ x.registry = s.registry /\ x.sent = s.sent
       /\ x.nextEpoch = s.nextEpoch /\ x.failures = s.failures /\ x.closed = s.closed
       /\ \A d \in Clients \ {c} : AgreeAt(s, x, d)
  <2>1. Enqueue(s.queue[c], frame) \in Seq(Messages)
    BY <1>2, <1>5
  <2>2. Holds(s, x, c, frame, vs)
    BY <1>1, <1>3, <1>6, <2>1, SubmittedFacts
  <2>. QED
    BY <1>2, <2>2 DEF Holds
<1>11. p \in PeerRecs /\ p.phase = "Accepted" /\ p.epoch = E
  BY <1>2 DEF PeerRecs, Phases
<1>12. /\ t.queue = [x.queue EXCEPT ![c] = q] /\ t.peers = [s.peers EXCEPT ![c] = p]
       /\ t.view = x.view /\ t.services = s.services /\ t.players = s.players
       /\ t.materialized = s.materialized /\ t.published = s.published
       /\ t.status = s.status /\ t.registry = s.registry /\ t.sent = s.sent
       /\ t.nextEpoch = s.nextEpoch /\ t.failures = s.failures /\ t.closed = s.closed
  <2>1. t.queue = [x.queue EXCEPT ![c] = Enqueue(x.queue[c], acc)]
    BY <1>9, <1>10 DEF Sessions
  <2>2. t.peers = [x.peers EXCEPT ![c].phase = "Accepted"]
    BY <1>9, <1>10 DEF Sessions
  <2>3. /\ t.view = x.view /\ t.services = x.services /\ t.players = x.players
        /\ t.materialized = x.materialized /\ t.published = x.published
        /\ t.status = x.status /\ t.registry = x.registry /\ t.sent = x.sent
        /\ t.nextEpoch = x.nextEpoch /\ t.failures = x.failures /\ t.closed = x.closed
    BY <1>9, <1>10 DEF Sessions
  <2>. QED
    BY <1>5, <1>10, <2>1, <2>2, <2>3
<1>. HIDE DEF p
<1>13. x.queue \in PerClient(Seq(Messages))
  BY <1>10 DEF Sessions
<1>14. /\ t.queue \in PerClient(Seq(Messages)) /\ t.peers \in PerClient(PeerRecs)
       /\ t.queue[c] = q /\ t.peers[c] = p
       /\ \A d \in Clients \ {c} : t.queue[d] = x.queue[d] /\ t.peers[d] = x.peers[d]
  BY <1>2, <1>7, <1>10, <1>11, <1>12, <1>13 DEF PerClient
<1>15. t \in Sessions
  <2>. DEFINE Q == t.queue  R == t.peers  y == [x EXCEPT !.queue = Q]
  <2>1. t = [y EXCEPT !.peers = R]
    BY <1>9, <1>10 DEF Sessions
  <2>2. Q \in PerClient(Seq(Messages)) /\ R \in PerClient(PeerRecs)
    BY <1>14
  <2>. HIDE DEF Q, R
  <2>3. y \in Sessions
    BY <1>10, <2>2 DEF Sessions
  <2>. HIDE DEF y
  <2>. QED
    BY <2>1, <2>2, <2>3 DEF Sessions
<1>16. \A d \in Clients \ {c} : AgreeAt(s, t, d)
  <2>1. \A d \in Clients \ {c} : AgreeAt(x, t, d)
    BY <1>10, <1>12, <1>14 DEF AgreeAt, FailingPeers, Closing
  <2>. QED
    BY <1>10, <2>1, AgreeTwice
<1>17. Tame(s, t, c)
  BY <1>11, <1>12, <1>14, <1>15, <1>16 DEF Tame, Local
<1>18. PeerOK(t, c)
  <2>1. Sorted(q)
    <3>1. Precedence(acc) = 1 /\ Precedence(frame) = 2
      BY <1>3, <1>4, PrecedenceType
    <3>2. DOMAIN q = {1, 2} /\ q[1] = acc /\ q[2] = frame
      BY DEF q
    <3>. QED
      BY <3>1, <3>2 DEF Sorted
  <2>2. ServicesOf("BootstrapPending") = ServicesOf("Accepted")
    BY DEF ServicesOf
  <2>. QED
    BY <1>1, <1>11, <1>12, <1>14, <2>1, <2>2 DEF PeerOK
<1>19. Pair(t, ks[c], n, c)
  <2>. DEFINE a == n.toClient[c] \o s.sent[c]  i == Inbound(s, n, c)  j == Inbound(t, n, c)
              K == Stage(ks[c])  X == ks[c].epoch  o == Outbound(ks[c], n, c)
  <2>1. n.toClient[c] \in Seq(Messages) /\ s.sent[c] \in Seq(Messages)
    BY <1>1 DEF Sessions, PerClient, Transports
  <2>2. a \in Seq(Messages)
    BY <2>1
  <2>3. HandshakeOK("BootstrapPending", E, K, X, n.link[c] = "up", i, o)
    BY <1>1 DEF Pair
  <2>4. HandshakeOK("Accepted", E, K, X, n.link[c] = "up", j, o)
    <3>1. CASE n.link[c] = "up"
      <4>1. i = a \o <<>> /\ j = a \o q
        BY <1>2, <1>12, <1>14, <3>1 DEF Inbound
      <4>. HIDE DEF a, i, j, K, X, o, E
      <4>2. i = a
        BY <2>2, <4>1
      <4>3. HandshakeOK("BootstrapPending", E, K, X, TRUE, i, o)
        BY <2>3, <3>1
      <4>4. HandshakeOK("Accepted", E, K, X, TRUE, i \o <<ServerAccepted(E), frame>>, o)
        BY <1>2, <4>3, Bootstrapped
      <4>. QED
        BY <3>1, <4>1, <4>2, <4>4 DEF q, acc
    <3>2. CASE n.link[c] # "up"
      <4>1. i = j
        BY <3>2 DEF Inbound
      <4>. HIDE DEF a, i, j, K, X, o, E
      <4>2. HandshakeOK("BootstrapPending", E, K, X, FALSE, i, o)
        BY <2>3, <3>2
      <4>3. HandshakeOK("Accepted", E, K, X, FALSE, i, o)
        BY <1>2, <4>2, BootstrappedAlone
      <4>. QED
        BY <3>2, <4>1, <4>3
    <3>. QED
      BY <3>1, <3>2
  <2>. QED
    BY <1>11, <1>14, <2>4 DEF Pair
<1>20. LinkOK(t, ks[c], n, c)
  BY <1>1, <1>11, <1>14 DEF LinkOK
<1>21. ~Closing(t, c)
  BY <1>1, <1>12 DEF Closing
<1>. QED
  BY <1>17, <1>18, <1>19, <1>20, <1>21 DEF PeerGood

\* What the frame of a Step may be for a connection.
Fits(s, c, frame) ==
    \/ frame.type = "none"
    \/ frame \in Frames /\ frame.baseline /\ s.peers[c].phase = "BootstrapPending"
    \/ frame \in Frames /\ ~frame.baseline /\ s.peers[c].phase \in {"Accepted", "Ready"}

LEMMA Serves ==
    ASSUME NEW s, NEW ks, NEW n \in Transports, Good(s, ks, n), NEW c \in Clients,
           NEW frame, Fits(s, c, frame), NEW t, t = ServeStructural(s, c, frame)
    PROVE  Tame(s, t, c) /\ PeerGood(t, ks[c], n, c)
<1>1. CASE frame.type = "none"
  <2>1. t = s
    BY <1>1 DEF ServeStructural
  <2>. QED
    BY <2>1, LocalStays DEF Good
<1>2. CASE frame \in Frames /\ frame.baseline /\ s.peers[c].phase = "BootstrapPending"
  BY <1>2, Bootstraps
<1>3. CASE frame \in Frames /\ ~frame.baseline /\ s.peers[c].phase \in {"Accepted", "Ready"}
  <2>1. t = SubmitStructural(s, c, frame)
    BY <1>3 DEF ServeStructural, Peers, Phase, Frames
  <2>. QED
    BY <1>3, <2>1, Submits
<1>. QED
  BY <1>1, <1>2, <1>3 DEF Fits

LEMMA FramesFit ==
    ASSUME NEW s \in Sessions, NEW c \in Clients, NEW frame \in FramesFor(s, c)
    PROVE  Fits(s, c, frame)
<1>. DEFINE live == {r \in Remotes : tree[r] = "in"}  dead == s.view[c] \ live
            E == s.peers[c].epoch  phase == s.peers[c].phase
            A == FramesOf(TRUE, E, live, {})
            B == FramesOf(FALSE, E, live \ s.view[c], dead)
            D == B \ FramesOf(FALSE, E, {}, {})
            rest == CASE phase = "BootstrapPending" -> A
                      [] phase \in {"Accepted", "Ready"} -> D
                      [] OTHER -> {}
<1>1. E \in Nat /\ s.view[c] \subseteq Remotes
  BY DEF Sessions, PerClient, PeerRecs
<1>2. FramesFor(s, c) = IF Len(net.toClient[c]) + Len(s.queue[c]) >= MaxBacklog THEN {Nothing}
                        ELSE {Nothing} \cup rest
  BY DEF FramesFor, Phase
<1>. HIDE DEF phase, E
<1>3. \A f \in A : f \in Frames /\ f.baseline
  BY <1>1 DEF FramesOf, Frames, E
<1>4. \A f \in B : f \in Frames /\ ~f.baseline
  BY <1>1 DEF FramesOf, Frames, E
<1>. HIDE DEF A, B
<1>5. \/ frame = Nothing \/ (phase = "BootstrapPending" /\ frame \in A)
      \/ (phase \in {"Accepted", "Ready"} /\ frame \in D)
  <2>1. frame = Nothing \/ frame \in rest
    <3>. HIDE DEF rest
    <3>. QED
      BY <1>2
  <2>2. rest = IF phase = "BootstrapPending" THEN A
               ELSE IF phase \in {"Accepted", "Ready"} THEN D ELSE {}
    <3>. HIDE DEF D
    <3>. QED
      OBVIOUS
  <2>. HIDE DEF rest
  <2>. QED
    BY <2>1, <2>2
<1>6. Nothing.type = "none"
  BY DEF Nothing
<1>7. \A f \in D : f \in B
  OBVIOUS
<1>. HIDE DEF D
<1>. QED
  BY <1>3, <1>4, <1>5, <1>6, <1>7 DEF Fits, phase

LEMMA ServesPeers ==
    ASSUME NEW s, NEW ks, NEW n \in Transports, Good(s, ks, n), NEW frames \in FrameChoices(s),
           NEW failing \in SUBSET Peers(s), NEW t, t = ServePeers(s, frames, failing)
    PROVE  Good(t, ks, n) /\ t.sent = s.sent
<1>. DEFINE by == [c \in Clients |-> IF c \in failing THEN AddFailure(s, c, "resource")
                                                      ELSE ServeStructural(s, c, frames[c])]
<1>1. s \in Sessions
  BY DEF Good
<1>2. \A c \in Clients : Tame(s, by[c], c) /\ PeerGood(by[c], ks[c], n, c)
  <2>. SUFFICES ASSUME NEW c \in Clients PROVE Tame(s, by[c], c) /\ PeerGood(by[c], ks[c], n, c)
    OBVIOUS
  <2>1. CASE c \in failing
    <3>1. by[c] = AddFailure(s, c, "resource") /\ s.peers[c].phase # "Absent"
      BY <2>1 DEF Peers, Phase
    <3>2. "resource" \in Causes \ {"protocol"}
      BY DEF Causes
    <3>. HIDE DEF by
    <3>. QED
      BY <3>1, <3>2, Failing
  <2>2. CASE c \notin failing
    <3>1. by[c] = ServeStructural(s, c, frames[c])
      BY <2>2
    <3>2. Fits(s, c, frames[c])
      <4>1. frames[c] \in IF c \in Peers(s) THEN FramesFor(s, c) ELSE {Nothing}
        BY DEF FrameChoices
      <4>2. CASE c \in Peers(s)
        BY <1>1, <4>1, <4>2, FramesFit
      <4>3. CASE c \notin Peers(s)
        BY <4>1, <4>3 DEF Nothing, Fits
      <4>. QED
        BY <4>2, <4>3
    <3>. HIDE DEF by
    <3>. QED
      BY <3>1, <3>2, Serves
  <2>. QED
    BY <2>1, <2>2
<1>3. t = Together(s, by)
  BY DEF ServePeers
<1>. HIDE DEF by
<1>. QED
  BY <1>2, <1>3, TogetherGood

-----------------------------------------------------------------------------
(* The inductive invariant.                                                 *)

\* What a client session k holds in its phase.
ClientOK(k) ==
    /\ k \in ClientRecs
    /\ EndedSession(k) => k = Release(k, k.status)
    /\ k.attached => k.phase = "Ready"
    /\ k.phase # "Ready" => k.registry = {} /\ k.bound = {} /\ k.published = {}
    /\ k.phase \in {"Absent", "Accepted"} => k.queue = <<>>
    /\ k.status = "Accepted" => k.phase = "Accepted"
    /\ k.published \subseteq k.registry /\ k.published \subseteq k.replica
    /\ k.published \subseteq k.known
    /\ k.bound \subseteq k.registry /\ k.remotes \subseteq k.known
    /\ Sorted(k.queue)

\* Between two calls a session has no failure pending and nothing in its hands.
Rests(s) == s.failures = {} /\ s.closed = {} /\ s.sent = [c \in Clients |-> <<>>]

-----------------------------------------------------------------------------
(* The registries follow the tree.                                          *)

\* t is s after Remotes have entered or left the registries.
Recast(s, t) ==
    /\ t \in Sessions /\ t.status = s.status /\ t.sent = s.sent /\ t.nextEpoch = s.nextEpoch
    /\ t.failures = s.failures /\ t.closed = s.closed
    /\ t.queue = s.queue /\ t.view = s.view /\ t.services = s.services /\ t.players = s.players
    /\ \A c \in Clients :
        /\ t.peers[c].phase = s.peers[c].phase /\ t.peers[c].epoch = s.peers[c].epoch
        /\ t.peers[c].remoteMaterializedObjects = s.peers[c].remoteMaterializedObjects
        /\ t.published[c] \subseteq s.published[c] /\ t.materialized[c] \subseteq s.materialized[c]
        /\ s.published[c] \subseteq s.registry => t.published[c] \subseteq t.registry
        /\ s.published[c] \subseteq s.materialized[c] => t.published[c] \subseteq t.materialized[c]

LEMMA RecastTwice ==
    ASSUME NEW x, NEW y, NEW t, Recast(x, y), Recast(y, t)
    PROVE  Recast(x, t)
BY DEF Recast

LEMMA RecastStays ==
    ASSUME NEW x \in Sessions
    PROVE  Recast(x, x)
BY DEF Recast

LEMMA RecastGood ==
    ASSUME NEW s, NEW ks, NEW n, Good(s, ks, n), NEW x, Recast(s, x),
           NEW t, (x.status = "Listening" /\ t = x) \/ t = [x EXCEPT !.status = "Listening"]
    PROVE  Good(t, ks, n) /\ t.sent = s.sent /\ t.failures = s.failures /\ t.closed = s.closed
<1>1. /\ s \in Sessions /\ x \in Sessions /\ Epochs(s) /\ \A c \in Clients : PeerGood(s, ks[c], n, c)
  BY DEF Good, Recast
<1>2. /\ t \in Sessions /\ t.status = "Listening" /\ t.sent = s.sent /\ t.nextEpoch = s.nextEpoch
      /\ t.failures = s.failures /\ t.closed = s.closed
      /\ t.queue = s.queue /\ t.view = s.view /\ t.services = s.services /\ t.players = s.players
      /\ t.peers = x.peers /\ t.published = x.published /\ t.materialized = x.materialized
      /\ t.registry = x.registry
  <2>1. CASE t = x
    BY <2>1 DEF Recast, Sessions
  <2>2. CASE t = [x EXCEPT !.status = "Listening"]
    <3>1. t \in Sessions
      BY <1>1, <2>2 DEF Sessions
    <3>2. /\ t.status = "Listening" /\ t.sent = x.sent /\ t.nextEpoch = x.nextEpoch
          /\ t.failures = x.failures /\ t.closed = x.closed
          /\ t.queue = x.queue /\ t.view = x.view /\ t.services = x.services /\ t.players = x.players
          /\ t.peers = x.peers /\ t.published = x.published /\ t.materialized = x.materialized
          /\ t.registry = x.registry
      BY <1>1, <2>2 DEF Sessions
    <3>. QED
      BY <3>1, <3>2 DEF Recast
  <2>. QED
    BY <2>1, <2>2
<1>3. \A c \in Clients :
        /\ t.peers[c].phase = s.peers[c].phase /\ t.peers[c].epoch = s.peers[c].epoch
        /\ t.peers[c].remoteMaterializedObjects = s.peers[c].remoteMaterializedObjects
        /\ t.published[c] \subseteq s.published[c] /\ t.materialized[c] \subseteq s.materialized[c]
        /\ s.published[c] \subseteq s.registry => t.published[c] \subseteq t.registry
        /\ s.published[c] \subseteq s.materialized[c] => t.published[c] \subseteq t.materialized[c]
  BY <1>2 DEF Recast
<1>4. Epochs(t)
  BY <1>1, <1>2, <1>3 DEF Epochs
<1>5. ASSUME NEW c \in Clients PROVE PeerGood(t, ks[c], n, c)
  <2>1. /\ PeerOK(s, c) /\ Pair(s, ks[c], n, c) /\ LinkOK(s, ks[c], n, c)
        /\ Closing(s, c) => s.peers[c].phase = "Absent"
    BY <1>1 DEF PeerGood
  <2>2. PeerOK(t, c)
    BY <1>2, <1>3, <2>1 DEF PeerOK, FailingPeers
  <2>3. Inbound(t, n, c) = Inbound(s, n, c)
    BY <1>2 DEF Inbound
  <2>4. Pair(t, ks[c], n, c) /\ LinkOK(t, ks[c], n, c)
    BY <1>3, <2>1, <2>3 DEF Pair, LinkOK
  <2>5. Closing(t, c) <=> Closing(s, c)
    BY <1>2 DEF Closing
  <2>. QED
    BY <1>3, <2>1, <2>2, <2>4, <2>5 DEF PeerGood
<1>. QED
  BY <1>2, <1>4, <1>5 DEF Good, IdleUnlessListening

LEMMA Registers ==
    ASSUME NEW x \in Sessions, NEW rs \in SUBSET Remotes, NEW t, t = RegisterServerObjects(x, rs)
    PROVE  Recast(x, t)
<1>. DEFINE fresh == rs \ x.objects
            unbound == fresh \ x.bound
            refused == unbound \cap x.registry
            failed == x.sessionFailure \/ refused # {}
<1>1. t = [x EXCEPT !.registry = @ \cup unbound, !.bound = @ \cup (unbound \ refused),
                    !.objects = @ \cup (fresh \ refused),
                    !.sessionFailure = failed]
  BY DEF RegisterServerObjects
<1>2. fresh \in SUBSET Remotes /\ unbound \in SUBSET Remotes /\ refused \in SUBSET Remotes
  OBVIOUS
<1>3. failed \in BOOLEAN
  OBVIOUS
<1>. HIDE DEF fresh, unbound, refused, failed
<1>4. /\ t.status = x.status /\ t.sent = x.sent /\ t.nextEpoch = x.nextEpoch
      /\ t.failures = x.failures /\ t.closed = x.closed
      /\ t.queue = x.queue /\ t.view = x.view /\ t.services = x.services /\ t.players = x.players
      /\ t.peers = x.peers /\ t.published = x.published /\ t.materialized = x.materialized
      /\ t.registry = x.registry \cup unbound
  BY <1>1 DEF Sessions
<1>5. t \in Sessions
  <2>. DEFINE reg == x.registry \cup unbound  bnd == x.bound \cup (unbound \ refused)
              obs == x.objects \cup (fresh \ refused)
  <2>1. reg \in SUBSET Remotes /\ bnd \in SUBSET Remotes /\ obs \in SUBSET Remotes
    BY <1>2 DEF Sessions
  <2>. DEFINE y == [x EXCEPT !.registry = reg, !.bound = bnd, !.objects = obs]
  <2>2. t = [y EXCEPT !.sessionFailure = failed]
    BY <1>1 DEF Sessions
  <2>. HIDE DEF reg, bnd, obs
  <2>3. y \in Sessions
    BY <2>1 DEF Sessions
  <2>. HIDE DEF y
  <2>. QED
    BY <1>3, <2>2, <2>3 DEF Sessions
<1>. QED
  BY <1>4, <1>5 DEF Recast

\* A Remote leaves the manager's registry and the peers' tables.
LEMMA Forgets ==
    ASSUME NEW x \in Sessions, NEW r, NEW t, t = UnregisterRemote(x, r)
    PROVE  /\ Recast(x, t) /\ t.peers = x.peers /\ t.objects = x.objects /\ t.bound = x.bound
<1>1. t = [x EXCEPT !.registry = @ \ {r},
                    !.materialized = [c \in Clients |-> @[c] \ {r}],
                    !.published = [c \in Clients |-> @[c] \ {r}]]
  BY DEF UnregisterRemote
<1>2. x.materialized \in PerClient(SUBSET Remotes) /\ x.published \in PerClient(SUBSET Remotes)
      /\ x.registry \in SUBSET Remotes
  BY DEF Sessions
<1>3. /\ t.status = x.status /\ t.sent = x.sent /\ t.nextEpoch = x.nextEpoch
      /\ t.failures = x.failures /\ t.closed = x.closed
      /\ t.queue = x.queue /\ t.view = x.view /\ t.services = x.services /\ t.players = x.players
      /\ t.peers = x.peers /\ t.objects = x.objects /\ t.bound = x.bound
      /\ t.published = [c \in Clients |-> x.published[c] \ {r}]
      /\ t.materialized = [c \in Clients |-> x.materialized[c] \ {r}]
      /\ t.registry = x.registry \ {r}
  BY <1>1 DEF Sessions
<1>4. t.published \in PerClient(SUBSET Remotes) /\ t.materialized \in PerClient(SUBSET Remotes)
      /\ t.registry \in SUBSET Remotes
  BY <1>2, <1>3 DEF PerClient
<1>5. t \in Sessions
  BY <1>1, <1>4 DEF Sessions
<1>. QED
  BY <1>3, <1>5 DEF Recast

LEMMA Unregisters ==
    ASSUME NEW x \in Sessions, NEW r, NEW t, t = UnregisterServerObject(x, r)
    PROVE  Recast(x, t)
<1>. DEFINE erased == [x EXCEPT !.objects = @ \ {r}]
            y == UnregisterRemote(erased, r)
            ps == [c \in Clients |-> [x.peers[c] EXCEPT !.materializedRemotes = @ \ {r}]]
            z == [y EXCEPT !.peers = ps]
<1>1. erased \in Sessions /\ Recast(x, erased)
  BY DEF Sessions, Recast
<1>2. erased.peers = x.peers
  BY DEF Sessions
<1>3. t = x \/ t = [erased EXCEPT !.sessionFailure = TRUE] \/ t = z
  BY Zenon DEF UnregisterServerObject
<1>. HIDE DEF erased
<1>4. CASE t = x
  BY <1>4, RecastStays
<1>5. CASE t = [erased EXCEPT !.sessionFailure = TRUE]
  <2>1. t \in Sessions /\ Recast(erased, t)
    BY <1>1, <1>5 DEF Sessions, Recast
  <2>. QED
    BY <1>1, <2>1, RecastTwice
<1>6. CASE t = z
  <2>1. Recast(erased, y) /\ y.peers = erased.peers
    BY <1>1, Forgets
  <2>2. y \in Sessions
    BY <2>1 DEF Recast
  <2>. HIDE DEF y
  <2>3. x.peers \in PerClient(PeerRecs)
    BY DEF Sessions
  <2>4. \A c \in Clients : x.peers[c] \in PeerRecs
    BY <2>3 DEF PerClient
  <2>5. \A c \in Clients : /\ ps[c] \in PeerRecs
                           /\ ps[c].phase = x.peers[c].phase /\ ps[c].epoch = x.peers[c].epoch
                           /\ ps[c].remoteMaterializedObjects = x.peers[c].remoteMaterializedObjects
    BY <2>4 DEF PeerRecs
  <2>6. ps \in PerClient(PeerRecs)
    BY <2>5 DEF PerClient
  <2>7. t = [y EXCEPT !.peers = ps]
    BY <1>6
  <2>. HIDE DEF ps
  <2>8. t \in Sessions
    BY <2>2, <2>6, <2>7 DEF Sessions
  <2>9. /\ t.status = y.status /\ t.sent = y.sent /\ t.nextEpoch = y.nextEpoch
        /\ t.failures = y.failures /\ t.closed = y.closed
        /\ t.queue = y.queue /\ t.view = y.view /\ t.services = y.services /\ t.players = y.players
        /\ t.peers = ps /\ t.published = y.published /\ t.materialized = y.materialized
        /\ t.registry = y.registry
    BY <2>2, <2>7 DEF Sessions
  <2>10. y.peers = x.peers
    BY <1>2, <2>1
  <2>11. Recast(y, t)
    BY <2>5, <2>8, <2>9, <2>10 DEF Recast
  <2>. QED
    BY <1>1, <2>1, <2>11, RecastTwice
<1>. QED
  BY <1>3, <1>4, <1>5, <1>6

LEMMA Unbinds ==
    ASSUME NEW x \in Sessions, NEW r, NEW t, t = ReleaseBinding(x, r)
    PROVE  Recast(x, t)
<1>. DEFINE y == UnregisterRemote(x, r)
<1>1. Recast(x, y) /\ y \in Sessions
  <2>1. Recast(x, y)
    BY Forgets
  <2>. HIDE DEF y
  <2>. QED
    BY <2>1 DEF Recast
<1>2. t = x \/ t = [y EXCEPT !.bound = @ \ {r}]
  BY DEF ReleaseBinding
<1>. HIDE DEF y
<1>3. CASE t = x
  BY <1>3, RecastStays
<1>4. CASE t = [y EXCEPT !.bound = @ \ {r}]
  <2>1. t \in Sessions /\ Recast(y, t)
    BY <1>1, <1>4 DEF Sessions, Recast
  <2>. QED
    BY <1>1, <2>1, RecastTwice
<1>. QED
  BY <1>2, <1>3, <1>4

-----------------------------------------------------------------------------
(* The server takes an event of a connection.                               *)

\* The first message is taken from a queue with another behind it.
LEMMA PoppedBehind ==
    ASSUME NEW a \in Seq(Messages), a # <<>>, NEW b, b = Tail(a), NEW q \in Seq(Messages),
           NEW o, NEW p, o = a \o q, p = b \o q
    PROVE  /\ p \in Seq(Messages) /\ Popped(p, o) /\ o[1] = a[1]
<1>1. /\ b \in Seq(Messages) /\ Len(a) \in Nat /\ Len(a) > 0 /\ Len(b) = Len(a) - 1
      /\ \A i \in 1 .. Len(b) : b[i] = a[i + 1]
  OBVIOUS
<1>2. /\ o \in Seq(Messages) /\ Len(o) = Len(a) + Len(q) /\ Len(q) \in Nat
      /\ \A i \in 1 .. Len(a) : o[i] = a[i]
      /\ \A i \in 1 .. Len(q) : o[Len(a) + i] = q[i]
  BY ConcatFacts
<1>3. /\ p \in Seq(Messages) /\ Len(p) = Len(b) + Len(q)
      /\ \A i \in 1 .. Len(b) : p[i] = b[i]
      /\ \A i \in 1 .. Len(q) : p[Len(b) + i] = q[i]
  BY <1>1, ConcatFacts
<1>4. o[1] = a[1]
  BY <1>1, <1>2
<1>5. ASSUME NEW i \in 1 .. Len(p) PROVE p[i] = o[i + 1]
  <2>1. i \in Int /\ Len(b) \in Int /\ Len(q) \in Int /\ Len(a) = Len(b) + 1
    BY <1>1, <1>2, <1>3
  <2>2. CASE i <= Len(b)
    <3>1. i \in 1 .. Len(b) /\ i + 1 \in 1 .. Len(a)
      BY <2>1, <2>2
    <3>. QED
      BY <1>1, <1>2, <1>3, <3>1
  <2>3. CASE i > Len(b)
    <3>. DEFINE j == i - Len(b)
    <3>1. j \in 1 .. Len(q) /\ i = Len(b) + j /\ i + 1 = Len(a) + j
      BY <1>3, <2>1, <2>3
    <3>. HIDE DEF j
    <3>. QED
      BY <1>2, <1>3, <3>1
  <2>. QED
    BY <2>1, <2>2, <2>3
<1>6. Popped(p, o)
  BY <1>1, <1>2, <1>3, <1>5 DEF Popped
<1>. QED
  BY <1>3, <1>4, <1>6

\* The next reliable message is taken from a connection.
LEMMA PoppedOutbound ==
    ASSUME NEW n \in Transports, NEW k, k.queue \in Seq(Messages), NEW c \in Clients,
           n.toServer[c] # <<>>, NEW m, m = [n EXCEPT !.toServer[c] = Tail(@)]
    PROVE  /\ m \in Transports /\ m.link = n.link /\ m.toClient = n.toClient
           /\ \A d \in Clients \ {c} : SameNet(n, m, d)
           /\ Outbound(k, m, c) \in Seq(Messages)
           /\ Popped(Outbound(k, m, c), Outbound(k, n, c))
           /\ Outbound(k, n, c)[1] = Head(n.toServer[c])
           /\ Head(n.toServer[c]) \in Messages
<1>. DEFINE a == n.toServer[c]  b == Tail(a)  q == k.queue
<1>1. /\ n.toServer \in PerClient(Seq(Messages)) /\ a \in Seq(Messages)
  BY DEF Transports, PerClient
<1>2. b \in Seq(Messages) /\ Head(a) \in Messages /\ Head(a) = a[1]
  BY <1>1
<1>3. Popped(b, a) /\ Len(a) \in Nat /\ Len(a) > 0 /\ Len(b) = Len(a) - 1
  BY <1>1 DEF Popped
<1>4. /\ m.toServer = [n.toServer EXCEPT ![c] = b] /\ m.link = n.link /\ m.toClient = n.toClient
      /\ m.datagrams = n.datagrams
  BY DEF Transports
<1>5. m.toServer \in PerClient(Seq(Messages)) /\ m.toServer[c] = b
      /\ \A d \in Clients \ {c} : m.toServer[d] = n.toServer[d]
  BY <1>1, <1>2, <1>4 DEF PerClient
<1>6. m \in Transports
  BY <1>5 DEF Transports
<1>7. \A d \in Clients \ {c} : SameNet(n, m, d)
  BY <1>4, <1>5 DEF SameNet
<1>8. CASE n.link[c] = "up"
  <2>. DEFINE o == Outbound(k, n, c)  p == Outbound(k, m, c)
  <2>1. o = a \o q /\ p = b \o q
    BY <1>4, <1>5, <1>8 DEF Outbound
  <2>2. b = Tail(a) /\ q \in Seq(Messages) /\ a # <<>>
    OBVIOUS
  <2>. HIDE DEF a, b, q, o, p
  <2>3. p \in Seq(Messages) /\ Popped(p, o) /\ o[1] = a[1]
    BY <1>1, <2>1, <2>2, PoppedBehind
  <2>. QED
    BY <1>2, <1>4, <1>6, <1>7, <2>3 DEF a, o, p
<1>9. CASE n.link[c] # "up"
  <2>1. Outbound(k, n, c) = a /\ Outbound(k, m, c) = b
    BY <1>4, <1>5, <1>9 DEF Outbound
  <2>. QED
    BY <1>2, <1>3, <1>4, <1>6, <1>7, <2>1
<1>. QED
  BY <1>8, <1>9

\* A connection without a peer does not mind what is taken from it.
LEMMA TakenAbsent ==
    ASSUME NEW u, NEW k, NEW n \in Transports, NEW m, NEW c, PeerGood(u, k, n, c),
           u.peers[c].phase = "Absent", m.link = n.link, m.toClient = n.toClient,
           n.link[c] = "none" => n.toServer[c] # <<>>,
           Outbound(k, m, c) \in Seq(Messages), Popped(Outbound(k, m, c), Outbound(k, n, c))
    PROVE  PeerGood(u, k, m, c)
<1>1. Inbound(u, m, c) = Inbound(u, n, c)
  BY DEF Inbound
<1>2. Pair(u, k, m, c)
  <2>. DEFINE P == u.peers[c].phase  E == u.peers[c].epoch  K == Stage(k)  X == k.epoch
              up == n.link[c] = "up"  i == Inbound(u, n, c)  o == Outbound(k, n, c)
              r == Outbound(k, m, c)
  <2>1. HandshakeOK(P, E, K, X, up, i, o)
    BY DEF PeerGood, Pair
  <2>2. r \in Seq(Messages) /\ Popped(r, o) /\ P = "Absent"
    OBVIOUS
  <2>. HIDE DEF P, E, K, X, up, i, o, r
  <2>3. HandshakeOK(P, E, K, X, up, i, r)
    BY <2>1, <2>2, ServerTakes
  <2>. QED
    BY <1>1, <2>3 DEF Pair, P, E, K, X, up, i, r
<1>3. LinkOK(u, k, m, c)
  BY DEF PeerGood, LinkOK
<1>. QED
  BY <1>2, <1>3 DEF PeerGood

\* The peer, the services, the Player or the session epochs of a connection change.
Enrolls(s, t, c) ==
    /\ t \in Sessions /\ t.status = s.status /\ t.sent = s.sent /\ t.registry = s.registry
    /\ t.failures = s.failures /\ t.closed = s.closed /\ t.queue = s.queue /\ t.view = s.view
    /\ t.materialized = s.materialized /\ t.published = s.published
    /\ \A d \in Clients \ {c} : AgreeAt(s, t, d)

WithPeer(s, c, p) == [s EXCEPT !.peers[c] = p]
WithServices(s, c, S) == [s EXCEPT !.services[c] = S]
WithPlayer(s, c) == [s EXCEPT !.players = @ \cup {c}]
WithEpoch(s, e) == [s EXCEPT !.nextEpoch = e]

LEMMA EnrollsTwice ==
    ASSUME NEW x, NEW y, NEW t, NEW c, Enrolls(x, y, c), Enrolls(y, t, c)
    PROVE  Enrolls(x, t, c)
<1>1. \A d \in Clients \ {c} : AgreeAt(x, t, d)
  BY AgreeTwice DEF Enrolls
<1>. QED
  BY <1>1 DEF Enrolls

LEMMA EnrollsPeer ==
    ASSUME NEW x \in Sessions, NEW c \in Clients, NEW p \in PeerRecs, NEW t, t = WithPeer(x, c, p)
    PROVE  /\ Enrolls(x, t, c) /\ t.peers[c] = p /\ t.services = x.services
           /\ t.players = x.players /\ t.nextEpoch = x.nextEpoch
<1>1. /\ t.status = x.status /\ t.sent = x.sent /\ t.registry = x.registry
      /\ t.failures = x.failures /\ t.closed = x.closed /\ t.queue = x.queue /\ t.view = x.view
      /\ t.materialized = x.materialized /\ t.published = x.published
      /\ t.services = x.services /\ t.players = x.players /\ t.nextEpoch = x.nextEpoch
      /\ t.peers = [x.peers EXCEPT ![c] = p]
  BY DEF WithPeer, Sessions
<1>2. x.peers \in PerClient(PeerRecs)
  BY DEF Sessions
<1>3. t.peers \in PerClient(PeerRecs) /\ t.peers[c] = p /\ \A d \in Clients \ {c} : t.peers[d] = x.peers[d]
  BY <1>1, <1>2 DEF PerClient
<1>4. t \in Sessions
  BY <1>3 DEF WithPeer, Sessions
<1>. QED
  BY <1>1, <1>3, <1>4 DEF Enrolls, AgreeAt, FailingPeers, Closing

LEMMA EnrollsServices ==
    ASSUME NEW x \in Sessions, NEW c \in Clients, NEW S \in SUBSET Services,
           NEW t, t = WithServices(x, c, S)
    PROVE  /\ Enrolls(x, t, c) /\ t.services[c] = S /\ t.peers = x.peers
           /\ t.players = x.players /\ t.nextEpoch = x.nextEpoch
<1>1. /\ t.status = x.status /\ t.sent = x.sent /\ t.registry = x.registry
      /\ t.failures = x.failures /\ t.closed = x.closed /\ t.queue = x.queue /\ t.view = x.view
      /\ t.materialized = x.materialized /\ t.published = x.published
      /\ t.peers = x.peers /\ t.players = x.players /\ t.nextEpoch = x.nextEpoch
      /\ t.services = [x.services EXCEPT ![c] = S]
  BY DEF WithServices, Sessions
<1>2. x.services \in PerClient(SUBSET Services)
  BY DEF Sessions
<1>3. /\ t.services \in PerClient(SUBSET Services) /\ t.services[c] = S
      /\ \A d \in Clients \ {c} : t.services[d] = x.services[d]
  BY <1>1, <1>2 DEF PerClient
<1>4. t \in Sessions
  BY <1>3 DEF WithServices, Sessions
<1>. QED
  BY <1>1, <1>3, <1>4 DEF Enrolls, AgreeAt, FailingPeers, Closing

LEMMA EnrollsPlayer ==
    ASSUME NEW x \in Sessions, NEW c \in Clients, NEW t, t = WithPlayer(x, c)
    PROVE  /\ Enrolls(x, t, c) /\ c \in t.players /\ t.peers = x.peers
           /\ t.services = x.services /\ t.nextEpoch = x.nextEpoch
<1>1. /\ t.status = x.status /\ t.sent = x.sent /\ t.registry = x.registry
      /\ t.failures = x.failures /\ t.closed = x.closed /\ t.queue = x.queue /\ t.view = x.view
      /\ t.materialized = x.materialized /\ t.published = x.published
      /\ t.peers = x.peers /\ t.services = x.services /\ t.nextEpoch = x.nextEpoch
      /\ t.players = x.players \cup {c}
  BY DEF WithPlayer, Sessions
<1>2. t \in Sessions
  BY DEF WithPlayer, Sessions
<1>. QED
  BY <1>1, <1>2 DEF Enrolls, AgreeAt, FailingPeers, Closing

LEMMA EnrollsEpoch ==
    ASSUME NEW x \in Sessions, NEW c, NEW e \in Nat \ {0}, NEW t, t = WithEpoch(x, e)
    PROVE  /\ Enrolls(x, t, c) /\ t.nextEpoch = e /\ t.peers = x.peers
           /\ t.services = x.services /\ t.players = x.players
<1>1. /\ t.status = x.status /\ t.sent = x.sent /\ t.registry = x.registry
      /\ t.failures = x.failures /\ t.closed = x.closed /\ t.queue = x.queue /\ t.view = x.view
      /\ t.materialized = x.materialized /\ t.published = x.published
      /\ t.peers = x.peers /\ t.services = x.services /\ t.players = x.players
      /\ t.nextEpoch = e
  BY DEF WithEpoch, Sessions
<1>2. t \in Sessions
  BY DEF WithEpoch, Sessions
<1>. QED
  BY <1>1, <1>2 DEF Enrolls, AgreeAt, FailingPeers, Closing

\* Event is taken from connection c of transport n, which leaves m.
Taking(k, n, m, c, event) ==
    /\ n \in Transports /\ m \in Transports /\ m.link = n.link /\ m.toClient = n.toClient
    /\ \A d \in Clients \ {c} : SameNet(n, m, d)
    /\ n.toServer[c] # <<>> /\ event \in Messages /\ event = Outbound(k, n, c)[1]
    /\ Outbound(k, m, c) \in Seq(Messages) /\ Popped(Outbound(k, m, c), Outbound(k, n, c))

\* What the server makes of an event: u is good, and its failures are those of s.
Handled(s, u, ks, m) == Good(u, ks, m) /\ u.sent = s.sent /\ u.failures = s.failures

\* The handler drops the peer.
LEMMA DropsTaken ==
    ASSUME NEW s, NEW ks, NEW n, Good(s, ks, n), s.status = "Listening", NEW c \in Clients,
           NEW m, NEW event, Taking(ks[c], n, m, c, event),
           NEW x, Local(s, x, c), x.failures = s.failures, c \in Peers(x) \/ x = s,
           NEW cause \in Causes \ {"protocol"},
           NEW u, u = TearDownPeer(x, c) \/ u = FailPeer(x, c, cause)
    PROVE  Handled(s, u, ks, m)
<1>1. n \in Transports
  BY DEF Taking
<1>2. /\ Local(s, u, c) /\ PeerGood(u, ks[c], n, c)
      /\ u.peers[c].phase = "Absent" /\ u.failures = x.failures
  BY <1>1, Dropped
<1>3. PeerGood(u, ks[c], m, c)
  BY <1>2, TakenAbsent DEF Taking
<1>4. \A d \in Clients \ {c} : SameNet(n, m, d)
  BY DEF Taking
<1>5. Good(u, ks, m)
  BY <1>2, <1>3, <1>4, OnePeer
<1>. QED
  BY <1>2, <1>5 DEF Handled, Local

\* The handler keeps the peer, in phase Q with epoch F.
LEMMA MovesTaken ==
    ASSUME NEW s, NEW ks, NEW n, Good(s, ks, n), s.status = "Listening", s.closed = {},
           NEW c \in Clients, NEW m, NEW event, Taking(ks[c], n, m, c, event),
           NEW u, Local(s, u, c), u.failures = s.failures, u.closed = s.closed,
           u.queue = s.queue, PeerOK(u, c), NEW Q, NEW F, Q = u.peers[c].phase, F = u.peers[c].epoch,
           \/ (s.peers[c].phase = "Absent" /\ Q = "Absent" /\ F = s.peers[c].epoch)
           \/ (event.type = "connected" /\ Q = "TransportConnected" /\ F = 0)
           \/ (event.type = "hello" /\ s.peers[c].phase = "TransportConnected" /\ Q = "BootstrapPending")
           \/ (event.type = "ready" /\ s.peers[c].phase = "Accepted" /\ Q = "Ready" /\ F = s.peers[c].epoch)
           \/ (event.type \in {"app", "datagram"} /\ s.peers[c].phase = "Ready" /\ Q = "Ready"
               /\ F = s.peers[c].epoch)
    PROVE  Handled(s, u, ks, m)
<1>1. PeerGood(s, ks[c], n, c) /\ u.sent = s.sent
  BY DEF Good, Local
<1>2. Pair(u, ks[c], m, c)
  <2>. DEFINE P == s.peers[c].phase  E == s.peers[c].epoch  K == Stage(ks[c])  X == ks[c].epoch
              up == n.link[c] = "up"  i == Inbound(s, n, c)  o == Outbound(ks[c], n, c)
              r == Outbound(ks[c], m, c)
  <2>1. HandshakeOK(P, E, K, X, up, i, o)
    BY <1>1 DEF PeerGood, Pair
  <2>2. r \in Seq(Messages) /\ Popped(r, o)
    BY DEF Taking
  <2>3. \/ (P = "Absent" /\ Q = P /\ F = E)
        \/ (o[1].type = "connected" /\ Q = "TransportConnected" /\ F = 0)
        \/ (o[1].type = "hello" /\ P = "TransportConnected" /\ Q = "BootstrapPending")
        \/ (o[1].type = "ready" /\ P = "Accepted" /\ Q = "Ready" /\ F = E)
        \/ (o[1].type \in {"app", "datagram"} /\ P = "Ready" /\ Q = P /\ F = E)
    BY DEF Taking
  <2>4. Inbound(u, m, c) = i
    BY <1>1 DEF Inbound, Taking
  <2>5. (m.link[c] = "up") = up
    BY DEF Taking
  <2>. HIDE DEF P, E, K, X, up, i, o, r
  <2>6. HandshakeOK(Q, F, K, X, up, i, r)
    BY <2>1, <2>2, <2>3, ServerTakes
  <2>. QED
    BY <2>4, <2>5, <2>6 DEF Pair, K, X, r
<1>3. n.link[c] # "none"
  BY <1>1 DEF PeerGood, LinkOK, Taking
<1>4. LinkOK(u, ks[c], m, c)
  BY <1>1, <1>3 DEF PeerGood, LinkOK, Taking
<1>5. ~Closing(u, c)
  BY DEF Closing
<1>6. PeerGood(u, ks[c], m, c)
  BY <1>2, <1>4, <1>5 DEF PeerGood
<1>7. \A d \in Clients \ {c} : SameNet(n, m, d)
  BY DEF Taking
<1>8. Good(u, ks, m)
  BY <1>6, <1>7, OnePeer
<1>. QED
  BY <1>1, <1>8 DEF Handled

\* What an event says of its peer.
LEMMA EventFacts ==
    ASSUME NEW s, NEW ks, NEW n, Good(s, ks, n), NEW c \in Clients, NEW m, NEW event,
           Taking(ks[c], n, m, c, event), NEW P, P = s.peers[c].phase
    PROVE  /\ event.type \in {"connected", "disconnected", "hello", "ready", "app", "datagram"}
           /\ event.type = "connected" => P = "Absent"
           /\ event.type = "hello" => P \in {"Absent", "TransportConnected"}
           /\ event.type = "ready" /\ P # "Absent" => P = "Accepted" /\ event.epoch = s.peers[c].epoch
           /\ event.type = "app" => P \in {"Absent", "Ready"}
<1>. DEFINE E == s.peers[c].epoch  K == Stage(ks[c])  X == ks[c].epoch
            up == n.link[c] = "up"  i == Inbound(s, n, c)  o == Outbound(ks[c], n, c)
            r == Outbound(ks[c], m, c)
<1>1. HandshakeOK(P, E, K, X, up, i, o)
  BY DEF Good, PeerGood, Pair
<1>2. r \in Seq(Messages) /\ Popped(r, o) /\ event = o[1]
  BY DEF Taking
<1>. HIDE DEF E, K, X, up, i, o, r
<1>3. o \in Seq(Messages) /\ OutboundOK(P, E, K, X, o)
  BY <1>1 DEF HandshakeOK
<1>4. 1 \in DOMAIN o
  BY <1>2, <1>3, PoppedFacts
<1>5. OutboundAt(1, P, E, K, X, o)
  BY <1>3, <1>4 DEF OutboundOK
<1>6. ~Precedes(o, 1, "ready")
  BY <1>3 DEF Precedes
<1>. QED
  BY <1>2, <1>5, <1>6 DEF OutboundAt, E

LEMMA EnrollsLocal ==
    ASSUME NEW s, NEW x, NEW c, Enrolls(s, x, c),
           \/ x.nextEpoch = s.nextEpoch /\ x.peers[c].epoch \in {0, s.peers[c].epoch}
           \/ x.nextEpoch = s.nextEpoch + 1 /\ x.peers[c].epoch \in {0, s.nextEpoch}
    PROVE  Local(s, x, c)
BY DEF Enrolls, Local

LEMMA TakesConnected ==
    ASSUME NEW s, NEW ks, NEW n, Good(s, ks, n), s.status = "Listening", s.closed = {},
           NEW c \in Clients, NEW m, NEW event, Taking(ks[c], n, m, c, event),
           event.type = "connected", NEW u, u = OnServerConnected(s, c)
    PROVE  Handled(s, u, ks, m)
<1>1. s \in Sessions /\ s.peers[c].phase = "Absent" /\ PeerOK(s, c)
  <2>1. s.peers[c].phase = "Absent"
    BY EventFacts
  <2>. QED
    BY <2>1 DEF Good, PeerGood
<1>2. CASE u = FailPeer(s, c, "capacity")
  <2>1. Local(s, s, c) /\ "capacity" \in Causes \ {"protocol"}
    BY <1>1, LocalStays DEF Causes
  <2>. QED
    BY <1>2, <2>1, DropsTaken
<1>. DEFINE p == [NoPeer EXCEPT !.phase = "TransportConnected"]
<1>3. CASE u = [s EXCEPT !.peers[c] = p]
  <2>1. /\ p \in PeerRecs /\ p.phase = "TransportConnected" /\ p.epoch = 0
        /\ p.remoteMaterializedObjects = {}
    BY SessionAssumption DEF NoPeer, PeerRecs, Phases
  <2>. HIDE DEF p
  <2>2. u = WithPeer(s, c, p)
    BY <1>3 DEF WithPeer
  <2>3. /\ Enrolls(s, u, c) /\ u.peers[c] = p /\ u.services = s.services
        /\ u.players = s.players /\ u.nextEpoch = s.nextEpoch
    BY <1>1, <2>1, <2>2, EnrollsPeer
  <2>4. Local(s, u, c)
    BY <2>1, <2>3, EnrollsLocal
  <2>5. ServicesOf("TransportConnected") = {}
    BY DEF ServicesOf
  <2>6. /\ s.services[c] = {} /\ c \notin s.players /\ s.queue[c] = <<>> /\ s.view[c] = {}
        /\ s.materialized[c] = {} /\ s.published[c] = {}
    BY <1>1, AbsentHolds
  <2>7. Sorted(<<>>)
    BY DEF Sorted
  <2>8. PeerOK(u, c)
    BY <2>1, <2>3, <2>5, <2>6, <2>7 DEF PeerOK, Enrolls
  <2>. QED
    BY <2>1, <2>3, <2>4, <2>8, MovesTaken DEF Enrolls
<1>. QED
  BY <1>2, <1>3 DEF OnServerConnected

LEMMA TakesHello ==
    ASSUME NEW s, NEW ks, NEW n, Good(s, ks, n), s.status = "Listening", s.closed = {},
           NEW c \in Clients, NEW m, NEW event, Taking(ks[c], n, m, c, event),
           event.type = "hello", c \in Peers(s), NEW fault, NEW u, u = AcceptServerPeer(s, c, fault)
    PROVE  Handled(s, u, ks, m)
<1>. DEFINE a == s.peers[c]  e == s.nextEpoch
            p == [a EXCEPT !.epoch = e]
            q == [p EXCEPT !.phase = "BootstrapPending"]
            S1 == {"scheduler"}  S2 == {"scheduler", "relevance"}
            S3 == {"scheduler", "relevance", "replication"}
            registered == [s EXCEPT !.services[c] = {"scheduler"}]
            numbered == [registered EXCEPT !.peers[c].epoch = s.nextEpoch, !.nextEpoch = @ + 1]
            owned == [numbered EXCEPT !.players = @ \cup {c}]
            relevant == [owned EXCEPT !.services[c] = @ \cup {"relevance"}]
            replicated == [relevant EXCEPT !.services[c] = @ \cup {"replication"}]
            final == [replicated EXCEPT !.peers[c].phase = "BootstrapPending"]
<1>1. s \in Sessions /\ s.peers[c].phase = "TransportConnected" /\ PeerOK(s, c)
  <2>1. s.peers[c].phase # "Absent"
    BY DEF Peers, Phase
  <2>2. s.peers[c].phase \in {"Absent", "TransportConnected"}
    BY EventFacts
  <2>. QED
    BY <2>1, <2>2 DEF Good, PeerGood
<1>2. s.peers[c] \in PeerRecs /\ s.nextEpoch \in Nat \ {0} /\ s.nextEpoch + 1 \in Nat \ {0}
  BY <1>1 DEF Sessions, PerClient
<1>3. \/ u = FailPeer(s, c, "resource") \/ u = FailPeer(numbered, c, "resource")
      \/ u = FailPeer(owned, c, "resource") \/ u = FailPeer(relevant, c, "resource")
      \/ u = final
  BY <1>1 DEF AcceptServerPeer, Phase
<1>4. /\ p \in PeerRecs /\ p.phase = "TransportConnected" /\ p.epoch = s.nextEpoch
      /\ p.remoteMaterializedObjects = s.peers[c].remoteMaterializedObjects
      /\ q \in PeerRecs /\ q.phase = "BootstrapPending" /\ q.epoch = s.nextEpoch
      /\ q.remoteMaterializedObjects = s.peers[c].remoteMaterializedObjects
  <2>1. a \in PeerRecs /\ e \in Nat /\ a.phase = "TransportConnected"
    BY <1>1, <1>2
  <2>. HIDE DEF a, e
  <2>2. /\ p \in PeerRecs /\ p.phase = "TransportConnected" /\ p.epoch = e
        /\ p.remoteMaterializedObjects = a.remoteMaterializedObjects
    BY <2>1 DEF PeerRecs
  <2>. HIDE DEF p
  <2>3. /\ q \in PeerRecs /\ q.phase = "BootstrapPending" /\ q.epoch = e
        /\ q.remoteMaterializedObjects = a.remoteMaterializedObjects
    BY <2>2 DEF PeerRecs, Phases
  <2>. QED
    BY <2>2, <2>3 DEF a, e
<1>5. S1 \in SUBSET Services /\ S2 \in SUBSET Services /\ S3 \in SUBSET Services
  BY DEF Services
<1>6. /\ Enrolls(s, registered, c) /\ registered.services[c] = S1 /\ registered.peers = s.peers
      /\ registered.players = s.players /\ registered.nextEpoch = s.nextEpoch
  <2>1. registered = WithServices(s, c, S1)
    BY DEF WithServices
  <2>. HIDE DEF registered, S1
  <2>. QED
    BY <1>1, <1>5, <2>1, EnrollsServices
<1>7. registered \in Sessions
  BY <1>6 DEF Enrolls
<1>8. /\ Enrolls(s, numbered, c) /\ numbered.services[c] = S1 /\ numbered.peers[c] = p
      /\ numbered.players = s.players /\ numbered.nextEpoch = s.nextEpoch + 1
  <2>. DEFINE y == WithPeer(registered, c, p)
  <2>. HIDE DEF registered
  <2>1. numbered = WithEpoch(y, s.nextEpoch + 1)
    BY <1>6, <1>7 DEF WithEpoch, WithPeer, Sessions
  <2>. HIDE DEF p, numbered, S1
  <2>2. /\ Enrolls(registered, y, c) /\ y.peers[c] = p /\ y.services = registered.services
        /\ y.players = registered.players
    BY <1>4, <1>7, EnrollsPeer
  <2>. HIDE DEF y
  <2>3. y \in Sessions
    BY <2>2 DEF Enrolls
  <2>4. /\ Enrolls(y, numbered, c) /\ numbered.nextEpoch = s.nextEpoch + 1 /\ numbered.peers = y.peers
        /\ numbered.services = y.services /\ numbered.players = y.players
    BY <1>2, <2>1, <2>3, EnrollsEpoch
  <2>5. Enrolls(s, numbered, c)
    BY <1>6, <2>2, <2>4, EnrollsTwice
  <2>. QED
    BY <1>6, <2>2, <2>4, <2>5
<1>. HIDE DEF registered
<1>9. numbered \in Sessions
  BY <1>8 DEF Enrolls
<1>10. /\ Enrolls(s, owned, c) /\ owned.services[c] = S1 /\ owned.peers[c] = p
       /\ c \in owned.players /\ owned.nextEpoch = s.nextEpoch + 1
  <2>. HIDE DEF numbered
  <2>1. owned = WithPlayer(numbered, c)
    BY DEF WithPlayer
  <2>. HIDE DEF owned, p, S1
  <2>2. /\ Enrolls(numbered, owned, c) /\ c \in owned.players /\ owned.peers = numbered.peers
        /\ owned.services = numbered.services /\ owned.nextEpoch = numbered.nextEpoch
    BY <1>9, <2>1, EnrollsPlayer
  <2>3. Enrolls(s, owned, c)
    BY <1>8, <2>2, EnrollsTwice
  <2>. QED
    BY <1>8, <2>2, <2>3
<1>. HIDE DEF numbered
<1>11. owned \in Sessions
  BY <1>10 DEF Enrolls
<1>12. /\ Enrolls(s, relevant, c) /\ relevant.services[c] = S2 /\ relevant.peers[c] = p
       /\ c \in relevant.players /\ relevant.nextEpoch = s.nextEpoch + 1
  <2>. HIDE DEF owned
  <2>1. relevant = WithServices(owned, c, S2)
    <3>1. owned.services[c] \cup {"relevance"} = S2
      BY <1>10
    <3>. HIDE DEF S2
    <3>. QED
      BY <1>11, <3>1 DEF WithServices, Sessions
  <2>. HIDE DEF relevant, p, S2
  <2>2. /\ Enrolls(owned, relevant, c) /\ relevant.services[c] = S2 /\ relevant.peers = owned.peers
        /\ relevant.players = owned.players /\ relevant.nextEpoch = owned.nextEpoch
    BY <1>5, <1>11, <2>1, EnrollsServices
  <2>3. Enrolls(s, relevant, c)
    BY <1>10, <2>2, EnrollsTwice
  <2>. QED
    BY <1>10, <2>2, <2>3
<1>. HIDE DEF owned
<1>13. relevant \in Sessions
  BY <1>12 DEF Enrolls
<1>14. /\ Enrolls(s, replicated, c) /\ replicated.services[c] = S3 /\ replicated.peers[c] = p
       /\ c \in replicated.players /\ replicated.nextEpoch = s.nextEpoch + 1
  <2>. HIDE DEF relevant
  <2>1. replicated = WithServices(relevant, c, S3)
    <3>1. relevant.services[c] \cup {"replication"} = S3
      BY <1>12
    <3>. HIDE DEF S3
    <3>. QED
      BY <1>13, <3>1 DEF WithServices, Sessions
  <2>. HIDE DEF replicated, p, S3
  <2>2. /\ Enrolls(relevant, replicated, c) /\ replicated.services[c] = S3 /\ replicated.peers = relevant.peers
        /\ replicated.players = relevant.players /\ replicated.nextEpoch = relevant.nextEpoch
    BY <1>5, <1>13, <2>1, EnrollsServices
  <2>3. Enrolls(s, replicated, c)
    BY <1>12, <2>2, EnrollsTwice
  <2>. QED
    BY <1>12, <2>2, <2>3
<1>. HIDE DEF relevant
<1>15. replicated \in Sessions
  BY <1>14 DEF Enrolls
<1>16. /\ Enrolls(s, final, c) /\ final.services[c] = S3 /\ final.peers[c] = q
       /\ c \in final.players /\ final.nextEpoch = s.nextEpoch + 1
  <2>. HIDE DEF replicated
  <2>1. final = WithPeer(replicated, c, q)
    BY <1>14, <1>15 DEF WithPeer, Sessions
  <2>. HIDE DEF final, q, p, S3
  <2>2. /\ Enrolls(replicated, final, c) /\ final.peers[c] = q /\ final.services = replicated.services
        /\ final.players = replicated.players /\ final.nextEpoch = replicated.nextEpoch
    BY <1>4, <1>15, <2>1, EnrollsPeer
  <2>3. Enrolls(s, final, c)
    BY <1>14, <2>2, EnrollsTwice
  <2>. QED
    BY <1>14, <2>2, <2>3
<1>. HIDE DEF replicated, final, p, q, S1, S2
<1>17. "resource" \in Causes \ {"protocol"} /\ Local(s, s, c)
  BY <1>1, LocalStays DEF Causes
<1>18. /\ Local(s, numbered, c) /\ Local(s, owned, c) /\ Local(s, relevant, c) /\ Local(s, final, c)
       /\ numbered.failures = s.failures /\ owned.failures = s.failures
       /\ relevant.failures = s.failures
  BY <1>4, <1>8, <1>10, <1>12, <1>16, EnrollsLocal DEF Enrolls
<1>19. c \in Peers(numbered) /\ c \in Peers(owned) /\ c \in Peers(relevant)
  BY <1>4, <1>8, <1>10, <1>12 DEF Peers, Phase
<1>20. CASE u = final
  <2>1. ServicesOf("BootstrapPending") = S3
    BY DEF ServicesOf
  <2>2. s.queue[c] = <<>> /\ s.view[c] = {} /\ s.materialized[c] = {} /\ s.published[c] = {}
    BY <1>1 DEF PeerOK
  <2>3. PeerOK(u, c)
    <3>1. /\ u.queue[c] = <<>> /\ u.view[c] = {} /\ u.materialized[c] = {} /\ u.published[c] = {}
          /\ u.peers[c].phase = "BootstrapPending" /\ u.services[c] = S3 /\ c \in u.players
      BY <1>4, <1>16, <1>20, <2>2 DEF Enrolls
    <3>. QED
      BY <2>1, <3>1 DEF PeerOK, Sorted
  <2>. QED
    <3>1. /\ Local(s, u, c) /\ u.failures = s.failures /\ u.closed = s.closed /\ u.queue = s.queue
          /\ u.peers[c].phase = "BootstrapPending"
      BY <1>4, <1>16, <1>18, <1>20 DEF Enrolls
    <3>. QED
      BY <1>1, <2>3, <3>1, MovesTaken
<1>21. CASE u = FailPeer(s, c, "resource")
  BY <1>17, <1>21, DropsTaken
<1>22. CASE u = FailPeer(numbered, c, "resource")
  BY <1>17, <1>18, <1>19, <1>22, DropsTaken
<1>23. CASE u = FailPeer(owned, c, "resource")
  BY <1>17, <1>18, <1>19, <1>23, DropsTaken
<1>24. CASE u = FailPeer(relevant, c, "resource")
  BY <1>17, <1>18, <1>19, <1>24, DropsTaken
<1>. QED
  BY <1>3, <1>20, <1>21, <1>22, <1>23, <1>24

LEMMA TakesReady ==
    ASSUME NEW s, NEW ks, NEW n, Good(s, ks, n), s.status = "Listening", s.closed = {},
           NEW c \in Clients, NEW m, NEW event, Taking(ks[c], n, m, c, event),
           event.type = "ready", c \in Peers(s), NEW fault,
           NEW u, u = ReadyServerPeer(s, c, event.epoch, fault)
    PROVE  Handled(s, u, ks, m)
<1>. DEFINE a == s.peers[c]  vs == s.view[c]
            p == [a EXCEPT !.phase = "Ready", !.remoteMaterializedObjects = vs]
            S1 == s.services[c] \cup {"remotes"}
            S2 == Services
            remoted == [s EXCEPT !.services[c] = @ \cup {"remotes"}]
            all == [remoted EXCEPT !.services[c] = @ \cup {"authority"}]
            final == [all EXCEPT !.peers[c].phase = "Ready",
                                 !.peers[c].remoteMaterializedObjects = s.view[c],
                                 !.materialized[c] = s.view[c]]
<1>1. s \in Sessions /\ a.phase = "Accepted" /\ event.epoch = a.epoch /\ PeerOK(s, c)
  <2>1. s.peers[c].phase # "Absent"
    BY DEF Peers, Phase
  <2>2. s.peers[c].phase = "Accepted" /\ event.epoch = s.peers[c].epoch
    BY <2>1, EventFacts
  <2>. QED
    BY <2>2 DEF Good, PeerGood
<1>2. a \in PeerRecs /\ vs \in SUBSET Remotes /\ s.services[c] = {"scheduler", "relevance", "replication"}
  BY <1>1 DEF Sessions, PerClient, PeerOK, ServicesOf
<1>3. u = FailPeer(s, c, "resource") \/ u = FailPeer(remoted, c, "resource") \/ u = final
  BY <1>1 DEF ReadyServerPeer, Phase
<1>4. p \in PeerRecs /\ p.phase = "Ready" /\ p.epoch = a.epoch /\ p.remoteMaterializedObjects = vs
  <2>. HIDE DEF a, vs
  <2>. QED
    BY <1>2 DEF PeerRecs, Phases
<1>5. S1 \in SUBSET Services /\ S2 \in SUBSET Services /\ S1 \cup {"authority"} = S2
  BY <1>2 DEF Services
<1>6. /\ Enrolls(s, remoted, c) /\ remoted.services[c] = S1 /\ remoted.peers = s.peers
      /\ remoted.players = s.players /\ remoted.nextEpoch = s.nextEpoch
  <2>1. remoted = WithServices(s, c, S1)
    BY DEF WithServices
  <2>. HIDE DEF remoted, S1
  <2>. QED
    BY <1>1, <1>5, <2>1, EnrollsServices
<1>7. remoted \in Sessions
  BY <1>6 DEF Enrolls
<1>. HIDE DEF S1, S2
<1>8. /\ Enrolls(s, all, c) /\ all.services[c] = S2 /\ all.peers = s.peers
      /\ all.players = s.players /\ all.nextEpoch = s.nextEpoch
  <2>. HIDE DEF remoted
  <2>1. all = WithServices(remoted, c, S2)
    <3>1. remoted.services[c] \cup {"authority"} = S2
      BY <1>5, <1>6
    <3>. QED
      BY <1>7, <3>1 DEF WithServices, Sessions
  <2>. HIDE DEF all
  <2>2. /\ Enrolls(remoted, all, c) /\ all.services[c] = S2 /\ all.peers = remoted.peers
        /\ all.players = remoted.players /\ all.nextEpoch = remoted.nextEpoch
    BY <1>5, <1>7, <2>1, EnrollsServices
  <2>3. Enrolls(s, all, c)
    BY <1>6, <2>2, EnrollsTwice
  <2>. QED
    BY <1>6, <2>2, <2>3
<1>. HIDE DEF remoted
<1>9. all \in Sessions
  BY <1>8 DEF Enrolls
<1>. DEFINE x == WithPeer(all, c, p)
<1>10. final = Tabled(x, c, vs, {})
  <2>1. all.published[c] = {} /\ all.published \in PerClient(SUBSET Remotes) /\ all.peers[c] = a
    BY <1>1, <1>8, <1>9 DEF Enrolls, PeerOK, Sessions
  <2>. HIDE DEF all
  <2>2. [all.published EXCEPT ![c] = {}] = all.published
    BY <2>1 DEF PerClient
  <2>3. x.published = all.published
    BY <1>9 DEF WithPeer, Sessions
  <2>. DEFINE o == all.peers
              o1 == [o EXCEPT ![c].phase = "Ready"]
              o2 == [o1 EXCEPT ![c].remoteMaterializedObjects = vs]
              ms == [all.materialized EXCEPT ![c] = vs]
  <2>4. final = [all EXCEPT !.peers = o2, !.materialized = ms]
    <3>. DEFINE e1 == [all EXCEPT !.peers[c].phase = "Ready"]
                e2 == [e1 EXCEPT !.peers[c].remoteMaterializedObjects = vs]
                e3 == [e2 EXCEPT !.materialized[c] = vs]
    <3>1. final = e3
      OBVIOUS
    <3>2. e1 = [all EXCEPT !.peers = o1]
      BY <1>9 DEF Sessions
    <3>. HIDE DEF e1, o1, vs
    <3>3. e2 = [all EXCEPT !.peers = o2]
      BY <1>9, <3>2 DEF Sessions
    <3>4. e2.materialized = all.materialized
      BY <1>9, <3>3 DEF Sessions
    <3>. HIDE DEF e2, o2, final
    <3>5. e3 = [e2 EXCEPT !.materialized = ms]
      BY <1>9, <3>3, <3>4 DEF Sessions
    <3>. HIDE DEF e3, ms
    <3>. QED
      BY <1>9, <3>1, <3>3, <3>5 DEF Sessions
  <2>5. o \in PerClient(PeerRecs)
    BY <1>9 DEF Sessions
  <2>6. o2 = [o EXCEPT ![c] = p]
    <3>. HIDE DEF o, a, vs
    <3>1. o[c] = a
      BY <2>1 DEF o
    <3>. QED
      BY <1>2, <2>5, <3>1 DEF PerClient, PeerRecs
  <2>7. x = [all EXCEPT !.peers = o2]
    BY <1>9, <2>6 DEF WithPeer, Sessions
  <2>8. x.materialized = all.materialized
    BY <1>9 DEF WithPeer, Sessions
  <2>9. final = [x EXCEPT !.materialized = ms]
    <3>. HIDE DEF o2, ms
    <3>. QED
      BY <1>9, <2>4, <2>7 DEF Sessions
  <2>10. x \in Sessions
    BY <1>4, <1>9, EnrollsPeer DEF Enrolls
  <2>. HIDE DEF final, p, a, vs, x, o2
  <2>11. [x.published EXCEPT ![c] = {}] = x.published
    BY <2>2, <2>3
  <2>12. Tabled(x, c, vs, {}) = [x EXCEPT !.materialized = ms, !.published = x.published]
    BY <2>8, <2>10, <2>11 DEF Tabled, Sessions
  <2>. HIDE DEF ms
  <2>. QED
    BY <2>9, <2>10, <2>12 DEF Sessions
<1>. HIDE DEF all, final, p
<1>11. /\ Enrolls(s, x, c) /\ x.peers[c] = p /\ x.services[c] = S2 /\ x.players = s.players
       /\ x.nextEpoch = s.nextEpoch /\ x \in Sessions
  <2>1. /\ Enrolls(all, x, c) /\ x.peers[c] = p /\ x.services = all.services
        /\ x.players = all.players /\ x.nextEpoch = all.nextEpoch
    BY <1>4, <1>9, EnrollsPeer
  <2>. HIDE DEF x
  <2>2. Enrolls(s, x, c)
    BY <1>8, <2>1, EnrollsTwice
  <2>. QED
    BY <1>8, <2>1, <2>2 DEF Enrolls
<1>. HIDE DEF x
<1>12. /\ Rematerialized(x, final, c) /\ final.failures = x.failures /\ final.peers = x.peers
       /\ final.materialized[c] = vs /\ final.published[c] = {}
  <2>1. {} \in SUBSET Remotes
    OBVIOUS
  <2>. QED
    BY <1>2, <1>10, <1>11, <2>1, Remade
<1>13. "resource" \in Causes \ {"protocol"} /\ Local(s, s, c)
  BY <1>1, LocalStays DEF Causes
<1>14. CASE u = final
  <2>1. \A d \in Clients \ {c} : AgreeAt(s, final, d)
    BY <1>11, <1>12, AgreeTwice DEF Enrolls, Rematerialized
  <2>2. final.peers[c].epoch = a.epoch
    BY <1>4, <1>11, <1>12
  <2>3. Local(s, final, c)
    BY <1>11, <1>12, <2>1, <2>2 DEF Local, Enrolls, Rematerialized
  <2>4. /\ u.failures = s.failures /\ u.closed = s.closed /\ u.queue = s.queue
        /\ u.peers[c].phase = "Ready" /\ u.peers[c].remoteMaterializedObjects = u.view[c]
        /\ u.services[c] = S2 /\ u.players = s.players /\ u.materialized[c] = vs /\ u.published[c] = {}
    BY <1>4, <1>11, <1>12, <1>14 DEF Enrolls, Rematerialized
  <2>5. c \in s.players /\ Sorted(s.queue[c])
    BY <1>1 DEF PeerOK
  <2>6. PeerOK(u, c)
    <3>1. ServicesOf("Ready") = S2
      BY DEF ServicesOf, S2
    <3>. QED
      BY <2>4, <2>5, <3>1 DEF PeerOK
  <2>. QED
    BY <1>1, <1>14, <2>2, <2>3, <2>4, <2>6, MovesTaken
<1>15. CASE u = FailPeer(s, c, "resource")
  BY <1>13, <1>15, DropsTaken
<1>16. CASE u = FailPeer(remoted, c, "resource")
  <2>1. Local(s, remoted, c) /\ remoted.failures = s.failures
    BY <1>6, EnrollsLocal DEF Enrolls
  <2>2. c \in Peers(remoted)
    BY <1>1, <1>6 DEF Peers, Phase
  <2>. QED
    BY <1>13, <1>16, <2>1, <2>2, DropsTaken
<1>. QED
  BY <1>3, <1>14, <1>15, <1>16

\* The event changes nothing but the phase it finds the peer in.
LEMMA TakesTraffic ==
    ASSUME NEW s, NEW ks, NEW n, Good(s, ks, n), s.status = "Listening", s.closed = {},
           NEW c \in Clients, NEW m, NEW event, Taking(ks[c], n, m, c, event),
           s.peers[c].phase = "Absent" \/ (event.type \in {"app", "datagram"} /\ s.peers[c].phase = "Ready")
    PROVE  Handled(s, s, ks, m)
<1>1. s \in Sessions /\ PeerOK(s, c)
  BY DEF Good, PeerGood
<1>2. Local(s, s, c)
  BY <1>1, LocalStays
<1>. QED
  BY <1>1, <1>2, MovesTaken

LEMMA TakesEvent ==
    ASSUME NEW s, NEW ks, NEW n, Good(s, ks, n), s.status = "Listening", s.closed = {},
           NEW c \in Clients, NEW m, NEW event, Taking(ks[c], n, m, c, event),
           NEW fault, NEW u, u = ServerEvent(s, c, event, fault)
    PROVE  Handled(s, u, ks, m)
<1>1. /\ event.type \in {"connected", "disconnected", "hello", "ready", "app"} \/ event.type = "datagram"
      /\ event.type = "app" => s.peers[c].phase \in {"Absent", "Ready"}
  BY EventFacts
<1>2. c \in Peers(s) <=> s.peers[c].phase # "Absent"
  BY DEF Peers, Phase
<1>3. s \in Sessions /\ Local(s, s, c)
  BY LocalStays DEF Good
<1>4. CASE event.type = "connected"
  <2>1. u = OnServerConnected(s, c)
    BY <1>4 DEF ServerEvent
  <2>. QED
    BY <1>4, <2>1, TakesConnected
<1>5. CASE event.type = "disconnected"
  <2>1. u = TearDownPeer(s, c) /\ "shutdown" \in Causes \ {"protocol"}
    BY <1>5 DEF ServerEvent, Causes
  <2>. QED
    BY <1>3, <2>1, DropsTaken
<1>6. CASE event.type \notin {"connected", "disconnected"} /\ c \notin Peers(s)
  <2>1. u = s
    BY <1>6 DEF ServerEvent
  <2>. QED
    BY <1>2, <1>6, <2>1, TakesTraffic
<1>7. CASE event.type = "hello" /\ c \in Peers(s)
  <2>1. u = AcceptServerPeer(s, c, fault)
    BY <1>7 DEF ServerEvent
  <2>. QED
    BY <1>7, <2>1, TakesHello
<1>8. CASE event.type = "ready" /\ c \in Peers(s)
  <2>1. u = ReadyServerPeer(s, c, event.epoch, fault)
    BY <1>8 DEF ServerEvent
  <2>. QED
    BY <1>8, <2>1, TakesReady
<1>9. CASE event.type = "app" /\ c \in Peers(s)
  <2>1. u = s
    BY <1>1, <1>2, <1>9 DEF ServerEvent, GameplayReceived, Phase
  <2>. QED
    BY <1>1, <1>9, <2>1, TakesTraffic
<1>10. CASE event.type = "datagram" /\ c \in Peers(s)
  <2>1. u = GameplayReceived(s, c, "early datagram")
    BY <1>10 DEF ServerEvent
  <2>2. CASE s.peers[c].phase = "Ready"
    <3>1. u = s
      BY <2>1, <2>2 DEF GameplayReceived, Phase
    <3>. QED
      BY <1>10, <2>2, <3>1, TakesTraffic
  <2>3. CASE s.peers[c].phase # "Ready"
    <3>1. u = FailPeer(s, c, "early datagram") /\ "early datagram" \in Causes \ {"protocol"}
      BY <2>1, <2>3 DEF GameplayReceived, Phase, Causes
    <3>. QED
      BY <1>3, <3>1, DropsTaken
  <2>. QED
    BY <2>2, <2>3
<1>. QED
  BY <1>1, <1>4, <1>5, <1>6, <1>7, <1>8, <1>9, <1>10

-----------------------------------------------------------------------------
(* What a handler sent and closed reaches the transport.                    *)

Sending(t, n) ==
    [n EXCEPT !.toClient = [c \in Clients |-> IF n.link[c] = "up" THEN @[c] \o t.sent[c] ELSE @[c]]]

\* What a connection has been handed when the handler returns.
Handed(t, n, c) == IF n.link[c] = "up" THEN n.toClient[c] \o t.sent[c] ELSE n.toClient[c]

\* Transport m is n with what t has sent, after the connections of S are closed.
Delivers(t, n, m, S, keep) ==
    /\ m \in Transports
    /\ \A c \in Clients :
        /\ m.link[c] = IF c \in S THEN "down" ELSE n.link[c]
        /\ m.toServer[c] = IF c \in S THEN <<>> ELSE n.toServer[c]
        /\ m.toClient[c] = IF c \notin S THEN Handed(t, n, c)
                           ELSE (IF keep THEN Handed(t, n, c) ELSE <<>>) \o <<Disconnected>>

LEMMA Delivered ==
    ASSUME NEW t \in Sessions, NEW n \in Transports, NEW S, NEW keep \in BOOLEAN,
           NEW m, m = ClosedByServer(Sending(t, n), S, keep)
    PROVE  Delivers(t, n, m, S, keep)
<1>. DEFINE x == Sending(t, n)
            links == [c \in Clients |-> IF c \in S THEN "down" ELSE n.link[c]]
            servers == [c \in Clients |-> IF c \in S THEN <<>> ELSE n.toServer[c]]
            grams == [c \in Clients |-> IF c \in S THEN 0 ELSE n.datagrams[c]]
            back == [c \in Clients |-> Handed(t, n, c)]
            clients == [c \in Clients |-> IF c \notin S THEN back[c]
                            ELSE (IF keep THEN back[c] ELSE <<>>) \o <<Disconnected>>]
<1>1. \A c \in Clients : /\ n.link[c] \in {"none", "up", "down"} /\ n.toServer[c] \in Seq(Messages)
                         /\ n.toClient[c] \in Seq(Messages) /\ t.sent[c] \in Seq(Messages)
                         /\ n.datagrams[c] \in Int
  BY DEF Transports, Sessions, PerClient
<1>2. \A c \in Clients : back[c] \in Seq(Messages)
  BY <1>1 DEF Handed
<1>3. /\ x.toClient = back /\ x.link = n.link /\ x.toServer = n.toServer /\ x.datagrams = n.datagrams
      /\ x \in Transports
  <2>1. /\ x.toClient = back /\ x.link = n.link /\ x.toServer = n.toServer
        /\ x.datagrams = n.datagrams
    BY DEF Sending, Transports, Handed
  <2>2. back \in PerClient(Seq(Messages))
    <3>1. back \in [Clients -> Seq(Messages)]
      <4>. SUFFICES \A c \in Clients : Handed(t, n, c) \in Seq(Messages)
        OBVIOUS
      <4>. QED
        BY <1>2
    <3>. QED
      BY <3>1 DEF PerClient
  <2>3. x = [n EXCEPT !.toClient = back]
    BY DEF Sending, Handed
  <2>. HIDE DEF x, back
  <2>. QED
    BY <2>1, <2>2, <2>3 DEF Transports
<1>. HIDE DEF x, back
<1>4. m = [x EXCEPT !.link = links, !.toServer = servers, !.datagrams = grams, !.toClient = clients]
  <2>. DEFINE lx == [c \in Clients |-> IF c \in S THEN "down" ELSE x.link[c]]
              sx == [c \in Clients |-> IF c \in S THEN <<>> ELSE x.toServer[c]]
              gx == [c \in Clients |-> IF c \in S THEN 0 ELSE x.datagrams[c]]
              cx == [c \in Clients |-> IF c \notin S THEN x.toClient[c]
                        ELSE (IF keep THEN x.toClient[c] ELSE <<>>) \o <<Disconnected>>]
  <2>1. lx = links /\ sx = servers /\ gx = grams /\ cx = clients
    BY <1>3
  <2>2. ClosedByServer(x, S, keep) =
          [x EXCEPT !.link = lx, !.toServer = sx, !.datagrams = gx, !.toClient = cx]
    BY DEF ClosedByServer
  <2>. HIDE DEF lx, sx, gx, cx, links, servers, grams, clients
  <2>. QED
    BY <2>1, <2>2 DEF x
<1>5. /\ links \in PerClient({"none", "up", "down"}) /\ servers \in PerClient(Seq(Messages))
      /\ grams \in PerClient(Int)
  <2>1. <<>> \in Seq(Messages)
    OBVIOUS
  <2>. QED
    BY <1>1, <2>1 DEF PerClient
<1>6. clients \in PerClient(Seq(Messages))
  <2>. SUFFICES ASSUME NEW c \in Clients
                PROVE  (IF c \notin S THEN back[c] ELSE (IF keep THEN back[c] ELSE <<>>) \o <<Disconnected>>)
                          \in Seq(Messages)
    BY DEF PerClient
  <2>. DEFINE b == back[c]
  <2>1. b \in Seq(Messages) /\ <<>> \in Seq(Messages) /\ <<Disconnected>> \in Seq(Messages)
    <3>1. Disconnected \in Messages
      BY DEF Disconnected, Messages, Signals
    <3>. QED
      BY <1>2, <3>1
  <2>. HIDE DEF b
  <2>2. b \o <<Disconnected>> \in Seq(Messages) /\ <<>> \o <<Disconnected>> \in Seq(Messages)
    BY <2>1
  <2>. QED
    BY <2>1, <2>2 DEF b
<1>7. /\ m.link = links /\ m.toServer = servers /\ m.datagrams = grams /\ m.toClient = clients
      /\ m \in Transports
  <2>. HIDE DEF links, servers, grams, clients
  <2>. QED
    BY <1>3, <1>4, <1>5, <1>6 DEF Transports
<1>. QED
  BY <1>7 DEF Delivers, back

Rested(t) == [t EXCEPT !.closed = {}, !.sent = [c \in Clients |-> <<>>]]

LEMMA RestedFacts ==
    ASSUME NEW t \in Sessions, NEW u, u = Rested(t)
    PROVE  /\ u \in Sessions /\ u.closed = {} /\ u.sent = [c \in Clients |-> <<>>]
           /\ u.status = t.status /\ u.peers = t.peers /\ u.services = t.services
           /\ u.players = t.players /\ u.queue = t.queue /\ u.view = t.view /\ u.registry = t.registry
           /\ u.materialized = t.materialized /\ u.published = t.published
           /\ u.failures = t.failures /\ u.nextEpoch = t.nextEpoch
<1>. DEFINE none == [c \in Clients |-> <<>>]
<1>1. none \in PerClient(Seq(Messages))
  <2>1. <<>> \in Seq(Messages)
    OBVIOUS
  <2>. QED
    BY <2>1 DEF PerClient
<1>2. u = [t EXCEPT !.closed = {}, !.sent = none]
  BY DEF Rested
<1>. HIDE DEF none
<1>3. /\ u.closed = {} /\ u.sent = none
      /\ u.status = t.status /\ u.peers = t.peers /\ u.services = t.services
      /\ u.players = t.players /\ u.queue = t.queue /\ u.view = t.view /\ u.registry = t.registry
      /\ u.materialized = t.materialized /\ u.published = t.published
      /\ u.failures = t.failures /\ u.nextEpoch = t.nextEpoch
  BY <1>2 DEF Sessions
<1>4. {} \in SUBSET Blames
  OBVIOUS
<1>5. u \in Sessions
  BY <1>1, <1>2, <1>4 DEF Sessions
<1>. QED
  BY <1>3, <1>5 DEF none

LEMMA ActsOn ==
    ASSUME NEW t \in Sessions, NEW n \in Transports, NEW k \in ClientRecs, NEW c \in Clients,
           PeerGood(t, k, n, c), NEW S, c \in S => n.link[c] = "up" /\ Closing(t, c),
           NEW keep \in BOOLEAN, NEW m, Delivers(t, n, m, S, keep), NEW u, u = Rested(t)
    PROVE  PeerGood(u, k, m, c)
<1>1. /\ PeerOK(t, c) /\ Pair(t, k, n, c) /\ LinkOK(t, k, n, c)
      /\ Closing(t, c) => t.peers[c].phase = "Absent"
  BY DEF PeerGood
<1>2. /\ u \in Sessions /\ u.closed = {} /\ u.sent = [d \in Clients |-> <<>>]
      /\ u.status = t.status /\ u.peers = t.peers /\ u.services = t.services
      /\ u.players = t.players /\ u.queue = t.queue /\ u.view = t.view /\ u.registry = t.registry
      /\ u.materialized = t.materialized /\ u.published = t.published
      /\ u.failures = t.failures /\ u.nextEpoch = t.nextEpoch
  BY RestedFacts
<1>3. PeerOK(u, c)
  BY <1>1, <1>2 DEF PeerOK, FailingPeers
<1>4. /\ n.toClient[c] \in Seq(Messages) /\ n.toServer[c] \in Seq(Messages) /\ t.sent[c] \in Seq(Messages)
      /\ t.queue[c] \in Seq(Messages) /\ k.queue \in Seq(Messages)
  BY DEF Transports, Sessions, PerClient, ClientRecs
<1>5. /\ m.link[c] = IF c \in S THEN "down" ELSE n.link[c]
      /\ m.toServer[c] = IF c \in S THEN <<>> ELSE n.toServer[c]
      /\ m.toClient[c] = IF c \notin S THEN Handed(t, n, c)
                         ELSE (IF keep THEN Handed(t, n, c) ELSE <<>>) \o <<Disconnected>>
  BY DEF Delivers
<1>. DEFINE a == n.toClient[c] \o t.sent[c]  b == t.queue[c]
            i == Inbound(t, n, c)  o == Outbound(k, n, c)
            j == Inbound(u, m, c)  r == Outbound(k, m, c)
            P == t.peers[c].phase  E == t.peers[c].epoch  K == Stage(k)  X == k.epoch
            up == n.link[c] = "up"
<1>6. a \in Seq(Messages) /\ b \in Seq(Messages)
  BY <1>4
<1>7. HandshakeOK(P, E, K, X, up, i, o)
  BY <1>1 DEF Pair
<1>8. ASSUME c \notin S, n.link[c] = "up" PROVE Pair(u, k, m, c)
  <2>1. j = (a \o <<>>) \o b /\ i = a \o b
    BY <1>2, <1>5, <1>8 DEF Inbound, Handed
  <2>2. r = o /\ (m.link[c] = "up") = up
    BY <1>5, <1>8 DEF Outbound
  <2>3. j = i
    <3>. HIDE DEF a, b, i, j
    <3>1. a \o <<>> = a
      BY <1>6
    <3>. QED
      BY <2>1, <3>1
  <2>. QED
    BY <1>2, <1>7, <2>2, <2>3 DEF Pair
<1>9. ASSUME c \notin S, n.link[c] # "up" PROVE Pair(u, k, m, c)
  <2>1. j = i /\ r = o /\ (m.link[c] = "up") = up
    BY <1>5, <1>9 DEF Inbound, Outbound, Handed
  <2>. QED
    BY <1>2, <1>7, <2>1 DEF Pair
<1>10. ASSUME c \in S PROVE Pair(u, k, m, c)
  <2>1. P = "Absent" /\ n.link[c] = "up" /\ up
    BY <1>1, <1>10
  <2>2. /\ m.link[c] = "down" /\ m.toServer[c] = <<>>
        /\ m.toClient[c] = (IF keep THEN a ELSE <<>>) \o <<Disconnected>>
    BY <1>5, <1>10, <2>1 DEF Handed
  <2>3. /\ i = a \o b /\ o = n.toServer[c] \o k.queue
        /\ j = m.toClient[c] /\ r = <<>>
    BY <2>1, <2>2 DEF Inbound, Outbound
  <2>. DEFINE no == n.toServer[c]  q == k.queue  d == <<Disconnected>>
  <2>4. no \in Seq(Messages) /\ q \in Seq(Messages)
    BY <1>4
  <2>5. o = no \o q
    BY <2>3
  <2>6. j = a \o d \/ j = <<>> \o d
    BY <2>2, <2>3
  <2>. HIDE DEF a, b, i, o, j, r, P, E, K, X, up, no, q, d
  <2>7. Severed(<<>> \o d, i) /\ Severed(a \o d, i) /\ <<>> \o d \in Seq(Messages) /\ a \o d \in Seq(Messages)
    BY <1>6, <2>3, SeveredWays DEF d
  <2>8. Severed(<<>>, o)
    BY <2>4, <2>5, SeveredWays
  <2>9. j \in Seq(Messages) /\ Severed(j, i)
    BY <2>6, <2>7
  <2>10. r \in Seq(Messages) /\ Severed(r, o)
    <3>1. <<>> \in Seq(Messages)
      OBVIOUS
    <3>. QED
      BY <2>3, <2>8, <3>1
  <2>11. K # "Ended"
    BY <1>7, <2>1 DEF HandshakeOK, PhasesOK
  <2>12. HandshakeOK(P, E, K, X, FALSE, j, r)
    BY <1>7, <2>9, <2>10, <2>11, SeveredOK
  <2>13. (m.link[c] = "up") = FALSE
    BY <2>2
  <2>. QED
    BY <1>2, <2>12, <2>13 DEF Pair, P, E, K, X, j, r
<1>11. Pair(u, k, m, c)
  BY <1>8, <1>9, <1>10
<1>12. LinkOK(u, k, m, c)
  <2>1. m.link[c] = "none" => c \notin S /\ n.link[c] = "none"
    BY <1>5
  <2>2. n.link[c] = "none" => m.link[c] = "none" /\ m.toClient[c] = n.toClient[c] /\ m.toServer[c] = n.toServer[c]
    BY <1>5 DEF Handed
  <2>. QED
    BY <1>1, <1>2, <2>1, <2>2 DEF LinkOK
<1>. QED
  BY <1>2, <1>3, <1>11, <1>12 DEF PeerGood, Closing

EndedOK(e) == e \in [Clients -> Causes \ {"protocol"}]

LEMMA Acts ==
    ASSUME NEW t, NEW n \in Transports, Good(t, client, n), t.failures = {},
           client \in [Clients -> ClientRecs], EndedOK(ended), ServerActs(t, n)
    PROVE  Good(server', client, net') /\ Rests(server') /\ net' \in Transports /\ EndedOK(ended')
<1>. DEFINE S == {c \in Clients : n.link[c] = "up" /\ \E f \in t.closed : f[1] = c}
<1>1. t \in Sessions /\ Epochs(t) /\ IdleUnlessListening(t) /\ \A c \in Clients : PeerGood(t, client[c], n, c)
  BY DEF Good
<1>2. /\ server' = Rested(t)
      /\ \E keep \in BOOLEAN : net' = ClosedByServer(Sending(t, n), S, keep)
      /\ ended' = [c \in Clients |-> IF c \in S /\ ended[c] = "none"
                                     THEN (CHOOSE f \in t.closed : f[1] = c)[2] ELSE ended[c]]
  BY DEF ServerActs, Rested, Sending
<1>3. PICK keep \in BOOLEAN : net' = ClosedByServer(Sending(t, n), S, keep)
  BY <1>2
<1>4. \A c \in S : n.link[c] = "up" /\ Closing(t, c)
  BY DEF Closing
<1>5. ASSUME NEW c \in S PROVE (CHOOSE f \in t.closed : f[1] = c)[2] \in Causes \ {"protocol"}
  <2>1. \E f \in t.closed : f[1] = c
    OBVIOUS
  <2>2. (CHOOSE f \in t.closed : f[1] = c) \in t.closed
    BY <2>1
  <2>3. t.closed \subseteq Blames
    BY <1>1 DEF Sessions
  <2>4. (CHOOSE f \in t.closed : f[1] = c) \in Blames
    BY <2>2, <2>3
  <2>. QED
    BY <2>4 DEF Blames
<1>6. EndedOK(ended')
  BY <1>2, <1>5 DEF EndedOK
<1>. HIDE DEF S
<1>7. Delivers(t, n, net', S, keep)
  BY <1>1, <1>3, Delivered
<1>8. net' \in Transports
  BY <1>7 DEF Delivers
<1>9. /\ server' \in Sessions /\ server'.closed = {} /\ server'.sent = [c \in Clients |-> <<>>]
      /\ server'.status = t.status /\ server'.peers = t.peers /\ server'.registry = t.registry
      /\ server'.failures = t.failures /\ server'.nextEpoch = t.nextEpoch
  BY <1>1, <1>2, RestedFacts
<1>10. ASSUME NEW c \in Clients PROVE PeerGood(server', client[c], net', c)
  <2>1. client[c] \in ClientRecs
    OBVIOUS
  <2>2. PeerGood(t, client[c], n, c) /\ (c \in S => n.link[c] = "up" /\ Closing(t, c))
    BY <1>1, <1>4
  <2>. QED
    BY <1>1, <1>2, <1>7, <2>1, <2>2, ActsOn
<1>11. Epochs(server')
  BY <1>1, <1>9 DEF Epochs
<1>12. IdleUnlessListening(server')
  BY <1>1, <1>9 DEF IdleUnlessListening
<1>. QED
  BY <1>6, <1>8, <1>9, <1>10, <1>11, <1>12 DEF Good, Rests

-----------------------------------------------------------------------------
(* The actions of the server.                                               *)

ServerInv ==
    /\ Good(server, client, net) /\ Rests(server) /\ net \in Transports
    /\ client \in [Clients -> ClientRecs] /\ EndedOK(ended)

LEMMA ServerPollKeeps ==
    ASSUME ServerInv, NEW c \in Clients, ServerPoll(c)
    PROVE  ServerInv'
<1>. DEFINE event == Head(net.toServer[c])
            rest == [net EXCEPT !.toServer[c] = Tail(@)]
<1>1. server.status = "Listening" /\ net.toServer[c] # <<>> /\ client' = client
  BY DEF ServerPoll
<1>2. \E fault : \E handled, done :
        handled = ServerEvent(server, c, event, fault) /\ done = DrainFailures(handled) /\ ServerActs(done, rest)
  BY DEF ServerPoll
<1>3. PICK fault, handled, done :
        handled = ServerEvent(server, c, event, fault) /\ done = DrainFailures(handled) /\ ServerActs(done, rest)
  BY <1>2
<1>4. Taking(client[c], net, rest, c, event)
  <2>1. client[c].queue \in Seq(Messages) /\ net \in Transports
    BY DEF ServerInv, ClientRecs
  <2>2. /\ rest \in Transports /\ rest.link = net.link /\ rest.toClient = net.toClient
        /\ \A d \in Clients \ {c} : SameNet(net, rest, d)
        /\ Outbound(client[c], rest, c) \in Seq(Messages)
        /\ Popped(Outbound(client[c], rest, c), Outbound(client[c], net, c))
        /\ Outbound(client[c], net, c)[1] = event
        /\ event \in Messages
    BY <1>1, <2>1, PoppedOutbound
  <2>. HIDE DEF rest, event
  <2>. QED
    BY <1>1, <2>1, <2>2 DEF Taking
<1>. HIDE DEF rest, event
<1>5. server.closed = {} /\ server.failures = {}
  BY DEF ServerInv, Rests
<1>6. Handled(server, handled, client, rest)
  BY <1>1, <1>3, <1>4, <1>5, TakesEvent DEF ServerInv
<1>7. rest \in Transports
  BY <1>4 DEF Taking
<1>8. Good(done, client, rest) /\ done.failures = {}
  BY <1>3, <1>6, <1>7, Drains DEF Handled
<1>9. Good(server', client, net') /\ Rests(server') /\ net' \in Transports /\ EndedOK(ended')
  BY <1>3, <1>7, <1>8, Acts DEF ServerInv
<1>. QED
  BY <1>1, <1>9 DEF ServerInv

\* A transport that differs in its datagrams only.
LEMMA SameNetGood ==
    ASSUME NEW s, NEW ks, NEW n, Good(s, ks, n), NEW m, \A c \in Clients : SameNet(n, m, c)
    PROVE  Good(s, ks, m)
<1>1. \A c \in Clients : AgreeAt(s, s, c)
  BY DEF AgreeAt
<1>2. \A c \in Clients : PeerGood(s, ks[c], m, c)
  <2>. SUFFICES ASSUME NEW c \in Clients PROVE PeerGood(s, ks[c], m, c)
    OBVIOUS
  <2>1. PeerGood(s, ks[c], n, c) /\ AgreeAt(s, s, c) /\ SameNet(n, m, c)
    BY <1>1 DEF Good
  <2>. QED
    BY <2>1, SamePeer
<1>. QED
  BY <1>2 DEF Good

LEMMA ServerPollDatagramKeeps ==
    ASSUME ServerInv, NEW c \in Clients, ServerPollDatagram(c)
    PROVE  ServerInv'
<1>. DEFINE rest == [net EXCEPT !.datagrams[c] = @ - 1]
            u == ServerEvent(server, c, Datagram, "none")
            done == DrainFailures(u)
<1>1. server.status = "Listening" /\ client' = client /\ ServerActs(done, rest)
  BY DEF ServerPollDatagram
<1>2. net \in Transports /\ Good(server, client, net) /\ server \in Sessions
  BY DEF ServerInv, Good
<1>3. rest \in Transports /\ \A d \in Clients : SameNet(net, rest, d)
  <2>1. /\ rest.datagrams = [net.datagrams EXCEPT ![c] = net.datagrams[c] - 1]
        /\ rest.link = net.link /\ rest.toServer = net.toServer /\ rest.toClient = net.toClient
    BY <1>2 DEF Transports
  <2>2. net.datagrams \in PerClient(Int)
    BY <1>2 DEF Transports
  <2>3. rest.datagrams \in PerClient(Int)
    BY <2>1, <2>2 DEF PerClient
  <2>. QED
    BY <1>2, <2>1, <2>3 DEF Transports, SameNet
<1>4. Good(server, client, rest)
  BY <1>2, <1>3, SameNetGood
<1>. HIDE DEF rest
<1>5. Good(u, client, rest)
  <2>1. CASE u = server
    BY <1>4, <2>1
  <2>2. CASE u = FailPeer(server, c, "early datagram")
    <3>1. "early datagram" \in Causes \ {"protocol"} /\ Local(server, server, c)
      BY <1>2, LocalStays DEF Causes
    <3>. HIDE DEF u
    <3>2. Local(server, u, c) /\ PeerGood(u, client[c], rest, c)
      BY <1>3, <1>4, <2>2, <3>1, Dropped
    <3>3. \A d \in Clients \ {c} : SameNet(rest, rest, d)
      BY DEF SameNet
    <3>. QED
      BY <1>1, <1>4, <3>2, <3>3, OnePeer
  <2>3. u = server \/ u = FailPeer(server, c, "early datagram")
    BY DEF ServerEvent, GameplayReceived, Datagram
  <2>. QED
    BY <2>1, <2>2, <2>3
<1>. HIDE DEF u
<1>6. Good(done, client, rest) /\ done.failures = {}
  BY <1>3, <1>5, Drains
<1>. HIDE DEF done
<1>7. Good(server', client, net') /\ Rests(server') /\ net' \in Transports /\ EndedOK(ended')
  BY <1>1, <1>3, <1>6, Acts DEF ServerInv
<1>. QED
  BY <1>1, <1>7 DEF ServerInv

LEMMA ServerStepKeeps ==
    ASSUME ServerInv, ServerStep
    PROVE  ServerInv'
<1>1. client' = client
  BY DEF ServerStep
<1>. DEFINE Ends(n, followed) == \E done \in {FlushPeers(followed, Clients, n)} : ServerActs(done, net)
            Follows3(n, graph) == \E followed \in {DrainFailures(graph)} : Ends(n, followed)
            Follows2(n, healthy) == \E graph \in {SynchronizeServerGraph(healthy)} : Follows3(n, graph)
            Follows1(n, flushed) == \E healthy \in {DrainFailures(flushed)} : Follows2(n, healthy)
            Finishes(n, served) ==
              \E flushed \in {FlushPeers(served, Clients \ {f[1] : f \in served.failures}, n)} :
                Follows1(n, flushed)
            Serving(n, begun, frames, failing) ==
              /\ Cardinality(failing) + used.faults <= MaxFaults
              /\ \E served \in {ServePeers(begun, frames, failing)} : Finishes(n, served)
              /\ used' = [used EXCEPT !.faults = @ + Cardinality(failing)]
            Begun(n, begun) ==
              \E frames \in FrameChoices(begun), failing \in SUBSET Peers(begun) :
                Serving(n, begun, frames, failing)
            Allowed(expired, n) == \E begun \in {FlushPeers(expired, Clients, n)} : Begun(n, begun)
            Expired(expired) ==
              \E n \in {m \in [Clients -> 0 .. MaxBurst] : \A c \in Clients : m[c] <= MaxSend(c)} :
                Allowed(expired, n)
            Drained(drained) == \E expired \in {ExpireHandshakes(drained)} : Expired(expired)
<1>2. \E drained \in {DrainFailures(server)} : Drained(drained)
  BY DEF ServerStep
<1>. HIDE DEF Drained
<1>3. PICK drained : drained = DrainFailures(server) /\ Drained(drained)
  BY <1>2
<1>. HIDE DEF Expired
<1>4. PICK expired : expired = ExpireHandshakes(drained) /\ Expired(expired)
  BY <1>3 DEF Drained
<1>. HIDE DEF Allowed
<1>5. PICK n \in [Clients -> 0 .. MaxBurst] : Allowed(expired, n)
  BY <1>4 DEF Expired
<1>. HIDE DEF Begun
<1>6. PICK begun : begun = FlushPeers(expired, Clients, n) /\ Begun(n, begun)
  BY <1>5 DEF Allowed
<1>. HIDE DEF Serving
<1>7. PICK frames \in FrameChoices(begun), failing \in SUBSET Peers(begun) :
        Serving(n, begun, frames, failing)
  BY <1>6 DEF Begun
<1>. HIDE DEF Finishes
<1>8. PICK served : served = ServePeers(begun, frames, failing) /\ Finishes(n, served)
  BY <1>7 DEF Serving
<1>. HIDE DEF Follows1
<1>9. PICK flushed : Follows1(n, flushed) /\
        flushed = FlushPeers(served, Clients \ {f[1] : f \in served.failures}, n)
  BY <1>8 DEF Finishes
<1>. HIDE DEF Follows2
<1>10. PICK healthy : healthy = DrainFailures(flushed) /\ Follows2(n, healthy)
  BY <1>9 DEF Follows1
<1>. HIDE DEF Follows3
<1>11. PICK graph : graph = SynchronizeServerGraph(healthy) /\ Follows3(n, graph)
  BY <1>10 DEF Follows2
<1>. HIDE DEF Ends
<1>12. PICK followed : followed = DrainFailures(graph) /\ Ends(n, followed)
  BY <1>11 DEF Follows3
<1>13. PICK done : done = FlushPeers(followed, Clients, n) /\ ServerActs(done, net)
  BY <1>12 DEF Ends
<1>14. Good(server, client, net) /\ net \in Transports /\ server.sent = [c \in Clients |-> <<>>]
      /\ server.failures = {}
  BY DEF ServerInv, Rests
<1>15. n \in [Clients -> Nat]
  BY SessionAssumption
<1>16. Good(drained, client, net) /\ drained.sent = server.sent
  BY <1>3, <1>14, Drains
<1>17. Good(expired, client, net) /\ expired.sent = drained.sent
  BY <1>4, <1>14, <1>16, ExpiresAll
<1>18. \A c \in Clients : Len(expired.sent[c]) <= n[c]
  <2>1. \A c \in Clients : expired.sent[c] = <<>>
    BY <1>14, <1>16, <1>17
  <2>. QED
    BY <1>15, <2>1
<1>19. Good(begun, client, net) /\ \A c \in Clients : Len(begun.sent[c]) <= n[c]
  BY <1>6, <1>14, <1>15, <1>17, <1>18, Flushes
<1>20. Good(served, client, net) /\ served.sent = begun.sent
  BY <1>8, <1>14, <1>19, ServesPeers
<1>21. Good(flushed, client, net) /\ \A c \in Clients : Len(flushed.sent[c]) <= n[c]
  <2>. DEFINE unfailing == Clients \ {f[1] : f \in served.failures}
  <2>1. \A c \in Clients : Len(served.sent[c]) <= n[c]
    BY <1>19, <1>20
  <2>2. flushed = FlushPeers(served, unfailing, n)
    BY <1>9
  <2>. HIDE DEF unfailing
  <2>. QED
    BY <1>14, <1>15, <1>20, <2>1, <2>2, Flushes
<1>22. Good(healthy, client, net) /\ healthy.sent = flushed.sent /\ healthy.failures = {}
  BY <1>10, <1>14, <1>21, Drains
<1>23. Good(graph, client, net) /\ graph.sent = healthy.sent
  BY <1>11, <1>14, <1>22, SynchronizesGraph
<1>24. Good(followed, client, net) /\ followed.sent = graph.sent /\ followed.failures = {}
  BY <1>12, <1>14, <1>23, Drains
<1>25. Good(done, client, net) /\ done.failures = {}
  <2>1. \A c \in Clients : Len(followed.sent[c]) <= n[c]
    BY <1>21, <1>22, <1>23, <1>24
  <2>2. /\ Good(done, client, net) /\ done.failures = followed.failures
        /\ \A c \in Clients : Len(done.sent[c]) <= n[c]
    BY <1>13, <1>14, <1>15, <1>24, <2>1, Flushes
  <2>. QED
    BY <1>24, <2>2
<1>26. Good(server', client, net') /\ Rests(server') /\ net' \in Transports /\ EndedOK(ended')
  BY <1>13, <1>14, <1>25, Acts DEF ServerInv
<1>. QED
  BY <1>1, <1>26 DEF ServerInv

LEMMA ServerStepFailsKeeps ==
    ASSUME ServerInv, ServerStepFails
    PROVE  ServerInv'
<1>. DEFINE drained == DrainFailures(server)
            expired == ExpireHandshakes(drained)
            done == FailSession(expired, "resource")
<1>1. client' = client /\ ServerActs(done, net)
  BY DEF ServerStepFails
<1>2. Good(server, client, net) /\ net \in Transports /\ "resource" \in Causes \ {"protocol"}
  BY DEF ServerInv, Causes
<1>3. Good(drained, client, net)
  BY <1>2, Drains
<1>. HIDE DEF drained
<1>4. Good(expired, client, net)
  BY <1>2, <1>3, ExpiresAll
<1>. HIDE DEF expired
<1>5. Good(done, client, net) /\ done.failures = {}
  BY <1>2, <1>4, FailsSession
<1>. HIDE DEF done
<1>6. Good(server', client, net') /\ Rests(server') /\ net' \in Transports /\ EndedOK(ended')
  BY <1>1, <1>2, <1>5, Acts DEF ServerInv
<1>. QED
  BY <1>1, <1>6 DEF ServerInv

LEMMA ServerStopKeeps ==
    ASSUME ServerInv, ServerStop
    PROVE  ServerInv'
<1>. DEFINE done == ReleaseSession(server, "Closed", "shutdown")
<1>1. client' = client /\ ServerActs(done, net)
  BY DEF ServerStop
<1>2. Good(server, client, net) /\ net \in Transports /\ "shutdown" \in Causes \ {"protocol"}
  BY DEF ServerInv, Causes
<1>3. Good(done, client, net) /\ done.failures = {}
  BY <1>2, Releases
<1>. HIDE DEF done
<1>4. Good(server', client, net') /\ Rests(server') /\ net' \in Transports /\ EndedOK(ended')
  BY <1>1, <1>2, <1>3, Acts DEF ServerInv
<1>. QED
  BY <1>1, <1>4 DEF ServerInv

\* A server that changes nothing but its registries.
LEMMA RecastKeeps ==
    ASSUME ServerInv, NEW x, Recast(server, x),
           \/ (x.status = "Listening" /\ server' = x)
           \/ server' = [x EXCEPT !.status = "Listening"]
           \/ server' = server,
           client' = client, net' = net, ended' = ended
    PROVE  ServerInv'
<1>1. Good(server, client, net)
  BY DEF ServerInv
<1>2. CASE server' = server
  BY <1>2 DEF ServerInv
<1>3. CASE (x.status = "Listening" /\ server' = x) \/ server' = [x EXCEPT !.status = "Listening"]
  <2>1. Good(server', client, net) /\ server'.sent = server.sent
        /\ server'.failures = server.failures /\ server'.closed = server.closed
    BY <1>1, <1>3, RecastGood
  <2>. QED
    BY <2>1 DEF ServerInv, Rests
<1>. QED
  BY <1>2, <1>3

LEMMA ServerStartKeeps ==
    ASSUME ServerInv, ServerStart
    PROVE  ServerInv'
<1>. DEFINE live == {r \in Remotes : tree[r] = "in"}
            x == RegisterServerObjects(server, live)
<1>1. /\ server' = [x EXCEPT !.status = "Listening"] /\ live \in SUBSET Remotes
      /\ client' = client /\ net' = net /\ ended' = ended
  BY DEF ServerStart
<1>2. server \in Sessions
  BY DEF ServerInv, Good
<1>. HIDE DEF live
<1>3. Recast(server, x)
  BY <1>1, <1>2, Registers
<1>. HIDE DEF x
<1>. QED
  BY <1>1, <1>3, RecastKeeps

LEMMA TreeChangeKeeps ==
    ASSUME ServerInv, NEW r \in Remotes,
           AddRemote(r) \/ UnparentRemote(r) \/ ReparentRemote(r) \/ DestroyRemote(r)
    PROVE  ServerInv'
<1>. DEFINE x1 == RegisterServerObject(server, r)
            x2 == UnregisterServerObject(server, r)
            x3 == RegisterServerObject(x2, r)
            x4 == ReleaseBinding(server, r)
            x5 == UnregisterServerObject(x4, r)
<1>1. server \in Sessions /\ {r} \in SUBSET Remotes
  BY DEF ServerInv, Good
<1>2. Recast(server, x1)
  BY <1>1, Registers DEF RegisterServerObject
<1>3. Recast(server, x2)
  BY <1>1, Unregisters
<1>4. Recast(server, x3)
  <2>. HIDE DEF x2
  <2>1. x2 \in Sessions
    BY <1>3 DEF Recast
  <2>2. Recast(x2, x3)
    BY <1>1, <2>1, Registers DEF RegisterServerObject
  <2>. QED
    BY <1>3, <2>2, RecastTwice
<1>5. Recast(server, x5)
  <2>1. Recast(server, x4)
    BY <1>1, Unbinds
  <2>. HIDE DEF x4
  <2>2. x4 \in Sessions
    BY <2>1 DEF Recast
  <2>3. Recast(x4, x5)
    BY <2>2, Unregisters
  <2>. QED
    BY <2>1, <2>3, RecastTwice
<1>6. /\ client' = client /\ net' = net /\ ended' = ended
      /\ server' \in {Observed(server, x1), Observed(server, x2), Observed(server, x3), Observed(server, x5)}
  BY DEF AddRemote, UnparentRemote, ReparentRemote, DestroyRemote, TreeChange
<1>. HIDE DEF x1, x2, x3, x5
<1>7. PICK x \in {x1, x2, x3, x5} : server' = Observed(server, x)
  BY <1>6
<1>8. Recast(server, x)
  BY <1>2, <1>3, <1>4, <1>5, <1>7
<1>9. (x.status = "Listening" /\ server' = x) \/ server' = server
  BY <1>7, <1>8 DEF Observed, Recast
<1>. QED
  BY <1>6, <1>8, <1>9, RecastKeeps

\* Gameplay is queued for a Ready peer.
LEMMA Fires ==
    ASSUME NEW s, NEW ks, NEW n \in Transports, Good(s, ks, n), s.status = "Listening",
           NEW c \in Clients, s.peers[c].phase = "Ready", NEW m \in Messages, m.type = "app",
           NEW vs, vs = s.view[c], NEW x, x = Submitted(s, c, m, vs)
    PROVE  Good(x, ks, n) /\ x.failures = s.failures /\ x.closed = s.closed /\ x.sent = s.sent
<1>1. s \in Sessions /\ PeerGood(s, ks[c], n, c) /\ PeerOK(s, c)
  BY DEF Good, PeerGood
<1>2. vs \in SUBSET Remotes /\ s.queue[c] \in Seq(Messages) /\ Sorted(s.queue[c])
  BY <1>1 DEF Sessions, PerClient, PeerOK
<1>3. Enqueue(s.queue[c], m) \in Seq(Messages)
  BY <1>2, EnqueueInserts
<1>4. /\ x \in Sessions /\ x.queue[c] = Enqueue(s.queue[c], m) /\ x.view[c] = vs
      /\ x.peers = s.peers /\ x.services = s.services /\ x.players = s.players
      /\ x.materialized = s.materialized /\ x.published = s.published
      /\ x.status = s.status /\ x.registry = s.registry /\ x.sent = s.sent
      /\ x.nextEpoch = s.nextEpoch /\ x.failures = s.failures /\ x.closed = s.closed
      /\ \A d \in Clients \ {c} : AgreeAt(s, x, d)
  <2>1. Holds(s, x, c, m, vs)
    BY <1>1, <1>2, <1>3, SubmittedFacts
  <2>. QED
    BY <2>1 DEF Holds
<1>5. Pair(x, ks[c], n, c) /\ Sorted(x.queue[c])
  BY <1>4, Queued
<1>6. PeerOK(x, c)
  BY <1>1, <1>4, <1>5 DEF PeerOK, FailingPeers
<1>7. PeerGood(x, ks[c], n, c)
  BY <1>1, <1>4, <1>5, <1>6 DEF PeerGood, LinkOK, Closing
<1>8. Local(s, x, c)
  BY <1>4 DEF Local
<1>9. \A d \in Clients \ {c} : SameNet(n, n, d)
  BY DEF SameNet
<1>10. Good(x, ks, n)
  BY <1>7, <1>8, <1>9, OnePeer
<1>. QED
  BY <1>4, <1>10

LEMMA ServerFireKeeps ==
    ASSUME ServerInv, NEW c \in Clients, ServerFire(c)
    PROVE  ServerInv'
<1>. DEFINE fired == Reliable  fires == Submitted(server, c, fired, server.view[c])
<1>1. /\ server.status = "Listening" /\ server.published[c] # {}
      /\ server' = [server EXCEPT !.queue[c] = Enqueue(@, fired)]
      /\ client' = client /\ net' = net /\ ended' = ended
  BY DEF ServerFire
<1>2. /\ Good(server, client, net) /\ Rests(server) /\ net \in Transports /\ server \in Sessions
      /\ PeerOK(server, c)
  BY DEF ServerInv, Good, PeerGood
<1>3. server.peers[c].phase = "Ready"
  BY <1>1, <1>2 DEF PeerOK
<1>4. fired \in Messages /\ fired.type = "app"
  BY DEF Reliable, Messages, Signals
<1>. HIDE DEF fired
<1>5. server' = fires
  <2>. DEFINE known == server.view[c]
  <2>1. [server.view EXCEPT ![c] = known] = server.view
    BY <1>2 DEF Sessions, PerClient
  <2>2. fires = Submitted(server, c, fired, known)
    OBVIOUS
  <2>. HIDE DEF known, fires
  <2>. QED
    BY <1>1, <1>2, <2>1, <2>2 DEF Submitted, Sessions
<1>6. fires = Submitted(server, c, fired, server.view[c])
  OBVIOUS
<1>. HIDE DEF fires
<1>7. /\ Good(fires, client, net) /\ fires.failures = server.failures
      /\ fires.closed = server.closed /\ fires.sent = server.sent
  BY <1>1, <1>2, <1>3, <1>4, <1>6, Fires
<1>. QED
  BY <1>1, <1>2, <1>5, <1>7 DEF ServerInv, Rests

-----------------------------------------------------------------------------
(* One client session changes, and its connection's part of the transport.  *)

\* The invariant of the sessions and the transport.
SessionsInv == ServerInv /\ \A c \in Clients : ClientOK(client[c])

LEMMA OneClient ==
    ASSUME NEW s, NEW ks \in [Clients -> ClientRecs], NEW n, Good(s, ks, n), NEW c \in Clients,
           NEW k, NEW m, Pair(s, k, m, c), LinkOK(s, k, m, c),
           \A d \in Clients \ {c} : SameNet(n, m, d), NEW js, js = [ks EXCEPT ![c] = k]
    PROVE  Good(s, js, m)
<1>1. js[c] = k /\ \A d \in Clients \ {c} : js[d] = ks[d]
  OBVIOUS
<1>2. /\ s \in Sessions /\ Epochs(s) /\ IdleUnlessListening(s)
      /\ \A d \in Clients : PeerGood(s, ks[d], n, d)
  BY DEF Good
<1>3. PeerGood(s, js[c], m, c)
  BY <1>1, <1>2 DEF PeerGood
<1>4. ASSUME NEW d \in Clients \ {c} PROVE PeerGood(s, js[d], m, d)
  <2>1. AgreeAt(s, s, d)
    BY DEF AgreeAt
  <2>2. PeerGood(s, ks[d], n, d) /\ SameNet(n, m, d) /\ js[d] = ks[d]
    BY <1>1, <1>2
  <2>. QED
    BY <2>1, <2>2, SamePeer
<1>. QED
  BY <1>2, <1>3, <1>4 DEF Good

\* A client's session becomes k and the transport m.
LEMMA ClientMoves ==
    ASSUME SessionsInv, NEW c \in Clients, NEW k, ClientOK(k), NEW m \in Transports,
           Pair(server, k, m, c), LinkOK(server, k, m, c), \A d \in Clients \ {c} : SameNet(net, m, d),
           server' = server, client' = [client EXCEPT ![c] = k], net' = m, EndedOK(ended')
    PROVE  SessionsInv'
<1>1. /\ Good(server, client, net) /\ client \in [Clients -> ClientRecs] /\ Rests(server)
      /\ \A d \in Clients : ClientOK(client[d])
  BY DEF SessionsInv, ServerInv
<1>2. Good(server, client', m)
  BY <1>1, OneClient
<1>3. k \in ClientRecs
  BY DEF ClientOK
<1>4. client' \in [Clients -> ClientRecs]
  BY <1>1, <1>3
<1>5. \A d \in Clients : ClientOK(client'[d])
  BY <1>1
<1>. QED
  BY <1>1, <1>2, <1>4, <1>5 DEF SessionsInv, ServerInv

\* What a client's handler leaves when the session goes on.
LEMMA ClientContinues ==
    ASSUME SessionsInv, NEW c \in Clients, NEW k, ClientOK(k), ~EndedSession(k), NEW m \in Transports,
           Pair(server, k, m, c), LinkOK(server, k, m, c), \A d \in Clients \ {c} : SameNet(net, m, d),
           NEW result, result = Continues(k), ClientActs(c, result, m), server' = server
    PROVE  SessionsInv'
<1>1. result.session = k /\ result.cause = "none"
  BY DEF Continues
<1>2. client' = [client EXCEPT ![c] = k] /\ net' = m
  BY <1>1 DEF ClientActs
<1>3. EndedOK(ended)
  BY DEF SessionsInv, ServerInv
<1>4. "none" \in Causes \ {"protocol"}
  BY DEF Causes
<1>5. EndedOK(ended')
  BY <1>1, <1>3, <1>4 DEF ClientActs, EndedOK
<1>. QED
  BY <1>2, <1>5, ClientMoves

LEMMA ReleasedOK ==
    ASSUME NEW j, NEW status \in {"Failed", "Closed"}, NEW k, k = Release(j, status)
    PROVE  /\ ClientOK(k) /\ EndedSession(k) /\ Stage(k) = "Ended" /\ k.epoch = 0
           /\ k.status = status
<1>1. k = [IdleClient EXCEPT !.status = status]
  BY DEF Release
<1>2. k \in ClientRecs
  <2>1. 0 \in 0 .. HandshakeTimeoutTicks /\ <<>> \in Seq(Messages)
    BY SessionAssumption
  <2>2. IdleClient \in ClientRecs
    BY <2>1 DEF IdleClient, ClientRecs, Phases
  <2>. QED
    BY <1>1, <2>2 DEF ClientRecs
<1>3. k.status = status
  BY <1>1 DEF IdleClient
<1>4. k = Release(k, k.status)
  BY <1>1, <1>3 DEF Release
<1>5. /\ k.attached = FALSE /\ k.phase = "Absent" /\ k.registry = {} /\ k.bound = {}
      /\ k.published = {} /\ k.queue = <<>> /\ k.remotes = {} /\ k.epoch = 0
  BY <1>1 DEF IdleClient
<1>6. Sorted(k.queue)
  BY <1>5 DEF Sorted
<1>. QED
  BY <1>2, <1>3, <1>4, <1>5, <1>6 DEF ClientOK, EndedSession, Stage

\* Transport m is n after the client has closed connection c.
LEMMA ClosedByClientFacts ==
    ASSUME NEW n \in Transports, NEW c \in Clients, NEW keep \in BOOLEAN,
           NEW m, m = ClosedByClient(n, c, keep)
    PROVE  /\ m \in Transports /\ m.link[c] = "down" /\ m.toClient[c] = <<>>
           /\ n.link[c] # "up" => m.toServer[c] = n.toServer[c]
           /\ n.link[c] = "up" =>
                 \/ m.toServer[c] = n.toServer[c] \o <<Disconnected>>
                 \/ m.toServer[c] = <<>> \o <<Disconnected>>
           /\ \A d \in Clients \ {c} : SameNet(n, m, d)
<1>. DEFINE t == IF n.link[c] # "up" THEN n.toServer[c]
                 ELSE (IF keep THEN n.toServer[c] ELSE <<>>) \o <<Disconnected>>
            l == [n.link EXCEPT ![c] = "down"]
            i == [n.toClient EXCEPT ![c] = <<>>]
            d == [n.datagrams EXCEPT ![c] = 0]
            o == [n.toServer EXCEPT ![c] = t]
<1>1. /\ n.link \in PerClient({"none", "up", "down"}) /\ n.toClient \in PerClient(Seq(Messages))
      /\ n.toServer \in PerClient(Seq(Messages)) /\ n.datagrams \in PerClient(Int)
  BY DEF Transports
<1>2. /\ m.link = l /\ m.toClient = i /\ m.toServer = o /\ m.datagrams = d
      /\ m = [n EXCEPT !.link = l, !.toClient = i, !.datagrams = d, !.toServer = o]
  BY DEF ClosedByClient, Transports
<1>3. t \in Seq(Messages)
  <2>1. n.toServer[c] \in Seq(Messages) /\ <<>> \in Seq(Messages)
    BY <1>1 DEF PerClient
  <2>2. n.toServer[c] \o <<Disconnected>> \in Seq(Messages) /\ <<>> \o <<Disconnected>> \in Seq(Messages)
    BY <2>1, SeveredWays
  <2>. QED
    BY <2>1, <2>2
<1>4. /\ n.link[c] # "up" => t = n.toServer[c]
      /\ n.link[c] = "up" => t = n.toServer[c] \o <<Disconnected>> \/ t = <<>> \o <<Disconnected>>
  OBVIOUS
<1>. HIDE DEF t
<1>5. l \in PerClient({"none", "up", "down"}) /\ l[c] = "down" /\ \A e \in Clients \ {c} : l[e] = n.link[e]
  BY <1>1 DEF PerClient
<1>6. i \in PerClient(Seq(Messages)) /\ i[c] = <<>> /\ \A e \in Clients \ {c} : i[e] = n.toClient[e]
  BY <1>1 DEF PerClient
<1>7. o \in PerClient(Seq(Messages)) /\ o[c] = t /\ \A e \in Clients \ {c} : o[e] = n.toServer[e]
  BY <1>1, <1>3 DEF PerClient
<1>8. d \in PerClient(Int)
  BY <1>1 DEF PerClient
<1>. HIDE DEF l, i, o, d
<1>9. m \in Transports
  BY <1>2, <1>5, <1>6, <1>7, <1>8 DEF Transports
<1>10. \A e \in Clients \ {c} : SameNet(n, m, e)
  BY <1>2, <1>5, <1>6, <1>7 DEF SameNet
<1>. QED
  BY <1>2, <1>4, <1>5, <1>6, <1>7, <1>9, <1>10

\* A client's session ends, whatever it has just taken from its connection.
LEMMA ClientFails ==
    ASSUME SessionsInv, NEW c \in Clients, NEW n \in Transports, n.link = net.link,
           n.toServer = net.toServer, \A d \in Clients \ {c} : SameNet(net, n, d),
           NEW j, NEW status \in {"Failed", "Closed"}, NEW result, result.session = Release(j, status),
           result.cause \in Causes \ {"protocol"}, ClientActs(c, result, n), server' = server
    PROVE  SessionsInv'
<1>. DEFINE k == result.session
<1>1. /\ ClientOK(k) /\ EndedSession(k) /\ Stage(k) = "Ended" /\ k.epoch = 0 /\ k.status = status
  BY ReleasedOK
<1>2. /\ Good(server, client, net) /\ client \in [Clients -> ClientRecs] /\ EndedOK(ended)
      /\ PeerGood(server, client[c], net, c) /\ net \in Transports
  BY DEF SessionsInv, ServerInv, Good
<1>3. client' = [client EXCEPT ![c] = k] /\ EndedOK(ended')
  BY <1>2 DEF ClientActs, EndedOK
<1>4. PICK keep \in BOOLEAN : net' = ClosedByClient(n, c, keep)
  BY <1>1 DEF ClientActs
<1>. DEFINE m == ClosedByClient(n, c, keep)
<1>. HIDE DEF k
<1>5. /\ m \in Transports /\ m.link[c] = "down" /\ m.toClient[c] = <<>>
      /\ n.link[c] # "up" => m.toServer[c] = n.toServer[c]
      /\ n.link[c] = "up" =>
            \/ m.toServer[c] = n.toServer[c] \o <<Disconnected>>
            \/ m.toServer[c] = <<>> \o <<Disconnected>>
      /\ \A d \in Clients \ {c} : SameNet(n, m, d)
  BY ClosedByClientFacts
<1>. HIDE DEF m
<1>6. \A d \in Clients \ {c} : SameNet(net, m, d)
  BY <1>5 DEF SameNet
<1>7. Inbound(server, m, c) = <<>> /\ Outbound(k, m, c) = m.toServer[c]
  BY <1>5 DEF Inbound, Outbound
<1>8. m.toServer[c] \in Seq(Messages) /\ Severed(m.toServer[c], Outbound(client[c], net, c))
  <2>1. /\ m.toServer[c] \in Seq(Messages) /\ net.toServer[c] \in Seq(Messages)
        /\ client[c].queue \in Seq(Messages)
    BY <1>2, <1>5 DEF Transports, PerClient, ClientRecs
  <2>2. CASE n.link[c] = "up"
    <3>1. Outbound(client[c], net, c) = net.toServer[c] \o client[c].queue
      BY <2>2 DEF Outbound
    <3>2. /\ Severed(<<>> \o <<Disconnected>>, Outbound(client[c], net, c))
          /\ Severed(net.toServer[c] \o <<Disconnected>>, Outbound(client[c], net, c))
      BY <2>1, <3>1, SeveredWays
    <3>. QED
      BY <1>5, <2>1, <2>2, <3>2
  <2>3. CASE n.link[c] # "up"
    <3>1. Outbound(client[c], net, c) = net.toServer[c] /\ m.toServer[c] = net.toServer[c]
      BY <1>5, <2>3 DEF Outbound
    <3>2. Severed(net.toServer[c], net.toServer[c])
      <4>1. net.toServer[c] = net.toServer[c] \o <<>> /\ <<>> \in Seq(Messages)
        BY <2>1
      <4>. QED
        BY <2>1, <4>1, SeveredWays
    <3>. QED
      BY <2>1, <3>1, <3>2
  <2>. QED
    BY <2>2, <2>3
<1>9. Pair(server, k, m, c)
  <2>. DEFINE P == server.peers[c].phase  E == server.peers[c].epoch  K == Stage(client[c])
              X == client[c].epoch  up == net.link[c] = "up"  in == Inbound(server, net, c)
              out == Outbound(client[c], net, c)  t == m.toServer[c]
  <2>1. HandshakeOK(P, E, K, X, up, in, out)
    BY <1>2 DEF PeerGood, Pair
  <2>2. t \in Seq(Messages) /\ Severed(t, out)
    BY <1>8
  <2>3. (m.link[c] = "up") = FALSE
    BY <1>5
  <2>. HIDE DEF P, E, K, X, up, in, out, t
  <2>4. HandshakeOK(P, E, "Ended", 0, FALSE, <<>>, t)
    BY <2>1, <2>2, ClientEnded
  <2>. QED
    BY <1>1, <1>7, <2>3, <2>4 DEF Pair, P, E, t
<1>10. LinkOK(server, k, m, c)
  BY <1>1, <1>5 DEF LinkOK
<1>11. net' = m
  BY <1>4 DEF m
<1>. QED
  BY <1>1, <1>3, <1>5, <1>6, <1>9, <1>10, <1>11, ClientMoves

-----------------------------------------------------------------------------
(* A client takes a message of its connection.                              *)

\* What is known of a client session that runs.
LEMMA ClientFacts ==
    ASSUME SessionsInv, NEW c \in Clients, NEW k, k = client[c]
    PROVE  /\ k \in ClientRecs /\ ClientOK(k) /\ EndedOK(ended)
           /\ Runs(k) => Stage(k) = k.phase /\ ~EndedSession(k) /\ k.status # "Created"
           /\ Pair(server, k, net, c) /\ LinkOK(server, k, net, c) /\ PeerOK(server, c)
           /\ server \in Sessions /\ net \in Transports /\ server.sent[c] = <<>>
<1>1. /\ Good(server, client, net) /\ Rests(server) /\ net \in Transports /\ EndedOK(ended)
      /\ client \in [Clients -> ClientRecs] /\ ClientOK(k)
  BY DEF SessionsInv, ServerInv
<1>2. PeerGood(server, k, net, c) /\ server \in Sessions
  BY <1>1 DEF Good
<1>3. k \in ClientRecs /\ server.sent[c] = <<>>
  BY <1>1 DEF Rests
<1>4. Runs(k) => Stage(k) = k.phase /\ ~EndedSession(k) /\ k.status # "Created"
  BY DEF Runs, Stage, EndedSession
<1>. QED
  BY <1>1, <1>2, <1>3, <1>4 DEF PeerGood

\* Connection c has handed over message e, and the transport is m.
Hears(m, c, e) ==
    /\ m \in Transports /\ m.link = net.link /\ m.toServer = net.toServer
    /\ \A d \in Clients \ {c} : SameNet(net, m, d)
    /\ net.toClient[c] # <<>> /\ e \in Messages /\ e = Inbound(server, net, c)[1]
    /\ Inbound(server, m, c) \in Seq(Messages)
    /\ Popped(Inbound(server, m, c), Inbound(server, net, c))

LEMMA PoppedInbound ==
    ASSUME SessionsInv, NEW c \in Clients, net.toClient[c] # <<>>,
           NEW e, e = Head(net.toClient[c]), NEW m, m = [net EXCEPT !.toClient[c] = Tail(@)]
    PROVE  Hears(m, c, e)
<1>. DEFINE a == net.toClient[c]  b == Tail(a)  q == server.queue[c]
<1>1. net \in Transports /\ server \in Sessions /\ server.sent[c] = <<>>
  BY ClientFacts
<1>2. /\ net.toClient \in PerClient(Seq(Messages)) /\ a \in Seq(Messages) /\ q \in Seq(Messages)
  BY <1>1 DEF Transports, Sessions, PerClient
<1>3. b \in Seq(Messages) /\ e \in Messages /\ e = a[1]
  BY <1>2
<1>4. /\ m.toClient = [net.toClient EXCEPT ![c] = b] /\ m.link = net.link /\ m.toServer = net.toServer
      /\ m.datagrams = net.datagrams /\ m = [net EXCEPT !.toClient = [net.toClient EXCEPT ![c] = b]]
  BY <1>1 DEF Transports
<1>5. /\ m.toClient \in PerClient(Seq(Messages)) /\ m.toClient[c] = b
      /\ \A d \in Clients \ {c} : m.toClient[d] = net.toClient[d]
  BY <1>2, <1>3, <1>4 DEF PerClient
<1>6. m \in Transports
  BY <1>1, <1>4, <1>5 DEF Transports
<1>7. \A d \in Clients \ {c} : SameNet(net, m, d)
  BY <1>4, <1>5 DEF SameNet
<1>8. a \o <<>> = a /\ b \o <<>> = b
  BY <1>2, <1>3
<1>9. PICK z \in Seq(Messages) : Inbound(server, net, c) = a \o z /\ Inbound(server, m, c) = b \o z
  <2>1. CASE net.link[c] = "up"
    BY <1>1, <1>2, <1>4, <1>5, <1>8, <2>1 DEF Inbound
  <2>2. CASE net.link[c] # "up"
    <3>1. <<>> \in Seq(Messages) /\ Inbound(server, net, c) = a \o <<>> /\ Inbound(server, m, c) = b \o <<>>
      BY <1>4, <1>5, <1>8, <2>2 DEF Inbound
    <3>. QED
      BY <3>1
  <2>. QED
    BY <2>1, <2>2
<1>. DEFINE o == Inbound(server, net, c)  p == Inbound(server, m, c)
<1>10. b = Tail(a) /\ a # <<>> /\ o = a \o z /\ p = b \o z
  BY <1>9
<1>. HIDE DEF a, b, o, p
<1>11. p \in Seq(Messages) /\ Popped(p, o) /\ o[1] = a[1]
  BY <1>2, <1>10, PoppedBehind
<1>. QED
  BY <1>3, <1>4, <1>6, <1>7, <1>11 DEF Hears, o, p

\* The session goes on as k after the message.
LEMMA HeardGood ==
    ASSUME SessionsInv, NEW c \in Clients, NEW m, NEW e, Hears(m, c, e),
           NEW k, ClientOK(k), Runs(k),
           HandshakeOK(server.peers[c].phase, server.peers[c].epoch, k.phase, k.epoch,
                       net.link[c] = "up", Inbound(server, m, c), Outbound(k, m, c)),
           NEW result, result = Continues(k), ClientActs(c, result, m), server' = server
    PROVE  SessionsInv'
<1>1. Stage(k) = k.phase /\ ~EndedSession(k) /\ k.status # "Created"
  BY DEF Runs, Stage, EndedSession
<1>2. /\ m \in Transports /\ m.link = net.link /\ \A d \in Clients \ {c} : SameNet(net, m, d)
      /\ net.toClient[c] # <<>>
  BY DEF Hears
<1>3. Pair(server, k, m, c)
  BY <1>1, <1>2 DEF Pair
<1>4. net.link[c] # "none"
  <2>1. LinkOK(server, client[c], net, c)
    BY ClientFacts
  <2>. QED
    BY <1>2, <2>1 DEF LinkOK
<1>5. LinkOK(server, k, m, c)
  BY <1>1, <1>2, <1>4 DEF LinkOK
<1>. QED
  BY <1>1, <1>2, <1>3, <1>5, ClientContinues

\* What the message says of the client.
LEMMA HeardFacts ==
    ASSUME SessionsInv, NEW c \in Clients, NEW m, NEW e, Hears(m, c, e), Runs(client[c])
    PROVE  /\ e.type \in {"connected", "disconnected", "accepted", "frame", "app"}
           /\ e.type = "connected" => client[c].phase = "Absent"
           /\ e.type = "accepted" => client[c].phase = "TransportConnected" /\ e \in Numbered
           /\ e.type = "frame" => client[c].phase \in {"Accepted", "Ready"} /\ e \in Frames
           /\ e.type = "app" => client[c].phase = "Ready"
           /\ HandshakeOK(server.peers[c].phase, server.peers[c].epoch, client[c].phase,
                          client[c].epoch, net.link[c] = "up", Inbound(server, net, c),
                          Outbound(client[c], net, c))
<1>. DEFINE P == server.peers[c].phase  E == server.peers[c].epoch  K == client[c].phase
            X == client[c].epoch  up == net.link[c] = "up"  in == Inbound(server, net, c)
            out == Outbound(client[c], net, c)
<1>1. HandshakeOK(P, E, K, X, up, in, out)
  <2>1. Pair(server, client[c], net, c) /\ Stage(client[c]) = client[c].phase
    BY ClientFacts
  <2>. QED
    BY <2>1 DEF Pair
<1>2. e = in[1] /\ e \in Messages /\ in \in Seq(Messages) /\ 1 \in DOMAIN in
  <2>1. /\ e = in[1] /\ e \in Messages /\ Inbound(server, m, c) \in Seq(Messages)
        /\ Popped(Inbound(server, m, c), in)
    BY DEF Hears
  <2>2. in \in Seq(Messages)
    BY <1>1 DEF HandshakeOK
  <2>. HIDE DEF in
  <2>. QED
    BY <2>1, <2>2, PoppedFacts
<1>. HIDE DEF P, E, K, X, up, in, out
<1>3. InboundAt(1, P, E, K, in, out)
  BY <1>1, <1>2 DEF HandshakeOK, InboundOK
<1>4. ~Precedes(in, 1, "accepted")
  BY <1>2 DEF Precedes
<1>5. /\ e.type \in {"connected", "disconnected", "accepted", "frame", "app"}
      /\ e.type = "connected" => K = "Absent"
      /\ e.type = "accepted" => K = "TransportConnected"
      /\ e.type = "frame" => K \in {"Accepted", "Ready"}
      /\ e.type = "app" => K = "Ready"
  BY <1>2, <1>3, <1>4 DEF InboundAt
<1>6. (e.type = "accepted" => e \in Numbered) /\ (e.type = "frame" => e \in Frames)
  BY <1>2 DEF Messages, Signals, Numbered, Frames
<1>. QED
  BY <1>1, <1>5, <1>6 DEF P, E, K, X, up, in, out

LEMMA HearsConnected ==
    ASSUME SessionsInv, NEW c \in Clients, NEW m, NEW e, Hears(m, c, e), Runs(client[c]),
           e.type = "connected", NEW result, result = Continues(OnClientConnected(client[c])),
           ClientActs(c, result, m), server' = server
    PROVE  SessionsInv'
<1>. DEFINE k == client[c]  h == ClientHello  j == OnClientConnected(k)
            P == server.peers[c].phase  E == server.peers[c].epoch  X == k.epoch
            up == net.link[c] = "up"  in == Inbound(server, net, c)  rest == Inbound(server, m, c)
            out == Outbound(k, net, c)  t == Outbound(j, m, c)
<1>1. /\ ClientOK(k) /\ k \in ClientRecs /\ Runs(k) /\ net \in Transports
  BY ClientFacts
<1>2. /\ k.phase = "Absent" /\ HandshakeOK(P, E, k.phase, X, up, in, out)
  BY HeardFacts
<1>3. /\ m.link = net.link /\ m.toServer = net.toServer /\ rest \in Seq(Messages) /\ Popped(rest, in)
      /\ e = in[1]
  BY DEF Hears
<1>4. h \in Messages
  BY DEF ClientHello, Messages, Signals
<1>5. j = [k EXCEPT !.phase = "TransportConnected", !.age = 0, !.queue = <<h>>]
  BY DEF OnClientConnected
<1>. HIDE DEF h, j
<1>6. /\ j \in ClientRecs /\ j.phase = "TransportConnected" /\ j.queue = <<h>> /\ j.epoch = k.epoch
      /\ j.status = k.status /\ j.attached = k.attached /\ j.registry = k.registry
      /\ j.bound = k.bound /\ j.published = k.published /\ j.replica = k.replica
      /\ j.known = k.known /\ j.remotes = k.remotes /\ j.hung = k.hung
  <2>1. <<h>> \in Seq(Messages) /\ 0 \in 0 .. HandshakeTimeoutTicks
    BY <1>4, SessionAssumption
  <2>. QED
    BY <1>1, <1>5, <2>1 DEF ClientRecs, Phases
<1>7. Sorted(j.queue)
  BY <1>6 DEF Sorted
<1>8. ClientOK(j) /\ Runs(j)
  BY <1>1, <1>2, <1>6, <1>7 DEF ClientOK, Runs, EndedSession
<1>9. t = IF up THEN Append(out, h) ELSE out
  <2>1. k.queue = <<>> /\ net.toServer[c] \in Seq(Messages)
    BY <1>1, <1>2 DEF ClientOK, Transports, PerClient
  <2>. DEFINE a == net.toServer[c]
  <2>2. up => t = a \o <<h>> /\ out = a \o <<>>
    BY <1>3, <1>6, <2>1 DEF Outbound
  <2>3. ~up => t = a /\ out = a
    BY <1>3 DEF Outbound
  <2>. HIDE DEF a
  <2>4. a \o <<h>> = Append(a \o <<>>, h)
    BY <1>4, <2>1 DEF a
  <2>. QED
    BY <2>2, <2>3, <2>4
<1>10. HandshakeOK(P, E, "TransportConnected", X, up, rest, t)
  <2>1. t = IF up THEN Append(out, ClientHello) ELSE out
    BY <1>9 DEF h
  <2>2. HandshakeOK(P, E, "Absent", X, up, in, out) /\ in[1].type = "connected"
    BY <1>2, <1>3
  <2>. HIDE DEF P, E, X, up, in, rest, out, t
  <2>. QED
    BY <1>3, <2>1, <2>2, ClientConnected
<1>11. HandshakeOK(P, E, j.phase, j.epoch, up, rest, t)
  BY <1>6, <1>10
<1>12. result = Continues(j)
  BY DEF j
<1>. QED
  BY <1>8, <1>11, <1>12, HeardGood

LEMMA FinalizesOK ==
    ASSUME NEW k, ClientOK(k), Runs(k), NEW t, t = TryFinalizeClientBootstrap(k)
    PROVE  /\ ClientOK(t) /\ Runs(t) /\ t.phase = k.phase /\ t.epoch = k.epoch /\ t.queue = k.queue
<1>1. CASE k.baseline /\ k.phase = "Accepted"
  <2>1. t = [k EXCEPT !.status = "Accepted"]
    BY <1>1 DEF TryFinalizeClientBootstrap
  <2>2. k \in ClientRecs
    BY DEF ClientOK
  <2>3. /\ t \in ClientRecs /\ t.status = "Accepted" /\ t.phase = k.phase /\ t.epoch = k.epoch
        /\ t.queue = k.queue /\ t.attached = k.attached /\ t.registry = k.registry
        /\ t.bound = k.bound /\ t.published = k.published /\ t.replica = k.replica
        /\ t.known = k.known /\ t.remotes = k.remotes /\ t.hung = k.hung
    BY <2>1, <2>2 DEF ClientRecs
  <2>. QED
    BY <1>1, <2>3 DEF ClientOK, Runs, EndedSession
<1>2. CASE ~(k.baseline /\ k.phase = "Accepted")
  BY <1>2 DEF TryFinalizeClientBootstrap
<1>. QED
  BY <1>1, <1>2

LEMMA HearsAccepted ==
    ASSUME SessionsInv, NEW c \in Clients, NEW m, NEW e, Hears(m, c, e), Runs(client[c]),
           e.type = "accepted", NEW result, result = AcceptClientSession(client[c], e.epoch),
           ClientActs(c, result, m), server' = server
    PROVE  SessionsInv'
<1>. DEFINE k == client[c]  f == e.epoch
            j == [k EXCEPT !.phase = "Accepted", !.epoch = f, !.queue = <<>>]
            i == TryFinalizeClientBootstrap(j)
            P == server.peers[c].phase  E == server.peers[c].epoch  X == k.epoch
            up == net.link[c] = "up"  in == Inbound(server, net, c)  rest == Inbound(server, m, c)
            out == Outbound(k, net, c)  t == Outbound(i, m, c)
<1>1. ClientOK(k) /\ k \in ClientRecs /\ Runs(k) /\ net \in Transports
  BY ClientFacts
<1>2. /\ k.phase = "TransportConnected" /\ HandshakeOK(P, E, k.phase, X, up, in, out)
      /\ f \in Nat
  BY HeardFacts DEF Numbered
<1>3. /\ m.link = net.link /\ m.toServer = net.toServer /\ rest \in Seq(Messages) /\ Popped(rest, in)
      /\ e = in[1]
  BY DEF Hears
<1>4. result = Continues(i)
  BY <1>2 DEF AcceptClientSession
<1>5. /\ j \in ClientRecs /\ j.phase = "Accepted" /\ j.queue = <<>> /\ j.epoch = f
      /\ j.status = k.status /\ j.attached = k.attached /\ j.registry = k.registry
      /\ j.bound = k.bound /\ j.published = k.published /\ j.replica = k.replica
      /\ j.known = k.known /\ j.remotes = k.remotes /\ j.hung = k.hung
  <2>1. <<>> \in Seq(Messages)
    OBVIOUS
  <2>. HIDE DEF k, f
  <2>. QED
    BY <1>1, <1>2, <2>1 DEF ClientRecs, Phases
<1>. HIDE DEF j
<1>6. Sorted(j.queue)
  BY <1>5 DEF Sorted
<1>7. ClientOK(j) /\ Runs(j)
  BY <1>1, <1>2, <1>5, <1>6 DEF ClientOK, Runs, EndedSession
<1>8. ClientOK(i) /\ Runs(i) /\ i.phase = "Accepted" /\ i.epoch = f /\ i.queue = <<>>
  BY <1>5, <1>7, FinalizesOK
<1>. HIDE DEF i
<1>9. t \in Seq(Messages) /\ Begins(t, out)
  <2>1. k.queue \in Seq(Messages) /\ net.toServer[c] \in Seq(Messages)
    BY <1>1 DEF ClientRecs, Transports, PerClient
  <2>. DEFINE a == net.toServer[c]  q == k.queue
  <2>2. CASE up
    <3>1. t = a \o <<>> /\ out = a \o q
      BY <1>3, <1>8, <2>2 DEF Outbound
    <3>. HIDE DEF a, q, t, out
    <3>2. a \in Seq(Messages) /\ q \in Seq(Messages)
      BY <2>1 DEF a, q
    <3>3. t = a
      BY <3>1, <3>2
    <3>4. Begins(a, a \o q)
      BY <3>2, FrontBegins
    <3>. QED
      BY <3>1, <3>2, <3>3, <3>4
  <2>3. CASE ~up
    <3>1. t = a /\ out = a
      BY <1>3, <2>3 DEF Outbound
    <3>. QED
      BY <2>1, <3>1 DEF Begins
  <2>. QED
    BY <2>2, <2>3
<1>10. HandshakeOK(P, E, "Accepted", f, up, rest, t)
  <2>1. HandshakeOK(P, E, "TransportConnected", X, up, in, out) /\ in[1].type = "accepted"
        /\ f = in[1].epoch
    BY <1>2, <1>3
  <2>. HIDE DEF P, E, X, up, in, rest, out, t, f
  <2>2. HandshakeOK(P, E, "Accepted", in[1].epoch, up, rest, t)
    BY <1>3, <1>9, <2>1, ClientAccepted
  <2>. QED
    BY <2>1, <2>2
<1>11. HandshakeOK(P, E, i.phase, i.epoch, up, rest, t)
  BY <1>8, <1>10
<1>. QED
  BY <1>4, <1>8, <1>11, HeardGood

\* An Accepted or Ready client takes a message that leaves its handshake and
\* its queue as they are.
LEMMA HearsOn ==
    ASSUME SessionsInv, NEW c \in Clients, NEW m, NEW e, Hears(m, c, e), Runs(client[c]),
           client[c].phase \in {"Accepted", "Ready"},
           NEW k, ClientOK(k), Runs(k), k.phase = client[c].phase, k.epoch = client[c].epoch,
           k.queue = client[c].queue, NEW result, result = Continues(k),
           ClientActs(c, result, m), server' = server
    PROVE  SessionsInv'
<1>. DEFINE P == server.peers[c].phase  E == server.peers[c].epoch  K == client[c].phase
            X == client[c].epoch  up == net.link[c] = "up"  in == Inbound(server, net, c)
            rest == Inbound(server, m, c)  out == Outbound(client[c], net, c)
<1>1. HandshakeOK(P, E, K, X, up, in, out) /\ K \in {"Accepted", "Ready"}
  BY HeardFacts
<1>2. m.link = net.link /\ m.toServer = net.toServer /\ rest \in Seq(Messages) /\ Popped(rest, in)
  BY DEF Hears
<1>3. Outbound(k, m, c) = out
  BY <1>2 DEF Outbound
<1>4. HandshakeOK(P, E, K, X, up, rest, out)
  <2>. HIDE DEF P, E, K, X, up, in, rest, out
  <2>. QED
    BY <1>1, <1>2, ClientTakes
<1>. QED
  BY <1>3, <1>4, HeardGood

LEMMA ClientPollKeeps ==
    ASSUME SessionsInv, NEW c \in Clients, ClientPoll(c)
    PROVE  SessionsInv'
<1>. DEFINE k == client[c]  e == Head(net.toClient[c])  m == [net EXCEPT !.toClient[c] = Tail(@)]
            result == ClientEvent(k, e)
<1>1. /\ Runs(k) /\ net.toClient[c] # <<>> /\ ~Applies(k, e) /\ ClientActs(c, result, m)
      /\ server' = server
  BY DEF ClientPoll
<1>2. Hears(m, c, e)
  BY <1>1, PoppedInbound
<1>. HIDE DEF m, e
<1>3. /\ e.type \in {"connected", "disconnected", "accepted", "frame", "app"}
      /\ e.type = "connected" => k.phase = "Absent"
      /\ e.type = "accepted" => k.phase = "TransportConnected"
      /\ e.type = "frame" => k.phase \in {"Accepted", "Ready"}
      /\ e.type = "app" => k.phase = "Ready"
  BY <1>1, <1>2, HeardFacts
<1>4. e.type # "frame"
  BY <1>1, <1>3 DEF Applies
<1>5. CASE e.type = "connected"
  <2>1. result = Continues(OnClientConnected(k))
    BY <1>5 DEF ClientEvent
  <2>. QED
    BY <1>1, <1>2, <1>5, <2>1, HearsConnected
<1>6. CASE e.type = "disconnected"
  <2>1. result.session = Release(k, "Failed") /\ result.cause = "shutdown"
    BY <1>6 DEF ClientEvent
  <2>2. result.cause \in Causes \ {"protocol"} /\ "Failed" \in {"Failed", "Closed"}
    BY <2>1 DEF Causes
  <2>3. /\ m \in Transports /\ m.link = net.link /\ m.toServer = net.toServer
        /\ \A d \in Clients \ {c} : SameNet(net, m, d)
    BY <1>2 DEF Hears
  <2>. HIDE DEF result
  <2>. QED
    BY <1>1, <2>1, <2>2, <2>3, ClientFails
<1>7. CASE e.type = "accepted"
  <2>1. result = AcceptClientSession(k, e.epoch)
    BY <1>3, <1>7 DEF ClientEvent
  <2>. QED
    BY <1>1, <1>2, <1>7, <2>1, HearsAccepted
<1>8. CASE e.type = "app"
  <2>1. result = Continues(k) /\ k.phase = "Ready"
    BY <1>3, <1>8 DEF ClientEvent
  <2>2. ClientOK(k)
    BY ClientFacts
  <2>. QED
    BY <1>1, <1>2, <2>1, <2>2, HearsOn
<1>. QED
  BY <1>3, <1>4, <1>5, <1>6, <1>7, <1>8

-----------------------------------------------------------------------------
(* A client applies a frame.                                                *)

\* What a client holds while it applies a frame: what it has published need not
\* resolve in the replica yet.
AppliesOK(k) ==
    /\ k \in ClientRecs /\ Runs(k)
    /\ k.attached => k.phase = "Ready"
    /\ k.phase # "Ready" => k.registry = {} /\ k.bound = {} /\ k.published = {}
    /\ k.phase \in {"Absent", "Accepted"} => k.queue = <<>>
    /\ k.status = "Accepted" => k.phase = "Accepted"
    /\ k.published \subseteq k.registry /\ k.published \subseteq k.known
    /\ k.bound \subseteq k.registry /\ k.remotes \subseteq k.known
    /\ Sorted(k.queue)

\* t is k after a change of its Remotes.
SameTalk(k, t) ==
    /\ t.status = k.status /\ t.phase = k.phase /\ t.epoch = k.epoch /\ t.queue = k.queue
    /\ t.attached = k.attached /\ t.hung = k.hung

\* What a handler of frames may return for session k.
Outcome(k, result) ==
    \/ \E j : result = Fails(j, "registry")
    \/ \E t : result = Continues(t) /\ ClientOK(t) /\ Runs(t) /\ SameTalk(k, t)

LEMMA AppliesFrame ==
    ASSUME NEW k, ClientOK(k), Runs(k), NEW frame \in Frames, NEW held,
           NEW t, t = ApplyFrame(k, frame, held)
    PROVE  AppliesOK(t) /\ SameTalk(k, t)
<1>. DEFINE destroyed == (frame.leave \cup frame.collapse) \cap k.replica
            released == (destroyed \ held) \cap k.bound
            replica == (k.replica \cup frame.publish) \ destroyed
            bound == k.bound \ destroyed  registry == k.registry \ released
            materialized == k.materialized \ released  published == k.published \ released
<1>1. k \in ClientRecs /\ frame.publish \in SUBSET Remotes
  BY DEF ClientOK, Frames
<1>2. t = [k EXCEPT !.replica = replica, !.bound = bound, !.registry = registry,
                    !.materialized = materialized, !.published = published]
  BY DEF ApplyFrame
<1>3. /\ k.replica \in SUBSET Remotes /\ k.bound \in SUBSET Remotes /\ k.registry \in SUBSET Remotes
      /\ k.materialized \in SUBSET Remotes /\ k.published \in SUBSET Remotes
  BY <1>1 DEF ClientRecs
<1>4. /\ replica \in SUBSET Remotes /\ released \subseteq destroyed
      /\ bound \in SUBSET Remotes /\ registry \in SUBSET Remotes
      /\ materialized \in SUBSET Remotes /\ published \in SUBSET Remotes
  BY <1>1, <1>3
<1>. HIDE DEF bound, registry, materialized, published, replica
<1>5. /\ t \in ClientRecs /\ SameTalk(k, t)
      /\ t.bound = k.bound \ destroyed /\ t.registry = k.registry \ released
      /\ t.published = k.published \ released /\ t.known = k.known /\ t.remotes = k.remotes
  <2>. HIDE DEF destroyed, released
  <2>1. /\ t \in ClientRecs /\ SameTalk(k, t)
        /\ t.bound = bound /\ t.registry = registry
        /\ t.published = published /\ t.known = k.known /\ t.remotes = k.remotes
    <3>1. t \in ClientRecs
      <4>. DEFINE y == [k EXCEPT !.replica = replica, !.bound = bound, !.registry = registry]
      <4>1. y \in ClientRecs
        BY <1>1, <1>4 DEF ClientRecs
      <4>2. t = [y EXCEPT !.materialized = materialized, !.published = published]
        BY <1>2
      <4>. HIDE DEF y
      <4>. DEFINE z == [y EXCEPT !.materialized = materialized]
      <4>3. z \in ClientRecs
        BY <1>4, <4>1 DEF ClientRecs
      <4>4. t = [z EXCEPT !.published = published]
        BY <4>2
      <4>. HIDE DEF z
      <4>. QED
        BY <1>4, <4>3, <4>4 DEF ClientRecs
    <3>2. /\ t.bound = bound /\ t.registry = registry
          /\ t.published = published /\ t.known = k.known /\ t.remotes = k.remotes
      BY <1>1, <1>2 DEF ClientRecs
    <3>3. SameTalk(k, t)
      BY <1>1, <1>2 DEF ClientRecs, SameTalk
    <3>. QED
      BY <3>1, <3>2, <3>3
  <2>. QED
    BY <2>1 DEF bound, registry, published
<1>. HIDE DEF destroyed, released
<1>6. /\ t.published \subseteq t.registry /\ t.published \subseteq t.known
      /\ t.bound \subseteq t.registry /\ t.remotes \subseteq t.known
  BY <1>4, <1>5 DEF ClientOK
<1>7. t.phase # "Ready" => t.registry = {} /\ t.bound = {} /\ t.published = {}
  BY <1>5 DEF SameTalk, ClientOK
<1>. QED
  BY <1>5, <1>6, <1>7 DEF ClientOK, AppliesOK, SameTalk, Runs

LEMMA FollowsFrame ==
    ASSUME NEW k, AppliesOK(k), NEW frame \in Frames, NEW result, result = FollowFrame(k, frame)
    PROVE  Outcome(k, result)
<1>. DEFINE known == k.known \cup frame.publish
            gone == (frame.leave \cap known) \cup (known \ k.replica)
            follows == IF k.attached THEN k.materialized \cup frame.publish ELSE {}
            remotes == (k.remotes \cup frame.publish) \ (gone \cup frame.leave)
            base == k.baseline \/ frame.baseline
            t == [k EXCEPT !.known = known \ gone, !.remotes = remotes,
                           !.materialized = follows \ gone, !.published = @ \ gone,
                           !.baseline = base]
<1>1. CASE k.attached /\ ~(gone \subseteq (k.registry \cap k.published) \cup follows)
  <2>1. result = Fails(k, "registry")
    BY <1>1 DEF FollowFrame
  <2>. QED
    BY <2>1 DEF Outcome
<1>2. CASE ~(k.attached /\ ~(gone \subseteq (k.registry \cap k.published) \cup follows))
  <2>1. result = Continues(t)
    BY <1>2 DEF FollowFrame
  <2>2. k \in ClientRecs /\ frame.publish \in SUBSET Remotes /\ frame.baseline \in BOOLEAN
    BY DEF AppliesOK, Frames
  <2>3. /\ k.known \in SUBSET Remotes /\ k.remotes \in SUBSET Remotes /\ k.materialized \in SUBSET Remotes
        /\ k.baseline \in BOOLEAN
    BY <2>2 DEF ClientRecs
  <2>4. known \in SUBSET Remotes /\ remotes \in SUBSET Remotes /\ follows \in SUBSET Remotes
    BY <2>2, <2>3
  <2>5. base \in BOOLEAN
    OBVIOUS
  <2>6. k.known \subseteq known /\ known \ gone \subseteq k.replica
    OBVIOUS
  <2>7. k.remotes \subseteq k.known => remotes \subseteq known \ gone
    OBVIOUS
  <2>. HIDE DEF known, gone, follows, remotes, base
  <2>8. /\ t \in ClientRecs /\ SameTalk(k, t)
        /\ t.known = known \ gone /\ t.remotes = remotes /\ t.published = k.published \ gone
        /\ t.registry = k.registry /\ t.bound = k.bound /\ t.replica = k.replica
    BY <2>2, <2>4, <2>5 DEF ClientRecs, SameTalk
  <2>. HIDE DEF t
  <2>9. /\ t.published \subseteq t.registry /\ t.published \subseteq t.replica
        /\ t.published \subseteq t.known /\ t.bound \subseteq t.registry /\ t.remotes \subseteq t.known
    BY <2>6, <2>7, <2>8 DEF AppliesOK
  <2>10. t.phase # "Ready" => t.registry = {} /\ t.bound = {} /\ t.published = {}
    BY <2>8 DEF SameTalk, AppliesOK
  <2>11. Runs(t) /\ ~EndedSession(t)
    BY <2>8 DEF SameTalk, AppliesOK, Runs, EndedSession
  <2>12. ClientOK(t)
    BY <2>8, <2>9, <2>10, <2>11 DEF ClientOK, AppliesOK, SameTalk
  <2>. QED
    BY <2>1, <2>8, <2>11, <2>12 DEF Outcome
<1>. QED
  BY <1>1, <1>2

\* What a client has published after its graph is synchronized.
Publishes(k, t) ==
    /\ t \in ClientRecs /\ SameTalk(k, t) /\ t.age = k.age /\ t.remotes = k.remotes /\ t.known = k.known
    /\ t.published \subseteq t.registry /\ t.published \subseteq t.replica
    /\ t.published \subseteq t.known /\ t.bound \subseteq t.registry

LEMMA Synchronizing ==
    ASSUME NEW k \in ClientRecs, k.published \subseteq k.registry, k.published \subseteq k.replica,
           k.published \subseteq k.known, k.bound \subseteq k.registry, k.remotes \subseteq k.known,
           NEW result, result = SynchronizeClientGraph(k)
    PROVE  \/ k.registry # {} /\ result = Fails(k, "registry")
           \/ \E t : result = Continues(t) /\ Publishes(k, t)
<1>. DEFINE live == k.remotes \cap k.replica
            fresh == live \ k.bound
            t == [k EXCEPT !.registry = @ \cup fresh, !.bound = @ \cup fresh,
                           !.published = @ \cup live, !.materialized = @ \cup live]
<1>1. CASE fresh \cap k.registry # {}
  BY <1>1 DEF SynchronizeClientGraph
<1>2. CASE fresh \cap k.registry = {}
  <2>1. result = Continues(t)
    BY <1>2 DEF SynchronizeClientGraph
  <2>2. k.remotes \in SUBSET Remotes
    BY DEF ClientRecs
  <2>3. /\ live \in SUBSET Remotes /\ fresh \subseteq live /\ live \subseteq k.replica
        /\ live \subseteq k.remotes /\ live \subseteq k.bound \cup fresh
    BY <2>2
  <2>. HIDE DEF live, fresh
  <2>4. /\ t \in ClientRecs /\ SameTalk(k, t) /\ t.remotes = k.remotes /\ t.known = k.known
        /\ t.replica = k.replica /\ t.age = k.age
        /\ t.registry = k.registry \cup fresh /\ t.bound = k.bound \cup fresh
        /\ t.published = k.published \cup live
    BY <2>3 DEF ClientRecs, SameTalk
  <2>. HIDE DEF t
  <2>5. Publishes(k, t)
    BY <2>3, <2>4 DEF Publishes
  <2>. QED
    BY <2>1, <2>5
<1>. QED
  BY <1>1, <1>2

LEMMA SynchronizesReady ==
    ASSUME NEW k, ClientOK(k), Runs(k), k.attached,
           NEW result, result = SynchronizeClientGraph(k)
    PROVE  Outcome(k, result)
<1>1. /\ k \in ClientRecs /\ k.published \subseteq k.registry /\ k.published \subseteq k.replica
      /\ k.published \subseteq k.known /\ k.bound \subseteq k.registry /\ k.remotes \subseteq k.known
  BY DEF ClientOK
<1>2. \/ result = Fails(k, "registry")
      \/ \E t : result = Continues(t) /\ Publishes(k, t)
  BY <1>1, Synchronizing
<1>3. ASSUME NEW t, result = Continues(t), Publishes(k, t)
      PROVE  Outcome(k, result)
  <2>1. Runs(t) /\ ~EndedSession(t)
    BY <1>3 DEF Publishes, SameTalk, Runs, EndedSession
  <2>2. ClientOK(t)
    BY <1>3, <2>1 DEF Publishes, SameTalk, ClientOK
  <2>. QED
    BY <1>3, <2>1, <2>2 DEF Outcome, Publishes
<1>. QED
  BY <1>2, <1>3 DEF Outcome

LEMMA ClientPollFrameKeeps ==
    ASSUME SessionsInv, NEW c \in Clients, ClientPollFrame(c)
    PROVE  SessionsInv'
<1>. DEFINE k == client[c]  e == Head(net.toClient[c])  m == [net EXCEPT !.toClient[c] = Tail(@)]
            applied(held) == ApplyFrame(k, e, held)
            followed(held) == FollowFrame(applied(held), e)
            synchronized(held) == IF followed(held).session.attached
                                  THEN SynchronizeClientGraph(followed(held).session)
                                  ELSE followed(held)
            done(held) == IF synchronized(held).cause # "none" THEN synchronized(held)
                          ELSE Continues(TryFinalizeClientBootstrap(synchronized(held).session))
<1>1. /\ Runs(k) /\ net.toClient[c] # <<>> /\ Applies(k, e) /\ server' = server
      /\ \E held : ClientActs(c, done(held), m)
  BY DEF ClientPollFrame
<1>2. PICK held : ClientActs(c, done(held), m)
  BY <1>1
<1>3. Hears(m, c, e)
  BY <1>1, PoppedInbound
<1>. HIDE DEF m, e
<1>4. e \in Frames /\ k.phase \in {"Accepted", "Ready"} /\ ClientOK(k)
  BY <1>1, <1>3, HeardFacts, ClientFacts DEF Applies
<1>. DEFINE a == applied(held)  f == followed(held)  s == synchronized(held)  d == done(held)
<1>5. AppliesOK(a) /\ SameTalk(k, a)
  BY <1>1, <1>4, AppliesFrame
<1>6. Outcome(a, f)
  BY <1>4, <1>5, FollowsFrame
<1>7. s = IF f.session.attached THEN SynchronizeClientGraph(f.session) ELSE f
  OBVIOUS
<1>8. d = IF s.cause # "none" THEN s ELSE Continues(TryFinalizeClientBootstrap(s.session))
  OBVIOUS
<1>. HIDE DEF a, f, s, d
<1>9. Outcome(k, s)
  <2>1. ASSUME NEW j, f = Fails(j, "registry")
        PROVE  Outcome(k, s)
    <3>1. f.session.attached = FALSE
      BY <2>1 DEF Fails, Release, IdleClient
    <3>. QED
      BY <1>7, <2>1, <3>1 DEF Outcome
  <2>2. ASSUME NEW t, f = Continues(t), ClientOK(t), Runs(t), SameTalk(a, t)
        PROVE  Outcome(k, s)
    <3>1. SameTalk(k, t) /\ f.session = t
      BY <1>5, <2>2 DEF SameTalk, Continues
    <3>2. CASE t.attached
      <4>1. Outcome(t, s)
        BY <1>7, <2>2, <3>1, <3>2, SynchronizesReady
      <4>. QED
        BY <3>1, <4>1 DEF Outcome, SameTalk
    <3>3. CASE ~t.attached
      BY <1>7, <2>2, <3>1, <3>3 DEF Outcome
    <3>. QED
      BY <3>2, <3>3
  <2>. QED
    BY <1>6, <2>1, <2>2 DEF Outcome
<1>10. ClientActs(c, d, m)
  BY <1>2 DEF d
<1>11. ASSUME NEW j, s = Fails(j, "registry")
       PROVE  SessionsInv'
  <2>1. s.session = Release(j, "Failed") /\ s.cause = "registry"
    BY <1>11 DEF Fails
  <2>2. d = s /\ s.cause \in Causes \ {"protocol"}
    BY <1>8, <2>1 DEF Causes
  <2>3. /\ m \in Transports /\ m.link = net.link /\ m.toServer = net.toServer
        /\ \A b \in Clients \ {c} : SameNet(net, m, b)
    BY <1>3 DEF Hears
  <2>4. "Failed" \in {"Failed", "Closed"}
    OBVIOUS
  <2>. QED
    BY <1>1, <1>10, <2>1, <2>2, <2>3, <2>4, ClientFails
<1>12. ASSUME NEW t, s = Continues(t), ClientOK(t), Runs(t), SameTalk(k, t)
       PROVE  SessionsInv'
  <2>. DEFINE u == TryFinalizeClientBootstrap(t)
  <2>1. d = Continues(u)
    BY <1>8, <1>12 DEF Continues
  <2>2. ClientOK(u) /\ Runs(u) /\ u.phase = t.phase /\ u.epoch = t.epoch /\ u.queue = t.queue
    BY <1>12, FinalizesOK
  <2>. HIDE DEF u
  <2>3. u.phase = k.phase /\ u.epoch = k.epoch /\ u.queue = k.queue
    BY <1>12, <2>2 DEF SameTalk
  <2>. QED
    BY <1>1, <1>3, <1>4, <1>10, <2>1, <2>2, <2>3, HearsOn
<1>. QED
  BY <1>9, <1>11, <1>12 DEF Outcome

-----------------------------------------------------------------------------
(* A client attaches its runtime, fires and steps.                          *)

\* What is in front of a thinned queue stays, and what is behind it.
LEMMA ThinningBehind ==
    ASSUME NEW a \in Seq(Messages), NEW x \in Seq(Messages), NEW y \in Seq(Messages),
           Thinning(y, x), NEW s, NEW t, s = a \o x, t = a \o y
    PROVE  Thinning(t, s)
<1>. DEFINE l == Len(a)
<1>1. /\ l \in Nat /\ DOMAIN s = 1 .. l + Len(x) /\ DOMAIN x = 1 .. Len(x) /\ Len(x) \in Nat
      /\ \A i \in 1 .. l : s[i] = a[i]
      /\ \A i \in 1 .. Len(x) : s[l + i] = x[i]
  BY ConcatFacts
<1>2. /\ DOMAIN t = 1 .. l + Len(y) /\ DOMAIN y = 1 .. Len(y) /\ Len(y) \in Nat
      /\ \A i \in 1 .. l : t[i] = a[i]
      /\ \A i \in 1 .. Len(y) : t[l + i] = y[i]
  BY ConcatFacts
<1>3. PICK K, r : ThinsBy(y, x, K, r)
  BY DEF Thinning
<1>4. /\ K \in SUBSET DOMAIN x /\ r \in [K -> DOMAIN y]
      /\ \A n \in DOMAIN y : \E k \in K : r[k] = n
      /\ \A j, k \in K : j < k => r[j] < r[k]
      /\ \A k \in K : y[r[k]] = x[k]
      /\ \A i \in DOMAIN x : i \notin K => x[i].type = "datagram"
  BY <1>3 DEF ThinsBy
<1>. HIDE DEF l
<1>. DEFINE J == {i \in DOMAIN s : i <= l \/ i - l \in K}
            p == [i \in J |-> IF i <= l THEN i ELSE l + r[i - l]]
<1>5. \A i \in DOMAIN s : i \in Int /\ (i <= l => i \in 1 .. l) /\ (i > l => i - l \in 1 .. Len(x) /\ i = l + (i - l))
  BY <1>1
<1>6. \A k \in K : k \in 1 .. Len(x) /\ r[k] \in 1 .. Len(y) /\ r[k] \in Int
  BY <1>1, <1>2, <1>4
<1>7. \A i \in J : \/ i \in 1 .. l /\ p[i] = i
                   \/ i > l /\ i - l \in K /\ p[i] = l + r[i - l]
  <2>. SUFFICES ASSUME NEW i \in J
                PROVE  (i \in 1 .. l /\ p[i] = i) \/ (i > l /\ i - l \in K /\ p[i] = l + r[i - l])
    OBVIOUS
  <2>1. CASE i <= l
    BY <1>5, <2>1
  <2>2. CASE ~(i <= l)
    <3>1. i > l
      BY <1>1, <1>5, <2>2
    <3>. QED
      BY <2>2, <3>1
  <2>. QED
    BY <2>1, <2>2
<1>8. \A k \in K : l + k \in J /\ p[l + k] = l + r[k]
  <2>. SUFFICES ASSUME NEW k \in K PROVE l + k \in J /\ p[l + k] = l + r[k]
    OBVIOUS
  <2>1. l + k \in DOMAIN s /\ (l + k) - l = k /\ ~(l + k <= l)
    BY <1>1, <1>6
  <2>. QED
    BY <2>1
<1>9. \A i \in 1 .. l : i \in J /\ p[i] = i
  BY <1>1
<1>10. J \in SUBSET DOMAIN s
  OBVIOUS
<1>11. \A i \in J : p[i] \in DOMAIN t
  <2>. SUFFICES ASSUME NEW i \in J PROVE p[i] \in DOMAIN t
    OBVIOUS
  <2>. HIDE DEF J, p
  <2>1. CASE i \in 1 .. l /\ p[i] = i
    BY <1>1, <1>2, <2>1
  <2>2. CASE i - l \in K /\ p[i] = l + r[i - l]
    <3>1. r[i - l] \in 1 .. Len(y)
      BY <1>6, <2>2
    <3>. QED
      BY <1>1, <1>2, <2>2, <3>1
  <2>. QED
    BY <1>7, <2>1, <2>2
<1>12. p \in [J -> DOMAIN t]
  BY <1>11
<1>. HIDE DEF J, p
<1>13. ASSUME NEW n \in DOMAIN t PROVE \E i \in J : p[i] = n
  <2>1. CASE n <= l
    <3>1. n \in 1 .. l
      BY <1>1, <1>2, <2>1
    <3>. QED
      BY <1>9, <3>1
  <2>2. CASE n > l
    <3>1. n - l \in DOMAIN y /\ n = l + (n - l)
      BY <1>1, <1>2, <2>2
    <3>2. PICK k \in K : r[k] = n - l
      BY <1>4, <3>1
    <3>. QED
      BY <1>8, <3>1, <3>2
  <2>. QED
    BY <1>1, <1>2, <2>1, <2>2
<1>14. ASSUME NEW i \in J, NEW j \in J, i < j PROVE p[i] < p[j]
  <2>1. i \in Int /\ j \in Int /\ l \in Int
    BY <1>1, <1>5, <1>10
  <2>2. CASE i \in 1 .. l /\ p[i] = i
    <3>1. CASE j \in 1 .. l /\ p[j] = j
      BY <1>14, <2>2, <3>1
    <3>2. CASE j > l /\ j - l \in K /\ p[j] = l + r[j - l]
      <4>1. r[j - l] \in 1 .. Len(y)
        BY <1>6, <3>2
      <4>. QED
        BY <1>2, <2>1, <2>2, <3>2, <4>1
    <3>. QED
      BY <1>7, <3>1, <3>2
  <2>3. CASE i > l /\ i - l \in K /\ p[i] = l + r[i - l]
    <3>1. j > l /\ j - l \in K /\ p[j] = l + r[j - l]
      BY <1>7, <1>14, <2>1, <2>3
    <3>2. i - l < j - l
      BY <1>14, <2>1
    <3>3. r[i - l] < r[j - l]
      BY <1>4, <2>3, <3>1, <3>2
    <3>4. r[i - l] \in Int /\ r[j - l] \in Int
      BY <1>6, <2>3, <3>1
    <3>5. l + r[i - l] < l + r[j - l]
      <4>. DEFINE u == r[i - l]  v == r[j - l]
      <4>1. u \in Int /\ v \in Int /\ u < v
        BY <3>3, <3>4
      <4>. HIDE DEF u, v
      <4>2. l + u < l + v
        BY <2>1, <4>1
      <4>. QED
        BY <4>2 DEF u, v
    <3>. QED
      BY <2>3, <3>1, <3>5
  <2>. QED
    BY <1>7, <2>2, <2>3
<1>15. ASSUME NEW i \in J PROVE t[p[i]] = s[i]
  <2>1. CASE i \in 1 .. l /\ p[i] = i
    BY <1>1, <1>2, <2>1
  <2>2. CASE i > l /\ i - l \in K /\ p[i] = l + r[i - l]
    <3>1. s[l + (i - l)] = x[i - l] /\ t[l + r[i - l]] = y[r[i - l]] /\ i = l + (i - l)
      BY <1>1, <1>2, <1>5, <1>6, <1>10, <2>2
    <3>. QED
      BY <1>4, <2>2, <3>1
  <2>. QED
    BY <1>7, <2>1, <2>2
<1>16. ASSUME NEW i \in DOMAIN s, i \notin J PROVE s[i].type = "datagram"
  <2>1. i > l /\ i - l \notin K /\ i - l \in 1 .. Len(x) /\ i = l + (i - l)
    BY <1>1, <1>5, <1>16 DEF J
  <2>2. s[l + (i - l)] = x[i - l]
    BY <1>1, <2>1
  <2>. QED
    BY <1>1, <1>4, <2>1, <2>2
<1>17. ThinsBy(t, s, J, p)
  BY <1>10, <1>12, <1>13, <1>14, <1>15, <1>16 DEF ThinsBy
<1>. QED
  BY <1>17 DEF Thinning

LEMMA ThinningBefore ==
    ASSUME NEW x \in Seq(Messages), NEW y \in Seq(Messages), NEW a \in Seq(Messages),
           Thinning(y, x), NEW s, NEW t, s = x \o a, t = y \o a
    PROVE  Thinning(t, s)
<1>. DEFINE l == Len(x)  h == Len(y)
<1>1. /\ l \in Nat /\ DOMAIN s = 1 .. l + Len(a) /\ DOMAIN x = 1 .. l /\ Len(a) \in Nat
      /\ \A i \in 1 .. l : s[i] = x[i]
      /\ \A i \in 1 .. Len(a) : s[l + i] = a[i]
  BY ConcatFacts
<1>2. /\ h \in Nat /\ DOMAIN t = 1 .. h + Len(a) /\ DOMAIN y = 1 .. h
      /\ \A i \in 1 .. h : t[i] = y[i]
      /\ \A i \in 1 .. Len(a) : t[h + i] = a[i]
  BY ConcatFacts
<1>3. PICK K, r : ThinsBy(y, x, K, r)
  BY DEF Thinning
<1>4. /\ K \in SUBSET DOMAIN x /\ r \in [K -> DOMAIN y]
      /\ \A n \in DOMAIN y : \E k \in K : r[k] = n
      /\ \A j, k \in K : j < k => r[j] < r[k]
      /\ \A k \in K : y[r[k]] = x[k]
      /\ \A i \in DOMAIN x : i \notin K => x[i].type = "datagram"
  BY <1>3 DEF ThinsBy
<1>. HIDE DEF l, h
<1>. DEFINE J == {i \in DOMAIN s : i > l \/ i \in K}
            p == [i \in J |-> IF i <= l THEN r[i] ELSE h + (i - l)]
<1>5. \A k \in K : k \in 1 .. l /\ r[k] \in 1 .. h /\ r[k] \in Int
  BY <1>1, <1>2, <1>4
<1>6. \A i \in DOMAIN s : i \in Int /\ (i > l => i - l \in 1 .. Len(a) /\ i = l + (i - l))
  BY <1>1
<1>7. \A i \in J : \/ i \in K /\ i <= l /\ p[i] = r[i]
                   \/ i > l /\ i - l \in 1 .. Len(a) /\ p[i] = h + (i - l)
  BY <1>1, <1>5, <1>6
<1>8. \A k \in K : k \in J /\ p[k] = r[k]
  BY <1>1, <1>5
<1>9. \A i \in 1 .. Len(a) : l + i \in J /\ p[l + i] = h + i
  <2>. SUFFICES ASSUME NEW i \in 1 .. Len(a) PROVE l + i \in J /\ p[l + i] = h + i
    OBVIOUS
  <2>1. l + i \in DOMAIN s /\ (l + i) - l = i /\ l + i > l
    BY <1>1
  <2>. QED
    BY <1>1, <2>1
<1>10. J \in SUBSET DOMAIN s
  OBVIOUS
<1>11. \A i \in J : p[i] \in DOMAIN t
  BY <1>1, <1>2, <1>5, <1>7
<1>12. p \in [J -> DOMAIN t]
  BY <1>11
<1>13. ASSUME NEW i \in DOMAIN s, i \notin J PROVE i \in 1 .. l /\ i \notin K
  BY <1>1, <1>13
<1>. HIDE DEF J, p
<1>14. ASSUME NEW n \in DOMAIN t PROVE \E i \in J : p[i] = n
  <2>1. CASE n <= h
    <3>1. n \in DOMAIN y
      BY <1>2, <2>1
    <3>. QED
      BY <1>4, <1>8, <3>1
  <2>2. CASE n > h
    <3>1. n - h \in 1 .. Len(a) /\ n = h + (n - h)
      BY <1>1, <1>2, <2>2
    <3>. QED
      BY <1>9, <3>1
  <2>. QED
    BY <1>2, <2>1, <2>2
<1>15. ASSUME NEW i \in J, NEW j \in J, i < j PROVE p[i] < p[j]
  <2>1. i \in Int /\ j \in Int /\ l \in Int /\ h \in Int
    BY <1>1, <1>2, <1>6, <1>10
  <2>2. CASE i > l /\ i - l \in 1 .. Len(a) /\ p[i] = h + (i - l)
    <3>1. j > l /\ p[j] = h + (j - l)
      BY <1>7, <1>15, <2>1, <2>2
    <3>. QED
      BY <1>15, <2>1, <2>2, <3>1
  <2>3. CASE i \in K /\ i <= l /\ p[i] = r[i]
    <3>1. CASE j \in K /\ j <= l /\ p[j] = r[j]
      BY <1>4, <1>15, <2>3, <3>1
    <3>2. CASE j > l /\ j - l \in 1 .. Len(a) /\ p[j] = h + (j - l)
      BY <1>5, <2>1, <2>3, <3>2
    <3>. QED
      BY <1>7, <3>1, <3>2
  <2>. QED
    BY <1>7, <2>2, <2>3
<1>16. ASSUME NEW i \in J PROVE t[p[i]] = s[i]
  <2>1. CASE i \in K /\ i <= l /\ p[i] = r[i]
    BY <1>1, <1>2, <1>4, <1>5, <2>1
  <2>2. CASE i > l /\ i - l \in 1 .. Len(a) /\ p[i] = h + (i - l)
    <3>1. s[l + (i - l)] = a[i - l] /\ t[h + (i - l)] = a[i - l] /\ i = l + (i - l)
      BY <1>1, <1>2, <1>6, <1>10, <2>2
    <3>. QED
      BY <2>2, <3>1
  <2>. QED
    BY <1>7, <2>1, <2>2
<1>17. ASSUME NEW i \in DOMAIN s, i \notin J PROVE s[i].type = "datagram"
  BY <1>1, <1>4, <1>13, <1>17
<1>18. ThinsBy(t, s, J, p)
  BY <1>10, <1>12, <1>14, <1>15, <1>16, <1>17 DEF ThinsBy
<1>. QED
  BY <1>18 DEF Thinning

\* A Step hands the reliable messages of d over in order.
LEMMA ThinningKeepsReliable ==
    ASSUME NEW d \in Seq(Messages), NEW f, f = Subsequence(d, {i \in DOMAIN d : d[i].type # "datagram"})
    PROVE  f \in Seq(Messages) /\ Thinning(f, d)
<1>. DEFINE K == {i \in DOMAIN d : d[i].type # "datagram"}  r == Rank(K)
<1>1. Len(d) \in Nat /\ DOMAIN d = 1 .. Len(d) /\ K \in SUBSET DOMAIN d /\ f = Subsequence(d, K)
  OBVIOUS
<1>2. \A i \in DOMAIN d : i \notin K => d[i].type = "datagram"
  OBVIOUS
<1>. HIDE DEF K
<1>3. /\ f \in Seq(Messages) /\ DOMAIN f = 1 .. Cardinality(K)
      /\ \A k \in K : r[k] \in DOMAIN f /\ f[r[k]] = d[k]
  <2>1. /\ Subsequence(d, K) \in Seq(Messages) /\ Len(Subsequence(d, K)) = Cardinality(K)
        /\ \A k \in K : /\ Rank(K)[k] \in DOMAIN Subsequence(d, K)
                        /\ Subsequence(d, K)[Rank(K)[k]] = d[k]
    BY <1>1, SubsequenceElements
  <2>2. f = Subsequence(d, K) /\ r = Rank(K)
    BY <1>1
  <2>. HIDE DEF r
  <2>3. f \in Seq(Messages) /\ Len(f) = Cardinality(K)
    BY <2>1, <2>2
  <2>4. \A k \in K : r[k] \in DOMAIN f /\ f[r[k]] = d[k]
    BY <2>1, <2>2
  <2>. QED
    BY <2>3, <2>4
<1>4. \A n \in DOMAIN f : \E k \in K : r[k] = n
  BY <1>1, <1>3, RankBijection
<1>5. \A j, k \in K : j < k => r[j] < r[k]
  BY <1>1, RankOrder
<1>6. r \in [K -> DOMAIN f]
  BY <1>3 DEF Rank
<1>. HIDE DEF r
<1>7. ThinsBy(f, d, K, r)
  BY <1>1, <1>2, <1>3, <1>4, <1>5, <1>6 DEF ThinsBy
<1>. QED
  BY <1>3, <1>7 DEF Thinning

\* A message is put into an empty queue.
LEMMA EnqueuedAlone ==
    ASSUME NEW m \in Messages, NEW q, q = Enqueue(<<>>, m)
    PROVE  q = <<m>> /\ q \in Seq(Messages) /\ Sorted(q)
<1>1. <<>> \in Seq(Messages) /\ Len(<<>>) = 0 /\ Sorted(<<>>)
  BY DEF Sorted
<1>2. /\ Enqueue(<<>>, m) \in Seq(Messages) /\ Sorted(Enqueue(<<>>, m))
      /\ Inserted(<<>>, Enqueue(<<>>, m), Ahead(<<>>, m) + 1, m)
  BY <1>1, EnqueueInserts
<1>. DEFINE k == Ahead(<<>>, m) + 1
<1>3. /\ k \in 1 .. 1 /\ Len(q) = 1
      /\ \A i \in 1 .. Len(q) : q[i] = IF i < k THEN <<>>[i] ELSE IF i = k THEN m ELSE <<>>[i - 1]
  BY <1>1, <1>2 DEF Inserted
<1>. HIDE DEF k
<1>4. k = 1 /\ q[1] = m
  BY <1>3
<1>. QED
  BY <1>2, <1>3, <1>4

\* The connection of a client that is past its transport's connection.
LEMMA Linked ==
    ASSUME SessionsInv, NEW c \in Clients, Runs(client[c]), client[c].phase # "Absent",
           NEW k, k.status # "Created"
    PROVE  LinkOK(server, k, net, c)
<1>1. LinkOK(server, client[c], net, c) /\ Stage(client[c]) = client[c].phase
  BY ClientFacts
<1>. QED
  BY <1>1 DEF LinkOK

LEMMA ClientAttachKeeps ==
    ASSUME SessionsInv, NEW c \in Clients, ClientAttach(c)
    PROVE  SessionsInv'
<1>. DEFINE o == client[c]  k == [o EXCEPT !.materialized = o.known]
            graph == SynchronizeClientGraph(k)
            Ready(g) == [g.session EXCEPT !.attached = TRUE, !.phase = "Ready", !.age = 0,
                            !.status = "Ready", !.queue = Enqueue(@, ClientReady(k.epoch))]
            result(fails) == IF fails THEN Fails(k, "resource") ELSE Continues(Ready(graph))
<1>1. /\ o.status = "Accepted" /\ Runs(o) /\ server' = server
      /\ \E fails \in BOOLEAN : ClientActs(c, result(fails), net)
  BY DEF ClientAttach
<1>2. PICK fails \in BOOLEAN : ClientActs(c, result(fails), net)
  BY <1>1
<1>3. /\ ClientOK(o) /\ o \in ClientRecs /\ net \in Transports /\ o.phase = "Accepted"
      /\ o.queue = <<>> /\ o.registry = {} /\ Stage(o) = "Accepted" /\ Pair(server, o, net, c)
  <2>1. ClientOK(o) /\ o \in ClientRecs /\ net \in Transports /\ Stage(o) = o.phase /\ Pair(server, o, net, c)
    BY <1>1, ClientFacts
  <2>. QED
    BY <1>1, <2>1 DEF ClientOK
<1>4. \A d \in Clients \ {c} : SameNet(net, net, d)
  BY DEF SameNet
<1>5. CASE fails
  <2>1. /\ result(fails).session = Release(k, "Failed") /\ result(fails).cause = "resource"
        /\ result(fails).cause \in Causes \ {"protocol"} /\ "Failed" \in {"Failed", "Closed"}
    BY <1>5 DEF Fails, Causes
  <2>. HIDE DEF result, k
  <2>. QED
    BY <1>1, <1>2, <1>3, <1>4, <2>1, ClientFails
<1>6. CASE ~fails
  <2>1. o.known \in SUBSET Remotes
    BY <1>3 DEF ClientRecs
  <2>2. /\ k \in ClientRecs /\ SameTalk(o, k) /\ k.registry = o.registry /\ k.bound = o.bound
        /\ k.published = o.published /\ k.replica = o.replica /\ k.known = o.known
        /\ k.remotes = o.remotes
    BY <1>3, <2>1 DEF ClientRecs, SameTalk
  <2>3. /\ k.published \subseteq k.registry /\ k.published \subseteq k.replica
        /\ k.published \subseteq k.known /\ k.bound \subseteq k.registry /\ k.remotes \subseteq k.known
        /\ k.registry = {}
    BY <1>3, <2>2 DEF ClientOK
  <2>4. result(fails) = Continues(Ready(graph))
    BY <1>6
  <2>. HIDE DEF k
  <2>5. \E t : graph = Continues(t) /\ Publishes(k, t)
    BY <2>2, <2>3, Synchronizing
  <2>6. PICK t : graph = Continues(t) /\ Publishes(k, t)
    BY <2>5
  <2>. DEFINE r == ClientReady(k.epoch)  u == Ready(graph)
  <2>7. r \in Messages /\ k.epoch = o.epoch /\ o.epoch \in Nat
    BY <1>3, <2>2 DEF ClientReady, Messages, Numbered, SameTalk, ClientRecs
  <2>8. /\ t \in ClientRecs /\ t.queue = <<>> /\ t.epoch = o.epoch /\ t.hung = o.hung
        /\ t.published \subseteq t.registry /\ t.published \subseteq t.replica
        /\ t.published \subseteq t.known /\ t.bound \subseteq t.registry /\ t.remotes \subseteq t.known
    BY <1>3, <2>2, <2>3, <2>6 DEF Publishes, SameTalk
  <2>9. u = [t EXCEPT !.attached = TRUE, !.phase = "Ready", !.age = 0, !.status = "Ready",
                      !.queue = Enqueue(<<>>, r)]
    <3>. DEFINE g == graph.session
    <3>1. g = t
      BY <2>6 DEF Continues
    <3>2. u = [g EXCEPT !.attached = TRUE, !.phase = "Ready", !.age = 0, !.status = "Ready",
                        !.queue = Enqueue(@, r)]
      OBVIOUS
    <3>. HIDE DEF g, u, r
    <3>3. u = [t EXCEPT !.attached = TRUE, !.phase = "Ready", !.age = 0, !.status = "Ready",
                        !.queue = Enqueue(t.queue, r)]
      BY <3>1, <3>2
    <3>. QED
      BY <2>8, <3>3
  <2>. DEFINE q == Enqueue(<<>>, r)
  <2>. HIDE DEF r, u
  <2>10. q = <<r>> /\ q \in Seq(Messages) /\ Sorted(q)
    BY <2>7, EnqueuedAlone
  <2>. HIDE DEF q
  <2>11. u = [t EXCEPT !.attached = TRUE, !.phase = "Ready", !.age = 0, !.status = "Ready", !.queue = q]
    BY <2>9 DEF q
  <2>12. 0 \in 0 .. HandshakeTimeoutTicks
    BY SessionAssumption
  <2>13. u \in ClientRecs
    BY <2>8, <2>10, <2>11, <2>12 DEF ClientRecs, Phases
  <2>14. /\ u.attached = TRUE /\ u.phase = "Ready" /\ u.status = "Ready" /\ u.queue = q
         /\ u.epoch = o.epoch /\ u.hung = o.hung /\ u.registry = t.registry /\ u.bound = t.bound
         /\ u.published = t.published /\ u.replica = t.replica /\ u.known = t.known
         /\ u.remotes = t.remotes
    BY <2>8, <2>11 DEF ClientRecs
  <2>15. ~EndedSession(u) /\ Stage(u) = "Ready" /\ u.status # "Created"
    BY <2>14 DEF EndedSession, Stage
  <2>16. ClientOK(u)
    BY <2>8, <2>10, <2>13, <2>14, <2>15 DEF ClientOK
  <2>17. Pair(server, u, net, c)
    <3>. DEFINE P == server.peers[c].phase  E == server.peers[c].epoch  X == o.epoch
                up == net.link[c] = "up"  in == Inbound(server, net, c)
                out == Outbound(o, net, c)  n == Outbound(u, net, c)
    <3>1. HandshakeOK(P, E, "Accepted", X, up, in, out)
      BY <1>3 DEF Pair
    <3>2. n = IF up THEN Append(out, ClientReady(X)) ELSE out
      <4>. DEFINE a == net.toServer[c]
      <4>1. up => n = a \o <<r>> /\ out = a \o <<>>
        BY <1>3, <2>10, <2>14 DEF Outbound
      <4>2. ~up => n = a /\ out = a
        BY DEF Outbound
      <4>3. a \in Seq(Messages)
        BY <1>3 DEF Transports, PerClient
      <4>. HIDE DEF a
      <4>4. a \o <<r>> = Append(a \o <<>>, r)
        BY <2>7, <4>3
      <4>5. r = ClientReady(X)
        BY <2>7 DEF r
      <4>. QED
        BY <4>1, <4>2, <4>4, <4>5
    <3>3. X \in Nat
      BY <2>7
    <3>. HIDE DEF P, E, X, up, in, out, n
    <3>4. HandshakeOK(P, E, "Ready", X, up, in, n)
      BY <3>1, <3>2, <3>3, ClientAttached
    <3>. QED
      BY <2>14, <2>15, <3>4 DEF Pair, P, E, X, up, in, n
  <2>18. LinkOK(server, u, net, c)
    BY <1>1, <1>3, <2>15, Linked
  <2>19. ClientActs(c, result(fails), net) /\ result(fails) = Continues(u)
    BY <1>2, <2>4 DEF u
  <2>. HIDE DEF result
  <2>. QED
    BY <1>1, <1>3, <1>4, <2>15, <2>16, <2>17, <2>18, <2>19, ClientContinues
<1>. QED
  BY <1>5, <1>6

LEMMA ClientFireKeeps ==
    ASSUME SessionsInv, NEW c \in Clients, ClientFire(c)
    PROVE  SessionsInv'
<1>. DEFINE k == client[c]
<1>1. /\ Runs(k) /\ k.published # {} /\ server' = server /\ net' = net /\ ended' = ended
      /\ \E m \in {Reliable, Datagram} : client' = [client EXCEPT ![c].queue = Enqueue(@, m)]
  BY DEF ClientFire
<1>2. PICK m \in {Reliable, Datagram} : client' = [client EXCEPT ![c].queue = Enqueue(@, m)]
  BY <1>1
<1>3. m \in Messages /\ m.type \in {"app", "datagram"}
  BY DEF Reliable, Datagram, Messages, Signals
<1>4. /\ ClientOK(k) /\ k \in ClientRecs /\ net \in Transports /\ Stage(k) = k.phase
      /\ Pair(server, k, net, c) /\ EndedOK(ended)
  BY <1>1, ClientFacts
<1>5. k.phase = "Ready" /\ k.queue \in Seq(Messages) /\ Sorted(k.queue)
  BY <1>1, <1>4 DEF ClientOK, ClientRecs
<1>. DEFINE q == Enqueue(k.queue, m)  j == [k EXCEPT !.queue = q]  h == Ahead(k.queue, m) + 1
<1>6. /\ q \in Seq(Messages) /\ Sorted(q) /\ Inserted(k.queue, q, h, m)
  BY <1>3, <1>5, EnqueueInserts
<1>7. \A i \in DOMAIN k.queue : k.queue[i].type = "ready" => i < h
  <2>1. /\ Ahead(k.queue, m) \in 0 .. Len(k.queue)
        /\ \A i \in DOMAIN k.queue : i <= Ahead(k.queue, m) <=> Precedence(k.queue[i]) <= Precedence(m)
    BY <1>5, AheadFirst
  <2>2. ASSUME NEW i \in DOMAIN k.queue, k.queue[i].type = "ready" PROVE i < h
    <3>1. Precedence(k.queue[i]) = 1 /\ Precedence(m) \in {1, 2, 3}
      BY <2>2, PrecedenceType
    <3>2. i <= Ahead(k.queue, m) /\ i \in Int
      BY <1>5, <2>1, <3>1
    <3>. QED
      BY <2>1, <3>2
  <2>. QED
    BY <2>2
<1>8. client' = [client EXCEPT ![c] = j]
  BY <1>2
<1>. HIDE DEF q, h
<1>9. /\ j \in ClientRecs /\ j.queue = q /\ j.status = k.status /\ j.phase = k.phase
      /\ j.epoch = k.epoch /\ j.attached = k.attached /\ j.registry = k.registry /\ j.bound = k.bound
      /\ j.published = k.published /\ j.replica = k.replica /\ j.known = k.known /\ j.remotes = k.remotes
  BY <1>4, <1>6 DEF ClientRecs
<1>. HIDE DEF j
<1>10. Stage(j) = "Ready" /\ ~EndedSession(j) /\ j.status # "Created"
  BY <1>1, <1>5, <1>9 DEF Stage, EndedSession, Runs
<1>11. ClientOK(j)
  BY <1>4, <1>5, <1>6, <1>9, <1>10 DEF ClientOK
<1>12. Pair(server, j, net, c)
  <2>. DEFINE P == server.peers[c].phase  E == server.peers[c].epoch  X == k.epoch
              up == net.link[c] = "up"  in == Inbound(server, net, c)
              out == Outbound(k, net, c)  n == Outbound(j, net, c)
  <2>1. HandshakeOK(P, E, "Ready", X, up, in, out)
    BY <1>4, <1>5 DEF Pair
  <2>2. CASE ~up
    <3>1. n = out
      BY <2>2 DEF Outbound
    <3>. QED
      BY <1>9, <1>10, <2>1, <3>1 DEF Pair
  <2>3. CASE up
    <3>. DEFINE a == net.toServer[c]  s == k.queue
    <3>1. out = a \o s /\ n = a \o q
      BY <1>9, <2>3 DEF Outbound
    <3>2. a \in Seq(Messages) /\ s \in Seq(Messages) /\ Inserted(s, q, h, m)
      BY <1>4, <1>5, <1>6 DEF Transports, PerClient
    <3>3. \A i \in DOMAIN s : s[i].type = "ready" => i < h
      BY <1>7
    <3>4. up = TRUE
      BY <2>3
    <3>. HIDE DEF P, E, X, up, in, out, n, a, s
    <3>5. Inserted(out, n, Len(a) + h, m)
      BY <1>6, <3>1, <3>2, InsertedBehind
    <3>6. n \in Seq(Messages)
      BY <1>6, <3>1, <3>2
    <3>7. ASSUME NEW i \in DOMAIN out, out[i].type = "ready" PROVE i < Len(a) + h
      <4>1. /\ DOMAIN out = 1 .. Len(a) + Len(s) /\ Len(a) \in Nat /\ Len(s) \in Nat
            /\ DOMAIN s = 1 .. Len(s) /\ \A b \in 1 .. Len(s) : out[Len(a) + b] = s[b]
        BY <3>1, <3>2, ConcatFacts
      <4>2. h \in Int /\ h >= 1
        BY <3>2, <4>1 DEF Inserted
      <4>. DEFINE b == i - Len(a)
      <4>3. CASE i <= Len(a)
        BY <4>1, <4>2, <4>3
      <4>4. CASE i > Len(a)
        <5>1. b \in 1 .. Len(s) /\ Len(a) + b = i
          BY <4>1, <4>4
        <5>2. s[b].type = "ready"
          <6>1. out[Len(a) + b] = s[b]
            BY <4>1, <5>1
          <6>. QED
            BY <3>7, <5>1, <6>1
        <5>3. b < h
          BY <3>3, <4>1, <5>1, <5>2
        <5>. QED
          BY <4>1, <4>2, <5>3
      <4>. QED
        BY <4>1, <4>3, <4>4
    <3>8. HandshakeOK(P, E, "Ready", X, TRUE, in, n)
      BY <1>3, <2>1, <3>4, <3>5, <3>6, <3>7, ClientFires
    <3>9. Stage(j) = "Ready" /\ j.epoch = X
      BY <1>9, <1>10 DEF X
    <3>. QED
      BY <3>4, <3>8, <3>9 DEF Pair, P, E, up, in, n
  <2>. QED
    BY <2>2, <2>3
<1>13. LinkOK(server, j, net, c)
  BY <1>1, <1>5, <1>10, Linked
<1>14. \A d \in Clients \ {c} : SameNet(net, net, d)
  BY DEF SameNet
<1>15. EndedOK(ended')
  BY <1>1, <1>4 DEF EndedOK
<1>. QED
  BY <1>1, <1>4, <1>8, <1>11, <1>12, <1>13, <1>14, <1>15, ClientMoves

\* Three queues put together from either side.
Joins(t, a, x) == t = a \o x

LEMMA ConcatThrice ==
    ASSUME NEW a \in Seq(Messages), NEW b \in Seq(Messages), NEW d \in Seq(Messages),
           NEW x, Joins(x, b, d), NEW y, Joins(y, a, b), NEW t, Joins(t, y, d)
    PROVE  Joins(t, a, x)
<1>1. (a \o b) \o d = a \o (b \o d)
  OBVIOUS
<1>. QED
  BY <1>1 DEF Joins

\* The reliable messages of a queue.
InOrder(d) == Subsequence(d, {i \in DOMAIN d : d[i].type # "datagram"})

\* A Step hands over the front d of a client's queue without its datagrams.
LEMMA HandsOver ==
    ASSUME NEW a \in Seq(Messages), NEW q \in Seq(Messages), NEW n, NEW d, NEW r, Flushed(q, n, d, r),
           NEW f, f = InOrder(d),
           NEW s, NEW t, s = a \o q, t = (a \o f) \o r
    PROVE  f \in Seq(Messages) /\ t \in Seq(Messages) /\ Thinning(t, s)
<1>1. d \in Seq(Messages) /\ r \in Seq(Messages) /\ q = d \o r
  BY DEF Flushed
<1>2. f \in Seq(Messages) /\ Thinning(f, d)
  BY <1>1, ThinningKeepsReliable DEF InOrder
<1>. DEFINE x == f \o r
<1>3. x \in Seq(Messages) /\ t = a \o x /\ t \in Seq(Messages)
  <2>1. x \in Seq(Messages) /\ t \in Seq(Messages)
    BY <1>1, <1>2
  <2>. DEFINE y == a \o f
  <2>2. Joins(x, f, r) /\ Joins(y, a, f) /\ Joins(t, y, r)
    BY DEF Joins
  <2>. HIDE DEF x, y
  <2>3. Joins(t, a, x)
    BY <1>1, <1>2, <2>2, ConcatThrice
  <2>. QED
    BY <2>1, <2>3 DEF Joins
<1>4. Thinning(x, q)
  BY <1>1, <1>2, ThinningBefore
<1>. HIDE DEF x
<1>5. Thinning(t, s)
  BY <1>3, <1>4, ThinningBehind
<1>. QED
  BY <1>2, <1>3, <1>5

\* The transport after messages f and some datagrams are handed to it.
Passing(m, c, f, i) == [m EXCEPT !.toServer[c] = @ \o f, !.datagrams[c] = i]
Passed(m, c, f, p) ==
    /\ p \in Transports /\ p.link = m.link /\ p.toClient = m.toClient
    /\ p.toServer[c] = m.toServer[c] \o f
    /\ \A d \in Clients \ {c} : SameNet(m, p, d)

LEMMA Passes ==
    ASSUME NEW m \in Transports, NEW c \in Clients, NEW f \in Seq(Messages), NEW i \in Int,
           NEW p, p = Passing(m, c, f, i)
    PROVE  Passed(m, c, f, p)
<1>. DEFINE x == m.toServer[c] \o f  o == [m.toServer EXCEPT ![c] = x]  g == [m.datagrams EXCEPT ![c] = i]
<1>1. /\ m.link \in PerClient({"none", "up", "down"}) /\ m.toClient \in PerClient(Seq(Messages))
      /\ m.toServer \in PerClient(Seq(Messages)) /\ m.datagrams \in PerClient(Int)
  BY DEF Transports
<1>2. x \in Seq(Messages)
  BY <1>1 DEF PerClient
<1>3. p = [m EXCEPT !.toServer = o, !.datagrams = g]
  BY DEF Transports, Passing
<1>. HIDE DEF x
<1>4. o \in PerClient(Seq(Messages)) /\ o[c] = x /\ \A d \in Clients \ {c} : o[d] = m.toServer[d]
  BY <1>1, <1>2 DEF PerClient
<1>5. g \in PerClient(Int)
  BY <1>1 DEF PerClient
<1>. HIDE DEF o, g
<1>6. p \in Transports /\ p.link = m.link /\ p.toClient = m.toClient /\ p.toServer = o
  BY <1>1, <1>3, <1>4, <1>5 DEF Transports
<1>7. \A d \in Clients \ {c} : SameNet(m, p, d)
  BY <1>4, <1>6 DEF SameNet
<1>. QED
  BY <1>4, <1>6, <1>7 DEF x, Passed

LEMMA ClientStepKeeps ==
    ASSUME SessionsInv, NEW c \in Clients, ClientStep(c)
    PROVE  SessionsInv'
<1>. DEFINE k == client[c]  q == k.queue  waiting == k.phase # "Ready"
            age == IF waiting THEN Tick(k.age) ELSE 0
            sent(n) == SubSeq(q, 1, n)
            next(n) == [k EXCEPT !.age = age, !.queue = AfterFlush(@, Len(sent(n)))]
            inOrder(n) == Subsequence(sent(n), {i \in DOMAIN sent(n) : sent(n)[i].type # "datagram"})
            passed(n, lost) ==
                IF net.link[c] # "up" THEN net
                ELSE [net EXCEPT !.toServer[c] = @ \o inOrder(n),
                                 !.datagrams[c] = IF lost THEN @ ELSE @ + Len(sent(n)) - Len(inOrder(n))]
<1>1. /\ Runs(k) /\ k.phase # "Absent" /\ server' = server
      /\ \E n \in 0 .. MaxBurst, lost \in BOOLEAN :
            /\ n <= Len(q)
            /\ IF waiting /\ age >= HandshakeTimeoutTicks
               THEN ClientActs(c, Fails(k, "timeout"), net)
               ELSE ClientActs(c, Continues(next(n)), passed(n, lost))
  BY DEF ClientStep
<1>2. PICK n \in 0 .. MaxBurst, lost \in BOOLEAN :
            /\ n <= Len(q)
            /\ IF waiting /\ age >= HandshakeTimeoutTicks
               THEN ClientActs(c, Fails(k, "timeout"), net)
               ELSE ClientActs(c, Continues(next(n)), passed(n, lost))
  BY <1>1
<1>3. /\ ClientOK(k) /\ k \in ClientRecs /\ net \in Transports /\ Stage(k) = k.phase
      /\ Pair(server, k, net, c) /\ ~EndedSession(k) /\ k.status # "Created"
  BY <1>1, ClientFacts
<1>4. q \in Seq(Messages) /\ n \in 0 .. Len(q) /\ MaxBurst \in Nat /\ Sorted(q)
  BY <1>2, <1>3, SessionAssumption DEF ClientRecs, ClientOK
<1>. DEFINE Fail == waiting /\ age >= HandshakeTimeoutTicks
<1>5. CASE Fail
  <2>. DEFINE result == Fails(k, "timeout")
  <2>1. /\ result.session = Release(k, "Failed") /\ result.cause = "timeout"
        /\ result.cause \in Causes \ {"protocol"} /\ "Failed" \in {"Failed", "Closed"}
    BY DEF Fails, Causes
  <2>2. ClientActs(c, result, net)
    BY <1>2, <1>5
  <2>3. \A d \in Clients \ {c} : SameNet(net, net, d)
    BY DEF SameNet
  <2>. HIDE DEF result, k
  <2>. QED
    BY <1>1, <1>3, <2>1, <2>2, <2>3, ClientFails
<1>6. CASE ~Fail
  <2>. DEFINE d == sent(n)  r == AfterFlush(q, Len(d))  f == inOrder(n)
              j == next(n)  m == passed(n, lost)  result == Continues(j)
  <2>1. ClientActs(c, result, m)
    BY <1>2, <1>6
  <2>2. Len(d) = n
    BY <1>4
  <2>3. Flushed(q, n, d, r)
    <3>1. Flushed(q, n, SubSeq(q, 1, n), AfterFlush(q, n))
      BY <1>4, FlushedQueue
    <3>. QED
      BY <2>2, <3>1
  <2>4. age \in 0 .. HandshakeTimeoutTicks
    <3>1. k.age \in 0 .. HandshakeTimeoutTicks /\ HandshakeTimeoutTicks \in Nat
      BY <1>3, SessionAssumption DEF ClientRecs
    <3>2. Tick(k.age) \in 0 .. HandshakeTimeoutTicks
      BY <3>1 DEF Tick
    <3>. QED
      BY <3>1, <3>2
  <2>5. j = [k EXCEPT !.age = age, !.queue = r]
    OBVIOUS
  <2>6. f = InOrder(d)
    BY DEF InOrder
  <2>7. m = IF net.link[c] # "up" THEN net
            ELSE [net EXCEPT !.toServer[c] = @ \o f,
                             !.datagrams[c] = IF lost THEN @ ELSE @ + Len(d) - Len(f)]
    OBVIOUS
  <2>8. r \in Seq(Messages) /\ Sorted(r) /\ (r # <<>> => q # <<>>)
    BY <1>4, <2>3 DEF Flushed
  <2>. HIDE DEF d, r, f, m, age, j
  <2>9. /\ j \in ClientRecs /\ j.queue = r /\ j.status = k.status /\ j.phase = k.phase
        /\ j.epoch = k.epoch /\ j.attached = k.attached /\ j.registry = k.registry /\ j.bound = k.bound
        /\ j.published = k.published /\ j.replica = k.replica /\ j.known = k.known /\ j.remotes = k.remotes
    BY <1>3, <2>4, <2>5, <2>8 DEF ClientRecs
  <2>10. ~EndedSession(j) /\ Stage(j) = k.phase /\ Stage(j) = Stage(k) /\ j.status # "Created"
    BY <1>3, <2>9 DEF EndedSession, Stage
  <2>11. ClientOK(j)
    <3>1. j.phase \in {"Absent", "Accepted"} => j.queue = <<>>
      BY <1>3, <2>8, <2>9 DEF ClientOK
    <3>. HIDE DEF k
    <3>. QED
      BY <1>3, <2>8, <2>9, <2>10, <3>1 DEF ClientOK
  <2>. DEFINE a == net.toServer[c]  x == a \o q  y == (a \o f) \o r
  <2>12. a \in Seq(Messages)
    BY <1>3 DEF Transports, PerClient
  <2>13. f \in Seq(Messages) /\ y \in Seq(Messages) /\ Thinning(y, x)
    <3>. HIDE DEF a, q
    <3>. QED
      BY <1>4, <2>3, <2>6, <2>12, HandsOver
  <2>14. /\ m \in Transports /\ m.link = net.link /\ m.toClient = net.toClient
         /\ m.toServer[c] = IF net.link[c] = "up" THEN net.toServer[c] \o f ELSE net.toServer[c]
         /\ \A e \in Clients \ {c} : SameNet(net, m, e)
    <3>1. CASE net.link[c] # "up"
      BY <1>3, <2>7, <3>1 DEF SameNet
    <3>2. CASE net.link[c] = "up"
      <4>. DEFINE i == IF lost THEN net.datagrams[c] ELSE net.datagrams[c] + Len(d) - Len(f)
      <4>1. net.datagrams[c] \in Int
        BY <1>3 DEF Transports, PerClient
      <4>2. Len(f) \in Int /\ Len(d) \in Int
        BY <1>4, <2>2, <2>13
      <4>3. i \in Int
        BY <4>1, <4>2
      <4>4. m = Passing(net, c, f, i)
        BY <2>7, <3>2 DEF Passing
      <4>. HIDE DEF i
      <4>5. Passed(net, c, f, m)
        BY <1>3, <2>13, <4>3, <4>4, Passes
      <4>. QED
        BY <3>2, <4>5 DEF Passed
    <3>. QED
      BY <3>1, <3>2
  <2>15. Pair(server, j, m, c)
    <3>. DEFINE P == server.peers[c].phase  E == server.peers[c].epoch  K == Stage(k)
                X == k.epoch  up == net.link[c] = "up"  in == Inbound(server, net, c)
                out == Outbound(k, net, c)  t == Outbound(j, m, c)
    <3>1. HandshakeOK(P, E, K, X, up, in, out)
      BY <1>3 DEF Pair
    <3>2. Inbound(server, m, c) = in
      BY <2>14 DEF Inbound
    <3>3. up \/ t = out
      BY <2>14 DEF Outbound
    <3>4. up => t \in Seq(Messages) /\ Thinning(t, out)
      <4>1. up => out = x /\ t = y
        BY <2>9, <2>14 DEF Outbound
      <4>. HIDE DEF up, out, t, x, y
      <4>. QED
        BY <2>13, <4>1
    <3>5. (m.link[c] = "up") = up
      BY <2>14
    <3>. HIDE DEF P, E, K, X, up, in, out, t
    <3>6. HandshakeOK(P, E, K, X, up, in, t)
      <4>1. CASE t = out
        BY <3>1, <4>1
      <4>2. CASE t \in Seq(Messages) /\ Thinning(t, out)
        BY <3>1, <4>2, ClientSends
      <4>. QED
        BY <3>3, <3>4, <4>1, <4>2
    <3>. QED
      BY <2>9, <2>10, <3>2, <3>5, <3>6 DEF Pair, P, E, K, X, t
  <2>16. LinkOK(server, j, m, c)
    <3>1. LinkOK(server, j, net, c)
      BY <1>1, <2>10, Linked
    <3>2. LinkOK(server, k, net, c)
      BY <1>1, ClientFacts
    <3>3. net.link[c] # "none"
      BY <1>1, <1>3, <3>2 DEF LinkOK
    <3>. QED
      BY <2>10, <2>14, <3>3 DEF LinkOK
  <2>. HIDE DEF k, result
  <2>17. result = Continues(j)
    BY DEF result
  <2>. QED
    BY <1>1, <2>1, <2>10, <2>11, <2>14, <2>15, <2>16, <2>17, ClientContinues
<1>. QED
  BY <1>5, <1>6

-----------------------------------------------------------------------------
(* A client starts, stops and stalls; a connection comes up and is lost.    *)

\* A client's session changes in nothing its connection can tell.
LEMMA ClientQuiet ==
    ASSUME SessionsInv, NEW c \in Clients, NEW j, ClientOK(j), Stage(j) = Stage(client[c]),
           j.epoch = client[c].epoch, j.queue = client[c].queue, j.status # "Created",
           client' = [client EXCEPT ![c] = j], server' = server, net' = net, ended' = ended
    PROVE  SessionsInv'
<1>. DEFINE k == client[c]
<1>1. Pair(server, k, net, c) /\ LinkOK(server, k, net, c) /\ net \in Transports /\ EndedOK(ended)
  BY ClientFacts
<1>2. Outbound(j, net, c) = Outbound(k, net, c)
  BY DEF Outbound
<1>3. Pair(server, j, net, c)
  BY <1>1, <1>2 DEF Pair
<1>4. LinkOK(server, j, net, c)
  BY <1>1 DEF LinkOK
<1>5. \A d \in Clients \ {c} : SameNet(net, net, d)
  BY DEF SameNet
<1>6. EndedOK(ended')
  BY <1>1 DEF EndedOK
<1>. QED
  BY <1>1, <1>3, <1>4, <1>5, <1>6, ClientMoves

LEMMA ClientStartKeeps ==
    ASSUME SessionsInv, NEW c \in Clients, ClientStart(c)
    PROVE  SessionsInv'
<1>. DEFINE k == client[c]  j == [k EXCEPT !.status = "Connecting"]
<1>1. /\ k.status = "Created" /\ client' = [client EXCEPT ![c] = j]
      /\ server' = server /\ net' = net /\ ended' = ended
  BY DEF ClientStart
<1>2. ClientOK(k) /\ k \in ClientRecs
  BY ClientFacts
<1>. HIDE DEF k
<1>3. /\ j \in ClientRecs /\ j.queue = k.queue /\ j.status = "Connecting" /\ j.phase = k.phase
      /\ j.epoch = k.epoch /\ j.attached = k.attached /\ j.registry = k.registry /\ j.bound = k.bound
      /\ j.published = k.published /\ j.replica = k.replica /\ j.known = k.known /\ j.remotes = k.remotes
  BY <1>2 DEF ClientRecs
<1>. HIDE DEF j
<1>4. ~EndedSession(j) /\ Stage(j) = Stage(k)
  BY <1>1, <1>3 DEF EndedSession, Stage
<1>5. ClientOK(j)
  BY <1>2, <1>3, <1>4 DEF ClientOK
<1>6. k = client[c]
  BY DEF k
<1>. QED
  BY <1>1, <1>3, <1>4, <1>5, <1>6, ClientQuiet

LEMMA ClientHangKeeps ==
    ASSUME SessionsInv, NEW c \in Clients, ClientHang(c)
    PROVE  SessionsInv'
<1>. DEFINE k == client[c]  j == [k EXCEPT !.hung = TRUE]
<1>1. /\ Runs(k) /\ client' = [client EXCEPT ![c] = j]
      /\ server' = server /\ net' = net /\ ended' = ended
  BY DEF ClientHang
<1>2. ClientOK(k) /\ k \in ClientRecs /\ ~EndedSession(k) /\ k.status # "Created"
  BY <1>1, ClientFacts
<1>. HIDE DEF k
<1>3. /\ j \in ClientRecs /\ j.queue = k.queue /\ j.status = k.status /\ j.phase = k.phase
      /\ j.epoch = k.epoch /\ j.attached = k.attached /\ j.registry = k.registry /\ j.bound = k.bound
      /\ j.published = k.published /\ j.replica = k.replica /\ j.known = k.known /\ j.remotes = k.remotes
  BY <1>2 DEF ClientRecs
<1>. HIDE DEF j
<1>4. ~EndedSession(j) /\ Stage(j) = Stage(k)
  BY <1>2, <1>3 DEF EndedSession, Stage
<1>5. ClientOK(j)
  BY <1>2, <1>3, <1>4 DEF ClientOK
<1>6. k = client[c]
  BY DEF k
<1>. QED
  BY <1>1, <1>2, <1>3, <1>4, <1>5, <1>6, ClientQuiet

LEMMA ClientStopKeeps ==
    ASSUME SessionsInv, NEW c \in Clients, ClientStop(c)
    PROVE  SessionsInv'
<1>. DEFINE k == client[c]  result == [session |-> Release(k, "Closed"), cause |-> "shutdown"]
<1>1. ClientActs(c, result, net) /\ server' = server
  BY DEF ClientStop
<1>2. /\ result.session = Release(k, "Closed") /\ result.cause = "shutdown"
      /\ result.cause \in Causes \ {"protocol"} /\ "Closed" \in {"Failed", "Closed"}
  BY DEF Causes
<1>3. net \in Transports
  BY ClientFacts
<1>4. \A d \in Clients \ {c} : SameNet(net, net, d)
  BY DEF SameNet
<1>. HIDE DEF result, k
<1>. QED
  BY <1>1, <1>2, <1>3, <1>4, ClientFails

\* A connection changes without either session noticing yet.
LEMMA LinkMoves ==
    ASSUME SessionsInv, NEW c \in Clients, NEW m \in Transports, Pair(server, client[c], m, c),
           LinkOK(server, client[c], m, c), \A d \in Clients \ {c} : SameNet(net, m, d),
           server' = server, client' = client, net' = m, ended' = ended
    PROVE  SessionsInv'
<1>. DEFINE k == client[c]
<1>1. client \in [Clients -> ClientRecs] /\ ClientOK(k) /\ EndedOK(ended)
  BY DEF SessionsInv, ServerInv
<1>2. client' = [client EXCEPT ![c] = k]
  BY <1>1
<1>3. EndedOK(ended')
  BY <1>1 DEF EndedOK
<1>. QED
  BY <1>1, <1>2, <1>3, ClientMoves

\* The link of a connection, its inboxes and its datagrams are replaced.
Relinked(n, c, l, o, t, i) ==
    [n EXCEPT !.link[c] = l, !.toServer[c] = o, !.toClient[c] = t, !.datagrams[c] = i]

\* What is seen of that in transport m.
Links(n, c, l, o, t, m) ==
    /\ m \in Transports /\ m.link[c] = l /\ m.toServer[c] = o /\ m.toClient[c] = t
    /\ \A d \in Clients \ {c} : SameNet(n, m, d)

LEMMA RelinkedFacts ==
    ASSUME NEW n \in Transports, NEW c \in Clients, NEW l \in {"none", "up", "down"},
           NEW o \in Seq(Messages), NEW t \in Seq(Messages), NEW i \in Int,
           NEW m, m = Relinked(n, c, l, o, t, i)
    PROVE  Links(n, c, l, o, t, m)
<1>. DEFINE x == [n.link EXCEPT ![c] = l]  y == [n.toServer EXCEPT ![c] = o]
            z == [n.toClient EXCEPT ![c] = t]  w == [n.datagrams EXCEPT ![c] = i]
<1>1. /\ n.link \in PerClient({"none", "up", "down"}) /\ n.toClient \in PerClient(Seq(Messages))
      /\ n.toServer \in PerClient(Seq(Messages)) /\ n.datagrams \in PerClient(Int)
  BY DEF Transports
<1>2. m = [n EXCEPT !.link = x, !.toServer = y, !.toClient = z, !.datagrams = w]
  BY DEF Relinked, Transports
<1>3. x \in PerClient({"none", "up", "down"}) /\ x[c] = l /\ \A e \in Clients \ {c} : x[e] = n.link[e]
  BY <1>1 DEF PerClient
<1>4. y \in PerClient(Seq(Messages)) /\ y[c] = o /\ \A e \in Clients \ {c} : y[e] = n.toServer[e]
  BY <1>1 DEF PerClient
<1>5. z \in PerClient(Seq(Messages)) /\ z[c] = t /\ \A e \in Clients \ {c} : z[e] = n.toClient[e]
  BY <1>1 DEF PerClient
<1>6. w \in PerClient(Int)
  BY <1>1 DEF PerClient
<1>. HIDE DEF x, y, z, w
<1>7. m \in Transports /\ m.link = x /\ m.toServer = y /\ m.toClient = z
  BY <1>2, <1>3, <1>4, <1>5, <1>6 DEF Transports
<1>8. \A d \in Clients \ {c} : SameNet(n, m, d)
  BY <1>3, <1>4, <1>5, <1>7 DEF SameNet
<1>. QED
  BY <1>3, <1>4, <1>5, <1>7, <1>8 DEF Links

\* A new connection: both ends hear of it, or the client that it is refused.
LEMMA NewConnection ==
    ASSUME NEW E, NEW X
    PROVE  /\ HandshakeOK("Absent", E, "Absent", X, TRUE, <<Connected>>, <<Connected>>)
           /\ HandshakeOK("Absent", E, "Absent", X, FALSE, <<Disconnected>>, <<>>)
<1>. DEFINE o == <<Connected>>  d == <<Disconnected>>  e == <<>>
<1>1. Connected \in Messages /\ Disconnected \in Messages /\ e \in Seq(Messages)
  BY DEF Connected, Disconnected, Messages, Signals
<1>2. /\ o \in Seq(Messages) /\ DOMAIN o = {1} /\ o[1].type = "connected"
      /\ d \in Seq(Messages) /\ DOMAIN d = {1} /\ d[1].type = "disconnected" /\ DOMAIN e = {}
  BY <1>1 DEF Connected, Disconnected
<1>. HIDE DEF o, d, e
<1>3. InboundOK("Absent", E, "Absent", o, o) /\ InboundOK("Absent", E, "Absent", d, e)
  BY <1>2 DEF InboundOK, InboundAt
<1>4. OutboundOK("Absent", E, "Absent", X, o) /\ OutboundOK("Absent", E, "Absent", X, e)
  BY <1>2 DEF OutboundOK, OutboundAt
<1>5. PhasesOK("Absent", E, "Absent", X, TRUE, o, o) /\ PhasesOK("Absent", E, "Absent", X, FALSE, d, e)
  BY <1>2 DEF PhasesOK, Has
<1>6. /\ HandshakeOK("Absent", E, "Absent", X, TRUE, o, o)
      /\ HandshakeOK("Absent", E, "Absent", X, FALSE, d, e)
  BY <1>1, <1>2, <1>3, <1>4, <1>5 DEF HandshakeOK, Phases, Stages
<1>. QED
  BY <1>6 DEF o, d, e

LEMMA ConnectKeeps ==
    ASSUME SessionsInv, NEW c \in Clients, Connect(c)
    PROVE  SessionsInv'
<1>. DEFINE k == client[c]  P == server.peers[c].phase  E == server.peers[c].epoch  X == k.epoch
            l == IF server.status = "Listening" THEN "up" ELSE "down"
            o == IF server.status = "Listening" THEN <<Connected>> ELSE <<>>
            t == IF server.status = "Listening" THEN <<Connected>> ELSE <<Disconnected>>
            m == Relinked(net, c, l, o, t, net.datagrams[c])
<1>1. /\ k.status = "Connecting" /\ net.link[c] = "none" /\ server' = server /\ client' = client
      /\ ended' = ended
  BY DEF Connect
<1>2. /\ ClientOK(k) /\ LinkOK(server, k, net, c) /\ PeerOK(server, c) /\ net \in Transports
      /\ server \in Sessions /\ server.sent[c] = <<>>
  BY ClientFacts
<1>3. /\ net.toServer[c] = <<>> /\ net.toClient[c] = <<>> /\ Stage(k) = "Absent" /\ P = "Absent"
  BY <1>1, <1>2 DEF LinkOK
<1>4. k.queue = <<>> /\ server.queue[c] = <<>>
  BY <1>1, <1>2, <1>3 DEF Stage, EndedSession, ClientOK, PeerOK
<1>5. net' = m
  <2>1. /\ net.link \in PerClient({"none", "up", "down"}) /\ net.toClient \in PerClient(Seq(Messages))
        /\ net.toServer \in PerClient(Seq(Messages)) /\ net.datagrams \in PerClient(Int)
    BY <1>2 DEF Transports
  <2>2. /\ [net.datagrams EXCEPT ![c] = net.datagrams[c]] = net.datagrams
        /\ [net.toServer EXCEPT ![c] = <<>>] = net.toServer
    BY <1>3, <2>1 DEF PerClient
  <2>3. CASE server.status = "Listening"
    <3>1. net' = [net EXCEPT !.link[c] = "up", !.toServer[c] = <<Connected>>, !.toClient[c] = <<Connected>>]
      BY <2>3 DEF Connect
    <3>. QED
      BY <1>2, <2>2, <2>3, <3>1 DEF Relinked, Transports
  <2>4. CASE server.status # "Listening"
    <3>1. net' = [net EXCEPT !.link[c] = "down", !.toClient[c] = <<Disconnected>>]
      BY <2>4 DEF Connect
    <3>. QED
      BY <1>2, <2>2, <2>4, <3>1 DEF Relinked, Transports
  <2>. QED
    BY <2>3, <2>4
<1>6. /\ o \in Seq(Messages) /\ t \in Seq(Messages) /\ l \in {"none", "up", "down"} /\ l # "none"
      /\ net.datagrams[c] \in Int
  <2>1. Connected \in Messages /\ Disconnected \in Messages
    BY DEF Connected, Disconnected, Messages, Signals
  <2>. QED
    BY <1>2, <2>1 DEF Transports, PerClient
<1>7. /\ m \in Transports /\ m.link[c] = l /\ m.toServer[c] = o /\ m.toClient[c] = t
      /\ \A d \in Clients \ {c} : SameNet(net, m, d)
  <2>. HIDE DEF l, o, t, m
  <2>1. m = Relinked(net, c, l, o, t, net.datagrams[c])
    BY DEF m
  <2>2. Links(net, c, l, o, t, m)
    BY <1>2, <1>6, <2>1, RelinkedFacts
  <2>. QED
    BY <2>2 DEF Links
<1>. HIDE DEF m
<1>8. Inbound(server, m, c) = t /\ Outbound(k, m, c) = o
  <2>1. (t \o <<>>) \o <<>> = t /\ o \o <<>> = o
    <3>. HIDE DEF t, o
    <3>. QED
      BY <1>6
  <2>. QED
    BY <1>2, <1>4, <1>7, <2>1 DEF Inbound, Outbound
<1>9. Pair(server, k, m, c)
  <2>1. /\ HandshakeOK("Absent", E, "Absent", X, TRUE, <<Connected>>, <<Connected>>)
        /\ HandshakeOK("Absent", E, "Absent", X, FALSE, <<Disconnected>>, <<>>)
    BY NewConnection
  <2>2. HandshakeOK("Absent", E, "Absent", X, m.link[c] = "up", t, o)
    <3>1. CASE server.status = "Listening"
      <4>1. t = <<Connected>> /\ o = <<Connected>> /\ (m.link[c] = "up") = TRUE
        BY <1>7, <3>1
      <4>. QED
        BY <2>1, <4>1
    <3>2. CASE server.status # "Listening"
      <4>1. t = <<Disconnected>> /\ o = <<>> /\ (m.link[c] = "up") = FALSE
        BY <1>7, <3>2
      <4>. QED
        BY <2>1, <4>1
    <3>. QED
      BY <3>1, <3>2
  <2>. QED
    BY <1>3, <1>8, <2>2 DEF Pair
<1>10. LinkOK(server, k, m, c)
  BY <1>1, <1>6, <1>7 DEF LinkOK
<1>. QED
  BY <1>1, <1>5, <1>7, <1>9, <1>10, LinkMoves

LEMMA LoseLinkKeeps ==
    ASSUME SessionsInv, NEW c \in Clients, LoseLink(c)
    PROVE  SessionsInv'
<1>. DEFINE k == client[c]
            o(keep) == (IF keep THEN net.toServer[c] ELSE <<>>) \o <<Disconnected>>
            t(keep) == (IF keep THEN net.toClient[c] ELSE <<>>) \o <<Disconnected>>
<1>1. /\ net.link[c] = "up" /\ server' = server /\ client' = client /\ ended' = ended
      /\ \E keep \in BOOLEAN :
            net' = [net EXCEPT !.link[c] = "down", !.datagrams[c] = 0,
                               !.toServer[c] = (IF keep THEN @ ELSE <<>>) \o <<Disconnected>>,
                               !.toClient[c] = (IF keep THEN @ ELSE <<>>) \o <<Disconnected>>]
  BY DEF LoseLink
<1>2. PICK keep \in BOOLEAN :
            net' = [net EXCEPT !.link[c] = "down", !.datagrams[c] = 0,
                               !.toServer[c] = (IF keep THEN @ ELSE <<>>) \o <<Disconnected>>,
                               !.toClient[c] = (IF keep THEN @ ELSE <<>>) \o <<Disconnected>>]
  BY <1>1
<1>3. /\ k \in ClientRecs /\ Pair(server, k, net, c) /\ LinkOK(server, k, net, c)
      /\ net \in Transports /\ server \in Sessions /\ server.sent[c] = <<>>
  BY ClientFacts
<1>. DEFINE y == o(keep)  z == t(keep)  m == Relinked(net, c, "down", y, z, 0)
            in == Inbound(server, net, c)  out == Outbound(k, net, c)
<1>4. net' = m
  BY <1>2, <1>3 DEF Relinked, Transports
<1>5. /\ net.toServer[c] \in Seq(Messages) /\ net.toClient[c] \in Seq(Messages)
      /\ k.queue \in Seq(Messages) /\ server.queue[c] \in Seq(Messages)
  BY <1>3 DEF Transports, PerClient, ClientRecs, Sessions
<1>6. out = net.toServer[c] \o k.queue
  BY <1>1 DEF Outbound
<1>7. in = net.toClient[c] \o server.queue[c]
  <2>1. in = (net.toClient[c] \o <<>>) \o server.queue[c]
    BY <1>1, <1>3 DEF Inbound
  <2>2. net.toClient[c] \o <<>> = net.toClient[c]
    BY <1>5
  <2>. QED
    BY <2>1, <2>2
<1>. HIDE DEF in, out
<1>8. y \in Seq(Messages) /\ Severed(y, out)
  <2>1. /\ Severed(<<>> \o <<Disconnected>>, out) /\ Severed(net.toServer[c] \o <<Disconnected>>, out)
        /\ <<>> \o <<Disconnected>> \in Seq(Messages)
        /\ net.toServer[c] \o <<Disconnected>> \in Seq(Messages)
    BY <1>5, <1>6, SeveredWays
  <2>. QED
    BY <2>1
<1>9. z \in Seq(Messages) /\ Severed(z, in)
  <2>1. /\ Severed(<<>> \o <<Disconnected>>, in) /\ Severed(net.toClient[c] \o <<Disconnected>>, in)
        /\ <<>> \o <<Disconnected>> \in Seq(Messages)
        /\ net.toClient[c] \o <<Disconnected>> \in Seq(Messages)
    BY <1>5, <1>7, SeveredWays
  <2>. QED
    BY <2>1
<1>10. /\ m \in Transports /\ m.link[c] = "down" /\ m.toServer[c] = y /\ m.toClient[c] = z
       /\ \A d \in Clients \ {c} : SameNet(net, m, d)
  <2>. HIDE DEF y, z, m
  <2>1. m = Relinked(net, c, "down", y, z, 0) /\ "down" \in {"none", "up", "down"} /\ 0 \in Int
    BY DEF m
  <2>2. Links(net, c, "down", y, z, m)
    BY <1>3, <1>8, <1>9, <2>1, RelinkedFacts
  <2>. QED
    BY <2>2 DEF Links
<1>. HIDE DEF m, y, z
<1>11. Inbound(server, m, c) = z /\ Outbound(k, m, c) = y
  BY <1>10 DEF Inbound, Outbound
<1>12. Pair(server, k, m, c)
  <2>. DEFINE P == server.peers[c].phase  E == server.peers[c].epoch  K == Stage(k)  X == k.epoch
              up == net.link[c] = "up"
  <2>1. HandshakeOK(P, E, K, X, up, in, out)
    BY <1>3 DEF Pair, in, out
  <2>2. up /\ (m.link[c] = "up") = FALSE
    BY <1>1, <1>10
  <2>. HIDE DEF P, E, K, X, up
  <2>3. K # "Ended"
    BY <2>1, <2>2 DEF HandshakeOK, PhasesOK
  <2>4. HandshakeOK(P, E, K, X, FALSE, z, y)
    BY <1>8, <1>9, <2>1, <2>3, SeveredOK
  <2>. QED
    BY <1>11, <2>2, <2>4 DEF Pair, P, E, K, X
<1>13. LinkOK(server, k, m, c)
  BY <1>1, <1>3, <1>10 DEF LinkOK
<1>. QED
  BY <1>1, <1>4, <1>10, <1>12, <1>13, LinkMoves

-----------------------------------------------------------------------------
(* The invariant of the specification.                                      *)

Inv == SessionsInv /\ tree \in [Remotes -> {"out", "in", "destroyed"}]

\* Before anything has happened the two ends of a connection agree.
LEMMA SilentOK == HandshakeOK("Absent", 0, "Absent", 0, FALSE, <<>>, <<>>)
<1>. DEFINE e == <<>>
<1>1. e \in Seq(Messages) /\ DOMAIN e = {}
  OBVIOUS
<1>. HIDE DEF e
<1>2. InboundOK("Absent", 0, "Absent", e, e) /\ OutboundOK("Absent", 0, "Absent", 0, e)
  BY <1>1 DEF InboundOK, OutboundOK
<1>3. PhasesOK("Absent", 0, "Absent", 0, FALSE, e, e)
  BY <1>1 DEF PhasesOK, Has
<1>4. HandshakeOK("Absent", 0, "Absent", 0, FALSE, e, e)
  BY <1>1, <1>2, <1>3 DEF HandshakeOK, Phases, Stages
<1>. QED
  BY <1>4 DEF e

LEMMA IdleServerFacts ==
    /\ IdleServer \in Sessions /\ Rests(IdleServer)
    /\ IdleServer.status = "Created" /\ IdleServer.registry = {} /\ IdleServer.closed = {}
    /\ \A c \in Clients : PeerOK(IdleServer, c) /\ IdleServer.peers[c] = NoPeer
<1>. DEFINE s == IdleServer
<1>1. /\ s.status = "Created" /\ s.players = {} /\ s.objects = {} /\ s.registry = {} /\ s.bound = {}
      /\ s.failures = {} /\ s.sessionFailure = FALSE /\ s.nextEpoch = 1 /\ s.closed = {}
      /\ s.peers = [c \in Clients |-> NoPeer] /\ s.services = [c \in Clients |-> {}]
      /\ s.queue = [c \in Clients |-> <<>>] /\ s.view = [c \in Clients |-> {}]
      /\ s.materialized = [c \in Clients |-> {}] /\ s.published = [c \in Clients |-> {}]
      /\ s.sent = [c \in Clients |-> <<>>]
  BY DEF IdleServer
<1>2. 0 \in 0 .. HandshakeTimeoutTicks /\ <<>> \in Seq(Messages)
  BY SessionAssumption
<1>3. NoPeer \in PeerRecs /\ NoPeer.phase = "Absent"
  BY <1>2 DEF NoPeer, PeerRecs, Phases
<1>4. s.peers \in PerClient(PeerRecs)
  BY <1>1, <1>3 DEF PerClient
<1>5. s.queue \in PerClient(Seq(Messages)) /\ s.sent \in PerClient(Seq(Messages))
  BY <1>1, <1>2 DEF PerClient
<1>6. /\ s.services \in PerClient(SUBSET Services) /\ s.view \in PerClient(SUBSET Remotes)
      /\ s.materialized \in PerClient(SUBSET Remotes) /\ s.published \in PerClient(SUBSET Remotes)
  BY <1>1 DEF PerClient
<1>7. s = [status |-> s.status, peers |-> s.peers, services |-> s.services, players |-> s.players,
           queue |-> s.queue, view |-> s.view, objects |-> s.objects, registry |-> s.registry,
           bound |-> s.bound, materialized |-> s.materialized, published |-> s.published,
           failures |-> s.failures, sessionFailure |-> s.sessionFailure, nextEpoch |-> s.nextEpoch,
           closed |-> s.closed, sent |-> s.sent]
  BY DEF IdleServer
<1>8. ASSUME NEW c \in Clients
      PROVE  /\ s.peers[c] = NoPeer /\ s.services[c] = {} /\ c \notin s.players /\ s.queue[c] = <<>>
             /\ s.view[c] = {} /\ s.materialized[c] = {} /\ s.published[c] = {}
  BY <1>1
<1>. HIDE DEF s
<1>9. s \in Sessions
  <2>1. /\ s.status \in {"Created", "Listening", "Failed", "Closed"} /\ s.players \in SUBSET Clients
        /\ s.objects \in SUBSET Remotes /\ s.registry \in SUBSET Remotes /\ s.bound \in SUBSET Remotes
        /\ s.failures \in SUBSET Blames /\ s.nextEpoch \in Nat \ {0} /\ s.closed \in SUBSET Blames
    BY <1>1
  <2>2. s.sessionFailure \in BOOLEAN
    <3>1. FALSE \in BOOLEAN /\ s.sessionFailure = FALSE
      BY <1>1
    <3>. QED
      BY <3>1, Zenon
  <2>. QED
    BY <1>4, <1>5, <1>6, <1>7, <2>1, <2>2 DEF Sessions
<1>10. \A c \in Clients : PeerOK(s, c) /\ s.peers[c] = NoPeer
  BY <1>3, <1>8, AbsentOK
<1>11. Rests(s)
  BY <1>1 DEF Rests
<1>. QED
  BY <1>1, <1>9, <1>10, <1>11 DEF s

LEMMA InitInv == Init => Inv
<1>. SUFFICES ASSUME Init PROVE Inv
  OBVIOUS
<1>1. /\ server = IdleServer /\ client = [c \in Clients |-> IdleClient] /\ net = IdleNet
      /\ tree \in [Remotes -> {"in", "out"}] /\ ended = [c \in Clients |-> "none"]
  BY DEF Init
<1>2. /\ server \in Sessions /\ Rests(server) /\ server.status = "Created" /\ server.registry = {}
      /\ server.failures = {} /\ server.closed = {}
      /\ \A c \in Clients : PeerOK(server, c) /\ server.peers[c] = NoPeer
  BY <1>1, IdleServerFacts DEF Rests
<1>3. NoPeer.phase = "Absent" /\ NoPeer.epoch = 0
  BY DEF NoPeer
<1>4. /\ IdleClient \in ClientRecs /\ ClientOK(IdleClient) /\ Stage(IdleClient) = "Absent"
      /\ IdleClient.epoch = 0 /\ IdleClient.queue = <<>>
  <2>1. 0 \in 0 .. HandshakeTimeoutTicks /\ <<>> \in Seq(Messages)
    BY SessionAssumption
  <2>2. IdleClient \in ClientRecs
    BY <2>1 DEF IdleClient, ClientRecs, Phases
  <2>3. /\ IdleClient.status = "Created" /\ IdleClient.attached = FALSE /\ IdleClient.phase = "Absent"
        /\ IdleClient.registry = {} /\ IdleClient.bound = {} /\ IdleClient.published = {}
        /\ IdleClient.queue = <<>> /\ IdleClient.remotes = {} /\ IdleClient.epoch = 0
    BY DEF IdleClient
  <2>4. Sorted(IdleClient.queue)
    BY <2>3 DEF Sorted
  <2>. QED
    BY <2>2, <2>3, <2>4 DEF ClientOK, Stage, EndedSession
<1>5. /\ net \in Transports
      /\ \A c \in Clients : net.link[c] = "none" /\ net.toServer[c] = <<>> /\ net.toClient[c] = <<>>
  BY <1>1 DEF IdleNet, Transports, PerClient
<1>6. client \in [Clients -> ClientRecs] /\ \A c \in Clients : client[c] = IdleClient
  BY <1>1, <1>4
<1>7. ASSUME NEW c \in Clients PROVE PeerGood(server, client[c], net, c)
  <2>1. Pair(server, client[c], net, c)
    <3>1. Inbound(server, net, c) = <<>> /\ Outbound(client[c], net, c) = <<>>
      BY <1>5, <1>7 DEF Inbound, Outbound
    <3>2. (net.link[c] = "up") = FALSE
      BY <1>5, <1>7
    <3>. QED
      BY <1>2, <1>3, <1>4, <1>6, <1>7, <3>1, <3>2, SilentOK DEF Pair
  <2>2. LinkOK(server, client[c], net, c)
    BY <1>2, <1>3, <1>4, <1>5, <1>6, <1>7 DEF LinkOK
  <2>3. ~Closing(server, c)
    BY <1>2 DEF Closing
  <2>. QED
    BY <1>2, <1>7, <2>1, <2>2, <2>3 DEF PeerGood
<1>8. Epochs(server)
  <2>1. server.nextEpoch = 1
    BY <1>1 DEF IdleServer
  <2>. QED
    BY <1>2, <1>3, <2>1 DEF Epochs
<1>9. IdleUnlessListening(server)
  BY <1>2, <1>3 DEF IdleUnlessListening
<1>10. EndedOK(ended)
  BY <1>1 DEF EndedOK, Causes
<1>. QED
  BY <1>1, <1>2, <1>4, <1>5, <1>6, <1>7, <1>8, <1>9, <1>10 DEF Inv, SessionsInv, ServerInv, Good

\* The clients do not notice what the server does.
LEMMA ServerMoves ==
    ASSUME SessionsInv, ServerInv', client' = client
    PROVE  SessionsInv'
BY DEF SessionsInv

LEMMA NextInv == Inv /\ [Next]_vars => Inv'
<1>. SUFFICES ASSUME Inv, [Next]_vars PROVE Inv'
  OBVIOUS
<1>. DEFINE Tree == [Remotes -> {"out", "in", "destroyed"}]
<1>1. SessionsInv /\ ServerInv /\ tree \in Tree
  BY DEF Inv, SessionsInv
<1>2. ASSUME ServerStart PROVE Inv'
  <2>1. client' = client /\ tree' = tree
    BY <1>2 DEF ServerStart
  <2>. QED
    BY <1>1, <1>2, <2>1, ServerStartKeeps, ServerMoves DEF Inv
<1>3. ASSUME ServerStop PROVE Inv'
  <2>1. client' = client /\ tree' = tree
    BY <1>3 DEF ServerStop
  <2>. QED
    BY <1>1, <1>3, <2>1, ServerStopKeeps, ServerMoves DEF Inv
<1>4. ASSUME ServerStep PROVE Inv'
  <2>1. client' = client /\ tree' = tree
    BY <1>4 DEF ServerStep
  <2>. QED
    BY <1>1, <1>4, <2>1, ServerStepKeeps, ServerMoves DEF Inv
<1>5. ASSUME ServerStepFails PROVE Inv'
  <2>1. client' = client /\ tree' = tree
    BY <1>5 DEF ServerStepFails
  <2>. QED
    BY <1>1, <1>5, <2>1, ServerStepFailsKeeps, ServerMoves DEF Inv
<1>6. ASSUME NEW r \in Remotes,
             AddRemote(r) \/ UnparentRemote(r) \/ ReparentRemote(r) \/ DestroyRemote(r)
      PROVE  Inv'
  <2>1. client' = client /\ \E place \in {"out", "in", "destroyed"} : tree' = [tree EXCEPT ![r] = place]
    BY <1>6 DEF AddRemote, UnparentRemote, ReparentRemote, DestroyRemote, TreeChange
  <2>2. tree' \in Tree
    BY <1>1, <2>1
  <2>. QED
    BY <1>1, <1>6, <2>1, <2>2, TreeChangeKeeps, ServerMoves DEF Inv
<1>7. ASSUME NEW c \in Clients, ServerPoll(c) PROVE Inv'
  <2>1. client' = client /\ tree' = tree
    BY <1>7 DEF ServerPoll
  <2>. QED
    BY <1>1, <1>7, <2>1, ServerPollKeeps, ServerMoves DEF Inv
<1>8. ASSUME NEW c \in Clients, ServerPollDatagram(c) PROVE Inv'
  <2>1. client' = client /\ tree' = tree
    BY <1>8 DEF ServerPollDatagram
  <2>. QED
    BY <1>1, <1>8, <2>1, ServerPollDatagramKeeps, ServerMoves DEF Inv
<1>9. ASSUME NEW c \in Clients, ServerFire(c) PROVE Inv'
  <2>1. client' = client /\ tree' = tree
    BY <1>9 DEF ServerFire
  <2>. QED
    BY <1>1, <1>9, <2>1, ServerFireKeeps, ServerMoves DEF Inv
<1>10. ASSUME NEW c \in Clients,
              \/ ClientStart(c) \/ ClientStop(c) \/ ClientPoll(c) \/ ClientPollFrame(c)
              \/ ClientAttach(c) \/ ClientFire(c) \/ ClientStep(c) \/ ClientHang(c)
              \/ Connect(c) \/ LoseLink(c)
       PROVE  Inv'
  <2>1. tree' = tree
    BY <1>10 DEF ClientStart, ClientStop, ClientPoll, ClientPollFrame, ClientAttach, ClientFire,
                 ClientStep, ClientHang, Connect, LoseLink
  <2>2. SessionsInv'
    BY <1>1, <1>10, ClientStartKeeps, ClientStopKeeps, ClientPollKeeps, ClientPollFrameKeeps,
       ClientAttachKeeps, ClientFireKeeps, ClientStepKeeps, ClientHangKeeps, ConnectKeeps,
       LoseLinkKeeps
  <2>. QED
    BY <1>1, <2>1, <2>2 DEF Inv
<1>11. ASSUME UNCHANGED vars PROVE Inv'
  <2>1. server' = server /\ client' = client /\ net' = net /\ ended' = ended /\ tree' = tree
    BY <1>11 DEF vars
  <2>2. ServerInv'
    BY <1>1, <2>1 DEF ServerInv, EndedOK
  <2>. QED
    BY <1>1, <2>1, <2>2, ServerMoves DEF Inv
<1>. QED
  BY <1>2, <1>3, <1>4, <1>5, <1>6, <1>7, <1>8, <1>9, <1>10, <1>11 DEF Next

LEMMA SpecInv == Spec => []Inv
BY InitInv, NextInv, PTL DEF Spec

\* What the invariant says of one connection.
LEMMA InvAt ==
    ASSUME Inv, NEW c \in Clients
    PROVE  /\ server \in Sessions /\ net \in Transports /\ client[c] \in ClientRecs
           /\ ClientOK(client[c]) /\ PeerOK(server, c) /\ Pair(server, client[c], net, c)
           /\ Epochs(server) /\ IdleUnlessListening(server) /\ Rests(server) /\ EndedOK(ended)
BY ClientFacts DEF Inv, SessionsInv, ServerInv, Good

-----------------------------------------------------------------------------
(* What follows from the invariant.                                         *)

LEMMA ServicesTable ==
    ASSUME NEW phase \in Phases
    PROVE  /\ "replication" \in ServicesOf(phase) <=> phase \in {"BootstrapPending", "Accepted", "Ready"}
           /\ phase \in {"Accepted", "Ready"} => "scheduler" \in ServicesOf(phase)
<1>1. CASE phase \in {"Absent", "TransportConnected"}
  <2>1. ServicesOf(phase) = {}
    BY <1>1 DEF ServicesOf
  <2>. QED
    BY <1>1, <2>1
<1>2. CASE phase \in {"BootstrapPending", "Accepted"}
  <2>1. ServicesOf(phase) = {"scheduler", "relevance", "replication"}
    BY <1>2 DEF ServicesOf
  <2>. QED
    BY <1>2, <2>1
<1>3. CASE phase = "Ready"
  <2>1. ServicesOf(phase) = Services
    BY <1>3 DEF ServicesOf
  <2>. QED
    BY <1>3, <2>1 DEF Services
<1>. QED
  BY <1>1, <1>2, <1>3 DEF Phases

LEMMA TypeFollows == Inv => TypeOK
<1>. SUFFICES ASSUME Inv PROVE TypeOK
  OBVIOUS
<1>1. /\ server \in Sessions /\ Rests(server) /\ EndedOK(ended) /\ net \in Transports
      /\ client \in [Clients -> ClientRecs] /\ tree \in [Remotes -> {"out", "in", "destroyed"}]
  BY DEF Inv, SessionsInv, ServerInv, Good
<1>2. ASSUME NEW c \in Clients
      PROVE  /\ Phase(server, c) \in Phases
             /\ server.peers[c].age \in 0 .. HandshakeTimeoutTicks
             /\ client[c].status \in {"Created", "Connecting", "Accepted", "Ready", "Failed", "Closed"}
             /\ client[c].phase \in Phases \ {"BootstrapPending"}
             /\ client[c].age \in 0 .. HandshakeTimeoutTicks
             /\ client[c].registry \cup client[c].published \cup client[c].replica \subseteq Remotes
  <2>1. server.peers[c] \in PeerRecs
    BY <1>1 DEF Sessions, PerClient
  <2>2. client[c] \in ClientRecs
    BY <1>1
  <2>3. Phase(server, c) \in Phases /\ server.peers[c].age \in 0 .. HandshakeTimeoutTicks
    BY <2>1 DEF Phase, PeerRecs
  <2>. HIDE DEF Phases
  <2>4. /\ client[c].status \in {"Created", "Connecting", "Accepted", "Ready", "Failed", "Closed"}
        /\ client[c].phase \in Phases \ {"BootstrapPending"}
        /\ client[c].age \in 0 .. HandshakeTimeoutTicks
        /\ client[c].registry \in SUBSET Remotes /\ client[c].published \in SUBSET Remotes
        /\ client[c].replica \in SUBSET Remotes
    BY <2>2 DEF ClientRecs
  <2>. QED
    BY <2>3, <2>4
<1>3. /\ server.status \in {"Created", "Listening", "Failed", "Closed"}
      /\ server.services \in PerClient(SUBSET Services) /\ server.view \in PerClient(SUBSET Remotes)
      /\ server.objects \cup server.registry \cup server.bound \subseteq Remotes
  BY <1>1 DEF Sessions
<1>4. server.failures = {} /\ server.sent = [c \in Clients |-> <<>>]
  BY <1>1 DEF Rests
<1>5. net.link \in PerClient({"none", "up", "down"})
  BY <1>1 DEF Transports
<1>6. ended \in PerClient(Causes)
  BY <1>1 DEF EndedOK, PerClient
<1>. QED
  BY <1>1, <1>2, <1>3, <1>4, <1>5, <1>6 DEF TypeOK

LEMMA RegistrationsFollow == Inv => RegistrationsExact
<1>. SUFFICES ASSUME Inv PROVE RegistrationsExact
  OBVIOUS
<1>1. ASSUME NEW c \in Clients
      PROVE  /\ server.services[c] = ServicesOf(Phase(server, c))
             /\ c \in server.players <=> "replication" \in ServicesOf(Phase(server, c))
             /\ server.queue[c] # <<>> => "scheduler" \in server.services[c]
             /\ server.view[c] # {} => "replication" \in server.services[c]
             /\ server.materialized[c] \cup server.published[c] # {} => Phase(server, c) = "Ready"
             /\ EndedSession(client[c]) => client[c] = Release(client[c], client[c].status)
  <2>. DEFINE phase == Phase(server, c)
  <2>1. /\ server \in Sessions /\ ClientOK(client[c]) /\ PeerOK(server, c)
    BY <1>1, InvAt
  <2>2. phase \in Phases
    BY <1>1, <2>1 DEF Phase, Sessions, PerClient, PeerRecs
  <2>3. /\ "replication" \in ServicesOf(phase) <=> phase \in {"BootstrapPending", "Accepted", "Ready"}
        /\ phase \in {"Accepted", "Ready"} => "scheduler" \in ServicesOf(phase)
    BY <2>2, ServicesTable
  <2>4. /\ server.services[c] = ServicesOf(phase)
        /\ c \in server.players <=> phase \in {"BootstrapPending", "Accepted", "Ready"}
        /\ server.queue[c] # <<>> \/ server.view[c] # {} => phase \in {"Accepted", "Ready"}
        /\ server.materialized[c] # {} \/ server.published[c] # {} => phase = "Ready"
    BY <2>1 DEF PeerOK, Phase
  <2>5. EndedSession(client[c]) => client[c] = Release(client[c], client[c].status)
    BY <2>1 DEF ClientOK
  <2>. HIDE DEF phase
  <2>6. /\ c \in server.players <=> "replication" \in ServicesOf(phase)
        /\ server.queue[c] # <<>> => "scheduler" \in server.services[c]
        /\ server.view[c] # {} => "replication" \in server.services[c]
        /\ server.materialized[c] \cup server.published[c] # {} => phase = "Ready"
    BY <2>3, <2>4
  <2>. QED
    BY <2>4, <2>5, <2>6 DEF phase
<1>2. server.status # "Listening" => Peers(server) = {} /\ server.registry = {}
  <2>1. IdleUnlessListening(server)
    BY DEF Inv, SessionsInv, ServerInv, Good
  <2>. QED
    BY <2>1 DEF IdleUnlessListening, Peers, Phase
<1>. QED
  BY <1>1, <1>2 DEF RegistrationsExact

LEMMA SidesFollow == Inv => SidesAgree
<1>. SUFFICES ASSUME Inv, NEW c \in Clients
              PROVE  LET p == server.peers[c] k == client[c] IN
                     /\ p.phase = "Ready" /\ ~EndedSession(k) => k.phase = "Ready" /\ k.epoch = p.epoch
                     /\ k.phase = "Ready" /\ p.phase # "Absent" =>
                         p.phase \in {"Accepted", "Ready"} /\ p.epoch = k.epoch
                     /\ \A d \in Clients \ {c} : p.epoch = server.peers[d].epoch => p.epoch = 0
  BY DEF SidesAgree
<1>. DEFINE p == server.peers[c]  k == client[c]
<1>1. ClientOK(k) /\ Pair(server, k, net, c) /\ Epochs(server)
  BY InvAt
<1>2. /\ p.phase = "Ready" => Stage(k) = "Ended" \/ (Stage(k) = "Ready" /\ k.epoch = p.epoch)
      /\ Stage(k) = "Ready" /\ p.phase # "Absent" => p.phase \in {"Accepted", "Ready"} /\ k.epoch = p.epoch
  BY <1>1 DEF Pair, HandshakeOK, PhasesOK
<1>3. k.phase = "Ready" => ~EndedSession(k)
  BY <1>1 DEF ClientOK, Release, IdleClient
<1>4. /\ EndedSession(k) => Stage(k) = "Ended"
      /\ ~EndedSession(k) => Stage(k) = k.phase /\ k.phase # "Ended"
  <2>1. k.phase # "Ended"
    BY <1>1 DEF ClientOK, ClientRecs, Phases
  <2>. QED
    BY <2>1 DEF Stage
<1>5. \A d \in Clients \ {c} : p.epoch = server.peers[d].epoch => p.epoch = 0
  BY <1>1 DEF Epochs
<1>. QED
  BY <1>2, <1>3, <1>4, <1>5

LEMMA PublicationsFollow == Inv => PublishedKnown
<1>. SUFFICES ASSUME Inv, NEW c \in Clients
              PROVE  /\ server.published[c] \subseteq server.registry \cap server.view[c]
                     /\ server.published[c] \subseteq server.materialized[c]
                     /\ client[c].published \subseteq client[c].registry \cap client[c].replica
  BY DEF PublishedKnown
<1>1. ClientOK(client[c]) /\ PeerOK(server, c)
  BY InvAt
<1>. QED
  BY <1>1 DEF ClientOK, PeerOK

LEMMA ReliableFollows == Inv => ReliableNeverRejected
<1>. SUFFICES ASSUME Inv, NEW c \in Clients PROVE ended[c] # "protocol"
  BY DEF ReliableNeverRejected
<1>1. EndedOK(ended)
  BY InvAt
<1>. QED
  BY <1>1 DEF EndedOK

-----------------------------------------------------------------------------
(* The theorems.                                                            *)

\* The state of the sessions, of the tree and of the transport keeps its type,
\* and between two calls of Poll, Step or Stop the server has no failure pending
\* and nothing left to hand to the transport.
THEOREM TypeCorrect == Spec => []TypeOK
BY SpecInv, TypeFollows, PTL

\* Whichever acquisition of the handshake fails, whoever hangs up and whenever,
\* a connection holds exactly the registrations, the Player and the queue of its
\* phase, and an ended session holds none (AcceptServerPeer, ReadyServerPeer,
\* TearDownPeer, ReleaseSessionResources).
THEOREM RegistrationsCorrect == Spec => []RegistrationsExact
BY SpecInv, RegistrationsFollow, PTL

\* The two ends of a live connection agree about a handshake that has been
\* completed and about its session epoch, and no epoch is given to two peers
\* (ReadyServerPeer, AcceptClientSession, AttachClientRuntime).
THEOREM EndsAgree == Spec => []SidesAgree
BY SpecInv, SidesFollow, PTL

\* However the transport delays, drops or cuts off messages, no session ends
\* because it found a reliable message of the other out of place
\* (HandleReceived, HandleSessionMessage, AcceptClientSession).
THEOREM ReliableAccepted == Spec => []ReliableNeverRejected
BY SpecInv, ReliableFollows, PTL

\* A Remote is open for calls only where it is registered, known and followed,
\* on the server for every peer and on every client, whatever happens to the
\* tree (ApplyServerRemoteMaterialization, SynchronizeServerGraph,
\* UnregisterServerObject, ApplyReplication).
THEOREM PublicationsCorrect == Spec => []PublishedKnown
BY SpecInv, PublicationsFollow, PTL
=============================================================================
