-------------------------- MODULE NetworkScheduler --------------------------
(***************************************************************************)
(* The network scheduler (src/src/network/Scheduler.cpp) together with the *)
(* per-step send allowance its only production caller wraps around it      *)
(* (src/src/network/SessionSendAllowance.hpp, used by GameSession::Step).  *)
(*                                                                         *)
(* Trusted subsystems Submit validated intents; the scheduler keeps them   *)
(* in six queues per connection, one per traffic class, and hands them to  *)
(* the transport when the session offers a service point.  A Flush is a    *)
(* loop over messages whose result the transport decides one Send at a     *)
(* time, so the model takes one step per Send.  Everything runs on the     *)
(* session's thread: nothing else happens while a Flush is under way.      *)
(*                                                                         *)
(* Rejected intents (invalid, dropped or stale) change only statistics     *)
(* that no decision reads; the model leaves them out, so they stutter.     *)
(* Left out as well: the cumulative 64-bit service-accepted counter, whose *)
(* exhaustion would close a connection like a full backlog does.           *)
(***************************************************************************)
EXTENDS Integers, Sequences, FiniteSets, SequencesExt, FiniteSetsExt, Aggregates

CONSTANTS
    Connections,     \* ConnectionId: records [slot, generation]
    Intents,         \* what the producers submit (see IntentAssumption)
    NetworkLimits,   \* the negotiated limits a registration may carry
    NoKey,           \* stands for std::nullopt of GetSequencedQueueKey
    MaximumTotalQueuedReliableBytes,
    MaximumConsecutiveStructuralReplicationMessages,
    CounterMax,      \* stands for the largest uint32
    Window           \* reliable messages are numbered modulo Window

Control == 0
StructuralReplication == 1
ReliableApplication == 2
RealtimeState == 3
EphemeralApplication == 4
Background == 5
Classes == 0 .. 5

\* NetworkLimits::IsValid, of the limits the scheduler reads.
ASSUME LimitsAssumption ==
    /\ NetworkLimits # {}
    /\ \A l \in NetworkLimits :
            /\ l.reliableMessage \in Nat \ {0}
            /\ l.unreliableMessage \in Nat \ {0}
            /\ l.queuedReliable \in Nat /\ l.queuedReliable >= l.reliableMessage
            /\ l.sendBytes \in Nat /\ l.sendBytes >= l.reliableMessage
            /\ l.sendBytes >= l.unreliableMessage
            /\ l.messages \in Nat \ {0}

\* What MakeNetworkMessageIntent and its callers (GameSession, RemoteManager,
\* CharacterNetwork, ReplicationTransport) produce: a payload that is not empty;
\* only unreliable sequenced traffic carries a realtime or remote-event order.
ASSUME IntentAssumption ==
    \A i \in Intents :
        /\ i.class \in Classes
        /\ i.delivery \in {"reliable", "sequenced", "unordered"}
        /\ i.size \in Nat \ {0}
        /\ i.sequence \in Nat
        /\ (i.delivery = "sequenced") <=> (i.key # NoKey)

\* Slots and generations are machine integers.
ASSUME ConnectionAssumption == IsFiniteSet(Connections)

ASSUME CapacityAssumption ==
    /\ MaximumTotalQueuedReliableBytes \in Nat \ {0}
    /\ MaximumConsecutiveStructuralReplicationMessages \in Nat \ {0}
    /\ CounterMax \in Nat
    /\ CounterMax >= MaximumConsecutiveStructuralReplicationMessages
    /\ Window \in Nat \ {0}

VARIABLES
    conns,       \* State->Connections: a ConnectionQueue per identity
    total,       \* TotalQueuedReliableBytes
    stepping,    \* GameSession::Step is between Reset and its last service point
    allowance,   \* PeerValue.SendAllowance, per connection
    flush,       \* the Flush under way, or Idle
    trace        \* history, per connection; no decision reads it

vars == <<conns, total, stepping, allowance, flush, trace>>

-----------------------------------------------------------------------------
(***************************************************************************)
(* State.                                                                  *)
(***************************************************************************)

Idle == [active |-> FALSE]

EmptyQueues == [k \in Classes |-> <<>>]

\* The queue totals of SchedulerStatistics.
NoWork == [ reliableBytes |-> 0, reliableMessages |-> 0,
            unreliableBytes |-> 0, unreliableMessages |-> 0, messages |-> 0 ]

\* A ConnectionQueue as emplaced by RegisterConnection; status "absent" stands
\* for an identity the map does not hold, "closed" for Active == false.
NewQueue(status, limits) ==
    [ status |-> status, limits |-> limits, queues |-> EmptyQueues,
      statistics |-> NoWork, consecutive |-> 0 ]

AnyLimits == CHOOSE l \in NetworkLimits : TRUE

Fresh == [bytes |-> 0, messages |-> 0, stopped |-> FALSE]

\* History of a registration: reliable messages accepted and handed over (per
\* class, modulo Window), the structural messages handed over in a row while
\* application work waited, what this step has handed to the transport, and
\* whether one of its flushes was cut short.
NewTrace == [ accepted |-> [k \in Classes |-> 0], handed |-> [k \in Classes |-> 0],
              waited |-> 0, stepBytes |-> 0, stepMessages |-> 0,
              cut |-> FALSE ]

IsReliable(m) == m.delivery = "reliable"

Active(c) == conns[c].status = "active"

\* Everything the queues of a connection hold.
Held(q) == UNION { {<<k, n>> : n \in DOMAIN q.queues[k]} : k \in Classes }

At(q, p) == q.queues[p[1]][p[2]]

-----------------------------------------------------------------------------
(***************************************************************************)
(* Registration and cancellation.                                          *)
(***************************************************************************)

Init ==
    /\ conns = [c \in Connections |-> NewQueue("absent", AnyLimits)]
    /\ total = 0
    /\ stepping = FALSE
    /\ allowance = [c \in Connections |-> Fresh]
    /\ flush = Idle
    /\ trace = [c \in Connections |-> NewTrace]

SlotTakenVariant(c) ==
    \E d \in Connections : d.slot = c.slot /\ d.generation >= c.generation /\ Active(d)

SlotTaken(c) ==
    \E d \in Connections : d.slot = c.slot /\ Active(d)

\* Called while the session handles transport events, never inside Step.
RegisterConnection(c, limits) ==
    /\ ~flush.active /\ ~stepping
    /\ ~SlotTaken(c)
    /\ conns[c].status = "absent"
    /\ conns' = [conns EXCEPT ![c] = NewQueue("active", limits)]
    /\ trace' = [trace EXCEPT ![c] = NewTrace]
    /\ UNCHANGED <<total, stepping, allowance, flush>>

\* Implementation::Clear, then Active = false or erase.
Cleared(q, status) == NewQueue(status, q.limits)

ReleasedVariant(q) == q.statistics.reliableMessages

\* What Clear takes off the aggregate charge.
Released(q) == q.statistics.reliableBytes

CancelConnection(c) ==
    /\ ~flush.active
    /\ conns[c].status # "absent"
    /\ total' = total - Released(conns[c])
    /\ conns' = [conns EXCEPT ![c] = Cleared(@, "absent")]
    /\ trace' = [trace EXCEPT ![c] = NewTrace]
    /\ UNCHANGED <<stepping, allowance, flush>>

-----------------------------------------------------------------------------
(***************************************************************************)
(* Submit.                                                                 *)
(***************************************************************************)

\* IsNetworkMessageIntentValid against the registered limits.
FitsSession(i, l) ==
    /\ i.size <= IF IsReliable(i) THEN l.reliableMessage ELSE l.unreliableMessage
    /\ i.size <= l.sendBytes

\* The queued form of an intent; a reliable one carries its place in its class.
Numbered(c, i) ==
    [ class |-> i.class, delivery |-> i.delivery, key |-> i.key, sequence |-> i.sequence,
      size |-> i.size,
      number |-> IF IsReliable(i) THEN (trace[c].accepted[i.class] + 1) % Window ELSE 0 ]

\* The statistics after message m was counted in (sign 1) or out (sign -1).
Tally(st, m, sign) ==
    LET reliable == IF IsReliable(m) THEN sign ELSE 0
        unreliable == IF IsReliable(m) THEN 0 ELSE sign IN
    [ reliableBytes |-> st.reliableBytes + reliable * m.size,
      reliableMessages |-> st.reliableMessages + reliable,
      unreliableBytes |-> st.unreliableBytes + unreliable * m.size,
      unreliableMessages |-> st.unreliableMessages + unreliable,
      messages |-> st.messages + sign ]

\* Implementation::Queue with the byte charge Submit adds after it.
Queue(q, m) ==
    [q EXCEPT !.queues = [q.queues EXCEPT ![m.class] = Append(q.queues[m.class], m)],
              !.statistics = Tally(q.statistics, m, 1)]

WithoutVariant(q, k, n) ==
    [q EXCEPT !.queues = [q.queues EXCEPT ![k] = RemoveAt(q.queues[k], n)],
              !.statistics = [Tally(q.statistics, q.queues[k][n], -1)
                                EXCEPT !.unreliableBytes = q.statistics.unreliableBytes]]

\* One message leaves its queue: the erase of a supersession and the pop of a
\* successful send account for it alike.
Without(q, k, n) ==
    [q EXCEPT !.queues = [q.queues EXCEPT ![k] = RemoveAt(q.queues[k], n)],
              !.statistics = Tally(q.statistics, q.queues[k][n], -1)]

BacklogExhaustedVariant(q, i) ==
    \/ i.size > q.limits.queuedReliable - q.statistics.reliableBytes
    \/ q.statistics.reliableBytes = 0 /\ i.size > MaximumTotalQueuedReliableBytes - total

BacklogExhausted(q, i) ==
    \/ i.size > q.limits.queuedReliable - q.statistics.reliableBytes
    \/ i.size > MaximumTotalQueuedReliableBytes - total

Submittable(c, i) ==
    /\ ~flush.active
    /\ Active(c)
    /\ FitsSession(i, conns[c].limits)

\* A reliable intent within both ceilings is queued.
SubmitReliable(c, i) ==
    /\ Submittable(c, i)
    /\ IsReliable(i)
    /\ ~BacklogExhausted(conns[c], i)
    /\ conns' = [conns EXCEPT ![c] = Queue(@, Numbered(c, i))]
    /\ total' = total + i.size
    /\ trace' = [trace EXCEPT ![c].accepted[i.class] = (@ + 1) % Window]
    /\ UNCHANGED <<stepping, allowance, flush>>

\* A reliable intent over a ceiling closes the connection and frees its charge.
SubmitExhausted(c, i) ==
    /\ Submittable(c, i)
    /\ IsReliable(i)
    /\ BacklogExhausted(conns[c], i)
    /\ conns' = [conns EXCEPT ![c] = Cleared(@, "closed")]
    /\ total' = total - Released(conns[c])
    /\ UNCHANGED <<stepping, allowance, flush, trace>>

\* The first queued message with the incoming key, in the order of the scan.
SameKey(q, i) == {p \in Held(q) : At(q, p).key = i.key}

SupersedesVariant(q, i, p) ==
    i.size <= q.limits.sendBytes - (q.statistics.unreliableBytes - At(q, p).size)

\* An older or equal value never replaces a queued one; a newer one does if the
\* unreliable byte bound still holds with the old value gone.
Supersedes(q, i, p) ==
    /\ i.sequence > At(q, p).sequence
    /\ i.size <= q.limits.sendBytes - (q.statistics.unreliableBytes - At(q, p).size)

SubmitSuperseding(c, i) ==
    /\ Submittable(c, i)
    /\ i.delivery = "sequenced"
    /\ \E p \in SameKey(conns[c], i) :
        /\ Supersedes(conns[c], i, p)
        /\ conns' = [conns EXCEPT ![c] = Queue(Without(@, p[1], p[2]), Numbered(c, i))]
    /\ UNCHANGED <<total, stepping, allowance, flush, trace>>

\* The bound on unreliable work kept before the transport.
HasUnreliableRoom(q, i) ==
    /\ q.statistics.unreliableMessages < q.limits.messages
    /\ i.size <= q.limits.sendBytes - q.statistics.unreliableBytes

UnkeyedVariant(q, i) == i.delivery = "sequenced" => \A p \in SameKey(q, i) : At(q, p).sequence < i.sequence

\* No value of the key is queued, or the traffic has no key at all.
Unkeyed(q, i) == i.delivery = "sequenced" => SameKey(q, i) = {}

SubmitUnreliable(c, i) ==
    /\ Submittable(c, i)
    /\ ~IsReliable(i)
    /\ Unkeyed(conns[c], i)
    /\ HasUnreliableRoom(conns[c], i)
    /\ conns' = [conns EXCEPT ![c] = Queue(@, Numbered(c, i))]
    /\ UNCHANGED <<total, stepping, allowance, flush, trace>>

-----------------------------------------------------------------------------
(***************************************************************************)
(* The session step and its send allowance.                                *)
(***************************************************************************)

BeginStep ==
    /\ ~flush.active /\ ~stepping
    /\ stepping' = TRUE
    /\ allowance' = [c \in Connections |-> Fresh]
    /\ trace' = [c \in Connections |-> 
                 [trace[c] EXCEPT !.stepBytes = 0, !.stepMessages = 0, !.cut = FALSE]]
    /\ UNCHANGED <<conns, total, flush>>

EndStep ==
    /\ ~flush.active /\ stepping
    /\ stepping' = FALSE
    /\ UNCHANGED <<conns, total, allowance, flush, trace>>

RemainingBytes(c) == conns[c].limits.sendBytes - allowance[c].bytes

RemainingMessagesVariant(c) == conns[c].limits.messages

RemainingMessages(c) == conns[c].limits.messages - allowance[c].messages

\* SchedulerTickBudget::IsValidFor of what the allowance has left: one message
\* of the largest legal size must still fit.
BudgetIsValid(c) ==
    /\ RemainingBytes(c) >= conns[c].limits.reliableMessage
    /\ RemainingBytes(c) >= conns[c].limits.unreliableMessage
    /\ RemainingMessages(c) > 0

\* SessionSendAllowance::Flush up to its call of Scheduler.Flush.
OpenFlush(c) ==
    /\ ~flush.active /\ stepping
    /\ ~allowance[c].stopped
    /\ BudgetIsValid(c)
    /\ Active(c)
    /\ flush' = [active |-> TRUE, connection |-> c,
                 bytesLeft |-> RemainingBytes(c), messagesLeft |-> RemainingMessages(c)]
    /\ UNCHANGED <<conns, total, stepping, allowance, trace>>

\* A residual below one largest message, or a connection that is gone, stops the
\* peer's service for this step.
RefuseFlush(c) ==
    /\ ~flush.active /\ stepping
    /\ ~allowance[c].stopped
    /\ conns[c].status # "absent"
    /\ ~BudgetIsValid(c) \/ ~Active(c)
    /\ allowance' = [allowance EXCEPT ![c].stopped = TRUE]
    /\ UNCHANGED <<conns, total, stepping, flush, trace>>

ChargedVariant(l, f, drained) ==
    [ bytes |-> l.sendBytes - f.bytesLeft, messages |-> l.messages - f.messagesLeft,
      stopped |-> FALSE ]

\* The bookkeeping of SessionSendAllowance::Flush after Scheduler.Flush returned.
Charged(l, f, drained) ==
    [ bytes |-> l.sendBytes - f.bytesLeft, messages |-> l.messages - f.messagesLeft,
      stopped |-> ~drained ]

CloseFlush(drained) ==
    LET c == flush.connection IN
    /\ flush' = Idle
    /\ allowance' = [allowance EXCEPT ![c] = Charged(conns[c].limits, flush, drained)]
    /\ trace' = [trace EXCEPT ![c].cut = ~drained]
    /\ UNCHANGED stepping

-----------------------------------------------------------------------------
(***************************************************************************)
(* Flush, one message at a time.                                           *)
(***************************************************************************)

NonEmpty(q) == {k \in Classes : q.queues[k] # <<>>}

QueueIndexVariant(q) == CHOOSE k \in NonEmpty(q) : \A j \in NonEmpty(q) : k <= j

QueueIndexOffByOne(q) ==
    IF /\ Control \notin NonEmpty(q)
       /\ {StructuralReplication, ReliableApplication} \subseteq NonEmpty(q)
       /\ q.consecutive > MaximumConsecutiveStructuralReplicationMessages
    THEN ReliableApplication
    ELSE CHOOSE k \in NonEmpty(q) : \A j \in NonEmpty(q) : k <= j

\* The queue the loop picks: control, then structural unless its run is spent
\* and application work waits, then the rest by precedence.
QueueIndex(q) ==
    IF /\ Control \notin NonEmpty(q)
       /\ {StructuralReplication, ReliableApplication} \subseteq NonEmpty(q)
       /\ q.consecutive >= MaximumConsecutiveStructuralReplicationMessages
    THEN ReliableApplication
    ELSE CHOOSE k \in NonEmpty(q) : \A j \in NonEmpty(q) : k <= j

NextMessage(q) == q.queues[QueueIndex(q)][1]

RunVariant(consecutive, k) ==
    IF k = StructuralReplication THEN consecutive + 1
    ELSE IF k = ReliableApplication THEN 0 ELSE consecutive

\* ConsecutiveStructuralReplicationMessages after a message of class k went out.
Run(consecutive, k) ==
    IF k = StructuralReplication
    THEN IF consecutive # CounterMax THEN consecutive + 1 ELSE consecutive
    ELSE IF k = ReliableApplication THEN 0 ELSE consecutive

WithinBudget(m) == flush.messagesLeft # 0 /\ m.size <= flush.bytesLeft

\* The loop has a message to consider.
Pending == flush.active /\ conns[flush.connection].statistics.messages # 0

\* History: structural messages handed over while application work waits, counted
\* up to one past the allowed run.
Waited(w, q, k) ==
    IF k = ReliableApplication \/ q.queues[ReliableApplication] = <<>> THEN 0
    ELSE IF k = StructuralReplication /\ w <= MaximumConsecutiveStructuralReplicationMessages
         THEN w + 1 ELSE w

TraceSend(t, q, k) ==
    LET m == q.queues[k][1] IN
    [t EXCEPT !.handed = IF IsReliable(m) THEN [@ EXCEPT ![k] = m.number] ELSE @,
              !.waited = Waited(@, q, k),
              !.stepBytes = @ + m.size,
              !.stepMessages = @ + 1]

\* What a successful Send of the front of queue k leaves of the connection.
Sent(q, k) == [Without(q, k, 1) EXCEPT !.consecutive = Run(@, k)]

\* Transport.Send succeeded: the message is accounted for and popped.
FlushSend ==
    /\ Pending
    /\ LET c == flush.connection
           q == conns[c]
           m == NextMessage(q) IN
        /\ WithinBudget(m)
        /\ conns' = [conns EXCEPT ![c] = Sent(q, QueueIndex(q))]
        /\ total' = IF IsReliable(m) THEN total - m.size ELSE total
        /\ flush' = [flush EXCEPT !.bytesLeft = @ - m.size, !.messagesLeft = @ - 1]
        /\ trace' = [trace EXCEPT ![c] = TraceSend(@, q, QueueIndex(q))]
    /\ UNCHANGED <<stepping, allowance>>

\* BudgetLimited: the next message waits for the next step.
FlushBudgetLimited ==
    /\ Pending
    /\ ~WithinBudget(NextMessage(conns[flush.connection]))
    /\ CloseFlush(FALSE)
    /\ UNCHANGED <<conns, total>>

FlushBackpressuredVariant ==
    /\ Pending
    /\ WithinBudget(NextMessage(conns[flush.connection]))
    /\ CloseFlush(FALSE)
    /\ LET q == conns[flush.connection] IN
        /\ conns' = [conns EXCEPT ![flush.connection] = Sent(q, QueueIndex(q))]
        /\ total' = total - (q.statistics.reliableBytes - Sent(q, QueueIndex(q)).statistics.reliableBytes)

\* Transport.Send answered WouldBlock: everything queued stays queued.
FlushBackpressured ==
    /\ Pending
    /\ WithinBudget(NextMessage(conns[flush.connection]))
    /\ CloseFlush(FALSE)
    /\ UNCHANGED <<conns, total>>

\* Transport.Send failed otherwise: the connection is closed and cleared.
FlushFailed ==
    /\ Pending
    /\ WithinBudget(NextMessage(conns[flush.connection]))
    /\ conns' = [conns EXCEPT ![flush.connection] = Cleared(@, "closed")]
    /\ total' = total - Released(conns[flush.connection])
    /\ CloseFlush(FALSE)

FlushDrained ==
    /\ flush.active
    /\ conns[flush.connection].statistics.messages = 0
    /\ CloseFlush(TRUE)
    /\ UNCHANGED <<conns, total>>

-----------------------------------------------------------------------------

Submit(c, i) ==
    \/ SubmitReliable(c, i)
    \/ SubmitExhausted(c, i)
    \/ SubmitSuperseding(c, i)
    \/ SubmitUnreliable(c, i)

Flush == FlushSend \/ FlushBudgetLimited \/ FlushBackpressured \/ FlushFailed \/ FlushDrained

Next ==
    \/ \E c \in Connections : \E l \in NetworkLimits : RegisterConnection(c, l)
    \/ \E c \in Connections : CancelConnection(c)
    \/ \E c \in Connections : \E i \in Intents : Submit(c, i)
    \/ BeginStep
    \/ EndStep
    \/ \E c \in Connections : OpenFlush(c) \/ RefuseFlush(c)
    \/ Flush

Spec == Init /\ [][Next]_vars

\* The session keeps stepping, each step ends after finitely many service points
\* and offers every peer one, and a transport that keeps being offered work of a
\* peer does not refuse it forever.
Fairness ==
    /\ WF_vars(BeginStep)
    /\ SF_vars(EndStep)
    /\ WF_vars(Flush)
    /\ \A c \in Connections : SF_vars(FlushSend /\ flush.connection = c)
    /\ \A c \in Connections : SF_vars(OpenFlush(c))

FairSpec == Spec /\ Fairness

-----------------------------------------------------------------------------
(***************************************************************************)
(* Properties.                                                             *)
(***************************************************************************)

Messages ==
    [ class : Classes, delivery : {"reliable", "sequenced", "unordered"},
      key : {i.key : i \in Intents}, sequence : {i.sequence : i \in Intents},
      size : {i.size : i \in Intents}, number : 0 .. (Window - 1) ]

Statistics ==
    [ reliableBytes : Int, reliableMessages : Int,
      unreliableBytes : Int, unreliableMessages : Int, messages : Int ]

ConnectionQueues ==
    [ status : {"absent", "active", "closed"}, limits : NetworkLimits,
      queues : [Classes -> Seq(Messages)],
      statistics : Statistics, consecutive : 0 .. CounterMax ]

Traces ==
    [ accepted : [Classes -> 0 .. (Window - 1)], handed : [Classes -> 0 .. (Window - 1)],
      waited : Nat, stepBytes : Nat, stepMessages : Nat, cut : BOOLEAN ]

Flushes ==
    {Idle} \cup
    [active : {TRUE}, connection : Connections, bytesLeft : Int, messagesLeft : Int]

\* The shape of the scheduler's state.
TypeOK ==
    /\ conns \in [Connections -> ConnectionQueues]
    /\ total \in Int
    /\ stepping \in BOOLEAN
    /\ allowance \in [Connections -> [bytes : Int, messages : Int, stopped : BOOLEAN]]
    /\ flush \in Flushes
    /\ trace \in [Connections -> Traces]

\* What a message counts in each of the statistics.
ReliableCount == [m \in Messages |-> IF IsReliable(m) THEN 1 ELSE 0]

ReliableBytes == [m \in Messages |-> IF IsReliable(m) THEN m.size ELSE 0]

UnreliableCount == [m \in Messages |-> IF IsReliable(m) THEN 0 ELSE 1]

UnreliableBytes == [m \in Messages |-> IF IsReliable(m) THEN 0 ELSE m.size]

\* The six queues of a connection, weighed.
HeldTotal(weight, q) == Total([k \in Classes |-> SeqTotal(weight, q.queues[k])], Classes)

\* The statistics of a connection are those of its queues, and within its limits.
QueueAccounts(q) ==
    /\ q.statistics.reliableBytes = HeldTotal(ReliableBytes, q)
    /\ q.statistics.reliableMessages = HeldTotal(ReliableCount, q)
    /\ q.statistics.unreliableBytes = HeldTotal(UnreliableBytes, q)
    /\ q.statistics.unreliableMessages = HeldTotal(UnreliableCount, q)
    /\ q.statistics.messages = q.statistics.reliableMessages + q.statistics.unreliableMessages
    /\ q.statistics.reliableBytes <= q.limits.queuedReliable
    /\ q.statistics.unreliableBytes <= q.limits.sendBytes
    /\ q.statistics.unreliableMessages <= q.limits.messages
    /\ q.status # "active" => Held(q) = {}

\* TotalQueuedReliableBytes as it should be.
ChargedBytes == [c \in Connections |-> conns[c].statistics.reliableBytes]

\* The five counters of SchedulerStatistics that decide admission equal what the
\* six queues hold, the aggregate equals the sum of the reliable charges, and none
\* is ever past its ceiling: the subtractions in Submit never wrap.
AccountsExact ==
    /\ \A c \in Connections : QueueAccounts(conns[c])
    /\ total = Total(ChargedBytes, Connections)
    /\ total <= MaximumTotalQueuedReliableBytes

\* How many of the first n messages of a queue are reliable.
ReliableAmong(s, n) == SeqTotal(ReliableCount, SubSeq(s, 1, n))

\* The reliable messages of a queue are numbered on from the last one handed over,
\* up to the last one accepted.
InOrder(s, handed, accepted) ==
    /\ \A n \in DOMAIN s : IsReliable(s[n]) =>
          s[n].number = (handed + ReliableAmong(s, n)) % Window
    /\ accepted = (handed + SeqTotal(ReliableCount, s)) % Window

\* Reliable work accepted on a connection that is still active is, class by class,
\* exactly what was handed to the transport followed by what is queued, in order:
\* nothing is lost, duplicated or overtaken, whatever WouldBlock, budgets,
\* supersession and refused flushes did in between.
ReliableConserved ==
    \A c \in Connections : Active(c) =>
        \A k \in Classes :
            InOrder(conns[c].queues[k], trace[c].handed[k], trace[c].accepted[k])

\* At most one unsent value per sequenced key.
OneValuePerKey ==
    \A c \in Connections : \A p, r \in Held(conns[c]) :
        At(conns[c], p).key = At(conns[c], r).key /\ At(conns[c], p).key # NoKey => p = r

\* The unsent value of a sequenced key is replaced only by a newer one; it leaves
\* the queue otherwise only through the transport or with its connection.
NewestWins ==
    [][\A c \in Connections : \A p \in Held(conns[c]) :
        LET m == At(conns[c], p)
            after == {r \in Held(conns'[c]) : At(conns'[c], r).key = m.key} IN
        (m.key # NoKey /\ Active(c) /\ conns'[c].status = "active") =>
            \/ \E r \in after : At(conns'[c], r).sequence >= m.sequence
            \/ after = {} /\ trace'[c].stepMessages = trace[c].stepMessages + 1]_vars

\* When both are queued, at most MaximumConsecutiveStructuralReplicationMessages
\* structural messages go out before a reliable application message does, over any
\* number of flushes and steps.
StructuralRunBounded ==
    \A c \in Connections :
        trace[c].waited <= MaximumConsecutiveStructuralReplicationMessages

\* At most one connection of a slot is active, through closing, cancellation,
\* renegotiation and reuse of the slot by a later generation.
OneActivePerSlot ==
    \A c, d \in Connections : Active(c) /\ Active(d) /\ c.slot = d.slot => c = d

\* All flushes of one session step together hand over no more than one tick's
\* negotiated bytes and messages to a peer.
StepBudgetRespected ==
    \A c \in Connections : stepping =>
        /\ trace[c].stepBytes <= conns[c].limits.sendBytes
        /\ trace[c].stepMessages <= conns[c].limits.messages

\* Once a flush of this step was cut short, by its budget or by the transport,
\* nothing more is handed to that peer in the step: later traffic cannot overtake
\* what was left behind.
NothingAfterACut ==
    [][\A c \in Connections :
        trace[c].cut /\ trace'[c].cut => trace'[c].stepMessages = trace[c].stepMessages]_vars

\* Admitted application work is handed over or its connection ends, however much
\* structural work keeps arriving, once control traffic leaves it room.
ApplicationServed ==
    \A c \in Connections : \A n \in 0 .. (Window - 1) :
        <>[](conns[c].queues[Control] = <<>>) =>
            ( Active(c) /\ conns[c].queues[ReliableApplication] # <<>>
                        /\ Head(conns[c].queues[ReliableApplication]).number = n )
            ~> (~Active(c) \/ trace[c].handed[ReliableApplication] = n)
=============================================================================
