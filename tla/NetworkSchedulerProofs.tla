----------------------- MODULE NetworkSchedulerProofs -----------------------
(***************************************************************************)
(* Proofs about the network scheduler, for every set of connections, every *)
(* mix of intents and every limits: the run of structural messages, the    *)
(* use of slots and the budget of a step; then what the scheduler accounts *)
(* for and keeps in order: the statistics of a connection are the sums     *)
(* over its queues, the aggregate charge is the sum over the connections,  *)
(* and reliable work is handed over completely and in order.               *)
(*                                                                         *)
(* None of the first three is inductive.  The run is bounded because the   *)
(* scheduler's own counter never falls behind the true run, which needs    *)
(* that the loop always finds a message to send, which needs that the      *)
(* message count is exact; the step budget is respected because an open    *)
(* flush holds exactly what the allowance has not spent.                   *)
(***************************************************************************)
EXTENDS NetworkScheduler, AggregateTheorems

Limit == MaximumConsecutiveStructuralReplicationMessages

\* The number of messages in the six queues.
Sum(s) == Len(s[0]) + Len(s[1]) + Len(s[2]) + Len(s[3]) + Len(s[4]) + Len(s[5])

Count(q) == Sum(q.queues)

\* QueuedMessages is exact.
CountExact == \A c \in Connections : conns[c].statistics.messages = Count(conns[c])

\* A flush runs inside a step, on an active connection not yet cut short.
FlushOK ==
    flush.active =>
        /\ stepping
        /\ Active(flush.connection)
        /\ ~trace[flush.connection].cut

\* The scheduler's counter never falls behind the structural messages that went
\* out while application work waited.
RunOK ==
    \A c \in Connections :
        /\ trace[c].waited <= Limit
        /\ Active(c) => trace[c].waited <= conns[c].consecutive

\* What a step handed over is charged to the allowance, or is missing from the
\* budget of the flush under way.
BudgetOK ==
    stepping => \A c \in Connections :
        /\ trace[c].cut => allowance[c].stopped
        /\ IF flush.active /\ flush.connection = c
           THEN /\ flush.bytesLeft >= 0 /\ flush.messagesLeft >= 0
                /\ trace[c].stepBytes + flush.bytesLeft <= conns[c].limits.sendBytes
                /\ trace[c].stepMessages + flush.messagesLeft <= conns[c].limits.messages
           ELSE /\ trace[c].stepBytes <= allowance[c].bytes
                /\ trace[c].stepMessages <= allowance[c].messages
                /\ allowance[c].bytes <= conns[c].limits.sendBytes
                /\ allowance[c].messages <= conns[c].limits.messages

\* The inductive invariant.
IndInv == TypeOK /\ CountExact /\ FlushOK /\ RunOK /\ OneActivePerSlot /\ BudgetOK

\* Limits in use are natural numbers.
LEMMA LimitsType ==
    ASSUME NEW l \in NetworkLimits
    PROVE  /\ l.reliableMessage \in Nat \ {0} /\ l.unreliableMessage \in Nat \ {0}
           /\ l.queuedReliable \in Nat /\ l.sendBytes \in Nat /\ l.messages \in Nat \ {0}
BY LimitsAssumption

\* The loop of Flush picks a queue that holds a message; it picks the structural
\* queue while application work waits only if its run is not spent.
LEMMA QueueIndexChoice ==
    ASSUME NEW q \in ConnectionQueues, NonEmpty(q) # {}
    PROVE  /\ QueueIndex(q) \in Classes
           /\ q.queues[QueueIndex(q)] # <<>>
           /\ ( /\ QueueIndex(q) = StructuralReplication
                /\ q.queues[ReliableApplication] # <<>> ) => q.consecutive < Limit
<1> DEFINE S == NonEmpty(q)
<1>1. S \subseteq 0 .. 5
  BY DEF NonEmpty, Classes
<1>2. \E k \in S : \A j \in S : k <= j
  <2>0. CASE 0 \in S BY <2>0, <1>1
  <2>1. CASE 0 \notin S /\ 1 \in S BY <2>1, <1>1
  <2>2. CASE {0, 1} \cap S = {} /\ 2 \in S BY <2>2, <1>1
  <2>3. CASE {0, 1, 2} \cap S = {} /\ 3 \in S BY <2>3, <1>1
  <2>4. CASE {0, 1, 2, 3} \cap S = {} /\ 4 \in S BY <2>4, <1>1
  <2>5. CASE {0, 1, 2, 3, 4} \cap S = {} BY <2>5, <1>1
  <2> QED BY <2>0, <2>1, <2>2, <2>3, <2>4, <2>5
<1> DEFINE least == CHOOSE k \in S : \A j \in S : k <= j
<1>3. least \in S /\ \A j \in S : least <= j
  BY <1>2
<1>4. QueueIndex(q) \in S
  BY <1>3 DEF QueueIndex
<1>5. ASSUME QueueIndex(q) = StructuralReplication, q.queues[ReliableApplication] # <<>>
      PROVE  q.consecutive < Limit
  <2>1. StructuralReplication \in S /\ ReliableApplication \in S
    BY <1>4, <1>5 DEF NonEmpty, Classes, ReliableApplication
  <2>2. StructuralReplication # ReliableApplication
    BY DEF StructuralReplication, ReliableApplication
  <2>3. least = StructuralReplication
    BY <1>5, <2>2 DEF QueueIndex
  <2>4. Control \notin S
    BY <1>3, <2>3 DEF Control, StructuralReplication
  <2>5. ~(q.consecutive >= MaximumConsecutiveStructuralReplicationMessages)
    BY <1>5, <2>1, <2>2, <2>4 DEF QueueIndex
  <2> QED BY <2>5, CapacityAssumption DEF ConnectionQueues, Limit
<1> QED BY <1>4, <1>5 DEF NonEmpty, Classes

\* A count that is not zero means a queue that is not empty.
LEMMA CountedIsHeld ==
    ASSUME NEW q \in ConnectionQueues, Count(q) # 0
    PROVE  NonEmpty(q) # {}
<1> SUFFICES ASSUME NonEmpty(q) = {} PROVE Count(q) = 0
  OBVIOUS
<1>1. \A k \in 0 .. 5 : q.queues[k] = <<>>
  BY DEF NonEmpty, Classes
<1>2. /\ Len(q.queues[0]) = 0 /\ Len(q.queues[1]) = 0 /\ Len(q.queues[2]) = 0
      /\ Len(q.queues[3]) = 0 /\ Len(q.queues[4]) = 0 /\ Len(q.queues[5]) = 0
  BY <1>1
<1> QED BY <1>2 DEF Count, Sum

\* A ConnectionQueue just created, or cleared, is well formed and empty.
LEMMA NewQueueType ==
    ASSUME NEW s \in {"absent", "active", "closed"}, NEW l \in NetworkLimits
    PROVE  /\ NewQueue(s, l) \in ConnectionQueues
           /\ NewQueue(s, l).status = s
           /\ NewQueue(s, l).limits = l
           /\ NewQueue(s, l).queues = EmptyQueues
           /\ NewQueue(s, l).statistics.messages = 0
           /\ NewQueue(s, l).consecutive = 0
           /\ Count(NewQueue(s, l)) = 0
<1>1. EmptyQueues \in [Classes -> Seq(Messages)]
  BY DEF EmptyQueues
<1>2. 0 \in 0 .. CounterMax
  BY CapacityAssumption
<1>3. \A k \in 0 .. 5 : EmptyQueues[k] = <<>> /\ Len(EmptyQueues[k]) = 0
  BY DEF EmptyQueues, Classes
<1>4. NewQueue(s, l).queues = EmptyQueues
  BY DEF NewQueue
<1>5. Count(NewQueue(s, l)) = 0
  <2>1. /\ Len(EmptyQueues[0]) = 0 /\ Len(EmptyQueues[1]) = 0 /\ Len(EmptyQueues[2]) = 0
        /\ Len(EmptyQueues[3]) = 0 /\ Len(EmptyQueues[4]) = 0 /\ Len(EmptyQueues[5]) = 0
    BY <1>3
  <2> QED BY <1>4, <2>1 DEF Count, Sum
<1>6. NoWork \in Statistics /\ NoWork.messages = 0
  BY DEF NoWork, Statistics
<1> QED BY <1>1, <1>2, <1>4, <1>5, <1>6 DEF NewQueue, ConnectionQueues

\* Numbers stay within the window.
LEMMA Wrapped ==
    ASSUME NEW n \in 0 .. (Window - 1)
    PROVE  (n + 1) % Window \in 0 .. (Window - 1)
BY CapacityAssumption

\* An intent becomes a message of its own class and size.
LEMMA NumberedType ==
    ASSUME TypeOK, NEW c \in Connections, NEW i \in Intents
    PROVE  /\ Numbered(c, i) \in Messages
           /\ Numbered(c, i).class = i.class /\ i.class \in Classes
<1>1. trace[c].accepted[i.class] \in 0 .. (Window - 1)
  BY IntentAssumption DEF TypeOK, Traces
<1>2. (trace[c].accepted[i.class] + 1) % Window \in 0 .. (Window - 1)
  BY <1>1, Wrapped
<1>3. 0 \in 0 .. (Window - 1)
  BY CapacityAssumption
<1> QED BY <1>2, <1>3, IntentAssumption DEF Numbered, Messages

\* Sizes of messages are positive.
LEMMA MessageType ==
    ASSUME NEW m \in Messages
    PROVE  m.size \in Nat \ {0} /\ m.class \in Classes /\ m.number \in 0 .. (Window - 1)
BY IntentAssumption DEF Messages

\* Counting a message in or out.
LEMMA TallyType ==
    ASSUME NEW st \in Statistics, NEW m, m.size \in Int
    PROVE  /\ Tally(st, m, 1) \in Statistics /\ Tally(st, m, 1).messages = st.messages + 1
           /\ Tally(st, m, -1) \in Statistics /\ Tally(st, m, -1).messages = st.messages - 1
BY DEF Tally, Statistics

\* The count follows the one queue that changed.
LEMMA SumChange ==
    ASSUME NEW s \in [Classes -> Seq(Messages)], NEW t \in [Classes -> Seq(Messages)],
           NEW k \in Classes, NEW d \in Int,
           Len(t[k]) = Len(s[k]) + d,
           \A j \in Classes \ {k} : t[j] = s[j]
    PROVE  Sum(t) = Sum(s) + d
<1> DEFINE s0 == Len(s[0])
           s1 == Len(s[1])
           s2 == Len(s[2])
           s3 == Len(s[3])
           s4 == Len(s[4])
           s5 == Len(s[5])
           t0 == Len(t[0])
           t1 == Len(t[1])
           t2 == Len(t[2])
           t3 == Len(t[3])
           t4 == Len(t[4])
           t5 == Len(t[5])
<1>1. s0 \in Int /\ s1 \in Int /\ s2 \in Int /\ s3 \in Int /\ s4 \in Int /\ s5 \in Int
  BY DEF Classes
<1>2. /\ t0 = IF k = 0 THEN s0 + d ELSE s0
      /\ t1 = IF k = 1 THEN s1 + d ELSE s1
      /\ t2 = IF k = 2 THEN s2 + d ELSE s2
      /\ t3 = IF k = 3 THEN s3 + d ELSE s3
      /\ t4 = IF k = 4 THEN s4 + d ELSE s4
      /\ t5 = IF k = 5 THEN s5 + d ELSE s5
  <2>1. \A j \in Classes : Len(t[j]) = IF k = j THEN Len(s[j]) + d ELSE Len(s[j])
    OBVIOUS
  <2>2. 0 \in Classes /\ 1 \in Classes /\ 2 \in Classes /\ 3 \in Classes /\ 4 \in Classes /\ 5 \in Classes
    BY DEF Classes
  <2> QED BY <2>1, <2>2, Zenon
<1>3. k \in 0 .. 5
  BY DEF Classes
<1>4. Sum(s) = s0 + s1 + s2 + s3 + s4 + s5 /\ Sum(t) = t0 + t1 + t2 + t3 + t4 + t5
  BY DEF Sum
<1> HIDE DEF s0, t0, s1, t1, s2, t2, s3, t3, s4, t4, s5, t5
<1> QED BY <1>1, <1>2, <1>3, <1>4

\* Adding a message at the end of its queue.
LEMMA QueueType ==
    ASSUME NEW q \in ConnectionQueues, NEW m \in Messages
    PROVE  /\ Queue(q, m) \in ConnectionQueues
           /\ Queue(q, m).status = q.status
           /\ Queue(q, m).limits = q.limits
           /\ Queue(q, m).consecutive = q.consecutive
           /\ Queue(q, m).statistics.messages = q.statistics.messages + 1
           /\ Count(Queue(q, m)) = Count(q) + 1
           /\ Queue(q, m).queues[ReliableApplication] = <<>> =>
                q.queues[ReliableApplication] = <<>>
<1> DEFINE k == m.class
           s == [q.queues EXCEPT ![m.class] = Append(q.queues[m.class], m)]
           st == Tally(q.statistics, m, 1)
<1>1. q.queues \in [Classes -> Seq(Messages)] /\ q.statistics \in Statistics
  BY DEF ConnectionQueues
<1>2. k \in Classes /\ m.size \in Int
  BY MessageType
<1>3. s \in [Classes -> Seq(Messages)]
  BY <1>1, <1>2
<1>4. st \in Statistics /\ st.messages = q.statistics.messages + 1
  BY <1>1, <1>2, TallyType
<1>5. Len(s[k]) = Len(q.queues[k]) + 1 /\ \A j \in Classes \ {k} : s[j] = q.queues[j]
  BY <1>1, <1>2
<1>6. Sum(s) = Sum(q.queues) + 1
  <2> HIDE DEF s, k
  <2>1. 1 \in Int
    OBVIOUS
  <2> QED BY <1>1, <1>2, <1>3, <1>5, <2>1, SumChange, Zenon
<1>7. s[ReliableApplication] = <<>> => q.queues[ReliableApplication] = <<>>
  <2>1. q.queues[k] \in Seq(Messages) /\ Append(q.queues[k], m) # <<>>
    BY <1>1, <1>2
  <2> QED BY <1>1, <1>2, <2>1 DEF ReliableApplication, Classes
<1> HIDE DEF s, st, k
<1>8. /\ Queue(q, m) \in ConnectionQueues
      /\ Queue(q, m).queues = s /\ Queue(q, m).statistics = st
      /\ Queue(q, m).status = q.status /\ Queue(q, m).limits = q.limits
      /\ Queue(q, m).consecutive = q.consecutive
  <2>1. Queue(q, m) = [q EXCEPT !.queues = s, !.statistics = st]
    BY DEF Queue, s, st
  <2> QED BY <1>3, <1>4, <2>1 DEF ConnectionQueues
<1>9. Count(Queue(q, m)) = Count(q) + 1
  BY <1>6, <1>8 DEF Count
<1> QED BY <1>4, <1>7, <1>8, <1>9

\* Taking the message at a position out of its queue.
LEMMA WithoutType ==
    ASSUME NEW q \in ConnectionQueues, NEW k \in Classes, NEW n \in 1 .. Len(q.queues[k])
    PROVE  /\ Without(q, k, n) \in ConnectionQueues
           /\ Without(q, k, n).status = q.status
           /\ Without(q, k, n).limits = q.limits
           /\ Without(q, k, n).consecutive = q.consecutive
           /\ Without(q, k, n).statistics.messages = q.statistics.messages - 1
           /\ Count(Without(q, k, n)) = Count(q) - 1
           /\ k # ReliableApplication =>
                Without(q, k, n).queues[ReliableApplication] = q.queues[ReliableApplication]
<1> DEFINE m == q.queues[k][n]
           r == RemoveAt(q.queues[k], n)
           s == [q.queues EXCEPT ![k] = RemoveAt(q.queues[k], n)]
           st == Tally(q.statistics, q.queues[k][n], -1)
<1>1. q.queues \in [Classes -> Seq(Messages)] /\ q.statistics \in Statistics
  BY DEF ConnectionQueues
<1>2. m \in Messages /\ m.size \in Int
  BY <1>1, MessageType
<1>3. r \in Seq(Messages) /\ Len(r) = Len(q.queues[k]) - 1
  <2>1. q.queues[k] \in Seq(Messages)
    BY <1>1
  <2>2. /\ SubSeq(q.queues[k], 1, n - 1) \in Seq(Messages)
        /\ Len(SubSeq(q.queues[k], 1, n - 1)) = n - 1
        /\ SubSeq(q.queues[k], n + 1, Len(q.queues[k])) \in Seq(Messages)
        /\ Len(SubSeq(q.queues[k], n + 1, Len(q.queues[k]))) = Len(q.queues[k]) - n
    BY <2>1, SubSeqProperties
  <2> DEFINE a == SubSeq(q.queues[k], 1, n - 1)
             b == SubSeq(q.queues[k], n + 1, Len(q.queues[k]))
  <2>3. r = a \o b
    BY DEF RemoveAt
  <2>4. Len(q.queues[k]) \in Nat
    BY <2>1
  <2> HIDE DEF a, b, r
  <2>5. a \o b \in Seq(Messages) /\ Len(a \o b) = Len(a) + Len(b)
    BY <2>2 DEF a, b
  <2>6. Len(a) = n - 1 /\ Len(b) = Len(q.queues[k]) - n
    BY <2>2 DEF a, b
  <2> QED BY <2>3, <2>4, <2>5, <2>6
<1> HIDE DEF r
<1>4. s \in [Classes -> Seq(Messages)]
  BY <1>1, <1>3 DEF r
<1>5. st \in Statistics /\ st.messages = q.statistics.messages - 1
  BY <1>1, <1>2, TallyType
<1>6. \A j \in Classes : s[j] = IF j = k THEN r ELSE q.queues[j]
  BY <1>1 DEF r
<1>7. Sum(s) = Sum(q.queues) + (-1)
  <2>1. Len(s[k]) = Len(q.queues[k]) + (-1) /\ \A j \in Classes \ {k} : s[j] = q.queues[j]
    <3>1. Len(q.queues[k]) \in Nat
      BY <1>1
    <3> QED BY <1>3, <1>6, <3>1
  <2> HIDE DEF s
  <2>2. (-1) \in Int
    OBVIOUS
  <2> QED BY <1>1, <1>4, <2>1, <2>2, SumChange, Zenon
<1>8. Sum(q.queues) \in Int
  <2>1. \A j \in 0 .. 5 : Len(q.queues[j]) \in Int
    BY <1>1 DEF Classes
  <2> QED BY <2>1 DEF Sum
<1> HIDE DEF s, st, m
<1>9. /\ Without(q, k, n) \in ConnectionQueues
      /\ Without(q, k, n).queues = s /\ Without(q, k, n).statistics = st
      /\ Without(q, k, n).status = q.status /\ Without(q, k, n).limits = q.limits
      /\ Without(q, k, n).consecutive = q.consecutive
  <2>1. Without(q, k, n) = [q EXCEPT !.queues = s, !.statistics = st]
    BY DEF Without, s, st
  <2> QED BY <1>4, <1>5, <2>1 DEF ConnectionQueues
<1>10. Count(Without(q, k, n)) = Count(q) - 1
  BY <1>7, <1>8, <1>9 DEF Count
<1>11. ReliableApplication \in Classes
  BY DEF ReliableApplication, Classes
<1> QED BY <1>5, <1>6, <1>9, <1>10, <1>11

\* A connection's state is replaced by a well-formed one with an exact count.
LEMMA OneChanges ==
    ASSUME TypeOK, CountExact, NEW c \in Connections, NEW nq \in ConnectionQueues,
           nq.statistics.messages = Count(nq),
           conns' = [conns EXCEPT ![c] = nq]
    PROVE  /\ conns' \in [Connections -> ConnectionQueues]
           /\ CountExact'
           /\ conns'[c] = nq
           /\ \A d \in Connections : d # c => conns'[d] = conns[d]
BY DEF TypeOK, CountExact, Count

\* A new history is well formed.
LEMMA NewTraceType ==
    /\ NewTrace \in Traces
    /\ NewTrace.waited = 0 /\ NewTrace.stepBytes = 0 /\ NewTrace.stepMessages = 0
    /\ NewTrace.cut = FALSE
BY CapacityAssumption DEF NewTrace, Traces, Classes

\* RegisterConnection preserves the invariant: only a free slot is taken.
LEMMA RegisterStep ==
    ASSUME IndInv, NEW c \in Connections, NEW l \in NetworkLimits, RegisterConnection(c, l)
    PROVE  IndInv'
<1> DEFINE nq == NewQueue("active", l)
<1>1. /\ nq \in ConnectionQueues /\ nq.status = "active" /\ nq.consecutive = 0
      /\ nq.statistics.messages = Count(nq)
  BY NewQueueType
<1> HIDE DEF nq
<1>2. /\ conns' \in [Connections -> ConnectionQueues] /\ CountExact'
      /\ conns'[c] = nq /\ \A d \in Connections : d # c => conns'[d] = conns[d]
  BY <1>1, OneChanges DEF IndInv, RegisterConnection, nq
<1>3. trace' \in [Connections -> Traces] /\ trace'[c].waited = 0
      /\ \A d \in Connections : d # c => trace'[d] = trace[d]
  BY NewTraceType DEF IndInv, TypeOK, RegisterConnection
<1>4. TypeOK'
  BY <1>2, <1>3 DEF IndInv, TypeOK, RegisterConnection
<1>5. FlushOK' /\ BudgetOK'
  BY DEF IndInv, RegisterConnection, FlushOK, BudgetOK
<1>6. RunOK'
  BY <1>1, <1>2, <1>3, CapacityAssumption DEF IndInv, RunOK, Active, Limit
<1>7. OneActivePerSlot'
  BY <1>2 DEF IndInv, OneActivePerSlot, Active, RegisterConnection, SlotTaken
<1> QED BY <1>2, <1>4, <1>5, <1>6, <1>7 DEF IndInv

\* A connection is cleared, closed or not, while no flush is under way.
LEMMA ClearedType ==
    ASSUME TypeOK, NEW c \in Connections, NEW st \in {"absent", "closed"}
    PROVE  /\ Cleared(conns[c], st) \in ConnectionQueues
           /\ Cleared(conns[c], st).status = st
           /\ Cleared(conns[c], st).limits = conns[c].limits
           /\ Cleared(conns[c], st).statistics.messages = Count(Cleared(conns[c], st))
           /\ Released(conns[c]) \in Int
<1>1. conns[c] \in ConnectionQueues
  BY DEF TypeOK
<1>2. conns[c].limits \in NetworkLimits /\ conns[c].statistics \in Statistics
  BY <1>1 DEF ConnectionQueues
<1>3. conns[c].statistics.reliableBytes \in Int
  BY <1>2 DEF Statistics
<1> QED BY <1>2, <1>3, NewQueueType DEF Cleared, Released

\* CancelConnection preserves the invariant: only its own generation is touched.
LEMMA CancelStep ==
    ASSUME IndInv, NEW c \in Connections, CancelConnection(c)
    PROVE  IndInv'
<1> DEFINE nq == Cleared(conns[c], "absent")
<1>1. /\ nq \in ConnectionQueues /\ nq.status = "absent" /\ nq.limits = conns[c].limits
      /\ nq.statistics.messages = Count(nq) /\ Released(conns[c]) \in Int
  BY ClearedType DEF IndInv
<1>2. conns' = [conns EXCEPT ![c] = nq]
  BY DEF CancelConnection
<1> HIDE DEF nq
<1>3. /\ conns' \in [Connections -> ConnectionQueues] /\ CountExact'
      /\ conns'[c] = nq /\ \A d \in Connections : d # c => conns'[d] = conns[d]
  BY <1>1, <1>2, OneChanges DEF IndInv
<1>4. /\ trace' \in [Connections -> Traces] /\ trace'[c] = NewTrace
      /\ \A d \in Connections : d # c => trace'[d] = trace[d]
  BY NewTraceType DEF IndInv, TypeOK, CancelConnection
<1>5. TypeOK'
  BY <1>1, <1>3, <1>4 DEF IndInv, TypeOK, CancelConnection
<1>6. FlushOK'
  BY DEF IndInv, CancelConnection, FlushOK
<1>7. RunOK'
  BY <1>1, <1>3, <1>4, NewTraceType, CapacityAssumption DEF IndInv, RunOK, Active, Limit
<1>8. OneActivePerSlot'
  BY <1>1, <1>3 DEF IndInv, OneActivePerSlot, Active
<1>9. BudgetOK'
  <2> SUFFICES ASSUME stepping, NEW d \in Connections
               PROVE  /\ trace'[d].cut => allowance[d].stopped
                      /\ trace'[d].stepBytes <= allowance[d].bytes
                      /\ trace'[d].stepMessages <= allowance[d].messages
                      /\ allowance[d].bytes <= conns'[d].limits.sendBytes
                      /\ allowance[d].messages <= conns'[d].limits.messages
    BY DEF CancelConnection, BudgetOK
  <2>1. /\ trace[d].cut => allowance[d].stopped
        /\ trace[d].stepBytes <= allowance[d].bytes
        /\ trace[d].stepMessages <= allowance[d].messages
        /\ allowance[d].bytes <= conns[d].limits.sendBytes
        /\ allowance[d].messages <= conns[d].limits.messages
    BY DEF IndInv, BudgetOK, CancelConnection
  <2>2. trace[d].stepBytes \in Nat /\ trace[d].stepMessages \in Nat
        /\ allowance[d].bytes \in Int /\ allowance[d].messages \in Int
    BY DEF IndInv, TypeOK, Traces
  <2>3. conns'[d].limits = conns[d].limits
    BY <1>1, <1>3
  <2> QED BY <1>4, <2>1, <2>2, <2>3, NewTraceType
<1> QED BY <1>3, <1>5, <1>6, <1>7, <1>8, <1>9 DEF IndInv

\* What Submit does to the rest of the state: one connection's queues change, its
\* history only in what was accepted, and no flush is under way.
LEMMA SubmitFrame ==
    ASSUME IndInv, NEW c \in Connections, NEW nq \in ConnectionQueues,
           ~flush.active,
           conns' = [conns EXCEPT ![c] = nq],
           nq.statistics.messages = Count(nq),
           nq.limits = conns[c].limits,
           nq.status # conns[c].status => nq.status = "closed",
           nq.status = conns[c].status => nq.consecutive = conns[c].consecutive,
           total' \in Int,
           trace' \in [Connections -> Traces],
           \A d \in Connections :
              /\ trace'[d].waited = trace[d].waited /\ trace'[d].cut = trace[d].cut
              /\ trace'[d].stepBytes = trace[d].stepBytes
              /\ trace'[d].stepMessages = trace[d].stepMessages,
           UNCHANGED <<stepping, allowance, flush>>
    PROVE  IndInv'
<1>1. /\ conns' \in [Connections -> ConnectionQueues] /\ CountExact'
      /\ conns'[c] = nq /\ \A d \in Connections : d # c => conns'[d] = conns[d]
  BY OneChanges DEF IndInv
<1>2. TypeOK'
  BY <1>1 DEF IndInv, TypeOK
<1>3. FlushOK'
  BY DEF FlushOK
<1>4. RunOK'
  BY <1>1 DEF IndInv, RunOK, Active
<1>5. OneActivePerSlot'
  BY <1>1 DEF IndInv, OneActivePerSlot, Active
<1>6. \A d \in Connections : conns'[d].limits = conns[d].limits
  BY <1>1
<1>7. BudgetOK'
  BY <1>6 DEF IndInv, BudgetOK
<1> QED BY <1>1, <1>2, <1>3, <1>4, <1>5, <1>7 DEF IndInv

\* Submit preserves the invariant, whichever way it decides.
LEMMA SubmitStep ==
    ASSUME IndInv, NEW c \in Connections, NEW i \in Intents, Submit(c, i)
    PROVE  IndInv'
<1> DEFINE q == conns[c]
           m == Numbered(c, i)
<1>1. /\ TypeOK /\ q \in ConnectionQueues /\ q.statistics.messages = Count(q) /\ total \in Int
      /\ trace \in [Connections -> Traces]
  BY DEF IndInv, TypeOK, CountExact
<1>2. m \in Messages /\ i.class \in Classes /\ i.size \in Int
  BY <1>1, NumberedType, IntentAssumption
<1>3. \A d \in Connections : UNCHANGED trace =>
         /\ trace'[d].waited = trace[d].waited /\ trace'[d].cut = trace[d].cut
         /\ trace'[d].stepBytes = trace[d].stepBytes
         /\ trace'[d].stepMessages = trace[d].stepMessages
  OBVIOUS
<1> HIDE DEF m, q
<1>4. CASE SubmitReliable(c, i)
  <2> DEFINE nq == Queue(q, m)
  <2>1. /\ nq \in ConnectionQueues /\ nq.statistics.messages = Count(nq) /\ nq.limits = q.limits
        /\ nq.status = q.status /\ nq.consecutive = q.consecutive
    BY <1>1, <1>2, QueueType
  <2>2. /\ trace' \in [Connections -> Traces]
        /\ \A d \in Connections :
              /\ trace'[d].waited = trace[d].waited /\ trace'[d].cut = trace[d].cut
              /\ trace'[d].stepBytes = trace[d].stepBytes
              /\ trace'[d].stepMessages = trace[d].stepMessages
    <3> DEFINE a == [trace[c].accepted EXCEPT ![i.class] = (trace[c].accepted[i.class] + 1) % Window]
               t == [trace[c] EXCEPT !.accepted = a]
    <3>1. trace[c] \in Traces /\ trace[c].accepted \in [Classes -> 0 .. (Window - 1)]
      BY <1>1 DEF Traces
    <3>2. a \in [Classes -> 0 .. (Window - 1)]
      BY <3>1, <1>2, Wrapped
    <3> HIDE DEF a
    <3>3. /\ t \in Traces /\ t.waited = trace[c].waited /\ t.cut = trace[c].cut
          /\ t.stepBytes = trace[c].stepBytes /\ t.stepMessages = trace[c].stepMessages
      BY <3>1, <3>2 DEF Traces
    <3>4. trace' = [trace EXCEPT ![c] = t]
      BY <1>4 DEF SubmitReliable, a
    <3> HIDE DEF t
    <3> QED BY <1>1, <3>3, <3>4
  <2>3. conns' = [conns EXCEPT ![c] = nq] /\ ~flush.active /\ UNCHANGED <<stepping, allowance, flush>>
    BY <1>4 DEF SubmitReliable, Submittable, q, m
  <2>4. total' \in Int
    BY <1>1, <1>2, <1>4 DEF SubmitReliable
  <2> HIDE DEF nq
  <2> QED BY <2>1, <2>2, <2>3, <2>4, SubmitFrame DEF q
<1>5. CASE SubmitExhausted(c, i)
  <2> DEFINE nq == Cleared(q, "closed")
  <2>1. /\ nq \in ConnectionQueues /\ nq.statistics.messages = Count(nq) /\ nq.limits = q.limits
        /\ nq.status = "closed" /\ Released(q) \in Int
    BY <1>1, ClearedType DEF q
  <2>2. /\ conns' = [conns EXCEPT ![c] = nq] /\ ~flush.active
        /\ UNCHANGED <<stepping, allowance, flush, trace>>
        /\ q.status # "closed" /\ total' = total - Released(q)
    BY <1>5 DEF SubmitExhausted, Submittable, Active, q
  <2>3. total' \in Int
    BY <1>1, <2>1, <2>2
  <2> HIDE DEF nq
  <2>4. trace' \in [Connections -> Traces]
    BY <1>1, <2>2
  <2> QED BY <1>3, <2>1, <2>2, <2>3, <2>4, SubmitFrame DEF q
<1>6. CASE SubmitSuperseding(c, i)
  <2>1. PICK p \in SameKey(q, i) : conns' = [conns EXCEPT ![c] = Queue(Without(q, p[1], p[2]), m)]
    BY <1>6 DEF SubmitSuperseding, q, m
  <2>2. p[1] \in Classes /\ p[2] \in 1 .. Len(q.queues[p[1]])
    <3>1. q.queues \in [Classes -> Seq(Messages)]
      BY <1>1 DEF ConnectionQueues
    <3>2. p \in Held(q)
      BY DEF SameKey
    <3>3. PICK k \in Classes : p \in {<<k, n>> : n \in DOMAIN q.queues[k]}
      BY <3>2 DEF Held
    <3>4. PICK n \in DOMAIN q.queues[k] : p = <<k, n>>
      BY <3>3
    <3>5. DOMAIN q.queues[k] = 1 .. Len(q.queues[k])
      BY <3>1
    <3> QED BY <3>4, <3>5
  <2> DEFINE w == Without(q, p[1], p[2])
             nq == Queue(w, m)
  <2>3. /\ w \in ConnectionQueues /\ w.statistics.messages = Count(w) /\ w.limits = q.limits
        /\ w.status = q.status /\ w.consecutive = q.consecutive
    BY <1>1, <2>2, WithoutType
  <2> HIDE DEF w
  <2>4. /\ nq \in ConnectionQueues /\ nq.statistics.messages = Count(nq) /\ nq.limits = q.limits
        /\ nq.status = q.status /\ nq.consecutive = q.consecutive
    BY <1>2, <2>3, QueueType
  <2>5. conns' = [conns EXCEPT ![c] = nq]
    BY <2>1 DEF w
  <2>6. ~flush.active /\ UNCHANGED <<total, stepping, allowance, flush, trace>>
    BY <1>6 DEF SubmitSuperseding, Submittable
  <2>7. total' \in Int /\ trace' \in [Connections -> Traces]
    BY <1>1, <2>6
  <2> HIDE DEF nq
  <2> QED BY <1>3, <2>4, <2>5, <2>6, <2>7, SubmitFrame DEF q
<1>7. CASE SubmitUnreliable(c, i)
  <2> DEFINE nq == Queue(q, m)
  <2>1. /\ nq \in ConnectionQueues /\ nq.statistics.messages = Count(nq) /\ nq.limits = q.limits
        /\ nq.status = q.status /\ nq.consecutive = q.consecutive
    BY <1>1, <1>2, QueueType
  <2>2. /\ conns' = [conns EXCEPT ![c] = nq] /\ ~flush.active
        /\ UNCHANGED <<total, stepping, allowance, flush, trace>>
    BY <1>7 DEF SubmitUnreliable, Submittable, q, m
  <2>3. total' \in Int /\ trace' \in [Connections -> Traces]
    BY <1>1, <2>2
  <2> HIDE DEF nq
  <2> QED BY <1>3, <2>1, <2>2, <2>3, SubmitFrame DEF q
<1> QED BY <1>4, <1>5, <1>6, <1>7 DEF Submit

\* Opening and closing a session step, and refusing a service point.
LEMMA BoundaryStep ==
    ASSUME IndInv, BeginStep \/ EndStep \/ (\E c \in Connections : RefuseFlush(c))
    PROVE  IndInv'
<1>1. CASE BeginStep
  <2>1. /\ trace' \in [Connections -> Traces]
        /\ \A c \in Connections :
              /\ trace'[c].waited = trace[c].waited /\ trace'[c].cut = FALSE
              /\ trace'[c].stepBytes = 0 /\ trace'[c].stepMessages = 0
    <3>1. \A c \in Connections : trace[c] \in Traces
      BY DEF IndInv, TypeOK
    <3> DEFINE t(c) == [trace[c] EXCEPT !.stepBytes = 0, !.stepMessages = 0, !.cut = FALSE]
    <3>2. \A c \in Connections :
             /\ t(c) \in Traces /\ t(c).waited = trace[c].waited /\ t(c).cut = FALSE
             /\ t(c).stepBytes = 0 /\ t(c).stepMessages = 0
      BY <3>1 DEF Traces
    <3>3. trace' = [c \in Connections |-> t(c)]
      BY <1>1 DEF BeginStep
    <3> HIDE DEF t
    <3> QED BY <3>2, <3>3
  <2>2. /\ allowance' \in [Connections -> [bytes : Int, messages : Int, stopped : BOOLEAN]]
        /\ \A c \in Connections : allowance'[c].bytes = 0 /\ allowance'[c].messages = 0
    <3>1. /\ Fresh \in [bytes : Int, messages : Int, stopped : BOOLEAN]
          /\ Fresh.bytes = 0 /\ Fresh.messages = 0
      BY DEF Fresh
    <3>2. allowance' = [c \in Connections |-> Fresh]
      BY <1>1 DEF BeginStep
    <3> QED BY <3>1, <3>2
  <2>3. \A c \in Connections : conns[c].limits.sendBytes >= 0 /\ conns[c].limits.messages >= 0
    <3>1. \A c \in Connections : conns[c].limits \in NetworkLimits
      BY DEF IndInv, TypeOK, ConnectionQueues
    <3> QED BY <3>1, LimitsType
  <2>4. UNCHANGED <<conns, total, flush>> /\ ~flush.active /\ stepping' = TRUE
    BY <1>1 DEF BeginStep
  <2>5. TypeOK' /\ CountExact' /\ FlushOK' /\ OneActivePerSlot'
    BY <2>1, <2>2, <2>4 DEF IndInv, TypeOK, CountExact, Count, FlushOK, OneActivePerSlot, Active
  <2>6. RunOK'
    BY <2>1, <2>4 DEF IndInv, RunOK, Active
  <2>7. BudgetOK'
    BY <2>1, <2>2, <2>3, <2>4 DEF BudgetOK
  <2> QED BY <2>5, <2>6, <2>7 DEF IndInv
<1>2. CASE EndStep
  BY <1>2 DEF EndStep, IndInv, TypeOK, CountExact, Count, FlushOK, RunOK, OneActivePerSlot, Active, BudgetOK
<1>3. CASE \E c \in Connections : RefuseFlush(c)
  <2> PICK c \in Connections : RefuseFlush(c)
    BY <1>3
  <2>1. UNCHANGED <<conns, total, stepping, flush, trace>> /\ ~flush.active
    BY DEF RefuseFlush
  <2>2. /\ allowance' \in [Connections -> [bytes : Int, messages : Int, stopped : BOOLEAN]]
        /\ \A d \in Connections :
              /\ allowance'[d].bytes = allowance[d].bytes
              /\ allowance'[d].messages = allowance[d].messages
              /\ allowance[d].stopped => allowance'[d].stopped
    <3> DEFINE Allowances == [bytes : Int, messages : Int, stopped : BOOLEAN]
               a == [allowance[c] EXCEPT !.stopped = TRUE]
    <3>1. allowance \in [Connections -> Allowances]
      BY DEF IndInv, TypeOK
    <3>2. allowance[c] \in Allowances
      BY <3>1
    <3>3. /\ a \in Allowances /\ a.bytes = allowance[c].bytes
          /\ a.messages = allowance[c].messages /\ a.stopped
      BY <3>2
    <3>4. allowance' = [allowance EXCEPT ![c] = a]
      BY DEF RefuseFlush
    <3> HIDE DEF a, Allowances
    <3>5. \A d \in Connections : allowance'[d] = IF d = c THEN a ELSE allowance[d]
      BY <3>1, <3>4
    <3>6. allowance' \in [Connections -> Allowances]
      BY <3>1, <3>3, <3>4
    <3> QED BY <3>3, <3>5, <3>6 DEF Allowances
  <2>3. TypeOK' /\ CountExact' /\ FlushOK' /\ OneActivePerSlot' /\ RunOK'
    BY <2>1, <2>2 DEF IndInv, TypeOK, CountExact, Count, FlushOK, OneActivePerSlot, Active, RunOK
  <2>4. BudgetOK'
    BY <2>1, <2>2 DEF IndInv, BudgetOK
  <2> QED BY <2>3, <2>4 DEF IndInv
<1> QED BY <1>1, <1>2, <1>3

\* Opening a flush moves what the allowance has left into its budget.
LEMMA OpenStep ==
    ASSUME IndInv, NEW c \in Connections, OpenFlush(c)
    PROVE  IndInv'
<1>1. /\ conns[c].limits.sendBytes \in Nat /\ conns[c].limits.messages \in Nat
      /\ conns[c].limits.reliableMessage \in Nat
      /\ allowance[c].bytes \in Int /\ allowance[c].messages \in Int
      /\ trace[c].stepBytes \in Nat /\ trace[c].stepMessages \in Nat
  <2>1. conns[c].limits \in NetworkLimits
    BY DEF IndInv, TypeOK, ConnectionQueues
  <2> QED BY <2>1, LimitsType DEF IndInv, TypeOK, Traces
<1>2. /\ UNCHANGED <<conns, total, stepping, allowance, trace>>
      /\ ~flush.active /\ stepping /\ ~allowance[c].stopped /\ Active(c)
      /\ flush' = [active |-> TRUE, connection |-> c,
                   bytesLeft |-> RemainingBytes(c), messagesLeft |-> RemainingMessages(c)]
      /\ RemainingBytes(c) >= 0 /\ RemainingMessages(c) >= 0
      /\ RemainingBytes(c) = conns[c].limits.sendBytes - allowance[c].bytes
      /\ RemainingMessages(c) = conns[c].limits.messages - allowance[c].messages
  BY <1>1 DEF OpenFlush, BudgetIsValid, RemainingBytes, RemainingMessages
<1>3. /\ flush' \in Flushes /\ flush'.active /\ flush'.connection = c
      /\ flush'.bytesLeft = conns[c].limits.sendBytes - allowance[c].bytes
      /\ flush'.messagesLeft = conns[c].limits.messages - allowance[c].messages
  BY <1>1, <1>2 DEF Flushes
<1>4. \A d \in Connections :
         /\ trace[d].cut => allowance[d].stopped
         /\ trace[d].stepBytes <= allowance[d].bytes
         /\ trace[d].stepMessages <= allowance[d].messages
         /\ allowance[d].bytes <= conns[d].limits.sendBytes
         /\ allowance[d].messages <= conns[d].limits.messages
  BY <1>2 DEF IndInv, BudgetOK
<1>5. TypeOK' /\ CountExact' /\ OneActivePerSlot' /\ RunOK'
  BY <1>2, <1>3 DEF IndInv, TypeOK, CountExact, Count, OneActivePerSlot, Active, RunOK
<1>6. FlushOK'
  BY <1>2, <1>3, <1>4 DEF FlushOK, Active
<1>7. BudgetOK'
  BY <1>1, <1>2, <1>3, <1>4 DEF BudgetOK
<1> QED BY <1>5, <1>6, <1>7 DEF IndInv

\* A flush that ends returns what it did not spend to the allowance.
LEMMA CloseStep ==
    ASSUME IndInv, NEW drained \in BOOLEAN, NEW nq \in ConnectionQueues,
           flush.active,
           CloseFlush(drained),
           conns' = [conns EXCEPT ![flush.connection] = nq],
           nq.statistics.messages = Count(nq),
           nq.limits = conns[flush.connection].limits,
           nq = conns[flush.connection] \/ nq.status = "closed",
           total' \in Int
    PROVE  IndInv'
<1> DEFINE c == flush.connection
<1>1. /\ c \in Connections /\ flush.bytesLeft \in Int /\ flush.messagesLeft \in Int
      /\ stepping /\ Active(c)
  <2>1. flush \in Flushes /\ flush # Idle
    BY DEF IndInv, TypeOK, Idle
  <2>2. flush \in [active : {TRUE}, connection : Connections, bytesLeft : Int, messagesLeft : Int]
    BY <2>1 DEF Flushes
  <2>3. c \in Connections /\ flush.bytesLeft \in Int /\ flush.messagesLeft \in Int
    BY <2>2
  <2> QED BY <2>3 DEF IndInv, FlushOK
<1> HIDE DEF c
<1>2. /\ conns' \in [Connections -> ConnectionQueues] /\ CountExact'
      /\ conns'[c] = nq /\ \A d \in Connections : d # c => conns'[d] = conns[d]
  BY <1>1, OneChanges DEF IndInv, c
<1>3. /\ conns[c].limits.sendBytes \in Nat /\ conns[c].limits.messages \in Nat
      /\ trace[c].stepBytes \in Nat /\ trace[c].stepMessages \in Nat
  <2>1. conns[c].limits \in NetworkLimits
    BY <1>1 DEF IndInv, TypeOK, ConnectionQueues
  <2> QED BY <1>1, <2>1, LimitsType DEF IndInv, TypeOK, Traces
<1>4. /\ allowance' \in [Connections -> [bytes : Int, messages : Int, stopped : BOOLEAN]]
      /\ allowance'[c].bytes = conns[c].limits.sendBytes - flush.bytesLeft
      /\ allowance'[c].messages = conns[c].limits.messages - flush.messagesLeft
      /\ allowance'[c].stopped = ~drained
      /\ \A d \in Connections : d # c => allowance'[d] = allowance[d]
  BY <1>1, <1>3 DEF CloseFlush, Charged, IndInv, TypeOK, c
<1>5. /\ trace' \in [Connections -> Traces]
      /\ trace'[c].cut = ~drained
      /\ \A d \in Connections :
            /\ trace'[d].waited = trace[d].waited
            /\ trace'[d].stepBytes = trace[d].stepBytes
            /\ trace'[d].stepMessages = trace[d].stepMessages
            /\ d # c => trace'[d].cut = trace[d].cut
  <2> DEFINE t == [trace[c] EXCEPT !.cut = ~drained]
  <2>1. trace \in [Connections -> Traces] /\ trace[c] \in Traces
    BY <1>1 DEF IndInv, TypeOK
  <2>2. (~drained) \in BOOLEAN
    OBVIOUS
  <2>3. /\ t \in Traces /\ t.waited = trace[c].waited /\ t.cut = ~drained
        /\ t.stepBytes = trace[c].stepBytes /\ t.stepMessages = trace[c].stepMessages
    BY <2>1, <2>2 DEF Traces
  <2>4. trace' = [trace EXCEPT ![c] = t]
    BY DEF CloseFlush, c
  <2> HIDE DEF t
  <2> QED BY <1>1, <2>1, <2>3, <2>4
<1>6. flush' = Idle /\ ~flush'.active /\ flush' \in Flushes /\ stepping' = stepping
  BY DEF CloseFlush, Idle, Flushes
<1>7. TypeOK'
  BY <1>2, <1>4, <1>5, <1>6 DEF IndInv, TypeOK
<1>8. FlushOK'
  BY <1>6 DEF FlushOK
<1>9. RunOK' /\ OneActivePerSlot'
  BY <1>1, <1>2, <1>5 DEF IndInv, RunOK, OneActivePerSlot, Active, c
<1>10. BudgetOK'
  <2>1. \A d \in Connections : d # c =>
           /\ trace[d].cut => allowance[d].stopped
           /\ trace[d].stepBytes <= allowance[d].bytes
           /\ trace[d].stepMessages <= allowance[d].messages
           /\ allowance[d].bytes <= conns[d].limits.sendBytes
           /\ allowance[d].messages <= conns[d].limits.messages
    BY <1>1 DEF IndInv, BudgetOK, c
  <2>2. /\ flush.bytesLeft >= 0 /\ flush.messagesLeft >= 0
        /\ trace[c].stepBytes + flush.bytesLeft <= conns[c].limits.sendBytes
        /\ trace[c].stepMessages + flush.messagesLeft <= conns[c].limits.messages
    BY <1>1 DEF IndInv, BudgetOK, c
  <2>3. conns'[c].limits = conns[c].limits
    BY <1>2 DEF c
  <2> QED BY <1>1, <1>2, <1>3, <1>4, <1>5, <1>6, <2>1, <2>2, <2>3 DEF BudgetOK
<1> QED BY <1>2, <1>7, <1>8, <1>9, <1>10 DEF IndInv

\* The flush under way is about an active connection of a step.
LEMMA FlushType ==
    ASSUME IndInv, flush.active
    PROVE  /\ flush.connection \in Connections
           /\ flush.bytesLeft \in Int /\ flush.messagesLeft \in Int
           /\ stepping /\ Active(flush.connection) /\ ~trace[flush.connection].cut
           /\ flush \in [active : {TRUE}, connection : Connections,
                         bytesLeft : Int, messagesLeft : Int]
<1>1. flush \in Flushes /\ flush # Idle
  BY DEF IndInv, TypeOK, Idle
<1>2. flush \in [active : {TRUE}, connection : Connections, bytesLeft : Int, messagesLeft : Int]
  BY <1>1 DEF Flushes
<1>3. /\ flush.connection \in Connections
      /\ flush.bytesLeft \in Int /\ flush.messagesLeft \in Int
  BY <1>2
<1> QED BY <1>2, <1>3 DEF IndInv, FlushOK

\* A message handed to the transport: the count, the run and the budget follow it.
LEMMA SendStep ==
    ASSUME IndInv, FlushSend
    PROVE  IndInv'
<1> DEFINE c == flush.connection
           q == conns[c]
           k == QueueIndex(q)
           m == NextMessage(q)
<1>1. /\ flush.active /\ c \in Connections /\ flush.bytesLeft \in Int /\ flush.messagesLeft \in Int
      /\ stepping /\ Active(c) /\ ~trace[c].cut
      /\ flush \in [active : {TRUE}, connection : Connections, bytesLeft : Int, messagesLeft : Int]
  BY FlushType DEF FlushSend, Pending
<1>2. /\ q \in ConnectionQueues /\ q.statistics.messages = Count(q)
      /\ q.statistics.messages # 0
  BY <1>1 DEF IndInv, TypeOK, CountExact, FlushSend, Pending
<1>3. /\ k \in Classes /\ q.queues[k] # <<>>
      /\ ( k = StructuralReplication /\ q.queues[ReliableApplication] # <<>> )
           => q.consecutive < Limit
  BY <1>2, CountedIsHeld, QueueIndexChoice
<1>4. 1 \in 1 .. Len(q.queues[k]) /\ m \in Messages /\ m = q.queues[k][1]
  <2>1. q.queues[k] \in Seq(Messages)
    BY <1>2, <1>3 DEF ConnectionQueues
  <2>2. q.queues[k][1] \in Messages /\ 1 \in 1 .. Len(q.queues[k])
    BY <1>3, <2>1
  <2> QED BY <2>2 DEF NextMessage
<1>5. m.size \in Nat \ {0} /\ m.number \in 0 .. (Window - 1)
  BY <1>4, MessageType
<1>6. /\ conns' = [conns EXCEPT ![c] = Sent(q, k)]
      /\ flush' = [flush EXCEPT !.bytesLeft = @ - m.size, !.messagesLeft = @ - 1]
      /\ trace' = [trace EXCEPT ![c] = TraceSend(@, q, k)]
      /\ total' = IF IsReliable(m) THEN total - m.size ELSE total
      /\ UNCHANGED <<stepping, allowance>>
      /\ flush.messagesLeft # 0 /\ m.size <= flush.bytesLeft
  BY DEF FlushSend, WithinBudget
<1>7. trace \in [Connections -> Traces] /\ trace[c] \in Traces /\ total \in Int
  BY <1>1 DEF IndInv, TypeOK
<1>8. q.consecutive \in 0 .. CounterMax /\ trace[c].waited \in Nat
      /\ trace[c].waited <= Limit /\ trace[c].waited <= q.consecutive
      /\ trace[c].stepBytes \in Nat /\ trace[c].stepMessages \in Nat
  BY <1>1, <1>2, <1>7 DEF IndInv, RunOK, ConnectionQueues, Traces
<1> HIDE DEF c, q, k, m
<1> DEFINE w == Without(q, k, 1)
           nq == Sent(q, k)
           run == Run(q.consecutive, k)
           wait == Waited(trace[c].waited, q, k)
<1>9. run \in 0 .. CounterMax /\ wait \in Nat /\ wait <= Limit /\ wait <= run
  BY <1>3, <1>8, CapacityAssumption
     DEF Run, Waited, Limit, StructuralReplication, ReliableApplication
<1>10. /\ w \in ConnectionQueues /\ w.status = q.status /\ w.limits = q.limits
       /\ w.consecutive = q.consecutive /\ w.statistics.messages = Count(w)
  BY <1>2, <1>3, <1>4, WithoutType
<1>11. nq = [w EXCEPT !.consecutive = run]
  BY <1>10 DEF Sent
<1> HIDE DEF w, nq, run, wait
<1>12. /\ nq \in ConnectionQueues /\ nq.status = q.status /\ nq.limits = q.limits
       /\ nq.consecutive = run /\ nq.queues = w.queues /\ nq.statistics = w.statistics
  BY <1>9, <1>10, <1>11 DEF ConnectionQueues
<1>13. nq.statistics.messages = Count(nq)
  BY <1>10, <1>12 DEF Count
<1>14. /\ conns' \in [Connections -> ConnectionQueues] /\ CountExact'
       /\ conns'[c] = nq /\ \A d \in Connections : d # c => conns'[d] = conns[d]
  BY <1>1, <1>6, <1>12, <1>13, OneChanges DEF IndInv, nq
<1> DEFINE h == IF IsReliable(m) THEN [trace[c].handed EXCEPT ![k] = m.number] ELSE trace[c].handed
           t == [trace[c] EXCEPT !.handed = h, !.waited = wait,
                                 !.stepBytes = trace[c].stepBytes + m.size,
                                 !.stepMessages = trace[c].stepMessages + 1]
<1>15. h \in [Classes -> 0 .. (Window - 1)]
  BY <1>3, <1>5, <1>7 DEF Traces
<1>16. trace' = [trace EXCEPT ![c] = t]
  BY <1>4, <1>6 DEF TraceSend, wait
<1> HIDE DEF h
<1>17. /\ t \in Traces /\ t.waited = wait /\ t.cut = trace[c].cut
       /\ t.stepBytes = trace[c].stepBytes + m.size
       /\ t.stepMessages = trace[c].stepMessages + 1
  <2> DEFINE b == trace[c].stepBytes + m.size
             n == trace[c].stepMessages + 1
  <2>1. b \in Nat /\ n \in Nat
    BY <1>5, <1>8
  <2> HIDE DEF b, n
  <2>2. t = [trace[c] EXCEPT !.handed = h, !.waited = wait, !.stepBytes = b, !.stepMessages = n]
    BY DEF b, n
  <2>3. /\ t \in Traces /\ t.waited = wait /\ t.cut = trace[c].cut
        /\ t.stepBytes = b /\ t.stepMessages = n
    BY <1>7, <1>9, <1>15, <2>1, <2>2 DEF Traces
  <2> QED BY <2>3 DEF b, n
<1> HIDE DEF t
<1>18. /\ trace' \in [Connections -> Traces] /\ trace'[c] = t
       /\ \A d \in Connections : d # c => trace'[d] = trace[d]
  BY <1>1, <1>7, <1>16, <1>17
<1>19. /\ flush' \in [active : {TRUE}, connection : Connections, bytesLeft : Int, messagesLeft : Int]
       /\ flush'.active /\ flush'.connection = c
       /\ flush'.bytesLeft = flush.bytesLeft - m.size
       /\ flush'.messagesLeft = flush.messagesLeft - 1
  <2> DEFINE b == flush.bytesLeft - m.size
             n == flush.messagesLeft - 1
  <2>1. b \in Int /\ n \in Int
    BY <1>1, <1>5
  <2>2. flush' = [flush EXCEPT !.bytesLeft = b, !.messagesLeft = n]
    BY <1>1, <1>6
  <2> HIDE DEF b, n
  <2>3. /\ flush' \in [active : {TRUE}, connection : Connections, bytesLeft : Int, messagesLeft : Int]
        /\ flush'.active /\ flush'.connection = flush.connection
        /\ flush'.bytesLeft = b /\ flush'.messagesLeft = n
    BY <1>1, <2>1, <2>2
  <2> QED BY <2>3 DEF b, n, c
<1>20. TypeOK'
  <2>1. total' \in Int
    BY <1>5, <1>6, <1>7
  <2>2. flush' \in Flushes
    BY <1>19 DEF Flushes
  <2> QED BY <1>6, <1>14, <1>18, <2>1, <2>2 DEF IndInv, TypeOK
<1>21. FlushOK'
  BY <1>1, <1>6, <1>12, <1>14, <1>17, <1>18, <1>19 DEF FlushOK, Active, q
<1>22. RunOK'
  BY <1>9, <1>12, <1>14, <1>17, <1>18 DEF IndInv, RunOK, Active
<1>23. OneActivePerSlot'
  BY <1>12, <1>14 DEF IndInv, OneActivePerSlot, Active, q
<1>24. BudgetOK'
  <2>1. \A d \in Connections : d # c =>
           /\ trace[d].cut => allowance[d].stopped
           /\ trace[d].stepBytes <= allowance[d].bytes
           /\ trace[d].stepMessages <= allowance[d].messages
           /\ allowance[d].bytes <= conns[d].limits.sendBytes
           /\ allowance[d].messages <= conns[d].limits.messages
    BY <1>1 DEF IndInv, BudgetOK, c
  <2>2. /\ flush.bytesLeft >= 0 /\ flush.messagesLeft >= 0
        /\ trace[c].stepBytes + flush.bytesLeft <= conns[c].limits.sendBytes
        /\ trace[c].stepMessages + flush.messagesLeft <= conns[c].limits.messages
        /\ conns[c].limits.sendBytes \in Nat /\ conns[c].limits.messages \in Nat
    <3>1. conns[c].limits \in NetworkLimits
      BY <1>1 DEF IndInv, TypeOK, ConnectionQueues
    <3> QED BY <1>1, <3>1, LimitsType DEF IndInv, BudgetOK, c
  <2>3. conns'[c].limits = conns[c].limits
    BY <1>12, <1>14 DEF q
  <2>4. /\ flush'.bytesLeft >= 0 /\ flush'.messagesLeft >= 0
        /\ trace'[c].stepBytes + flush'.bytesLeft <= conns'[c].limits.sendBytes
        /\ trace'[c].stepMessages + flush'.messagesLeft <= conns'[c].limits.messages
        /\ ~trace'[c].cut
    BY <1>1, <1>5, <1>6, <1>8, <1>17, <1>18, <1>19, <2>2, <2>3
  <2> QED BY <1>6, <1>14, <1>18, <1>19, <2>1, <2>4 DEF BudgetOK
<1> QED BY <1>14, <1>20, <1>21, <1>22, <1>23, <1>24 DEF IndInv

\* Every way a flush proceeds or ends preserves the invariant.
LEMMA FlushStep ==
    ASSUME IndInv, Flush
    PROVE  IndInv'
<1> DEFINE c == flush.connection
<1>1. flush.active /\ c \in Connections
  BY FlushType DEF Flush, FlushSend, FlushBudgetLimited, FlushBackpressured, FlushFailed,
                   FlushDrained, Pending
<1>2. /\ conns \in [Connections -> ConnectionQueues] /\ conns[c] \in ConnectionQueues
      /\ conns[c].statistics.messages = Count(conns[c]) /\ total \in Int
  BY <1>1 DEF IndInv, TypeOK, CountExact
<1>3. CASE FlushSend
  BY <1>3, SendStep
<1>4. ASSUME NEW drained \in BOOLEAN, CloseFlush(drained), UNCHANGED <<conns, total>>
      PROVE  IndInv'
  <2>1. conns' = [conns EXCEPT ![c] = conns[c]]
    BY <1>2, <1>4
  <2>2. total' \in Int
    BY <1>2, <1>4
  <2> QED BY <1>1, <1>2, <1>4, <2>1, <2>2, CloseStep
<1>5. CASE FlushFailed
  <2> DEFINE nq == Cleared(conns[c], "closed")
  <2>1. /\ nq \in ConnectionQueues /\ nq.statistics.messages = Count(nq)
        /\ nq.limits = conns[c].limits /\ nq.status = "closed" /\ Released(conns[c]) \in Int
    BY <1>1, ClearedType DEF IndInv
  <2>2. conns' = [conns EXCEPT ![c] = nq] /\ total' = total - Released(conns[c]) /\ CloseFlush(FALSE)
    BY <1>5 DEF FlushFailed
  <2>3. total' \in Int
    BY <1>2, <2>1, <2>2
  <2> HIDE DEF nq
  <2> QED BY <1>1, <2>1, <2>2, <2>3, CloseStep
<1>6. CASE FlushBudgetLimited \/ FlushBackpressured
  BY <1>4, <1>6 DEF FlushBudgetLimited, FlushBackpressured
<1>7. CASE FlushDrained
  BY <1>4, <1>7 DEF FlushDrained
<1> QED BY <1>3, <1>5, <1>6, <1>7 DEF Flush

\* The inductive invariant holds in every reachable state of the scheduler.
THEOREM IndInvHolds == Spec => []IndInv
<1>1. ASSUME Init PROVE IndInv
  <2> DEFINE nq == NewQueue("absent", AnyLimits)
  <2>1. AnyLimits \in NetworkLimits
    BY LimitsAssumption DEF AnyLimits
  <2>2. /\ nq \in ConnectionQueues /\ nq.status = "absent" /\ nq.statistics.messages = Count(nq)
    BY <2>1, NewQueueType
  <2> HIDE DEF nq
  <2>3. conns = [c \in Connections |-> nq] /\ flush = Idle /\ stepping = FALSE /\ total = 0
        /\ trace = [c \in Connections |-> NewTrace] /\ allowance = [c \in Connections |-> Fresh]
    BY <1>1 DEF Init, nq
  <2>4. TypeOK
    <3>1. Fresh \in [bytes : Int, messages : Int, stopped : BOOLEAN]
      BY DEF Fresh
    <3>2. /\ conns \in [Connections -> ConnectionQueues] /\ trace \in [Connections -> Traces]
          /\ allowance \in [Connections -> [bytes : Int, messages : Int, stopped : BOOLEAN]]
      BY <2>2, <2>3, <3>1, NewTraceType
    <3>3. total \in Int
      BY <2>3
    <3>5. stepping \in BOOLEAN
      <4>1. stepping = FALSE
        BY <2>3
      <4> QED BY <4>1, Zenon
    <3>4. flush \in Flushes
      BY <2>3 DEF Flushes
    <3> QED BY <3>2, <3>3, <3>4, <3>5 DEF TypeOK
  <2>5. CountExact /\ OneActivePerSlot
    BY <2>2, <2>3 DEF CountExact, OneActivePerSlot, Active
  <2>6. FlushOK /\ BudgetOK
    BY <2>3 DEF FlushOK, BudgetOK, Idle
  <2>7. RunOK
    BY <2>2, <2>3, NewTraceType, CapacityAssumption DEF RunOK, Active, Limit
  <2> QED BY <2>4, <2>5, <2>6, <2>7 DEF IndInv
<1>2. ASSUME IndInv, [Next]_vars PROVE IndInv'
  <2>1. CASE \E c \in Connections : \E l \in NetworkLimits : RegisterConnection(c, l)
    BY <1>2, <2>1, RegisterStep
  <2>2. CASE \E c \in Connections : CancelConnection(c)
    BY <1>2, <2>2, CancelStep
  <2>3. CASE \E c \in Connections : \E i \in Intents : Submit(c, i)
    BY <1>2, <2>3, SubmitStep
  <2>4. CASE BeginStep \/ EndStep \/ (\E c \in Connections : RefuseFlush(c))
    BY <1>2, <2>4, BoundaryStep
  <2>5. CASE \E c \in Connections : OpenFlush(c)
    BY <1>2, <2>5, OpenStep
  <2>6. CASE Flush
    BY <1>2, <2>6, FlushStep
  <2>7. CASE UNCHANGED vars
    BY <1>2, <2>7 DEF vars, IndInv, TypeOK, CountExact, Count, FlushOK, RunOK,
                      OneActivePerSlot, Active, BudgetOK
  <2> QED BY <1>2, <2>1, <2>2, <2>3, <2>4, <2>5, <2>6, <2>7 DEF Next
<1> QED BY <1>1, <1>2, PTL DEF Spec

\* The scheduler's state keeps its shape: counters stay integers, queues hold
\* messages only, the structural counter never wraps.
THEOREM TypeCorrect == Spec => []TypeOK
<1>1. IndInv => TypeOK
  BY DEF IndInv
<1> QED BY <1>1, IndInvHolds, PTL

\* While application work waits, no more structural messages go out than the
\* traffic policy allows, for every limit and every mix of traffic.
THEOREM StructuralRunIsBounded == Spec => []StructuralRunBounded
<1>1. IndInv => StructuralRunBounded
  BY DEF IndInv, RunOK, StructuralRunBounded, Limit
<1> QED BY <1>1, IndInvHolds, PTL

\* A slot never has two active connections.
THEOREM SlotsAreExclusive == Spec => []OneActivePerSlot
<1>1. IndInv => OneActivePerSlot
  BY DEF IndInv
<1> QED BY <1>1, IndInvHolds, PTL

\* The flushes of one step never exceed the tick's negotiated bytes or messages.
THEOREM StepBudgetHolds == Spec => []StepBudgetRespected
<1>1. ASSUME IndInv PROVE StepBudgetRespected
  <2> SUFFICES ASSUME NEW c \in Connections, stepping
               PROVE  /\ trace[c].stepBytes <= conns[c].limits.sendBytes
                      /\ trace[c].stepMessages <= conns[c].limits.messages
    BY DEF StepBudgetRespected
  <2>1. /\ trace[c].stepBytes \in Nat /\ trace[c].stepMessages \in Nat
        /\ allowance[c].bytes \in Int /\ allowance[c].messages \in Int
    BY <1>1 DEF IndInv, TypeOK, Traces
  <2>2. conns[c].limits.sendBytes \in Nat /\ conns[c].limits.messages \in Nat
    <3>1. conns[c].limits \in NetworkLimits
      BY <1>1 DEF IndInv, TypeOK, ConnectionQueues
    <3> QED BY <3>1, LimitsType
  <2>3. flush.active => flush.bytesLeft \in Int /\ flush.messagesLeft \in Int
    BY <1>1, FlushType
  <2> QED BY <1>1, <2>1, <2>2, <2>3 DEF IndInv, BudgetOK
<1> QED BY <1>1, IndInvHolds, PTL

\* After a flush was cut short nothing more goes to that peer in the step.
THEOREM CutIsFinal == Spec => NothingAfterACut
<1> DEFINE A == \A c \in Connections :
                  trace[c].cut /\ trace'[c].cut => trace'[c].stepMessages = trace[c].stepMessages
<1>1. ASSUME IndInv, [Next]_vars PROVE [A]_vars
  <2> SUFFICES ASSUME Next PROVE A
    BY <1>1
  <2>0. trace \in [Connections -> Traces]
    BY <1>1 DEF IndInv, TypeOK
  <2>1. ASSUME NEW c \in Connections, trace' = [trace EXCEPT ![c] = NewTrace] PROVE A
    BY <2>0, <2>1, NewTraceType
  <2>2. CASE UNCHANGED trace
    BY <2>2
  <2>3. CASE \E c \in Connections : \E l \in NetworkLimits : RegisterConnection(c, l)
    BY <2>1, <2>3 DEF RegisterConnection
  <2>4. CASE \E c \in Connections : CancelConnection(c)
    BY <2>1, <2>4 DEF CancelConnection
  <2>5. CASE \E c \in Connections : \E i \in Intents : Submit(c, i)
    <3>1. CASE \E c \in Connections : \E i \in Intents : SubmitReliable(c, i)
      <4> PICK c \in Connections, i \in Intents : SubmitReliable(c, i)
        BY <3>1
      <4> DEFINE t == [trace[c] EXCEPT !.accepted[i.class] = (@ + 1) % Window]
      <4>1. trace[c] \in Traces
        BY <2>0
      <4>2. t.stepMessages = trace[c].stepMessages
        BY <4>1 DEF Traces
      <4>3. trace' = [trace EXCEPT ![c] = t]
        BY DEF SubmitReliable
      <4> HIDE DEF t
      <4> QED BY <2>0, <4>2, <4>3
    <3> QED BY <2>2, <2>5, <3>1 DEF Submit, SubmitExhausted, SubmitSuperseding, SubmitUnreliable
  <2>6. CASE BeginStep
    <3>1. \A c \in Connections : trace[c] \in Traces
      BY <2>0
    <3>2. \A c \in Connections : trace'[c].cut = FALSE
      BY <2>6, <3>1 DEF BeginStep, Traces
    <3> QED BY <3>2
  <2>7. CASE EndStep \/ \E c \in Connections : OpenFlush(c) \/ RefuseFlush(c)
    BY <2>2, <2>7 DEF EndStep, OpenFlush, RefuseFlush
  <2>8. CASE Flush
    <3> DEFINE c == flush.connection
    <3>1. c \in Connections /\ ~trace[c].cut /\ trace[c] \in Traces
      BY <1>1, <2>0, <2>8, FlushType
         DEF Flush, FlushSend, FlushBudgetLimited, FlushBackpressured, FlushFailed,
             FlushDrained, Pending
    <3>2. \A d \in Connections : d # c => trace'[d] = trace[d]
      BY <2>0, <2>8, <3>1
         DEF Flush, FlushSend, FlushBudgetLimited, FlushBackpressured, FlushFailed,
             FlushDrained, CloseFlush
    <3> QED BY <3>1, <3>2
  <2> QED BY <2>3, <2>4, <2>5, <2>6, <2>7, <2>8 DEF Next
<1> QED BY <1>1, IndInvHolds, PTL DEF Spec, NothingAfterACut

-----------------------------------------------------------------------------
(* Weights and sums over the queues of one connection.                     *)

\* The weights are naturals; Tally adds or takes off exactly them.
LEMMA MessageWeights ==
    /\ ReliableCount \in [Messages -> Nat] /\ ReliableBytes \in [Messages -> Nat]
    /\ UnreliableCount \in [Messages -> Nat] /\ UnreliableBytes \in [Messages -> Nat]
    /\ \A m \in Messages :
          /\ m.size \in Nat \ {0}
          /\ ReliableCount[m] = IF IsReliable(m) THEN 1 ELSE 0
          /\ ReliableBytes[m] = IF IsReliable(m) THEN m.size ELSE 0
          /\ UnreliableCount[m] = IF IsReliable(m) THEN 0 ELSE 1
          /\ UnreliableBytes[m] = IF IsReliable(m) THEN 0 ELSE m.size
<1>1. \A m \in Messages : m.size \in Nat \ {0}
  BY MessageType
<1>. HIDE DEF Messages, IsReliable
<1>. QED
  BY <1>1 DEF ReliableCount, ReliableBytes, UnreliableCount, UnreliableBytes

\* What Tally does, by the weights.
LEMMA TallyWeighs ==
    ASSUME NEW st \in Statistics, NEW m \in Messages
    PROVE  /\ Tally(st, m, 1).reliableBytes = st.reliableBytes + ReliableBytes[m]
           /\ Tally(st, m, 1).reliableMessages = st.reliableMessages + ReliableCount[m]
           /\ Tally(st, m, 1).unreliableBytes = st.unreliableBytes + UnreliableBytes[m]
           /\ Tally(st, m, 1).unreliableMessages = st.unreliableMessages + UnreliableCount[m]
           /\ Tally(st, m, 1).messages = st.messages + 1
           /\ Tally(st, m, -1).reliableBytes = st.reliableBytes - ReliableBytes[m]
           /\ Tally(st, m, -1).reliableMessages = st.reliableMessages - ReliableCount[m]
           /\ Tally(st, m, -1).unreliableBytes = st.unreliableBytes - UnreliableBytes[m]
           /\ Tally(st, m, -1).unreliableMessages = st.unreliableMessages - UnreliableCount[m]
           /\ Tally(st, m, -1).messages = st.messages - 1
<1>1. /\ m.size \in Nat
      /\ ReliableCount[m] = IF IsReliable(m) THEN 1 ELSE 0
      /\ ReliableBytes[m] = IF IsReliable(m) THEN m.size ELSE 0
      /\ UnreliableCount[m] = IF IsReliable(m) THEN 0 ELSE 1
      /\ UnreliableBytes[m] = IF IsReliable(m) THEN 0 ELSE m.size
  BY MessageWeights
<1>2. /\ st.reliableBytes \in Int /\ st.reliableMessages \in Int
      /\ st.unreliableBytes \in Int /\ st.unreliableMessages \in Int /\ st.messages \in Int
  BY DEF Statistics
<1>3. CASE IsReliable(m)
  BY <1>1, <1>2, <1>3 DEF Tally
<1>4. CASE ~IsReliable(m)
  BY <1>1, <1>2, <1>4 DEF Tally
<1>. QED
  BY <1>3, <1>4

\* There are six classes.
LEMMA ClassesFinite == IsFiniteSet(Classes)
<1>1. 0 \in Int /\ 5 \in Int
  OBVIOUS
<1>. QED
  BY <1>1, FS_Interval, Zenon DEF Classes

\* The sum over six queues is a natural, and none over empty queues.
LEMMA HeldTotalType ==
    ASSUME NEW w \in [Messages -> Nat], NEW q \in ConnectionQueues
    PROVE  /\ HeldTotal(w, q) \in Nat
           /\ q.queues = EmptyQueues => HeldTotal(w, q) = 0
<1>. DEFINE f == [k \in Classes |-> SeqTotal(w, q.queues[k])]
<1>0. IsFiniteSet(Classes)
  BY ClassesFinite
<1>1. \A k \in Classes : f[k] \in Nat
  <2>1. \A k \in Classes : q.queues[k] \in Seq(Messages)
    BY DEF ConnectionQueues
  <2>. QED
    BY <2>1, SeqTotalType
<1>2. q.queues = EmptyQueues => \A k \in Classes : f[k] = 0
  BY SeqTotalEmpty DEF EmptyQueues
<1>. HIDE DEF f
<1>3. Total(f, Classes) \in Nat /\ (q.queues = EmptyQueues => Total(f, Classes) = 0)
  BY <1>0, <1>1, <1>2, TotalType, TotalZero
<1>. QED
  BY <1>3 DEF HeldTotal, f

\* One of the six queues changes.
LEMMA HeldTotalStep ==
    ASSUME NEW w \in [Messages -> Nat], NEW q \in ConnectionQueues, NEW r \in ConnectionQueues,
           NEW k \in Classes, \A j \in Classes : j # k => r.queues[j] = q.queues[j]
    PROVE  HeldTotal(w, r) + SeqTotal(w, q.queues[k]) = HeldTotal(w, q) + SeqTotal(w, r.queues[k])
<1>. DEFINE f == [j \in Classes |-> SeqTotal(w, q.queues[j])]
            h == [j \in Classes |-> SeqTotal(w, r.queues[j])]
<1>0. IsFiniteSet(Classes)
  BY ClassesFinite
<1>1. \A j \in Classes : f[j] \in Nat /\ h[j] \in Nat
  <2>1. \A j \in Classes : q.queues[j] \in Seq(Messages) /\ r.queues[j] \in Seq(Messages)
    BY DEF ConnectionQueues
  <2>. QED
    BY <2>1, SeqTotalType
<1>2. \A j \in Classes : j # k => f[j] = h[j]
  OBVIOUS
<1>3. f[k] = SeqTotal(w, q.queues[k]) /\ h[k] = SeqTotal(w, r.queues[k])
  OBVIOUS
<1>. HIDE DEF f, h
<1>4. Total(h, Classes) + f[k] = Total(f, Classes) + h[k]
  BY <1>0, <1>1, <1>2, TotalUpdate
<1>. QED
  BY <1>3, <1>4 DEF HeldTotal, f, h

\* The queues after Queue and Without.
LEMMA QueueQueues ==
    ASSUME NEW q \in ConnectionQueues, NEW m \in Messages
    PROVE  /\ Queue(q, m) \in ConnectionQueues /\ m.class \in Classes
           /\ Queue(q, m).queues[m.class] = Append(q.queues[m.class], m)
           /\ \A j \in Classes : j # m.class => Queue(q, m).queues[j] = q.queues[j]
           /\ Queue(q, m).statistics = Tally(q.statistics, m, 1)
           /\ Queue(q, m).status = q.status /\ Queue(q, m).limits = q.limits
<1>1. m.class \in Classes /\ q.queues \in [Classes -> Seq(Messages)]
  BY MessageType DEF ConnectionQueues
<1>2. Queue(q, m).queues = [q.queues EXCEPT ![m.class] = Append(q.queues[m.class], m)]
      /\ Queue(q, m).statistics = Tally(q.statistics, m, 1)
  BY DEF Queue, ConnectionQueues
<1>3. /\ Queue(q, m) \in ConnectionQueues
      /\ Queue(q, m).status = q.status /\ Queue(q, m).limits = q.limits
  BY QueueType
<1>. QED
  BY <1>1, <1>2, <1>3

\* A removal changes one queue, the statistics and nothing else.
LEMMA WithoutQueues ==
    ASSUME NEW q \in ConnectionQueues, NEW k \in Classes, NEW n \in 1 .. Len(q.queues[k])
    PROVE  /\ Without(q, k, n) \in ConnectionQueues /\ q.queues[k][n] \in Messages
           /\ q.queues[k] \in Seq(Messages) /\ n \in DOMAIN q.queues[k]
           /\ Without(q, k, n).queues[k]
                = SubSeq(q.queues[k], 1, n - 1) \o SubSeq(q.queues[k], n + 1, Len(q.queues[k]))
           /\ \A j \in Classes : j # k => Without(q, k, n).queues[j] = q.queues[j]
           /\ Without(q, k, n).statistics = Tally(q.statistics, q.queues[k][n], -1)
           /\ Without(q, k, n).status = q.status /\ Without(q, k, n).limits = q.limits
<1>1. q.queues \in [Classes -> Seq(Messages)] /\ q.queues[k] \in Seq(Messages)
  BY DEF ConnectionQueues
<1>2. /\ Without(q, k, n).queues = [q.queues EXCEPT ![k] = RemoveAt(q.queues[k], n)]
      /\ Without(q, k, n).statistics = Tally(q.statistics, q.queues[k][n], -1)
  BY DEF Without, ConnectionQueues
<1>3. /\ Without(q, k, n) \in ConnectionQueues
      /\ Without(q, k, n).status = q.status /\ Without(q, k, n).limits = q.limits
  BY WithoutType
<1>4. q.queues[k][n] \in Messages /\ n \in DOMAIN q.queues[k]
  BY <1>1
<1>5. RemoveAt(q.queues[k], n)
        = SubSeq(q.queues[k], 1, n - 1) \o SubSeq(q.queues[k], n + 1, Len(q.queues[k]))
  BY DEF RemoveAt
<1>. QED
  BY <1>1, <1>2, <1>3, <1>4, <1>5

\* A message counts once while it is queued.
LEMMA HeldChanges ==
    ASSUME NEW w \in [Messages -> Nat], NEW q \in ConnectionQueues
    PROVE  /\ \A m \in Messages : HeldTotal(w, Queue(q, m)) = HeldTotal(w, q) + w[m]
           /\ \A k \in Classes : \A n \in 1 .. Len(q.queues[k]) :
                 HeldTotal(w, Without(q, k, n)) = HeldTotal(w, q) - w[q.queues[k][n]]
<1>1. ASSUME NEW m \in Messages
      PROVE  HeldTotal(w, Queue(q, m)) = HeldTotal(w, q) + w[m]
  <2>. DEFINE r == Queue(q, m)  k == m.class  s == q.queues[k]
  <2>1. /\ r \in ConnectionQueues /\ k \in Classes
        /\ r.queues[k] = Append(s, m) /\ \A j \in Classes : j # k => r.queues[j] = q.queues[j]
    BY QueueQueues
  <2>2. s \in Seq(Messages)
    BY <2>1 DEF ConnectionQueues
  <2>. HIDE DEF r, s, k
  <2>3. SeqTotal(w, Append(s, m)) = SeqTotal(w, s) + w[m]
    BY <2>2, SeqTotalAppend, Zenon
  <2>4. HeldTotal(w, r) + SeqTotal(w, s) = HeldTotal(w, q) + SeqTotal(w, r.queues[k])
    BY <2>1, HeldTotalStep DEF s
  <2>5. HeldTotal(w, r) \in Nat /\ HeldTotal(w, q) \in Nat /\ SeqTotal(w, s) \in Nat /\ w[m] \in Nat
    BY <2>1, <2>2, HeldTotalType, SeqTotalType
  <2>. QED
    BY <2>1, <2>3, <2>4, <2>5 DEF r
<1>2. ASSUME NEW k \in Classes, NEW n \in 1 .. Len(q.queues[k])
      PROVE  HeldTotal(w, Without(q, k, n)) = HeldTotal(w, q) - w[q.queues[k][n]]
  <2>. DEFINE r == Without(q, k, n)  s == q.queues[k]
              t == SubSeq(s, 1, n - 1) \o SubSeq(s, n + 1, Len(s))
  <2>1. /\ r \in ConnectionQueues /\ s \in Seq(Messages) /\ n \in DOMAIN s /\ s[n] \in Messages
        /\ r.queues[k] = t /\ \A j \in Classes : j # k => r.queues[j] = q.queues[j]
    BY WithoutQueues
  <2>2. SeqTotal(w, s) = SeqTotal(w, t) + w[s[n]]
    <3>. HIDE DEF s
    <3>1. SeqTotal(w, s)
            = SeqTotal(w, SubSeq(s, 1, n - 1) \o SubSeq(s, n + 1, Len(s))) + w[s[n]]
      <4>1. s \in Seq(Messages) /\ n \in DOMAIN s
        BY <2>1
      <4>. QED
        BY <4>1, SeqTotalRemoveAt
    <3>. QED
      BY <3>1
  <2>. HIDE DEF r, s, t
  <2>4. HeldTotal(w, r) + SeqTotal(w, s) = HeldTotal(w, q) + SeqTotal(w, t)
    <3>1. HeldTotal(w, r) + SeqTotal(w, q.queues[k]) = HeldTotal(w, q) + SeqTotal(w, r.queues[k])
      BY <2>1, HeldTotalStep
    <3>. QED
      BY <2>1, <3>1 DEF s
  <2>5. /\ HeldTotal(w, r) \in Nat /\ HeldTotal(w, q) \in Nat /\ SeqTotal(w, s) \in Nat
        /\ SeqTotal(w, t) \in Nat /\ w[s[n]] \in Nat
    <3>1. t \in Seq(Messages)
      BY <2>1 DEF ConnectionQueues
    <3>. QED
      BY <2>1, <3>1, HeldTotalType, SeqTotalType
  <2>6. HeldTotal(w, r) = HeldTotal(w, q) - w[s[n]]
    <3>. DEFINE a == HeldTotal(w, r)  b == HeldTotal(w, q)  x == SeqTotal(w, s)
                y == SeqTotal(w, t)   z == w[s[n]]
    <3>1. a + x = b + y /\ x = y + z /\ a \in Nat /\ b \in Nat /\ x \in Nat /\ y \in Nat /\ z \in Nat
      BY <2>2, <2>4, <2>5
    <3>. HIDE DEF a, b, x, y, z
    <3>2. a = b - z
      BY <3>1
    <3>. QED
      BY <3>2 DEF a, b, z
  <2>. QED
    BY <2>6 DEF r, s
<1>. QED
  BY <1>1, <1>2

-----------------------------------------------------------------------------
(* The accounts of one connection.                                         *)

\* The statistics are the sums over the queues.
Counted(q) ==
    /\ q.statistics.reliableBytes = HeldTotal(ReliableBytes, q)
    /\ q.statistics.reliableMessages = HeldTotal(ReliableCount, q)
    /\ q.statistics.unreliableBytes = HeldTotal(UnreliableBytes, q)
    /\ q.statistics.unreliableMessages = HeldTotal(UnreliableCount, q)
    /\ q.statistics.messages = q.statistics.reliableMessages + q.statistics.unreliableMessages

\* They stay so when a message joins its queue or leaves it.
LEMMA CountedChanges ==
    ASSUME NEW q \in ConnectionQueues, Counted(q)
    PROVE  /\ \A m \in Messages : Counted(Queue(q, m))
           /\ \A k \in Classes : \A n \in 1 .. Len(q.queues[k]) : Counted(Without(q, k, n))
<1>0. /\ HeldTotal(ReliableBytes, q) \in Nat /\ HeldTotal(ReliableCount, q) \in Nat
      /\ HeldTotal(UnreliableBytes, q) \in Nat /\ HeldTotal(UnreliableCount, q) \in Nat
      /\ q.statistics \in Statistics
  BY MessageWeights, HeldTotalType DEF ConnectionQueues
<1>. DEFINE Adds(r, m) ==
              /\ r.statistics = Tally(q.statistics, m, 1)
              /\ HeldTotal(ReliableBytes, r) = HeldTotal(ReliableBytes, q) + ReliableBytes[m]
              /\ HeldTotal(ReliableCount, r) = HeldTotal(ReliableCount, q) + ReliableCount[m]
              /\ HeldTotal(UnreliableBytes, r) = HeldTotal(UnreliableBytes, q) + UnreliableBytes[m]
              /\ HeldTotal(UnreliableCount, r) = HeldTotal(UnreliableCount, q) + UnreliableCount[m]
            Takes(r, m) ==
              /\ r.statistics = Tally(q.statistics, m, -1)
              /\ HeldTotal(ReliableBytes, r) = HeldTotal(ReliableBytes, q) - ReliableBytes[m]
              /\ HeldTotal(ReliableCount, r) = HeldTotal(ReliableCount, q) - ReliableCount[m]
              /\ HeldTotal(UnreliableBytes, r) = HeldTotal(UnreliableBytes, q) - UnreliableBytes[m]
              /\ HeldTotal(UnreliableCount, r) = HeldTotal(UnreliableCount, q) - UnreliableCount[m]
<1>1. ASSUME NEW r, NEW m \in Messages, Adds(r, m) PROVE Counted(r)
  <2>1. /\ ReliableBytes[m] \in Nat /\ ReliableCount[m] \in Nat
        /\ UnreliableBytes[m] \in Nat /\ UnreliableCount[m] \in Nat
        /\ ReliableCount[m] + UnreliableCount[m] = 1
    BY MessageWeights
  <2>2. /\ r.statistics.reliableBytes = q.statistics.reliableBytes + ReliableBytes[m]
        /\ r.statistics.reliableMessages = q.statistics.reliableMessages + ReliableCount[m]
        /\ r.statistics.unreliableBytes = q.statistics.unreliableBytes + UnreliableBytes[m]
        /\ r.statistics.unreliableMessages = q.statistics.unreliableMessages + UnreliableCount[m]
        /\ r.statistics.messages = q.statistics.messages + 1
    BY <1>0, <1>1, TallyWeighs
  <2>3. /\ HeldTotal(ReliableBytes, r) = HeldTotal(ReliableBytes, q) + ReliableBytes[m]
        /\ HeldTotal(ReliableCount, r) = HeldTotal(ReliableCount, q) + ReliableCount[m]
        /\ HeldTotal(UnreliableBytes, r) = HeldTotal(UnreliableBytes, q) + UnreliableBytes[m]
        /\ HeldTotal(UnreliableCount, r) = HeldTotal(UnreliableCount, q) + UnreliableCount[m]
    BY <1>0, <1>1, <2>1
  <2>4. r.statistics.messages = r.statistics.reliableMessages + r.statistics.unreliableMessages
    BY <1>0, <2>1, <2>2 DEF Counted
  <2>. QED
    BY <2>2, <2>3, <2>4 DEF Counted
<1>2. ASSUME NEW r, NEW m \in Messages, Takes(r, m) PROVE Counted(r)
  <2>1. /\ ReliableBytes[m] \in Nat /\ ReliableCount[m] \in Nat
        /\ UnreliableBytes[m] \in Nat /\ UnreliableCount[m] \in Nat
        /\ ReliableCount[m] + UnreliableCount[m] = 1
    BY MessageWeights
  <2>2. /\ r.statistics.reliableBytes = q.statistics.reliableBytes - ReliableBytes[m]
        /\ r.statistics.reliableMessages = q.statistics.reliableMessages - ReliableCount[m]
        /\ r.statistics.unreliableBytes = q.statistics.unreliableBytes - UnreliableBytes[m]
        /\ r.statistics.unreliableMessages = q.statistics.unreliableMessages - UnreliableCount[m]
        /\ r.statistics.messages = q.statistics.messages - 1
    BY <1>0, <1>2, TallyWeighs
  <2>. QED
    BY <1>0, <1>2, <2>1, <2>2 DEF Counted
<1>3. ASSUME NEW m \in Messages PROVE Counted(Queue(q, m))
  <2>1. Queue(q, m).statistics = Tally(q.statistics, m, 1)
    BY QueueQueues
  <2>2. \A w \in [Messages -> Nat] : HeldTotal(w, Queue(q, m)) = HeldTotal(w, q) + w[m]
    BY HeldChanges
  <2>4. Adds(Queue(q, m), m)
    BY <2>1, <2>2, MessageWeights
  <2>. QED
    BY <1>1, <2>4
<1>4. ASSUME NEW k \in Classes, NEW n \in 1 .. Len(q.queues[k]) PROVE Counted(Without(q, k, n))
  <2>. DEFINE m == q.queues[k][n]  r == Without(q, k, n)
  <2>1. r.statistics = Tally(q.statistics, m, -1) /\ m \in Messages
    BY WithoutQueues
  <2>2. \A w \in [Messages -> Nat] : HeldTotal(w, r) = HeldTotal(w, q) - w[m]
    BY HeldChanges
  <2>. HIDE DEF m, r
  <2>4. Takes(r, m)
    BY <2>1, <2>2, MessageWeights
  <2>. QED
    BY <1>2, <2>1, <2>4 DEF r
<1>. QED
  BY <1>3, <1>4

\* A new or cleared connection holds and accounts for nothing.
LEMMA NewQueueAccounts ==
    ASSUME NEW s \in {"absent", "active", "closed"}, NEW l \in NetworkLimits
    PROVE  /\ NewQueue(s, l) \in ConnectionQueues
           /\ QueueAccounts(NewQueue(s, l))
           /\ NewQueue(s, l).statistics.reliableBytes = 0
<1>. DEFINE q == NewQueue(s, l)
<1>1. q \in ConnectionQueues /\ q.queues = EmptyQueues /\ q.limits = l
  BY NewQueueType
<1>2. q.statistics = NoWork
  BY DEF NewQueue
<1>3. \A k \in Classes : q.queues[k] = <<>>
  BY <1>1 DEF EmptyQueues
<1>. HIDE DEF q
<1>4. Held(q) = {}
  <2>1. \A k \in Classes : {<<k, n>> : n \in DOMAIN q.queues[k]} = {}
    BY <1>3
  <2>. QED
    BY <2>1 DEF Held
<1>5. \A w \in [Messages -> Nat] : HeldTotal(w, q) = 0
  BY <1>1, HeldTotalType
<1>6. /\ HeldTotal(ReliableBytes, q) = 0 /\ HeldTotal(ReliableCount, q) = 0
      /\ HeldTotal(UnreliableBytes, q) = 0 /\ HeldTotal(UnreliableCount, q) = 0
  BY <1>5, MessageWeights
<1>7. l.queuedReliable \in Nat /\ l.sendBytes \in Nat /\ l.messages \in Nat
  BY LimitsType
<1>8. QueueAccounts(q) /\ q.statistics.reliableBytes = 0
  BY <1>1, <1>2, <1>4, <1>6, <1>7 DEF QueueAccounts, NoWork
<1>. QED
  BY <1>1, <1>8 DEF q

\* An empty connection is charged nothing.
LEMMA EmptyCharge ==
    ASSUME NEW q \in ConnectionQueues, QueueAccounts(q)
    PROVE  /\ q.statistics.reliableBytes \in Nat
           /\ q.status # "active" => q.statistics.reliableBytes = 0
<1>1. HeldTotal(ReliableBytes, q) \in Nat
      /\ (q.queues = EmptyQueues => HeldTotal(ReliableBytes, q) = 0)
  BY MessageWeights, HeldTotalType
<1>2. Held(q) = {} => q.queues = EmptyQueues
  <2>. SUFFICES ASSUME Held(q) = {} PROVE q.queues = EmptyQueues
    OBVIOUS
  <2>1. q.queues \in [Classes -> Seq(Messages)]
    BY DEF ConnectionQueues
  <2>2. \A k \in Classes : q.queues[k] = <<>>
    <3>. SUFFICES ASSUME NEW k \in Classes, q.queues[k] # <<>> PROVE FALSE
      OBVIOUS
    <3>1. 1 \in DOMAIN q.queues[k]
      BY <2>1
    <3>2. <<k, 1>> \in Held(q)
      BY <3>1 DEF Held
    <3>. QED
      BY <3>2
  <2>. QED
    BY <2>1, <2>2 DEF EmptyQueues
<1>. QED
  BY <1>1, <1>2 DEF QueueAccounts

-----------------------------------------------------------------------------
(* The accounts of the scheduler.                                          *)

\* A message with a key is a sequenced one, so supersession never takes a
\* reliable message out of its queue.
Keyed == {m \in Messages : m.key # NoKey => ~IsReliable(m)}

KeyedQueues(q) == \A k \in Classes : \A n \in DOMAIN q.queues[k] : q.queues[k][n] \in Keyed

KeysOK == \A c \in Connections : KeyedQueues(conns[c])

\* The connections' charges sum up to the aggregate, before and after one changes.
LEMMA ChargesStep ==
    ASSUME TypeOK, AccountsExact, NEW c \in Connections, NEW nq \in ConnectionQueues,
           QueueAccounts(nq), conns' = [conns EXCEPT ![c] = nq],
           total' = (total - conns[c].statistics.reliableBytes) + nq.statistics.reliableBytes,
           total' <= MaximumTotalQueuedReliableBytes
    PROVE  AccountsExact'
<1>1. /\ conns \in [Connections -> ConnectionQueues] /\ total \in Int
      /\ \A d \in Connections : QueueAccounts(conns[d])
      /\ total = Total(ChargedBytes, Connections)
  BY DEF TypeOK, AccountsExact
<1>2. conns'[c] = nq /\ \A d \in Connections : d # c => conns'[d] = conns[d]
  BY <1>1
<1>3. \A d \in Connections : QueueAccounts(conns'[d])
  BY <1>1, <1>2
<1>. DEFINE f == ChargedBytes  h == ChargedBytes'  C == Connections
<1>4. /\ \A d \in C : f[d] \in Nat /\ h[d] \in Nat
      /\ \A d \in C : d # c => f[d] = h[d]
      /\ f[c] = conns[c].statistics.reliableBytes /\ h[c] = nq.statistics.reliableBytes
  <2>1. \A d \in Connections : conns[d] \in ConnectionQueues /\ conns'[d] \in ConnectionQueues
    BY <1>1, <1>2
  <2>2. \A d \in Connections : /\ conns[d].statistics.reliableBytes \in Nat
                               /\ conns'[d].statistics.reliableBytes \in Nat
    BY <1>1, <1>3, <2>1, EmptyCharge
  <2>. QED
    BY <1>2, <2>2 DEF ChargedBytes
<1>5. IsFiniteSet(C) /\ c \in C
  BY ConnectionAssumption
<1>. HIDE DEF f, h, C
<1>6. Total(h, C) + f[c] = Total(f, C) + h[c]
  BY <1>4, <1>5, TotalUpdate
<1>7. Total(h, C) \in Nat /\ Total(f, C) \in Nat
  BY <1>4, <1>5, TotalType
<1>8. total = Total(f, C)
  BY <1>1 DEF f, C
<1>9. total' = Total(h, C)
  <2>. DEFINE x == Total(h, C)  y == Total(f, C)  a == f[c]  b == h[c]
  <2>1. /\ x + a = y + b /\ x \in Nat /\ y \in Nat /\ a \in Nat /\ b \in Nat
        /\ total' = (y - a) + b
    BY <1>4, <1>5, <1>6, <1>7, <1>8
  <2>. HIDE DEF x, y, a, b
  <2>2. total' = x
    BY <2>1
  <2>. QED
    BY <2>2 DEF x
<1>. QED
  BY <1>3, <1>9 DEF AccountsExact, h, C

\* What SubmitSuperseding takes out is not reliable.
LEMMA SameKeyHeld ==
    ASSUME NEW q \in ConnectionQueues, KeyedQueues(q), NEW i \in Intents,
           i.delivery = "sequenced", NEW p \in SameKey(q, i)
    PROVE  /\ p[1] \in Classes /\ p[2] \in 1 .. Len(q.queues[p[1]])
           /\ At(q, p) = q.queues[p[1]][p[2]] /\ At(q, p) \in Messages
           /\ ~IsReliable(At(q, p))
<1>1. q.queues \in [Classes -> Seq(Messages)]
  BY DEF ConnectionQueues
<1>2. p \in Held(q) /\ At(q, p).key = i.key
  BY DEF SameKey
<1>3. PICK k \in Classes : p \in {<<k, n>> : n \in DOMAIN q.queues[k]}
  BY <1>2 DEF Held
<1>4. PICK n \in DOMAIN q.queues[k] : p = <<k, n>>
  BY <1>3
<1>5. DOMAIN q.queues[k] = 1 .. Len(q.queues[k])
  BY <1>1
<1>6. q.queues[k][n] \in Keyed
  BY <1>4 DEF KeyedQueues
<1>7. At(q, p) = q.queues[k][n]
  BY <1>4 DEF At
<1>8. i.key # NoKey
  BY IntentAssumption
<1>. QED
  BY <1>2, <1>4, <1>5, <1>6, <1>7, <1>8 DEF Keyed

\* A submitted intent is a keyed message with the intent's size and delivery.
LEMMA NumberedKeyed ==
    ASSUME TypeOK, NEW c \in Connections, NEW i \in Intents
    PROVE  /\ Numbered(c, i) \in Keyed /\ Numbered(c, i) \in Messages
           /\ Numbered(c, i).size = i.size /\ Numbered(c, i).class = i.class
           /\ IsReliable(Numbered(c, i)) <=> IsReliable(i)
<1>1. Numbered(c, i) \in Messages /\ Numbered(c, i).class = i.class
  BY NumberedType
<1>2. /\ Numbered(c, i).key = i.key /\ Numbered(c, i).delivery = i.delivery
      /\ Numbered(c, i).size = i.size
  BY DEF Numbered
<1>3. i.key # NoKey => i.delivery = "sequenced"
  BY IntentAssumption
<1>. QED
  BY <1>1, <1>2, <1>3 DEF Keyed, IsReliable

\* Queues stay keyed.
LEMMA KeyedChanges ==
    ASSUME NEW q \in ConnectionQueues, KeyedQueues(q)
    PROVE  /\ \A m \in Keyed : KeyedQueues(Queue(q, m))
           /\ \A k \in Classes : \A n \in 1 .. Len(q.queues[k]) : KeyedQueues(Without(q, k, n))
<1>1. \A k \in Classes : q.queues[k] \in Seq(Keyed)
  <2>1. \A k \in Classes : q.queues[k] \in Seq(Messages)
    BY DEF ConnectionQueues
  <2>2. \A k \in Classes : \A n \in 1 .. Len(q.queues[k]) : q.queues[k][n] \in Keyed
    BY <2>1 DEF KeyedQueues
  <2>. QED
    BY <2>1, <2>2
<1>2. ASSUME NEW m \in Keyed PROVE KeyedQueues(Queue(q, m))
  <2>1. /\ m.class \in Classes /\ Queue(q, m).queues[m.class] = Append(q.queues[m.class], m)
        /\ \A j \in Classes : j # m.class => Queue(q, m).queues[j] = q.queues[j]
    BY QueueQueues DEF Keyed
  <2>3. q.queues[m.class] \in Seq(Keyed)
    BY <1>1, <2>1, Zenon
  <2>4. Append(q.queues[m.class], m) \in Seq(Keyed)
    BY <2>3
  <2>2. \A j \in Classes : Queue(q, m).queues[j] \in Seq(Keyed)
    BY <1>1, <2>1, <2>4, Zenon
  <2>. QED
    BY <2>2 DEF KeyedQueues
<1>3. ASSUME NEW k \in Classes, NEW n \in 1 .. Len(q.queues[k])
      PROVE  KeyedQueues(Without(q, k, n))
  <2>. DEFINE s == q.queues[k]  r == Without(q, k, n)
  <2>1. /\ r.queues[k] = SubSeq(s, 1, n - 1) \o SubSeq(s, n + 1, Len(s))
        /\ \A j \in Classes : j # k => r.queues[j] = q.queues[j]
    BY WithoutQueues
  <2>2. s \in Seq(Keyed)
    BY <1>1
  <2>. HIDE DEF s, r
  <2>3. SubSeq(s, 1, n - 1) \in Seq(Keyed) /\ SubSeq(s, n + 1, Len(s)) \in Seq(Keyed)
    BY <2>2 DEF s
  <2>4. r.queues[k] \in Seq(Keyed)
    BY <2>1, <2>3, ConcatProperties
  <2>5. \A j \in Classes : r.queues[j] \in Seq(Keyed)
    BY <1>1, <2>1, <2>4
  <2>. QED
    BY <2>5 DEF KeyedQueues, r
<1>. QED
  BY <1>2, <1>3

\* Every step keeps the accounts exact and the queues keyed.
LEMMA AccountsStep ==
    ASSUME IndInv, AccountsExact, KeysOK, [Next]_vars
    PROVE  AccountsExact' /\ KeysOK'
<1>1. /\ TypeOK /\ conns \in [Connections -> ConnectionQueues] /\ total \in Int
      /\ \A c \in Connections :
            /\ conns[c] \in ConnectionQueues /\ QueueAccounts(conns[c])
            /\ KeyedQueues(conns[c]) /\ conns[c].limits \in NetworkLimits
            /\ conns[c].statistics.reliableBytes \in Nat
            /\ conns[c].status # "active" => conns[c].statistics.reliableBytes = 0
      /\ total <= MaximumTotalQueuedReliableBytes /\ MaximumTotalQueuedReliableBytes \in Nat
  <2>1. conns \in [Connections -> ConnectionQueues] /\ total \in Int
    BY DEF IndInv, TypeOK
  <2>2. \A c \in Connections : conns[c] \in ConnectionQueues /\ conns[c].limits \in NetworkLimits
    BY <2>1 DEF ConnectionQueues
  <2>. QED
    BY <2>1, <2>2, EmptyCharge, CapacityAssumption DEF IndInv, AccountsExact, KeysOK
<1>2. CASE UNCHANGED <<conns, total>>
  BY <1>2 DEF AccountsExact, KeysOK, ChargedBytes
<1>3. ASSUME NEW c \in Connections, NEW nq \in ConnectionQueues,
             QueueAccounts(nq), KeyedQueues(nq), conns' = [conns EXCEPT ![c] = nq],
             total' = (total - conns[c].statistics.reliableBytes) + nq.statistics.reliableBytes,
             total' <= MaximumTotalQueuedReliableBytes
      PROVE  AccountsExact' /\ KeysOK'
  <2>1. AccountsExact'
    BY <1>1, <1>3, ChargesStep
  <2>2. KeysOK'
    BY <1>1, <1>3 DEF KeysOK
  <2>. QED
    BY <2>1, <2>2
<1>4. ASSUME NEW c \in Connections, NEW st \in {"absent", "active", "closed"},
             NEW l \in NetworkLimits, conns' = [conns EXCEPT ![c] = NewQueue(st, l)],
             total' = total - conns[c].statistics.reliableBytes
      PROVE  AccountsExact' /\ KeysOK'
  <2>. DEFINE nq == NewQueue(st, l)
  <2>1. /\ nq \in ConnectionQueues /\ QueueAccounts(nq) /\ nq.statistics.reliableBytes = 0
        /\ nq.queues = EmptyQueues
    BY NewQueueAccounts, NewQueueType
  <2>. HIDE DEF nq
  <2>2. KeyedQueues(nq)
    BY <2>1 DEF KeyedQueues, EmptyQueues
  <2>3. /\ total' = (total - conns[c].statistics.reliableBytes) + nq.statistics.reliableBytes
        /\ total' <= MaximumTotalQueuedReliableBytes
    BY <1>1, <1>4, <2>1
  <2>. QED
    BY <1>3, <1>4, <2>1, <2>2, <2>3 DEF nq
<1>5. ASSUME NEW c \in Connections, NEW l \in NetworkLimits, RegisterConnection(c, l)
      PROVE  AccountsExact' /\ KeysOK'
  <2>1. conns[c].status # "active" /\ total' = total /\ conns' = [conns EXCEPT ![c] = NewQueue("active", l)]
    BY <1>5 DEF RegisterConnection
  <2>2. total' = total - conns[c].statistics.reliableBytes
    BY <1>1, <2>1
  <2>. QED
    BY <1>4, <2>1, <2>2
<1>6. ASSUME NEW c \in Connections, CancelConnection(c)
      PROVE  AccountsExact' /\ KeysOK'
  <2>1. /\ total' = total - conns[c].statistics.reliableBytes
        /\ conns' = [conns EXCEPT ![c] = NewQueue("absent", conns[c].limits)]
    BY <1>6 DEF CancelConnection, Released, Cleared
  <2>. QED
    BY <1>1, <1>4, <2>1
<1>7. ASSUME NEW c \in Connections, NEW i \in Intents, SubmitExhausted(c, i)
      PROVE  AccountsExact' /\ KeysOK'
  <2>1. /\ total' = total - conns[c].statistics.reliableBytes
        /\ conns' = [conns EXCEPT ![c] = NewQueue("closed", conns[c].limits)]
    BY <1>7 DEF SubmitExhausted, Released, Cleared
  <2>. QED
    BY <1>1, <1>4, <2>1
<1>8. CASE FlushFailed
  <2>1. flush.connection \in Connections
    BY <1>8, FlushType DEF FlushFailed, Pending
  <2>2. PICK c \in Connections : c = flush.connection
    BY <2>1
  <2>3. /\ total' = total - conns[c].statistics.reliableBytes
        /\ conns' = [conns EXCEPT ![c] = NewQueue("closed", conns[c].limits)]
    BY <1>8, <2>2 DEF FlushFailed, Released, Cleared
  <2>. QED
    BY <1>1, <1>4, <2>3
<1>9. ASSUME NEW c \in Connections, NEW i \in Intents, SubmitReliable(c, i) \/ SubmitUnreliable(c, i)
      PROVE  AccountsExact' /\ KeysOK'
  <2>. DEFINE q == conns[c]  m == Numbered(c, i)  nq == Queue(q, m)
  <2>1. /\ q \in ConnectionQueues /\ QueueAccounts(q) /\ KeyedQueues(q) /\ Counted(q)
        /\ q.statistics \in Statistics
    BY <1>1 DEF QueueAccounts, Counted, ConnectionQueues
  <2>2. /\ m \in Keyed /\ m \in Messages /\ m.size = i.size
        /\ IsReliable(m) <=> IsReliable(i)
    BY <1>1, NumberedKeyed
  <2>3. /\ conns' = [conns EXCEPT ![c] = nq] /\ q.status = "active"
        /\ i.size \in Nat
    BY <1>9, IntentAssumption DEF SubmitReliable, SubmitUnreliable, Submittable, Active
  <2>. HIDE DEF q, m
  <2>4. /\ nq \in ConnectionQueues /\ Counted(nq) /\ KeyedQueues(nq)
        /\ nq.status = q.status /\ nq.limits = q.limits
        /\ nq.statistics = Tally(q.statistics, m, 1)
    BY <2>1, <2>2, QueueQueues, CountedChanges, KeyedChanges
  <2>. HIDE DEF nq
  <2>5. /\ nq.statistics.reliableBytes = q.statistics.reliableBytes + ReliableBytes[m]
        /\ nq.statistics.unreliableBytes = q.statistics.unreliableBytes + UnreliableBytes[m]
        /\ nq.statistics.unreliableMessages = q.statistics.unreliableMessages + UnreliableCount[m]
    BY <2>1, <2>2, <2>4, TallyWeighs
  <2>6. /\ q.statistics.reliableBytes \in Int /\ q.statistics.unreliableBytes \in Int
        /\ q.statistics.unreliableMessages \in Int
        /\ q.limits.queuedReliable \in Nat /\ q.limits.sendBytes \in Nat /\ q.limits.messages \in Nat
        /\ q.statistics.reliableBytes <= q.limits.queuedReliable
        /\ q.statistics.unreliableBytes <= q.limits.sendBytes
        /\ q.statistics.unreliableMessages <= q.limits.messages
    BY <1>1, <2>1, LimitsType DEF Statistics, QueueAccounts, q
  <2>7. CASE SubmitReliable(c, i)
    <3>1. /\ IsReliable(m) /\ total' = total + i.size
          /\ i.size <= q.limits.queuedReliable - q.statistics.reliableBytes
          /\ i.size <= MaximumTotalQueuedReliableBytes - total
      <4>1. IsReliable(i) /\ total' = total + i.size /\ ~BacklogExhausted(conns[c], i)
        BY <2>7 DEF SubmitReliable
      <4>. QED
        BY <1>1, <2>2, <2>3, <2>6, <4>1 DEF BacklogExhausted, q
    <3>2. ReliableBytes[m] = i.size /\ UnreliableBytes[m] = 0 /\ UnreliableCount[m] = 0
      BY <2>2, <3>1, MessageWeights
    <3>3. QueueAccounts(nq)
      BY <2>3, <2>4, <2>5, <2>6, <3>1, <3>2 DEF QueueAccounts, Counted
    <3>4. /\ total' = (total - q.statistics.reliableBytes) + nq.statistics.reliableBytes
          /\ total' <= MaximumTotalQueuedReliableBytes
      BY <1>1, <2>3, <2>5, <2>6, <3>1, <3>2
    <3>. QED
      BY <1>3, <2>3, <2>4, <3>3, <3>4 DEF q
  <2>8. CASE SubmitUnreliable(c, i)
    <3>1. /\ ~IsReliable(m) /\ total' = total
          /\ q.statistics.unreliableMessages < q.limits.messages
          /\ i.size <= q.limits.sendBytes - q.statistics.unreliableBytes
      BY <2>2, <2>8 DEF SubmitUnreliable, HasUnreliableRoom, q
    <3>2. ReliableBytes[m] = 0 /\ UnreliableBytes[m] = i.size /\ UnreliableCount[m] = 1
      BY <2>2, <3>1, MessageWeights
    <3>3. QueueAccounts(nq)
      BY <2>3, <2>4, <2>5, <2>6, <3>1, <3>2 DEF QueueAccounts, Counted
    <3>4. /\ total' = (total - q.statistics.reliableBytes) + nq.statistics.reliableBytes
          /\ total' <= MaximumTotalQueuedReliableBytes
      BY <1>1, <2>3, <2>5, <2>6, <3>1, <3>2
    <3>. QED
      BY <1>3, <2>3, <2>4, <3>3, <3>4 DEF q
  <2>. QED
    BY <1>9, <2>7, <2>8
<1>10. ASSUME NEW c \in Connections, NEW i \in Intents, SubmitSuperseding(c, i)
       PROVE  AccountsExact' /\ KeysOK'
  <2>. DEFINE q == conns[c]  m == Numbered(c, i)
  <2>1. /\ q \in ConnectionQueues /\ QueueAccounts(q) /\ KeyedQueues(q) /\ Counted(q)
        /\ q.statistics \in Statistics
    BY <1>1 DEF QueueAccounts, Counted, ConnectionQueues
  <2>2. /\ i.delivery = "sequenced" /\ q.status = "active" /\ total' = total /\ i.size \in Nat
    BY <1>10, IntentAssumption DEF SubmitSuperseding, Submittable, Active
  <2>3. /\ m \in Keyed /\ m \in Messages /\ m.size = i.size /\ ~IsReliable(m)
    BY <1>1, <2>2, NumberedKeyed DEF IsReliable
  <2>. HIDE DEF q, m
  <2>4. PICK p \in SameKey(q, i) :
          /\ Supersedes(q, i, p)
          /\ conns' = [conns EXCEPT ![c] = Queue(Without(q, p[1], p[2]), m)]
    BY <1>10 DEF SubmitSuperseding, q, m
  <2>5. /\ p[1] \in Classes /\ p[2] \in 1 .. Len(q.queues[p[1]])
        /\ At(q, p) = q.queues[p[1]][p[2]] /\ At(q, p) \in Messages /\ ~IsReliable(At(q, p))
    BY <2>1, <2>2, SameKeyHeld
  <2>. DEFINE o == At(q, p)  r == Without(q, p[1], p[2])  nq == Queue(r, m)
  <2>6. /\ r \in ConnectionQueues /\ Counted(r) /\ KeyedQueues(r)
        /\ r.status = q.status /\ r.limits = q.limits
        /\ r.statistics = Tally(q.statistics, o, -1)
    BY <2>1, <2>5, WithoutQueues, CountedChanges, KeyedChanges
  <2>7. conns' = [conns EXCEPT ![c] = nq]
    BY <2>4
  <2>. HIDE DEF r
  <2>8. /\ nq \in ConnectionQueues /\ Counted(nq) /\ KeyedQueues(nq)
        /\ nq.status = r.status /\ nq.limits = r.limits
        /\ nq.statistics = Tally(r.statistics, m, 1) /\ r.statistics \in Statistics
    BY <2>3, <2>6, QueueQueues, CountedChanges, KeyedChanges DEF ConnectionQueues
  <2>. HIDE DEF nq, o
  <2>9. /\ ReliableBytes[m] = 0 /\ UnreliableBytes[m] = i.size /\ UnreliableCount[m] = 1
        /\ ReliableBytes[o] = 0 /\ UnreliableBytes[o] = o.size /\ UnreliableCount[o] = 1
        /\ o.size \in Nat
    BY <2>3, <2>5, MessageWeights DEF o
  <2>10. /\ nq.statistics.reliableBytes = r.statistics.reliableBytes + ReliableBytes[m]
         /\ nq.statistics.unreliableBytes = r.statistics.unreliableBytes + UnreliableBytes[m]
         /\ nq.statistics.unreliableMessages = r.statistics.unreliableMessages + UnreliableCount[m]
    BY <2>3, <2>8, TallyWeighs
  <2>11. /\ r.statistics.reliableBytes = q.statistics.reliableBytes - ReliableBytes[o]
         /\ r.statistics.unreliableBytes = q.statistics.unreliableBytes - UnreliableBytes[o]
         /\ r.statistics.unreliableMessages = q.statistics.unreliableMessages - UnreliableCount[o]
    BY <2>1, <2>5, <2>6, TallyWeighs DEF o
  <2>12. /\ q.statistics.reliableBytes \in Int /\ q.statistics.unreliableBytes \in Int
         /\ q.statistics.unreliableMessages \in Int
         /\ q.limits.queuedReliable \in Nat /\ q.limits.sendBytes \in Nat /\ q.limits.messages \in Nat
         /\ q.statistics.reliableBytes <= q.limits.queuedReliable
         /\ q.statistics.unreliableBytes <= q.limits.sendBytes
         /\ q.statistics.unreliableMessages <= q.limits.messages
    BY <1>1, <2>1, LimitsType DEF Statistics, QueueAccounts, q
  <2>13. i.size <= q.limits.sendBytes - (q.statistics.unreliableBytes - o.size)
    BY <2>4 DEF Supersedes, o
  <2>14. /\ nq.statistics.reliableBytes = q.statistics.reliableBytes
         /\ nq.statistics.unreliableBytes <= q.limits.sendBytes
         /\ nq.statistics.unreliableMessages = q.statistics.unreliableMessages
    BY <2>2, <2>9, <2>10, <2>11, <2>12, <2>13
  <2>15. QueueAccounts(nq)
    BY <2>2, <2>6, <2>8, <2>12, <2>14 DEF QueueAccounts, Counted
  <2>16. /\ total' = (total - q.statistics.reliableBytes) + nq.statistics.reliableBytes
         /\ total' <= MaximumTotalQueuedReliableBytes
    BY <1>1, <2>2, <2>12, <2>14
  <2>. QED
    BY <1>3, <2>7, <2>8, <2>15, <2>16 DEF q
<1>11. CASE FlushSend
  <2>1. PICK c \in Connections : c = flush.connection /\ conns[c].status = "active"
    BY <1>11, FlushType DEF FlushSend, Pending, Active
  <2>. DEFINE q == conns[c]  k == QueueIndex(q)  m == q.queues[k][1]
              r == Without(q, k, 1)  nq == Sent(q, k)
  <2>2. /\ q \in ConnectionQueues /\ QueueAccounts(q) /\ KeyedQueues(q) /\ Counted(q)
        /\ q.statistics \in Statistics
    BY <1>1 DEF QueueAccounts, Counted, ConnectionQueues
  <2>3. k \in Classes /\ 1 \in 1 .. Len(q.queues[k])
    <3>1. q.statistics.messages = Count(q) /\ q.statistics.messages # 0
      BY <1>11, <2>1 DEF IndInv, CountExact, FlushSend, Pending
    <3>2. k \in Classes /\ q.queues[k] # <<>>
      BY <2>2, <3>1, CountedIsHeld, QueueIndexChoice
    <3>3. q.queues[k] \in Seq(Messages)
      BY <2>2, <3>2 DEF ConnectionQueues
    <3>. QED
      BY <3>2, <3>3
  <2>4. /\ conns' = [conns EXCEPT ![c] = nq]
        /\ total' = IF IsReliable(m) THEN total - m.size ELSE total
    BY <1>11, <2>1 DEF FlushSend, NextMessage
  <2>. HIDE DEF q, k
  <2>5. /\ r \in ConnectionQueues /\ Counted(r) /\ KeyedQueues(r) /\ m \in Messages
        /\ r.status = q.status /\ r.limits = q.limits
        /\ r.statistics = Tally(q.statistics, m, -1)
    BY <2>2, <2>3, WithoutQueues, CountedChanges, KeyedChanges
  <2>. HIDE DEF r
  <2>6. nq = [r EXCEPT !.consecutive = Run(r.consecutive, k)]
    BY DEF Sent, r
  <2>. HIDE DEF nq, m
  <2>7. nq \in ConnectionQueues
    <3>1. Run(r.consecutive, k) \in 0 .. CounterMax
      <4>1. r.consecutive \in 0 .. CounterMax /\ CounterMax \in Nat
        BY <2>5, CapacityAssumption DEF ConnectionQueues
      <4>. QED
        BY <4>1 DEF Run
    <3>. QED
      BY <2>5, <2>6, <3>1 DEF ConnectionQueues
  <2>8. /\ nq.queues = r.queues /\ nq.statistics = r.statistics
        /\ nq.status = r.status /\ nq.limits = r.limits
    BY <2>5, <2>6 DEF ConnectionQueues
  <2>9. Counted(nq) /\ KeyedQueues(nq)
    BY <2>5, <2>8 DEF Counted, KeyedQueues, HeldTotal
  <2>10. /\ ReliableBytes[m] = IF IsReliable(m) THEN m.size ELSE 0
         /\ UnreliableBytes[m] \in Nat /\ UnreliableCount[m] \in Nat /\ m.size \in Nat
    BY <2>5, MessageWeights
  <2>11. /\ nq.statistics.reliableBytes = q.statistics.reliableBytes - ReliableBytes[m]
         /\ nq.statistics.unreliableBytes = q.statistics.unreliableBytes - UnreliableBytes[m]
         /\ nq.statistics.unreliableMessages = q.statistics.unreliableMessages - UnreliableCount[m]
    BY <2>2, <2>5, <2>8, TallyWeighs
  <2>12. /\ q.statistics.reliableBytes \in Int /\ q.statistics.unreliableBytes \in Int
         /\ q.statistics.unreliableMessages \in Int
         /\ q.limits.queuedReliable \in Nat /\ q.limits.sendBytes \in Nat /\ q.limits.messages \in Nat
         /\ q.statistics.reliableBytes <= q.limits.queuedReliable
         /\ q.statistics.unreliableBytes <= q.limits.sendBytes
         /\ q.statistics.unreliableMessages <= q.limits.messages
    BY <1>1, <2>2, LimitsType DEF Statistics, QueueAccounts, q
  <2>13. QueueAccounts(nq)
    <3>1. /\ nq.statistics.reliableBytes <= q.limits.queuedReliable
          /\ nq.statistics.unreliableBytes <= q.limits.sendBytes
          /\ nq.statistics.unreliableMessages <= q.limits.messages
      BY <2>10, <2>11, <2>12
    <3>. QED
      BY <2>1, <2>5, <2>8, <2>9, <3>1 DEF QueueAccounts, Counted, q
  <2>14. /\ total' = (total - q.statistics.reliableBytes) + nq.statistics.reliableBytes
         /\ total' <= MaximumTotalQueuedReliableBytes
    BY <1>1, <2>4, <2>10, <2>11, <2>12
  <2>. QED
    BY <1>3, <2>4, <2>7, <2>9, <2>13, <2>14 DEF q
<1>. QED
  BY <1>2, <1>5, <1>6, <1>7, <1>8, <1>9, <1>10, <1>11
     DEF Next, Submit, Flush, BeginStep, EndStep, OpenFlush, RefuseFlush, FlushBudgetLimited,
         FlushBackpressured, FlushDrained, vars

\* The accounts of no connections.
LEMMA InitAccounts == Init => AccountsExact /\ KeysOK
<1>. SUFFICES ASSUME Init PROVE AccountsExact /\ KeysOK
  OBVIOUS
<1>1. AnyLimits \in NetworkLimits
  BY LimitsAssumption DEF AnyLimits
<1>2. \A c \in Connections : conns[c] = NewQueue("absent", AnyLimits)
  BY DEF Init
<1>3. \A c \in Connections : /\ QueueAccounts(conns[c])
                             /\ conns[c].statistics.reliableBytes = 0
                             /\ conns[c].queues = EmptyQueues
  BY <1>1, <1>2, NewQueueAccounts, NewQueueType
<1>4. Total(ChargedBytes, Connections) = 0
  <2>1. \A c \in Connections : ChargedBytes[c] = 0
    BY <1>3 DEF ChargedBytes
  <2>. QED
    BY <2>1, ConnectionAssumption, TotalZero
<1>5. total = 0 /\ MaximumTotalQueuedReliableBytes \in Nat
  BY CapacityAssumption DEF Init
<1>. QED
  BY <1>3, <1>4, <1>5 DEF AccountsExact, KeysOK, KeyedQueues, EmptyQueues

\* The counters that decide admission equal what the queues hold, the aggregate
\* equals the sum of the reliable charges, and none is ever past its ceiling: the
\* subtractions in Submit never wrap.
THEOREM AccountsHold == Spec => []AccountsExact
<1>1. Init => AccountsExact /\ KeysOK
  BY InitAccounts
<1>2. IndInv /\ AccountsExact /\ KeysOK /\ [Next]_vars => AccountsExact' /\ KeysOK'
  BY AccountsStep
<1>. QED
  BY <1>1, <1>2, IndInvHolds, PTL DEF Spec

-----------------------------------------------------------------------------
(* Numbers modulo the window.                                              *)

\* Quotient and remainder.
LEMMA ModDef ==
    ASSUME NEW W \in Nat \ {0}, NEW x \in Nat
    PROVE  /\ x % W \in 0 .. (W - 1) /\ x \div W \in Nat
           /\ x = W * (x \div W) + (x % W)
OBVIOUS

\* A positive multiple is no less than one.
LEMMA OneMultiple ==
    ASSUME NEW W \in Nat \ {0}, NEW d \in Int, d >= 1
    PROVE  W * d >= W
OBVIOUS

\* The remainder is unique.
LEMMA ModUnique ==
    ASSUME NEW W \in Nat \ {0}, NEW q \in Nat, NEW r \in 0 .. (W - 1),
           NEW p \in Nat, NEW s \in 0 .. (W - 1), W * q + r = W * p + s
    PROVE  r = s
<1>1. W * (q - p) = s - r /\ W * (p - q) = r - s
  OBVIOUS
<1>2. CASE q - p >= 1
  <2>1. W * (q - p) >= W
    BY <1>2, OneMultiple
  <2>. QED
    BY <1>1, <2>1
<1>3. CASE p - q >= 1
  <2>1. W * (p - q) >= W
    BY <1>3, OneMultiple
  <2>. QED
    BY <1>1, <2>1
<1>4. CASE p = q
  BY <1>4
<1>. QED
  BY <1>2, <1>3, <1>4

\* Remainders may be taken early.
LEMMA ModPlus ==
    ASSUME NEW W \in Nat \ {0}, NEW x \in Nat, NEW b \in Nat
    PROVE  ((x % W) + b) % W = (x + b) % W
<1>. DEFINE q == x \div W  r == x % W  y == r + b  p == y \div W  s == y % W
            z == x + b  t == z % W  u == z \div W
<1>1. r \in 0 .. (W - 1) /\ q \in Nat /\ x = W * q + r
  BY ModDef
<1>2. y \in Nat
  BY <1>1
<1>3. s \in 0 .. (W - 1) /\ p \in Nat /\ y = W * p + s
  BY <1>2, ModDef
<1>4. t \in 0 .. (W - 1) /\ u \in Nat /\ z = W * u + t
  <2>1. z \in Nat
    OBVIOUS
  <2>. HIDE DEF z
  <2>. QED
    BY <2>1, ModDef
<1>. HIDE DEF q, r, p, s, t, u
<1>5. W * (q + p) = W * q + W * p
  BY <1>1, <1>3
<1>6. W * (q + p) + s = W * u + t
  BY <1>1, <1>3, <1>4, <1>5
<1>7. q + p \in Nat
  BY <1>1, <1>3
<1>8. s = t
  BY <1>3, <1>4, <1>6, <1>7, ModUnique
<1>. QED
  BY <1>8, Zenon DEF s, t, r

-----------------------------------------------------------------------------
(* The order of the reliable messages of one queue.                        *)

Reliables(s) == SeqTotal(ReliableCount, s)

\* Reliable messages are counted by naturals.
LEMMA ReliablesType ==
    ASSUME NEW s \in Seq(Messages)
    PROVE  /\ Reliables(s) \in Nat /\ Len(s) \in Nat
           /\ \A n \in DOMAIN s : /\ n \in 1 .. Len(s) /\ s[n] \in Messages
                                  /\ SubSeq(s, 1, n) \in Seq(Messages)
                                  /\ ReliableAmong(s, n) \in Nat
<1>1. Len(s) \in Nat /\ \A n \in DOMAIN s : n \in 1 .. Len(s) /\ s[n] \in Messages
  OBVIOUS
<1>2. \A n \in DOMAIN s : SubSeq(s, 1, n) \in Seq(Messages)
  OBVIOUS
<1>3. \A t \in Seq(Messages) : Reliables(t) \in Nat
  BY MessageWeights, SeqTotalType DEF Reliables
<1>. QED
  BY <1>1, <1>2, <1>3 DEF Reliables, ReliableAmong

\* A queue without its n-th message.
Cut(s, n) == SubSeq(s, 1, n - 1) \o SubSeq(s, n + 1, Len(s))

\* What stands before the n-th message stays, what stood behind it moves up.
LEMMA CutType ==
    ASSUME NEW E, NEW s \in Seq(E), NEW n \in 1 .. Len(s)
    PROVE  /\ Cut(s, n) \in Seq(E) /\ Len(Cut(s, n)) = Len(s) - 1
           /\ DOMAIN Cut(s, n) = 1 .. (Len(s) - 1)
           /\ \A j \in 1 .. (Len(s) - 1) : Cut(s, n)[j] = IF j < n THEN s[j] ELSE s[j + 1]
<1>. DEFINE a == SubSeq(s, 1, n - 1)  b == SubSeq(s, n + 1, Len(s))
<1>0. Len(s) \in Nat /\ n \in Nat /\ 1 <= n /\ n <= Len(s)
  OBVIOUS
<1>1. a \in Seq(E) /\ Len(a) = n - 1 /\ \A j \in 1 .. (n - 1) : a[j] = s[j]
  OBVIOUS
<1>2. b \in Seq(E) /\ Len(b) = Len(s) - n /\ \A j \in 1 .. (Len(s) - n) : b[j] = s[n + j]
  OBVIOUS
<1>3. Cut(s, n) = a \o b
  BY DEF Cut
<1>. HIDE DEF a, b
<1>4. /\ a \o b \in Seq(E) /\ Len(a \o b) = Len(a) + Len(b)
      /\ \A j \in 1 .. (Len(a) + Len(b)) : (a \o b)[j] = IF j <= Len(a) THEN a[j] ELSE b[j - Len(a)]
  BY <1>1, <1>2, ConcatProperties
<1>5. Len(a) + Len(b) = Len(s) - 1
  BY <1>0, <1>1, <1>2
<1>6. DOMAIN (a \o b) = 1 .. (Len(s) - 1)
  BY <1>4, <1>5
<1>7. ASSUME NEW j \in 1 .. (Len(s) - 1)
      PROVE  (a \o b)[j] = IF j < n THEN s[j] ELSE s[j + 1]
  <2>1. (a \o b)[j] = IF j <= n - 1 THEN a[j] ELSE b[j - (n - 1)]
    BY <1>0, <1>1, <1>2, <1>4
  <2>2. CASE j < n
    BY <1>0, <1>1, <2>1, <2>2
  <2>3. CASE ~(j < n)
    <3>1. j - (n - 1) \in 1 .. (Len(s) - n) /\ n + (j - (n - 1)) = j + 1 /\ ~(j <= n - 1)
      BY <1>0, <2>3
    <3>2. b[j - (n - 1)] = s[n + (j - (n - 1))]
      BY <1>2, <3>1
    <3>. QED
      BY <2>1, <2>3, <3>1, <3>2
  <2>. QED
    BY <2>2, <2>3
<1>. QED
  BY <1>3, <1>4, <1>5, <1>6, <1>7

\* A prefix of the remaining queue is a prefix of the queue, cut or not.
LEMMA CutPrefix ==
    ASSUME NEW E, NEW s \in Seq(E), NEW n \in 1 .. Len(s), NEW j \in 1 .. (Len(s) - 1)
    PROVE  SubSeq(Cut(s, n), 1, j)
             = IF j < n THEN SubSeq(s, 1, j) ELSE Cut(SubSeq(s, 1, j + 1), n)
<1>. DEFINE t == Cut(s, n)  a == SubSeq(t, 1, j)
<1>0. Len(s) \in Nat /\ n \in Nat /\ 1 <= n /\ n <= Len(s) /\ j \in Nat /\ 1 <= j /\ j <= Len(s) - 1
  OBVIOUS
<1>1. /\ t \in Seq(E) /\ Len(t) = Len(s) - 1
      /\ \A i \in 1 .. (Len(s) - 1) : t[i] = IF i < n THEN s[i] ELSE s[i + 1]
  BY CutType
<1>. HIDE DEF t
<1>2. a \in Seq(E) /\ Len(a) = j /\ \A i \in 1 .. j : a[i] = t[i]
  BY <1>0, <1>1
<1>. HIDE DEF a
<1>3. CASE j < n
  <2>. DEFINE b == SubSeq(s, 1, j)
  <2>1. b \in Seq(E) /\ Len(b) = j /\ \A i \in 1 .. j : b[i] = s[i]
    BY <1>0
  <2>. HIDE DEF b
  <2>2. \A i \in 1 .. j : a[i] = b[i]
    BY <1>0, <1>1, <1>2, <1>3, <2>1
  <2>3. a = b
    BY <1>2, <2>1, <2>2, SeqEqual
  <2>. QED
    BY <1>3, <2>3 DEF a, b, t
<1>4. CASE ~(j < n)
  <2>. DEFINE u == SubSeq(s, 1, j + 1)
  <2>1. u \in Seq(E) /\ Len(u) = j + 1 /\ \A i \in 1 .. (j + 1) : u[i] = s[i]
    BY <1>0
  <2>. HIDE DEF u
  <2>2. n \in 1 .. Len(u) /\ Len(u) - 1 = j
    BY <1>0, <1>4, <2>1
  <2>3. /\ Cut(u, n) \in Seq(E) /\ Len(Cut(u, n)) = j
        /\ \A i \in 1 .. j : Cut(u, n)[i] = IF i < n THEN u[i] ELSE u[i + 1]
    <3>1. /\ Cut(u, n) \in Seq(E) /\ Len(Cut(u, n)) = Len(u) - 1
          /\ \A i \in 1 .. (Len(u) - 1) : Cut(u, n)[i] = IF i < n THEN u[i] ELSE u[i + 1]
      BY <2>1, <2>2, CutType
    <3>. QED
      BY <2>2, <3>1
  <2>4. \A i \in 1 .. j : a[i] = Cut(u, n)[i]
    <3>. TAKE i \in 1 .. j
    <3>1. i \in 1 .. (Len(s) - 1) /\ i \in 1 .. (j + 1) /\ i + 1 \in 1 .. (j + 1)
      BY <1>0
    <3>. QED
      BY <1>1, <1>2, <2>1, <2>3, <3>1
  <2>5. a = Cut(u, n)
    BY <1>2, <2>3, <2>4, SeqEqual
  <2>. QED
    BY <1>4, <2>5 DEF a, u, t
<1>. QED
  BY <1>3, <1>4

\* A message counts in its queue.
LEMMA ReliablesAppend ==
    ASSUME NEW s \in Seq(Messages), NEW m \in Messages
    PROVE  Reliables(Append(s, m)) = Reliables(s) + ReliableCount[m]
<1>1. ReliableCount \in [Messages -> Nat]
  BY MessageWeights
<1>. QED
  BY <1>1, SeqTotalAppend DEF Reliables

\* The queue without its n-th message counts that message less.
LEMMA ReliablesCut ==
    ASSUME NEW s \in Seq(Messages), NEW n \in 1 .. Len(s)
    PROVE  Reliables(s) = Reliables(Cut(s, n)) + ReliableCount[s[n]]
<1>1. ReliableCount \in [Messages -> Nat]
  BY MessageWeights
<1>2. n \in DOMAIN s
  OBVIOUS
<1>. QED
  BY <1>1, <1>2, SeqTotalRemoveAt DEF Reliables, Cut

\* A prefix of an extended queue.
LEMMA PrefixAppend ==
    ASSUME NEW s \in Seq(Messages), NEW m \in Messages
    PROVE  /\ Append(s, m) \in Seq(Messages) /\ DOMAIN Append(s, m) = 1 .. (Len(s) + 1)
           /\ Append(s, m)[Len(s) + 1] = m
           /\ \A n \in 1 .. Len(s) : /\ Append(s, m)[n] = s[n]
                                     /\ ReliableAmong(Append(s, m), n) = ReliableAmong(s, n)
           /\ ReliableAmong(Append(s, m), Len(s) + 1) = Reliables(Append(s, m))
<1>. DEFINE t == Append(s, m)
<1>1. /\ t \in Seq(Messages) /\ Len(t) = Len(s) + 1 /\ t[Len(s) + 1] = m
      /\ \A n \in 1 .. Len(s) : t[n] = s[n]
      /\ Len(s) \in Nat /\ DOMAIN t = 1 .. (Len(s) + 1)
  OBVIOUS
<1>. HIDE DEF t
<1>3. ASSUME NEW n \in 1 .. Len(s) PROVE SubSeq(t, 1, n) = SubSeq(s, 1, n)
  <2>. DEFINE a == SubSeq(t, 1, n)  b == SubSeq(s, 1, n)
  <2>1. a \in Seq(Messages) /\ b \in Seq(Messages) /\ Len(a) = n /\ Len(b) = n
    BY <1>1
  <2>2. \A i \in 1 .. n : a[i] = b[i]
    BY <1>1
  <2>. HIDE DEF a, b
  <2>3. a = b
    BY <2>1, <2>2, SeqEqual
  <2>. QED
    BY <2>3 DEF a, b
<1>4. SubSeq(t, 1, Len(s) + 1) = t
  BY <1>1, SubSeqFull
<1>. QED
  BY <1>1, <1>3, <1>4 DEF t, Reliables, ReliableAmong

\* A prefix of a queue that lost its n-th message.
LEMMA PrefixRemove ==
    ASSUME NEW s \in Seq(Messages), NEW n \in 1 .. Len(s), NEW j \in 1 .. (Len(s) - 1)
    PROVE  IF j < n
           THEN Cut(s, n)[j] = s[j] /\ ReliableAmong(Cut(s, n), j) = ReliableAmong(s, j)
           ELSE /\ Cut(s, n)[j] = s[j + 1]
                /\ ReliableAmong(s, j + 1) = ReliableAmong(Cut(s, n), j) + ReliableCount[s[n]]
<1>1. Cut(s, n)[j] = IF j < n THEN s[j] ELSE s[j + 1]
  BY CutType
<1>2. SubSeq(Cut(s, n), 1, j) = IF j < n THEN SubSeq(s, 1, j) ELSE Cut(SubSeq(s, 1, j + 1), n)
  BY CutPrefix
<1>3. CASE j < n
  BY <1>1, <1>2, <1>3, Zenon DEF ReliableAmong
<1>4. CASE ~(j < n)
  <2>. DEFINE u == SubSeq(s, 1, j + 1)
  <2>1. u \in Seq(Messages) /\ Len(u) = j + 1 /\ n \in 1 .. Len(u) /\ u[n] = s[n]
    BY <1>4
  <2>. HIDE DEF u
  <2>2. Reliables(u) = Reliables(Cut(u, n)) + ReliableCount[u[n]]
    BY <2>1, ReliablesCut
  <2>. QED
    BY <1>1, <1>2, <1>4, <2>1, <2>2, Zenon DEF ReliableAmong, Reliables, u
<1>. QED
  BY <1>3, <1>4

\* The first prefix holds the first message.
LEMMA FirstPrefix ==
    ASSUME NEW s \in Seq(Messages), 1 \in 1 .. Len(s)
    PROVE  ReliableAmong(s, 1) = ReliableCount[s[1]]
<1>1. ReliableCount \in [Messages -> Nat]
  BY MessageWeights
<1>2. SubSeq(s, 1, 1) = <<s[1]>> /\ s[1] \in Messages
  <2>. DEFINE a == SubSeq(s, 1, 1)  b == <<s[1]>>
  <2>1. a \in Seq(Messages) /\ Len(a) = 1 /\ a[1] = s[1] /\ s[1] \in Messages
    OBVIOUS
  <2>2. b \in Seq(Messages) /\ Len(b) = 1 /\ b[1] = s[1]
    BY <2>1
  <2>. HIDE DEF a, b
  <2>3. a = b
    BY <2>1, <2>2, SeqEqual
  <2>. QED
    BY <2>1, <2>3 DEF a, b
<1>3. SeqTotal(ReliableCount, <<s[1]>>) = ReliableCount[s[1]]
  BY <1>1, <1>2, SeqTotalSingle
<1>. QED
  BY <1>2, <1>3, Zenon DEF ReliableAmong

\* A message put at the end of a queue carries the next number if it is reliable.
LEMMA OrderAppend ==
    ASSUME NEW s \in Seq(Messages), NEW m \in Messages,
           NEW h \in 0 .. (Window - 1), NEW a \in 0 .. (Window - 1), InOrder(s, h, a),
           IsReliable(m) => m.number = (a + 1) % Window
    PROVE  InOrder(Append(s, m), h, IF IsReliable(m) THEN (a + 1) % Window ELSE a)
<1>. DEFINE t == Append(s, m)  R == Reliables(s)  b == IF IsReliable(m) THEN (a + 1) % Window ELSE a
            w == ReliableCount[m]
<1>0. /\ Window \in Nat \ {0} /\ h \in Nat /\ R \in Nat /\ Len(s) \in Nat
      /\ w = IF IsReliable(m) THEN 1 ELSE 0
  BY CapacityAssumption, ReliablesType, MessageWeights
<1>1. /\ t \in Seq(Messages) /\ DOMAIN t = 1 .. (Len(s) + 1) /\ t[Len(s) + 1] = m
      /\ \A n \in 1 .. Len(s) : t[n] = s[n] /\ ReliableAmong(t, n) = ReliableAmong(s, n)
      /\ ReliableAmong(t, Len(s) + 1) = R + w /\ Reliables(t) = R + w
  BY PrefixAppend, ReliablesAppend
<1>2. /\ a = (h + R) % Window
      /\ \A n \in 1 .. Len(s) : IsReliable(s[n]) => s[n].number = (h + ReliableAmong(s, n)) % Window
  <2>1. DOMAIN s = 1 .. Len(s)
    OBVIOUS
  <2>. QED
    BY <2>1 DEF InOrder, Reliables
<1>. HIDE DEF t, R, w
<1>3. b = (h + (R + w)) % Window
  <2>1. CASE IsReliable(m)
    <3>1. h + R \in Nat /\ 1 \in Nat
      BY <1>0
    <3>2. (((h + R) % Window) + 1) % Window = ((h + R) + 1) % Window
      BY <1>0, <3>1, ModPlus
    <3>3. (h + R) + 1 = h + (R + w)
      BY <1>0, <2>1
    <3>. QED
      BY <1>2, <2>1, <3>2, <3>3, Zenon
  <2>2. CASE ~IsReliable(m)
    <3>1. h + R = h + (R + w)
      BY <1>0, <2>2
    <3>. QED
      BY <1>2, <2>2, <3>1, Zenon
  <2>. QED
    BY <2>1, <2>2
<1>4. ASSUME NEW n \in DOMAIN t, IsReliable(t[n])
      PROVE  t[n].number = (h + ReliableAmong(t, n)) % Window
  <2>1. CASE n \in 1 .. Len(s)
    BY <1>1, <1>2, <1>4, <2>1, Zenon
  <2>2. CASE n = Len(s) + 1
    <3>1. IsReliable(m) /\ m.number = b
      BY <1>1, <1>4, <2>2
    <3>. QED
      BY <1>1, <1>3, <2>2, <3>1, Zenon
  <2>. QED
    BY <1>0, <1>1, <2>1, <2>2
<1>. HIDE DEF b
<1>5. InOrder(t, h, b)
  <2>1. b = (h + Reliables(t)) % Window
    BY <1>1, <1>3, Zenon
  <2>. QED
    BY <1>4, <2>1, Zenon DEF InOrder, Reliables
<1>. QED
  BY <1>5 DEF t, b

\* Taking an unreliable message out leaves the order of the reliable ones.
LEMMA OrderRemove ==
    ASSUME NEW s \in Seq(Messages), NEW n \in 1 .. Len(s), ~IsReliable(s[n]),
           NEW h \in 0 .. (Window - 1), NEW a, InOrder(s, h, a)
    PROVE  InOrder(Cut(s, n), h, a)
<1>. DEFINE t == Cut(s, n)
<1>0. Len(s) \in Nat /\ DOMAIN s = 1 .. Len(s) /\ s[n] \in Messages
  OBVIOUS
<1>1. t \in Seq(Messages) /\ DOMAIN t = 1 .. (Len(s) - 1)
  BY CutType
<1>2. ReliableCount[s[n]] = 0
  BY <1>0, MessageWeights
<1>3. Reliables(t) = Reliables(s)
  <2>1. Reliables(s) = Reliables(t) + ReliableCount[s[n]]
    BY ReliablesCut
  <2>2. Reliables(t) \in Nat
    BY <1>1, ReliablesType
  <2>. QED
    BY <1>2, <2>1, <2>2
<1>4. \A j \in DOMAIN s : IsReliable(s[j]) => s[j].number = (h + ReliableAmong(s, j)) % Window
  BY DEF InOrder
<1>5. ASSUME NEW j \in DOMAIN t, IsReliable(t[j])
      PROVE  t[j].number = (h + ReliableAmong(t, j)) % Window
  <2>0. j \in 1 .. (Len(s) - 1) /\ j \in DOMAIN s /\ j + 1 \in DOMAIN s
    BY <1>0, <1>1
  <2>1. IF j < n
        THEN t[j] = s[j] /\ ReliableAmong(t, j) = ReliableAmong(s, j)
        ELSE t[j] = s[j + 1] /\ ReliableAmong(s, j + 1) = ReliableAmong(t, j) + ReliableCount[s[n]]
    BY <2>0, PrefixRemove
  <2>2. ReliableAmong(t, j) \in Nat
    BY <1>1, ReliablesType
  <2>. HIDE DEF t
  <2>3. CASE j < n
    BY <1>4, <1>5, <2>0, <2>1, <2>3, Zenon
  <2>4. CASE ~(j < n)
    <3>1. t[j] = s[j + 1] /\ ReliableAmong(s, j + 1) = ReliableAmong(t, j)
      BY <1>2, <2>1, <2>2, <2>4
    <3>. QED
      BY <1>4, <1>5, <2>0, <3>1, Zenon
  <2>. QED
    BY <2>3, <2>4
<1>6. a = (h + Reliables(t)) % Window
  BY <1>3, Zenon DEF InOrder, Reliables
<1>. HIDE DEF t
<1>7. InOrder(t, h, a)
  BY <1>5, <1>6, Zenon DEF InOrder, Reliables
<1>. QED
  BY <1>7 DEF t

\* The front of a queue, if it is reliable, carries the number after the last one
\* handed over: handing it over keeps the order.
LEMMA OrderPop ==
    ASSUME NEW s \in Seq(Messages), 1 \in 1 .. Len(s), IsReliable(s[1]),
           NEW h \in 0 .. (Window - 1), NEW a, InOrder(s, h, a)
    PROVE  s[1].number \in 0 .. (Window - 1) /\ InOrder(Cut(s, 1), s[1].number, a)
<1>. DEFINE t == Cut(s, 1)  g == s[1].number
<1>0. /\ Len(s) \in Nat /\ DOMAIN s = 1 .. Len(s) /\ s[1] \in Messages
      /\ Window \in Nat \ {0} /\ h \in Nat
  BY CapacityAssumption
<1>1. t \in Seq(Messages) /\ DOMAIN t = 1 .. (Len(s) - 1)
  BY CutType
<1>2. ReliableCount[s[1]] = 1
  BY <1>0, MessageWeights
<1>3. Reliables(s) = Reliables(t) + 1
  <2>1. Reliables(s) = Reliables(t) + ReliableCount[s[1]]
    BY ReliablesCut
  <2>. QED
    BY <1>2, <2>1, Zenon
<1>4. \A j \in DOMAIN s : IsReliable(s[j]) => s[j].number = (h + ReliableAmong(s, j)) % Window
  BY DEF InOrder
<1>5. g = (h + 1) % Window
  <2>1. ReliableAmong(s, 1) = 1
    BY <1>2, FirstPrefix
  <2>. QED
    BY <1>0, <1>4, <2>1, Zenon
<1>6. \A x \in Nat : (h + (x + 1)) % Window = (g + x) % Window
  <2>. TAKE x \in Nat
  <2>1. h + 1 \in Nat
    BY <1>0
  <2>2. (((h + 1) % Window) + x) % Window = ((h + 1) + x) % Window
    BY <1>0, <2>1, ModPlus
  <2>3. (h + 1) + x = h + (x + 1)
    BY <1>0
  <2>. QED
    BY <1>5, <2>2, <2>3, Zenon
<1>. HIDE DEF g
<1>7. ASSUME NEW j \in DOMAIN t, IsReliable(t[j])
      PROVE  t[j].number = (g + ReliableAmong(t, j)) % Window
  <2>0. j \in 1 .. (Len(s) - 1) /\ j + 1 \in DOMAIN s /\ ~(j < 1)
    BY <1>0, <1>1
  <2>1. t[j] = s[j + 1] /\ ReliableAmong(s, j + 1) = ReliableAmong(t, j) + ReliableCount[s[1]]
    BY <2>0, PrefixRemove
  <2>2. ReliableAmong(t, j) \in Nat
    BY <1>1, ReliablesType
  <2>. HIDE DEF t
  <2>3. s[j + 1].number = (h + (ReliableAmong(t, j) + 1)) % Window
    BY <1>2, <1>4, <1>7, <2>0, <2>1, Zenon
  <2>. QED
    BY <1>6, <2>1, <2>2, <2>3, Zenon
<1>8. a = (g + Reliables(t)) % Window
  <2>1. a = (h + (Reliables(t) + 1)) % Window
    BY <1>3, Zenon DEF InOrder, Reliables
  <2>2. Reliables(t) \in Nat
    BY <1>1, ReliablesType
  <2>. QED
    BY <1>6, <2>1, <2>2, Zenon
<1>. HIDE DEF t
<1>9. InOrder(t, g, a)
  BY <1>7, <1>8, Zenon DEF InOrder, Reliables
<1>10. g \in 0 .. (Window - 1)
  <2>1. h + 1 \in Nat
    BY <1>0
  <2>. QED
    BY <1>0, <1>5, <2>1, ModDef
<1>. QED
  BY <1>9, <1>10 DEF t, g

-----------------------------------------------------------------------------
(* Reliable work is handed over completely and in order.                   *)

\* The reliable numbers of a connection, class by class.
QueuesInOrder(q, t) == \A k \in Classes : InOrder(q.queues[k], t.handed[k], t.accepted[k])

\* Empty queues of a fresh registration.
LEMMA EmptyInOrder ==
    ASSUME NEW st, NEW l
    PROVE  QueuesInOrder(NewQueue(st, l), NewTrace)
<1>1. SeqTotal(ReliableCount, <<>>) = 0 /\ 0 % Window = 0
  BY SeqTotalEmpty, CapacityAssumption
<1>2. InOrder(<<>>, 0, 0)
  BY <1>1 DEF InOrder
<1>. QED
  BY <1>2 DEF QueuesInOrder, NewQueue, EmptyQueues, NewTrace

\* Every step keeps the reliable messages of an active connection in order.
LEMMA ReliableStep ==
    ASSUME IndInv, KeysOK, ReliableConserved, [Next]_vars
    PROVE  ReliableConserved'
<1>1. /\ TypeOK /\ conns \in [Connections -> ConnectionQueues]
      /\ trace \in [Connections -> Traces]
      /\ \A c \in Connections :
            /\ conns[c] \in ConnectionQueues /\ trace[c] \in Traces /\ KeyedQueues(conns[c])
            /\ Active(c) => QueuesInOrder(conns[c], trace[c])
  BY DEF IndInv, TypeOK, KeysOK, ReliableConserved, QueuesInOrder
<1>2. ASSUME \A c \in Connections :
               conns'[c].status = "active" => QueuesInOrder(conns'[c], trace'[c])
      PROVE  ReliableConserved'
  BY <1>2 DEF ReliableConserved, QueuesInOrder, Active
<1>3. ASSUME NEW c \in Connections, NEW nq, conns' = [conns EXCEPT ![c] = nq],
             NEW nt, trace' = [trace EXCEPT ![c] = nt],
             nq.status = "active" => QueuesInOrder(nq, nt)
      PROVE  ReliableConserved'
  BY <1>1, <1>2, <1>3 DEF Active
<1>4. ASSUME NEW c \in Connections, NEW nq, conns' = [conns EXCEPT ![c] = nq],
             UNCHANGED trace,
             nq.status = "active" => QueuesInOrder(nq, trace[c])
      PROVE  ReliableConserved'
  BY <1>1, <1>2, <1>4 DEF Active
<1>5. ASSUME UNCHANGED conns,
             \A c \in Connections : /\ trace'[c].handed = trace[c].handed
                                    /\ trace'[c].accepted = trace[c].accepted
      PROVE  ReliableConserved'
  BY <1>5 DEF ReliableConserved, Active
<1>6. ASSUME NEW c \in Connections, NEW l \in NetworkLimits, RegisterConnection(c, l)
      PROVE  ReliableConserved'
  BY <1>3, <1>6, EmptyInOrder DEF RegisterConnection
<1>7. ASSUME NEW c \in Connections, CancelConnection(c)
      PROVE  ReliableConserved'
  <2>. DEFINE nq == NewQueue("absent", conns[c].limits)
  <2>1. /\ conns' = [conns EXCEPT ![c] = nq] /\ trace' = [trace EXCEPT ![c] = NewTrace]
        /\ nq.status # "active"
    BY <1>7 DEF CancelConnection, Cleared, NewQueue
  <2>. HIDE DEF nq
  <2>. QED
    BY <1>3, <2>1
<1>8. ASSUME NEW c \in Connections, NEW i \in Intents, SubmitExhausted(c, i)
      PROVE  ReliableConserved'
  BY <1>4, <1>8 DEF SubmitExhausted, Cleared, NewQueue
<1>9. ASSUME NEW c \in Connections, NEW i \in Intents, SubmitReliable(c, i) \/ SubmitUnreliable(c, i)
      PROVE  ReliableConserved'
  <2>. DEFINE q == conns[c]  m == Numbered(c, i)  nq == Queue(q, m)  t == trace[c]
              k == m.class  a == t.accepted[k]  h == t.handed[k]
              na == IF IsReliable(m) THEN (a + 1) % Window ELSE a
              nt == IF IsReliable(m) THEN [t EXCEPT !.accepted[k] = na] ELSE t
  <2>1. q \in ConnectionQueues /\ t \in Traces
    BY <1>1
  <2>2. /\ m \in Messages /\ k = i.class
        /\ IsReliable(m) <=> IsReliable(i)
        /\ IsReliable(m) => m.number = (a + 1) % Window
    BY <1>1, NumberedKeyed DEF Numbered
  <2>3. conns' = [conns EXCEPT ![c] = nq] /\ QueuesInOrder(q, t)
    BY <1>1, <1>9 DEF SubmitReliable, SubmitUnreliable, Submittable
  <2>4. trace' = [trace EXCEPT ![c] = nt]
    <3>1. CASE SubmitReliable(c, i)
      <4>1. trace' = [trace EXCEPT ![c].accepted[i.class] = (@ + 1) % Window] /\ IsReliable(m)
        BY <2>2, <3>1 DEF SubmitReliable
      <4>. QED
        BY <2>2, <4>1
    <3>2. CASE SubmitUnreliable(c, i)
      <4>1. trace' = trace /\ ~IsReliable(m)
        BY <2>2, <3>2 DEF SubmitUnreliable
      <4>2. nt = trace[c]
        BY <4>1
      <4>. QED
        BY <1>1, <4>1, <4>2
    <3>. QED
      BY <1>9, <3>1, <3>2
  <2>. HIDE DEF q, m, t
  <2>5. /\ k \in Classes /\ nq.queues[k] = Append(q.queues[k], m)
        /\ \A j \in Classes : j # k => nq.queues[j] = q.queues[j]
    BY <2>1, <2>2, QueueQueues
  <2>6. /\ q.queues[k] \in Seq(Messages) /\ h \in 0 .. (Window - 1) /\ a \in 0 .. (Window - 1)
        /\ InOrder(q.queues[k], h, a)
    <3>1. q.queues[k] \in Seq(Messages)
      BY <2>1, <2>5 DEF ConnectionQueues
    <3>2. h \in 0 .. (Window - 1) /\ a \in 0 .. (Window - 1)
      BY <2>1, <2>5 DEF Traces
    <3>. QED
      BY <2>3, <2>5, <3>1, <3>2, Zenon DEF QueuesInOrder
  <2>7. InOrder(nq.queues[k], h, na)
    <3>1. InOrder(Append(q.queues[k], m), h, IF IsReliable(m) THEN (a + 1) % Window ELSE a)
      BY <2>2, <2>6, OrderAppend
    <3>. QED
      BY <2>5, <3>1, Zenon
  <2>8. /\ nt.handed = t.handed /\ nt.accepted[k] = na
        /\ \A j \in Classes : j # k => nt.accepted[j] = t.accepted[j]
    <3>1. t.accepted \in [Classes -> 0 .. (Window - 1)]
      BY <2>1 DEF Traces
    <3>. HIDE DEF k
    <3>2. CASE IsReliable(m)
      <4>1. nt = [t EXCEPT !.accepted = [t.accepted EXCEPT ![k] = na]]
        BY <3>2
      <4>2. nt.handed = t.handed /\ nt.accepted = [t.accepted EXCEPT ![k] = na]
        BY <2>1, <4>1 DEF Traces
      <4>. QED
        BY <2>5, <3>1, <4>2
    <3>3. CASE ~IsReliable(m)
      BY <3>3
    <3>. QED
      BY <3>2, <3>3
  <2>. HIDE DEF nt, na, h, a, nq, k
  <2>9. QueuesInOrder(nq, nt)
    <3>. SUFFICES ASSUME NEW j \in Classes
                  PROVE  InOrder(nq.queues[j], nt.handed[j], nt.accepted[j])
      BY DEF QueuesInOrder
    <3>1. CASE j = k
      BY <2>7, <2>8, <3>1, Zenon DEF h
    <3>2. CASE j # k
      BY <2>3, <2>5, <2>8, <3>2, Zenon DEF QueuesInOrder
    <3>. QED
      BY <3>1, <3>2
  <2>. QED
    BY <1>3, <2>3, <2>4, <2>9
<1>10. ASSUME NEW c \in Connections, NEW i \in Intents, SubmitSuperseding(c, i)
       PROVE  ReliableConserved'
  <2>. DEFINE q == conns[c]  m == Numbered(c, i)  t == trace[c]
  <2>1. q \in ConnectionQueues /\ t \in Traces /\ KeyedQueues(q)
    BY <1>1
  <2>2. i.delivery = "sequenced" /\ UNCHANGED trace /\ QueuesInOrder(q, t)
    BY <1>1, <1>10 DEF SubmitSuperseding, Submittable
  <2>3. m \in Messages /\ ~IsReliable(m)
    BY <1>1, <2>2, NumberedKeyed DEF IsReliable
  <2>4. PICK p \in SameKey(q, i) : conns' = [conns EXCEPT ![c] = Queue(Without(q, p[1], p[2]), m)]
    BY <1>10 DEF SubmitSuperseding
  <2>. HIDE DEF q, m, t
  <2>0. /\ p[1] \in Classes /\ p[2] \in 1 .. Len(q.queues[p[1]])
        /\ ~IsReliable(q.queues[p[1]][p[2]])
    BY <2>1, <2>2, SameKeyHeld
  <2>5. PICK k \in Classes : \E n \in 1 .. Len(q.queues[k]) :
          k = p[1] /\ n = p[2] /\ ~IsReliable(q.queues[k][n])
    BY <2>0
  <2>12. PICK n \in 1 .. Len(q.queues[k]) : k = p[1] /\ n = p[2] /\ ~IsReliable(q.queues[k][n])
    BY <2>5
  <2>. DEFINE r == Without(q, k, n)  nq == Queue(r, m)
  <2>6. /\ r \in ConnectionQueues /\ q.queues[k] \in Seq(Messages)
        /\ r.queues[k] = Cut(q.queues[k], n)
        /\ \A j \in Classes : j # k => r.queues[j] = q.queues[j]
    BY <2>1, WithoutQueues DEF Cut
  <2>7. \A j \in Classes : t.handed[j] \in 0 .. (Window - 1) /\ t.accepted[j] \in 0 .. (Window - 1)
    BY <2>1 DEF Traces
  <2>. HIDE DEF r
  <2>8. QueuesInOrder(r, t)
    <3>. SUFFICES ASSUME NEW j \in Classes
                  PROVE  InOrder(r.queues[j], t.handed[j], t.accepted[j])
      BY DEF QueuesInOrder
    <3>0. InOrder(q.queues[j], t.handed[j], t.accepted[j])
      BY <2>2 DEF QueuesInOrder
    <3>1. CASE j = k
      <4>1. InOrder(Cut(q.queues[k], n), t.handed[k], t.accepted[k])
        BY <2>12, <2>6, <2>7, <3>0, <3>1, OrderRemove
      <4>. QED
        BY <2>6, <3>1, <4>1
    <3>2. CASE j # k
      BY <2>6, <3>0, <3>2
    <3>. QED
      BY <3>1, <3>2
  <2>9. /\ m.class \in Classes /\ nq.queues[m.class] = Append(r.queues[m.class], m)
        /\ \A j \in Classes : j # m.class => nq.queues[j] = r.queues[j]
    BY <2>3, <2>6, QueueQueues
  <2>10. \A j \in Classes : r.queues[j] \in Seq(Messages)
    BY <2>6 DEF ConnectionQueues
  <2>. HIDE DEF nq
  <2>11. QueuesInOrder(nq, t)
    <3>. SUFFICES ASSUME NEW j \in Classes
                  PROVE  InOrder(nq.queues[j], t.handed[j], t.accepted[j])
      BY DEF QueuesInOrder
    <3>0. InOrder(r.queues[j], t.handed[j], t.accepted[j])
      BY <2>8 DEF QueuesInOrder
    <3>1. CASE j = m.class
      <4>. DEFINE s == r.queues[j]  h == t.handed[j]  a == t.accepted[j]
      <4>1. s \in Seq(Messages) /\ h \in 0 .. (Window - 1) /\ a \in 0 .. (Window - 1) /\ InOrder(s, h, a)
        BY <2>7, <2>10, <3>0
      <4>. HIDE DEF s, h, a
      <4>2. InOrder(Append(s, m), h, IF IsReliable(m) THEN (a + 1) % Window ELSE a)
        BY <2>3, <4>1, OrderAppend
      <4>3. InOrder(Append(s, m), h, a)
        BY <2>3, <4>2, Zenon
      <4>. QED
        BY <2>9, <3>1, <4>3 DEF s, h, a
    <3>2. CASE j # m.class
      BY <2>9, <3>0, <3>2
    <3>. QED
      BY <3>1, <3>2
  <2>. QED
    BY <1>4, <2>2, <2>4, <2>12, <2>11 DEF nq, r, q, t, m
<1>11. CASE FlushSend
  <2>1. PICK c \in Connections : c = flush.connection /\ conns[c].status = "active"
    BY <1>11, FlushType DEF FlushSend, Pending, Active
  <2>. DEFINE q == conns[c]  k == QueueIndex(q)  m == q.queues[k][1]  t == trace[c]
              r == Without(q, k, 1)  nq == Sent(q, k)  nt == TraceSend(t, q, k)
  <2>2. q \in ConnectionQueues /\ t \in Traces /\ KeyedQueues(q) /\ QueuesInOrder(q, t)
    BY <1>1, <2>1 DEF Active
  <2>3. k \in Classes /\ 1 \in 1 .. Len(q.queues[k])
    <3>1. q.statistics.messages = Count(q) /\ q.statistics.messages # 0
      BY <1>11, <2>1 DEF IndInv, CountExact, FlushSend, Pending
    <3>2. k \in Classes /\ q.queues[k] # <<>>
      BY <2>2, <3>1, CountedIsHeld, QueueIndexChoice
    <3>3. q.queues[k] \in Seq(Messages)
      BY <2>2, <3>2 DEF ConnectionQueues
    <3>. QED
      BY <3>2, <3>3
  <2>4. conns' = [conns EXCEPT ![c] = nq] /\ trace' = [trace EXCEPT ![c] = nt]
    BY <1>11, <2>1 DEF FlushSend
  <2>. HIDE DEF q, k, t
  <2>5. /\ r \in ConnectionQueues /\ q.queues[k] \in Seq(Messages)
        /\ r.queues[k] = Cut(q.queues[k], 1)
        /\ \A j \in Classes : j # k => r.queues[j] = q.queues[j]
    BY <2>2, <2>3, WithoutQueues DEF Cut
  <2>. HIDE DEF r
  <2>6. nq.queues = r.queues
    <3>1. nq = [r EXCEPT !.consecutive = Run(r.consecutive, k)]
      BY DEF Sent, r
    <3>. QED
      BY <2>5, <3>1 DEF ConnectionQueues
  <2>7. /\ nt.accepted = t.accepted
        /\ nt.handed = IF IsReliable(m) THEN [t.handed EXCEPT ![k] = m.number] ELSE t.handed
    BY <2>2 DEF TraceSend, Traces
  <2>. HIDE DEF nq, nt
  <2>8. /\ t.handed \in [Classes -> 0 .. (Window - 1)]
        /\ \A j \in Classes : t.handed[j] \in 0 .. (Window - 1) /\ t.accepted[j] \in 0 .. (Window - 1)
    BY <2>2 DEF Traces
  <2>9. QueuesInOrder(nq, nt)
    <3>. SUFFICES ASSUME NEW j \in Classes
                  PROVE  InOrder(nq.queues[j], nt.handed[j], nt.accepted[j])
      BY DEF QueuesInOrder
    <3>0. InOrder(q.queues[j], t.handed[j], t.accepted[j])
      BY <2>2 DEF QueuesInOrder
    <3>1. CASE j = k /\ IsReliable(m)
      <4>1. InOrder(Cut(q.queues[k], 1), m.number, t.accepted[k])
        BY <2>3, <2>5, <2>8, <3>0, <3>1, OrderPop
      <4>2. nt.handed[k] = m.number
        BY <2>3, <2>7, <2>8, <3>1
      <4>. QED
        BY <2>5, <2>6, <2>7, <3>1, <4>1, <4>2
    <3>2. CASE j = k /\ ~IsReliable(m)
      <4>1. InOrder(Cut(q.queues[k], 1), t.handed[k], t.accepted[k])
        BY <2>3, <2>5, <2>8, <3>0, <3>2, OrderRemove
      <4>. QED
        BY <2>5, <2>6, <2>7, <3>2, <4>1
    <3>3. CASE j # k
      <4>1. nt.handed[j] = t.handed[j]
        BY <2>7, <2>8, <3>3
      <4>. QED
        BY <2>5, <2>6, <2>7, <3>0, <3>3, <4>1
    <3>. QED
      BY <3>1, <3>2, <3>3
  <2>. QED
    BY <1>3, <2>4, <2>9
<1>12. CASE FlushFailed
  <2>1. PICK c \in Connections : c = flush.connection
    BY <1>12, FlushType DEF FlushFailed, Pending
  <2>. DEFINE nq == NewQueue("closed", conns[c].limits)  nt == [trace[c] EXCEPT !.cut = TRUE]
  <2>2. conns' = [conns EXCEPT ![c] = nq] /\ trace' = [trace EXCEPT ![c] = nt]
    BY <1>12, <2>1 DEF FlushFailed, CloseFlush, Cleared
  <2>3. nq.status # "active"
    BY DEF NewQueue
  <2>. HIDE DEF nq, nt
  <2>. QED
    BY <1>3, <2>2, <2>3
<1>13. CASE FlushBudgetLimited \/ FlushBackpressured \/ FlushDrained
  <2>1. PICK c \in Connections : \E drained \in BOOLEAN :
          UNCHANGED conns /\ trace' = [trace EXCEPT ![c].cut = ~drained]
    BY <1>13, FlushType DEF FlushBudgetLimited, FlushBackpressured, FlushDrained, CloseFlush, Pending
  <2>2. \A d \in Connections : /\ trace'[d].handed = trace[d].handed
                               /\ trace'[d].accepted = trace[d].accepted
    BY <1>1, <2>1 DEF Traces
  <2>. QED
    BY <1>5, <2>1, <2>2
<1>14. CASE BeginStep
  <2>1. \A d \in Connections : /\ trace'[d].handed = trace[d].handed
                               /\ trace'[d].accepted = trace[d].accepted
    BY <1>1, <1>14 DEF BeginStep, Traces
  <2>. QED
    BY <1>5, <1>14, <2>1 DEF BeginStep
<1>15. CASE UNCHANGED <<conns, trace>>
  BY <1>5, <1>15
<1>. QED
  BY <1>6, <1>7, <1>8, <1>9, <1>10, <1>11, <1>12, <1>13, <1>14, <1>15
     DEF Next, Submit, Flush, EndStep, OpenFlush, RefuseFlush, vars

\* Reliable work accepted on an active connection is, class by class, exactly what
\* was handed to the transport followed by what is queued, in order: nothing is
\* lost, duplicated or overtaken.
THEOREM ReliableHolds == Spec => []ReliableConserved
<1>1. Init => KeysOK /\ ReliableConserved
  <2>. SUFFICES ASSUME Init PROVE KeysOK /\ ReliableConserved
    OBVIOUS
  <2>1. KeysOK
    BY DEF Init, KeysOK, KeyedQueues, NewQueue, EmptyQueues
  <2>2. \A c \in Connections : ~Active(c)
    BY DEF Init, Active, NewQueue
  <2>. QED
    BY <2>1, <2>2 DEF ReliableConserved
<1>2. Init => AccountsExact
  BY InitAccounts
<1>3. IndInv /\ AccountsExact /\ KeysOK /\ ReliableConserved /\ [Next]_vars
        => AccountsExact' /\ KeysOK' /\ ReliableConserved'
  BY AccountsStep, ReliableStep
<1>. QED
  BY <1>1, <1>2, <1>3, IndInvHolds, PTL DEF Spec

=============================================================================
