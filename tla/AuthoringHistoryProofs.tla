---------------------- MODULE AuthoringHistoryProofs ----------------------
(***************************************************************************)
(* Proofs about AuthoringHistory, for every number of objects, values,     *)
(* identities and changes, and for every limit that LimitAssumption        *)
(* admits.                                                                 *)
(*                                                                         *)
(*  1. The model's folds are those of FoldTheorems, so each of them obeys  *)
(*     the same few laws: bytes, charges, published records, replays, and  *)
(*     the walk along the aliases.                                         *)
(*  2. Retention keeps both limits and its byte account.                   *)
(*  3. The hierarchy stays a tree under every change, and each effect is   *)
(*     faithful: a copy that equals the hierarchy before its records       *)
(*     equals it after them.                                               *)
(*  4. A replay, its roll-back included, is a sequence of faithful effects *)
(*     on a tree, whatever the table of aliases makes of its identities.   *)
(*  5. IInv is inductive, with one lemma per action; mirror and clean sign *)
(*     are kept along with it by every step that is no failed replay.      *)
(*  6. Aliases rise: each leads from an identity to a younger one, so the  *)
(*     walk along them ends.                                               *)
(***************************************************************************)
EXTENDS AuthoringHistory, AggregateTheorems

\* One step of ResolveIdentity.
Follow(id, table) == IF id \in DOMAIN table THEN table[id] ELSE id

Weighing == INSTANCE FoldTheorems WITH Op <- AddChange
Totalling == INSTANCE FoldTheorems WITH Op <- AddEntry
Publishing == INSTANCE FoldTheorems WITH Op <- MirrorApply
Announcing == INSTANCE FoldTheorems WITH Op <- WithCreated
Burying == INSTANCE FoldTheorems WITH Op <- WithDestroyed
Remapping == INSTANCE FoldTheorems WITH Op <- Remap
Replaying == INSTANCE FoldTheorems WITH Op <- ReplayStep
Following == INSTANCE FoldTheorems WITH Op <- Follow
Storing == INSTANCE FoldTheorems WITH Op <- Store

\* The folds of the model are those of FoldTheorems.
LEMMA BytesFold ==
    ASSUME NEW s
    PROVE  Bytes(s) = Weighing!Fold(0, s)
BY Zenon DEF Bytes, FoldLeft, MapThenFoldSet, Max, Weighing!Fold, Weighing!Solves, Weighing!Largest

\* The bytes charged for a history, as a fold.
LEMMA ChargesFold ==
    ASSUME NEW s
    PROVE  TotalBytes(s) = Totalling!Fold(0, s)
BY Zenon DEF TotalBytes, FoldLeft, MapThenFoldSet, Max, Totalling!Fold, Totalling!Solves,
       Totalling!Largest

\* What a reader of the journal makes of some records, as a fold.
LEMMA PublishFold ==
    ASSUME NEW m, NEW s
    PROVE  Publish(m, s) = Publishing!Fold(m, s)
BY Zenon DEF Publish, FoldLeft, MapThenFoldSet, Max, Publishing!Fold, Publishing!Solves,
       Publishing!Largest

\* The records that announce a created subtree, as a fold.
LEMMA CreatedFold ==
    ASSUME NEW w, NEW s
    PROVE  CreatedRecords(w, s) =
             Announcing!Fold(<<>>, [i \in DOMAIN s |-> [object |-> s[i], value |-> w[s[i]].value,
                                                       parent |-> w[s[i]].parent]])
BY Zenon DEF CreatedRecords, FoldLeft, MapThenFoldSet, Max, Announcing!Fold, Announcing!Solves,
       Announcing!Largest

\* The records that bury a subtree, as a fold.
LEMMA DestroyedFold ==
    ASSUME NEW s
    PROVE  DestroyedRecords(s) = Burying!Fold(<<>>, s)
BY Zenon DEF DestroyedRecords, FoldLeft, MapThenFoldSet, Max, Burying!Fold, Burying!Solves,
       Burying!Largest

\* A replay of changes, as a fold.
LEMMA ReplayFold ==
    ASSUME NEW st, NEW s
    PROVE  Replay(st, s) = Replaying!Fold([st EXCEPT !.applied = <<>>], s)
BY Zenon DEF Replay, FoldLeft, MapThenFoldSet, Max, Replaying!Fold, Replaying!Solves,
       Replaying!Largest

\* A batch of writes put into the hierarchy, as a fold.
LEMMA StoredFold ==
    ASSUME NEW w, NEW s
    PROVE  Stored(w, s) = Storing!Fold(w, s)
BY Zenon DEF Stored, FoldLeft, MapThenFoldSet, Max, Storing!Fold, Storing!Solves,
       Storing!Largest

-----------------------------------------------------------------------------
(* The types of the state.                                                 *)

Node == [lineage : ObjectIds, value : Values, parent : Int]

\* A hierarchy of finitely many objects.
IsWorld(w) ==
    /\ w = [x \in DOMAIN w |-> w[x]]
    /\ DOMAIN w \subseteq Int /\ IsFiniteSet(DOMAIN w)
    /\ \A x \in DOMAIN w : w[x] \in Node

\* A tree: no set of objects is closed upwards without the root.
IsTree(w) ==
    /\ IsWorld(w) /\ Root \in DOMAIN w
    /\ \A x \in Objects(w) : w[x].parent \in DOMAIN w
    /\ \A S \in SUBSET DOMAIN w : S # {} /\ Upward(w, S) => Root \in S

\* The same of a captured subtree, whose first object is its root.
Rooted(objects, snapshot) ==
    /\ \A y \in Range(objects) : y # objects[1] => snapshot[y].parent \in Range(objects)
    /\ \A S \in SUBSET Range(objects) :
          S # {} /\ (\A y \in S : y # objects[1] => snapshot[y].parent \in S) => objects[1] \in S

Snapshots == UNION {[D -> Node] : D \in SUBSET Int}

Distinct(objects) ==
    \A i \in DOMAIN objects : \A j \in DOMAIN objects : objects[i] = objects[j] => i = j

PropertyChange == [kind : {"Property"}, object : Int, before : Values, after : Values]
ReparentChange == [kind : {"Reparent"}, object : Int, before : Int, after : Int]
SubtreeRecord ==
    [kind : {"Create", "Destroy", "Duplicate"}, root : Int, parent : Int,
     objects : Seq(Int), snapshot : Snapshots]

\* A captured subtree: its objects, each once, and what each one was.
SubtreeChange ==
    {c \in SubtreeRecord : /\ c.root # Root /\ c.objects # <<>> /\ Distinct(c.objects)
                           /\ Range(c.objects) \subseteq DOMAIN c.snapshot \ {Root}
                           /\ Rooted(c.objects, c.snapshot)}

Change == PropertyChange \cup ReparentChange \cup SubtreeChange

\* A property batch holds property changes only.
Entry ==
    {e \in [changes : Seq(Change), policy : {"Ordinary", "PreparedPropertyBatch"}] :
       e.policy = "PreparedPropertyBatch" => e.changes \in Seq(PropertyChange)}

\* What a saved project shows of an object.
Views == [lineage : ObjectIds, value : Values, parent : ObjectIds]

-----------------------------------------------------------------------------
(* What the history charges.                                               *)

\* A change is charged a natural.
LEMMA ChangeBytesType ==
    ASSUME NEW c \in Change
    PROVE  ChangeBytes(c) \in Nat
<1>1. CASE c \in PropertyChange \cup ReparentChange
  BY <1>1 DEF PropertyChange, ReparentChange, ChangeBytes, IsSubtreeChange
<1>2. CASE c \in SubtreeChange
  <2>1. c.objects \in Seq(Int)
    BY <1>2 DEF SubtreeChange, SubtreeRecord
  <2>2. Len(c.objects) \in Nat
    BY <2>1
  <2>. QED
    BY <2>2 DEF ChangeBytes
<1>. QED
  BY <1>1, <1>2 DEF Change

\* No change weighs nothing.
LEMMA BytesEmpty == Bytes(<<>>) = 0
BY BytesFold, Weighing!FoldEmpty

\* A change more adds its weight.
LEMMA BytesAppend ==
    ASSUME NEW s \in Seq(Change), NEW c \in Change
    PROVE  Bytes(Append(s, c)) = Bytes(s) + ChangeBytes(c)
<1>1. Weighing!Fold(0, Append(s, c)) = AddChange(Weighing!Fold(0, s), c)
  BY Weighing!FoldAppend
<1>. QED
  BY <1>1, BytesFold DEF AddChange

\* A weight is a number.
LEMMA BytesType ==
    ASSUME NEW s \in Seq(Change)
    PROVE  Bytes(s) \in Nat
<1>. DEFINE B == {t \in Seq(Change) : Bytes(t) \in Nat}
<1>1. <<>> \in B
  BY BytesEmpty
<1>2. \A t \in Seq(Change) : \A c \in Change : t \in B => Append(t, c) \in B
  BY BytesAppend, ChangeBytesType
<1>. HIDE DEF B
<1>3. Seq(Change) \subseteq B
  BY <1>1, <1>2, SequenceInduction
<1>. QED
  BY <1>3 DEF B

\* No entry is charged nothing.
LEMMA ChargesEmpty == TotalBytes(<<>>) = 0
BY ChargesFold, Totalling!FoldEmpty

\* An entry more adds its charge.
LEMMA ChargesAppend ==
    ASSUME NEW s \in Seq(Entry), NEW e \in Entry
    PROVE  TotalBytes(Append(s, e)) = TotalBytes(s) + Bytes(e.changes)
<1>1. Totalling!Fold(0, Append(s, e)) = AddEntry(Totalling!Fold(0, s), e)
  BY Totalling!FoldAppend
<1>. QED
  BY <1>1, ChargesFold DEF AddEntry

\* A charge is a number.
LEMMA ChargesType ==
    ASSUME NEW s \in Seq(Entry)
    PROVE  TotalBytes(s) \in Nat
<1>. DEFINE B == {t \in Seq(Entry) : TotalBytes(t) \in Nat}
<1>1. <<>> \in B
  BY ChargesEmpty
<1>2. ASSUME NEW t \in Seq(Entry), NEW e \in Entry, t \in B
      PROVE  Append(t, e) \in B
  <2>1. Bytes(e.changes) \in Nat
    BY BytesType DEF Entry
  <2>2. TotalBytes(Append(t, e)) = TotalBytes(t) + Bytes(e.changes)
    BY ChargesAppend
  <2>. QED
    BY <1>2, <2>1, <2>2
<1>. HIDE DEF B
<1>3. Seq(Entry) \subseteq B
  BY <1>1, <1>2, SequenceInduction
<1>. QED
  BY <1>3 DEF B

\* The charge of two histories is the sum of theirs.
LEMMA ChargesConcat ==
    ASSUME NEW s \in Seq(Entry), NEW t \in Seq(Entry)
    PROVE  TotalBytes(s \o t) = TotalBytes(s) + TotalBytes(t)
<1>. DEFINE B == {u \in Seq(Entry) : TotalBytes(s \o u) = TotalBytes(s) + TotalBytes(u)}
<1>1. <<>> \in B
  <2>1. s \o <<>> = s
    OBVIOUS
  <2>. QED
    BY <2>1, ChargesEmpty, ChargesType
<1>2. ASSUME NEW u \in Seq(Entry), NEW e \in Entry, u \in B
      PROVE  Append(u, e) \in B
  <2>. DEFINE w == s \o u
  <2>1. w \in Seq(Entry) /\ s \o Append(u, e) = Append(w, e) /\ Append(u, e) \in Seq(Entry)
    OBVIOUS
  <2>. HIDE DEF w
  <2>2. TotalBytes(Append(w, e)) = TotalBytes(w) + Bytes(e.changes)
    BY <2>1, ChargesAppend
  <2>3. TotalBytes(Append(u, e)) = TotalBytes(u) + Bytes(e.changes)
    BY ChargesAppend
  <2>4. TotalBytes(s) \in Nat /\ TotalBytes(u) \in Nat /\ Bytes(e.changes) \in Nat
    BY ChargesType, BytesType DEF Entry
  <2>5. TotalBytes(w) = TotalBytes(s) + TotalBytes(u)
    BY <1>2 DEF w
  <2>6. TotalBytes(s \o Append(u, e)) = TotalBytes(s) + TotalBytes(Append(u, e))
    BY <2>1, <2>2, <2>3, <2>4, <2>5
  <2>. QED
    BY <2>1, <2>6
<1>. HIDE DEF B
<1>3. Seq(Entry) \subseteq B
  BY <1>1, <1>2, SequenceInduction
<1>. QED
  BY <1>3 DEF B

\* A sequence of entries is charged what its two parts are.
LEMMA ChargesSplit ==
    ASSUME NEW s \in Seq(Entry), NEW k \in 0 .. Len(s)
    PROVE  /\ SubSeq(s, 1, k) \in Seq(Entry) /\ SubSeq(s, k + 1, Len(s)) \in Seq(Entry)
           /\ Len(SubSeq(s, 1, k)) = k /\ Len(SubSeq(s, k + 1, Len(s))) = Len(s) - k
           /\ TotalBytes(s) = TotalBytes(SubSeq(s, 1, k)) + TotalBytes(SubSeq(s, k + 1, Len(s)))
<1>1. k \in Nat /\ Len(s) \in Nat /\ k <= Len(s)
  OBVIOUS
<1>2. SubSeq(s, 1, k) \in Seq(Entry) /\ SubSeq(s, k + 1, Len(s)) \in Seq(Entry)
  BY <1>1
<1>3. Len(SubSeq(s, 1, k)) = k /\ Len(SubSeq(s, k + 1, Len(s))) = Len(s) - k
  BY <1>1
<1>4. SubSeq(s, 1, k) \o SubSeq(s, k + 1, Len(s)) = s
  <2>1. SubSeq(s, 1, k) \o SubSeq(s, k + 1, Len(s)) = SubSeq(s, 1, Len(s))
    <3>. DEFINE n == Len(s)
    <3>1. 1 \in 1 .. Len(s) + 1 /\ k \in 1 - 1 .. Len(s) /\ Len(s) \in k .. Len(s)
      BY <1>1
    <3>. QED
      BY <3>1, ConcatAdjacentSubSeq
  <2>. QED
    BY <2>1, SubSeqFull
<1>. QED
  BY <1>2, <1>3, <1>4, ChargesConcat

-----------------------------------------------------------------------------
(* Retention.                                                              *)

\* There is room for "need" bytes more once j entries have gone.
Fits(entries, bytes, need, j) ==
    \/ j = Len(entries)
    \/ /\ Len(entries) - j < RetainedTransactionLimit
       /\ need <= RetainedByteLimit - (bytes - TotalBytes(SubSeq(entries, 1, j)))

\* A set of naturals that is not empty has a least element.
LEMMA LeastExists ==
    ASSUME NEW S \in SUBSET Nat, S # {}
    PROVE  \E k \in S : \A j \in S : k <= j
<1>. SUFFICES ASSUME \A k \in S : \E j \in S : j < k
              PROVE  FALSE
  OBVIOUS
<1>. DEFINE B == {n \in Nat : \A j \in 0 .. n : j \notin S}
<1>1. 0 \in B
  OBVIOUS
<1>2. ASSUME NEW n \in Nat, n \in B
      PROVE  n + 1 \in B
  <2>1. n + 1 \notin S
    BY <1>2
  <2>. QED
    BY <1>2, <2>1
<1>. HIDE DEF B
<1>3. Nat \subseteq B
  BY <1>1, <1>2, NatSetInduction
<1>4. PICK x \in S : TRUE
  OBVIOUS
<1>5. x \in B /\ x \in 0 .. x
  BY <1>3, <1>4
<1>. QED
  BY <1>4, <1>5 DEF B

\* Retain pops the fewest entries that make room.
LEMMA EvictedFits ==
    ASSUME NEW entries \in Seq(Entry), NEW bytes, NEW need
    PROVE  /\ Evicted(entries, bytes, need) \in 0 .. Len(entries)
           /\ Fits(entries, bytes, need, Evicted(entries, bytes, need))
<1>. DEFINE S == {j \in 0 .. Len(entries) : Fits(entries, bytes, need, j)}
            Least(k) == /\ Fits(entries, bytes, need, k)
                        /\ \A j \in 0 .. (k - 1) : ~ Fits(entries, bytes, need, j)
<1>1. Len(entries) \in Nat
  OBVIOUS
<1>2. S \in SUBSET Nat /\ Len(entries) \in S
  BY <1>1 DEF Fits
<1>3. PICK k \in S : \A j \in S : k <= j
  BY <1>2, LeastExists
<1>4. \E i \in 0 .. Len(entries) : Least(i)
  <2>1. k \in 0 .. Len(entries) /\ Fits(entries, bytes, need, k)
    BY <1>3
  <2>2. \A j \in 0 .. (k - 1) : ~ Fits(entries, bytes, need, j)
    <3>. SUFFICES ASSUME NEW j \in 0 .. (k - 1), Fits(entries, bytes, need, j)
                  PROVE  FALSE
      OBVIOUS
    <3>1. j \in S
      BY <1>1, <2>1
    <3>. QED
      BY <1>3, <2>1, <3>1
  <2>. QED
    BY <2>1, <2>2
<1>5. Evicted(entries, bytes, need) = CHOOSE i \in 0 .. Len(entries) : Least(i)
  BY Zenon DEF Evicted, Fits
<1>6. /\ (CHOOSE i \in 0 .. Len(entries) : Least(i)) \in 0 .. Len(entries)
      /\ Least(CHOOSE i \in 0 .. Len(entries) : Least(i))
  BY <1>4, Zenon
<1>. QED
  BY <1>5, <1>6

\* The history a cursor stands in.
HistoryOK ==
    /\ history \in Seq(Entry)
    /\ cursor \in 0 .. Len(history)
    /\ marks \in Seq(SUBSET Views) /\ Len(marks) = Len(history) + 1
    /\ RetentionExact

\* Retention keeps both limits and the byte account, whatever the new entry
\* displaces.
LEMMA RetainKeeps ==
    ASSUME HistoryOK, NEW entry \in Entry, Bytes(entry.changes) <= RetainedByteLimit,
           NEW shape \in SUBSET Views, Retain(entry, shape)
    PROVE  HistoryOK'
<1>. DEFINE redo == SubSeq(history, cursor + 1, Len(history))
            kept == SubSeq(history, 1, cursor)
            bytes == retainedBytes - TotalBytes(redo)
            need == Bytes(entry.changes)
            k == Evicted(kept, bytes, need)
            first == SubSeq(kept, 1, k)
            rest == SubSeq(kept, k + 1, Len(kept))
<1>1. history' = Append(rest, entry) /\ cursor' = Len(Append(rest, entry))
      /\ retainedBytes' = bytes - TotalBytes(first) + need
  BY Zenon DEF Retain
<1>2. /\ kept \in Seq(Entry) /\ redo \in Seq(Entry) /\ Len(kept) = cursor
      /\ TotalBytes(history) = TotalBytes(kept) + TotalBytes(redo)
  <2>1. history \in Seq(Entry) /\ cursor \in 0 .. Len(history)
    BY DEF HistoryOK
  <2>. QED
    BY <2>1, ChargesSplit
<1>3. TotalBytes(kept) \in Nat /\ TotalBytes(redo) \in Nat /\ need \in Nat
  <2>1. entry.changes \in Seq(Change)
    BY DEF Entry
  <2>. QED
    BY <1>2, <2>1, ChargesType, BytesType
<1>4. bytes = TotalBytes(kept)
  BY <1>2, <1>3 DEF HistoryOK, RetentionExact
<1>. HIDE DEF redo, kept, bytes, need
<1>5. k \in 0 .. Len(kept) /\ Fits(kept, bytes, need, k)
  BY <1>2, EvictedFits
<1>. HIDE DEF k
<1>6. /\ first \in Seq(Entry) /\ rest \in Seq(Entry) /\ Len(rest) = Len(kept) - k
      /\ TotalBytes(kept) = TotalBytes(first) + TotalBytes(rest)
  BY <1>2, <1>5, ChargesSplit
<1>7. TotalBytes(first) \in Nat /\ TotalBytes(rest) \in Nat
  BY <1>6, ChargesType
<1>8. Fits(kept, bytes, need, k) <=> \/ k = Len(kept)
                                     \/ /\ Len(kept) - k < RetainedTransactionLimit
                                        /\ need <= RetainedByteLimit - (bytes - TotalBytes(first))
  BY DEF Fits
<1>. HIDE DEF first, rest
<1>9. TotalBytes(Append(rest, entry)) = TotalBytes(rest) + need
  BY <1>6, ChargesAppend DEF need
<1>10. /\ Append(rest, entry) \in Seq(Entry) /\ Len(Append(rest, entry)) = Len(rest) + 1
       /\ Len(rest) \in Nat /\ Len(kept) \in Nat
  <2>1. rest \in Seq(Entry) /\ kept \in Seq(Entry)
    BY <1>2, <1>6
  <2>2. Append(rest, entry) \in Seq(Entry) /\ Len(Append(rest, entry)) = Len(rest) + 1
    BY <2>1, AppendProperties
  <2>3. Len(rest) \in Nat /\ Len(kept) \in Nat
    BY <2>1, LenProperties
  <2>. QED
    BY <2>2, <2>3
<1>11. RetainedTransactionLimit \in Nat \ {0} /\ RetainedByteLimit \in Nat
  BY LimitAssumption
<1>12. TotalBytes(rest) + need <= RetainedByteLimit /\ Len(rest) + 1 <= RetainedTransactionLimit
  <2>1. CASE k = Len(kept)
    <3>1. Len(rest) = 0
      BY <1>6, <1>10, <2>1
    <3>2. rest = <<>>
      BY <1>6, <3>1, EmptySeq
    <3>3. TotalBytes(rest) = 0 /\ need <= RetainedByteLimit
      BY <3>2, ChargesEmpty DEF need
    <3>. QED
      BY <1>3, <1>11, <3>1, <3>3
  <2>2. CASE /\ Len(kept) - k < RetainedTransactionLimit
             /\ need <= RetainedByteLimit - (bytes - TotalBytes(first))
    <3>1. bytes - TotalBytes(first) = TotalBytes(rest)
      BY <1>4, <1>6, <1>7
    <3>. QED
      BY <1>3, <1>6, <1>7, <1>10, <1>11, <2>2, <3>1
  <2>. QED
    BY <1>5, <1>8, <2>1, <2>2
<1>13. bytes - TotalBytes(first) + need = TotalBytes(rest) + need
  BY <1>3, <1>4, <1>6, <1>7
<1>. QED
  <2>1. history' \in Seq(Entry) /\ cursor' \in 0 .. Len(history')
    BY <1>1, <1>10
  <2>2. retainedBytes' = TotalBytes(history')
    BY <1>1, <1>9, <1>13
  <2>3. RetentionExact'
    BY <1>1, <1>9, <1>10, <1>12, <1>13, <2>2 DEF RetentionExact
  <2>4. marks' \in Seq(SUBSET Views) /\ Len(marks') = Len(history') + 1
    <3>. DEFINE left == SubSeq(marks, k + 1, cursor + 1)
    <3>1. marks' = Append(left, shape)
      BY DEF Retain, k, need, bytes, kept, redo
    <3>2. cursor \in Nat /\ marks \in Seq(SUBSET Views) /\ cursor + 1 <= Len(marks)
      <4>1. Len(history) \in Nat
        BY DEF HistoryOK
      <4>. QED
        BY <4>1 DEF HistoryOK
    <3>3. k \in 0 .. cursor
      BY <1>2, <1>5
    <3>4. left \in Seq(SUBSET Views) /\ Len(left) = cursor + 1 - k
      BY <3>2, <3>3
    <3>. HIDE DEF left
    <3>5. Append(left, shape) \in Seq(SUBSET Views) /\ Len(Append(left, shape)) = Len(left) + 1
      BY <3>4
    <3>. QED
      BY <1>1, <1>2, <1>6, <1>10, <3>1, <3>2, <3>3, <3>4, <3>5
  <2>. QED
    BY <2>1, <2>3, <2>4 DEF HistoryOK

-----------------------------------------------------------------------------
(* The journal.                                                            *)

Copy == [parent : Int, value : Values]

\* What Studio's copy may be.
Mirrors == UNION {[D -> Copy] : D \in SUBSET Int}

Record ==
    [type : {"Created", "Destroyed"}, object : Int]
      \cup [type : {"Property"}, object : Int, value : Values]
      \cup [type : {"Reparented"}, object : Int, parent : Int]

\* What a copy is, field by field.
LEMMA MirrorType ==
    ASSUME NEW m
    PROVE  m \in Mirrors <=> /\ m = [x \in DOMAIN m |-> m[x]] /\ DOMAIN m \subseteq Int
                             /\ \A x \in DOMAIN m : m[x] \in Copy
<1>1. ASSUME m \in Mirrors
      PROVE  /\ m = [x \in DOMAIN m |-> m[x]] /\ DOMAIN m \subseteq Int
             /\ \A x \in DOMAIN m : m[x] \in Copy
  <2>1. PICK D \in SUBSET Int : m \in [D -> Copy]
    BY <1>1 DEF Mirrors
  <2>. QED
    BY <2>1
<1>2. ASSUME m = [x \in DOMAIN m |-> m[x]], DOMAIN m \subseteq Int,
             \A x \in DOMAIN m : m[x] \in Copy
      PROVE  m \in Mirrors
  <2>1. m \in [DOMAIN m -> Copy] /\ DOMAIN m \in SUBSET Int
    BY <1>2
  <2>. QED
    BY <2>1 DEF Mirrors
<1>. QED
  BY <1>1, <1>2

\* What a record does to the object it is about.
After(m, r) ==
    IF r.type = "Created" THEN [parent |-> Detached, value |-> InitialValue]
    ELSE IF r.type = "Property" THEN [parent |-> m[r.object].parent, value |-> r.value]
    ELSE [parent |-> r.parent, value |-> m[r.object].value]

Known(m, r) ==
    IF r.type = "Created" THEN DOMAIN m \cup {r.object}
    ELSE IF r.type = "Destroyed" THEN DOMAIN m \ {r.object}
    ELSE DOMAIN m

\* A record concerns its object only.
LEMMA ApplyOne ==
    ASSUME NEW m \in Mirrors, NEW r \in Record
    PROVE  /\ MirrorApply(m, r) =
                [x \in Known(m, r) |-> IF x = r.object THEN After(m, r) ELSE m[x]]
           /\ MirrorApply(m, r) \in Mirrors
<1>. DEFINE a == [x \in Known(m, r) |-> IF x = r.object THEN After(m, r) ELSE m[x]]
<1>1. /\ m = [x \in DOMAIN m |-> m[x]] /\ DOMAIN m \subseteq Int
      /\ \A x \in DOMAIN m : m[x] \in Copy
  BY MirrorType
<1>2. r.object \in Int /\ r.type \in {"Created", "Destroyed", "Property", "Reparented"}
      /\ (r.type = "Property" => r.value \in Values)
      /\ (r.type = "Reparented" => r.parent \in Int)
  BY DEF Record
<1>3. MirrorApply(m, r) = a
  <2>1. CASE r.type = "Created"
    <3>1. MirrorApply(m, r) = [x \in DOMAIN m \cup {r.object} |->
                                 IF x = r.object THEN [parent |-> Detached, value |-> InitialValue]
                                 ELSE m[x]]
      BY <2>1, Zenon DEF MirrorApply
    <3>. QED
      BY <2>1, <3>1 DEF After, Known
  <2>2. CASE r.type # "Created" /\ r.object \notin DOMAIN m
    <3>1. MirrorApply(m, r) = m
      BY <2>2, Zenon DEF MirrorApply
    <3>2. Known(m, r) = DOMAIN m
      BY <2>2 DEF Known
    <3>. QED
      BY <1>1, <2>2, <3>1, <3>2
  <2>3. CASE r.object \in DOMAIN m /\ r.type = "Destroyed"
    <3>1. MirrorApply(m, r) = [x \in DOMAIN m \ {r.object} |-> m[x]]
      BY <2>3 DEF MirrorApply
    <3>. QED
      BY <2>3, <3>1 DEF Known
  <2>4. CASE r.object \in DOMAIN m /\ r.type = "Property"
    <3>1. MirrorApply(m, r) = [m EXCEPT ![r.object].value = r.value]
      BY <2>4 DEF MirrorApply
    <3>2. m[r.object] \in Copy
      BY <1>1, <2>4
    <3>3. [m[r.object] EXCEPT !.value = r.value] = [parent |-> m[r.object].parent, value |-> r.value]
      BY <3>2 DEF Copy
    <3>. QED
      BY <1>1, <2>4, <3>1, <3>3 DEF Known, After
  <2>5. CASE r.object \in DOMAIN m /\ r.type = "Reparented"
    <3>1. MirrorApply(m, r) = [m EXCEPT ![r.object].parent = r.parent]
      BY <2>5 DEF MirrorApply
    <3>2. m[r.object] \in Copy
      BY <1>1, <2>5
    <3>3. [m[r.object] EXCEPT !.parent = r.parent] = [parent |-> r.parent, value |-> m[r.object].value]
      BY <3>2 DEF Copy
    <3>. QED
      BY <1>1, <2>5, <3>1, <3>3 DEF Known, After
  <2>. QED
    BY <1>2, <2>1, <2>2, <2>3, <2>4, <2>5
<1>4. a \in Mirrors
  <2>1. Known(m, r) \subseteq Int
    BY <1>1, <1>2 DEF Known
  <2>2. ASSUME NEW x \in Known(m, r)
        PROVE  (IF x = r.object THEN After(m, r) ELSE m[x]) \in Copy
    <3>1. CASE x # r.object
      <4>1. x \in DOMAIN m
        BY <2>2, <3>1 DEF Known
      <4>. QED
        BY <1>1, <3>1, <4>1
    <3>2. CASE x = r.object
      <4>1. CASE r.type = "Created"
        BY <3>2, <4>1, LimitAssumption DEF After, Copy, Detached
      <4>2. CASE r.type = "Property"
        <5>1. m[x] \in Copy
          BY <1>1, <2>2, <4>2 DEF Known
        <5>. QED
          BY <1>2, <3>2, <4>2, <5>1 DEF After, Copy
      <4>3. CASE r.type = "Reparented"
        <5>1. m[x] \in Copy
          BY <1>1, <2>2, <4>3 DEF Known
        <5>. QED
          BY <1>2, <3>2, <4>3, <5>1 DEF After, Copy
      <4>4. r.type # "Destroyed"
        BY <2>2, <3>2 DEF Known
      <4>. QED
        BY <1>2, <4>1, <4>2, <4>3, <4>4
    <3>. QED
      BY <3>1, <3>2
  <2>. HIDE DEF Known, After, Copy
  <2>. QED
    BY <2>1, <2>2, MirrorType
<1>. QED
  BY <1>3, <1>4

\* Records are applied one after the other.
LEMMA PublishEmpty ==
    ASSUME NEW m
    PROVE  Publish(m, <<>>) = m
BY PublishFold, Publishing!FoldEmpty

\* A record more is one application more.
LEMMA PublishAppend ==
    ASSUME NEW m, NEW rs \in Seq(Record), NEW r \in Record
    PROVE  Publish(m, Append(rs, r)) = MirrorApply(Publish(m, rs), r)
<1>1. Publishing!Fold(m, Append(rs, r)) = MirrorApply(Publishing!Fold(m, rs), r)
  BY Publishing!FoldAppend
<1>. QED
  BY <1>1, PublishFold

\* Records may be applied in two parts.
LEMMA PublishConcat ==
    ASSUME NEW m, NEW rs \in Seq(Record), NEW ts \in Seq(Record)
    PROVE  Publish(m, rs \o ts) = Publish(Publish(m, rs), ts)
<1>1. Publishing!Fold(m, rs \o ts) = Publishing!Fold(Publishing!Fold(m, rs), ts)
  BY Publishing!FoldConcat
<1>. QED
  BY <1>1, PublishFold

\* One record is one application.
LEMMA PublishOne ==
    ASSUME NEW m, NEW r \in Record
    PROVE  Publish(m, <<r>>) = MirrorApply(m, r)
<1>1. Publishing!Fold(m, <<r>>) = MirrorApply(m, r)
  BY Publishing!FoldSingle
<1>. QED
  BY <1>1, PublishFold

\* Records leave a copy a copy.
LEMMA PublishType ==
    ASSUME NEW m \in Mirrors, NEW rs \in Seq(Record)
    PROVE  Publish(m, rs) \in Mirrors
<1>1. \A a \in Mirrors : \A r \in Record : MirrorApply(a, r) \in Mirrors
  BY ApplyOne
<1>2. Publishing!Fold(m, rs) \in Mirrors
  BY <1>1, Publishing!FoldKeeps
<1>. QED
  BY <1>2, PublishFold

\* Copies that differ at most in what the record r is about to overwrite.
Alike(r, a, b) ==
    /\ DOMAIN a \ {r.object} = DOMAIN b \ {r.object}
    /\ \A x \in DOMAIN a \ {r.object} : a[x] = b[x]
    /\ r.type \in {"Property", "Reparented"} =>
          /\ r.object \in DOMAIN a <=> r.object \in DOMAIN b
          /\ r.object \in DOMAIN a =>
                IF r.type = "Property" THEN a[r.object].parent = b[r.object].parent
                ELSE a[r.object].value = b[r.object].value

\* A copy after a record is like the one before it.
LEMMA AlikeAfter ==
    ASSUME NEW m \in Mirrors, NEW r \in Record
    PROVE  Alike(r, MirrorApply(m, r), m)
<1>. DEFINE a == [x \in Known(m, r) |-> IF x = r.object THEN After(m, r) ELSE m[x]]
<1>1. DOMAIN a = Known(m, r) /\ Known(m, r) \ {r.object} = DOMAIN m \ {r.object}
  BY DEF Known
<1>2. \A x \in DOMAIN a \ {r.object} : a[x] = m[x]
  OBVIOUS
<1>3. ASSUME r.type \in {"Property", "Reparented"}
      PROVE  /\ r.object \in DOMAIN a <=> r.object \in DOMAIN m
             /\ r.object \in DOMAIN a =>
                   IF r.type = "Property" THEN a[r.object].parent = m[r.object].parent
                   ELSE a[r.object].value = m[r.object].value
  BY <1>3 DEF Known, After
<1>4. MirrorApply(m, r) = a
  BY ApplyOne
<1>. HIDE DEF a
<1>. QED
  BY <1>1, <1>2, <1>3, <1>4 DEF Alike

\* The same record leaves copies that are alike equal.
LEMMA AlikeEqual ==
    ASSUME NEW a \in Mirrors, NEW b \in Mirrors, NEW r \in Record, Alike(r, a, b)
    PROVE  MirrorApply(a, r) = MirrorApply(b, r)
<1>. DEFINE na == [x \in Known(a, r) |-> IF x = r.object THEN After(a, r) ELSE a[x]]
            nb == [x \in Known(b, r) |-> IF x = r.object THEN After(b, r) ELSE b[x]]
<1>0. r.type \in {"Created", "Destroyed", "Property", "Reparented"}
  BY DEF Record
<1>1. Known(a, r) = Known(b, r)
  <2>1. DOMAIN a \ {r.object} = DOMAIN b \ {r.object}
    BY DEF Alike
  <2>2. CASE r.type \in {"Created", "Destroyed"}
    BY <2>1, <2>2 DEF Known
  <2>3. CASE r.type \in {"Property", "Reparented"}
    <3>1. r.object \in DOMAIN a <=> r.object \in DOMAIN b
      BY <2>3 DEF Alike
    <3>. QED
      BY <2>1, <2>3, <3>1 DEF Known
  <2>. QED
    BY <1>0, <2>2, <2>3
<1>2. \A x \in Known(a, r) \ {r.object} : a[x] = b[x]
  BY DEF Alike, Known
<1>3. r.object \in Known(a, r) => After(a, r) = After(b, r)
  <2>1. CASE r.type = "Created"
    BY <2>1 DEF After
  <2>2. CASE r.type = "Destroyed"
    BY <2>2 DEF Known
  <2>3. CASE r.type = "Property"
    BY <2>3 DEF After, Known, Alike
  <2>4. CASE r.type = "Reparented"
    BY <2>4 DEF After, Known, Alike
  <2>. QED
    BY <1>0, <2>1, <2>2, <2>3, <2>4
<1>4. na = nb
  BY <1>1, <1>2, <1>3
<1>5. MirrorApply(a, r) = na /\ MirrorApply(b, r) = nb
  BY ApplyOne
<1>. QED
  BY <1>4, <1>5

\* Copies that are alike stay so, whatever is applied to both.
LEMMA AlikeStays ==
    ASSUME NEW a \in Mirrors, NEW b \in Mirrors, NEW r \in Record, NEW q \in Record,
           Alike(r, a, b)
    PROVE  Alike(r, MirrorApply(a, q), MirrorApply(b, q))
<1>. DEFINE na == [x \in Known(a, q) |-> IF x = q.object THEN After(a, q) ELSE a[x]]
            nb == [x \in Known(b, q) |-> IF x = q.object THEN After(b, q) ELSE b[x]]
<1>0. /\ r.type \in {"Created", "Destroyed", "Property", "Reparented"}
      /\ q.type \in {"Created", "Destroyed", "Property", "Reparented"}
  BY DEF Record
<1>1. MirrorApply(a, q) = na /\ MirrorApply(b, q) = nb
  BY ApplyOne
<1>2. DOMAIN na = Known(a, q) /\ DOMAIN nb = Known(b, q)
  OBVIOUS
<1>3. DOMAIN a \ {r.object} = DOMAIN b \ {r.object} /\ \A x \in DOMAIN a \ {r.object} : a[x] = b[x]
  BY DEF Alike
<1>4. Known(a, q) \ {r.object} = Known(b, q) \ {r.object}
  <2>1. CASE q.type = "Created"
    BY <1>3, <2>1 DEF Known
  <2>2. CASE q.type = "Destroyed"
    BY <1>3, <2>2 DEF Known
  <2>3. CASE q.type \in {"Property", "Reparented"}
    BY <1>3, <2>3 DEF Known
  <2>. QED
    BY <1>0, <2>1, <2>2, <2>3
<1>5. ASSUME NEW x \in Known(a, q) \ {r.object}
      PROVE  na[x] = nb[x]
  <2>0. x \in Known(b, q)
    BY <1>4
  <2>1. CASE x # q.object
    <3>1. x \in DOMAIN a \ {r.object}
      BY <2>1 DEF Known
    <3>2. na[x] = a[x] /\ nb[x] = b[x]
      BY <2>0, <2>1
    <3>. QED
      BY <1>3, <3>1, <3>2
  <2>2. CASE x = q.object
    <3>1. na[x] = After(a, q) /\ nb[x] = After(b, q)
      BY <2>0, <2>2
    <3>2. CASE q.type = "Created"
      BY <3>1, <3>2 DEF After
    <3>3. CASE q.type \in {"Property", "Reparented"}
      <4>1. x \in DOMAIN a \ {r.object}
        BY <3>3 DEF Known
      <4>2. a[q.object] = b[q.object]
        BY <1>3, <2>2, <4>1
      <4>. QED
        BY <3>1, <4>2 DEF After
    <3>4. q.type # "Destroyed"
      BY <2>2 DEF Known
    <3>. QED
      BY <1>0, <3>2, <3>3, <3>4
  <2>. QED
    BY <2>1, <2>2
<1>6. ASSUME r.type \in {"Property", "Reparented"}
      PROVE  /\ r.object \in Known(a, q) <=> r.object \in Known(b, q)
             /\ r.object \in Known(a, q) =>
                   IF r.type = "Property" THEN na[r.object].parent = nb[r.object].parent
                   ELSE na[r.object].value = nb[r.object].value
  <2>1. /\ r.object \in DOMAIN a <=> r.object \in DOMAIN b
        /\ r.object \in DOMAIN a =>
              IF r.type = "Property" THEN a[r.object].parent = b[r.object].parent
              ELSE a[r.object].value = b[r.object].value
    BY <1>6 DEF Alike
  <2>2. r.object \in Known(a, q) <=> r.object \in Known(b, q)
    BY <2>1 DEF Known
  <2>3. ASSUME r.object \in Known(a, q)
        PROVE  IF r.type = "Property" THEN na[r.object].parent = nb[r.object].parent
               ELSE na[r.object].value = nb[r.object].value
    <3>1. CASE r.object # q.object
      <4>1. na[r.object] = a[r.object] /\ nb[r.object] = b[r.object] /\ r.object \in DOMAIN a
        BY <2>2, <2>3, <3>1 DEF Known
      <4>. QED
        BY <2>1, <4>1
    <3>2. CASE r.object = q.object
      <4>1. na[r.object] = After(a, q) /\ nb[r.object] = After(b, q)
        BY <2>2, <2>3, <3>2
      <4>2. q.type # "Destroyed"
        BY <2>3, <3>2 DEF Known
      <4>3. CASE q.type = "Created"
        BY <4>1, <4>3 DEF After
      <4>4. CASE q.type = "Property"
        <5>1. r.object \in DOMAIN a
          BY <2>3, <4>4 DEF Known
        <5>2. /\ na[r.object].parent = a[q.object].parent /\ nb[r.object].parent = b[q.object].parent
              /\ na[r.object].value = q.value /\ nb[r.object].value = q.value
          BY <4>1, <4>4 DEF After
        <5>. QED
          BY <2>1, <3>2, <5>1, <5>2
      <4>5. CASE q.type = "Reparented"
        <5>1. r.object \in DOMAIN a
          BY <2>3, <4>5 DEF Known
        <5>2. /\ na[r.object].parent = q.parent /\ nb[r.object].parent = q.parent
              /\ na[r.object].value = a[q.object].value /\ nb[r.object].value = b[q.object].value
          BY <4>1, <4>5 DEF After
        <5>. QED
          BY <2>1, <3>2, <5>1, <5>2
      <4>. QED
        BY <1>0, <4>2, <4>3, <4>4, <4>5
    <3>. QED
      BY <3>1, <3>2
  <2>. QED
    BY <2>2, <2>3
<1>. HIDE DEF na, nb, Known
<1>7. Alike(r, na, nb)
  BY <1>2, <1>4, <1>5, <1>6 DEF Alike
<1>. QED
  BY <1>1, <1>7

\* A record that is applied again later makes no difference now.
LEMMA PublishAbsorbs ==
    ASSUME NEW m \in Mirrors, NEW r \in Record, NEW rs \in Seq(Record)
    PROVE  MirrorApply(Publish(MirrorApply(m, r), rs), r) = MirrorApply(Publish(m, rs), r)
<1>. DEFINE n == MirrorApply(m, r)
            B == {ts \in Seq(Record) : Alike(r, Publish(n, ts), Publish(m, ts))}
<1>1. n \in Mirrors /\ Alike(r, n, m)
  BY ApplyOne, AlikeAfter
<1>. HIDE DEF n
<1>2. <<>> \in B
  BY <1>1, PublishEmpty
<1>3. ASSUME NEW ts \in Seq(Record), NEW q \in Record, ts \in B
      PROVE  Append(ts, q) \in B
  <2>1. Publish(n, ts) \in Mirrors /\ Publish(m, ts) \in Mirrors
    BY <1>1, PublishType
  <2>2. Alike(r, MirrorApply(Publish(n, ts), q), MirrorApply(Publish(m, ts), q))
    BY <1>3, <2>1, AlikeStays
  <2>. QED
    BY <2>2, PublishAppend
<1>. HIDE DEF B
<1>4. Seq(Record) \subseteq B
  BY <1>2, <1>3, SequenceInduction
<1>5. Alike(r, Publish(n, rs), Publish(m, rs))
  BY <1>4 DEF B
<1>6. Publish(n, rs) \in Mirrors /\ Publish(m, rs) \in Mirrors
  BY <1>1, PublishType
<1>. QED
  BY <1>5, <1>6, AlikeEqual DEF n

\* Records that are published again later make no difference now.
LEMMA PublishAgain ==
    ASSUME NEW rs \in Seq(Record)
    PROVE  \A ts \in Seq(Record) : \A m \in Mirrors :
              Publish(Publish(Publish(m, rs), ts), rs) = Publish(Publish(m, ts), rs)
<1>. DEFINE B == {us \in Seq(Record) : \A ts \in Seq(Record) : \A m \in Mirrors :
                    Publish(Publish(Publish(m, us), ts), us) = Publish(Publish(m, ts), us)}
<1>1. <<>> \in B
  BY PublishEmpty
<1>2. ASSUME NEW us \in Seq(Record), NEW e \in Record, us \in B
      PROVE  Append(us, e) \in B
  <2>1. ASSUME NEW ts \in Seq(Record), NEW m \in Mirrors
        PROVE  Publish(Publish(Publish(m, Append(us, e)), ts), Append(us, e))
                 = Publish(Publish(m, ts), Append(us, e))
    <3>. DEFINE p == Publish(m, us)
                mid == <<e>> \o ts
                both == ts \o us
    <3>1. p \in Mirrors /\ mid \in Seq(Record) /\ both \in Seq(Record) /\ <<e>> \in Seq(Record)
      BY PublishType
    <3>2. Publish(Publish(p, <<e>>), ts) = Publish(p, mid) /\ Publish(Publish(m, <<e>>), ts) = Publish(m, mid)
      BY <3>1, PublishConcat
    <3>3. Publish(p, <<e>>) = MirrorApply(p, e) /\ Publish(m, <<e>>) = MirrorApply(m, e)
      BY PublishOne
    <3>4. Publish(Publish(p, mid), us) = Publish(Publish(m, mid), us)
      BY <1>2, <3>1
    <3>5. MirrorApply(Publish(MirrorApply(m, e), both), e) = MirrorApply(Publish(m, both), e)
      BY <3>1, PublishAbsorbs
    <3>6. /\ Publish(MirrorApply(m, e), both) = Publish(Publish(MirrorApply(m, e), ts), us)
          /\ Publish(m, both) = Publish(Publish(m, ts), us)
      BY PublishConcat
    <3>7. Publish(m, Append(us, e)) = MirrorApply(p, e)
      BY PublishAppend
    <3>8. /\ Publish(Publish(MirrorApply(p, e), ts), Append(us, e))
               = MirrorApply(Publish(Publish(MirrorApply(p, e), ts), us), e)
          /\ Publish(Publish(m, ts), Append(us, e)) = MirrorApply(Publish(Publish(m, ts), us), e)
      BY PublishAppend
    <3>. HIDE DEF p, mid, both
    <3>9. Publish(Publish(MirrorApply(p, e), ts), us) = Publish(Publish(MirrorApply(m, e), ts), us)
      BY <3>2, <3>3, <3>4
    <3>. QED
      BY <3>5, <3>6, <3>7, <3>8, <3>9
  <2>. QED
    BY <2>1
<1>. HIDE DEF B
<1>3. Seq(Record) \subseteq B
  BY <1>1, <1>2, SequenceInduction
<1>. QED
  BY <1>3 DEF B

\* A journal may be published twice: a copy that shows its effects already is
\* left as it is (GetSnapshot in the middle of a group).
LEMMA PublishTwice ==
    ASSUME NEW m \in Mirrors, NEW rs \in Seq(Record)
    PROVE  Publish(Publish(m, rs), rs) = Publish(m, rs)
<1>1. <<>> \in Seq(Record)
  OBVIOUS
<1>2. Publish(Publish(Publish(m, rs), <<>>), rs) = Publish(Publish(m, <<>>), rs)
  BY <1>1, PublishAgain
<1>. QED
  BY <1>2, PublishEmpty

\* What a sequence holds when one element more is appended.
LEMMA RangeAppend ==
    ASSUME NEW S, NEW t \in Seq(S), NEW x \in S
    PROVE  Range(Append(t, x)) = Range(t) \cup {x}
<1>. DEFINE w == Append(t, x)
            n == Len(t)
<1>1. /\ n \in Nat /\ DOMAIN t = 1 .. n /\ DOMAIN w = 1 .. n + 1 /\ w[n + 1] = x
      /\ \A i \in 1 .. n : w[i] = t[i]
  BY AppendProperties
<1>. HIDE DEF w, n
<1>2. DOMAIN w = DOMAIN t \cup {n + 1}
  BY <1>1
<1>3. Range(w) = Range(t) \cup {x}
  BY <1>1, <1>2 DEF Range
<1>. QED
  BY <1>3 DEF w

\* The record r is not about what the record e, a write or a move, sets.
Apart(e, r) == r.object = e.object => r.type \notin {"Created", e.type}

\* A write or a move may overtake a record that is not about the same.
LEMMA ApartCommutes ==
    ASSUME NEW m \in Mirrors, NEW e \in Record, e.type \in {"Property", "Reparented"},
           NEW r \in Record, Apart(e, r)
    PROVE  MirrorApply(MirrorApply(m, e), r) = MirrorApply(MirrorApply(m, r), e)
<1>. DEFINE a == MirrorApply(m, e)
            b == MirrorApply(m, r)
            ar == MirrorApply(a, r)
            be == MirrorApply(b, e)
<1>1. /\ a = [x \in Known(m, e) |-> IF x = e.object THEN After(m, e) ELSE m[x]] /\ a \in Mirrors
      /\ b = [x \in Known(m, r) |-> IF x = r.object THEN After(m, r) ELSE m[x]] /\ b \in Mirrors
  BY ApplyOne
<1>. HIDE DEF a, b
<1>2. /\ ar = [x \in Known(a, r) |-> IF x = r.object THEN After(a, r) ELSE a[x]]
      /\ be = [x \in Known(b, e) |-> IF x = e.object THEN After(b, e) ELSE b[x]]
  BY <1>1, ApplyOne
<1>. HIDE DEF ar, be
<1>3. r.type \in {"Created", "Destroyed", "Property", "Reparented"}
  BY DEF Record
<1>4. Known(m, e) = DOMAIN m /\ Known(b, e) = DOMAIN b /\ DOMAIN a = DOMAIN m
  BY <1>1 DEF Known
<1>5. Known(a, r) = Known(m, r) /\ DOMAIN b = Known(m, r)
  BY <1>1, <1>4 DEF Known
<1>6. ASSUME NEW x \in Known(m, r)
      PROVE  (IF x = r.object THEN After(a, r) ELSE a[x])
               = (IF x = e.object THEN After(b, e) ELSE b[x])
  <2>1. CASE x # r.object /\ x # e.object
    <3>1. x \in DOMAIN m
      BY <2>1 DEF Known
    <3>. QED
      BY <1>1, <1>4, <1>6, <2>1, <3>1
  <2>2. CASE x = r.object /\ x # e.object
    <3>1. r.type # "Destroyed"
      BY <2>2 DEF Known
    <3>2. b[x] = After(m, r)
      BY <1>1, <1>6, <2>2
    <3>3. r.type = "Created" \/ (x \in DOMAIN m /\ a[x] = m[x])
      BY <1>1, <1>3, <1>4, <1>6, <2>2, <3>1 DEF Known
    <3>4. After(a, r) = After(m, r)
      BY <1>3, <2>2, <3>1, <3>3 DEF After
    <3>. QED
      BY <2>2, <3>2, <3>4
  <2>3. CASE x # r.object /\ x = e.object
    <3>1. x \in DOMAIN m
      BY <2>3 DEF Known
    <3>2. a[x] = After(m, e) /\ b[x] = m[x]
      BY <1>1, <1>4, <1>6, <2>3, <3>1
    <3>3. After(b, e) = After(m, e)
      BY <2>3, <3>2 DEF After
    <3>. QED
      BY <2>3, <3>2, <3>3
  <2>4. CASE x = r.object /\ x = e.object
    <3>1. r.type \notin {"Created", "Destroyed", e.type}
      BY <2>4 DEF Known, Apart
    <3>2. x \in DOMAIN m
      BY <1>3, <1>6, <3>1 DEF Known
    <3>3. a[x] = After(m, e) /\ b[x] = After(m, r)
      BY <1>1, <1>4, <1>6, <2>4, <3>2
    <3>4. After(a, r) = After(b, e)
      <4>1. CASE e.type = "Property"
        <5>1. r.type = "Reparented"
          BY <1>3, <3>1, <4>1
        <5>. QED
          BY <2>4, <3>3, <4>1, <5>1 DEF After
      <4>2. CASE e.type = "Reparented"
        <5>1. r.type = "Property"
          BY <1>3, <3>1, <4>2
        <5>. QED
          BY <2>4, <3>3, <4>2, <5>1 DEF After
      <4>. QED
        BY <4>1, <4>2
    <3>. QED
      BY <2>4, <3>4
  <2>. QED
    BY <2>1, <2>2, <2>3, <2>4
<1>7. ar = be
  BY <1>2, <1>4, <1>5, <1>6
<1>. QED
  BY <1>7 DEF ar, be, a, b

\* A write or a move may overtake records none of which is about the same.
LEMMA PublishApart ==
    ASSUME NEW m \in Mirrors, NEW e \in Record, e.type \in {"Property", "Reparented"},
           NEW rs \in Seq(Record), \A r \in Range(rs) : Apart(e, r)
    PROVE  Publish(MirrorApply(m, e), rs) = MirrorApply(Publish(m, rs), e)
<1>. DEFINE n == MirrorApply(m, e)
            apart(ts) == \A r \in Range(ts) : Apart(e, r)
            B == {ts \in Seq(Record) :
                    apart(ts) => Publish(n, ts) = MirrorApply(Publish(m, ts), e)}
<1>1. <<>> \in B
  BY PublishEmpty
<1>2. ASSUME NEW ts \in Seq(Record), NEW q \in Record, ts \in B
      PROVE  Append(ts, q) \in B
  <2>1. Range(Append(ts, q)) = Range(ts) \cup {q}
    BY RangeAppend
  <2>2. Publish(m, ts) \in Mirrors
    BY PublishType
  <2>3. ASSUME apart(Append(ts, q))
        PROVE  Publish(n, Append(ts, q)) = MirrorApply(Publish(m, Append(ts, q)), e)
    <3>1. apart(ts) /\ Apart(e, q)
      BY <2>1, <2>3
    <3>2. Publish(n, ts) = MirrorApply(Publish(m, ts), e)
      BY <1>2, <3>1
    <3>3. MirrorApply(MirrorApply(Publish(m, ts), e), q) = MirrorApply(MirrorApply(Publish(m, ts), q), e)
      BY <2>2, <3>1, ApartCommutes
    <3>. QED
      BY <3>2, <3>3, PublishAppend
  <2>. QED
    BY <2>3
<1>. HIDE DEF B
<1>3. Seq(Record) \subseteq B
  BY <1>1, <1>2, SequenceInduction
<1>. QED
  BY <1>3 DEF B

\* A copy without some objects.
Without(m, S) == [y \in DOMAIN m \ S |-> m[y]]

\* A destruction may overtake a record that does not create what it destroys.
LEMMA WithoutCommutes ==
    ASSUME NEW m \in Mirrors, NEW S, NEW r \in Record, r.type = "Created" => r.object \notin S
    PROVE  /\ Without(m, S) \in Mirrors
           /\ MirrorApply(Without(m, S), r) = Without(MirrorApply(m, r), S)
<1>. DEFINE a == Without(m, S)
            b == MirrorApply(m, r)
            ar == MirrorApply(a, r)
<1>1. DOMAIN a = DOMAIN m \ S /\ \A y \in DOMAIN a : a[y] = m[y]
  BY DEF Without
<1>2. a \in Mirrors
  <2>1. a = [y \in DOMAIN a |-> a[y]]
    BY DEF Without
  <2>2. DOMAIN m \subseteq Int /\ \A y \in DOMAIN m : m[y] \in Copy
    BY MirrorType
  <2>. HIDE DEF a
  <2>. QED
    BY <1>1, <2>1, <2>2, MirrorType
<1>. HIDE DEF a
<1>3. b = [x \in Known(m, r) |-> IF x = r.object THEN After(m, r) ELSE m[x]]
  BY ApplyOne
<1>4. ar = [x \in Known(a, r) |-> IF x = r.object THEN After(a, r) ELSE a[x]]
  BY <1>2, ApplyOne
<1>. HIDE DEF b, ar
<1>5. r.type \in {"Created", "Destroyed", "Property", "Reparented"}
  BY DEF Record
<1>6. Known(a, r) = Known(m, r) \ S
  BY <1>1, <1>5 DEF Known
<1>7. ASSUME NEW x \in Known(a, r)
      PROVE  (IF x = r.object THEN After(a, r) ELSE a[x]) = b[x]
  <2>1. CASE x # r.object
    <3>1. x \in DOMAIN a
      BY <1>7, <2>1 DEF Known
    <3>. QED
      BY <1>1, <1>3, <1>6, <1>7, <2>1, <3>1
  <2>2. CASE x = r.object
    <3>1. b[x] = After(m, r)
      BY <1>3, <1>6, <1>7, <2>2
    <3>2. r.type = "Created" \/ (x \in DOMAIN a /\ a[x] = m[x])
      BY <1>1, <1>5, <1>7, <2>2 DEF Known
    <3>3. r.type # "Destroyed"
      BY <1>7, <2>2 DEF Known
    <3>4. After(a, r) = After(m, r)
      BY <1>5, <2>2, <3>2, <3>3 DEF After
    <3>. QED
      BY <2>2, <3>1, <3>4
  <2>. QED
    BY <2>1, <2>2
<1>8. DOMAIN b = Known(m, r)
  BY <1>3
<1>9. ar = Without(b, S)
  BY <1>4, <1>6, <1>7, <1>8 DEF Without
<1>. QED
  BY <1>2, <1>9 DEF ar, a, b

\* A destruction may overtake records that create nothing it destroys.
LEMMA PublishWithout ==
    ASSUME NEW m \in Mirrors, NEW S, NEW rs \in Seq(Record),
           \A r \in Range(rs) : r.type = "Created" => r.object \notin S
    PROVE  Publish(Without(m, S), rs) = Without(Publish(m, rs), S)
<1>. DEFINE clear(r) == r.type = "Created" => r.object \notin S
            B == {ts \in Seq(Record) : (\A r \in Range(ts) : clear(r)) =>
                    Publish(Without(m, S), ts) = Without(Publish(m, ts), S)}
<1>1. <<>> \in B
  BY PublishEmpty
<1>2. ASSUME NEW ts \in Seq(Record), NEW q \in Record, ts \in B
      PROVE  Append(ts, q) \in B
  <2>1. Range(Append(ts, q)) = Range(ts) \cup {q}
    BY RangeAppend
  <2>2. Publish(m, ts) \in Mirrors
    BY PublishType
  <2>3. ASSUME \A r \in Range(Append(ts, q)) : clear(r)
        PROVE  Publish(Without(m, S), Append(ts, q)) = Without(Publish(m, Append(ts, q)), S)
    <3>1. (\A r \in Range(ts) : clear(r)) /\ clear(q)
      BY <2>1, <2>3
    <3>2. Publish(Without(m, S), ts) = Without(Publish(m, ts), S)
      BY <1>2, <3>1
    <3>3. MirrorApply(Without(Publish(m, ts), S), q) = Without(MirrorApply(Publish(m, ts), q), S)
      BY <2>2, <3>1, WithoutCommutes
    <3>. QED
      BY <3>2, <3>3, PublishAppend
  <2>. QED
    BY <2>3
<1>. HIDE DEF B
<1>3. Seq(Record) \subseteq B
  BY <1>1, <1>2, SequenceInduction
<1>. QED
  BY <1>3 DEF B

-----------------------------------------------------------------------------
(* Sorting and subtrees.                                                   *)

\* A strict total order of the elements of S.
Orders(order, S) ==
    /\ \A y \in S : <<y, y>> \notin order
    /\ \A x, y, z \in S : <<x, y>> \in order /\ <<y, z>> \in order => <<x, z>> \in order
    /\ \A x, y \in S : x # y => <<x, y>> \in order \/ <<y, x>> \in order

\* Sorting lists every element once.
LEMMA SortedOK ==
    ASSUME NEW S, IsFiniteSet(S), NEW order, Orders(order, S)
    PROVE  /\ Sorted(S, order) \in Seq(S) /\ Len(Sorted(S, order)) = Cardinality(S)
           /\ Distinct(Sorted(S, order))
           /\ \A y \in S : \E i \in DOMAIN Sorted(S, order) : Sorted(S, order)[i] = y
           /\ S # {} => \A z \in S : <<z, Sorted(S, order)[1]>> \notin order
<1>. DEFINE below(y) == {z \in S : <<z, y>> \in order}
            n == Cardinality(S)
            rank == [y \in S |-> Cardinality(below(y))]
            at(i) == CHOOSE y \in S : Cardinality(below(y)) = i - 1
<1>1. n \in Nat /\ \A y \in S : below(y) \in SUBSET S /\ IsFiniteSet(below(y)) /\ Cardinality(below(y)) \in Nat
                                /\ Cardinality(below(y)) <= n
  BY FS_Subset, FS_CardinalityType
<1>2. ASSUME NEW y \in S
      PROVE  rank[y] \in 0 .. n - 1
  <2>1. below(y) # S
    BY DEF Orders
  <2>2. Cardinality(below(y)) # n
    BY <1>1, <2>1, FS_Subset
  <2>3. rank[y] = Cardinality(below(y))
    OBVIOUS
  <2>. HIDE DEF below, n, rank
  <2>. QED
    BY <1>1, <2>2, <2>3
<1>3. ASSUME NEW x \in S, NEW y \in S, <<x, y>> \in order
      PROVE  rank[x] # rank[y]
  <2>1. below(x) \in SUBSET below(y) /\ below(x) # below(y)
    BY <1>3 DEF Orders
  <2>2. Cardinality(below(x)) # Cardinality(below(y))
    BY <1>1, <2>1, FS_Subset
  <2>. QED
    BY <2>2
<1>4. \A x, y \in S : rank[x] = rank[y] => x = y
  <2>. HIDE DEF rank
  <2>. QED
    BY <1>3 DEF Orders
<1>5. rank \in Injection(S, 0 .. n - 1)
  <2>1. rank \in [S -> 0 .. n - 1]
    BY <1>2
  <2>. HIDE DEF rank, n
  <2>. QED
    BY <1>4, <2>1 DEF Injection, IsInjective
<1>6. IsFiniteSet(0 .. n - 1) /\ Cardinality(0 .. n - 1) = n
  <2>1. 0 \in Int /\ n - 1 \in Int
    BY <1>1
  <2>2. IsFiniteSet(0 .. n - 1) /\ Cardinality(0 .. n - 1) = IF 0 > n - 1 THEN 0 ELSE n - 1 - 0 + 1
    BY <2>1, FS_Interval, Zenon
  <2>. HIDE DEF n
  <2>. QED
    BY <1>1, <2>2
<1>7. rank \in Surjection(S, 0 .. n - 1)
  <2>. HIDE DEF rank
  <2>. QED
    BY <1>5, <1>6, FS_Injection
<1>8. ASSUME NEW i \in 1 .. n
      PROVE  at(i) \in S /\ rank[at(i)] = i - 1
  <2>1. i - 1 \in 0 .. n - 1
    BY <1>1
  <2>2. \E y \in S : rank[y] = i - 1
    <3>. HIDE DEF rank, n
    <3>. QED
      BY <1>7, <2>1 DEF Surjection
  <2>3. \E y \in S : Cardinality(below(y)) = i - 1
    BY <2>2
  <2>4. at(i) \in S /\ Cardinality(below(at(i))) = i - 1
    BY <2>3, Zenon
  <2>. QED
    BY <2>4
<1>9. Sorted(S, order) = [i \in 1 .. n |-> at(i)]
  BY DEF Sorted
<1>10. \A i, j \in 1 .. n : at(i) = at(j) => i = j
  <2>. SUFFICES ASSUME NEW i \in 1 .. n, NEW j \in 1 .. n, at(i) = at(j)
                PROVE  i = j
    OBVIOUS
  <2>1. i - 1 = j - 1
    BY <1>8
  <2>. HIDE DEF n
  <2>. QED
    BY <1>1, <2>1
<1>11. \A y \in S : \E i \in 1 .. n : at(i) = y
  <2>. SUFFICES ASSUME NEW y \in S
                PROVE  \E i \in 1 .. n : at(i) = y
    OBVIOUS
  <2>1. rank[y] \in 0 .. n - 1
    BY <1>2
  <2>. DEFINE i == rank[y] + 1
  <2>2. i \in 1 .. n /\ i - 1 = rank[y]
    <3>. HIDE DEF rank, n
    <3>. QED
      BY <1>1, <2>1
  <2>. HIDE DEF i
  <2>3. at(i) \in S /\ rank[at(i)] = rank[y]
    BY <1>8, <2>2
  <2>4. at(i) = y
    <3>. HIDE DEF rank, at
    <3>. QED
      BY <1>4, <2>3
  <2>. QED
    BY <2>2, <2>4
<1>12. ASSUME S # {}
       PROVE  1 \in 1 .. n /\ \A z \in S : <<z, at(1)>> \notin order
  <2>1. n # 0
    BY <1>12, FS_EmptySet
  <2>2. 1 \in 1 .. n
    <3>. HIDE DEF n
    <3>. QED
      BY <1>1, <2>1
  <2>3. at(1) \in S /\ rank[at(1)] = 0
    <3>1. at(1) \in S /\ rank[at(1)] = 1 - 1
      <4>. HIDE DEF at, rank, n
      <4>. QED
        BY <1>8, <2>2
    <3>. HIDE DEF at, rank
    <3>. QED
      BY <3>1
  <2>4. below(at(1)) \in SUBSET S /\ Cardinality(below(at(1))) = 0
    BY <1>1, <2>3
  <2>5. below(at(1)) = {}
    <3>. HIDE DEF below, at
    <3>. QED
      BY <1>1, <2>3, <2>4, FS_EmptySet
  <2>6. \A z \in S : z \notin below(at(1))
    BY <2>5
  <2>. QED
    BY <2>2, <2>6
<1>. DEFINE s == [i \in 1 .. n |-> at(i)]
<1>13. \A i \in 1 .. n : at(i) \in S
  BY <1>8
<1>. HIDE DEF at, n, rank, below
<1>14. s \in Seq(S) /\ Len(s) = n /\ DOMAIN s = 1 .. n /\ \A i \in 1 .. n : s[i] = at(i)
  BY <1>1, <1>13
<1>. HIDE DEF s
<1>15. Distinct(s)
  BY <1>10, <1>14 DEF Distinct
<1>16. \A y \in S : \E i \in DOMAIN s : s[i] = y
  BY <1>11, <1>14
<1>17. S # {} => \A z \in S : <<z, s[1]>> \notin order
  BY <1>12, <1>14
<1>18. Sorted(S, order) = s /\ Len(s) = Cardinality(S)
  BY <1>9, <1>14 DEF s, n
<1>. QED
  BY <1>14, <1>15, <1>16, <1>17, <1>18

-----------------------------------------------------------------------------
(* The hierarchy is a tree.                                                *)

\* The ancestors of an object are closed upwards and reach the root.
LEMMA AncestorsUp ==
    ASSUME NEW w, IsTree(w), NEW y \in DOMAIN w
    PROVE  /\ Ancestors(w, y) \in SUBSET DOMAIN w /\ y \in Ancestors(w, y)
           /\ Upward(w, Ancestors(w, y)) /\ Root \in Ancestors(w, y)
<1>1. Ancestors(w, y) \in SUBSET DOMAIN w /\ y \in Ancestors(w, y)
  BY DEF Ancestors
<1>2. Upward(w, Ancestors(w, y))
  <2>. SUFFICES ASSUME NEW z \in Ancestors(w, y) \ {Root}
                PROVE  w[z].parent \in Ancestors(w, y)
    BY DEF Upward
  <2>1. w[z].parent \in DOMAIN w
    BY <1>1 DEF IsTree, Objects
  <2>2. \A S \in SUBSET DOMAIN w : y \in S /\ Upward(w, S) => w[z].parent \in S
    BY DEF Ancestors, Upward
  <2>. QED
    BY <2>1, <2>2 DEF Ancestors
<1>3. Root \in Ancestors(w, y)
  BY <1>1, <1>2 DEF IsTree
<1>. QED
  BY <1>1, <1>2, <1>3

\* Nothing is above the root.
LEMMA AboveRoot ==
    ASSUME NEW w, IsTree(w), NEW x \in Ancestors(w, Root)
    PROVE  x = Root
<1>1. {Root} \in SUBSET DOMAIN w /\ Upward(w, {Root})
  BY DEF IsTree, Upward
<1>. QED
  BY <1>1 DEF Ancestors

\* What is above an object is above its parent, and the other way round.
LEMMA AncestorStep ==
    ASSUME NEW w, IsTree(w), NEW y \in DOMAIN w, NEW x \in Ancestors(w, y), x # y
    PROVE  y # Root /\ x \in Ancestors(w, w[y].parent)
<1>1. y # Root
  BY AboveRoot
<1>2. \A S \in SUBSET DOMAIN w : w[y].parent \in S /\ Upward(w, S) => x \in S
  <2>. SUFFICES ASSUME NEW S \in SUBSET DOMAIN w, w[y].parent \in S, Upward(w, S)
                PROVE  x \in S
    OBVIOUS
  <2>1. S \cup {y} \in SUBSET DOMAIN w /\ Upward(w, S \cup {y})
    BY DEF Upward
  <2>2. x \in S \cup {y}
    BY <2>1 DEF Ancestors
  <2>. QED
    BY <2>2
<1>3. x \in DOMAIN w
  BY DEF Ancestors
<1>. QED
  BY <1>1, <1>2, <1>3 DEF Ancestors

\* What is above the parent is above the child.
LEMMA AncestorBelow ==
    ASSUME NEW w, IsTree(w), NEW y \in Objects(w), NEW x \in Ancestors(w, w[y].parent)
    PROVE  x \in Ancestors(w, y)
<1>1. \A S \in SUBSET DOMAIN w : y \in S /\ Upward(w, S) => w[y].parent \in S
  BY DEF Upward, Objects
<1>. QED
  BY <1>1 DEF Ancestors

\* To be above is transitive.
LEMMA AncestorTrans ==
    ASSUME NEW w, NEW y, NEW x \in Ancestors(w, y)
    PROVE  Ancestors(w, x) \subseteq Ancestors(w, y)
BY DEF Ancestors

\* No two objects are above each other.
LEMMA AncestorStrict ==
    ASSUME NEW w, IsTree(w), NEW y \in DOMAIN w, NEW x \in Ancestors(w, y), x # y
    PROVE  y \notin Ancestors(w, x)
<1>. SUFFICES ASSUME y \in Ancestors(w, x)
              PROVE  FALSE
  OBVIOUS
<1>. DEFINE S == {z \in DOMAIN w : x \in Ancestors(w, z) /\ y \in Ancestors(w, z)}
<1>1. x \in DOMAIN w
  BY DEF Ancestors
<1>2. S \in SUBSET DOMAIN w /\ y \in S
  BY AncestorsUp
<1>3. Upward(w, S)
  <2>. SUFFICES ASSUME NEW z \in S \ {Root}
                PROVE  w[z].parent \in S
    BY DEF Upward
  <2>1. z \in DOMAIN w /\ x \in Ancestors(w, z) /\ y \in Ancestors(w, z)
    OBVIOUS
  <2>2. w[z].parent \in DOMAIN w
    BY <2>1 DEF IsTree, Objects
  <2>. DEFINE p == w[z].parent
  <2>3. x # z => x \in Ancestors(w, p)
    BY <2>1, AncestorStep
  <2>4. y # z => y \in Ancestors(w, p)
    BY <2>1, AncestorStep
  <2>5. x \in Ancestors(w, p) => y \in Ancestors(w, p)
    BY AncestorTrans
  <2>6. y \in Ancestors(w, p) => x \in Ancestors(w, p)
    BY AncestorTrans
  <2>. QED
    BY <2>2, <2>3, <2>4, <2>5, <2>6
<1>4. Root \in S
  BY <1>2, <1>3 DEF IsTree
<1>5. x = Root /\ y = Root
  BY <1>4, AboveRoot
<1>. QED
  BY <1>5

\* An object has fewer objects above it than those below it have.
LEMMA AncestorsFewer ==
    ASSUME NEW w, IsTree(w), NEW y \in DOMAIN w, NEW x \in Ancestors(w, y), x # y
    PROVE  /\ Cardinality(Ancestors(w, x)) \in Nat /\ Cardinality(Ancestors(w, y)) \in Nat
           /\ Cardinality(Ancestors(w, x)) < Cardinality(Ancestors(w, y))
<1>1. IsFiniteSet(Ancestors(w, y))
  BY AncestorsUp, FS_Subset DEF IsTree, IsWorld
<1>2. Ancestors(w, x) \in SUBSET Ancestors(w, y) /\ Ancestors(w, x) # Ancestors(w, y)
  BY AncestorTrans, AncestorStrict, AncestorsUp
<1>3. /\ IsFiniteSet(Ancestors(w, x))
      /\ Cardinality(Ancestors(w, x)) <= Cardinality(Ancestors(w, y))
      /\ Cardinality(Ancestors(w, x)) # Cardinality(Ancestors(w, y))
  BY <1>1, <1>2, FS_Subset
<1>4. Cardinality(Ancestors(w, x)) \in Nat /\ Cardinality(Ancestors(w, y)) \in Nat
  BY <1>1, <1>3, FS_CardinalityType
<1>. QED
  BY <1>3, <1>4

\* A subtree, captured, is a tree again, and nothing below it is left out.
LEMMA SubtreeRooted ==
    ASSUME NEW w, IsTree(w), NEW x \in DOMAIN w
    PROVE  /\ Subtree(w, x) \in SUBSET DOMAIN w /\ x \in Subtree(w, x)
           /\ x # Root => Root \notin Subtree(w, x)
           /\ \A y \in Subtree(w, x) : y # x => w[y].parent \in Subtree(w, x)
           /\ \A y \in Objects(w) : w[y].parent \in Subtree(w, x) => y \in Subtree(w, x)
           /\ \A S \in SUBSET Subtree(w, x) :
                 S # {} /\ (\A y \in S : y # x => w[y].parent \in S) => x \in S
<1>1. Subtree(w, x) \in SUBSET DOMAIN w /\ x \in Subtree(w, x)
  BY AncestorsUp DEF Subtree
<1>2. x # Root => Root \notin Subtree(w, x)
  BY AboveRoot DEF Subtree
<1>3. ASSUME NEW y \in Subtree(w, x), y # x
      PROVE  w[y].parent \in Subtree(w, x)
  <2>1. y \in DOMAIN w /\ x \in Ancestors(w, y)
    BY DEF Subtree
  <2>2. y # Root /\ x \in Ancestors(w, w[y].parent)
    BY <1>3, <2>1, AncestorStep
  <2>. QED
    BY <2>1, <2>2 DEF Subtree, IsTree, Objects
<1>4. ASSUME NEW y \in Objects(w), w[y].parent \in Subtree(w, x)
      PROVE  y \in Subtree(w, x)
  <2>1. x \in Ancestors(w, w[y].parent)
    BY <1>4 DEF Subtree
  <2>. QED
    BY <2>1, AncestorBelow DEF Subtree, Objects
<1>5. ASSUME NEW S \in SUBSET Subtree(w, x), S # {}, \A y \in S : y # x => w[y].parent \in S
      PROVE  x \in S
  <2>. SUFFICES ASSUME x \notin S
                PROVE  FALSE
    OBVIOUS
  <2>1. S \in SUBSET DOMAIN w /\ Upward(w, S)
    BY <1>1, <1>5 DEF Upward
  <2>2. Root \in S
    BY <1>5, <2>1 DEF IsTree
  <2>. QED
    BY <1>2, <2>2
<1>. QED
  BY <1>1, <1>2, <1>3, <1>4, <1>5

\* A subtree is listed parents first, each object once.
LEMMA NodesOK ==
    ASSUME NEW w, IsTree(w), NEW x \in DOMAIN w
    PROVE  /\ Nodes(w, x) \in Seq(Subtree(w, x)) /\ Nodes(w, x) # <<>>
           /\ Nodes(w, x)[1] = x
           /\ Distinct(Nodes(w, x)) /\ Range(Nodes(w, x)) = Subtree(w, x)
           /\ Subtree(w, x) \subseteq DOMAIN w /\ x \in Subtree(w, x)
<1>. DEFINE S == Subtree(w, x)
            order == ParentsFirst(w, S)
            depth == [y \in S |-> Cardinality(Ancestors(w, y))]
            before(a, b) == depth[a] < depth[b] \/ (depth[a] = depth[b] /\ a < b)
<1>1. DOMAIN w \subseteq Int /\ IsFiniteSet(DOMAIN w)
  BY DEF IsTree, IsWorld
<1>2. S \subseteq DOMAIN w /\ IsFiniteSet(S)
  BY <1>1, FS_Subset DEF Subtree
<1>3. x \in S
  BY DEF Subtree, Ancestors
<1>4. ASSUME NEW y \in S
      PROVE  depth[y] \in Nat /\ y \in Int
  <2>1. Ancestors(w, y) \in SUBSET DOMAIN w
    BY DEF Ancestors
  <2>2. Cardinality(Ancestors(w, y)) \in Nat
    BY <1>1, <2>1, FS_Subset, FS_CardinalityType
  <2>. QED
    BY <1>1, <1>2, <2>2
<1>5. order = {p \in S \X S : before(p[1], p[2])}
  BY DEF ParentsFirst
<1>6. \A a, b \in S : <<a, b>> \in order <=> before(a, b)
  BY <1>5
<1>. HIDE DEF order, depth, S
<1>7. Orders(order, S)
  <2>1. ASSUME NEW y \in S PROVE ~ before(y, y)
    BY <1>4
  <2>2. ASSUME NEW a \in S, NEW b \in S, NEW c \in S, before(a, b), before(b, c)
        PROVE  before(a, c)
    BY <1>4, <2>2
  <2>3. ASSUME NEW a \in S, NEW b \in S, a # b
        PROVE  before(a, b) \/ before(b, a)
    BY <1>4, <2>3
  <2>. HIDE DEF before
  <2>. QED
    BY <1>6, <2>1, <2>2, <2>3 DEF Orders
<1>8. Nodes(w, x) = Sorted(S, order)
  BY DEF Nodes, S, order
<1>9. /\ Sorted(S, order) \in Seq(S) /\ Len(Sorted(S, order)) = Cardinality(S)
      /\ Distinct(Sorted(S, order))
      /\ \A y \in S : \E i \in DOMAIN Sorted(S, order) : Sorted(S, order)[i] = y
      /\ S # {} => \A z \in S : <<z, Sorted(S, order)[1]>> \notin order
  BY <1>2, <1>7, SortedOK
<1>10. Range(Sorted(S, order)) = S
  BY <1>9 DEF Range
<1>11. Sorted(S, order) # <<>>
  BY <1>3, <1>9
<1>12. Sorted(S, order)[1] = x
  <2>1. <<x, Sorted(S, order)[1]>> \notin order /\ Sorted(S, order)[1] \in S
    BY <1>3, <1>9, <1>11
  <2>. DEFINE y == Sorted(S, order)[1]
  <2>2. y \in DOMAIN w /\ x \in Ancestors(w, y)
    BY <2>1 DEF S, Subtree
  <2>. HIDE DEF y
  <2>3. CASE y # x
    <3>1. /\ Cardinality(Ancestors(w, x)) \in Nat /\ Cardinality(Ancestors(w, y)) \in Nat
          /\ Cardinality(Ancestors(w, x)) < Cardinality(Ancestors(w, y))
      BY <2>2, <2>3, AncestorsFewer
    <3>2. before(x, y)
      BY <1>3, <2>1, <3>1 DEF depth, y
    <3>. HIDE DEF before
    <3>. QED
      BY <1>3, <1>6, <2>1, <3>2 DEF y
  <2>. QED
    BY <2>3 DEF y
<1>. QED
  BY <1>2, <1>3, <1>8, <1>9, <1>10, <1>11, <1>12 DEF S

-----------------------------------------------------------------------------
(* What an edit does to the tree.                                          *)

\* No object has an identity that is still to be handed out.
Fresh(w, n) == n \in Nat \ {0} /\ DOMAIN w \subseteq 0 .. n - 1

\* Only parents make a tree.
LEMMA SameParents ==
    ASSUME NEW w, IsTree(w), NEW u, IsWorld(u), DOMAIN u = DOMAIN w,
           \A x \in DOMAIN w : u[x].parent = w[x].parent
    PROVE  IsTree(u)
<1>1. \A x \in Objects(u) : u[x].parent \in DOMAIN u
  BY DEF IsTree, Objects
<1>2. ASSUME NEW S \in SUBSET DOMAIN u, S # {}, Upward(u, S)
      PROVE  Root \in S
  <2>1. S \in SUBSET DOMAIN w /\ Upward(w, S)
    BY <1>2 DEF Upward
  <2>. QED
    BY <1>2, <2>1 DEF IsTree
<1>. QED
  BY <1>1, <1>2 DEF IsTree

\* The fields of an object.
LEMMA NodeFields ==
    ASSUME NEW r \in Node
    PROVE  /\ r = [lineage |-> r.lineage, value |-> r.value, parent |-> r.parent]
           /\ r.lineage \in ObjectIds /\ r.value \in Values /\ r.parent \in Int
BY DEF Node

\* A write changes one value and nothing of the tree.
LEMMA SetValueTree ==
    ASSUME NEW w, IsTree(w), NEW x \in DOMAIN w, NEW v \in Values
    PROVE  /\ SetValue(w, x, v)
                = [y \in DOMAIN w |-> IF y = x THEN [lineage |-> w[x].lineage, value |-> v,
                                                     parent |-> w[x].parent]
                                      ELSE w[y]]
           /\ IsTree(SetValue(w, x, v))
<1>. DEFINE r == [lineage |-> w[x].lineage, value |-> v, parent |-> w[x].parent]
            u == [y \in DOMAIN w |-> IF y = x THEN r ELSE w[y]]
<1>1. w[x] \in Node
  BY DEF IsTree, IsWorld
<1>2. [w[x] EXCEPT !.value = v] = r /\ r \in Node /\ r.parent = w[x].parent
  BY <1>1 DEF Node
<1>3. SetValue(w, x, v) = u
  BY <1>2 DEF SetValue, IsTree, IsWorld
<1>. HIDE DEF r
<1>4. IsWorld(u)
  BY <1>2 DEF IsTree, IsWorld
<1>5. DOMAIN u = DOMAIN w /\ \A y \in DOMAIN w : u[y].parent = w[y].parent
  BY <1>2
<1>. HIDE DEF u
<1>6. IsTree(u)
  BY <1>4, <1>5, SameParents
<1>. QED
  BY <1>3, <1>6 DEF u, r

\* A reparent the cycle check lets through leaves a tree.
LEMMA ReparentTree ==
    ASSUME NEW w, IsTree(w), NEW x \in DOMAIN w, NEW p \in DOMAIN w, CanReparent(w, x, p)
    PROVE  /\ [w EXCEPT ![x].parent = p]
                = [y \in DOMAIN w |-> IF y = x THEN [lineage |-> w[x].lineage, value |-> w[x].value,
                                                     parent |-> p]
                                      ELSE w[y]]
           /\ IsTree([w EXCEPT ![x].parent = p])
           /\ x # Root
<1>. DEFINE r == [lineage |-> w[x].lineage, value |-> w[x].value, parent |-> p]
            u == [y \in DOMAIN w |-> IF y = x THEN r ELSE w[y]]
<1>1. w[x] \in Node /\ p \in Int
  BY DEF IsTree, IsWorld
<1>2. [w[x] EXCEPT !.parent = p] = r /\ r \in Node /\ r.parent = p
  BY <1>1 DEF Node
<1>3. [w EXCEPT ![x].parent = p] = u
  BY <1>2 DEF IsTree, IsWorld
<1>. HIDE DEF r
<1>4. IsWorld(u)
  BY <1>2 DEF IsTree, IsWorld
<1>5. DOMAIN u = DOMAIN w /\ u[x].parent = p /\ \A y \in DOMAIN w \ {x} : u[y] = w[y]
  BY <1>2
<1>6. x \notin Ancestors(w, p)
  BY DEF CanReparent, Subtree
<1>7. x # Root
  BY <1>6, AncestorsUp
<1>. HIDE DEF u
<1>8. ASSUME NEW S \in SUBSET DOMAIN u, S # {}, Upward(u, S)
      PROVE  Root \in S
  <2>1. CASE x \notin S
    <3>1. S \in SUBSET DOMAIN w /\ Upward(w, S)
      BY <1>5, <1>8, <2>1 DEF Upward
    <3>. QED
      BY <1>8, <3>1 DEF IsTree
  <2>2. CASE x \in S
    <3>. DEFINE T == S \cap Ancestors(w, p)
    <3>1. p \in S
      BY <1>5, <1>7, <1>8, <2>2 DEF Upward
    <3>2. p \in T /\ T \in SUBSET DOMAIN w
      BY <3>1, <1>5, AncestorsUp
    <3>3. Upward(w, T)
      <4>1. Upward(w, Ancestors(w, p))
        BY AncestorsUp
      <4>. QED
        BY <1>5, <1>6, <1>8, <4>1 DEF Upward
    <3>4. Root \in T
      BY <3>2, <3>3 DEF IsTree
    <3>. QED
      BY <3>4
  <2>. QED
    BY <2>1, <2>2
<1>9. \A y \in Objects(u) : u[y].parent \in DOMAIN u
  BY <1>5 DEF IsTree, Objects
<1>10. IsTree(u)
  BY <1>4, <1>5, <1>8, <1>9 DEF IsTree
<1>. QED
  BY <1>3, <1>7, <1>10 DEF u, r

\* A tree without one of its subtrees is a tree.
LEMMA RemovedTree ==
    ASSUME NEW w, IsTree(w), NEW x \in Objects(w)
    PROVE  IsTree(Removed(w, x))
<1>. DEFINE u == Removed(w, x)
            D == DOMAIN w \ Subtree(w, x)
<1>1. DOMAIN u = D /\ \A y \in D : u[y] = w[y]
  BY DEF Removed
<1>2. u = [y \in DOMAIN u |-> u[y]]
  BY DEF Removed
<1>3. IsFiniteSet(D)
  BY FS_Subset DEF IsTree, IsWorld
<1>. HIDE DEF u
<1>4. IsWorld(u)
  BY <1>1, <1>2, <1>3 DEF IsTree, IsWorld
<1>5. x \in DOMAIN w /\ x # Root
  BY DEF Objects
<1>6. Root \in DOMAIN u /\ \A y \in Objects(u) : u[y].parent \in DOMAIN u
  BY <1>1, <1>5, SubtreeRooted DEF IsTree, Objects
<1>7. ASSUME NEW S \in SUBSET DOMAIN u, S # {}, Upward(u, S)
      PROVE  Root \in S
  <2>1. S \in SUBSET DOMAIN w /\ Upward(w, S)
    BY <1>1, <1>7 DEF Upward
  <2>. QED
    BY <1>7, <2>1 DEF IsTree
<1>. QED
  BY <1>4, <1>6, <1>7 DEF IsTree, u

\* A captured subtree and the place of an object in it.
Captured(objects, snapshot) ==
    /\ objects \in Seq(Int) /\ objects # <<>> /\ Distinct(objects)
    /\ snapshot \in Snapshots /\ Range(objects) \subseteq DOMAIN snapshot
    /\ Rooted(objects, snapshot)

Place(objects, x) == CHOOSE i \in DOMAIN objects : objects[i] = x

\* The copy of the i-th object.
Copied(n, objects, snapshot, p, i) ==
    [lineage |-> snapshot[objects[i]].lineage, value |-> snapshot[objects[i]].value,
     parent |-> IF i = 1 THEN p ELSE n + Place(objects, snapshot[objects[i]].parent) - 1]

\* The place of an element of a sequence without repetitions.
LEMMA PlaceOK ==
    ASSUME NEW objects \in Seq(Int), Distinct(objects)
    PROVE  /\ \A x \in Range(objects) :
                 Place(objects, x) \in DOMAIN objects /\ objects[Place(objects, x)] = x
           /\ \A i \in DOMAIN objects : objects[i] \in Range(objects) /\ Place(objects, objects[i]) = i
<1>1. ASSUME NEW x \in Range(objects)
      PROVE  Place(objects, x) \in DOMAIN objects /\ objects[Place(objects, x)] = x
  <2>1. \E i \in DOMAIN objects : objects[i] = x
    BY DEF Range
  <2>. QED
    BY <2>1, Zenon DEF Place
<1>2. ASSUME NEW i \in DOMAIN objects
      PROVE  objects[i] \in Range(objects) /\ Place(objects, objects[i]) = i
  <2>1. objects[i] \in Range(objects)
    BY DEF Range
  <2>. QED
    BY <1>1, <2>1 DEF Distinct
<1>. QED
  BY <1>1, <1>2

\* A captured subtree holds an object for each of its identities.
LEMMA SnapshotNodes ==
    ASSUME NEW objects, NEW snapshot, Captured(objects, snapshot)
    PROVE  \A i \in DOMAIN objects : snapshot[objects[i]] \in Node
<1>1. PICK D \in SUBSET Int : snapshot \in [D -> Node]
  BY DEF Captured, Snapshots
<1>2. \A i \in DOMAIN objects : objects[i] \in DOMAIN snapshot
  BY DEF Captured, Range
<1>. QED
  BY <1>1, <1>2

\* The tree with the copy in it.
Grown(w, n, objects, snapshot, p) ==
    [y \in DOMAIN w \cup (n .. n + Len(objects) - 1) |->
        IF y \in DOMAIN w THEN w[y] ELSE Copied(n, objects, snapshot, p, y - n + 1)]

\* What a restored or copied subtree adds to the hierarchy, object by object.
LEMMA AttachIs ==
    ASSUME NEW w, NEW n \in Nat, NEW objects, NEW snapshot, Captured(objects, snapshot), NEW p
    PROVE  Attach(w, n, objects, snapshot, p) = Grown(w, n, objects, snapshot, p)
<1>. DEFINE L == Len(objects)
            fresh(x) == n + Place(objects, x) - 1
            origin(y) == objects[y - n + 1]
            born == {fresh(x) : x \in Range(objects)}
            node(y) == [snapshot[origin(y)] EXCEPT !.parent =
                          IF origin(y) = objects[1] THEN p ELSE fresh(@)]
<1>1. objects \in Seq(Int) /\ L \in Nat \ {0} /\ DOMAIN objects = 1 .. L /\ Distinct(objects)
  BY DEF Captured
<1>2. Attach(w, n, objects, snapshot, p)
        = [y \in DOMAIN w \cup born |-> IF y \in DOMAIN w THEN w[y] ELSE node(y)]
  BY DEF Attach, Place
<1>3. born = n .. n + L - 1
  <2>1. ASSUME NEW y \in born
        PROVE  y \in n .. n + L - 1
    <3>1. PICK x \in Range(objects) : y = fresh(x)
      OBVIOUS
    <3>2. Place(objects, x) \in 1 .. L
      BY <1>1, PlaceOK
    <3>. HIDE DEF L
    <3>. QED
      BY <1>1, <3>1, <3>2
  <2>2. ASSUME NEW y \in n .. n + L - 1
        PROVE  y \in born
    <3>. DEFINE i == y - n + 1
    <3>1. i \in 1 .. L /\ y = n + i - 1
      <4>. HIDE DEF L
      <4>. QED
        BY <1>1
    <3>. HIDE DEF i
    <3>2. objects[i] \in Range(objects) /\ fresh(objects[i]) = y
      BY <1>1, <3>1, PlaceOK
    <3>. QED
      BY <3>2
  <2>. QED
    BY <2>1, <2>2
<1>4. ASSUME NEW y \in n .. n + L - 1
      PROVE  node(y) = Copied(n, objects, snapshot, p, y - n + 1)
  <2>. DEFINE i == y - n + 1
              r == snapshot[objects[i]]
  <2>1. i \in 1 .. L
    <3>. HIDE DEF L
    <3>. QED
      BY <1>1
  <2>2. 1 \in 1 .. L
    <3>. HIDE DEF L
    <3>. QED
      BY <1>1
  <2>. HIDE DEF i, L
  <2>3. objects[i] = objects[1] <=> i = 1
    BY <1>1, <2>1, <2>2 DEF Distinct
  <2>4. r \in Node
    BY <1>1, <2>1, SnapshotNodes
  <2>. HIDE DEF r
  <2>5. [r EXCEPT !.parent = IF objects[i] = objects[1] THEN p ELSE fresh(@)]
          = [lineage |-> r.lineage, value |-> r.value,
             parent |-> IF objects[i] = objects[1] THEN p ELSE fresh(r.parent)]
    BY <2>4 DEF Node
  <2>. QED
    BY <2>3, <2>5 DEF Copied, i, r
<1>. HIDE DEF node, born
<1>5. [y \in DOMAIN w \cup born |-> IF y \in DOMAIN w THEN w[y] ELSE node(y)]
        = [y \in DOMAIN w \cup (n .. n + L - 1) |->
             IF y \in DOMAIN w THEN w[y] ELSE Copied(n, objects, snapshot, p, y - n + 1)]
  BY <1>3, <1>4
<1>. QED
  BY <1>2, <1>5 DEF L, Grown

\* The identities the copy takes.
Block(n, objects) == n .. n + Len(objects) - 1

\* u is the tree w and a copy of the objects.
Grows(w, n, objects, u) ==
    /\ DOMAIN u = DOMAIN w \cup Block(n, objects)
    /\ \A y \in DOMAIN w : y \notin Block(n, objects) /\ u[y] = w[y]
    /\ \A y \in Block(n, objects) :
          u[y] \in Node /\ (y # n => u[y].parent \in Block(n, objects))
    /\ IsTree(u) /\ Fresh(u, n + Len(objects))

\* A captured subtree attached under a live object is part of the tree.
LEMMA AttachTree ==
    ASSUME NEW w, IsTree(w), NEW n, Fresh(w, n), NEW objects, NEW snapshot,
           Captured(objects, snapshot), NEW p \in DOMAIN w
    PROVE  Grows(w, n, objects, Attach(w, n, objects, snapshot, p))
<1>. DEFINE L == Len(objects)
            born == n .. n + L - 1
            copy(i) == Copied(n, objects, snapshot, p, i)
            u == [y \in DOMAIN w \cup born |-> IF y \in DOMAIN w THEN w[y] ELSE copy(y - n + 1)]
<1>1. objects \in Seq(Int) /\ L \in Nat \ {0} /\ DOMAIN objects = 1 .. L /\ Distinct(objects)
      /\ Rooted(objects, snapshot)
  BY DEF Captured
<1>2. n \in Nat /\ n # 0 /\ DOMAIN w \subseteq 0 .. n - 1
  BY DEF Fresh
<1>3. Attach(w, n, objects, snapshot, p) = u
  <2>1. Attach(w, n, objects, snapshot, p) = Grown(w, n, objects, snapshot, p)
    BY <1>2, AttachIs
  <2>. QED
    BY <2>1 DEF Grown
<1>. HIDE DEF L
<1>4. \A y \in born : y \in Nat /\ y - n + 1 \in 1 .. L /\ y \notin 0 .. n - 1 /\ y \in 0 .. n + L - 1
  BY <1>1, <1>2
<1>5. \A i \in 1 .. L : n + i - 1 \in born /\ n + i - 1 - n + 1 = i
  BY <1>1, <1>2
<1>. HIDE DEF born, copy
<1>6. DOMAIN u = DOMAIN w \cup born /\ (\A y \in DOMAIN w : y \notin born /\ u[y] = w[y])
      /\ \A y \in born : u[y] = copy(y - n + 1)
  BY <1>2, <1>4
<1>7. u = [y \in DOMAIN u |-> u[y]]
  OBVIOUS
<1>. HIDE DEF u
<1>8. ASSUME NEW i \in 1 .. L
      PROVE  /\ copy(i) \in Node
             /\ copy(i).parent = IF i = 1 THEN p
                                 ELSE n + Place(objects, snapshot[objects[i]].parent) - 1
             /\ i # 1 => Place(objects, snapshot[objects[i]].parent) \in 1 .. L
  <2>1. snapshot[objects[i]] \in Node
    BY <1>1, SnapshotNodes
  <2>2. i # 1 => Place(objects, snapshot[objects[i]].parent) \in 1 .. L
    <3>1. i # 1 => objects[i] # objects[1] /\ objects[i] \in Range(objects)
      BY <1>1 DEF Distinct, Range
    <3>. QED
      BY <1>1, <3>1, PlaceOK DEF Rooted
  <2>3. p \in Int
    BY DEF IsTree, IsWorld
  <2>. DEFINE q == IF i = 1 THEN p ELSE n + Place(objects, snapshot[objects[i]].parent) - 1
  <2>4. q \in Int
    BY <1>1, <1>2, <2>2, <2>3
  <2>. HIDE DEF q
  <2>5. copy(i) = [lineage |-> snapshot[objects[i]].lineage, value |-> snapshot[objects[i]].value,
                   parent |-> q]
    BY DEF copy, Copied, q
  <2>6. copy(i) \in Node
    BY <2>1, <2>4, <2>5 DEF Node
  <2>. QED
    BY <2>2, <2>5, <2>6 DEF q
<1>9. \A y \in born : u[y] \in Node
  BY <1>4, <1>6, <1>8
<1>10. IsWorld(u)
  <2>1. IsFiniteSet(born)
    BY <1>1, <1>2, FS_Interval DEF born
  <2>2. IsFiniteSet(DOMAIN w) /\ DOMAIN w \subseteq Int
    BY DEF IsTree, IsWorld
  <2>3. IsFiniteSet(DOMAIN u)
    BY <1>6, <2>1, <2>2, FS_Union, Zenon
  <2>4. DOMAIN u \subseteq Int
    BY <1>4, <1>6, <2>2
  <2>. QED
    BY <1>6, <1>7, <1>9, <2>3, <2>4 DEF IsTree, IsWorld
<1>11. ASSUME NEW y \in born, y - n + 1 # 1
       PROVE  LET q == snapshot[objects[y - n + 1]].parent
              IN  /\ q \in Range(objects) /\ u[y].parent = n + Place(objects, q) - 1
                  /\ u[y].parent \in born
  <2>. DEFINE i == y - n + 1
              q == snapshot[objects[i]].parent
  <2>1. i \in 1 .. L /\ i # 1 /\ u[y] = copy(i)
    BY <1>4, <1>6, <1>11
  <2>. HIDE DEF i
  <2>2. u[y].parent = n + Place(objects, q) - 1 /\ Place(objects, q) \in 1 .. L
    BY <1>8, <2>1
  <2>3. objects[i] # objects[1] /\ objects[i] \in Range(objects)
    BY <1>1, <2>1 DEF Distinct, Range
  <2>4. q \in Range(objects)
    BY <1>1, <2>3 DEF Rooted
  <2>. QED
    BY <1>5, <2>2, <2>4 DEF i
<1>12. \A y \in born : y - n + 1 = 1 => u[y].parent = p
  BY <1>4, <1>6, <1>8
<1>13. \A y \in Objects(u) : u[y].parent \in DOMAIN u
  BY <1>6, <1>11, <1>12 DEF IsTree, Objects
<1>14. ASSUME NEW S \in SUBSET DOMAIN u, S # {}, Upward(u, S)
       PROVE  Root \in S
  <2>1. Upward(w, S \cap DOMAIN w)
    BY <1>6, <1>14 DEF Upward, IsTree, Objects
  <2>2. CASE S \cap DOMAIN w # {}
    BY <2>1, <2>2 DEF IsTree
  <2>3. CASE S \cap DOMAIN w = {}
    <3>. DEFINE T == {objects[y - n + 1] : y \in S}
    <3>1. S \subseteq born /\ Root \notin S
      BY <1>6, <2>3 DEF IsTree
    <3>2. T \in SUBSET Range(objects) /\ T # {}
      BY <1>1, <1>4, <1>14, <3>1 DEF Range
    <3>3. ASSUME NEW x \in T, x # objects[1]
          PROVE  snapshot[x].parent \in T
      <4>1. PICK y \in S : x = objects[y - n + 1]
        OBVIOUS
      <4>2. y \in born /\ y - n + 1 # 1 /\ y # Root
        BY <3>1, <3>3, <4>1
      <4>. DEFINE q == snapshot[x].parent
                  z == u[y].parent
      <4>3. z \in S
        BY <1>14, <4>2 DEF Upward
      <4>4. q \in Range(objects) /\ z = n + Place(objects, q) - 1
        BY <1>11, <4>1, <4>2
      <4>5. Place(objects, q) \in 1 .. L /\ objects[Place(objects, q)] = q
        BY <1>1, <4>4, PlaceOK
      <4>. HIDE DEF z, q
      <4>6. z - n + 1 = Place(objects, q)
        BY <1>2, <4>4, <4>5
      <4>. QED
        BY <4>3, <4>5, <4>6 DEF q
    <3>. HIDE DEF T
    <3>4. objects[1] \in T
      BY <1>1, <3>2, <3>3 DEF Rooted
    <3>5. PICK y \in S : objects[1] = objects[y - n + 1]
      BY <3>4 DEF T
    <3>6. y \in born /\ y - n + 1 = 1
      BY <1>1, <1>4, <3>1, <3>5 DEF Distinct
    <3>7. u[y].parent \in S /\ u[y].parent = p
      BY <1>12, <1>14, <3>1, <3>6 DEF Upward
    <3>. QED
      BY <2>3, <3>7
  <2>. QED
    BY <2>2, <2>3
<1>15. IsTree(u)
  BY <1>6, <1>10, <1>13, <1>14 DEF IsTree
<1>16. Fresh(u, n + L)
  <2>1. DOMAIN u \subseteq 0 .. n + L - 1
    <3>1. \A y \in 0 .. n - 1 : y \in 0 .. n + L - 1
      BY <1>1, <1>2
    <3>. QED
      BY <1>2, <1>4, <1>6, <3>1
  <2>2. n + L \in Nat \ {0}
    BY <1>1, <1>2
  <2>. DEFINE m == n + L
  <2>3. m \in Nat \ {0} /\ DOMAIN u \subseteq 0 .. m - 1
    <3>1. n + L - 1 = m - 1
      BY <1>1, <1>2
    <3>. QED
      BY <2>1, <2>2, <3>1
  <2>. HIDE DEF m
  <2>4. Fresh(u, m)
    BY <2>3 DEF Fresh
  <2>. QED
    BY <2>4 DEF m
<1>17. \A y \in born : y # n => u[y].parent \in born
  BY <1>2, <1>4, <1>11
<1>. QED
  BY <1>3, <1>6, <1>9, <1>15, <1>16, <1>17 DEF L, born, Block, Grows

-----------------------------------------------------------------------------
(* What the records of an edit show.                                       *)

\* What Studio may see of a hierarchy is a copy.
LEMMA VisibleType ==
    ASSUME NEW w, IsWorld(w)
    PROVE  /\ Visible(w) \in Mirrors /\ DOMAIN Visible(w) = DOMAIN w
           /\ \A x \in DOMAIN w : Visible(w)[x] = [parent |-> w[x].parent, value |-> w[x].value]
<1>1. \A x \in DOMAIN w : [parent |-> w[x].parent, value |-> w[x].value] \in Copy
  BY DEF IsWorld, Node, Copy
<1>2. DOMAIN w \subseteq Int
  BY DEF IsWorld
<1>. DEFINE m == [x \in DOMAIN w |-> [parent |-> w[x].parent, value |-> w[x].value]]
<1>3. /\ m = [x \in DOMAIN m |-> m[x]] /\ DOMAIN m = DOMAIN w
      /\ \A x \in DOMAIN w : m[x] = [parent |-> w[x].parent, value |-> w[x].value]
  OBVIOUS
<1>4. m = Visible(w)
  BY DEF Visible
<1>. HIDE DEF m
<1>5. m \in Mirrors
  BY <1>1, <1>2, <1>3, MirrorType
<1>. QED
  BY <1>3, <1>4, <1>5

Made == [object : Int, value : Values, parent : Int]

\* The three records that announce an object.
Announced(e) ==
    << [type |-> "Created", object |-> e.object],
       [type |-> "Property", object |-> e.object, value |-> e.value],
       [type |-> "Reparented", object |-> e.object, parent |-> e.parent] >>

\* The records of one created object put exactly it into a copy.
LEMMA AnnouncedOK ==
    ASSUME NEW m \in Mirrors, NEW e \in Made
    PROVE  /\ Announced(e) \in Seq(Record)
           /\ Publish(m, Announced(e))
                = [x \in DOMAIN m \cup {e.object} |->
                     IF x = e.object THEN [parent |-> e.parent, value |-> e.value] ELSE m[x]]
<1>. DEFINE a == [type |-> "Created", object |-> e.object]
            b == [type |-> "Property", object |-> e.object, value |-> e.value]
            c == [type |-> "Reparented", object |-> e.object, parent |-> e.parent]
            o == e.object
            D == DOMAIN m \cup {o}
<1>1. a \in Record /\ b \in Record /\ c \in Record
  BY DEF Made, Record
<1>2. /\ a.object = o /\ b.object = o /\ c.object = o
      /\ a.type = "Created" /\ b.type = "Property" /\ c.type = "Reparented"
      /\ b.value = e.value /\ c.parent = e.parent
  OBVIOUS
<1>3. Announced(e) = Append(Append(<<a>>, b), c)
  BY DEF Announced
<1>. HIDE DEF a, b, c
<1>4. <<a>> \in Seq(Record) /\ Append(<<a>>, b) \in Seq(Record)
      /\ Append(Append(<<a>>, b), c) \in Seq(Record)
  BY <1>1
<1>. DEFINE A == MirrorApply(m, a)
            B == MirrorApply(A, b)
            C == MirrorApply(B, c)
<1>5. Publish(m, <<a>>) = A
  BY <1>1, PublishOne
<1>6. Publish(m, Append(<<a>>, b)) = MirrorApply(Publish(m, <<a>>), b)
  BY <1>1, <1>4, PublishAppend, Zenon
<1>7. Publish(m, Append(Append(<<a>>, b), c)) = MirrorApply(Publish(m, Append(<<a>>, b)), c)
  BY <1>1, <1>4, PublishAppend, Zenon
<1>8. A = [x \in D |-> IF x = o THEN [parent |-> Detached, value |-> InitialValue] ELSE m[x]]
      /\ A \in Mirrors
  <2>1. /\ A = [x \in Known(m, a) |-> IF x = a.object THEN After(m, a) ELSE m[x]]
        /\ A \in Mirrors
    BY <1>1, ApplyOne
  <2>2. Known(m, a) = D /\ After(m, a) = [parent |-> Detached, value |-> InitialValue]
    BY <1>2 DEF Known, After
  <2>. HIDE DEF A
  <2>. QED
    BY <1>2, <2>1, <2>2
<1>9. B = [x \in D |-> IF x = o THEN [parent |-> Detached, value |-> e.value] ELSE m[x]]
      /\ B \in Mirrors
  <2>1. DOMAIN A = D /\ A[o].parent = Detached /\ \A x \in D : x # o => A[x] = m[x]
    BY <1>8
  <2>2. A \in Mirrors
    BY <1>8
  <2>. HIDE DEF A
  <2>3. /\ B = [x \in Known(A, b) |-> IF x = b.object THEN After(A, b) ELSE A[x]]
        /\ B \in Mirrors
    BY <1>1, <2>2, ApplyOne
  <2>4. Known(A, b) = D /\ After(A, b) = [parent |-> Detached, value |-> e.value]
    BY <1>2, <2>1 DEF Known, After
  <2>. HIDE DEF B
  <2>. QED
    BY <1>2, <2>1, <2>3, <2>4
<1>10. C = [x \in D |-> IF x = o THEN [parent |-> e.parent, value |-> e.value] ELSE m[x]]
  <2>1. DOMAIN B = D /\ B[o].value = e.value /\ \A x \in D : x # o => B[x] = m[x]
    BY <1>9
  <2>2. B \in Mirrors
    BY <1>9
  <2>. HIDE DEF B
  <2>3. C = [x \in Known(B, c) |-> IF x = c.object THEN After(B, c) ELSE B[x]]
    BY <1>1, <2>2, ApplyOne
  <2>4. Known(B, c) = D /\ After(B, c) = [parent |-> e.parent, value |-> e.value]
    BY <1>2, <2>1 DEF Known, After
  <2>. HIDE DEF C
  <2>. QED
    BY <1>2, <2>1, <2>3, <2>4
<1>. QED
  BY <1>3, <1>4, <1>5, <1>6, <1>7, <1>10

\* A copy in which the objects of S are shown as they are in u.
Updated(m, u, S) ==
    [x \in DOMAIN m \cup S |->
        IF x \in S THEN [parent |-> u[x].parent, value |-> u[x].value] ELSE m[x]]

\* The journal of new objects shows them as they are.
LEMMA CreatedOK ==
    ASSUME NEW u, IsWorld(u), NEW ns \in Seq(DOMAIN u), NEW m \in Mirrors
    PROVE  /\ CreatedRecords(u, ns) \in Seq(Record)
           /\ Publish(m, CreatedRecords(u, ns)) = Updated(m, u, Range(ns))
<1>. DEFINE made(x) == [object |-> x, value |-> u[x].value, parent |-> u[x].parent]
            S == {made(x) : x \in DOMAIN u}
            R(t) == Announcing!Fold(<<>>, t)
            shown(o) == [x \in DOMAIN m \cup o |->
                           IF x \in o THEN [parent |-> u[x].parent, value |-> u[x].value] ELSE m[x]]
            named(t) == {t[i].object : i \in DOMAIN t}
            B == {t \in Seq(S) : R(t) \in Seq(Record) /\ Publish(m, R(t)) = shown(named(t))}
<1>1. ASSUME NEW e \in S
      PROVE  /\ e \in Made /\ e.object \in DOMAIN u
             /\ e.value = u[e.object].value /\ e.parent = u[e.object].parent
  BY DEF IsWorld, Node, Made
<1>2. <<>> \in B
  <2>1. R(<<>>) = <<>>
    BY Announcing!FoldEmpty
  <2>2. Publish(m, <<>>) = m
    BY PublishEmpty
  <2>3. shown({}) = m /\ named(<<>>) = {}
    BY MirrorType
  <2>4. <<>> \in Seq(S) /\ <<>> \in Seq(Record)
    OBVIOUS
  <2>. HIDE DEF S, R, shown, named
  <2>. QED
    BY <2>1, <2>2, <2>3, <2>4
<1>3. ASSUME NEW t \in Seq(S), NEW e \in S, t \in B
      PROVE  Append(t, e) \in B
  <2>. DEFINE M == Publish(m, R(t))
  <2>1. Announcing!Fold(<<>>, Append(t, e)) = WithCreated(Announcing!Fold(<<>>, t), e)
    BY Announcing!FoldAppend, Zenon
  <2>2. R(Append(t, e)) = R(t) \o Announced(e)
    BY <2>1 DEF WithCreated, Announced
  <2>3. M \in Mirrors /\ R(t) \in Seq(Record) /\ M = shown(named(t))
    BY <1>3, PublishType
  <2>. DEFINE rs == R(t)
  <2>. HIDE DEF R, M, shown
  <2>4. Announced(e) \in Seq(Record)
        /\ Publish(M, Announced(e))
             = [x \in DOMAIN M \cup {e.object} |->
                  IF x = e.object THEN [parent |-> e.parent, value |-> e.value] ELSE M[x]]
    BY <1>1, <2>3, AnnouncedOK
  <2>5. Publish(m, R(t) \o Announced(e)) = Publish(M, Announced(e))
    BY <2>3, <2>4, PublishConcat DEF M
  <2>6. named(Append(t, e)) = named(t) \cup {e.object} /\ Append(t, e) \in Seq(S)
    <3>. DEFINE w == Append(t, e)
                n == Len(t)
    <3>1. /\ n \in Nat /\ DOMAIN t = 1 .. n /\ DOMAIN w = 1 .. n + 1 /\ w[n + 1] = e
          /\ w \in Seq(S) /\ \A i \in 1 .. n : w[i] = t[i]
      <4>. HIDE DEF S
      <4>. QED
        BY AppendProperties
    <3>. HIDE DEF w, n, S
    <3>2. DOMAIN w = DOMAIN t \cup {n + 1}
      BY <3>1
    <3>3. named(w) = named(t) \cup {e.object}
      BY <3>1, <3>2
    <3>. QED
      BY <3>1, <3>3 DEF w
  <2>7. [x \in DOMAIN M \cup {e.object} |->
           IF x = e.object THEN [parent |-> e.parent, value |-> e.value] ELSE M[x]]
          = shown(named(t) \cup {e.object})
    <3>. HIDE DEF named
    <3>. QED
      BY <1>1, <2>3 DEF shown
  <2>8. R(t) \o Announced(e) \in Seq(Record)
    BY <2>3, <2>4
  <2>. QED
    BY <2>2, <2>4, <2>5, <2>6, <2>7, <2>8
<1>. DEFINE t == [i \in DOMAIN ns |-> made(ns[i])]
<1>4. t \in Seq(S) /\ named(t) = Range(ns)
  BY DEF Range
<1>5. CreatedRecords(u, ns) = R(t)
  BY CreatedFold
<1>. HIDE DEF B, t
<1>6. Seq(S) \subseteq B
  <2>. HIDE DEF S
  <2>. QED
    BY <1>2, <1>3, SequenceInduction
<1>7. t \in B
  BY <1>4, <1>6
<1>8. R(t) \in Seq(Record) /\ Publish(m, R(t)) = shown(named(t))
  <2>. HIDE DEF R, shown, named, S
  <2>. QED
    BY <1>7 DEF B
<1>9. Publish(m, R(t)) = shown(Range(ns))
  <2>. HIDE DEF R, shown, named, S
  <2>. QED
    BY <1>4, <1>8
<1>. QED
  BY <1>5, <1>8, <1>9 DEF Updated

\* A removed object is gone from the copy.
LEMMA RemovedRecords ==
    ASSUME NEW m \in Mirrors, NEW x \in Int
    PROVE  LET rs == << [type |-> "Reparented", object |-> x, parent |-> Detached],
                        [type |-> "Destroyed", object |-> x] >>
           IN  rs \in Seq(Record) /\ Publish(m, rs) = [y \in DOMAIN m \ {x} |-> m[y]]
<1>. DEFINE a == [type |-> "Reparented", object |-> x, parent |-> Detached]
            b == [type |-> "Destroyed", object |-> x]
            A == MirrorApply(m, a)
            B == MirrorApply(A, b)
<1>1. a \in Record /\ b \in Record
  BY DEF Record, Detached
<1>2. a.object = x /\ b.object = x /\ a.type = "Reparented" /\ b.type = "Destroyed"
  OBVIOUS
<1>3. << a, b >> = Append(<<a>>, b)
  OBVIOUS
<1>. HIDE DEF a, b
<1>4. <<a>> \in Seq(Record) /\ <<a, b>> \in Seq(Record)
  BY <1>1
<1>5. Publish(m, <<a>>) = A
  BY <1>1, PublishOne
<1>6. Publish(m, Append(<<a>>, b)) = MirrorApply(Publish(m, <<a>>), b)
  BY <1>1, <1>4, PublishAppend, Zenon
<1>7. /\ A = [y \in Known(m, a) |-> IF y = a.object THEN After(m, a) ELSE m[y]]
      /\ A \in Mirrors
  BY <1>1, ApplyOne
<1>8. Known(m, a) = DOMAIN m
  BY <1>2 DEF Known
<1>. HIDE DEF A
<1>9. B = [y \in Known(A, b) |-> IF y = b.object THEN After(A, b) ELSE A[y]]
  BY <1>1, <1>7, ApplyOne
<1>10. Known(A, b) = DOMAIN m \ {x}
  BY <1>2, <1>7, <1>8 DEF Known
<1>. HIDE DEF B
<1>11. B = [y \in DOMAIN m \ {x} |-> m[y]]
  BY <1>2, <1>7, <1>8, <1>9, <1>10
<1>12. Publish(m, <<a, b>>) = B
  BY <1>3, <1>5, <1>6 DEF B
<1>. QED
  BY <1>4, <1>11, <1>12 DEF a, b

\* The records that bury objects take exactly these from a copy.
LEMMA DestroyedOK ==
    ASSUME NEW ns \in Seq(Int)
    PROVE  /\ DestroyedRecords(ns) \in Seq(Record)
           /\ \A m \in Mirrors :
                 Publish(m, DestroyedRecords(ns)) = [y \in DOMAIN m \ Range(ns) |-> m[y]]
<1>. DEFINE R(t) == Burying!Fold(<<>>, t)
            left(m, o) == [y \in DOMAIN m \ o |-> m[y]]
            B == {t \in Seq(Int) : /\ R(t) \in Seq(Record)
                                   /\ \A m \in Mirrors : Publish(m, R(t)) = left(m, Range(t))}
<1>1. <<>> \in B
  <2>1. R(<<>>) = <<>>
    BY Burying!FoldEmpty
  <2>2. \A m \in Mirrors : Publish(m, <<>>) = m
    BY PublishEmpty
  <2>3. \A m \in Mirrors : left(m, {}) = m
    BY MirrorType
  <2>4. <<>> \in Seq(Int) /\ <<>> \in Seq(Record) /\ Range(<<>>) = {}
    BY DEF Range
  <2>. HIDE DEF R, left
  <2>. QED
    BY <2>1, <2>2, <2>3, <2>4
<1>2. ASSUME NEW t \in Seq(Int), NEW x \in Int, t \in B
      PROVE  Append(t, x) \in B
  <2>. DEFINE two == << [type |-> "Reparented", object |-> x, parent |-> Detached],
                        [type |-> "Destroyed", object |-> x] >>
  <2>1. Burying!Fold(<<>>, Append(t, x)) = WithDestroyed(Burying!Fold(<<>>, t), x)
    BY Burying!FoldAppend, Zenon
  <2>2. R(Append(t, x)) = two \o R(t)
    BY <2>1 DEF WithDestroyed
  <2>3. two \in Seq(Record) /\ \A m \in Mirrors : Publish(m, two) = left(m, {x})
    <3>1. two \in Seq(Record)
      BY DEF Record, Detached
    <3>2. ASSUME NEW m \in Mirrors
          PROVE  Publish(m, two) = left(m, {x})
      BY RemovedRecords
    <3>. QED
      BY <3>1, <3>2
  <2>4. R(t) \in Seq(Record) /\ \A m \in Mirrors : Publish(m, R(t)) = left(m, Range(t))
    <3>. HIDE DEF R, left
    <3>. QED
      BY <1>2
  <2>. HIDE DEF R, two
  <2>5. two \o R(t) \in Seq(Record)
    BY <2>3, <2>4
  <2>6. Range(Append(t, x)) = Range(t) \cup {x} /\ Append(t, x) \in Seq(Int)
    <3>. DEFINE w == Append(t, x)
                n == Len(t)
    <3>1. /\ n \in Nat /\ DOMAIN t = 1 .. n /\ DOMAIN w = 1 .. n + 1 /\ w[n + 1] = x
          /\ w \in Seq(Int) /\ \A i \in 1 .. n : w[i] = t[i]
      BY AppendProperties
    <3>. HIDE DEF w, n
    <3>2. DOMAIN w = DOMAIN t \cup {n + 1}
      BY <3>1
    <3>3. Range(w) = Range(t) \cup {x}
      BY <3>1, <3>2 DEF Range
    <3>. QED
      BY <3>1, <3>3 DEF w
  <2>7. ASSUME NEW m \in Mirrors
        PROVE  Publish(m, two \o R(t)) = left(m, Range(t) \cup {x})
    <3>. DEFINE M == Publish(m, two)
    <3>1. Publish(m, two \o R(t)) = Publish(M, R(t))
      BY <2>3, <2>4, PublishConcat
    <3>2. M \in Mirrors /\ M = left(m, {x})
      BY <2>3, PublishType
    <3>. HIDE DEF M
    <3>3. Publish(M, R(t)) = left(M, Range(t))
      <4>. HIDE DEF left
      <4>. QED
        BY <2>4, <3>2
    <3>4. left(M, Range(t)) = left(m, Range(t) \cup {x})
      BY <3>2
    <3>. QED
      BY <3>1, <3>3, <3>4
  <2>. HIDE DEF left
  <2>. QED
    BY <2>2, <2>5, <2>6, <2>7
<1>. HIDE DEF B
<1>3. Seq(Int) \subseteq B
  BY <1>1, <1>2, SequenceInduction
<1>4. DestroyedRecords(ns) = R(ns)
  BY DestroyedFold
<1>5. R(ns) \in Seq(Record) /\ \A m \in Mirrors : Publish(m, R(ns)) = left(m, Range(ns))
  <2>. HIDE DEF R, left
  <2>. QED
    BY <1>3 DEF B
<1>. QED
  BY <1>4, <1>5

\* The record of a stored value shows it.
LEMMA ValueShown ==
    ASSUME NEW w, IsTree(w), NEW x \in DOMAIN w, NEW v \in Values
    PROVE  LET r == [type |-> "Property", object |-> x, value |-> v]
           IN  r \in Record /\ MirrorApply(Visible(w), r) = Visible(SetValue(w, x, v))
<1>. DEFINE r == [type |-> "Property", object |-> x, value |-> v]
            m == Visible(w)
<1>1. r \in Record /\ r.type = "Property" /\ r.object = x /\ r.value = v
  BY DEF Record, IsTree, IsWorld
<1>2. m \in Mirrors /\ DOMAIN m = DOMAIN w
      /\ \A y \in DOMAIN w : m[y] = [parent |-> w[y].parent, value |-> w[y].value]
  BY VisibleType DEF IsTree
<1>3. SetValue(w, x, v)
        = [y \in DOMAIN w |-> IF y = x THEN [lineage |-> w[x].lineage, value |-> v,
                                             parent |-> w[x].parent]
                              ELSE w[y]]
  BY SetValueTree
<1>. HIDE DEF m, r
<1>4. MirrorApply(m, r) = [y \in Known(m, r) |-> IF y = r.object THEN After(m, r) ELSE m[y]]
  BY <1>1, <1>2, ApplyOne
<1>5. Known(m, r) = DOMAIN w /\ After(m, r) = [parent |-> w[x].parent, value |-> v]
  BY <1>1, <1>2 DEF Known, After
<1>6. MirrorApply(m, r) = Visible(SetValue(w, x, v))
  BY <1>1, <1>2, <1>3, <1>4, <1>5 DEF Visible
<1>. QED
  BY <1>1, <1>6 DEF m, r

\* A batch stores values and nothing else, and its records show them.
LEMMA StoredOK ==
    ASSUME NEW w, IsTree(w), NEW X, NEW cs \in Seq(X),
           \A c \in X : c.object \in DOMAIN w /\ c.after \in Values
    PROVE  /\ IsTree(Stored(w, cs)) /\ DOMAIN Stored(w, cs) = DOMAIN w
           /\ ValueRecords(cs) \in Seq(Record)
           /\ Publish(Visible(w), ValueRecords(cs)) = Visible(Stored(w, cs))
<1>. DEFINE R(t) == Storing!Fold(w, t)
            B == {t \in Seq(X) : /\ IsTree(R(t)) /\ DOMAIN R(t) = DOMAIN w
                                 /\ ValueRecords(t) \in Seq(Record)
                                 /\ Publish(Visible(w), ValueRecords(t)) = Visible(R(t))}
<1>1. <<>> \in B
  <2>1. R(<<>>) = w
    BY Storing!FoldEmpty
  <2>2. ValueRecords(<<>>) = <<>>
    BY DEF ValueRecords
  <2>3. Publish(Visible(w), <<>>) = Visible(w)
    BY PublishEmpty
  <2>4. <<>> \in Seq(X) /\ <<>> \in Seq(Record)
    OBVIOUS
  <2>. HIDE DEF R
  <2>. QED
    BY <2>1, <2>2, <2>3, <2>4
<1>2. ASSUME NEW t \in Seq(X), NEW c \in X, t \in B
      PROVE  Append(t, c) \in B
  <2>. DEFINE x == c.object
              v == c.after
              r == [type |-> "Property", object |-> x, value |-> v]
              W == R(t)
              V == ValueRecords(t)
  <2>1. Storing!Fold(w, Append(t, c)) = Store(Storing!Fold(w, t), c)
    BY Storing!FoldAppend, Zenon
  <2>2. R(Append(t, c)) = SetValue(W, x, v)
    BY <2>1 DEF Store
  <2>3. IsTree(W) /\ DOMAIN W = DOMAIN w /\ V \in Seq(Record) /\ Publish(Visible(w), V) = Visible(W)
    BY <1>2
  <2>4. x \in DOMAIN W /\ v \in Values
    BY <2>3
  <2>5. Append(t, c) \in Seq(X) /\ ValueRecords(Append(t, c)) = Append(V, r)
    <3>. DEFINE u == Append(t, c)
                n == Len(t)
    <3>1. /\ n \in Nat /\ DOMAIN t = 1 .. n /\ DOMAIN u = 1 .. n + 1 /\ u[n + 1] = c
          /\ u \in Seq(X) /\ \A i \in 1 .. n : u[i] = t[i]
      BY AppendProperties
    <3>. DEFINE rec(e) == [type |-> "Property", object |-> e.object, value |-> e.after]
    <3>2. ValueRecords(u) = [i \in DOMAIN u |-> rec(u[i])] /\ V = [i \in DOMAIN t |-> rec(t[i])]
      BY DEF ValueRecords
    <3>. HIDE DEF rec, n, u, V
    <3>3. Append(V, rec(c)) = [i \in 1 .. n + 1 |-> rec(u[i])]
      <4>. DEFINE f(i) == rec(u[i])
                  Y == {f(i) : i \in 1 .. n + 1}
      <4>1. V = [i \in 1 .. n |-> f(i)]
        BY <3>1, <3>2
      <4>2. rec(c) = f(n + 1) /\ n + 1 \in 1 .. n + 1
        BY <3>1
      <4>3. \A i \in 1 .. n : f(i) \in Y
        BY <3>1
      <4>4. f(n + 1) \in Y
        BY <4>2
      <4>. HIDE DEF f, Y
      <4>5. V \in Seq(Y) /\ Len(V) = n
        BY <3>1, <4>1, <4>3
      <4>6. Append(V, f(n + 1)) = [i \in 1 .. n + 1 |-> f(i)]
        BY <3>1, <4>1, <4>4, <4>5
      <4>. QED
        BY <4>2, <4>6 DEF f
    <3>4. ValueRecords(u) = Append(V, rec(c))
      BY <3>1, <3>2, <3>3
    <3>. QED
      BY <3>1, <3>4 DEF rec, u
  <2>6. r \in Record /\ MirrorApply(Visible(W), r) = Visible(SetValue(W, x, v))
    BY <2>3, <2>4, ValueShown
  <2>7. IsTree(SetValue(W, x, v)) /\ DOMAIN SetValue(W, x, v) = DOMAIN w
    BY <2>3, <2>4, SetValueTree
  <2>. HIDE DEF R, W, V, x, v, r
  <2>8. Publish(Visible(w), Append(V, r)) = MirrorApply(Publish(Visible(w), V), r)
    BY <2>3, <2>6, PublishAppend, Zenon
  <2>9. Append(V, r) \in Seq(Record)
    BY <2>3, <2>6
  <2>10. Publish(Visible(w), Append(V, r)) = Visible(SetValue(W, x, v))
    BY <2>3, <2>6, <2>8
  <2>. QED
    BY <2>2, <2>5, <2>7, <2>9, <2>10
<1>. HIDE DEF B
<1>3. Seq(X) \subseteq B
  BY <1>1, <1>2, SequenceInduction
<1>4. Stored(w, cs) = R(cs)
  BY StoredFold
<1>5. cs \in B
  BY <1>3
<1>. QED
  BY <1>4, <1>5 DEF B

-----------------------------------------------------------------------------
(* What a command of the gateway does.                                     *)

\* It leaves a tree, takes its identities from the registry, and its records
\* bring a copy of the old tree to the new one.
Faithful(w, e) ==
    /\ IsTree(e.world) /\ Fresh(e.world, e.next)
    /\ e.records \in Seq(Record) /\ Publish(Visible(w), e.records) = Visible(e.world)

\* A property write is faithful to its records and its change.
LEMMA PropertyOK ==
    ASSUME NEW w, IsTree(w), NEW n, Fresh(w, n), NEW x \in DOMAIN w, NEW v \in Values
    PROVE  LET e == PropertyEffect(w, n, x, v)
           IN  Faithful(w, e) /\ e.change \in Change
<1>. DEFINE r == [type |-> "Property", object |-> x, value |-> v]
            c == [kind |-> "Property", object |-> x, before |-> w[x].value, after |-> v]
            u == SetValue(w, x, v)
            e == PropertyEffect(w, n, x, v)
<1>1. r \in Record /\ MirrorApply(Visible(w), r) = Visible(u)
  BY ValueShown
<1>2. IsTree(u) /\ DOMAIN u = DOMAIN w
  BY SetValueTree
<1>3. c \in Change
  BY DEF Change, PropertyChange, IsTree, IsWorld, Node
<1>4. e.world = u /\ e.next = n /\ e.records = <<r>> /\ e.change = c
  BY DEF PropertyEffect
<1>. HIDE DEF r, u, c, e
<1>5. Publish(Visible(w), <<r>>) = Visible(u) /\ <<r>> \in Seq(Record)
  BY <1>1, PublishOne
<1>6. Fresh(u, n)
  BY <1>2 DEF Fresh
<1>7. Faithful(w, e) /\ e.change \in Change
  BY <1>2, <1>3, <1>4, <1>5, <1>6 DEF Faithful
<1>. QED
  BY <1>7 DEF e

\* A reparent is faithful to its records and its change.
LEMMA ReparentOK ==
    ASSUME NEW w, IsTree(w), NEW n, Fresh(w, n), NEW x \in DOMAIN w, NEW p \in DOMAIN w,
           CanReparent(w, x, p)
    PROVE  LET e == ReparentEffect(w, n, x, p)
           IN  Faithful(w, e) /\ e.change \in Change
<1>. DEFINE r == [type |-> "Reparented", object |-> x, parent |-> p]
            c == [kind |-> "Reparent", object |-> x, before |-> w[x].parent, after |-> p]
            u == [w EXCEPT ![x].parent = p]
            e == ReparentEffect(w, n, x, p)
            m == Visible(w)
<1>1. r \in Record /\ r.type = "Reparented" /\ r.object = x /\ r.parent = p
  BY DEF Record, IsTree, IsWorld
<1>2. /\ u = [y \in DOMAIN w |-> IF y = x THEN [lineage |-> w[x].lineage, value |-> w[x].value,
                                               parent |-> p]
                                ELSE w[y]]
      /\ IsTree(u)
  BY ReparentTree
<1>3. c \in Change
  BY DEF Change, ReparentChange, IsTree, IsWorld, Node
<1>4. e.world = u /\ e.next = n /\ e.records = <<r>> /\ e.change = c
  BY DEF ReparentEffect
<1>5. m \in Mirrors /\ DOMAIN m = DOMAIN w
      /\ \A y \in DOMAIN w : m[y] = [parent |-> w[y].parent, value |-> w[y].value]
  BY VisibleType DEF IsTree
<1>. HIDE DEF r, u, c, e, m
<1>6. MirrorApply(m, r) = [y \in Known(m, r) |-> IF y = r.object THEN After(m, r) ELSE m[y]]
  BY <1>1, <1>5, ApplyOne
<1>7. Known(m, r) = DOMAIN w /\ After(m, r) = [parent |-> p, value |-> w[x].value]
  BY <1>1, <1>5 DEF Known, After
<1>8. MirrorApply(m, r) = Visible(u)
  BY <1>1, <1>2, <1>5, <1>6, <1>7 DEF Visible
<1>9. Publish(m, <<r>>) = Visible(u) /\ <<r>> \in Seq(Record)
  BY <1>1, <1>8, PublishOne
<1>10. Fresh(u, n)
  BY <1>2 DEF Fresh
<1>11. Faithful(w, e) /\ e.change \in Change
  BY <1>2, <1>3, <1>4, <1>9, <1>10 DEF Faithful, m
<1>. QED
  BY <1>11 DEF e

\* A captured subtree makes a change of either kind.
LEMMA SubtreeIsChange ==
    ASSUME NEW kind \in {"Create", "Destroy", "Duplicate"}, NEW root \in Int \ {Root},
           NEW parent \in Int, NEW objects, NEW snapshot, Captured(objects, snapshot),
           Root \notin Range(objects)
    PROVE  [kind |-> kind, root |-> root, parent |-> parent, objects |-> objects,
            snapshot |-> snapshot] \in Change
<1>. DEFINE c == [kind |-> kind, root |-> root, parent |-> parent, objects |-> objects,
                  snapshot |-> snapshot]
<1>1. objects \in Seq(Int) /\ snapshot \in Snapshots
  BY DEF Captured
<1>2. c \in SubtreeRecord
  BY <1>1 DEF SubtreeRecord
<1>3. c.root # Root /\ c.objects = objects /\ c.snapshot = snapshot
  OBVIOUS
<1>. HIDE DEF c
<1>4. c \in SubtreeChange
  BY <1>2, <1>3 DEF SubtreeChange, Captured
<1>. QED
  BY <1>4 DEF Change, c

\* What a change holds of a subtree can be attached.
LEMMA ChangeIsSubtree ==
    ASSUME NEW c \in Change, c.kind \notin {"Property", "Reparent"}
    PROVE  /\ Captured(c.objects, c.snapshot) /\ Root \notin Range(c.objects)
           /\ c.root \in Int \ {Root} /\ c.parent \in Int
<1>1. c \in SubtreeChange
  BY DEF Change, PropertyChange, ReparentChange
<1>. QED
  BY <1>1 DEF SubtreeChange, SubtreeRecord, Captured

\* What is captured of a live subtree starts with its root and is closed.
LEMMA CaptureOK ==
    ASSUME NEW w, IsTree(w), NEW x \in DOMAIN w
    PROVE  Captured(Nodes(w, x), [y \in Subtree(w, x) |-> w[y]])
<1>. DEFINE objects == Nodes(w, x)
            S == Subtree(w, x)
            snapshot == [y \in S |-> w[y]]
<1>1. /\ objects \in Seq(S) /\ objects # <<>> /\ objects[1] = x
      /\ Distinct(objects) /\ Range(objects) = S /\ S \subseteq DOMAIN w
  BY NodesOK
<1>2. DOMAIN w \subseteq Int /\ \A y \in DOMAIN w : w[y] \in Node
  BY DEF IsTree, IsWorld
<1>3. /\ \A y \in S : y # x => w[y].parent \in S
      /\ \A T \in SUBSET S : T # {} /\ (\A y \in T : y # x => w[y].parent \in T) => x \in T
  BY SubtreeRooted
<1>. HIDE DEF objects, S
<1>4. DOMAIN snapshot = S /\ \A y \in S : snapshot[y] = w[y]
  OBVIOUS
<1>5. snapshot \in [S -> Node] /\ S \in SUBSET Int
  BY <1>1, <1>2
<1>. HIDE DEF snapshot
<1>6. snapshot \in Snapshots
  BY <1>5 DEF Snapshots
<1>7. Rooted(objects, snapshot)
  <2>1. \A y \in S : y # x => snapshot[y].parent \in S
    BY <1>3, <1>4
  <2>2. ASSUME NEW T \in SUBSET S, T # {}, \A y \in T : y # x => snapshot[y].parent \in T
        PROVE  x \in T
    <3>1. \A y \in T : y # x => w[y].parent \in T
      BY <1>4, <2>2
    <3>. QED
      BY <1>3, <2>2, <3>1
  <2>. QED
    BY <1>1, <2>1, <2>2 DEF Rooted
<1>8. objects \in Seq(Int)
  BY <1>1, <1>2
<1>. QED
  BY <1>1, <1>4, <1>6, <1>7, <1>8 DEF Captured, objects, S, snapshot

\* Announcing what is new brings a copy up to date.
LEMMA GrownShown ==
    ASSUME NEW w, IsWorld(w), NEW u, IsWorld(u), NEW ns \in Seq(DOMAIN u),
           DOMAIN u = DOMAIN w \cup Range(ns), \A y \in DOMAIN w \ Range(ns) : u[y] = w[y]
    PROVE  /\ CreatedRecords(u, ns) \in Seq(Record)
           /\ Publish(Visible(w), CreatedRecords(u, ns)) = Visible(u)
<1>. DEFINE m == Visible(w)
<1>1. m \in Mirrors /\ DOMAIN m = DOMAIN w
      /\ \A y \in DOMAIN w : m[y] = [parent |-> w[y].parent, value |-> w[y].value]
  BY VisibleType
<1>. HIDE DEF m
<1>2. /\ CreatedRecords(u, ns) \in Seq(Record)
      /\ Publish(m, CreatedRecords(u, ns)) = Updated(m, u, Range(ns))
  BY <1>1, CreatedOK
<1>3. Publish(m, CreatedRecords(u, ns)) = Visible(u)
  BY <1>1, <1>2 DEF Visible, Updated
<1>. QED
  BY <1>2, <1>3 DEF m

\* Sequences over a subset.
LEMMA SeqWider ==
    ASSUME NEW S, NEW T, S \subseteq T
    PROVE  Seq(S) \subseteq Seq(T)
OBVIOUS

\* The identities handed out to a new subtree are a block of new ones.
LEMMA BornOK ==
    ASSUME NEW n \in Nat, NEW objects \in Seq(Int)
    PROVE  LET born == Block(n, objects)
           IN  /\ Born(n, objects) \in Seq(born) /\ Len(Born(n, objects)) = Len(objects)
               /\ Range(Born(n, objects)) = born
               /\ Distinct(Born(n, objects))
               /\ objects # <<>> => Born(n, objects) # <<>> /\ Born(n, objects)[1] = n
<1>. DEFINE L == Len(objects)
            born == n .. n + L - 1
            f(i) == n + i - 1
            ns == [i \in 1 .. L |-> f(i)]
<1>1. L \in Nat /\ DOMAIN objects = 1 .. L
  OBVIOUS
<1>2. Born(n, objects) = ns
  BY <1>1 DEF Born
<1>. HIDE DEF L
<1>3. \A i \in 1 .. L : f(i) \in born
  BY <1>1
<1>4. \A y \in born : y - n + 1 \in 1 .. L /\ f(y - n + 1) = y
  BY <1>1
<1>5. \A i, j \in 1 .. L : f(i) = f(j) => i = j
  BY <1>1
<1>6. f(1) = n
  OBVIOUS
<1>. HIDE DEF f, born
<1>7. ns \in Seq(born) /\ Len(ns) = L /\ DOMAIN ns = 1 .. L /\ \A i \in 1 .. L : ns[i] = f(i)
  BY <1>1, <1>3
<1>. HIDE DEF ns
<1>8. Range(ns) = born
  BY <1>3, <1>4, <1>7 DEF Range
<1>9. Distinct(ns)
  BY <1>5, <1>7 DEF Distinct
<1>10. ASSUME objects # <<>>
       PROVE  ns # <<>> /\ ns[1] = n
  <2>1. L # 0
    BY <1>10 DEF L
  <2>2. 1 \in 1 .. L
    BY <1>1, <2>1
  <2>. QED
    BY <1>6, <1>7, <2>2
<1>. QED
  BY <1>2, <1>7, <1>8, <1>9, <1>10 DEF born, L, Block

\* Restoring a captured subtree.
LEMMA RestoreOK ==
    ASSUME NEW w, IsTree(w), NEW n, Fresh(w, n), NEW objects, NEW snapshot,
           Captured(objects, snapshot), NEW p \in DOMAIN w
    PROVE  LET u == Attach(w, n, objects, snapshot, p)
               rs == CreatedRecords(u, Born(n, objects))
           IN  /\ IsTree(u) /\ Fresh(u, n + Len(objects))
               /\ rs \in Seq(Record) /\ Publish(Visible(w), rs) = Visible(u)
<1>. DEFINE u == Attach(w, n, objects, snapshot, p)
            born == Block(n, objects)
            ns == Born(n, objects)
<1>1. /\ DOMAIN u = DOMAIN w \cup born
      /\ \A y \in DOMAIN w : y \notin born /\ u[y] = w[y]
      /\ IsTree(u) /\ Fresh(u, n + Len(objects))
  <2>1. Grows(w, n, objects, u)
    BY AttachTree
  <2>. HIDE DEF u, born
  <2>. QED
    BY <2>1 DEF Grows, born
<1>2. n \in Nat /\ objects \in Seq(Int)
  BY DEF Fresh, Captured
<1>3. ns \in Seq(born) /\ Range(ns) = born
  BY <1>2, BornOK
<1>. HIDE DEF u, born, ns
<1>4. ns \in Seq(DOMAIN u) /\ DOMAIN u = DOMAIN w \cup Range(ns)
      /\ \A y \in DOMAIN w \ Range(ns) : u[y] = w[y]
  BY <1>1, <1>3
<1>5. CreatedRecords(u, ns) \in Seq(Record)
      /\ Publish(Visible(w), CreatedRecords(u, ns)) = Visible(u)
  BY <1>1, <1>4, GrownShown DEF IsTree
<1>. QED
  BY <1>1, <1>5 DEF u, ns

\* A creation is faithful to its records and its change.
LEMMA CreateOK ==
    ASSUME NEW w, IsTree(w), NEW n, Fresh(w, n), n \in ObjectIds, NEW p \in DOMAIN w,
           NEW v \in Values
    PROVE  LET e == CreateEffect(w, n, p, v)
           IN  Faithful(w, e) /\ e.change \in Change
<1>. DEFINE made == [lineage |-> n, parent |-> p, value |-> v]
            alone == [y \in {n} |-> made]
            one == <<n>>
            u == Attach(w, n, one, alone, p)
            rs == CreatedRecords(u, one)
            c == [kind |-> "Create", root |-> n, parent |-> p, objects |-> one, snapshot |-> alone]
            e == CreateEffect(w, n, p, v)
<1>1. e.world = u /\ e.next = n + 1 /\ e.records = rs /\ e.change = c
  BY DEF CreateEffect
<1>2. n \in Nat /\ n # 0 /\ n \in Int /\ p \in Int
  BY DEF Fresh, IsTree, IsWorld
<1>3. one \in Seq(Int) /\ one # <<>> /\ Len(one) = 1 /\ DOMAIN one = {1} /\ one[1] = n
  BY <1>2
<1>4. made \in Node
  BY <1>2 DEF Node
<1>5. DOMAIN alone = {n} /\ alone \in [{n} -> Node] /\ {n} \in SUBSET Int
  BY <1>2, <1>4
<1>. HIDE DEF alone, one, made
<1>6. Range(one) = {n} /\ Distinct(one)
  BY <1>3 DEF Range, Distinct
<1>7. Captured(one, alone)
  <2>1. Rooted(one, alone)
    BY <1>3, <1>6 DEF Rooted
  <2>2. alone \in Snapshots
    BY <1>5 DEF Snapshots
  <2>. QED
    BY <1>3, <1>5, <1>6, <2>1, <2>2 DEF Captured
<1>8. Born(n, one) = one
  <2>1. Born(n, one) = [i \in {1} |-> n + i - 1]
    BY <1>3 DEF Born
  <2>2. [i \in {1} |-> n + i - 1] = [i \in {1} |-> n]
    BY <1>2
  <2>. QED
    BY <2>1, <2>2, <1>3 DEF one
<1>9. IsTree(u) /\ Fresh(u, n + 1) /\ rs \in Seq(Record) /\ Publish(Visible(w), rs) = Visible(u)
  <2>1. /\ IsTree(u) /\ Fresh(u, n + Len(one))
        /\ CreatedRecords(u, Born(n, one)) \in Seq(Record)
        /\ Publish(Visible(w), CreatedRecords(u, Born(n, one))) = Visible(u)
    BY <1>7, RestoreOK
  <2>. QED
    BY <1>3, <1>8, <2>1
<1>10. c \in Change
  <2>1. Root \notin Range(one) /\ n \in Int \ {Root}
    BY <1>2, <1>6 DEF Root
  <2>. QED
    BY <1>2, <1>7, <2>1, SubtreeIsChange
<1>. HIDE DEF e, c, u, rs
<1>11. Faithful(w, e) /\ e.change \in Change
  BY <1>1, <1>9, <1>10 DEF Faithful
<1>. QED
  BY <1>11 DEF e

\* A destruction is faithful to its records and its change.
LEMMA DestroyOK ==
    ASSUME NEW w, IsTree(w), NEW n, Fresh(w, n), NEW x \in Objects(w)
    PROVE  LET e == DestroyEffect(w, n, x)
           IN  Faithful(w, e) /\ e.change \in Change
<1>. DEFINE objects == Nodes(w, x)
            S == Subtree(w, x)
            snapshot == [y \in S |-> w[y]]
            u == Removed(w, x)
            rs == DestroyedRecords(objects)
            c == [kind |-> "Destroy", root |-> x, parent |-> w[x].parent, objects |-> objects,
                  snapshot |-> snapshot]
            e == DestroyEffect(w, n, x)
            m == Visible(w)
<1>1. e.world = u /\ e.next = n /\ e.records = rs /\ e.change = c
  BY DEF DestroyEffect
<1>2. x \in DOMAIN w /\ x # Root /\ x \in Int /\ w[x].parent \in Int
  BY DEF Objects, IsTree, IsWorld, Node
<1>3. Range(objects) = S /\ Captured(objects, snapshot) /\ Root \notin S
  BY <1>2, NodesOK, CaptureOK, SubtreeRooted
<1>4. IsTree(u)
  BY RemovedTree
<1>5. DOMAIN u = DOMAIN w \ S /\ \A y \in DOMAIN u : u[y] = w[y]
  BY DEF Removed
<1>6. m \in Mirrors /\ DOMAIN m = DOMAIN w
      /\ \A y \in DOMAIN w : m[y] = [parent |-> w[y].parent, value |-> w[y].value]
  BY <1>2, VisibleType DEF IsTree
<1>7. c \in Change
  <2>. HIDE DEF objects, S, snapshot
  <2>. QED
    BY <1>2, <1>3, SubtreeIsChange
<1>. HIDE DEF m, u, e, c, objects, S
<1>8. rs \in Seq(Record) /\ Publish(m, rs) = [y \in DOMAIN m \ Range(objects) |-> m[y]]
  <2>1. objects \in Seq(Int)
    BY <1>3 DEF Captured
  <2>. QED
    BY <1>6, <2>1, DestroyedOK
<1>9. Publish(m, rs) = Visible(u)
  BY <1>3, <1>5, <1>6, <1>8 DEF Visible
<1>10. Fresh(u, n)
  BY <1>5 DEF Fresh
<1>. HIDE DEF rs
<1>11. Faithful(w, e) /\ e.change \in Change
  BY <1>1, <1>4, <1>7, <1>8, <1>9, <1>10 DEF Faithful, m
<1>. QED
  BY <1>11 DEF e

\* A duplication is faithful to its records and its change.
LEMMA DuplicateOK ==
    ASSUME NEW w, IsTree(w), NEW n, Fresh(w, n), NEW x \in Objects(w),
           n + Len(Nodes(w, x)) <= MaxId + 1
    PROVE  LET e == DuplicateEffect(w, n, x)
           IN  Faithful(w, e) /\ e.change \in Change
<1>. DEFINE objects == Nodes(w, x)
            snapshot == [y \in Subtree(w, x) |-> w[y]]
            p == w[x].parent
            born == Born(n, objects)
            block == Block(n, objects)
            attached == Attach(w, n, objects, snapshot, p)
            node(y) == [attached[y] EXCEPT !.lineage = y]
            u == [y \in DOMAIN attached |->
                    IF y \in Range(born) THEN node(y) ELSE attached[y]]
            rs == CreatedRecords(u, born)
            taken == [y \in Range(born) |-> u[y]]
            c == [kind |-> "Duplicate", root |-> n, parent |-> p, objects |-> born, snapshot |-> taken]
            e == DuplicateEffect(w, n, x)
<1>1. e.world = u /\ e.next = n + Len(objects) /\ e.records = rs /\ e.change = c
  BY DEF DuplicateEffect
<1>2. x \in DOMAIN w /\ p \in DOMAIN w /\ p \in Int
  BY DEF Objects, IsTree, IsWorld
<1>3. n \in Nat /\ n # 0 /\ MaxId \in Nat /\ DOMAIN w \subseteq 0 .. n - 1
  BY LimitAssumption DEF Fresh
<1>4. Captured(objects, snapshot)
  BY <1>2, CaptureOK
<1>5. objects \in Seq(Int) /\ objects # <<>>
  BY <1>4 DEF Captured
<1>6. Grows(w, n, objects, attached)
  <2>. HIDE DEF objects, snapshot, p, attached
  <2>. QED
    BY <1>2, <1>4, AttachTree DEF attached
<1>7. /\ born \in Seq(block) /\ Len(born) = Len(objects) /\ Range(born) = block
      /\ Distinct(born) /\ born # <<>> /\ born[1] = n
  <2>. HIDE DEF objects
  <2>. QED
    BY <1>3, <1>5, BornOK
<1>8. block \subseteq ObjectIds /\ block \subseteq Int /\ Root \notin block
  <2>1. n + Len(objects) <= MaxId + 1 /\ Len(objects) \in Nat
    BY <1>5
  <2>. HIDE DEF objects
  <2>. QED
    BY <1>3, <2>1 DEF Block, ObjectIds, Root
<1>. HIDE DEF block, born, objects, attached, snapshot, p
<1>9. /\ DOMAIN attached = DOMAIN w \cup block
      /\ \A y \in DOMAIN w : y \notin block /\ attached[y] = w[y]
      /\ \A y \in block : attached[y] \in Node /\ (y # n => attached[y].parent \in block)
      /\ IsTree(attached) /\ Fresh(attached, n + Len(objects))
  BY <1>6 DEF Grows, block
<1>10. ASSUME NEW y \in block
       PROVE  node(y) \in Node /\ node(y).parent = attached[y].parent
  <2>1. attached[y] \in Node /\ y \in ObjectIds
    BY <1>8, <1>9
  <2>. QED
    BY <2>1 DEF Node
<1>. HIDE DEF node
<1>11. /\ DOMAIN u = DOMAIN attached
       /\ \A y \in block : u[y] = node(y)
       /\ \A y \in DOMAIN attached \ block : u[y] = attached[y]
       /\ u = [y \in DOMAIN u |-> u[y]]
  BY <1>7, <1>9
<1>. HIDE DEF u
<1>12. IsTree(u)
  <2>1. IsWorld(u)
    BY <1>9, <1>10, <1>11 DEF IsTree, IsWorld
  <2>2. \A y \in DOMAIN attached : u[y].parent = attached[y].parent
    BY <1>10, <1>11
  <2>. QED
    BY <1>9, <1>11, <2>1, <2>2, SameParents
<1>13. Fresh(u, n + Len(objects))
  BY <1>9, <1>11 DEF Fresh
<1>14. rs \in Seq(Record) /\ Publish(Visible(w), rs) = Visible(u)
  <2>1. born \in Seq(DOMAIN u) /\ DOMAIN u = DOMAIN w \cup Range(born)
        /\ \A y \in DOMAIN w \ Range(born) : u[y] = w[y]
    BY <1>7, <1>9, <1>11
  <2>. QED
    BY <1>12, <2>1, GrownShown DEF IsTree
<1>15. DOMAIN taken = block /\ (\A y \in block : taken[y] = u[y]) /\ taken \in [block -> Node]
  BY <1>7, <1>10, <1>11
<1>. HIDE DEF taken
<1>16. Rooted(born, taken)
  <2>1. \A y \in block : y # n => taken[y].parent \in block
    BY <1>9, <1>10, <1>11, <1>15
  <2>2. ASSUME NEW S \in SUBSET block, S # {}, \A y \in S : y # n => taken[y].parent \in S
        PROVE  n \in S
    <3>. SUFFICES ASSUME n \notin S
                  PROVE  FALSE
      OBVIOUS
    <3>1. S \in SUBSET DOMAIN u /\ Upward(u, S)
      BY <1>9, <1>11, <1>15, <2>2 DEF Upward
    <3>2. Root \in S
      BY <1>12, <2>2, <3>1 DEF IsTree
    <3>. QED
      BY <1>8, <3>2
  <2>. QED
    BY <1>7, <2>1, <2>2 DEF Rooted
<1>17. Captured(born, taken)
  <2>1. taken \in Snapshots
    BY <1>8, <1>15 DEF Snapshots
  <2>2. born \in Seq(Int)
    BY <1>7, <1>8, SeqWider
  <2>. QED
    BY <1>7, <1>15, <1>16, <2>1, <2>2 DEF Captured
<1>18. c \in Change
  <2>1. n \in Int \ {Root} /\ Root \notin Range(born)
    BY <1>3, <1>7, <1>8 DEF Root
  <2>. QED
    BY <1>2, <1>17, <2>1, SubtreeIsChange
<1>. HIDE DEF e, c, rs
<1>19. Faithful(w, e) /\ e.change \in Change
  BY <1>1, <1>12, <1>13, <1>14, <1>18 DEF Faithful
<1>. QED
  BY <1>19 DEF e

-----------------------------------------------------------------------------
(* Aliases.                                                                *)

Others == Int \ {Root}

\* The root has no alias and no alias leads to it.
Tables == {t \in UNION {[D -> Others] : D \in SUBSET Others} : IsFiniteSet(DOMAIN t)}

\* What a table of aliases is, entry by entry.
LEMMA TableType ==
    ASSUME NEW t
    PROVE  t \in Tables <=> /\ t = [x \in DOMAIN t |-> t[x]] /\ IsFiniteSet(DOMAIN t)
                            /\ DOMAIN t \subseteq Others /\ \A x \in DOMAIN t : t[x] \in Others
<1>1. ASSUME t \in Tables
      PROVE  /\ t = [x \in DOMAIN t |-> t[x]] /\ IsFiniteSet(DOMAIN t)
             /\ DOMAIN t \subseteq Others /\ \A x \in DOMAIN t : t[x] \in Others
  <2>1. PICK D \in SUBSET Others : t \in [D -> Others]
    BY <1>1 DEF Tables
  <2>. QED
    BY <1>1, <2>1 DEF Tables
<1>2. ASSUME t = [x \in DOMAIN t |-> t[x]], IsFiniteSet(DOMAIN t), DOMAIN t \subseteq Others,
             \A x \in DOMAIN t : t[x] \in Others
      PROVE  t \in Tables
  <2>1. t \in [DOMAIN t -> Others] /\ DOMAIN t \in SUBSET Others
    BY <1>2
  <2>. QED
    BY <1>2, <2>1 DEF Tables
<1>. QED
  BY <1>1, <1>2

\* The walk of ResolveIdentity.
Walks(f, table, id) ==
    f = [n \in Nat |-> IF n = 0 THEN id
                       ELSE IF f[n - 1] \in DOMAIN table THEN table[f[n - 1]]
                       ELSE f[n - 1]]

\* The walk along the aliases exists: it is a fold of steps.
LEMMA WalkExists ==
    ASSUME NEW table, NEW id
    PROVE  \E f : Walks(f, table, id)
<1>. DEFINE same(n) == [i \in 1 .. n |-> table]
            f == [n \in Nat |-> Following!Fold(id, same(n))]
<1>1. f[0] = id
  <2>1. same(0) = <<>>
    OBVIOUS
  <2>2. Following!Fold(id, <<>>) = id
    BY Following!FoldEmpty
  <2>. QED
    BY <2>1, <2>2
<1>2. ASSUME NEW n \in Nat
      PROVE  f[n + 1] = Follow(f[n], table)
  <2>1. same(n) \in Seq({table}) /\ table \in {table} /\ same(n + 1) = Append(same(n), table)
    OBVIOUS
  <2>. HIDE DEF same
  <2>2. Following!Fold(id, Append(same(n), table)) = Follow(Following!Fold(id, same(n)), table)
    BY <2>1, Following!FoldAppend, Zenon
  <2>. DEFINE g(k) == Following!Fold(id, same(k))
  <2>3. g(n + 1) = Follow(g(n), table)
    BY <2>1, <2>2
  <2>4. f = [k \in Nat |-> g(k)] /\ n + 1 \in Nat
    OBVIOUS
  <2>. HIDE DEF f, g
  <2>. QED
    BY <2>3, <2>4
<1>3. f = [n \in Nat |-> f[n]]
  OBVIOUS
<1>. HIDE DEF f
<1>4. ASSUME NEW n \in Nat
      PROVE  f[n] = IF n = 0 THEN id
                    ELSE IF f[n - 1] \in DOMAIN table THEN table[f[n - 1]] ELSE f[n - 1]
  <2>1. CASE n = 0
    BY <1>1, <2>1
  <2>2. CASE n # 0
    <3>1. n - 1 \in Nat /\ n - 1 + 1 = n
      BY <2>2
    <3>2. f[n - 1 + 1] = Follow(f[n - 1], table)
      BY <1>2, <3>1
    <3>. QED
      BY <2>2, <3>1, <3>2 DEF Follow
  <2>. QED
    BY <2>1, <2>2
<1>. QED
  BY <1>3, <1>4, Zenon DEF Walks

\* Following aliases never meets the root.
LEMMA ResolveStays ==
    ASSUME NEW t \in Tables, NEW id \in Others
    PROVE  ResolveIdentity(t, id) \in Others
<1>. DEFINE f == CHOOSE g : Walks(g, t, id)
            B == {n \in Nat : f[n] \in Others}
<1>1. Walks(f, t, id)
  BY WalkExists, Zenon
<1>2. ResolveIdentity(t, id) = f[Cardinality(DOMAIN t)]
  BY Zenon DEF ResolveIdentity, Walks
<1>. HIDE DEF f
<1>3. \A n \in Nat : f[n] = IF n = 0 THEN id
                            ELSE IF f[n - 1] \in DOMAIN t THEN t[f[n - 1]] ELSE f[n - 1]
  BY <1>1 DEF Walks
<1>4. 0 \in B
  BY <1>3
<1>5. ASSUME NEW n \in Nat, n \in B
      PROVE  n + 1 \in B
  <2>1. f[n + 1] = IF f[n] \in DOMAIN t THEN t[f[n]] ELSE f[n]
    BY <1>3
  <2>. QED
    BY <1>5, <2>1, TableType
<1>. HIDE DEF B
<1>6. Nat \subseteq B
  BY <1>4, <1>5, NatSetInduction
<1>7. Cardinality(DOMAIN t) \in Nat
  BY TableType, FS_CardinalityType
<1>. QED
  BY <1>2, <1>6, <1>7 DEF B

Pairs == [historical : Others, current : Others]

\* Remapping an identity leaves a table of aliases.
LEMMA RemapType ==
    ASSUME NEW a \in Tables, NEW p \in Pairs
    PROVE  Remap(a, p) \in Tables
<1>. DEFINE h == p.historical
            D == DOMAIN a \cup {h}
            b == [x \in D |-> IF x = h \/ ResolveIdentity(a, x) = h THEN p.current ELSE a[x]]
<1>1. Remap(a, p) = b
  BY DEF Remap, RemapIdentity
<1>2. h \in Others /\ p.current \in Others
  BY DEF Pairs
<1>3. IsFiniteSet(DOMAIN a) /\ DOMAIN a \subseteq Others /\ \A x \in DOMAIN a : a[x] \in Others
  BY TableType
<1>4. IsFiniteSet(D)
  BY <1>3, FS_AddElement
<1>5. /\ b = [x \in DOMAIN b |-> b[x]] /\ DOMAIN b = D /\ \A x \in D : b[x] \in Others
  BY <1>2, <1>3
<1>. HIDE DEF b
<1>6. b \in Tables
  BY <1>2, <1>3, <1>4, <1>5, TableType
<1>. QED
  BY <1>1, <1>6

\* So does remapping a restored subtree.
LEMMA RemapsType ==
    ASSUME NEW t \in Tables, NEW ps \in Seq(Pairs)
    PROVE  FoldLeft(Remap, t, ps) \in Tables
<1>1. \A a \in Tables : \A p \in Pairs : Remap(a, p) \in Tables
  BY RemapType
<1>2. Remapping!Fold(t, ps) \in Tables
  BY <1>1, Remapping!FoldKeeps
<1>3. FoldLeft(Remap, t, ps) = Remapping!Fold(t, ps)
  BY Zenon DEF FoldLeft, MapThenFoldSet, Max, Remapping!Fold, Remapping!Solves, Remapping!Largest
<1>. QED
  BY <1>2, <1>3

\* What a restored subtree remaps is pairs of identities.
LEMMA RebornOK ==
    ASSUME NEW objects \in Seq(Others), NEW n \in Nat \ {0}
    PROVE  Reborn(objects, n) \in Seq(Pairs)
<1>. DEFINE p(i) == [historical |-> objects[i], current |-> n + i - 1]
            L == Len(objects)
<1>1. L \in Nat /\ DOMAIN objects = 1 .. L /\ \A i \in 1 .. L : objects[i] \in Others
  OBVIOUS
<1>. HIDE DEF L
<1>2. \A i \in 1 .. L : n + i - 1 \in Others
  BY <1>1 DEF Others, Root
<1>3. \A i \in 1 .. L : p(i) \in Pairs
  BY <1>1, <1>2 DEF Pairs
<1>4. Reborn(objects, n) = [i \in 1 .. L |-> p(i)]
  BY <1>1 DEF Reborn
<1>. HIDE DEF p
<1>. QED
  BY <1>1, <1>3, <1>4

-----------------------------------------------------------------------------
(* Aliases lead to younger identities only, so following them ends.        *)

Rising(t, n) == \A id \in DOMAIN t : id < n /\ id < t[id] /\ t[id] < n

\* A walk that has not ended climbs, and has no room to climb for longer than
\* there are aliases.
LEMMA ResolveEnds ==
    ASSUME NEW t \in Tables, NEW n, Rising(t, n), NEW id \in DOMAIN t
    PROVE  ResolveIdentity(t, id) \notin DOMAIN t
<1>. DEFINE f == CHOOSE g : Walks(g, t, id)
            D == DOMAIN t
            N == Cardinality(D)
<1>1. Walks(f, t, id)
  BY WalkExists, Zenon
<1>2. ResolveIdentity(t, id) = f[N]
  BY Zenon DEF ResolveIdentity, Walks
<1>. HIDE DEF f
<1>3. \A k \in Nat : f[k + 1] = IF f[k] \in D THEN t[f[k]] ELSE f[k]
  <2>1. \A k \in Nat : f[k] = IF k = 0 THEN id
                              ELSE IF f[k - 1] \in D THEN t[f[k - 1]] ELSE f[k - 1]
    BY <1>1 DEF Walks
  <2>. HIDE DEF D
  <2>. QED
    BY <2>1
<1>4. IsFiniteSet(D) /\ N \in Nat /\ D \subseteq Int /\ \A x \in D : t[x] \in Int /\ x < t[x]
  BY TableType, FS_CardinalityType DEF Rising, Others
<1>. SUFFICES ASSUME f[N] \in D
              PROVE  FALSE
  BY <1>2
<1>. HIDE DEF D, N
<1>5. \A k \in 0 .. N : f[k] \in D
  <2>. DEFINE B == {j \in Nat : j <= N => f[N - j] \in D}
  <2>1. 0 \in B
    BY <1>4
  <2>2. ASSUME NEW j \in Nat, j \in B
        PROVE  j + 1 \in B
    <3>. SUFFICES ASSUME j + 1 <= N, f[N - (j + 1)] \notin D
                  PROVE  FALSE
      OBVIOUS
    <3>1. N - (j + 1) \in Nat /\ N - (j + 1) + 1 = N - j
      BY <1>4
    <3>2. f[N - j] = f[N - (j + 1)]
      BY <1>3, <3>1
    <3>3. f[N - j] \in D
      BY <1>4, <2>2
    <3>. QED
      BY <3>2, <3>3
  <2>. HIDE DEF B
  <2>3. Nat \subseteq B
    BY <2>1, <2>2, NatSetInduction
  <2>4. ASSUME NEW k \in 0 .. N
        PROVE  f[k] \in D
    <3>1. N - k \in Nat /\ N - k <= N /\ N - (N - k) = k
      BY <1>4
    <3>2. N - k \in B
      BY <2>3, <3>1
    <3>. QED
      BY <3>1, <3>2 DEF B
  <2>. QED
    BY <2>4
<1>6. \A k \in 0 .. N - 1 : f[k] < f[k + 1]
  <2>. SUFFICES ASSUME NEW k \in 0 .. N - 1
                PROVE  f[k] < f[k + 1]
    OBVIOUS
  <2>1. k \in Nat /\ k \in 0 .. N
    BY <1>4
  <2>. QED
    BY <1>3, <1>4, <1>5, <2>1
<1>7. \A i \in 0 .. N : \A j \in 0 .. N : i < j => f[i] < f[j]
  <2>. SUFFICES ASSUME NEW i \in 0 .. N
                PROVE  \A j \in 0 .. N : i < j => f[i] < f[j]
    OBVIOUS
  <2>. DEFINE B == {d \in Nat : i + d + 1 <= N => f[i] < f[i + d + 1]}
  <2>1. 0 \in B
    <3>1. i + 0 + 1 = i + 1
      BY <1>4
    <3>. QED
      BY <1>4, <1>6, <3>1
  <2>2. ASSUME NEW d \in Nat, d \in B
        PROVE  d + 1 \in B
    <3>. SUFFICES ASSUME i + (d + 1) + 1 <= N
                  PROVE  f[i] < f[i + (d + 1) + 1]
      OBVIOUS
    <3>1. i + d + 1 \in 0 .. N - 1 /\ i + d + 1 <= N /\ i + (d + 1) + 1 = (i + d + 1) + 1
          /\ i + d + 1 \in 0 .. N /\ (i + d + 1) + 1 \in 0 .. N
      BY <1>4
    <3>2. f[i] < f[i + d + 1] /\ f[i + d + 1] < f[(i + d + 1) + 1]
      BY <1>6, <2>2, <3>1
    <3>3. f[i] \in Int /\ f[i + d + 1] \in Int /\ f[(i + d + 1) + 1] \in Int
      BY <1>4, <1>5, <3>1
    <3>. QED
      BY <3>1, <3>2, <3>3
  <2>. HIDE DEF B
  <2>3. Nat \subseteq B
    BY <2>1, <2>2, NatSetInduction
  <2>4. ASSUME NEW j \in 0 .. N, i < j
        PROVE  f[i] < f[j]
    <3>1. j - i - 1 \in Nat /\ i + (j - i - 1) + 1 = j /\ j <= N
      BY <1>4, <2>4
    <3>2. j - i - 1 \in B
      BY <2>3, <3>1
    <3>. QED
      BY <3>1, <3>2 DEF B
  <2>. QED
    BY <2>4
<1>. DEFINE S == 0 .. N
            g == [k \in S |-> f[k]]
<1>8. g \in Injection(S, D)
  <2>1. \A i, j \in S : f[i] = f[j] => i = j
    <3>. SUFFICES ASSUME NEW i \in S, NEW j \in S, f[i] = f[j], i # j
                  PROVE  FALSE
      OBVIOUS
    <3>1. i < j \/ j < i
      BY <1>4
    <3>2. f[i] < f[j] \/ f[j] < f[i]
      BY <1>7, <3>1
    <3>3. f[i] \in Int
      BY <1>4, <1>5
    <3>. QED
      BY <3>2, <3>3
  <2>2. \A i \in S : f[i] \in D
    BY <1>5
  <2>. HIDE DEF S
  <2>. QED
    BY <2>1, <2>2 DEF Injection, IsInjective
<1>9. Cardinality(S) <= N
  <2>. HIDE DEF S, g
  <2>. QED
    BY <1>4, <1>8, FS_Injection DEF N
<1>10. Cardinality(S) = N + 1
  <2>1. 0 \in Int /\ N \in Int
    BY <1>4
  <2>2. Cardinality(0 .. N) = IF 0 > N THEN 0 ELSE N - 0 + 1
    BY <2>1, FS_Interval, Zenon
  <2>. QED
    BY <1>4, <2>2
<1>. QED
  BY <1>4, <1>9, <1>10

\* New aliases lead from identities handed out before to those handed out now.
LEMMA RemapsRise ==
    ASSUME NEW t \in Tables, NEW n \in Nat \ {0}, NEW m \in Nat, n <= m, Rising(t, n),
           NEW ps \in Seq([historical : {x \in Others : x < n}, current : n .. m - 1])
    PROVE  Rising(FoldLeft(Remap, t, ps), m)
<1>. DEFINE P == [historical : {x \in Others : x < n}, current : n .. m - 1]
            A == {a \in Tables : \A id \in DOMAIN a : id < n /\ id < a[id] /\ a[id] < m}
<1>1. \A a \in Tables : DOMAIN a \subseteq Int /\ \A id \in DOMAIN a : a[id] \in Int
  BY TableType DEF Others
<1>2. t \in A
  <2>1. \A id \in DOMAIN t : id < n /\ id < t[id] /\ t[id] < m
    BY <1>1 DEF Rising
  <2>. QED
    BY <2>1
<1>3. ASSUME NEW a \in A, NEW p \in P
      PROVE  Remap(a, p) \in A
  <2>1. p \in Pairs
    BY DEF Pairs, Others, Root
  <2>2. Remap(a, p) \in Tables
    BY <2>1, RemapType
  <2>. DEFINE h == p.historical
              b == [x \in DOMAIN a \cup {h} |->
                      IF x = h \/ ResolveIdentity(a, x) = h THEN p.current ELSE a[x]]
  <2>3. Remap(a, p) = b
    BY DEF Remap, RemapIdentity
  <2>4. h \in Int /\ h < n /\ p.current \in Int /\ n <= p.current /\ p.current < m
    BY DEF Others
  <2>5. ASSUME NEW id \in DOMAIN a \cup {h}
        PROVE  id < n /\ id < b[id] /\ b[id] < m
    <3>1. id \in Int /\ id < n
      BY <1>1, <2>4
    <3>2. CASE id = h \/ ResolveIdentity(a, id) = h
      <4>1. b[id] = p.current
        BY <3>2
      <4>. HIDE DEF b, h
      <4>. QED
        BY <2>4, <3>1, <4>1
    <3>3. CASE ~ (id = h \/ ResolveIdentity(a, id) = h)
      <4>1. id \in DOMAIN a /\ b[id] = a[id]
        BY <3>3
      <4>. HIDE DEF b, h
      <4>. QED
        BY <3>1, <4>1
    <3>. QED
      BY <3>2, <3>3
  <2>6. DOMAIN b = DOMAIN a \cup {h}
    OBVIOUS
  <2>. HIDE DEF b, h
  <2>. QED
    BY <2>2, <2>3, <2>5, <2>6
<1>. HIDE DEF A
<1>4. Remapping!Fold(t, ps) \in A
  <2>. HIDE DEF P
  <2>1. ps \in Seq(P)
    BY DEF P
  <2>. QED
    BY <1>2, <1>3, <2>1, Remapping!FoldKeeps
<1>5. FoldLeft(Remap, t, ps) = Remapping!Fold(t, ps)
  BY Zenon DEF FoldLeft, MapThenFoldSet, Max, Remapping!Fold, Remapping!Solves, Remapping!Largest
<1>6. ASSUME NEW a \in A
      PROVE  Rising(a, m)
  BY <1>1 DEF A, Rising
<1>. QED
  BY <1>4, <1>5, <1>6

\* The restored identities are newer than the captured ones.
LEMMA RebornRise ==
    ASSUME NEW n \in Nat \ {0}, NEW objects \in Seq({x \in Others : x < n})
    PROVE  LET m == n + Len(objects)
           IN  Reborn(objects, n) \in Seq([historical : {x \in Others : x < n}, current : n .. m - 1])
<1>. DEFINE O == {x \in Others : x < n}
            L == Len(objects)
            m == n + L
            P == [historical : O, current : n .. m - 1]
            p(i) == [historical |-> objects[i], current |-> n + i - 1]
<1>1. L \in Nat /\ DOMAIN objects = 1 .. L /\ \A i \in 1 .. L : objects[i] \in O
  <2>1. objects \in Seq(O)
    OBVIOUS
  <2>. HIDE DEF O
  <2>. QED
    BY <2>1
<1>. HIDE DEF L, O
<1>2. \A i \in 1 .. L : n + i - 1 \in n .. m - 1
  BY <1>1
<1>3. \A i \in 1 .. L : p(i) \in P
  BY <1>1, <1>2
<1>4. Reborn(objects, n) = [i \in 1 .. L |-> p(i)]
  BY <1>1 DEF Reborn
<1>. HIDE DEF p, P
<1>5. Reborn(objects, n) \in Seq(P)
  BY <1>1, <1>3, <1>4
<1>. QED
  BY <1>5 DEF P, O, L

-----------------------------------------------------------------------------
(* Replays.                                                                *)

Fields == {"world", "next", "aliases", "records", "forward", "ok", "applied"}

\* However far a replay that started at the tree w has come, its records
\* bring a copy of w to the tree it has reached.
Replays(w, st) ==
    /\ DOMAIN st = Fields
    /\ IsTree(st.world) /\ Fresh(st.world, st.next)
    /\ st.aliases \in Tables /\ st.applied \in Seq(Change)
    /\ st.records \in Seq(Record) /\ Publish(Visible(w), st.records) = Visible(st.world)

\* The direction, the sign of success and the changes applied are free.
LEMMA ReplaysAnyway ==
    ASSUME NEW w, NEW st, Replays(w, st), NEW new, DOMAIN new = Fields, new.world = st.world,
           new.next = st.next, new.aliases = st.aliases, new.records = st.records,
           new.applied \in Seq(Change)
    PROVE  Replays(w, new)
BY DEF Replays

\* A replay that stops stays what a replay may be.
LEMMA StaleReplays ==
    ASSUME NEW w, NEW st, Replays(w, st)
    PROVE  Replays(w, Stale(st))
<1>. DEFINE new == Stale(st)
<1>1. /\ DOMAIN new = Fields /\ new.world = st.world /\ new.next = st.next
      /\ new.aliases = st.aliases /\ new.records = st.records /\ new.applied = st.applied
  BY DEF Replays, Fields, Stale
<1>2. new.applied \in Seq(Change)
  BY <1>1 DEF Replays
<1>. HIDE DEF new
<1>3. Replays(w, new)
  BY <1>1, <1>2, ReplaysAnyway
<1>. QED
  BY <1>3 DEF new

\* What one change adds to a replay.
LEMMA GrowReplay ==
    ASSUME NEW w, IsTree(w), NEW st, Replays(w, st), NEW u, IsTree(u), NEW n, Fresh(u, n),
           NEW t \in Tables, NEW rs \in Seq(Record),
           Publish(Visible(st.world), rs) = Visible(u),
           NEW new, DOMAIN new = Fields, new.world = u, new.next = n, new.aliases = t,
           new.records = st.records \o rs, new.applied = st.applied
    PROVE  Replays(w, new)
<1>. DEFINE m == Visible(w)
            all == st.records \o rs
<1>1. st.records \in Seq(Record) /\ Publish(m, st.records) = Visible(st.world)
      /\ st.applied \in Seq(Change)
  BY DEF Replays
<1>2. Publish(m, all) = Publish(Publish(m, st.records), rs)
  BY <1>1, PublishConcat
<1>3. all \in Seq(Record)
  BY <1>1
<1>. HIDE DEF m, all
<1>4. Publish(m, all) = Visible(u)
  BY <1>1, <1>2
<1>5. new.records = all
  BY DEF all
<1>. QED
  BY <1>1, <1>3, <1>4, <1>5 DEF Replays, m

\* A faithful effect keeps a replay what it may be.
LEMMA WithReplays ==
    ASSUME NEW w, IsTree(w), NEW st, Replays(w, st), NEW e, Faithful(st.world, e)
    PROVE  Replays(w, With(st, e))
<1>. DEFINE new == With(st, e)
            rs == e.records
<1>1. /\ DOMAIN new = Fields /\ new.world = e.world /\ new.next = e.next
      /\ new.aliases = st.aliases /\ new.records = st.records \o rs /\ new.applied = st.applied
  BY DEF Replays, With, Fields
<1>2. /\ IsTree(e.world) /\ Fresh(e.world, e.next) /\ rs \in Seq(Record)
      /\ Publish(Visible(st.world), rs) = Visible(e.world)
  BY DEF Faithful
<1>3. st.aliases \in Tables
  BY DEF Replays
<1>. HIDE DEF new, rs
<1>4. Replays(w, new)
  BY <1>1, <1>2, <1>3, GrowReplay
<1>. QED
  BY <1>4 DEF new

\* So does the replay of a property change.
LEMMA ValueReplays ==
    ASSUME NEW w, IsTree(w), NEW st, Replays(w, st), NEW c \in Change, c.kind = "Property"
    PROVE  Replays(w, ReplayValue(st, c))
<1>. DEFINE x == ResolveIdentity(st.aliases, c.object)
            expected == IF st.forward THEN c.before ELSE c.after
            wanted == IF st.forward THEN c.after ELSE c.before
            e == PropertyEffect(st.world, st.next, x, wanted)
<1>1. wanted \in Values
  BY DEF Change, PropertyChange, ReparentChange, SubtreeChange, SubtreeRecord
<1>2. ReplayValue(st, c) = IF x \notin DOMAIN st.world \/ st.world[x].value # expected
                           THEN Stale(st) ELSE With(st, e)
  BY DEF ReplayValue
<1>. HIDE DEF x, expected, wanted
<1>3. ASSUME x \in DOMAIN st.world
      PROVE  Replays(w, With(st, e))
  <2>1. Faithful(st.world, e)
    BY <1>1, <1>3, PropertyOK DEF Replays
  <2>. HIDE DEF e
  <2>. QED
    BY <2>1, WithReplays
<1>. HIDE DEF e
<1>. QED
  BY <1>2, <1>3, StaleReplays

\* So does the replay of a reparent.
LEMMA ReparentReplays ==
    ASSUME NEW w, IsTree(w), NEW st, Replays(w, st), NEW c
    PROVE  Replays(w, ReplayReparent(st, c))
<1>. DEFINE x == ResolveIdentity(st.aliases, c.object)
            expected == ResolveIdentity(st.aliases, IF st.forward THEN c.before ELSE c.after)
            wanted == ResolveIdentity(st.aliases, IF st.forward THEN c.after ELSE c.before)
            e == ReparentEffect(st.world, st.next, x, wanted)
            misfit == \/ x \notin DOMAIN st.world
                      \/ st.world[x].parent # expected
                      \/ wanted \notin DOMAIN st.world
                      \/ ~CanReparent(st.world, x, wanted)
<1>1. ReplayReparent(st, c) = IF misfit THEN Stale(st) ELSE With(st, e)
  BY DEF ReplayReparent
<1>. HIDE DEF x, expected, wanted
<1>2. ASSUME ~misfit
      PROVE  Replays(w, With(st, e))
  <2>1. Faithful(st.world, e)
    BY <1>2, ReparentOK DEF Replays
  <2>. HIDE DEF e
  <2>. QED
    BY <2>1, WithReplays
<1>. HIDE DEF e, misfit
<1>. QED
  BY <1>1, <1>2, StaleReplays

\* So does a destruction by replay.
LEMMA DestroyReplays ==
    ASSUME NEW w, IsTree(w), NEW st, Replays(w, st), NEW c, c.root \in Others
    PROVE  Replays(w, ReplayDestroy(st, c))
<1>. DEFINE x == ResolveIdentity(st.aliases, c.root)
            e == DestroyEffect(st.world, st.next, x)
<1>1. ReplayDestroy(st, c) = IF x \notin DOMAIN st.world THEN Stale(st) ELSE With(st, e)
  BY DEF ReplayDestroy
<1>2. x \in Others
  BY ResolveStays DEF Replays
<1>. HIDE DEF x
<1>3. ASSUME x \in DOMAIN st.world
      PROVE  Replays(w, With(st, e))
  <2>1. x \in Objects(st.world)
    BY <1>2, <1>3 DEF Objects, Others
  <2>2. Faithful(st.world, e)
    BY <2>1, DestroyOK DEF Replays
  <2>. HIDE DEF e
  <2>. QED
    BY <2>2, WithReplays
<1>. HIDE DEF e
<1>. QED
  BY <1>1, <1>3, StaleReplays

\* So does a restoration by replay.
LEMMA RestoreReplays ==
    ASSUME NEW w, IsTree(w), NEW st, Replays(w, st), NEW c,
           Captured(c.objects, c.snapshot), Root \notin Range(c.objects)
    PROVE  Replays(w, ReplayRestore(st, c))
<1>. DEFINE p == ResolveIdentity(st.aliases, c.parent)
            o == c.objects
            u == Attach(st.world, st.next, o, c.snapshot, p)
            n == st.next + Len(o)
            rs == CreatedRecords(u, Born(st.next, o))
            pairs == Reborn(o, st.next)
            t == FoldLeft(Remap, st.aliases, pairs)
            new == [st EXCEPT !.world = u, !.next = @ + Len(o), !.records = @ \o rs,
                              !.aliases = FoldLeft(Remap, @, pairs)]
            misfit == p \notin DOMAIN st.world \/ ~HasRoom(st.world, Len(o))
<1>1. ReplayRestore(st, c) = IF misfit THEN Stale(st) ELSE new
  BY DEF ReplayRestore
<1>2. IsTree(st.world) /\ Fresh(st.world, st.next) /\ st.aliases \in Tables /\ st.next \in Nat \ {0}
  BY DEF Replays, Fresh
<1>3. t \in Tables
  <2>1. o \in Seq(Others)
    <3>1. o \in Seq(Int)
      BY DEF Captured
    <3>2. \A i \in DOMAIN o : o[i] \in Others
      BY <3>1 DEF Others, Range
    <3>. QED
      BY <3>1, <3>2
  <2>. HIDE DEF o
  <2>2. pairs \in Seq(Pairs)
    BY <1>2, <2>1, RebornOK
  <2>. QED
    BY <1>2, <2>2, RemapsType
<1>. HIDE DEF p
<1>4. ASSUME p \in DOMAIN st.world
      PROVE  /\ IsTree(u) /\ Fresh(u, n)
             /\ rs \in Seq(Record) /\ Publish(Visible(st.world), rs) = Visible(u)
  BY <1>2, <1>4, RestoreOK
<1>. HIDE DEF pairs, u, rs, o
<1>5. /\ DOMAIN new = Fields /\ new.world = u /\ new.next = n
      /\ new.aliases = t /\ new.records = st.records \o rs /\ new.applied = st.applied
  BY DEF Replays, Fields
<1>. HIDE DEF new, n, t
<1>6. p \in DOMAIN st.world => Replays(w, new)
  BY <1>3, <1>4, <1>5, GrowReplay
<1>. QED
  BY <1>1, <1>6, StaleReplays

\* So does any change.
LEMMA ApplyReplays ==
    ASSUME NEW w, IsTree(w), NEW st, Replays(w, st), NEW c \in Change
    PROVE  Replays(w, ApplyChange(st, c))
<1>1. CASE c.kind = "Property"
  BY <1>1, ValueReplays DEF ApplyChange
<1>2. CASE c.kind = "Reparent"
  BY <1>2, ReparentReplays DEF ApplyChange
<1>3. CASE c.kind \notin {"Property", "Reparent"}
  <2>1. /\ Captured(c.objects, c.snapshot) /\ Root \notin Range(c.objects)
        /\ c.root \in Others
    BY <1>3, ChangeIsSubtree DEF Others
  <2>2. Replays(w, ReplayDestroy(st, c)) /\ Replays(w, ReplayRestore(st, c))
    BY <2>1, DestroyReplays, RestoreReplays
  <2>. QED
    BY <1>3, <2>2 DEF ApplyChange
<1>. QED
  BY <1>1, <1>2, <1>3

\* So does a step that the stopped replay skips.
LEMMA StepReplays ==
    ASSUME NEW w, IsTree(w), NEW st, Replays(w, st), NEW c \in Change
    PROVE  Replays(w, ReplayStep(st, c))
<1>1. Replays(w, ApplyChange(st, c))
  BY ApplyReplays
<1>. DEFINE t == ApplyChange(st, c)
            new == [t EXCEPT !.applied = Append(@, c)]
<1>2. ReplayStep(st, c) = IF ~st.ok THEN st ELSE IF t.ok THEN new ELSE t
  BY DEF ReplayStep
<1>3. Replays(w, t)
  BY <1>1
<1>. HIDE DEF t
<1>4. Replays(w, new)
  <2>1. t.applied \in Seq(Change)
    BY <1>3 DEF Replays
  <2>2. Append(t.applied, c) \in Seq(Change)
    BY <2>1
  <2>3. /\ DOMAIN new = Fields /\ new.world = t.world /\ new.next = t.next
        /\ new.aliases = t.aliases /\ new.records = t.records /\ new.applied = Append(t.applied, c)
    BY <1>3 DEF Replays, Fields
  <2>. HIDE DEF new
  <2>. QED
    BY <1>3, <2>2, <2>3, ReplaysAnyway
<1>. HIDE DEF new
<1>. QED
  BY <1>2, <1>3, <1>4

\* A whole replay is what a replay may be.
LEMMA ReplayOK ==
    ASSUME NEW w, IsTree(w), NEW st, Replays(w, st), NEW s \in Seq(Change)
    PROVE  Replays(w, Replay(st, s))
<1>. DEFINE st0 == [st EXCEPT !.applied = <<>>]
            B == {t \in Seq(Change) : Replays(w, Replaying!Fold(st0, t))}
<1>1. Replays(w, st0)
  <2>1. /\ DOMAIN st0 = Fields /\ st0.world = st.world /\ st0.next = st.next
        /\ st0.aliases = st.aliases /\ st0.records = st.records /\ st0.applied = <<>>
    BY DEF Replays, Fields
  <2>2. <<>> \in Seq(Change)
    OBVIOUS
  <2>. HIDE DEF st0
  <2>. QED
    BY <2>1, <2>2, ReplaysAnyway
<1>2. Replay(st, s) = Replaying!Fold(st0, s)
  BY ReplayFold
<1>. HIDE DEF st0
<1>3. <<>> \in B
  <2>1. <<>> \in Seq(Change)
    OBVIOUS
  <2>. QED
    BY <1>1, <2>1, Replaying!FoldEmpty
<1>4. ASSUME NEW t \in Seq(Change), NEW c \in Change, t \in B
      PROVE  Append(t, c) \in B
  <2>1. Replaying!Fold(st0, Append(t, c)) = ReplayStep(Replaying!Fold(st0, t), c)
    BY Replaying!FoldAppend, Zenon
  <2>2. Replays(w, Replaying!Fold(st0, t))
    BY <1>4
  <2>3. Replays(w, ReplayStep(Replaying!Fold(st0, t), c))
    BY <2>2, StepReplays
  <2>4. Append(t, c) \in Seq(Change)
    OBVIOUS
  <2>. QED
    BY <2>1, <2>3, <2>4
<1>. HIDE DEF B
<1>5. Seq(Change) \subseteq B
  BY <1>3, <1>4, SequenceInduction
<1>. QED
  BY <1>2, <1>5 DEF B

\* A reversed sequence has the same elements.
LEMMA ReverseType ==
    ASSUME NEW S, NEW s \in Seq(S)
    PROVE  Reverse(s) \in Seq(S)
<1>1. \A i \in 1 .. Len(s) : s[(Len(s) - i) + 1] \in S
  OBVIOUS
<1>. QED
  BY <1>1 DEF Reverse

\* A roll-back is what a replay may be.
LEMMA RollBackOK ==
    ASSUME NEW w, IsTree(w), NEW st, Replays(w, st)
    PROVE  Replays(w, RollBack(st))
<1>. DEFINE back == [st EXCEPT !.ok = TRUE, !.forward = ~@]
            s == Reverse(st.applied)
<1>1. st.applied \in Seq(Change)
  BY DEF Replays
<1>2. /\ DOMAIN back = Fields /\ back.world = st.world /\ back.next = st.next
      /\ back.aliases = st.aliases /\ back.records = st.records /\ back.applied = st.applied
  BY DEF Replays, Fields
<1>3. RollBack(st) = Replay(back, s)
  BY DEF RollBack
<1>. HIDE DEF back, s
<1>4. Replays(w, back)
  BY <1>1, <1>2, ReplaysAnyway
<1>5. s \in Seq(Change)
  BY <1>1, ReverseType DEF s
<1>. QED
  BY <1>3, <1>4, <1>5, ReplayOK

-----------------------------------------------------------------------------
(* Every entry captured identities handed out before it.                   *)

\* A change that captured no identity from n on.
Older(c, n) == c.kind \notin {"Property", "Reparent"} => \A x \in Range(c.objects) : x < n
Old(n) == {c \in Change : Older(c, n)}

\* What was captured before an identity was captured before a later one.
LEMMA OldWider ==
    ASSUME NEW n \in Int, NEW m \in Int, n <= m
    PROVE  Old(n) \subseteq Old(m)
<1>. SUFFICES ASSUME NEW c \in Old(n), c.kind \notin {"Property", "Reparent"},
                     NEW x \in Range(c.objects)
              PROVE  x < m
  BY DEF Old, Older
<1>1. x < n
  BY DEF Old, Older
<1>2. x \in Int
  <2>1. Captured(c.objects, c.snapshot)
    BY ChangeIsSubtree DEF Old
  <2>. QED
    BY <2>1 DEF Captured, Range
<1>. QED
  BY <1>1, <1>2

\* However far a replay of changes older than n has come, its aliases rise and
\* it has applied none that is younger.
Climbs(n, st) ==
    /\ n <= st.next /\ Rising(st.aliases, st.next) /\ st.applied \in Seq(Old(n))

\* Applying a change that captured older identities keeps the aliases rising.
LEMMA ApplyClimbs ==
    ASSUME NEW w, IsTree(w), NEW st, Replays(w, st), NEW n \in Nat, Climbs(n, st), NEW c \in Old(n)
    PROVE  Climbs(n, ApplyChange(st, c))
<1>1. /\ DOMAIN st = Fields /\ st.next \in Nat \ {0} /\ st.aliases \in Tables /\ c \in Change
  BY DEF Replays, Fresh, Old
<1>2. ASSUME NEW new, new.next = st.next, new.aliases = st.aliases, new.applied = st.applied
      PROVE  Climbs(n, new)
  BY <1>2 DEF Climbs
<1>3. Climbs(n, Stale(st))
  <2>1. /\ Stale(st).next = st.next /\ Stale(st).aliases = st.aliases
        /\ Stale(st).applied = st.applied
    BY <1>1 DEF Stale, Fields
  <2>. QED
    BY <1>2, <2>1
<1>4. ASSUME NEW e, e.next = st.next
      PROVE  Climbs(n, With(st, e))
  <2>1. /\ With(st, e).next = e.next /\ With(st, e).aliases = st.aliases
        /\ With(st, e).applied = st.applied
    BY <1>1 DEF With, Fields
  <2>. QED
    BY <1>2, <1>4, <2>1
<1>5. Climbs(n, ReplayValue(st, c))
  <2>. DEFINE x == ResolveIdentity(st.aliases, c.object)
              wanted == IF st.forward THEN c.after ELSE c.before
              e == PropertyEffect(st.world, st.next, x, wanted)
  <2>1. e.next = st.next
    BY DEF PropertyEffect
  <2>2. ReplayValue(st, c) = Stale(st) \/ ReplayValue(st, c) = With(st, e)
    BY Zenon DEF ReplayValue
  <2>. HIDE DEF e
  <2>. QED
    BY <1>3, <1>4, <2>1, <2>2
<1>6. Climbs(n, ReplayReparent(st, c))
  <2>. DEFINE x == ResolveIdentity(st.aliases, c.object)
              wanted == ResolveIdentity(st.aliases, IF st.forward THEN c.after ELSE c.before)
              e == ReparentEffect(st.world, st.next, x, wanted)
  <2>1. e.next = st.next
    BY DEF ReparentEffect
  <2>2. ReplayReparent(st, c) = Stale(st) \/ ReplayReparent(st, c) = With(st, e)
    BY Zenon DEF ReplayReparent
  <2>. HIDE DEF e
  <2>. QED
    BY <1>3, <1>4, <2>1, <2>2
<1>7. Climbs(n, ReplayDestroy(st, c))
  <2>. DEFINE x == ResolveIdentity(st.aliases, c.root)
              e == DestroyEffect(st.world, st.next, x)
  <2>1. e.next = st.next
    BY DEF DestroyEffect
  <2>2. ReplayDestroy(st, c) = Stale(st) \/ ReplayDestroy(st, c) = With(st, e)
    BY Zenon DEF ReplayDestroy
  <2>. HIDE DEF e
  <2>. QED
    BY <1>3, <1>4, <2>1, <2>2
<1>8. ASSUME c.kind \notin {"Property", "Reparent"}
      PROVE  Climbs(n, ReplayRestore(st, c))
  <2>. DEFINE p == ResolveIdentity(st.aliases, c.parent)
              o == c.objects
              u == Attach(st.world, st.next, o, c.snapshot, p)
              rs == CreatedRecords(u, Born(st.next, o))
              m == st.next + Len(o)
              pairs == Reborn(o, st.next)
              t == FoldLeft(Remap, st.aliases, pairs)
              new == [st EXCEPT !.world = u, !.next = @ + Len(o), !.records = @ \o rs,
                                !.aliases = FoldLeft(Remap, @, pairs)]
  <2>1. ReplayRestore(st, c) = Stale(st) \/ ReplayRestore(st, c) = new
    BY Zenon DEF ReplayRestore
  <2>2. new.next = m /\ new.aliases = t /\ new.applied = st.applied
    <3>. HIDE DEF u, o, rs, pairs
    <3>. QED
      BY <1>1 DEF Fields
  <2>. HIDE DEF new
  <2>3. o \in Seq({x \in Others : x < st.next})
    <3>1. o \in Seq(Int) /\ Root \notin Range(o)
      BY <1>1, <1>8, ChangeIsSubtree DEF Captured
    <3>2. \A x \in Range(o) : x < n
      BY <1>8 DEF Old, Older
    <3>3. n <= st.next
      BY DEF Climbs
    <3>. HIDE DEF o
    <3>4. ASSUME NEW i \in 1 .. Len(o)
          PROVE  o[i] \in {x \in Others : x < st.next}
      <4>1. o[i] \in Int /\ o[i] \in Range(o)
        BY <3>1 DEF Range
      <4>. QED
        BY <1>1, <3>1, <3>2, <3>3, <4>1 DEF Others
    <3>. QED
      BY <3>1, <3>4
  <2>. HIDE DEF o
  <2>4. m \in Nat /\ st.next <= m
    BY <1>1, <2>3
  <2>5. pairs \in Seq([historical : {x \in Others : x < st.next}, current : st.next .. m - 1])
    BY <1>1, <2>3, RebornRise
  <2>. HIDE DEF pairs, m
  <2>6. Rising(t, m)
    BY <1>1, <2>4, <2>5, RemapsRise DEF Climbs
  <2>7. n <= m
    BY <1>1, <2>4 DEF Climbs
  <2>8. Climbs(n, new)
    BY <2>2, <2>6, <2>7 DEF Climbs
  <2>. QED
    BY <1>3, <2>1, <2>8
<1>. QED
  BY <1>5, <1>6, <1>7, <1>8, Zenon DEF ApplyChange

\* So does a whole replay of such changes.
LEMMA ReplayClimbs ==
    ASSUME NEW w, IsTree(w), NEW st, Replays(w, st), NEW n \in Nat, Climbs(n, st),
           NEW s \in Seq(Old(n))
    PROVE  Climbs(n, Replay(st, s))
<1>. DEFINE st0 == [st EXCEPT !.applied = <<>>]
            B == {t \in Seq(Old(n)) : /\ Replays(w, Replaying!Fold(st0, t))
                                      /\ Climbs(n, Replaying!Fold(st0, t))}
<1>0. <<>> \in Seq(Old(n)) /\ <<>> \in Seq(Change)
  OBVIOUS
<1>1. Replays(w, st0) /\ Climbs(n, st0)
  <2>1. /\ DOMAIN st0 = Fields /\ st0.world = st.world /\ st0.next = st.next
        /\ st0.aliases = st.aliases /\ st0.records = st.records /\ st0.applied = <<>>
    BY DEF Replays, Fields
  <2>. HIDE DEF st0
  <2>. QED
    BY <1>0, <2>1, ReplaysAnyway DEF Climbs
<1>2. Replay(st, s) = Replaying!Fold(st0, s)
  BY ReplayFold
<1>. HIDE DEF st0
<1>3. <<>> \in B
  BY <1>0, <1>1, Replaying!FoldEmpty
<1>4. ASSUME NEW t \in Seq(Old(n)), NEW c \in Old(n), t \in B
      PROVE  Append(t, c) \in B
  <2>. DEFINE old == Replaying!Fold(st0, t)
              next == ApplyChange(old, c)
  <2>1. Replaying!Fold(st0, Append(t, c)) = ReplayStep(old, c)
    BY Replaying!FoldAppend, Zenon
  <2>2. Replays(w, old) /\ Climbs(n, old) /\ c \in Change
    BY <1>4 DEF Old
  <2>. HIDE DEF old
  <2>3. Replays(w, ReplayStep(old, c))
    BY <2>2, StepReplays
  <2>4. Climbs(n, next) /\ Replays(w, next)
    BY <2>2, ApplyClimbs, ApplyReplays
  <2>5. ReplayStep(old, c) \in {old, next, [next EXCEPT !.applied = Append(@, c)]}
    BY Zenon DEF ReplayStep
  <2>6. Climbs(n, [next EXCEPT !.applied = Append(@, c)])
    <3>. HIDE DEF next
    <3>. DEFINE new == [next EXCEPT !.applied = Append(@, c)]
    <3>1. /\ new.next = next.next /\ new.aliases = next.aliases
          /\ new.applied = Append(next.applied, c)
      BY <2>4 DEF Replays, Fields
    <3>. HIDE DEF new
    <3>2. next.applied \in Seq(Old(n))
      BY <2>4 DEF Climbs
    <3>3. Append(next.applied, c) \in Seq(Old(n))
      BY <3>2
    <3>4. Climbs(n, new)
      BY <2>4, <3>1, <3>3 DEF Climbs
    <3>. QED
      BY <3>4 DEF new
  <2>7. Climbs(n, ReplayStep(old, c))
    <3>. HIDE DEF next
    <3>. QED
      BY <2>2, <2>4, <2>5, <2>6
  <2>8. Append(t, c) \in Seq(Old(n))
    OBVIOUS
  <2>. QED
    BY <2>1, <2>3, <2>7, <2>8
<1>. HIDE DEF B
<1>5. Seq(Old(n)) \subseteq B
  BY <1>3, <1>4, SequenceInduction
<1>. QED
  BY <1>2, <1>5 DEF B

\* So does a roll-back.
LEMMA RollBackClimbs ==
    ASSUME NEW w, IsTree(w), NEW st, Replays(w, st), NEW n \in Nat, Climbs(n, st)
    PROVE  Climbs(n, RollBack(st))
<1>. DEFINE back == [st EXCEPT !.ok = TRUE, !.forward = ~@]
            s == Reverse(st.applied)
<1>1. st.applied \in Seq(Change) /\ st.applied \in Seq(Old(n))
  BY DEF Replays, Climbs
<1>2. /\ DOMAIN back = Fields /\ back.world = st.world /\ back.next = st.next
      /\ back.aliases = st.aliases /\ back.records = st.records /\ back.applied = st.applied
  BY DEF Replays, Fields
<1>3. RollBack(st) = Replay(back, s)
  BY DEF RollBack
<1>. HIDE DEF back, s
<1>4. Replays(w, back) /\ Climbs(n, back)
  BY <1>1, <1>2, ReplaysAnyway DEF Climbs
<1>5. s \in Seq(Old(n))
  BY <1>1, ReverseType DEF s
<1>. QED
  BY <1>3, <1>4, <1>5, ReplayClimbs

-----------------------------------------------------------------------------
(* The inductive invariant.                                                *)

TreeOK ==
    /\ IsTree(world) /\ Fresh(world, nextId) /\ nextId <= MaxId + 1
    /\ aliases \in Tables

\* A group that holds a change may be committed as it is.
OpenOK ==
    /\ open \in [active : BOOLEAN, changes : Seq(Change), records : Seq(Record)]
    /\ ~ open.active => open = NoTransaction
    /\ open.changes = <<>> => open.records = <<>>
    /\ open.changes # <<>> => Bytes(open.changes) <= MaximumTransactionSemanticBytes

CountsOK ==
    /\ revision \in 0 .. MaxRevision /\ persisted \in 0 .. revision
    /\ outcome \in Outcomes /\ mirror \in Mirrors

IInv == TreeOK /\ OpenOK /\ HistoryOK /\ CountsOK

\* What a step does for the two claims that failed replays may break.
MirrorStep == MirrorConverges /\ outcome' \notin Failures /\ ~ Overtakes => MirrorConverges'
CleanStep == CleanIsSaved /\ outcome' \notin Failures => CleanIsSaved'
Keeps == IInv' /\ MirrorStep /\ CleanStep

\* A change by itself is charged what it weighs.
LEMMA BytesOne ==
    ASSUME NEW c \in Change
    PROVE  <<c>> \in Seq(Change) /\ Bytes(<<c>>) = ChangeBytes(c)
<1>1. <<>> \in Seq(Change) /\ Append(<<>>, c) = <<c>> /\ <<c>> \in Seq(Change)
  OBVIOUS
<1>2. Bytes(Append(<<>>, c)) = Bytes(<<>>) + ChangeBytes(c)
  BY <1>1, BytesAppend
<1>. QED
  BY <1>1, <1>2, BytesEmpty, ChangeBytesType

\* The objects of a world are identities within the bound.
LEMMA WithinBound ==
    ASSUME NEW w, NEW n, Fresh(w, n), n <= MaxId + 1
    PROVE  DOMAIN w \subseteq ObjectIds
<1>1. MaxId \in Nat
  BY LimitAssumption
<1>. QED
  BY <1>1 DEF Fresh, ObjectIds

\* What a saved project shows.
LEMMA ShapeType ==
    ASSUME NEW w, IsTree(w)
    PROVE  Shape(w) \in SUBSET Views
<1>1. Root \in ObjectIds
  BY LimitAssumption DEF ObjectIds, Root
<1>2. ASSUME NEW x \in DOMAIN w \ {Root}
      PROVE  Seen(w, x) \in Views
  <2>1. w[x] \in Node /\ w[x].parent \in DOMAIN w
    BY DEF IsTree, IsWorld, Objects
  <2>2. w[w[x].parent] \in Node
    BY <2>1 DEF IsTree, IsWorld
  <2>. QED
    BY <1>1, <2>1, <2>2 DEF Seen, Views, Node
<1>. QED
  BY <1>2 DEF Shape

\* A replay starts at the project itself, with no record.
LEMMA StartReplays ==
    ASSUME TreeOK, NEW forward
    PROVE  Replays(world, Start(forward))
<1>1. /\ DOMAIN Start(forward) = Fields /\ Start(forward).world = world
      /\ Start(forward).next = nextId /\ Start(forward).aliases = aliases
      /\ Start(forward).records = <<>> /\ Start(forward).applied = <<>>
  BY DEF Start, Fields
<1>2. <<>> \in Seq(Change) /\ <<>> \in Seq(Record)
  OBVIOUS
<1>3. Publish(Visible(world), <<>>) = Visible(world)
  BY PublishEmpty
<1>. QED
  BY <1>1, <1>2, <1>3, Zenon DEF TreeOK, Replays

\* Where no group is open, the copy is faithful when it shows the project.
LEMMA MirrorWhenClosed ==
    ASSUME open = NoTransaction
    PROVE  MirrorConverges <=> mirror = Visible(world)
<1>1. open.records = <<>>
  BY DEF NoTransaction
<1>. QED
  BY <1>1, PublishEmpty DEF MirrorConverges

\* Outside a group the copy is to equal the hierarchy.
LEMMA MirrorWhenClosedNext ==
    ASSUME open' = NoTransaction
    PROVE  MirrorConverges' <=> mirror' = Visible(world')
<1>1. open'.records = <<>>
  BY DEF NoTransaction
<1>. QED
  BY <1>1, PublishEmpty DEF MirrorConverges

\* No open group is well-formed.
LEMMA ClosedOK == ASSUME open' = NoTransaction PROVE OpenOK'
<1>1. /\ NoTransaction \in [active : BOOLEAN, changes : Seq(Change), records : Seq(Record)]
      /\ NoTransaction.changes = <<>> /\ NoTransaction.records = <<>> /\ NoTransaction.active = FALSE
  BY DEF NoTransaction
<1>. QED
  BY <1>1 DEF OpenOK

\* An entry that is committed costs one revision and publishes its records.
LEMMA CommitOK ==
    ASSUME HistoryOK, aliases \in Tables, CountsOK, revision < MaxRevision, NEW entry \in Entry,
           Bytes(entry.changes) <= RetainedByteLimit, NEW records \in Seq(Record),
           NEW after, IsTree(after), CommitEntry(entry, records, after),
           persisted' = persisted, outcome' \in Outcomes
    PROVE  /\ HistoryOK' /\ aliases' \in Tables /\ CountsOK' /\ OpenOK'
           /\ open' = NoTransaction /\ revision' = revision + 1 /\ mirror' = Publish(mirror, records)
<1>1. /\ Retain(entry, Shape(after)) /\ revision' = revision + 1 /\ open' = NoTransaction
      /\ mirror' = Publish(mirror, records)
  BY DEF CommitEntry
<1>2. HistoryOK'
  <2>1. Shape(after) \in SUBSET Views
    BY ShapeType
  <2>. QED
    BY <1>1, <2>1, RetainKeeps, Zenon
<1>3. aliases' \in Tables
  <2>. DEFINE keep == SubSeq(SubSeq(history, 1, cursor), Evicted(SubSeq(history, 1, cursor),
                        retainedBytes - TotalBytes(SubSeq(history, cursor + 1, Len(history))),
                        Bytes(entry.changes)) + 1, Len(SubSeq(history, 1, cursor)))
              D == DOMAIN aliases \cap Referenced(Append(keep, entry))
  <2>1. aliases' = aliases \/ aliases' = [id \in D |-> aliases[id]]
    BY <1>1, Zenon DEF Retain
  <2>2. /\ aliases = [x \in DOMAIN aliases |-> aliases[x]] /\ IsFiniteSet(DOMAIN aliases)
        /\ DOMAIN aliases \subseteq Others /\ \A x \in DOMAIN aliases : aliases[x] \in Others
    BY TableType
  <2>3. D \subseteq DOMAIN aliases /\ IsFiniteSet(D)
    BY <2>2, FS_Subset
  <2>. HIDE DEF D
  <2>. DEFINE cut == [id \in D |-> aliases[id]]
  <2>4. cut \in Tables
    <3>1. /\ cut = [x \in DOMAIN cut |-> cut[x]] /\ IsFiniteSet(DOMAIN cut)
          /\ DOMAIN cut \subseteq Others /\ \A x \in DOMAIN cut : cut[x] \in Others
      BY <2>2, <2>3
    <3>. HIDE DEF cut
    <3>. QED
      BY <3>1, TableType
  <2>. QED
    BY <2>1, <2>4
<1>4. CountsOK'
  <2>1. mirror' \in Mirrors
    BY <1>1, PublishType DEF CountsOK
  <2>2. MaxRevision \in Nat
    BY LimitAssumption
  <2>3. revision' \in 0 .. MaxRevision /\ persisted' \in 0 .. revision'
    BY <1>1, <2>2 DEF CountsOK
  <2>. QED
    BY <2>1, <2>3 DEF CountsOK
<1>. QED
  BY <1>1, <1>2, <1>3, <1>4, ClosedOK

\* A step that moves the revision hides nothing behind the clean sign.
LEMMA CleanWhenMoved ==
    ASSUME CountsOK, revision' = revision + 1, persisted' = persisted
    PROVE  CleanStep
<1>1. persisted' # revision'
  BY LimitAssumption DEF CountsOK
<1>. QED
  BY <1>1 DEF CleanStep, CleanIsSaved

\* A command leaves a tree, within or outside a group.
LEMMA AuthorOK ==
    ASSUME IInv, NEW effect, Faithful(world, effect), effect.change \in Change, Author(effect)
    PROVE  Keeps
<1>1. /\ world' = effect.world /\ nextId' = effect.next /\ effect.next <= MaxId + 1
      /\ outcome' = "None" /\ persisted' = persisted /\ saved' = saved
  BY DEF Author
<1>2. /\ IsTree(world') /\ Fresh(world', nextId') /\ nextId' <= MaxId + 1 /\ effect.records \in Seq(Record)
      /\ Publish(Visible(world), effect.records) = Visible(world')
  BY <1>1, Zenon DEF Faithful
<1>3. outcome' \in Outcomes
  BY <1>1 DEF Outcomes
<1>4. CASE ~ open.active
  <2>. DEFINE entry == Ordinary(<<effect.change>>)
  <2>1. /\ revision < MaxRevision /\ ChangeBytes(effect.change) <= MaximumTransactionSemanticBytes
        /\ CommitEntry(entry, effect.records, effect.world)
    BY <1>4 DEF Author
  <2>2. <<effect.change>> \in Seq(Change) /\ Bytes(<<effect.change>>) = ChangeBytes(effect.change)
    BY BytesOne
  <2>3. entry \in Entry /\ entry.changes = <<effect.change>>
    BY <2>2 DEF Ordinary, Entry
  <2>. HIDE DEF entry
  <2>4. Bytes(entry.changes) <= RetainedByteLimit
    BY <2>1, <2>2, <2>3, ChangeBytesType, LimitAssumption
  <2>5. IsTree(effect.world)
    BY DEF Faithful
  <2>6. /\ HistoryOK' /\ aliases' \in Tables /\ CountsOK' /\ OpenOK' /\ open' = NoTransaction
        /\ revision' = revision + 1 /\ mirror' = Publish(mirror, effect.records)
    BY <1>1, <1>2, <1>3, <2>1, <2>3, <2>4, <2>5, CommitOK, Zenon DEF IInv, TreeOK
  <2>7. IInv'
    BY <1>2, <2>6 DEF IInv, TreeOK
  <2>8. open = NoTransaction
    BY <1>4 DEF IInv, OpenOK
  <2>9. MirrorStep
    BY <1>2, <2>6, <2>8, MirrorWhenClosed, MirrorWhenClosedNext DEF MirrorStep
  <2>10. CleanStep
    BY <1>1, <2>6, CleanWhenMoved DEF IInv
  <2>. QED
    BY <2>7, <2>9, <2>10 DEF Keeps
<1>5. CASE open.active
  <2>. DEFINE cs == Append(open.changes, effect.change)
              rs == open.records \o effect.records
  <2>1. /\ Bytes(cs) <= MaximumTransactionSemanticBytes
        /\ open' = [open EXCEPT !.changes = cs, !.records = rs]
        /\ history' = history /\ cursor' = cursor /\ retainedBytes' = retainedBytes
        /\ aliases' = aliases /\ revision' = revision /\ mirror' = mirror /\ marks' = marks
    BY <1>5 DEF Author, historyVars
  <2>2. open \in [active : BOOLEAN, changes : Seq(Change), records : Seq(Record)]
    BY <1>5 DEF IInv, OpenOK
  <2>3. cs \in Seq(Change) /\ cs # <<>> /\ rs \in Seq(Record)
    BY <1>2, <2>2
  <2>. HIDE DEF cs, rs
  <2>4. /\ open' \in [active : BOOLEAN, changes : Seq(Change), records : Seq(Record)]
        /\ open'.changes = cs /\ open'.records = rs /\ open'.active = TRUE
    BY <1>5, <2>1, <2>2, <2>3
  <2>5. OpenOK'
    BY <2>1, <2>2, <2>3, <2>4 DEF OpenOK
  <2>6. HistoryOK'
    BY <2>1 DEF IInv, HistoryOK, RetentionExact
  <2>7. CountsOK'
    BY <1>1, <1>3, <2>1 DEF IInv, CountsOK
  <2>8. TreeOK'
    BY <1>2, <2>1 DEF IInv, TreeOK
  <2>9. MirrorStep
    <3>1. Publish(mirror, rs) = Publish(Publish(mirror, open.records), effect.records)
      BY <1>2, <2>2, PublishConcat DEF rs
    <3>2. ASSUME MirrorConverges
          PROVE  Publish(mirror', open'.records) = Visible(world')
      BY <1>2, <2>1, <2>4, <3>1, <3>2 DEF MirrorConverges
    <3>. QED
      BY <3>2 DEF MirrorStep, MirrorConverges
  <2>10. CleanStep
    BY <2>3, <2>4 DEF CleanStep, CleanIsSaved
  <2>. QED
    BY <2>5, <2>6, <2>7, <2>8, <2>9, <2>10 DEF Keeps, IInv
<1>. QED
  BY <1>4, <1>5

\* SetProperty.
LEMMA SetPropertyKeeps == ASSUME IInv, SetProperty PROVE Keeps
<1>1. PICK x \in Objects(world), v \in Values : Author(PropertyEffect(world, nextId, x, v))
  BY DEF SetProperty
<1>2. x \in DOMAIN world
  BY DEF Objects
<1>3. /\ Faithful(world, PropertyEffect(world, nextId, x, v))
      /\ PropertyEffect(world, nextId, x, v).change \in Change
  BY <1>2, PropertyOK, Zenon DEF IInv, TreeOK
<1>. QED
  BY <1>1, <1>3, AuthorOK

\* Reparent.
LEMMA ReparentKeeps == ASSUME IInv, Reparent PROVE Keeps
<1>1. PICK x \in Objects(world), p \in DOMAIN world :
         CanReparent(world, x, p) /\ Author(ReparentEffect(world, nextId, x, p))
  BY DEF Reparent
<1>2. x \in DOMAIN world
  BY DEF Objects
<1>3. /\ Faithful(world, ReparentEffect(world, nextId, x, p))
      /\ ReparentEffect(world, nextId, x, p).change \in Change
  BY <1>1, <1>2, ReparentOK, Zenon DEF IInv, TreeOK
<1>. QED
  BY <1>1, <1>3, AuthorOK

\* Create.
LEMMA CreateKeeps == ASSUME IInv, Create PROVE Keeps
<1>1. PICK p \in DOMAIN world : Author(CreateEffect(world, nextId, p, InitialValue))
  BY DEF Create
<1>2. CreateEffect(world, nextId, p, InitialValue).next = nextId + 1
  BY DEF CreateEffect
<1>3. nextId \in ObjectIds /\ InitialValue \in Values
  <2>1. nextId + 1 <= MaxId + 1
    BY <1>1, <1>2 DEF Author
  <2>2. nextId \in Nat
    BY DEF IInv, TreeOK, Fresh
  <2>. QED
    BY <2>1, <2>2, LimitAssumption DEF ObjectIds
<1>4. /\ Faithful(world, CreateEffect(world, nextId, p, InitialValue))
      /\ CreateEffect(world, nextId, p, InitialValue).change \in Change
  BY <1>3, CreateOK, Zenon DEF IInv, TreeOK
<1>. QED
  BY <1>1, <1>4, AuthorOK

\* Destroy.
LEMMA DestroyKeeps == ASSUME IInv, Destroy PROVE Keeps
<1>1. PICK x \in Objects(world) : Author(DestroyEffect(world, nextId, x))
  BY DEF Destroy
<1>2. /\ Faithful(world, DestroyEffect(world, nextId, x))
      /\ DestroyEffect(world, nextId, x).change \in Change
  BY DestroyOK, Zenon DEF IInv, TreeOK
<1>. QED
  BY <1>1, <1>2, AuthorOK

\* Duplicate.
LEMMA DuplicateKeeps == ASSUME IInv, Duplicate PROVE Keeps
<1>1. PICK x \in Objects(world) : Author(DuplicateEffect(world, nextId, x))
  BY DEF Duplicate
<1>2. DuplicateEffect(world, nextId, x).next = nextId + Len(Nodes(world, x))
  BY Zenon DEF DuplicateEffect
<1>3. nextId + Len(Nodes(world, x)) <= MaxId + 1
  BY <1>1, <1>2 DEF Author
<1>4. /\ Faithful(world, DuplicateEffect(world, nextId, x))
      /\ DuplicateEffect(world, nextId, x).change \in Change
  BY <1>3, DuplicateOK, Zenon DEF IInv, TreeOK
<1>. QED
  BY <1>1, <1>4, AuthorOK

\* BeginTransaction.
LEMMA BeginKeeps == ASSUME IInv, BeginTransaction PROVE Keeps
<1>1. /\ ~ open.active /\ revision < MaxRevision
      /\ open' = [NoTransaction EXCEPT !.active = TRUE] /\ outcome' = "None"
      /\ world' = world /\ nextId' = nextId /\ aliases' = aliases
      /\ history' = history /\ cursor' = cursor /\ retainedBytes' = retainedBytes /\ marks' = marks
      /\ revision' = revision /\ persisted' = persisted /\ saved' = saved /\ mirror' = mirror
  BY DEF BeginTransaction, historyVars
<1>2. open = NoTransaction
  BY <1>1 DEF IInv, OpenOK
<1>3. /\ open' \in [active : BOOLEAN, changes : Seq(Change), records : Seq(Record)]
      /\ open'.active = TRUE /\ open'.changes = <<>> /\ open'.records = <<>>
  <2>. DEFINE begun == [NoTransaction EXCEPT !.active = TRUE]
  <2>1. /\ NoTransaction \in [active : BOOLEAN, changes : Seq(Change), records : Seq(Record)]
        /\ NoTransaction.changes = <<>> /\ NoTransaction.records = <<>>
    BY DEF NoTransaction
  <2>2. begun \in [active : BOOLEAN, changes : Seq(Change), records : Seq(Record)]
    BY <2>1
  <2>3. begun.changes = <<>> /\ begun.records = <<>>
    BY <2>1
  <2>4. begun.active = TRUE
    BY <2>1
  <2>5. open' = begun
    BY <1>1
  <2>. HIDE DEF begun
  <2>. QED
    BY <2>2, <2>3, <2>4, <2>5
<1>4. open.changes = <<>> /\ open.records = <<>>
  BY <1>2 DEF NoTransaction
<1>5. OpenOK'
  BY <1>1, <1>3 DEF OpenOK
<1>6. TreeOK' /\ HistoryOK' /\ CountsOK'
  BY <1>1 DEF IInv, TreeOK, HistoryOK, RetentionExact, CountsOK, Outcomes
<1>7. MirrorStep
  BY <1>1, <1>3, <1>4 DEF MirrorStep, MirrorConverges
<1>8. CleanStep
  BY <1>1, <1>3, <1>4 DEF CleanStep, CleanIsSaved
<1>. QED
  BY <1>5, <1>6, <1>7, <1>8 DEF Keeps, IInv

\* CommitTransaction.
LEMMA CommitKeeps == ASSUME IInv, CommitTransaction PROVE Keeps
<1>1. /\ open.active /\ outcome' = "None" /\ world' = world /\ nextId' = nextId
      /\ persisted' = persisted /\ saved' = saved
  BY DEF CommitTransaction
<1>2. open \in [active : BOOLEAN, changes : Seq(Change), records : Seq(Record)]
  BY <1>1 DEF IInv, OpenOK
<1>3. outcome' \in Outcomes /\ outcome' \notin Failures
  BY <1>1 DEF Outcomes, Failures
<1>4. CASE open.changes = <<>>
  <2>1. /\ open' = NoTransaction /\ aliases' = aliases
        /\ history' = history /\ cursor' = cursor /\ retainedBytes' = retainedBytes
        /\ marks' = marks /\ revision' = revision /\ mirror' = mirror
    BY <1>4 DEF CommitTransaction, historyVars
  <2>2. open.records = <<>>
    BY <1>4 DEF IInv, OpenOK
  <2>3. OpenOK'
    BY <2>1, ClosedOK
  <2>4. TreeOK' /\ HistoryOK' /\ CountsOK'
    BY <1>1, <1>3, <2>1 DEF IInv, TreeOK, HistoryOK, RetentionExact, CountsOK
  <2>5. MirrorStep
    BY <1>1, <2>1, <2>2, PublishEmpty, MirrorWhenClosedNext DEF MirrorStep, MirrorConverges
  <2>6. CleanStep
    BY <1>1, <1>4, <2>1 DEF CleanStep, CleanIsSaved
  <2>. QED
    BY <2>3, <2>4, <2>5, <2>6 DEF Keeps, IInv
<1>5. CASE open.changes # <<>>
  <2>. DEFINE entry == Ordinary(open.changes)
  <2>1. revision < MaxRevision /\ CommitEntry(entry, open.records, world)
    BY <1>5 DEF CommitTransaction
  <2>2. entry \in Entry /\ entry.changes = open.changes
    BY <1>2 DEF Ordinary, Entry
  <2>. HIDE DEF entry
  <2>3. Bytes(entry.changes) <= RetainedByteLimit
    <3>1. Bytes(open.changes) <= MaximumTransactionSemanticBytes /\ Bytes(open.changes) \in Nat
      BY <1>2, <1>5, BytesType DEF IInv, OpenOK
    <3>. QED
      BY <2>2, <3>1, LimitAssumption
  <2>4. open.records \in Seq(Record)
    BY <1>2
  <2>5. /\ HistoryOK' /\ aliases' \in Tables /\ CountsOK' /\ OpenOK' /\ open' = NoTransaction
        /\ revision' = revision + 1 /\ mirror' = Publish(mirror, open.records)
    BY <1>1, <1>2, <1>3, <2>1, <2>2, <2>3, <2>4, CommitOK, Zenon DEF IInv, TreeOK
  <2>6. TreeOK'
    BY <1>1, <2>5 DEF IInv, TreeOK
  <2>7. MirrorStep
    BY <1>1, <2>5, MirrorWhenClosedNext DEF MirrorStep, MirrorConverges
  <2>8. CleanStep
    BY <1>1, <2>5, CleanWhenMoved DEF IInv
  <2>. QED
    BY <2>5, <2>6, <2>7, <2>8 DEF Keeps, IInv
<1>. QED
  BY <1>4, <1>5

\* A batch is a sequence of property changes of objects of the project.
LEMMA BatchOK ==
    ASSUME IsTree(world), NEW xs \in SUBSET Objects(world), NEW f \in [xs -> Values]
    PROVE  LET writes == WriteBatch(xs, f)
               changes == [i \in DOMAIN writes |->
                             [kind |-> "Property", object |-> writes[i],
                              before |-> world[writes[i]].value, after |-> f[writes[i]]]]
           IN  changes \in Seq([kind : {"Property"}, object : DOMAIN world,
                                before : Values, after : Values])
<1>. DEFINE S == {x \in xs : world[x].value # f[x]}
            order == {p \in xs \X xs : p[1] < p[2]}
            X == [kind : {"Property"}, object : DOMAIN world, before : Values, after : Values]
            change(x) == [kind |-> "Property", object |-> x, before |-> world[x].value, after |-> f[x]]
            writes == Sorted(S, order)
            changes == [i \in DOMAIN writes |-> change(writes[i])]
<1>1. /\ IsFiniteSet(DOMAIN world) /\ DOMAIN world \subseteq Int
      /\ \A x \in DOMAIN world : world[x].value \in Values
  BY DEF IsTree, IsWorld, Node
<1>2. S \subseteq DOMAIN world /\ IsFiniteSet(S)
  <2>1. S \subseteq DOMAIN world
    BY DEF Objects
  <2>. HIDE DEF S
  <2>. QED
    BY <1>1, <2>1, FS_Subset
<1>3. Orders(order, S)
  <2>1. S \subseteq Int /\ S \subseteq xs
    BY <1>1, <1>2
  <2>2. \A y, z \in S : <<y, z>> \in order <=> y < z
    BY <2>1
  <2>. HIDE DEF order, S
  <2>. QED
    BY <2>1, <2>2 DEF Orders
<1>4. writes \in Seq(S)
  <2>. HIDE DEF order, S
  <2>. QED
    BY <1>2, <1>3, SortedOK
<1>5. \A x \in S : change(x) \in X
  <2>1. \A x \in S : x \in xs /\ x \in DOMAIN world /\ world[x].value \in Values /\ f[x] \in Values
    BY <1>1, <1>2
  <2>. HIDE DEF S
  <2>. QED
    BY <2>1
<1>6. WriteBatch(xs, f) = writes
  BY DEF WriteBatch, CanSetValue
<1>. HIDE DEF writes, S, X
<1>7. changes \in Seq(X)
  <2>1. DOMAIN writes = 1 .. Len(writes) /\ Len(writes) \in Nat /\ \A i \in DOMAIN writes : writes[i] \in S
    BY <1>4
  <2>2. \A i \in 1 .. Len(writes) : change(writes[i]) \in X
    BY <1>5, <2>1
  <2>. HIDE DEF change
  <2>. QED
    BY <2>1, <2>2
<1>. QED
  BY <1>6, <1>7 DEF X

\* SetPropertyBatch.
LEMMA BatchKeeps == ASSUME IInv, SetPropertyBatch PROVE Keeps
<1>. DEFINE X == [kind : {"Property"}, object : DOMAIN world, before : Values, after : Values]
            changesOf(xs, f) ==
              [i \in DOMAIN WriteBatch(xs, f) |->
                 [kind |-> "Property", object |-> WriteBatch(xs, f)[i],
                  before |-> world[WriteBatch(xs, f)[i]].value, after |-> f[WriteBatch(xs, f)[i]]]]
            entryOf(cs) == [changes |-> cs, policy |-> "PreparedPropertyBatch"]
<1>1. PICK xs \in SUBSET Objects(world) : \E f \in [xs -> Values] :
         LET changes == changesOf(xs, f)
         IN  /\ ~ open.active /\ revision < MaxRevision
             /\ Bytes(changes) <= RetainedByteLimit
             /\ world' = Stored(world, changes)
             /\ CommitEntry(entryOf(changes), ValueRecords(changes), world')
             /\ outcome' = "None" /\ UNCHANGED <<nextId, persisted, saved>>
  BY Zenon DEF SetPropertyBatch
<1>2. PICK f \in [xs -> Values] :
             LET changes == changesOf(xs, f)
             IN  /\ ~ open.active /\ revision < MaxRevision
                 /\ Bytes(changes) <= RetainedByteLimit
                 /\ world' = Stored(world, changes)
                 /\ CommitEntry(entryOf(changes), ValueRecords(changes), world')
                 /\ outcome' = "None" /\ UNCHANGED <<nextId, persisted, saved>>
  BY <1>1
<1>. DEFINE changes == changesOf(xs, f)
            entry == entryOf(changes)
<1>3. changes \in Seq(X)
  BY BatchOK, Zenon DEF IInv, TreeOK
<1>4. /\ ~ open.active /\ revision < MaxRevision /\ Bytes(changes) <= RetainedByteLimit
      /\ world' = Stored(world, changes) /\ CommitEntry(entry, ValueRecords(changes), world')
      /\ outcome' = "None" /\ nextId' = nextId /\ persisted' = persisted /\ saved' = saved
  BY <1>2
<1>5. entry.changes = changes /\ entry = [changes |-> changes, policy |-> "PreparedPropertyBatch"]
  OBVIOUS
<1>. HIDE DEF changes, entry
<1>6. /\ IsTree(Stored(world, changes)) /\ DOMAIN Stored(world, changes) = DOMAIN world
      /\ ValueRecords(changes) \in Seq(Record)
      /\ Publish(Visible(world), ValueRecords(changes)) = Visible(Stored(world, changes))
  <2>1. \A c \in X : c.object \in DOMAIN world /\ c.after \in Values
    OBVIOUS
  <2>2. IsTree(world)
    BY DEF IInv, TreeOK
  <2>. HIDE DEF X
  <2>. QED
    BY <1>3, <2>1, <2>2, StoredOK
<1>7. changes \in Seq(PropertyChange) /\ changes \in Seq(Change)
  <2>1. DOMAIN world \subseteq Int
    BY DEF IInv, TreeOK, IsTree, IsWorld
  <2>2. X \subseteq PropertyChange
    BY <2>1 DEF PropertyChange
  <2>3. PropertyChange \subseteq Change
    BY DEF Change
  <2>. HIDE DEF X
  <2>4. Seq(X) \subseteq Seq(PropertyChange) /\ Seq(PropertyChange) \subseteq Seq(Change)
    BY <2>2, <2>3, SeqWider
  <2>. QED
    BY <1>3, <2>4
<1>8. entry \in Entry
  BY <1>5, <1>7 DEF Entry
<1>9. outcome' \in Outcomes /\ IsTree(world') /\ Bytes(entry.changes) <= RetainedByteLimit
  BY <1>4, <1>5, <1>6 DEF Outcomes
<1>10. /\ HistoryOK' /\ aliases' \in Tables /\ CountsOK' /\ OpenOK' /\ open' = NoTransaction
       /\ revision' = revision + 1 /\ mirror' = Publish(mirror, ValueRecords(changes))
  BY <1>4, <1>6, <1>8, <1>9, CommitOK, Zenon DEF IInv, TreeOK
<1>11. TreeOK'
  <2>1. Fresh(world', nextId')
    BY <1>4, <1>6 DEF IInv, TreeOK, Fresh
  <2>. QED
    BY <1>4, <1>9, <1>10, <2>1 DEF IInv, TreeOK
<1>12. MirrorStep
  <2>1. open = NoTransaction
    BY <1>4 DEF IInv, OpenOK
  <2>. QED
    BY <1>4, <1>6, <1>10, <2>1, MirrorWhenClosed, MirrorWhenClosedNext DEF MirrorStep
<1>13. CleanStep
  BY <1>4, <1>10, CleanWhenMoved DEF IInv
<1>. QED
  BY <1>10, <1>11, <1>12, <1>13 DEF Keeps, IInv

\* What an undo or a redo leaves alone.
ReplayLeaves ==
    /\ open' = open /\ history' = history /\ retainedBytes' = retainedBytes
    /\ persisted' = persisted /\ saved' = saved /\ marks' = marks

\* A replay moves the cursor and leaves the retained entries.
LEMMA HistoryStays ==
    ASSUME HistoryOK, ReplayLeaves, cursor' \in 0 .. Len(history)
    PROVE  HistoryOK'
BY DEF HistoryOK, RetentionExact, ReplayLeaves

\* A replay that succeeds publishes what it did under one revision.
LEMMA CompletedOK ==
    ASSUME IInv, ReplayLeaves, ~ open.active, revision < MaxRevision, NEW after, NEW next,
           NEW table, NEW records, NEW position \in 0 .. Len(history),
           IsTree(after), Fresh(after, next), next <= MaxId + 1, table \in Tables,
           records \in Seq(Record), Publish(Visible(world), records) = Visible(after),
           CompleteReplay(after, next, table, records, position)
    PROVE  Keeps
<1>1. /\ world' = after /\ nextId' = next /\ aliases' = table /\ mirror' = Publish(mirror, records)
      /\ revision' = revision + 1 /\ cursor' = position /\ outcome' = "Success"
  BY DEF CompleteReplay
<1>2. open = NoTransaction /\ open' = NoTransaction
  BY DEF IInv, OpenOK, ReplayLeaves
<1>3. TreeOK'
  BY <1>1 DEF TreeOK
<1>4. OpenOK'
  BY <1>2, ClosedOK
<1>5. HistoryOK'
  BY <1>1, HistoryStays DEF IInv
<1>6. CountsOK'
  <2>1. mirror' \in Mirrors
    BY <1>1, PublishType DEF IInv, CountsOK
  <2>2. revision' \in 0 .. MaxRevision /\ persisted' \in 0 .. revision'
    BY <1>1, LimitAssumption DEF IInv, CountsOK, ReplayLeaves
  <2>. QED
    BY <1>1, <2>1, <2>2 DEF CountsOK, Outcomes
<1>7. MirrorStep
  BY <1>1, <1>2, MirrorWhenClosed, MirrorWhenClosedNext DEF MirrorStep
<1>8. CleanStep
  BY <1>1, CleanWhenMoved DEF IInv, ReplayLeaves
<1>. QED
  BY <1>3, <1>4, <1>5, <1>6, <1>7, <1>8 DEF Keeps, IInv

\* A replay that fails leaves a tree, whatever it could not take back.
LEMMA AbandonedOK ==
    ASSUME IInv, ReplayLeaves, IsTree(world'), Fresh(world', nextId'), nextId' <= MaxId + 1,
           aliases' \in Tables, outcome' \in Failures,
           mirror' = mirror, revision' = revision, cursor' = cursor
    PROVE  Keeps
<1>1. TreeOK'
  BY DEF TreeOK
<1>2. OpenOK'
  BY DEF IInv, OpenOK, ReplayLeaves
<1>3. HistoryOK'
  <2>1. cursor' \in 0 .. Len(history)
    BY DEF IInv, HistoryOK
  <2>. QED
    BY <2>1, HistoryStays DEF IInv
<1>4. CountsOK'
  BY DEF IInv, CountsOK, ReplayLeaves, Outcomes
<1>5. MirrorStep /\ CleanStep
  BY DEF MirrorStep, CleanStep
<1>. QED
  BY <1>1, <1>2, <1>3, <1>4, <1>5 DEF Keeps, IInv

\* Undo and redo of an ordinary entry, whether it succeeds, rolls back or fails.
LEMMA OrdinaryKeeps ==
    ASSUME IInv, ReplayLeaves, ~ open.active, revision < MaxRevision, NEW entry \in Entry,
           NEW forward, NEW position \in 0 .. Len(history),
           ExecuteOrdinary(entry, forward, position)
    PROVE  Keeps
<1>. DEFINE changes == InOrder(entry.changes, forward)
            st == Replay(Start(forward), changes)
            back == RollBack(st)
<1>1. changes \in Seq(Change)
  <2>1. entry.changes \in Seq(Change)
    BY DEF Entry
  <2>. QED
    BY <2>1, ReverseType DEF InOrder
<1>2. IF st.ok THEN /\ st.next <= MaxId + 1
                    /\ CompleteReplay(st.world, st.next, st.aliases, st.records, position)
      ELSE back.next <= MaxId + 1 /\ AbandonReplay(back)
  BY Zenon DEF ExecuteOrdinary
<1>. HIDE DEF changes
<1>3. IsTree(world) /\ Replays(world, st)
  <2>1. IsTree(world) /\ Replays(world, Start(forward))
    BY StartReplays DEF IInv, TreeOK
  <2>. QED
    BY <1>1, <2>1, ReplayOK
<1>. HIDE DEF st
<1>4. Replays(world, back)
  BY <1>3, RollBackOK
<1>. HIDE DEF back
<1>5. CASE st.ok
  <2>1. /\ IsTree(st.world) /\ Fresh(st.world, st.next) /\ st.aliases \in Tables
        /\ st.records \in Seq(Record) /\ Publish(Visible(world), st.records) = Visible(st.world)
    BY <1>3, Zenon DEF Replays
  <2>2. /\ st.next <= MaxId + 1
        /\ CompleteReplay(st.world, st.next, st.aliases, st.records, position)
    BY <1>2, <1>5
  <2>. QED
    BY <2>1, <2>2, CompletedOK, Zenon
<1>6. CASE ~ st.ok
  <2>1. /\ back.next <= MaxId + 1 /\ world' = back.world /\ nextId' = back.next
        /\ aliases' = back.aliases /\ outcome' \in Failures
        /\ mirror' = mirror /\ revision' = revision /\ cursor' = cursor
    BY <1>2, <1>6 DEF AbandonReplay, Failures
  <2>2. IsTree(world') /\ Fresh(world', nextId') /\ nextId' <= MaxId + 1 /\ aliases' \in Tables
    BY <1>4, <2>1, Zenon DEF Replays
  <2>. QED
    BY <2>1, <2>2, AbandonedOK
<1>. QED
  BY <1>5, <1>6

\* Undo and redo of a prepared batch, which changes values only.
LEMMA PreparedKeeps ==
    ASSUME IInv, ReplayLeaves, ~ open.active, revision < MaxRevision, NEW entry \in Entry,
           entry.policy = "PreparedPropertyBatch",
           NEW forward, NEW position \in 0 .. Len(history),
           ExecutePrepared(entry, forward, position)
    PROVE  Keeps
<1>. DEFINE write(c) == [object |-> ResolveIdentity(aliases, c.object),
                         before |-> IF forward THEN c.before ELSE c.after,
                         after |-> IF forward THEN c.after ELSE c.before]
            writes == [i \in DOMAIN entry.changes |-> write(entry.changes[i])]
            fresh == \A i \in DOMAIN writes :
                        /\ writes[i].object \in DOMAIN world
                        /\ world[writes[i].object].value = writes[i].before
            X == [object : DOMAIN world, before : Values, after : Values]
<1>1. IF fresh
      THEN CompleteReplay(Stored(world, writes), nextId, aliases, ValueRecords(writes), position)
      ELSE /\ outcome' = "ExecutionFailed"
           /\ UNCHANGED <<world, nextId, aliases, mirror, revision, cursor>>
  BY Zenon DEF ExecutePrepared
<1>2. CASE ~ fresh
  <2>1. /\ outcome' \in Failures /\ world' = world /\ nextId' = nextId /\ aliases' = aliases
        /\ mirror' = mirror /\ revision' = revision /\ cursor' = cursor
    <3>. HIDE DEF fresh, writes
    <3>. QED
      BY <1>1, <1>2 DEF Failures
  <2>2. IsTree(world') /\ Fresh(world', nextId') /\ nextId' <= MaxId + 1 /\ aliases' \in Tables
    BY <2>1, Zenon DEF IInv, TreeOK
  <2>. QED
    BY <2>1, <2>2, AbandonedOK
<1>3. CASE fresh
  <2>1. CompleteReplay(Stored(world, writes), nextId, aliases, ValueRecords(writes), position)
    <3>. HIDE DEF fresh, writes
    <3>. QED
      BY <1>1, <1>3
  <2>2. entry.changes \in Seq(PropertyChange)
    BY DEF Entry
  <2>3. writes \in Seq(X)
    <3>1. /\ DOMAIN entry.changes = 1 .. Len(entry.changes) /\ Len(entry.changes) \in Nat
          /\ \A i \in DOMAIN entry.changes : entry.changes[i] \in PropertyChange
      BY <2>2
    <3>2. ASSUME NEW i \in 1 .. Len(entry.changes)
          PROVE  write(entry.changes[i]) \in X
      <4>1. entry.changes[i] \in PropertyChange /\ i \in DOMAIN writes
            /\ writes[i] = write(entry.changes[i])
        BY <3>1
      <4>2. write(entry.changes[i]).object \in DOMAIN world
        <5>. HIDE DEF write
        <5>1. writes[i].object \in DOMAIN world
          <6>. HIDE DEF writes
          <6>. QED
            BY <1>3, <4>1
        <5>. HIDE DEF writes
        <5>. QED
          BY <4>1, <5>1
      <4>. QED
        BY <4>1, <4>2 DEF PropertyChange
    <3>. HIDE DEF write, X
    <3>. QED
      BY <3>1, <3>2
  <2>. HIDE DEF writes
  <2>4. /\ IsTree(Stored(world, writes)) /\ DOMAIN Stored(world, writes) = DOMAIN world
        /\ ValueRecords(writes) \in Seq(Record)
        /\ Publish(Visible(world), ValueRecords(writes)) = Visible(Stored(world, writes))
    <3>1. \A c \in X : c.object \in DOMAIN world /\ c.after \in Values
      OBVIOUS
    <3>2. IsTree(world)
      BY DEF IInv, TreeOK
    <3>. HIDE DEF X
    <3>. QED
      BY <2>3, <3>1, <3>2, StoredOK
  <2>5. Fresh(Stored(world, writes), nextId) /\ nextId <= MaxId + 1 /\ aliases \in Tables
    BY <2>4 DEF IInv, TreeOK, Fresh
  <2>. QED
    BY <2>1, <2>4, <2>5, CompletedOK, Zenon
<1>. QED
  BY <1>2, <1>3

\* Undo and redo of either kind of entry.
LEMMA ExecuteKeeps ==
    ASSUME IInv, NEW entry \in Entry, NEW forward, NEW position \in 0 .. Len(history),
           ExecuteHistory(entry, forward, position)
    PROVE  Keeps
<1>1. /\ ~ open.active /\ revision < MaxRevision /\ ReplayLeaves
  BY DEF ExecuteHistory, ReplayLeaves
<1>2. IF entry.policy = "PreparedPropertyBatch" THEN ExecutePrepared(entry, forward, position)
      ELSE ExecuteOrdinary(entry, forward, position)
  BY Zenon DEF ExecuteHistory
<1>3. CASE entry.policy = "PreparedPropertyBatch"
  BY <1>1, <1>2, <1>3, PreparedKeeps, Zenon
<1>4. CASE entry.policy # "PreparedPropertyBatch"
  BY <1>1, <1>2, <1>4, OrdinaryKeeps, Zenon
<1>. QED
  BY <1>3, <1>4

\* Undo.
LEMMA UndoKeeps == ASSUME IInv, Undo PROVE Keeps
<1>1. cursor > 0 /\ ExecuteHistory(history[cursor], FALSE, cursor - 1)
  BY DEF Undo
<1>2. history \in Seq(Entry) /\ cursor \in 0 .. Len(history) /\ Len(history) \in Nat
  BY DEF IInv, HistoryOK
<1>3. history[cursor] \in Entry /\ cursor - 1 \in 0 .. Len(history)
  BY <1>1, <1>2
<1>. QED
  BY <1>1, <1>3, ExecuteKeeps, Zenon

\* Redo.
LEMMA RedoKeeps == ASSUME IInv, Redo PROVE Keeps
<1>1. cursor < Len(history) /\ ExecuteHistory(history[cursor + 1], TRUE, cursor + 1)
  BY DEF Redo
<1>2. history \in Seq(Entry) /\ cursor \in 0 .. Len(history) /\ Len(history) \in Nat
  BY DEF IInv, HistoryOK
<1>3. history[cursor + 1] \in Entry /\ cursor + 1 \in 0 .. Len(history)
  BY <1>1, <1>2
<1>. QED
  BY <1>1, <1>3, ExecuteKeeps, Zenon

\* SaveProject.
LEMMA SaveKeeps == ASSUME IInv, SaveProject PROVE Keeps
<1>1. /\ persisted' = revision /\ saved' = Shape(world) /\ outcome' = "None"
      /\ world' = world /\ nextId' = nextId /\ open' = open /\ aliases' = aliases
      /\ history' = history /\ cursor' = cursor /\ retainedBytes' = retainedBytes
      /\ revision' = revision /\ mirror' = mirror /\ marks' = marks
  BY DEF SaveProject, historyVars
<1>2. TreeOK' /\ OpenOK' /\ HistoryOK'
  BY <1>1 DEF IInv, TreeOK, OpenOK, HistoryOK, RetentionExact
<1>3. CountsOK'
  BY <1>1 DEF IInv, CountsOK, Outcomes
<1>4. MirrorStep
  BY <1>1 DEF MirrorStep, MirrorConverges
<1>5. CleanStep
  BY <1>1 DEF CleanStep, CleanIsSaved
<1>. QED
  BY <1>2, <1>3, <1>4, <1>5 DEF Keeps, IInv

\* A snapshot taken inside a group shows the changes already whose records
\* follow when it commits: those records then change nothing.
LEMMA SnapshotKeeps == ASSUME IInv, GetSnapshot PROVE Keeps
<1>1. /\ mirror' = Visible(world) /\ outcome' = "None" /\ persisted' = persisted /\ saved' = saved
      /\ world' = world /\ nextId' = nextId /\ open' = open /\ aliases' = aliases
      /\ history' = history /\ cursor' = cursor /\ retainedBytes' = retainedBytes
      /\ revision' = revision /\ marks' = marks
  BY DEF GetSnapshot, historyVars
<1>2. TreeOK' /\ OpenOK' /\ HistoryOK'
  BY <1>1 DEF IInv, TreeOK, OpenOK, HistoryOK, RetentionExact
<1>3. Visible(world) \in Mirrors
  BY VisibleType DEF IInv, TreeOK, IsTree
<1>4. CountsOK'
  BY <1>1, <1>3 DEF IInv, CountsOK, Outcomes
<1>5. MirrorStep
  <2>1. open.records \in Seq(Record) /\ mirror \in Mirrors
    BY DEF IInv, OpenOK, CountsOK
  <2>2. Publish(Publish(mirror, open.records), open.records) = Publish(mirror, open.records)
    BY <2>1, PublishTwice
  <2>. QED
    BY <1>1, <2>2 DEF MirrorStep, MirrorConverges
<1>6. CleanStep
  BY <1>1 DEF CleanStep, CleanIsSaved
<1>. QED
  BY <1>2, <1>4, <1>5, <1>6 DEF Keeps, IInv

\* Publishing a write, a move or a destruction before the records of the open
\* group comes to the same as after them, unless one of them is about the same.
LEMMA OvertakingOK ==
    ASSUME IInv, MirrorConverges, NEW effect, Faithful(world, effect), world' = effect.world,
           NEW x \in Objects(world), LocalEdit, ~ Overtakes,
           \/ \E v \in Values : CanSetValue(world, x, v) /\ effect = PropertyEffect(world, nextId, x, v)
           \/ \E p \in DOMAIN world :
                 CanReparent(world, x, p) /\ effect = ReparentEffect(world, nextId, x, p)
           \/ effect = DestroyEffect(world, nextId, x)
    PROVE  Publish(Publish(mirror, effect.records), open.records) = Visible(world')
<1>. DEFINE rs == open.records
<1>1. /\ rs \in Seq(Record) /\ mirror \in Mirrors /\ x \in DOMAIN world /\ x \in Int
      /\ IsTree(world) /\ world[x] \in Node
  BY DEF IInv, OpenOK, CountsOK, TreeOK, Objects, IsTree, IsWorld
<1>2. Publish(mirror, rs) = Visible(world) /\ Publish(Visible(world), effect.records) = Visible(world')
  BY DEF MirrorConverges, Faithful
<1>3. \A r \in Range(rs) : r.object \in DOMAIN world =>
         IF r.object \notin DOMAIN world' THEN r.type # "Created"
         ELSE /\ world'[r.object].value # world[r.object].value => r.type \notin {"Created", "Property"}
              /\ world'[r.object].parent # world[r.object].parent
                    => r.type \notin {"Created", "Reparented"}
  BY DEF Overtakes
<1>. HIDE DEF rs
<1>4. ASSUME NEW e \in Record, e.type \in {"Property", "Reparented"}, effect.records = <<e>>,
             \A r \in Range(rs) : Apart(e, r)
      PROVE  Publish(Publish(mirror, effect.records), rs) = Visible(world')
  <2>1. Publish(mirror, <<e>>) = MirrorApply(mirror, e)
    BY PublishOne
  <2>2. Publish(Visible(world), <<e>>) = MirrorApply(Visible(world), e)
    BY PublishOne
  <2>3. Publish(MirrorApply(mirror, e), rs) = MirrorApply(Publish(mirror, rs), e)
    BY <1>1, <1>4, PublishApart
  <2>. QED
    BY <1>2, <1>4, <2>1, <2>2, <2>3
<1>5. CASE \E v \in Values : CanSetValue(world, x, v) /\ effect = PropertyEffect(world, nextId, x, v)
  <2>1. PICK v \in Values : CanSetValue(world, x, v) /\ effect = PropertyEffect(world, nextId, x, v)
    BY <1>5
  <2>. DEFINE e == [type |-> "Property", object |-> x, value |-> v]
  <2>2. effect.records = <<e>> /\ world' = [world EXCEPT ![x].value = v] /\ v # world[x].value
    BY <2>1 DEF PropertyEffect, SetValue, CanSetValue
  <2>3. e \in Record /\ e.type = "Property" /\ e.object = x
    BY <1>1 DEF Record
  <2>. HIDE DEF e
  <2>4. x \in DOMAIN world' /\ world'[x].value # world[x].value
    BY <1>1, <2>2 DEF Node
  <2>5. \A r \in Range(rs) : Apart(e, r)
    BY <1>1, <1>3, <2>3, <2>4 DEF Apart
  <2>. QED
    BY <1>4, <2>2, <2>3, <2>5 DEF rs
<1>6. CASE \E p \in DOMAIN world :
              CanReparent(world, x, p) /\ effect = ReparentEffect(world, nextId, x, p)
  <2>1. PICK p \in DOMAIN world :
           CanReparent(world, x, p) /\ effect = ReparentEffect(world, nextId, x, p)
    BY <1>6
  <2>. DEFINE e == [type |-> "Reparented", object |-> x, parent |-> p]
  <2>2. effect.records = <<e>> /\ world' = [world EXCEPT ![x].parent = p] /\ p # world[x].parent
    BY <2>1 DEF ReparentEffect, CanReparent
  <2>3. e \in Record /\ e.type = "Reparented" /\ e.object = x
    BY <1>1 DEF Record, IsTree, IsWorld
  <2>. HIDE DEF e
  <2>4. x \in DOMAIN world' /\ world'[x].parent # world[x].parent
    BY <1>1, <2>2 DEF Node
  <2>5. \A r \in Range(rs) : Apart(e, r)
    BY <1>1, <1>3, <2>3, <2>4 DEF Apart
  <2>. QED
    BY <1>4, <2>2, <2>3, <2>5 DEF rs
<1>7. CASE effect = DestroyEffect(world, nextId, x)
  <2>. DEFINE S == Subtree(world, x)
              ns == Nodes(world, x)
  <2>1. effect.records = DestroyedRecords(ns) /\ world' = Removed(world, x)
    BY <1>7 DEF DestroyEffect
  <2>2. ns \in Seq(Int) /\ Range(ns) = S /\ S \subseteq DOMAIN world
    <3>1. ns \in Seq(S) /\ Range(ns) = S /\ S \subseteq DOMAIN world
      BY <1>1, NodesOK
    <3>2. S \subseteq Int
      BY <1>1, <3>1 DEF IsTree, IsWorld
    <3>. HIDE DEF ns, S
    <3>. QED
      BY <3>1, <3>2, SeqWider
  <2>3. DOMAIN world' = DOMAIN world \ S
    BY <2>1 DEF Removed
  <2>. HIDE DEF S, ns
  <2>4. Visible(world) \in Mirrors
    BY <1>1, VisibleType DEF IsTree
  <2>5. /\ Publish(mirror, effect.records) = Without(mirror, S)
        /\ Publish(Visible(world), effect.records) = Without(Visible(world), S)
    BY <1>1, <2>1, <2>2, <2>4, DestroyedOK DEF Without
  <2>6. \A r \in Range(rs) : r.type = "Created" => r.object \notin S
    BY <1>3, <2>2, <2>3
  <2>7. Publish(Without(mirror, S), rs) = Without(Publish(mirror, rs), S)
    BY <1>1, <2>6, PublishWithout
  <2>. QED
    BY <1>2, <2>5, <2>7 DEF rs
<1>. QED
  BY <1>5, <1>6, <1>7

\* LocalEdit.
LEMMA LocalEditKeeps == ASSUME IInv, LocalEdit PROVE Keeps
<1>1. /\ revision < MaxRevision /\ revision' = revision + 1 /\ outcome' = "None"
      /\ nextId' = nextId /\ open' = open /\ aliases' = aliases /\ history' = history
      /\ cursor' = cursor /\ retainedBytes' = retainedBytes /\ marks' = marks
      /\ persisted' = persisted /\ saved' = saved
  BY DEF LocalEdit, historyVars
<1>. DEFINE Edit(x, effect) ==
         /\ \/ \E v \in Values : CanSetValue(world, x, v) /\ effect = PropertyEffect(world, nextId, x, v)
            \/ \E p \in DOMAIN world :
                  CanReparent(world, x, p) /\ effect = ReparentEffect(world, nextId, x, p)
            \/ effect = DestroyEffect(world, nextId, x)
         /\ world' = effect.world /\ mirror' = Publish(mirror, effect.records)
<1>a. PICK x \in Objects(world) : \E effect : Edit(x, effect)
  BY Zenon DEF LocalEdit
<1>2. PICK effect : Edit(x, effect)
  BY <1>a
<1>3. Faithful(world, effect)
  <2>1. IsTree(world) /\ Fresh(world, nextId) /\ x \in DOMAIN world
    BY DEF IInv, TreeOK, Objects
  <2>2. CASE effect = DestroyEffect(world, nextId, x)
    <3>1. Faithful(world, DestroyEffect(world, nextId, x))
      BY <2>1, DestroyOK, Zenon
    <3>. QED
      BY <2>2, <3>1
  <2>3. ASSUME NEW v \in Values, effect = PropertyEffect(world, nextId, x, v)
        PROVE  Faithful(world, effect)
    <3>1. Faithful(world, PropertyEffect(world, nextId, x, v))
      BY <2>1, PropertyOK, Zenon
    <3>. QED
      BY <2>3, <3>1
  <2>4. ASSUME NEW p \in DOMAIN world, CanReparent(world, x, p),
               effect = ReparentEffect(world, nextId, x, p)
        PROVE  Faithful(world, effect)
    <3>1. Faithful(world, ReparentEffect(world, nextId, x, p))
      BY <2>1, <2>4, ReparentOK, Zenon
    <3>. QED
      BY <2>4, <3>1
  <2>. QED
    BY <1>2, <2>2, <2>3, <2>4
<1>4. effect.next = nextId
  BY <1>2 DEF PropertyEffect, ReparentEffect, DestroyEffect
<1>5. IsTree(world') /\ Fresh(world', nextId') /\ effect.records \in Seq(Record)
  BY <1>1, <1>2, <1>3, <1>4, Zenon DEF Faithful
<1>6. TreeOK'
  BY <1>1, <1>5 DEF IInv, TreeOK
<1>7. OpenOK' /\ HistoryOK'
  BY <1>1 DEF IInv, OpenOK, HistoryOK, RetentionExact
<1>8. CountsOK'
  <2>1. mirror' \in Mirrors
    BY <1>2, <1>5, PublishType DEF IInv, CountsOK
  <2>2. revision' \in 0 .. MaxRevision /\ persisted' \in 0 .. revision'
    BY <1>1, LimitAssumption DEF IInv, CountsOK
  <2>. QED
    BY <1>1, <2>1, <2>2 DEF CountsOK, Outcomes
<1>9. MirrorStep
  <2>1. ASSUME MirrorConverges, ~ Overtakes
        PROVE  Publish(mirror', open'.records) = Visible(world')
    BY <1>1, <1>2, <1>3, <2>1, OvertakingOK, Zenon
  <2>. QED
    BY <2>1 DEF MirrorStep, MirrorConverges
<1>10. CleanStep
  BY <1>1, CleanWhenMoved DEF IInv
<1>. QED
  BY <1>6, <1>7, <1>8, <1>9, <1>10 DEF Keeps, IInv

\* The opened project is a tree whose objects all hang below the root.
LEMMA InitOK == Init => IInv
<1>. SUFFICES ASSUME Init
              PROVE  IInv
  OBVIOUS
<1>. DEFINE node(x) == [lineage |-> x, value |-> InitialValue,
                        parent |-> IF x = Root THEN Detached ELSE Root]
<1>1. /\ world = [x \in 0 .. LoadedObjects |-> node(x)] /\ nextId = LoadedObjects + 1
      /\ open = NoTransaction /\ history = <<>> /\ cursor = 0 /\ retainedBytes = 0
      /\ aliases = <<>> /\ revision = 0 /\ persisted = 0 /\ mirror = Visible(world)
      /\ outcome = "None" /\ marks = <<Shape(world)>>
  BY Zenon DEF Init
<1>2. /\ MaxId \in Nat /\ LoadedObjects \in Nat /\ LoadedObjects <= MaxId
      /\ InitialValue \in Values /\ MaxRevision \in Nat
      /\ RetainedTransactionLimit \in Nat /\ RetainedByteLimit \in Nat
  BY LimitAssumption
<1>3. DOMAIN world = 0 .. LoadedObjects /\ \A x \in DOMAIN world : world[x] = node(x)
  <2>. HIDE DEF node
  <2>. QED
    BY <1>1
<1>4. ASSUME NEW x \in DOMAIN world
      PROVE  /\ world[x] \in Node
             /\ world[x].parent = IF x = Root THEN Detached ELSE Root
  <2>1. x \in ObjectIds
    BY <1>2, <1>3 DEF ObjectIds
  <2>. QED
    BY <1>2, <1>3, <2>1 DEF Node, Root, Detached
<1>5. IsTree(world)
  <2>1. world = [x \in DOMAIN world |-> world[x]]
    <3>. HIDE DEF node
    <3>. QED
      BY <1>1
  <2>2. DOMAIN world \subseteq Int /\ IsFiniteSet(DOMAIN world) /\ Root \in DOMAIN world
    BY <1>2, <1>3, FS_Interval DEF Root
  <2>3. \A x \in Objects(world) : world[x].parent \in DOMAIN world
    BY <1>4, <2>2 DEF Objects
  <2>4. ASSUME NEW S \in SUBSET DOMAIN world, S # {}, Upward(world, S)
        PROVE  Root \in S
    <3>1. PICK x \in S : TRUE
      BY <2>4
    <3>2. x # Root => world[x].parent \in S /\ world[x].parent = Root
      BY <1>4, <2>4, <3>1 DEF Upward
    <3>. QED
      BY <3>1, <3>2
  <2>. QED
    BY <1>4, <2>1, <2>2, <2>3, <2>4 DEF IsTree, IsWorld
<1>6. TreeOK
  <2>1. Fresh(world, nextId) /\ nextId <= MaxId + 1
    BY <1>1, <1>2, <1>3 DEF Fresh
  <2>2. aliases \in Tables
    <3>1. /\ aliases = [x \in DOMAIN aliases |-> aliases[x]] /\ DOMAIN aliases = {}
      BY <1>1
    <3>. QED
      BY <3>1, TableType, FS_EmptySet
  <2>. QED
    BY <1>5, <2>1, <2>2 DEF TreeOK
<1>7. OpenOK
  <2>1. /\ NoTransaction \in [active : BOOLEAN, changes : Seq(Change), records : Seq(Record)]
        /\ NoTransaction.changes = <<>> /\ NoTransaction.records = <<>> /\ NoTransaction.active = FALSE
    BY DEF NoTransaction
  <2>. QED
    BY <1>1, <2>1 DEF OpenOK
<1>8. HistoryOK
  <2>1. /\ <<>> \in Seq(Entry) /\ Len(history) = 0 /\ cursor \in 0 .. Len(history)
    BY <1>1
  <2>2. Shape(world) \in SUBSET Views
    BY <1>5, ShapeType
  <2>3. marks \in Seq(SUBSET Views) /\ Len(marks) = 1
    <3>. DEFINE shape == Shape(world)
    <3>. HIDE DEF shape
    <3>1. marks = <<shape>> /\ shape \in SUBSET Views
      BY <1>1, <2>2 DEF shape
    <3>. QED
      BY <3>1
  <2>4. RetentionExact
    BY <1>1, <1>2, <2>1, ChargesEmpty DEF RetentionExact
  <2>. QED
    BY <1>1, <2>1, <2>3, <2>4 DEF HistoryOK
<1>9. CountsOK
  <2>1. Visible(world) \in Mirrors
    BY <1>5, VisibleType DEF IsTree
  <2>. QED
    BY <1>1, <1>2, <2>1 DEF CountsOK, Outcomes
<1>. QED
  BY <1>6, <1>7, <1>8, <1>9 DEF IInv

\* Every step keeps the invariant and both claims.
LEMMA StepKeeps == IInv /\ [Next]_vars => IInv' /\ MirrorStep /\ CleanStep
<1>. SUFFICES ASSUME IInv, [Next]_vars
              PROVE  Keeps
  BY DEF Keeps
<1>1. CASE SetProperty
  BY <1>1, SetPropertyKeeps
<1>2. CASE Reparent
  BY <1>2, ReparentKeeps
<1>3. CASE Create
  BY <1>3, CreateKeeps
<1>4. CASE Destroy
  BY <1>4, DestroyKeeps
<1>5. CASE Duplicate
  BY <1>5, DuplicateKeeps
<1>6. CASE BeginTransaction
  BY <1>6, BeginKeeps
<1>7. CASE CommitTransaction
  BY <1>7, CommitKeeps
<1>8. CASE SetPropertyBatch
  BY <1>8, BatchKeeps
<1>9. CASE Undo
  BY <1>9, UndoKeeps
<1>10. CASE Redo
  BY <1>10, RedoKeeps
<1>11. CASE SaveProject
  BY <1>11, SaveKeeps
<1>12. CASE GetSnapshot
  BY <1>12, SnapshotKeeps
<1>13. CASE LocalEdit
  BY <1>13, LocalEditKeeps
<1>14. CASE UNCHANGED vars
  <2>1. /\ world' = world /\ nextId' = nextId /\ open' = open /\ history' = history
        /\ cursor' = cursor /\ retainedBytes' = retainedBytes /\ aliases' = aliases
        /\ revision' = revision /\ persisted' = persisted /\ saved' = saved
        /\ mirror' = mirror /\ outcome' = outcome /\ marks' = marks
    BY <1>14 DEF vars
  <2>2. TreeOK' /\ OpenOK' /\ HistoryOK' /\ CountsOK'
    BY <2>1 DEF IInv, TreeOK, OpenOK, HistoryOK, RetentionExact, CountsOK
  <2>3. MirrorStep /\ CleanStep
    BY <2>1 DEF MirrorStep, MirrorConverges, CleanStep, CleanIsSaved
  <2>. QED
    BY <2>2, <2>3 DEF Keeps, IInv
<1>. QED
  BY <1>1, <1>2, <1>3, <1>4, <1>5, <1>6, <1>7, <1>8, <1>9, <1>10, <1>11, <1>12, <1>13, <1>14
  DEF Next

\* The invariant holds of every reachable state.
LEMMA Inductive == Spec => []IInv
<1>1. IInv /\ [Next]_vars => IInv'
  BY StepKeeps
<1>. QED
  BY <1>1, InitOK, PTL DEF Spec

-----------------------------------------------------------------------------
(* One revision per entry.                                                 *)

OneRevision ==
    /\ revision' \in {revision, revision + 1}
    /\ (history' # history \/ cursor' # cursor) => revision' = revision + 1
    /\ revision' = revision + 1 /\ "LocalEdit" \notin Requests =>
         \/ history' # history \/ cursor' # cursor
         \/ history # <<>> /\ \A i \in DOMAIN history : history[i] = history[1]

\* A history that looks the same after an entry was retained evicted one
\* entry for an equal one, as all of them are.
LEMMA RetainMoves ==
    ASSUME HistoryOK, NEW entry \in Entry, NEW shape, Retain(entry, shape),
           history' = history, cursor' = cursor
    PROVE  history # <<>> /\ \A i \in DOMAIN history : history[i] = history[1]
<1>. DEFINE redo == SubSeq(history, cursor + 1, Len(history))
            kept == SubSeq(history, 1, cursor)
            bytes == retainedBytes - TotalBytes(redo)
            k == Evicted(kept, bytes, Bytes(entry.changes))
            rest == SubSeq(kept, k + 1, Len(kept))
<1>1. history' = Append(rest, entry) /\ cursor' = Len(Append(rest, entry))
  BY Zenon DEF Retain
<1>2. history \in Seq(Entry) /\ cursor \in 0 .. Len(history) /\ Len(history) \in Nat
  BY DEF HistoryOK
<1>3. kept \in Seq(Entry) /\ Len(kept) = cursor
  BY <1>2, ChargesSplit
<1>. HIDE DEF kept, bytes
<1>4. k \in 0 .. Len(kept)
  BY <1>3, EvictedFits
<1>. HIDE DEF k
<1>5. rest \in Seq(Entry) /\ Len(rest) = Len(kept) - k
  BY <1>3, <1>4, ChargesSplit
<1>. HIDE DEF rest
<1>6. history = Append(rest, entry) /\ cursor = Len(history)
  BY <1>1
<1>7. kept = history
  BY <1>2, <1>6, SubSeqFull DEF kept
<1>8. Len(history) = Len(rest) + 1 /\ Len(rest) \in Nat
  <2>1. Len(Append(rest, entry)) = Len(rest) + 1
    BY <1>5, AppendProperties
  <2>2. Len(rest) \in Nat
    BY <1>5, LenProperties
  <2>. QED
    BY <1>6, <2>1, <2>2
<1>9. \A i \in 1 .. Len(rest) : history[i] = rest[i]
  <2>1. ASSUME NEW i \in 1 .. Len(rest)
        PROVE  Append(rest, entry)[i] = rest[i]
    BY <1>5, SMT
  <2>. QED
    BY <1>6, <2>1
<1>10. k = 1 /\ Len(rest) = Len(history) - 1
  BY <1>2, <1>3, <1>4, <1>5, <1>6, <1>8
<1>11. ASSUME NEW i \in 1 .. Len(history) - 1
       PROVE  history[i] = history[i + 1]
  <2>1. k + 1 = 2
    BY <1>10
  <2>2. rest = SubSeq(history, 2, Len(history))
    BY <1>7, <2>1, Zenon DEF rest
  <2>3. SubSeq(history, 2, Len(history))[i] = history[i + 1]
    BY <1>2
  <2>4. history[i] = rest[i]
    BY <1>9, <1>10
  <2>. QED
    BY <2>2, <2>3, <2>4
<1>12. history # <<>>
  <2>1. Len(history) # 0
    BY <1>8
  <2>. QED
    BY <2>1
<1>. DEFINE B == {n \in Nat : n + 1 <= Len(history) => history[n + 1] = history[1]}
<1>13. 0 \in B
  OBVIOUS
<1>14. ASSUME NEW n \in Nat, n \in B
       PROVE  n + 1 \in B
  <2>. SUFFICES ASSUME n + 1 + 1 <= Len(history)
                PROVE  history[n + 1 + 1] = history[1]
    OBVIOUS
  <2>1. n + 1 \in 1 .. Len(history) - 1
    BY <1>2
  <2>2. history[n + 1] = history[n + 1 + 1]
    BY <1>11, <2>1
  <2>3. history[n + 1] = history[1]
    BY <1>2, <1>14
  <2>. QED
    BY <2>2, <2>3
<1>. HIDE DEF B
<1>15. Nat \subseteq B
  BY <1>13, <1>14, NatSetInduction
<1>16. ASSUME NEW i \in DOMAIN history
       PROVE  history[i] = history[1]
  <2>1. i - 1 \in Nat /\ (i - 1) + 1 = i /\ i <= Len(history)
    BY <1>2
  <2>2. i - 1 \in B
    BY <1>15, <2>1
  <2>. QED
    BY <2>1, <2>2 DEF B
<1>. QED
  BY <1>12, <1>16

\* A batch commits one entry of property changes.
LEMMA BatchCommits ==
    ASSUME IsTree(world), SetPropertyBatch
    PROVE  \E entry \in Entry : \E records, after :
              /\ entry.changes \in Seq(PropertyChange) /\ nextId' = nextId
              /\ CommitEntry(entry, records, after)
<1>. DEFINE changesOf(xs, f) ==
              [i \in DOMAIN WriteBatch(xs, f) |->
                 [kind |-> "Property", object |-> WriteBatch(xs, f)[i],
                  before |-> world[WriteBatch(xs, f)[i]].value, after |-> f[WriteBatch(xs, f)[i]]]]
            entryOf(cs) == [changes |-> cs, policy |-> "PreparedPropertyBatch"]
<1>1. PICK xs \in SUBSET Objects(world) : \E f \in [xs -> Values] :
         LET changes == changesOf(xs, f)
         IN  /\ CommitEntry(entryOf(changes), ValueRecords(changes), world')
             /\ UNCHANGED <<nextId, persisted, saved>>
  BY Zenon DEF SetPropertyBatch
<1>2. PICK f \in [xs -> Values] :
         LET changes == changesOf(xs, f)
         IN  /\ CommitEntry(entryOf(changes), ValueRecords(changes), world')
             /\ UNCHANGED <<nextId, persisted, saved>>
  BY <1>1
<1>. DEFINE changes == changesOf(xs, f)
            entry == entryOf(changes)
            X == [kind : {"Property"}, object : DOMAIN world, before : Values, after : Values]
<1>3. CommitEntry(entry, ValueRecords(changes), world') /\ nextId' = nextId
  BY <1>2
<1>4. changes \in Seq(X)
  BY BatchOK, Zenon
<1>5. entry.changes = changes /\ entry = [changes |-> changes, policy |-> "PreparedPropertyBatch"]
  OBVIOUS
<1>. HIDE DEF changes, entry
<1>6. X \subseteq PropertyChange /\ PropertyChange \subseteq Change
  BY DEF PropertyChange, Change, IsTree, IsWorld
<1>. HIDE DEF X
<1>7. changes \in Seq(PropertyChange) /\ changes \in Seq(Change)
  <2>1. Seq(X) \subseteq Seq(PropertyChange) /\ Seq(PropertyChange) \subseteq Seq(Change)
    BY <1>6, SeqWider
  <2>. QED
    BY <1>4, <2>1
<1>8. entry \in Entry
  BY <1>5, <1>7 DEF Entry
<1>. QED
  BY <1>3, <1>5, <1>7, <1>8

\* A commit costs one revision.
LEMMA CommitOnce ==
    ASSUME IInv, NEW entry \in Entry, NEW records, NEW after, CommitEntry(entry, records, after)
    PROVE  OneRevision
<1>1. revision' = revision + 1 /\ Retain(entry, Shape(after))
  BY DEF CommitEntry
<1>2. history' = history /\ cursor' = cursor
         => history # <<>> /\ \A i \in DOMAIN history : history[i] = history[1]
  BY <1>1, RetainMoves, Zenon DEF IInv
<1>. QED
  BY <1>1, <1>2 DEF OneRevision

\* A step that leaves the history as it is costs none.
LEMMA NothingOnce ==
    ASSUME IInv, revision' = revision, history' = history, cursor' = cursor
    PROVE  OneRevision
<1>1. revision \in Nat
  BY LimitAssumption DEF IInv, CountsOK
<1>2. revision # revision + 1
  BY <1>1
<1>. QED
  BY <1>2 DEF OneRevision

\* A command costs one revision outside a group and none inside.
LEMMA AuthorOnce ==
    ASSUME IInv, NEW effect, effect.change \in Change, Author(effect)
    PROVE  OneRevision
<1>1. CASE ~ open.active
  <2>1. CommitEntry(Ordinary(<<effect.change>>), effect.records, effect.world)
    BY <1>1 DEF Author
  <2>2. Ordinary(<<effect.change>>) \in Entry
    BY BytesOne DEF Ordinary, Entry
  <2>. QED
    BY <2>1, <2>2, CommitOnce
<1>2. CASE open.active
  BY <1>2, NothingOnce DEF Author, historyVars
<1>. QED
  BY <1>1, <1>2

\* An undo or redo costs one revision when it succeeds and none when not.
LEMMA ExecuteOnce ==
    ASSUME IInv, NEW entry, NEW forward, NEW position, position # cursor,
           ExecuteHistory(entry, forward, position)
    PROVE  OneRevision
<1>1. history' = history
  BY DEF ExecuteHistory
<1>2. \/ revision' = revision + 1 /\ cursor' = position
      \/ revision' = revision /\ cursor' = cursor
  <2>1. CASE entry.policy = "PreparedPropertyBatch"
    <3>1. ExecutePrepared(entry, forward, position)
      BY <2>1, Zenon DEF ExecuteHistory
    <3>. QED
      BY <3>1, Zenon DEF ExecutePrepared, CompleteReplay
  <2>2. CASE entry.policy # "PreparedPropertyBatch"
    <3>1. ExecuteOrdinary(entry, forward, position)
      BY <2>2, Zenon DEF ExecuteHistory
    <3>. QED
      BY <3>1, Zenon DEF ExecuteOrdinary, CompleteReplay, AbandonReplay
  <2>. QED
    BY <2>1, <2>2
<1>3. CASE revision' = revision + 1 /\ cursor' = position
  BY <1>3 DEF OneRevision
<1>. QED
  BY <1>1, <1>2, <1>3, NothingOnce

\* Every step costs what it should.
LEMMA StepOnce == IInv /\ [Next]_vars => OneRevision
<1>. SUFFICES ASSUME IInv, [Next]_vars
              PROVE  OneRevision
  OBVIOUS
<1>1. IsTree(world) /\ Fresh(world, nextId)
  BY DEF IInv, TreeOK
<1>2. CASE SetProperty
  <2>1. PICK x \in Objects(world), v \in Values : Author(PropertyEffect(world, nextId, x, v))
    BY <1>2 DEF SetProperty
  <2>2. PropertyEffect(world, nextId, x, v).change \in Change
    BY <1>1, PropertyOK, Zenon DEF Objects
  <2>. QED
    BY <2>1, <2>2, AuthorOnce
<1>3. CASE Reparent
  <2>1. PICK x \in Objects(world), p \in DOMAIN world :
           CanReparent(world, x, p) /\ Author(ReparentEffect(world, nextId, x, p))
    BY <1>3 DEF Reparent
  <2>2. ReparentEffect(world, nextId, x, p).change \in Change
    BY <1>1, <2>1, ReparentOK, Zenon DEF Objects
  <2>. QED
    BY <2>1, <2>2, AuthorOnce
<1>4. CASE Create
  <2>1. PICK p \in DOMAIN world : Author(CreateEffect(world, nextId, p, InitialValue))
    BY <1>4 DEF Create
  <2>2. nextId + 1 <= MaxId + 1
    <3>1. CreateEffect(world, nextId, p, InitialValue).next = nextId + 1
      BY DEF CreateEffect
    <3>. QED
      BY <2>1, <3>1 DEF Author
  <2>3. nextId \in ObjectIds /\ InitialValue \in Values
    BY <1>1, <2>2, LimitAssumption DEF ObjectIds, Fresh
  <2>4. CreateEffect(world, nextId, p, InitialValue).change \in Change
    BY <1>1, <2>3, CreateOK, Zenon
  <2>. QED
    BY <2>1, <2>4, AuthorOnce
<1>5. CASE Destroy
  <2>1. PICK x \in Objects(world) : Author(DestroyEffect(world, nextId, x))
    BY <1>5 DEF Destroy
  <2>2. DestroyEffect(world, nextId, x).change \in Change
    BY <1>1, DestroyOK, Zenon
  <2>. QED
    BY <2>1, <2>2, AuthorOnce
<1>6. CASE Duplicate
  <2>1. PICK x \in Objects(world) : Author(DuplicateEffect(world, nextId, x))
    BY <1>6 DEF Duplicate
  <2>2. nextId + Len(Nodes(world, x)) <= MaxId + 1
    <3>1. DuplicateEffect(world, nextId, x).next = nextId + Len(Nodes(world, x))
      BY Zenon DEF DuplicateEffect
    <3>. QED
      BY <2>1, <3>1 DEF Author
  <2>3. DuplicateEffect(world, nextId, x).change \in Change
    BY <1>1, <2>2, DuplicateOK, Zenon
  <2>. QED
    BY <2>1, <2>3, AuthorOnce
<1>7. CASE BeginTransaction
  BY <1>7, NothingOnce DEF BeginTransaction, historyVars
<1>8. CASE CommitTransaction
  <2>1. CASE open.changes = <<>>
    BY <1>8, <2>1, NothingOnce DEF CommitTransaction, historyVars
  <2>2. CASE open.changes # <<>>
    <3>1. CommitEntry(Ordinary(open.changes), open.records, world)
      BY <1>8, <2>2 DEF CommitTransaction
    <3>2. Ordinary(open.changes) \in Entry
      BY DEF Ordinary, Entry, IInv, OpenOK
    <3>. QED
      BY <3>1, <3>2, CommitOnce
  <2>. QED
    BY <2>1, <2>2
<1>9. CASE SetPropertyBatch
  <2>1. PICK entry \in Entry : \E records, after : CommitEntry(entry, records, after)
    BY <1>1, <1>9, BatchCommits
  <2>. QED
    BY <2>1, CommitOnce
<1>10. CASE Undo
  <2>1. cursor > 0 /\ ExecuteHistory(history[cursor], FALSE, cursor - 1)
    BY <1>10 DEF Undo
  <2>2. cursor - 1 # cursor
    BY DEF IInv, HistoryOK
  <2>. QED
    BY <2>1, <2>2, ExecuteOnce
<1>11. CASE Redo
  <2>1. ExecuteHistory(history[cursor + 1], TRUE, cursor + 1)
    BY <1>11 DEF Redo
  <2>2. cursor + 1 # cursor
    BY DEF IInv, HistoryOK
  <2>. QED
    BY <2>1, <2>2, ExecuteOnce
<1>12. CASE SaveProject
  BY <1>12, NothingOnce DEF SaveProject, historyVars
<1>13. CASE GetSnapshot
  BY <1>13, NothingOnce DEF GetSnapshot, historyVars
<1>14. CASE LocalEdit
  BY <1>14 DEF LocalEdit, historyVars, OneRevision
<1>15. CASE UNCHANGED vars
  BY <1>15, NothingOnce DEF vars
<1>. QED
  BY <1>2, <1>3, <1>4, <1>5, <1>6, <1>7, <1>8, <1>9, <1>10, <1>11, <1>12, <1>13, <1>14, <1>15
  DEF Next

-----------------------------------------------------------------------------
(* The aliases of the history.                                             *)

OldEntries(n) == {e \in Entry : e.changes \in Seq(Old(n))}

\* No alias and no captured identity is younger than what was handed out.
AliasesOK ==
    /\ Rising(aliases, nextId)
    /\ history \in Seq(OldEntries(nextId)) /\ open.changes \in Seq(Old(nextId))

\* Entries that captured old identities, and a later bound.
LEMMA OldEntriesWider ==
    ASSUME NEW n \in Int, NEW m \in Int, n <= m
    PROVE  /\ Seq(Old(n)) \subseteq Seq(Old(m))
           /\ Seq(OldEntries(n)) \subseteq Seq(OldEntries(m))
<1>1. Seq(Old(n)) \subseteq Seq(Old(m))
  BY OldWider, SeqWider
<1>2. OldEntries(n) \subseteq OldEntries(m)
  BY <1>1 DEF OldEntries
<1>. QED
  BY <1>1, <1>2, SeqWider

\* Rising aliases, and a later bound.
LEMMA RisingWider ==
    ASSUME NEW t \in Tables, NEW n \in Int, NEW m \in Int, n <= m, Rising(t, n)
    PROVE  Rising(t, m)
<1>1. \A id \in DOMAIN t : id \in Int /\ t[id] \in Int
  BY TableType DEF Others
<1>. QED
  BY <1>1 DEF Rising

\* Retention drops entries and aliases and brings none that is newer.
LEMMA RetainOlder ==
    ASSUME HistoryOK, NEW n, Rising(aliases, n), history \in Seq(OldEntries(n)),
           NEW entry \in OldEntries(n), NEW shape, Retain(entry, shape)
    PROVE  Rising(aliases', n) /\ history' \in Seq(OldEntries(n))
<1>. DEFINE redo == SubSeq(history, cursor + 1, Len(history))
            kept == SubSeq(history, 1, cursor)
            bytes == retainedBytes - TotalBytes(redo)
            k == Evicted(kept, bytes, Bytes(entry.changes))
            rest == SubSeq(kept, k + 1, Len(kept))
            D == DOMAIN aliases \cap Referenced(Append(rest, entry))
<1>1. history' = Append(rest, entry) /\ (aliases' = aliases \/ aliases' = [id \in D |-> aliases[id]])
  BY Zenon DEF Retain
<1>2. cursor \in 0 .. Len(history) /\ Len(history) \in Nat /\ history \in Seq(Entry)
  BY DEF HistoryOK
<1>3. kept \in Seq(OldEntries(n)) /\ kept \in Seq(Entry) /\ Len(kept) = cursor
  BY <1>2
<1>. HIDE DEF kept, bytes
<1>4. k \in 0 .. Len(kept)
  BY <1>3, EvictedFits
<1>. HIDE DEF k
<1>5. rest \in Seq(OldEntries(n))
  BY <1>3, <1>4
<1>. HIDE DEF rest
<1>6. history' \in Seq(OldEntries(n))
  BY <1>1, <1>5, AppendProperties
<1>7. D \subseteq DOMAIN aliases
  OBVIOUS
<1>. HIDE DEF D
<1>8. Rising(aliases', n)
  BY <1>1, <1>7 DEF Rising
<1>. QED
  BY <1>6, <1>8

\* A commit enters what captured identities handed out before.
LEMMA CommitOlder ==
    ASSUME IInv, AliasesOK, NEW n \in Int, nextId <= n, nextId' = n, NEW entry \in Entry,
           entry.changes \in Seq(Old(n)), NEW records, NEW after,
           CommitEntry(entry, records, after)
    PROVE  AliasesOK'
<1>1. Retain(entry, Shape(after)) /\ open' = NoTransaction
  BY DEF CommitEntry
<1>2. nextId \in Int /\ aliases \in Tables /\ HistoryOK
  BY DEF IInv, TreeOK, Fresh
<1>3. Rising(aliases, n) /\ history \in Seq(OldEntries(n))
  <2>1. Rising(aliases, n)
    BY <1>2, RisingWider DEF AliasesOK
  <2>2. Seq(OldEntries(nextId)) \subseteq Seq(OldEntries(n))
    BY <1>2, OldEntriesWider
  <2>. QED
    BY <2>1, <2>2 DEF AliasesOK
<1>4. entry \in OldEntries(n)
  BY DEF OldEntries
<1>5. Rising(aliases', n) /\ history' \in Seq(OldEntries(n))
  BY <1>1, <1>2, <1>3, <1>4, RetainOlder, Zenon
<1>6. open'.changes = <<>>
  BY <1>1 DEF NoTransaction
<1>7. <<>> \in Seq(Old(n))
  OBVIOUS
<1>. QED
  BY <1>5, <1>6, <1>7 DEF AliasesOK

\* A command captures identities handed out before or by itself.
LEMMA AuthorOlder ==
    ASSUME IInv, AliasesOK, NEW effect, effect.next \in Int, nextId <= effect.next,
           effect.change \in Old(effect.next), Author(effect)
    PROVE  AliasesOK'
<1>. DEFINE n == effect.next
            c == effect.change
<1>1. nextId' = n /\ nextId \in Int /\ aliases \in Tables
  BY DEF Author, IInv, TreeOK, Fresh
<1>2. CASE ~ open.active
  <2>1. CommitEntry(Ordinary(<<c>>), effect.records, effect.world)
    BY <1>2 DEF Author
  <2>2. c \in Change
    BY DEF Old
  <2>3. Ordinary(<<c>>) \in Entry /\ Ordinary(<<c>>).changes = <<c>>
    BY <2>2, BytesOne DEF Ordinary, Entry
  <2>4. <<c>> \in Seq(Old(n))
    OBVIOUS
  <2>. HIDE DEF n, c
  <2>. QED
    BY <1>1, <2>1, <2>3, <2>4, CommitOlder DEF n
<1>3. CASE open.active
  <2>1. /\ open' = [open EXCEPT !.changes = Append(@, c), !.records = @ \o effect.records]
        /\ history' = history /\ aliases' = aliases
    BY <1>3 DEF Author, historyVars
  <2>2. open'.changes = Append(open.changes, c)
    <3>1. open \in [active : BOOLEAN, changes : Seq(Change), records : Seq(Record)]
      BY DEF IInv, OpenOK
    <3>. HIDE DEF c
    <3>. QED
      BY <2>1, <3>1
  <2>. HIDE DEF n, c
  <2>3. /\ Seq(Old(nextId)) \subseteq Seq(Old(n))
        /\ Seq(OldEntries(nextId)) \subseteq Seq(OldEntries(n))
    BY <1>1, OldEntriesWider DEF n
  <2>4. open.changes \in Seq(Old(n)) /\ history \in Seq(OldEntries(n))
    BY <2>3 DEF AliasesOK
  <2>5. c \in Old(n)
    BY DEF c, n
  <2>6. Append(open.changes, c) \in Seq(Old(n))
    BY <2>4, <2>5, AppendProperties
  <2>7. Rising(aliases, n)
    BY <1>1, RisingWider DEF AliasesOK, n
  <2>. QED
    BY <1>1, <2>1, <2>2, <2>4, <2>6, <2>7 DEF AliasesOK
<1>. QED
  BY <1>2, <1>3

\* The other steps leave the identities alone.
LEMMA SameOlder ==
    ASSUME IInv, AliasesOK, nextId' = nextId, aliases' = aliases, history' = history,
           open' = open \/ open'.changes = <<>>
    PROVE  AliasesOK'
<1>1. <<>> \in Seq(Old(nextId))
  OBVIOUS
<1>. QED
  BY <1>1 DEF AliasesOK

\* An undo or redo adds only aliases that rise.
LEMMA ExecuteOlder ==
    ASSUME IInv, AliasesOK, NEW entry \in OldEntries(nextId), NEW forward, NEW position,
           ExecuteHistory(entry, forward, position)
    PROVE  AliasesOK'
<1>1. history' = history /\ open' = open /\ nextId \in Nat /\ nextId \in Int
  BY DEF ExecuteHistory, IInv, TreeOK, Fresh
<1>2. CASE entry.policy = "PreparedPropertyBatch"
  <2>1. ExecutePrepared(entry, forward, position)
    BY <1>2, Zenon DEF ExecuteHistory
  <2>2. nextId' = nextId /\ aliases' = aliases
    BY <2>1, Zenon DEF ExecutePrepared, CompleteReplay
  <2>. QED
    BY <1>1, <2>2, SameOlder
<1>3. CASE entry.policy # "PreparedPropertyBatch"
  <2>. DEFINE changes == InOrder(entry.changes, forward)
              start == Start(forward)
              st == Replay(start, changes)
              back == RollBack(st)
  <2>1. ExecuteOrdinary(entry, forward, position)
    BY <1>3, Zenon DEF ExecuteHistory
  <2>2. \/ nextId' = st.next /\ aliases' = st.aliases
        \/ nextId' = back.next /\ aliases' = back.aliases
    BY <2>1, Zenon DEF ExecuteOrdinary, CompleteReplay, AbandonReplay
  <2>3. changes \in Seq(Old(nextId)) /\ changes \in Seq(Change)
    <3>1. entry.changes \in Seq(Old(nextId)) /\ entry.changes \in Seq(Change)
      BY DEF OldEntries, Entry
    <3>. QED
      BY <3>1, ReverseType DEF InOrder
  <2>4. Climbs(nextId, start)
    <3>1. start.next = nextId /\ start.aliases = aliases /\ start.applied = <<>>
      BY DEF Start
    <3>2. <<>> \in Seq(Old(nextId)) /\ nextId <= nextId
      BY <1>1
    <3>. HIDE DEF start
    <3>. QED
      BY <3>1, <3>2 DEF Climbs, AliasesOK
  <2>5. IsTree(world) /\ Replays(world, start)
    BY StartReplays DEF IInv, TreeOK
  <2>. HIDE DEF changes, start
  <2>6. Replays(world, st) /\ Climbs(nextId, st)
    BY <1>1, <2>3, <2>4, <2>5, ReplayOK, ReplayClimbs
  <2>. HIDE DEF st
  <2>7. Replays(world, back) /\ Climbs(nextId, back)
    BY <1>1, <2>5, <2>6, RollBackOK, RollBackClimbs
  <2>. HIDE DEF back
  <2>8. nextId' \in Int /\ nextId <= nextId' /\ Rising(aliases', nextId')
    BY <2>2, <2>6, <2>7 DEF Climbs, Replays, Fresh
  <2>9. /\ Seq(Old(nextId)) \subseteq Seq(Old(nextId'))
        /\ Seq(OldEntries(nextId)) \subseteq Seq(OldEntries(nextId'))
    BY <1>1, <2>8, OldEntriesWider
  <2>. QED
    BY <1>1, <2>8, <2>9 DEF AliasesOK
<1>. QED
  BY <1>2, <1>3

\* Every step keeps the aliases rising.
LEMMA StepOlder == IInv /\ AliasesOK /\ [Next]_vars => AliasesOK'
<1>. SUFFICES ASSUME IInv, AliasesOK, [Next]_vars
              PROVE  AliasesOK'
  OBVIOUS
<1>1. IsTree(world) /\ Fresh(world, nextId) /\ nextId \in Nat \ {0}
  BY DEF IInv, TreeOK, Fresh
<1>2. CASE SetProperty
  <2>1. PICK x \in Objects(world), v \in Values : Author(PropertyEffect(world, nextId, x, v))
    BY <1>2 DEF SetProperty
  <2>. DEFINE e == PropertyEffect(world, nextId, x, v)
  <2>2. e.change \in Change
    BY <1>1, PropertyOK, Zenon DEF Objects
  <2>3. e.next = nextId /\ e.change.kind = "Property"
    BY DEF PropertyEffect
  <2>. HIDE DEF e
  <2>4. e.change \in Old(e.next)
    BY <2>2, <2>3 DEF Old, Older
  <2>. QED
    BY <1>1, <2>1, <2>3, <2>4, AuthorOlder DEF e
<1>3. CASE Reparent
  <2>1. PICK x \in Objects(world), p \in DOMAIN world :
           CanReparent(world, x, p) /\ Author(ReparentEffect(world, nextId, x, p))
    BY <1>3 DEF Reparent
  <2>. DEFINE e == ReparentEffect(world, nextId, x, p)
  <2>2. e.change \in Change
    BY <1>1, <2>1, ReparentOK, Zenon DEF Objects
  <2>3. e.next = nextId /\ e.change.kind = "Reparent"
    BY DEF ReparentEffect
  <2>. HIDE DEF e
  <2>4. e.change \in Old(e.next)
    BY <2>2, <2>3 DEF Old, Older
  <2>. QED
    BY <1>1, <2>1, <2>3, <2>4, AuthorOlder DEF e
<1>4. CASE Create
  <2>1. PICK p \in DOMAIN world : Author(CreateEffect(world, nextId, p, InitialValue))
    BY <1>4 DEF Create
  <2>. DEFINE e == CreateEffect(world, nextId, p, InitialValue)
  <2>2. e.next = nextId + 1 /\ e.change.objects = <<nextId>>
    BY DEF CreateEffect
  <2>3. nextId \in ObjectIds /\ InitialValue \in Values
    <3>1. nextId + 1 <= MaxId + 1
      BY <2>1, <2>2 DEF Author
    <3>. QED
      BY <1>1, <3>1, LimitAssumption DEF ObjectIds
  <2>4. e.change \in Change
    BY <1>1, <2>3, CreateOK, Zenon
  <2>. HIDE DEF e
  <2>5. \A x \in Range(e.change.objects) : x < e.next
    <3>1. Range(<<nextId>>) = {nextId}
      BY DEF Range
    <3>. QED
      BY <1>1, <2>2, <3>1
  <2>6. e.change \in Old(e.next)
    BY <2>4, <2>5 DEF Old, Older
  <2>. QED
    BY <1>1, <2>1, <2>2, <2>6, AuthorOlder DEF e
<1>5. CASE Destroy
  <2>1. PICK x \in Objects(world) : Author(DestroyEffect(world, nextId, x))
    BY <1>5 DEF Destroy
  <2>. DEFINE e == DestroyEffect(world, nextId, x)
  <2>2. e.change \in Change
    BY <1>1, DestroyOK, Zenon
  <2>3. e.next = nextId /\ e.change.objects = Nodes(world, x)
    BY DEF DestroyEffect
  <2>. HIDE DEF e
  <2>4. \A y \in Range(e.change.objects) : y < e.next
    <3>1. Captured(Nodes(world, x), [y \in Subtree(world, x) |-> world[y]])
      BY <1>1, CaptureOK DEF Objects
    <3>2. Range(Nodes(world, x)) \subseteq DOMAIN world
      BY <3>1 DEF Captured, Subtree
    <3>3. \A y \in DOMAIN world : y < nextId
      BY <1>1 DEF Fresh
    <3>. QED
      BY <2>3, <3>2, <3>3
  <2>5. e.change \in Old(e.next)
    BY <2>2, <2>4 DEF Old, Older
  <2>. QED
    BY <1>1, <2>1, <2>3, <2>5, AuthorOlder DEF e
<1>6. CASE Duplicate
  <2>1. PICK x \in Objects(world) : Author(DuplicateEffect(world, nextId, x))
    BY <1>6 DEF Duplicate
  <2>. DEFINE e == DuplicateEffect(world, nextId, x)
              o == Nodes(world, x)
  <2>2. e.next = nextId + Len(o) /\ e.change.objects = Born(nextId, o)
    BY Zenon DEF DuplicateEffect
  <2>3. nextId + Len(o) <= MaxId + 1
    BY <2>1, <2>2 DEF Author
  <2>4. e.change \in Change
    BY <1>1, <2>3, DuplicateOK, Zenon
  <2>5. o \in Seq(Int)
    BY <1>1, CaptureOK DEF Objects, Captured
  <2>. HIDE DEF e, o
  <2>6. Len(o) \in Nat
    BY <2>5
  <2>7. \A y \in Range(e.change.objects) : y < e.next
    <3>1. Range(Born(nextId, o)) = Block(nextId, o)
      BY <1>1, <2>5, BornOK, Zenon
    <3>2. \A y \in Block(nextId, o) : y < nextId + Len(o)
      BY <1>1, <2>6 DEF Block
    <3>. QED
      BY <2>2, <3>1, <3>2
  <2>8. e.change \in Old(e.next)
    BY <2>4, <2>7 DEF Old, Older
  <2>9. e.next \in Int /\ nextId <= e.next
    BY <1>1, <2>2, <2>6
  <2>. QED
    BY <2>1, <2>8, <2>9, AuthorOlder DEF e
<1>7. CASE BeginTransaction
  <2>1. open'.changes = <<>>
    <3>1. NoTransaction \in [active : BOOLEAN, changes : Seq(Change), records : Seq(Record)]
          /\ NoTransaction.changes = <<>>
      BY DEF NoTransaction
    <3>2. [NoTransaction EXCEPT !.active = TRUE].changes = <<>>
      BY <3>1
    <3>. QED
      BY <1>7, <3>2 DEF BeginTransaction
  <2>. QED
    BY <1>7, <2>1, SameOlder DEF BeginTransaction, historyVars
<1>8. CASE CommitTransaction
  <2>1. CASE open.changes = <<>>
    <3>1. open'.changes = <<>>
      BY <1>8, <2>1 DEF CommitTransaction, NoTransaction
    <3>. QED
      BY <1>8, <2>1, <3>1, SameOlder DEF CommitTransaction, historyVars
  <2>2. CASE open.changes # <<>>
    <3>1. CommitEntry(Ordinary(open.changes), open.records, world) /\ nextId' = nextId
      BY <1>8, <2>2 DEF CommitTransaction
    <3>2. Ordinary(open.changes) \in Entry /\ Ordinary(open.changes).changes = open.changes
      BY DEF Ordinary, Entry, IInv, OpenOK
    <3>3. open.changes \in Seq(Old(nextId)) /\ nextId \in Int /\ nextId <= nextId
      BY <1>1 DEF AliasesOK
    <3>. QED
      BY <3>1, <3>2, <3>3, CommitOlder
  <2>. QED
    BY <2>1, <2>2
<1>9. CASE SetPropertyBatch
  <2>1. PICK entry \in Entry : \E records, after :
           /\ entry.changes \in Seq(PropertyChange) /\ nextId' = nextId
           /\ CommitEntry(entry, records, after)
    BY <1>9, BatchCommits DEF IInv, TreeOK
  <2>2. PICK records, after : CommitEntry(entry, records, after)
    BY <2>1
  <2>3. entry.changes \in Seq(Old(nextId))
    <3>1. PropertyChange \subseteq Old(nextId)
      BY DEF PropertyChange, Old, Older, Change
    <3>2. Seq(PropertyChange) \subseteq Seq(Old(nextId))
      BY <3>1, SeqWider
    <3>. QED
      BY <2>1, <3>2
  <2>. QED
    BY <1>1, <2>1, <2>2, <2>3, CommitOlder
<1>10. CASE Undo
  <2>1. cursor > 0 /\ ExecuteHistory(history[cursor], FALSE, cursor - 1)
    BY <1>10 DEF Undo
  <2>2. cursor \in 1 .. Len(history)
    BY <2>1 DEF IInv, HistoryOK
  <2>3. history[cursor] \in OldEntries(nextId)
    BY <2>2 DEF AliasesOK
  <2>. QED
    BY <2>1, <2>3, ExecuteOlder
<1>11. CASE Redo
  <2>1. cursor < Len(history) /\ ExecuteHistory(history[cursor + 1], TRUE, cursor + 1)
    BY <1>11 DEF Redo
  <2>2. cursor + 1 \in 1 .. Len(history)
    BY <2>1 DEF IInv, HistoryOK
  <2>3. history[cursor + 1] \in OldEntries(nextId)
    BY <2>2 DEF AliasesOK
  <2>. QED
    BY <2>1, <2>3, ExecuteOlder
<1>12. CASE SaveProject
  BY <1>12, SameOlder DEF SaveProject, historyVars
<1>13. CASE GetSnapshot
  BY <1>13, SameOlder DEF GetSnapshot, historyVars
<1>14. CASE LocalEdit
  BY <1>14, SameOlder DEF LocalEdit, historyVars
<1>15. CASE UNCHANGED vars
  BY <1>15, SameOlder DEF vars
<1>. QED
  BY <1>2, <1>3, <1>4, <1>5, <1>6, <1>7, <1>8, <1>9, <1>10, <1>11, <1>12, <1>13, <1>14, <1>15
  DEF Next

\* There are no aliases at first.
LEMMA InitOlder == Init => AliasesOK
<1>1. <<>> \in Seq(OldEntries(nextId)) /\ <<>> \in Seq(Old(nextId)) /\ DOMAIN <<>> = {}
  OBVIOUS
<1>2. Rising(<<>>, nextId)
  BY <1>1 DEF Rising
<1>3. NoTransaction.changes = <<>>
  BY DEF NoTransaction
<1>. QED
  BY <1>1, <1>2, <1>3, Zenon DEF Init, AliasesOK

-----------------------------------------------------------------------------
(* The theorems.                                                           *)

\* Whatever commands, undo, redo and roll-backs do to the hierarchy, every live
\* object keeps a live parent and a path to the root, within the identities
\* handed out (MutationGateway Reparent's cycle check, CreateSubtree, Destroy,
\* ApplyChange).
THEOREM TypeCorrect == Spec => []TypeOK
<1>1. IInv => TypeOK
  <2>. SUFFICES ASSUME IInv
                PROVE  TypeOK
    OBVIOUS
  <2>1. IsTree(world) /\ Fresh(world, nextId) /\ nextId <= MaxId + 1
    BY DEF IInv, TreeOK
  <2>2. DOMAIN world \subseteq ObjectIds /\ Root \in DOMAIN world
    BY <2>1, WithinBound DEF IsTree
  <2>3. ASSUME NEW x \in Objects(world)
        PROVE  /\ world[x].parent \in DOMAIN world /\ world[x].value \in Values
               /\ world[x].lineage \in ObjectIds /\ Root \in Ancestors(world, x)
    <3>1. x \in DOMAIN world
      BY DEF Objects
    <3>2. world[x] \in Node /\ world[x].parent \in DOMAIN world
      BY <2>1, <3>1 DEF IsTree, IsWorld
    <3>3. Root \in Ancestors(world, x)
      BY <2>1, <3>1, AncestorsUp
    <3>. QED
      BY <3>2, <3>3 DEF Node
  <2>4. nextId \in 1 .. (MaxId + 1)
    BY <2>1, LimitAssumption DEF Fresh
  <2>5. open.active \in BOOLEAN /\ cursor \in 0 .. Len(history) /\ Len(marks) = Len(history) + 1
    BY DEF IInv, OpenOK, HistoryOK
  <2>6. revision \in 0 .. MaxRevision /\ persisted \in 0 .. revision /\ outcome \in Outcomes
    BY DEF IInv, CountsOK
  <2>. QED
    BY <2>2, <2>3, <2>4, <2>5, <2>6 DEF TypeOK
<1>. QED
  BY <1>1, Inductive, PTL

\* The history never exceeds its two limits and its byte account is what its
\* entries weigh, through branches that discard a redo suffix and evictions
\* from the front (AuthoritativeTransactions Retain).
THEOREM RetentionHolds == Spec => []RetentionExact
<1>1. IInv => RetentionExact
  BY DEF IInv, HistoryOK
<1>. QED
  BY <1>1, Inductive, PTL

\* A faithful copy in Studio stays faithful, identities included, through every
\* command, group, batch, undo, redo, snapshot and outside edit, also of one that
\* is journaled before an open group's records; only a failed undo or redo, and
\* an outside edit of what the open group has itself edited, may leave it behind
\* (EditorHost's journal, GetSnapshot, MutationGateway Apply).
THEOREM MirrorHolds == Spec => MirrorKeeps
<1>1. IInv /\ [Next]_vars => [MirrorConverges /\ outcome' \notin Failures /\ ~ Overtakes
                               => MirrorConverges']_vars
  BY StepKeeps DEF MirrorStep
<1>. QED
  BY <1>1, Inductive, PTL DEF Spec, MirrorKeeps

\* A project shown as clean is the one on disk, however it got there; only a
\* failed undo or redo may make the clean sign lie (EditorHost
\* EncodeProjectState, SaveProject).
THEOREM CleanHolds == Spec => CleanMeansSaved
<1>1. IInv /\ [Next]_vars => [CleanIsSaved /\ outcome' \notin Failures => CleanIsSaved']_vars
  BY StepKeeps DEF CleanStep
<1>. QED
  BY <1>1, Inductive, PTL DEF Spec, CleanMeansSaved

\* Whatever changes the history or its cursor costs exactly one revision and,
\* outside edits aside, nothing else does; a full history of equal entries may
\* give way to one more of them and look the same (AuthoritativeTransactions
\* Commit, CompleteUndo, CompleteRedo).
THEOREM RevisionsHold == Spec => OneRevisionPerEntry
<1>1. IInv /\ [Next]_vars =>
        [/\ revision' \in {revision, revision + 1}
         /\ (history' # history \/ cursor' # cursor) => revision' = revision + 1
         /\ revision' = revision + 1 /\ "LocalEdit" \notin Requests =>
              \/ history' # history \/ cursor' # cursor
              \/ history # <<>> /\ \A i \in DOMAIN history : history[i] = history[1]]_vars
  BY StepOnce DEF OneRevision
<1>. QED
  BY <1>1, Inductive, PTL DEF Spec, OneRevisionPerEntry

\* Following aliases always ends, within the steps ResolveIdentity allows
\* itself, at an identity that has none: aliases never form a cycle, however
\* often subtrees are destroyed, restored and evicted (RemapIdentity, Retain).
THEOREM AliasesResolve == Spec => []AliasesEnd
<1>1. IInv /\ AliasesOK => AliasesEnd
  <2>. SUFFICES ASSUME IInv, AliasesOK, NEW id \in DOMAIN aliases
                PROVE  ResolveIdentity(aliases, id) \notin DOMAIN aliases
    BY DEF AliasesEnd
  <2>. QED
    BY ResolveEnds DEF IInv, TreeOK, AliasesOK
<1>2. Init => AliasesOK
  BY InitOlder
<1>3. IInv /\ AliasesOK /\ [Next]_vars => AliasesOK'
  BY StepOlder
<1>. QED
  BY <1>1, <1>2, <1>3, Inductive, PTL DEF Spec

=============================================================================
