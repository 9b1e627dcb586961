--------------------------- MODULE InventoryProofs ---------------------------
(***************************************************************************)
(* For any number of slots, item types, request IDs and slot names, aliases*)
(* of one slot within a request included: Inventory is well typed, stack   *)
(* network IDs are unique and never handed out twice, the table of         *)
(* remembered responses is bounded and peers are shown the held item.  For *)
(* clients that use one name per slot in a request, the packets written    *)
(* tell the client exactly what the slots hold.                            *)
(***************************************************************************)
EXTENDS Inventory, FoldProofs

-----------------------------------------------------------------------------
(* The operators of the model *)

\* A name that resolveSlot accepts names a slot.
LEMMA SlotOfRef ==
    ASSUME NEW ref \in Refs, resolveSlot(ref)
    PROVE  SlotOf(ref) \in Slots
  BY InventoryAssumption DEF resolveSlot, SlotOf, Slots, CursorSlot, OffhandSlot

LEMMA EmptyIsItem == Empty \in Item
  BY InventoryAssumption DEF Empty, Item

\* What is shown of an item.
LEMMA ShownEntry ==
    ASSUME NEW item \in Item
    PROVE  Shown(item) \in Entry /\ itemStackNetworkID(item) \in Nat
  BY DEF Item, Entry, Shown, itemStackNetworkID

\* Taking a part of a stack away leaves a stack with its ID, or nothing.
LEMMA LessItem ==
    ASSUME NEW item \in Item, NEW n \in 1..MaxStackCount, item.count >= n
    PROVE  /\ Less(item, n) \in Item
           /\ Less(item, n) = Empty \/ Less(item, n).id = item.id
  BY EmptyIsItem, InventoryAssumption DEF Less, Item

\* stackResponseContainerInfo has a last name for every slot that was touched.
LEMMA LastNameExists ==
    ASSUME TypeOK, NEW s \in Touched(request.changes)
    PROVE  LastName(request.changes, s) \in NamesOf(request.changes, s)
<1> DEFINE N == NamesOf(request.changes, s)
           rank(ref) == ContainerRank[ref.container]
<1>1. PICK ref \in DOMAIN request.changes : ref \in N
  BY DEF Touched, NamesOf
<1>2. \A x \in N : rank(x) \in {12, 28, 29, 34, 59}
  BY DEF TypeOK, NamesOf, resolveSlot, ContainerRank
<1>3. \E x \in N : \A y \in N : rank(y) <= rank(x)
  <2> HIDE DEF N, rank
  <2>1. CASE \E x \in N : rank(x) = 59
    BY <2>1, <1>2
  <2>2. CASE (\A x \in N : rank(x) # 59) /\ \E x \in N : rank(x) = 34
    BY <2>2, <1>2
  <2>3. CASE (\A x \in N : rank(x) \notin {34, 59}) /\ \E x \in N : rank(x) = 29
    BY <2>3, <1>2
  <2>4. CASE (\A x \in N : rank(x) \notin {29, 34, 59}) /\ \E x \in N : rank(x) = 28
    BY <2>4, <1>2
  <2>5. CASE \A x \in N : rank(x) \notin {28, 29, 34, 59}
    BY <2>5, <1>1, <1>2
  <2> QED
    BY <2>1, <2>2, <2>3, <2>4, <2>5
<1> QED
  BY <1>3 DEF LastName

-----------------------------------------------------------------------------
(* The invariant.  That IDs are unique is not inductive: a rejected request    *)
(* gives nextStackID its old value back, so nothing that survives the rejection*)
(* may carry an ID that was handed out since.                                  *)

\* The value that nextStackID may still go back to.
Floor == IF phase = "request" THEN request.next ELSE nextStackID

ViewBelow(shown, n) == \A s \in Slots : shown[s].id < n

AnswersBelow(n) ==
    \A r \in DOMAIN responseStackIDs : \A s \in DOMAIN responseStackIDs[r] :
        responseStackIDs[r][s] < n

\* What the open request would put back, and what it has changed.
RequestIDsOK ==
    phase = "request" =>
        /\ UniqueIDs(request.items, request.next)
        /\ request.next <= nextStackID
        /\ \A ref \in DOMAIN request.changes :
              itemStackNetworkID(request.changes[ref]) < nextStackID

IDInv ==
    /\ UniqueIDs(items, nextStackID)
    /\ ViewBelow(view, Floor)
    /\ AnswersBelow(Floor)
    /\ phase \in {"request", "batch"} => ViewBelow(batch.view, Floor)
    /\ RequestIDsOK

-----------------------------------------------------------------------------
(* Stack actions *)

\* What every stack action that passes its checks does to the request.
Recorded(item1, item2) ==
    /\ request' = [id |-> request.id, names |-> request.names, items |-> request.items,
                   next |-> request.next, changes |-> request'.changes]
    /\ \A ref \in DOMAIN request'.changes :
          /\ ref \in Refs /\ resolveSlot(ref)
          /\ \/ request'.changes[ref] \in {item1, item2}
             \/ ref \in DOMAIN request.changes /\ request'.changes[ref] = request.changes[ref]

\* What setRequestSlot leaves behind.
LEMMA SetOne ==
    ASSUME TypeOK, NEW ref \in Refs, resolveSlot(ref), NEW item \in Item,
           setRequestSlot(ref, item)
    PROVE  /\ items' \in [Slots -> Item]
           /\ \A s \in Slots : items'[s] = IF s = SlotOf(ref) THEN item ELSE items[s]
           /\ Recorded(item, item)
<1>1. SlotOf(ref) \in Slots
  BY SlotOfRef
<1>2. request' = [request EXCEPT !.changes = Put(request.changes, ref, item)]
  BY DEF setRequestSlot
<1>3. Recorded(item, item)
  <2> DEFINE new == Put(request.changes, ref, item)
  <2>1. /\ DOMAIN new = {ref} \cup DOMAIN request.changes
        /\ \A x \in DOMAIN new : new[x] = IF x = ref THEN item ELSE request.changes[x]
    BY DEF Put
  <2> HIDE DEF new
  <2>2. request' = [id |-> request.id, names |-> request.names, items |-> request.items,
                    next |-> request.next, changes |-> new]
    BY <1>2 DEF TypeOK, new
  <2>3. request'.changes = new
    BY <2>2
  <2> QED
    BY <2>1, <2>2, <2>3 DEF TypeOK, Recorded
<1> QED
  BY <1>1, <1>3 DEF TypeOK, setRequestSlot

\* The same for two calls one after the other: for two names of one slot the
\* second wins.
LEMMA SetTwo ==
    ASSUME TypeOK, NEW ref1 \in Refs, resolveSlot(ref1), NEW item1 \in Item,
           NEW ref2 \in Refs, resolveSlot(ref2), NEW item2 \in Item,
           setRequestSlots(ref1, item1, ref2, item2)
    PROVE  /\ items' \in [Slots -> Item]
           /\ \A s \in Slots : items'[s] = IF s = SlotOf(ref2) THEN item2
                                          ELSE IF s = SlotOf(ref1) THEN item1 ELSE items[s]
           /\ Recorded(item1, item2)
<1>1. SlotOf(ref1) \in Slots /\ SlotOf(ref2) \in Slots
  BY SlotOfRef
<1>2. request' = [request EXCEPT !.changes =
                     Put(Put(request.changes, ref1, item1), ref2, item2)]
  BY DEF setRequestSlots
<1>3. Recorded(item1, item2)
  <2> DEFINE new == Put(Put(request.changes, ref1, item1), ref2, item2)
  <2>1. /\ DOMAIN new = {ref1, ref2} \cup DOMAIN request.changes
        /\ \A x \in DOMAIN new : new[x] = IF x = ref2 THEN item2
                                        ELSE IF x = ref1 THEN item1 ELSE request.changes[x]
    BY DEF Put
  <2> HIDE DEF new
  <2>2. request' = [id |-> request.id, names |-> request.names, items |-> request.items,
                    next |-> request.next, changes |-> new]
    BY <1>2 DEF TypeOK, new
  <2>3. request'.changes = new
    BY <2>2
  <2> QED
    BY <2>1, <2>2, <2>3 DEF TypeOK, Recorded
<1> QED
  BY <1>1, <1>3 DEF TypeOK, setRequestSlots

\* What every stack action preserves and adds.
StackStep ==
    /\ items' \in [Slots -> Item]
    /\ nextStackID' \in Nat \ {0} /\ nextStackID <= nextStackID'
    /\ UniqueIDs(items', nextStackID')
    /\ \E item1, item2 \in Item :
          /\ Recorded(item1, item2)
          /\ itemStackNetworkID(item1) < nextStackID'
          /\ itemStackNetworkID(item2) < nextStackID'

LEMMA NamedSlot ==
    ASSUME TypeOK, NEW info \in SlotInfo(request.names), verifyStackRequestSlot(info)
    PROVE  /\ info.ref \in Refs /\ resolveSlot(info.ref) /\ SlotOf(info.ref) \in Slots
           /\ items[SlotOf(info.ref)] \in Item
<1>1. info.ref \in Refs /\ resolveSlot(info.ref)
  BY DEF TypeOK, SlotInfo, verifyStackRequestSlot
<1> QED
  BY <1>1, SlotOfRef DEF TypeOK

\* The ID of a stack is below nextStackID.
LEMMA KnownID ==
    ASSUME TypeOK, UniqueIDs(items, nextStackID), NEW s \in Slots
    PROVE  itemStackNetworkID(items[s]) < nextStackID
  BY DEF TypeOK, UniqueIDs, itemStackNetworkID, Item

LEMMA TransferStep ==
    ASSUME TypeOK, UniqueIDs(items, nextStackID),
           NEW source \in SlotInfo(request.names), NEW destination \in SlotInfo(request.names),
           NEW count \in 0..MaxStackCount, transferStack(source, destination, count)
    PROVE  StackStep
<1> DEFINE f == SlotOf(source.ref)
           d == SlotOf(destination.ref)
           from == items[f]
           to == items[d]
           rest == Less(from, count)
<1>1. /\ source.ref \in Refs /\ resolveSlot(source.ref) /\ f \in Slots /\ from \in Item
      /\ destination.ref \in Refs /\ resolveSlot(destination.ref) /\ d \in Slots /\ to \in Item
  BY NamedSlot DEF transferStack
<1>2. count \in 1..MaxStackCount /\ ~itemIsEmpty(from) /\ from.count >= count
  BY InventoryAssumption DEF transferStack
<1>3. rest \in Item /\ (rest = Empty \/ rest.id = from.id)
  BY <1>1, <1>2, LessItem
<1>4. count = from.count => rest = Empty
  BY DEF Less
<1>5. nextStackID \in Nat \ {0}
  BY DEF TypeOK
<1>6. itemIsEmpty(Empty) /\ Empty.id = 0
  BY DEF itemIsEmpty, Empty
<1>7. itemStackNetworkID(rest) <= itemStackNetworkID(from)
  BY <1>1, <1>2, <1>3, <1>6 DEF itemStackNetworkID, Item
<1>8. itemStackNetworkID(from) < nextStackID /\ itemStackNetworkID(to) < nextStackID
  BY <1>1, KnownID
<1>a. CASE /\ itemIsEmpty(to)
           /\ nextStackID' = IF count # from.count THEN nextStackID + 1 ELSE nextStackID
           /\ setRequestSlots(source.ref, rest, destination.ref,
                  [from EXCEPT !.count = count,
                               !.id = IF count # from.count THEN nextStackID ELSE @])
  <2> DEFINE moved == [from EXCEPT !.count = count,
                                   !.id = IF count # from.count THEN nextStackID ELSE @]
  <2>1. /\ moved \in Item
        /\ moved.id = IF count # from.count THEN nextStackID ELSE from.id
    BY <1>1, <1>2, <1>5 DEF Item
  <2>2. f # d
    BY <1>a, <1>2
  <2> HIDE DEF moved, rest, from, to, f, d
  <2>3. /\ items' \in [Slots -> Item]
        /\ \A s \in Slots : items'[s] = IF s = d THEN moved ELSE IF s = f THEN rest ELSE items[s]
        /\ Recorded(rest, moved)
    BY <1>a, <1>1, <1>3, <2>1, SetTwo DEF moved, rest, from, to, f, d
  <2>4. nextStackID' \in Nat \ {0} /\ nextStackID <= nextStackID'
    BY <1>a, <1>5
  <2>5. itemStackNetworkID(moved) < nextStackID'
    BY <1>a, <1>1, <1>2, <1>5, <1>8, <2>1 DEF itemStackNetworkID, Item
  <2>6. itemStackNetworkID(rest) < nextStackID'
    <3>1. itemStackNetworkID(rest) \in Nat /\ itemStackNetworkID(from) \in Nat
      BY <1>1, <1>3, ShownEntry
    <3> QED
      BY <3>1, <1>5, <1>7, <1>8, <2>4
  <2>7. UniqueIDs(items', nextStackID')
    <3>1. from = items[f] /\ to = items[d]
      BY DEF from, to
    <3>2. from.id \in 1..(nextStackID - 1)
      BY <1>1, <1>2, <3>1 DEF UniqueIDs
    <3>3. \A s \in Slots : s # f /\ ~itemIsEmpty(items[s]) =>
             items[s].id \in 1..(nextStackID - 1) /\ items[s].id # from.id
      BY <1>1, <1>2, <3>1 DEF UniqueIDs
    <3> QED
      BY <1>a, <1>1, <1>3, <1>4, <1>5, <1>6, <2>1, <2>2, <2>3, <3>1, <3>2, <3>3 DEF UniqueIDs
  <2> QED
    BY <1>3, <2>1, <2>3, <2>4, <2>5, <2>6, <2>7 DEF StackStep
<1>b. CASE /\ ~itemIsEmpty(to)
           /\ to.count + count <= MaxStackCount
           /\ setRequestSlots(source.ref, rest, destination.ref, [to EXCEPT !.count = @ + count])
           /\ UNCHANGED nextStackID
  <2> DEFINE merged == [to EXCEPT !.count = @ + count]
  <2>1. merged \in Item /\ merged.id = to.id /\ itemStackNetworkID(merged) = itemStackNetworkID(to)
    BY <1>1, <1>2, <1>b, InventoryAssumption DEF Item, itemStackNetworkID, itemIsEmpty
  <2> HIDE DEF merged, rest, from, to, f, d
  <2>2. /\ items' \in [Slots -> Item]
        /\ \A s \in Slots : items'[s] = IF s = d THEN merged ELSE IF s = f THEN rest ELSE items[s]
        /\ Recorded(rest, merged)
    BY <1>b, <1>1, <1>3, <2>1, SetTwo DEF merged, rest, from, to, f, d
  <2>3. itemStackNetworkID(rest) < nextStackID' /\ itemStackNetworkID(merged) < nextStackID'
    BY <1>b, <1>1, <1>3, <1>5, <1>7, <1>8, <2>1, ShownEntry
  <2>4. UniqueIDs(items', nextStackID')
    <3>1. from = items[f] /\ to = items[d]
      BY DEF from, to
    <3>2. \A s \in Slots : ~itemIsEmpty(items'[s]) =>
             ~itemIsEmpty(items[s]) /\ items'[s].id = items[s].id
      BY <1>b, <1>1, <1>2, <1>3, <1>6, <2>1, <2>2, <3>1
    <3> QED
      BY <1>b, <3>2 DEF UniqueIDs
  <2> QED
    BY <1>b, <1>3, <1>5, <2>1, <2>2, <2>3, <2>4 DEF StackStep
<1> QED
  BY <1>a, <1>b DEF transferStack, canMerge

LEMMA SwapStep ==
    ASSUME TypeOK, UniqueIDs(items, nextStackID),
           NEW source \in SlotInfo(request.names), NEW destination \in SlotInfo(request.names),
           swapStacks(source, destination)
    PROVE  StackStep
<1> DEFINE f == SlotOf(source.ref)
           d == SlotOf(destination.ref)
<1>1. /\ source.ref \in Refs /\ resolveSlot(source.ref) /\ f \in Slots /\ items[f] \in Item
      /\ destination.ref \in Refs /\ resolveSlot(destination.ref) /\ d \in Slots /\ items[d] \in Item
  BY NamedSlot DEF swapStacks
<1>2. /\ items' \in [Slots -> Item]
      /\ \A s \in Slots : items'[s] = IF s = d THEN items[f] ELSE IF s = f THEN items[d] ELSE items[s]
      /\ Recorded(items[d], items[f])
  BY <1>1, SetTwo DEF swapStacks
<1>3. itemStackNetworkID(items[f]) < nextStackID /\ itemStackNetworkID(items[d]) < nextStackID
  BY <1>1, KnownID
<1>4. nextStackID' = nextStackID
  BY DEF swapStacks
<1> HIDE DEF f, d
<1>5. UniqueIDs(items', nextStackID')
  BY <1>1, <1>2, <1>4 DEF UniqueIDs
<1> QED
  BY <1>1, <1>2, <1>3, <1>4, <1>5 DEF StackStep, TypeOK

LEMMA RemoveStep ==
    ASSUME TypeOK, UniqueIDs(items, nextStackID),
           NEW source \in SlotInfo(request.names), NEW count \in 0..MaxStackCount,
           removeFromStack(source, count)
    PROVE  StackStep
<1> DEFINE f == SlotOf(source.ref)
           rest == Less(items[f], count)
<1>1. source.ref \in Refs /\ resolveSlot(source.ref) /\ f \in Slots /\ items[f] \in Item
  BY NamedSlot DEF removeFromStack
<1>2. count \in 1..MaxStackCount /\ ~itemIsEmpty(items[f]) /\ items[f].count >= count
  BY InventoryAssumption DEF removeFromStack
<1>3. rest \in Item /\ (rest = Empty \/ rest.id = items[f].id)
  BY <1>1, <1>2, LessItem
<1>4. /\ items' \in [Slots -> Item]
      /\ \A s \in Slots : items'[s] = IF s = f THEN rest ELSE items[s]
      /\ Recorded(rest, rest)
  BY <1>1, <1>3, SetOne DEF removeFromStack
<1>5. nextStackID' = nextStackID
  BY DEF removeFromStack
<1>6. itemIsEmpty(Empty)
  BY DEF itemIsEmpty, Empty
<1>7. itemStackNetworkID(items[f]) < nextStackID
  BY <1>1, KnownID
<1> HIDE DEF f, rest
<1>8. itemStackNetworkID(rest) < nextStackID
  BY <1>1, <1>2, <1>3, <1>6, <1>7 DEF itemStackNetworkID, TypeOK
<1>9. UniqueIDs(items', nextStackID')
  BY <1>1, <1>2, <1>3, <1>4, <1>5, <1>6 DEF UniqueIDs
<1> QED
  BY <1>3, <1>4, <1>5, <1>8, <1>9 DEF StackStep, TypeOK

LEMMA MineStep ==
    ASSUME TypeOK, UniqueIDs(items, nextStackID), NEW source \in SlotInfo(request.names),
           ackMineBlockStack(source)
    PROVE  StackStep
<1> DEFINE item == items[SlotOf(source.ref)]
           new == Put(request.changes, source.ref, item)
<1>1. source.ref \in Refs /\ resolveSlot(source.ref) /\ SlotOf(source.ref) \in Slots /\ item \in Item
  BY NamedSlot DEF ackMineBlockStack
<1>2. itemStackNetworkID(item) < nextStackID
  BY <1>1, KnownID
<1>3. items' = items /\ nextStackID' = nextStackID
  BY DEF ackMineBlockStack
<1>4. /\ DOMAIN new = {source.ref} \cup DOMAIN request.changes
      /\ \A x \in DOMAIN new : new[x] = IF x = source.ref THEN item ELSE request.changes[x]
  BY DEF Put
<1>5. request' = [request EXCEPT !.changes = new]
  BY DEF ackMineBlockStack
<1> HIDE DEF new, item
<1>6. request' = [id |-> request.id, names |-> request.names, items |-> request.items,
                  next |-> request.next, changes |-> new]
  BY <1>5 DEF TypeOK
<1>7. Recorded(item, item)
  <2>1. request'.changes = new
    BY <1>6
  <2> QED
    BY <1>1, <1>4, <1>6, <2>1 DEF TypeOK, Recorded
<1> QED
  BY <1>1, <1>2, <1>3, <1>7 DEF StackStep, TypeOK

\* Every stack action is such a step.
LEMMA ActionStep ==
    ASSUME TypeOK, UniqueIDs(items, nextStackID), applyStackRequestAction
    PROVE  StackStep
  BY TransferStep, SwapStep, RemoveStep, MineStep
  DEF applyStackRequestAction, dropStack, destroyStack

-----------------------------------------------------------------------------
(* Answers *)

\* rememberResponseStackIDs: what the table holds afterwards, and its size.
LEMMA Remembered ==
    ASSUME TypeOK, NEW name \in [Touched(request.changes) -> DOMAIN request.changes],
           rememberResponseStackIDs(request.id, request.changes, name)
    PROVE  /\ IsFiniteSet(DOMAIN responseStackIDs')
           /\ ResponsesBounded => ResponsesBounded'
           /\ \A r \in DOMAIN responseStackIDs' :
                \/ r \in DOMAIN responseStackIDs /\ responseStackIDs'[r] = responseStackIDs[r]
                \/ responseStackIDs'[r] =
                      [s \in Touched(request.changes) |-> itemStackNetworkID(request.changes[name[s]])]
<1> DEFINE kept == IF Cardinality(DOMAIN responseStackIDs) > ResponseCap
                   THEN << >> ELSE responseStackIDs
           ids == [s \in Touched(request.changes) |-> itemStackNetworkID(request.changes[name[s]])]
           id == request.id
           new == Put(Put(kept, id, ids), -id, ids)
<1>1. DOMAIN << >> = {}
  OBVIOUS
<1>2. /\ IsFiniteSet(DOMAIN kept) /\ Cardinality(DOMAIN kept) \in Nat
      /\ Cardinality(DOMAIN kept) <= ResponseCap
  BY <1>1, FS_EmptySet, FS_CardinalityType, InventoryAssumption DEF TypeOK
<1>3. \A r \in DOMAIN kept : r \in DOMAIN responseStackIDs /\ kept[r] = responseStackIDs[r]
  BY <1>1
<1> HIDE DEF kept, ids
<1>4. /\ DOMAIN new = (DOMAIN kept \cup {id}) \cup {-id}
      /\ \A r \in DOMAIN new : new[r] = IF r \in {id, -id} THEN ids ELSE kept[r]
  BY DEF Put
<1>5. /\ IsFiniteSet(DOMAIN kept \cup {id})
      /\ Cardinality(DOMAIN kept \cup {id}) \in Nat
      /\ Cardinality(DOMAIN kept \cup {id}) <= ResponseCap + 1
  <2> DEFINE D == DOMAIN kept
  <2>1. IsFiniteSet(D)
    BY <1>2
  <2> HIDE DEF D
  <2>2. /\ IsFiniteSet(D \cup {id})
        /\ Cardinality(D \cup {id}) = IF id \in D THEN Cardinality(D) ELSE Cardinality(D) + 1
    BY <2>1, FS_AddElement
  <2> QED
    BY <1>2, <2>2, InventoryAssumption DEF D
<1>6. /\ IsFiniteSet((DOMAIN kept \cup {id}) \cup {-id})
      /\ Cardinality((DOMAIN kept \cup {id}) \cup {-id}) <= ResponseCap + 2
  <2> DEFINE D == DOMAIN kept \cup {id}
             x == -id
  <2>1. IsFiniteSet(D)
    BY <1>5
  <2> HIDE DEF D, x
  <2>2. /\ IsFiniteSet(D \cup {x})
        /\ Cardinality(D \cup {x}) = IF x \in D THEN Cardinality(D) ELSE Cardinality(D) + 1
    BY <2>1, FS_AddElement
  <2> QED
    BY <1>5, <2>2, InventoryAssumption DEF D, x
<1>7. responseStackIDs' = IF request.changes = << >> THEN responseStackIDs ELSE new
  BY DEF rememberResponseStackIDs, kept, ids
<1> HIDE DEF id, new
<1>8. CASE request.changes = << >>
  BY <1>7, <1>8 DEF TypeOK, ResponsesBounded
<1>9. CASE request.changes # << >>
  <2>1. responseStackIDs' = new
    BY <1>7, <1>9
  <2>2. IsFiniteSet(DOMAIN responseStackIDs') /\ ResponsesBounded'
    BY <1>4, <1>6, <2>1 DEF ResponsesBounded
  <2>3. \A r \in DOMAIN new : new[r] = ids \/ (r \in DOMAIN responseStackIDs /\ new[r] = responseStackIDs[r])
    BY <1>3, <1>4
  <2> QED
    BY <2>1, <2>2, <2>3 DEF ids
<1> QED
  BY <1>8, <1>9

\* The client view after a response: what it was, or an item of the changes.
LEMMA ViewStep ==
    ASSUME TypeOK, NEW shown \in [Slots -> Entry]
    PROVE  /\ ViewAfter(shown, request.changes) \in [Slots -> Entry]
           /\ \A s \in Slots :
                \/ ViewAfter(shown, request.changes)[s] = shown[s]
                \/ \E ref \in DOMAIN request.changes :
                      ViewAfter(shown, request.changes)[s] = Shown(request.changes[ref])
<1>1. \A s \in Touched(request.changes) : LastName(request.changes, s) \in DOMAIN request.changes
  BY LastNameExists DEF NamesOf
<1>2. \A ref \in DOMAIN request.changes : Shown(request.changes[ref]) \in Entry
  BY ShownEntry DEF TypeOK
<1> QED
  BY <1>1, <1>2 DEF ViewAfter

-----------------------------------------------------------------------------
(* The invariant is inductive *)

LEMMA SetItemKeeps ==
    ASSUME TypeOK, IDInv, NEW s \in Slots, NEW t \in ItemTypes, NEW n \in 1..MaxStackCount,
           NEW id \in {0, nextStackID + 1}, setItem(s, t, n, id)
    PROVE  TypeOK' /\ IDInv'
<1> DEFINE given == IF id = 0 THEN nextStackID ELSE id
           item == [type |-> t, count |-> n, id |-> given]
<1>1. nextStackID \in Nat \ {0}
  BY DEF TypeOK
<1>2. given \in Nat /\ given >= nextStackID
  BY <1>1
<1>3. item \in Item
  BY <1>2, InventoryAssumption DEF Item
<1>4. /\ items' = [items EXCEPT ![s] = item]
      /\ nextStackID' = given + 1
      /\ phase = "setup"
      /\ UNCHANGED <<selectedHotbar, responseStackIDs, phase, request, batch, view, heldShown>>
  BY <1>1, <1>2 DEF setItem
<1>5. item.id = given
  OBVIOUS
<1> HIDE DEF given, item
<1>6. supply' \in [ItemTypes -> Nat]
  BY DEF setItem, TypeOK
<1>7. TypeOK'
  BY <1>2, <1>3, <1>4, <1>6 DEF TypeOK
<1>8. \A x \in Slots : items'[x] = IF x = s THEN item ELSE items[x]
  BY <1>4 DEF TypeOK
<1>9. UniqueIDs(items', nextStackID')
  BY <1>1, <1>2, <1>4, <1>5, <1>8 DEF UniqueIDs, IDInv
<1>10. Floor = nextStackID /\ Floor' = nextStackID' /\ nextStackID < nextStackID'
  BY <1>1, <1>2, <1>4 DEF Floor
<1>11. ViewBelow(view', Floor')
  BY <1>1, <1>2, <1>4, <1>10 DEF ViewBelow, IDInv, TypeOK, Entry
<1>12. AnswersBelow(Floor)'
  BY <1>1, <1>2, <1>4, <1>10 DEF AnswersBelow, IDInv, TypeOK
<1> QED
  BY <1>4, <1>7, <1>9, <1>11, <1>12 DEF IDInv, RequestIDsOK

LEMMA ShownBelow ==
    ASSUME TypeOK, IDInv, NEW s \in Slots
    PROVE  Shown(items[s]) \in Entry /\ Shown(items[s]).id < nextStackID
  BY KnownID, ShownEntry DEF IDInv, TypeOK, Shown

LEMMA InitialInventoryKeeps ==
    ASSUME TypeOK, IDInv, sendInitialInventory
    PROVE  TypeOK' /\ IDInv'
<1>1. /\ items' = items /\ nextStackID' = nextStackID /\ phase' = "idle"
      /\ phase \in {"setup", "idle"}
      /\ UNCHANGED <<selectedHotbar, responseStackIDs, request, batch, supply>>
      /\ view' = [s \in Slots |-> IF s = CursorSlot THEN view[s] ELSE Shown(items[s])]
  BY DEF sendInitialInventory, inventory
<1>2. heldShown' \in Item
  BY InventoryAssumption DEF sendInitialInventory, TypeOK, heldItem, Slots, OffhandSlot
<1>3. view' \in [Slots -> Entry]
  BY <1>1, ShownBelow DEF TypeOK
<1>4. TypeOK'
  BY <1>1, <1>2, <1>3 DEF TypeOK
<1>5. Floor' = nextStackID /\ Floor = nextStackID
  BY <1>1 DEF Floor
<1>6. ViewBelow(view', nextStackID)
  BY <1>1, <1>5, ShownBelow DEF IDInv, ViewBelow
<1> QED
  BY <1>1, <1>4, <1>5, <1>6 DEF IDInv, AnswersBelow, RequestIDsOK

LEMMA MobEquipmentKeeps ==
    ASSUME TypeOK, IDInv, NEW slot \in 0..(HotbarSlots - 1), NEW claimsActual \in BOOLEAN,
           handleMobEquipment(slot, claimsActual)
    PROVE  TypeOK' /\ IDInv'
<1>1. slot \in Slots
  BY InventoryAssumption DEF Slots, OffhandSlot
<1>2. /\ items' = items /\ nextStackID' = nextStackID /\ phase' = "idle" /\ phase = "idle"
      /\ selectedHotbar' = slot /\ heldShown' = items[slot]
      /\ UNCHANGED <<responseStackIDs, request, batch, supply>>
      /\ view' = view \/ view' = [view EXCEPT ![slot] = Shown(items[slot])]
  BY DEF handleMobEquipment
<1>3. view' \in [Slots -> Entry]
  BY <1>1, <1>2, ShownBelow DEF TypeOK
<1>4. TypeOK'
  BY <1>1, <1>2, <1>3 DEF TypeOK
<1>5. Floor' = nextStackID /\ Floor = nextStackID
  BY <1>2 DEF Floor
<1>6. ViewBelow(view', nextStackID)
  BY <1>1, <1>2, <1>5, ShownBelow DEF IDInv, ViewBelow, TypeOK
<1> QED
  BY <1>2, <1>4, <1>5, <1>6 DEF IDInv, AnswersBelow, RequestIDsOK

\* beginRequest takes the snapshot that a rejection goes back to.
LEMMA BeginKeeps ==
    ASSUME TypeOK, IDInv, NEW id \in RequestIDs, NEW names \in Namespaces,
           beginRequest(id, names), phase # "request",
           batch' \in [view : [Slots -> Entry], held : Item, rejected : BOOLEAN],
           ViewBelow(batch'.view, nextStackID)
    PROVE  TypeOK' /\ IDInv'
<1>1. /\ items' = items /\ nextStackID' = nextStackID /\ phase' = "request"
      /\ UNCHANGED <<selectedHotbar, responseStackIDs, view, heldShown, supply>>
      /\ request' = [id |-> id, names |-> names, items |-> items, next |-> nextStackID,
                     changes |-> << >>]
  BY DEF beginRequest, inventory
<1>2. /\ request' = [id |-> request'.id, names |-> request'.names, items |-> request'.items,
                     next |-> request'.next, changes |-> request'.changes]
      /\ request'.names = names /\ request'.items = items /\ request'.next = nextStackID
      /\ DOMAIN request'.changes = {}
  BY <1>1
<1>3. names \subseteq Refs
  BY DEF Refs
<1>4. TypeOK'
  BY <1>1, <1>2, <1>3 DEF TypeOK
<1>5. Floor' = nextStackID /\ Floor = nextStackID
  BY <1>1, <1>2 DEF Floor
<1> QED
  BY <1>1, <1>2, <1>4, <1>5 DEF IDInv, AnswersBelow, RequestIDsOK, TypeOK

LEMMA BatchKeeps ==
    ASSUME TypeOK, IDInv, NEW id \in RequestIDs, NEW names \in Namespaces,
           beginBatch(id, names) \/ continueBatch(id, names)
    PROVE  TypeOK' /\ IDInv'
<1>1. CASE beginBatch(id, names)
  <2>1. selectedHotbar \in Slots
    BY InventoryAssumption DEF TypeOK, Slots, OffhandSlot
  <2>2. batch' = [view |-> view, held |-> heldItem, rejected |-> FALSE] /\ phase = "idle"
    BY <1>1 DEF beginBatch
  <2>3. batch' \in [view : [Slots -> Entry], held : Item, rejected : BOOLEAN]
    BY <2>1, <2>2 DEF TypeOK, heldItem
  <2>4. ViewBelow(batch'.view, nextStackID)
    BY <2>2 DEF IDInv, Floor
  <2> QED
    BY <1>1, <2>2, <2>3, <2>4, BeginKeeps DEF beginBatch
<1>2. CASE continueBatch(id, names)
  <2>1. batch' = batch /\ phase = "batch"
    BY <1>2 DEF continueBatch
  <2>2. ViewBelow(batch'.view, nextStackID)
    BY <2>1 DEF IDInv, Floor
  <2> QED
    BY <1>2, <2>1, <2>2, BeginKeeps DEF continueBatch, TypeOK
<1> QED
  BY <1>1, <1>2

LEMMA ActionKeeps ==
    ASSUME TypeOK, IDInv, applyStackRequestAction
    PROVE  TypeOK' /\ IDInv'
<1>1. /\ phase = "request" /\ phase' = "request"
      /\ UNCHANGED <<selectedHotbar, responseStackIDs, batch, view, heldShown, supply>>
  BY DEF applyStackRequestAction
<1>2. StackStep
  BY ActionStep DEF IDInv
<1>3. PICK item1, item2 \in Item :
         /\ Recorded(item1, item2)
         /\ itemStackNetworkID(item1) < nextStackID'
         /\ itemStackNetworkID(item2) < nextStackID'
  BY <1>2 DEF StackStep
<1>4. /\ request' = [id |-> request.id, names |-> request.names, items |-> request.items,
                     next |-> request.next, changes |-> request'.changes]
      /\ request'.id = request.id /\ request'.names = request.names
      /\ request'.items = request.items /\ request'.next = request.next
  BY <1>3 DEF Recorded
<1>5. \A ref \in DOMAIN request'.changes :
        ref \in Refs /\ resolveSlot(ref) /\ request'.changes[ref] \in Item
  BY <1>3 DEF Recorded, TypeOK
<1>6. TypeOK'
  BY <1>1, <1>2, <1>4, <1>5 DEF StackStep, TypeOK
<1>7. Floor = request.next /\ Floor' = request.next
  BY <1>1, <1>4 DEF Floor
<1>8. \A ref \in DOMAIN request'.changes :
        itemStackNetworkID(request'.changes[ref]) < nextStackID'
  <2>1. nextStackID \in Nat /\ nextStackID' \in Nat /\ nextStackID <= nextStackID'
    BY <1>2 DEF StackStep, TypeOK
  <2>2. \A ref \in DOMAIN request.changes :
          /\ itemStackNetworkID(request.changes[ref]) \in Nat
          /\ itemStackNetworkID(request.changes[ref]) < nextStackID
    BY <1>1, ShownEntry DEF TypeOK, IDInv, RequestIDsOK
  <2> QED
    BY <1>3, <2>1, <2>2 DEF Recorded
<1>9. request.next <= nextStackID'
  BY <1>1, <1>2 DEF StackStep, TypeOK, IDInv, RequestIDsOK
<1>10. UniqueIDs(items', nextStackID')
  BY <1>2 DEF StackStep
<1> QED
  BY <1>1, <1>4, <1>6, <1>7, <1>8, <1>9, <1>10 DEF IDInv, AnswersBelow, RequestIDsOK

\* NoRequest, the request outside a transaction, has the right shape.
LEMMA NoRequestOK ==
    /\ NoRequest = [id |-> NoRequest.id, names |-> NoRequest.names, items |-> NoRequest.items,
                    next |-> NoRequest.next, changes |-> NoRequest.changes]
    /\ NoRequest.names \subseteq Refs
    /\ NoRequest.items \in [Slots -> Item] /\ NoRequest.next \in Nat \ {0}
    /\ DOMAIN NoRequest.changes = {}
  BY EmptyIsItem DEF NoRequest

LEMMA RejectKeeps ==
    ASSUME TypeOK, IDInv, rejectRequest
    PROVE  TypeOK' /\ IDInv'
<1>1. /\ phase = "request" /\ phase' = "batch"
      /\ items' = request.items /\ nextStackID' = request.next /\ request' = NoRequest
      /\ batch' = [batch EXCEPT !.rejected = TRUE]
      /\ UNCHANGED <<selectedHotbar, responseStackIDs, view, heldShown, supply>>
  BY DEF rejectRequest
<1>2. /\ batch' \in [view : [Slots -> Entry], held : Item, rejected : BOOLEAN]
      /\ batch'.view = batch.view
  BY <1>1 DEF TypeOK
<1>3. TypeOK'
  BY <1>1, <1>2, NoRequestOK DEF TypeOK
<1>4. Floor = request.next /\ Floor' = request.next
  BY <1>1 DEF Floor
<1> QED
  BY <1>1, <1>2, <1>3, <1>4 DEF IDInv, AnswersBelow, RequestIDsOK

LEMMA AcceptKeeps ==
    ASSUME TypeOK, IDInv, acceptRequest
    PROVE  /\ TypeOK' /\ IDInv'
           /\ ResponsesBounded => ResponsesBounded'
<1>1. /\ phase = "request" /\ phase' = "batch" /\ request' = NoRequest
      /\ items' = items /\ nextStackID' = nextStackID
      /\ batch' = [batch EXCEPT !.view = ViewAfter(batch.view, request.changes)]
      /\ UNCHANGED <<selectedHotbar, view, heldShown, supply>>
  BY DEF acceptRequest, inventory
<1>2. PICK name \in [Touched(request.changes) -> DOMAIN request.changes] :
         rememberResponseStackIDs(request.id, request.changes, name)
  BY DEF acceptRequest
<1>3. /\ IsFiniteSet(DOMAIN responseStackIDs')
      /\ ResponsesBounded => ResponsesBounded'
      /\ \A r \in DOMAIN responseStackIDs' :
            \/ r \in DOMAIN responseStackIDs /\ responseStackIDs'[r] = responseStackIDs[r]
            \/ responseStackIDs'[r] =
                  [s \in Touched(request.changes) |-> itemStackNetworkID(request.changes[name[s]])]
  BY <1>2, Remembered
<1>4. \A ref \in DOMAIN request.changes :
        /\ SlotOf(ref) \in Slots
        /\ itemStackNetworkID(request.changes[ref]) \in Nat
        /\ itemStackNetworkID(request.changes[ref]) < nextStackID
  BY <1>1, SlotOfRef, ShownEntry DEF TypeOK, IDInv, RequestIDsOK
<1>5. Touched(request.changes) \subseteq Slots
  BY <1>4 DEF Touched
<1>6. /\ nextStackID \in Nat /\ request.next \in Nat /\ request.next <= nextStackID
      /\ Floor = request.next /\ Floor' = nextStackID
  BY <1>1 DEF TypeOK, IDInv, RequestIDsOK, Floor
<1>7. \A r \in DOMAIN responseStackIDs' :
        /\ DOMAIN responseStackIDs'[r] \subseteq Slots
        /\ \A s \in DOMAIN responseStackIDs'[r] :
              responseStackIDs'[r][s] \in Nat /\ responseStackIDs'[r][s] < nextStackID
  <2> SUFFICES ASSUME NEW r \in DOMAIN responseStackIDs'
               PROVE  /\ DOMAIN responseStackIDs'[r] \subseteq Slots
                      /\ \A s \in DOMAIN responseStackIDs'[r] :
                            responseStackIDs'[r][s] \in Nat /\ responseStackIDs'[r][s] < nextStackID
    OBVIOUS
  <2>1. CASE r \in DOMAIN responseStackIDs /\ responseStackIDs'[r] = responseStackIDs[r]
    BY <2>1, <1>6 DEF TypeOK, IDInv, AnswersBelow
  <2>2. CASE responseStackIDs'[r] =
               [s \in Touched(request.changes) |-> itemStackNetworkID(request.changes[name[s]])]
    BY <2>2, <1>4, <1>5
  <2> QED
    BY <1>3, <2>1, <2>2
<1>8. batch.view \in [Slots -> Entry]
  BY DEF TypeOK
<1>9. /\ batch' \in [view : [Slots -> Entry], held : Item, rejected : BOOLEAN]
      /\ batch'.view = ViewAfter(batch.view, request.changes)
  BY <1>1, <1>8, ViewStep DEF TypeOK
<1>10. TypeOK'
  BY <1>1, <1>3, <1>7, <1>9, NoRequestOK DEF TypeOK
<1>11. ViewBelow(batch'.view, nextStackID)
  <2> SUFFICES ASSUME NEW s \in Slots
               PROVE  batch'.view[s].id < nextStackID
    BY DEF ViewBelow
  <2>1. CASE batch'.view[s] = batch.view[s]
    <3>1. batch.view[s].id < request.next /\ batch.view[s].id \in Nat
      BY <1>1, <1>6, <1>8 DEF IDInv, ViewBelow, Entry
    <3> QED
      BY <2>1, <3>1, <1>6
  <2>2. ASSUME NEW ref \in DOMAIN request.changes, batch'.view[s] = Shown(request.changes[ref])
        PROVE  batch'.view[s].id < nextStackID
    BY <2>2, <1>4 DEF Shown
  <2> QED
    BY <1>8, <1>9, <2>1, <2>2, ViewStep
<1>12. ViewBelow(view', nextStackID)
  BY <1>1, <1>6 DEF IDInv, ViewBelow, TypeOK, Entry
<1>13. AnswersBelow(Floor)'
  BY <1>6, <1>7 DEF AnswersBelow
<1>14. IDInv'
  BY <1>1, <1>6, <1>11, <1>12, <1>13 DEF IDInv, RequestIDsOK
<1> QED
  BY <1>3, <1>10, <1>14

LEMMA FinishKeeps ==
    ASSUME TypeOK, IDInv, finishBatch
    PROVE  TypeOK' /\ IDInv'
<1>1. /\ phase = "batch" /\ phase' = "idle"
      /\ items' = items /\ nextStackID' = nextStackID /\ batch' = NoBatch
      /\ view' = IF batch.rejected
                 THEN [s \in Slots |-> IF s = CursorSlot THEN batch.view[s] ELSE Shown(items[s])]
                 ELSE batch.view
      /\ UNCHANGED <<selectedHotbar, responseStackIDs, request, supply>>
  BY DEF finishBatch, inventory
<1>2. heldShown' \in Item
  BY InventoryAssumption DEF finishBatch, TypeOK, heldItem, Slots, OffhandSlot
<1>3. view' \in [Slots -> Entry]
  BY <1>1, ShownBelow DEF TypeOK
<1>4. batch' \in [view : [Slots -> Entry], held : Item, rejected : BOOLEAN]
  BY <1>1, EmptyIsItem, ShownEntry DEF NoBatch
<1>5. TypeOK'
  BY <1>1, <1>2, <1>3, <1>4 DEF TypeOK
<1>6. Floor = nextStackID /\ Floor' = nextStackID
  BY <1>1 DEF Floor
<1>7. ViewBelow(view', nextStackID)
  BY <1>1, <1>6, ShownBelow DEF IDInv, ViewBelow, TypeOK
<1> QED
  BY <1>1, <1>5, <1>6, <1>7 DEF IDInv, AnswersBelow, RequestIDsOK

LEMMA Initially ==
    ASSUME Init
    PROVE  TypeOK /\ IDInv /\ ResponsesBounded
<1>1. DOMAIN << >> = {}
  OBVIOUS
<1>2. DOMAIN responseStackIDs = {}
  BY <1>1 DEF Init
<1>3. itemIsEmpty(Empty) /\ Shown(Empty).id = 0 /\ Shown(Empty) \in Entry
  BY EmptyIsItem, ShownEntry DEF itemIsEmpty, Empty, Shown, itemStackNetworkID
<1>4. NoBatch \in [view : [Slots -> Entry], held : Item, rejected : BOOLEAN]
  BY <1>3, EmptyIsItem DEF NoBatch
<1>5. TypeOK
  BY <1>2, <1>3, <1>4, EmptyIsItem, NoRequestOK, FS_EmptySet, InventoryAssumption DEF Init, TypeOK
<1>6. IDInv
  BY <1>2, <1>3 DEF Init, IDInv, UniqueIDs, ViewBelow, AnswersBelow, RequestIDsOK, Floor
<1>7. ResponsesBounded
  BY <1>2, FS_EmptySet, InventoryAssumption DEF ResponsesBounded
<1> QED
  BY <1>5, <1>6, <1>7

LEMMA Inductive ==
    ASSUME TypeOK, IDInv, ResponsesBounded, [Next]_vars
    PROVE  TypeOK' /\ IDInv' /\ ResponsesBounded'
<1>1. CASE acceptRequest
  BY <1>1, AcceptKeeps
<1>2. ASSUME responseStackIDs' = responseStackIDs
      PROVE  ResponsesBounded'
  BY <1>2 DEF ResponsesBounded
<1>3. ASSUME NEW s \in Slots, NEW t \in ItemTypes, NEW n \in 1..MaxStackCount,
             NEW id \in {0, nextStackID + 1}, setItem(s, t, n, id)
      PROVE  TypeOK' /\ IDInv' /\ ResponsesBounded'
  BY <1>2, <1>3, SetItemKeeps DEF setItem
<1>4. CASE sendInitialInventory
  BY <1>2, <1>4, InitialInventoryKeeps DEF sendInitialInventory
<1>5. ASSUME NEW slot \in 0..(HotbarSlots - 1), NEW claimsActual \in BOOLEAN,
             handleMobEquipment(slot, claimsActual)
      PROVE  TypeOK' /\ IDInv' /\ ResponsesBounded'
  BY <1>2, <1>5, MobEquipmentKeeps DEF handleMobEquipment
<1>6. ASSUME NEW id \in RequestIDs, NEW names \in Namespaces,
             beginBatch(id, names) \/ continueBatch(id, names)
      PROVE  TypeOK' /\ IDInv' /\ ResponsesBounded'
  BY <1>2, <1>6, BatchKeeps DEF beginBatch, continueBatch, beginRequest
<1>7. CASE applyStackRequestAction
  BY <1>2, <1>7, ActionKeeps DEF applyStackRequestAction
<1>8. CASE rejectRequest
  BY <1>2, <1>8, RejectKeeps DEF rejectRequest
<1>9. CASE finishBatch
  BY <1>2, <1>9, FinishKeeps DEF finishBatch
<1>10. CASE UNCHANGED vars
  BY <1>10 DEF vars, TypeOK, IDInv, ResponsesBounded, ViewBelow, AnswersBelow, RequestIDsOK,
               Floor, resolveSlot
<1> QED
  BY <1>1, <1>3, <1>4, <1>5, <1>6, <1>7, <1>8, <1>9, <1>10 DEF Next

-----------------------------------------------------------------------------
(* Theorems *)

\* Whatever the client sends, slots hold stacks of at most mcpeMaxStackCount
\* items and all state of the inventory keeps its type (mcpe_inventory.go).
THEOREM TypeCorrect == Spec => []TypeOK
<1>1. Init => TypeOK /\ IDInv /\ ResponsesBounded
  BY Initially
<1>2. TypeOK /\ IDInv /\ ResponsesBounded /\ [Next]_vars
        => (TypeOK /\ IDInv /\ ResponsesBounded)'
  BY Inductive
<1> QED
  BY <1>1, <1>2, PTL DEF Spec

\* Through splits, merges, swaps and rejected requests that take nextStackID
\* back, no two stacks ever share an ID, and nothing the client was told or the
\* server remembers carries an ID that nextNetworkStackID will hand out again.
THEOREM IDsUnique == Spec => []StackIDsUnique
<1>1. Init => TypeOK /\ IDInv /\ ResponsesBounded
  BY Initially
<1>2. TypeOK /\ IDInv /\ ResponsesBounded /\ [Next]_vars
        => (TypeOK /\ IDInv /\ ResponsesBounded)'
  BY Inductive
<1>3. TypeOK /\ IDInv => StackIDsUnique
  <2> SUFFICES ASSUME TypeOK, IDInv
               PROVE  StackIDsUnique
    OBVIOUS
  <2>1. Floor \in Nat /\ nextStackID \in Nat /\ Floor <= nextStackID
    BY DEF TypeOK, IDInv, RequestIDsOK, Floor
  <2>2. \A s \in Slots : view[s].id \in Nat
    BY DEF TypeOK, Entry
  <2> HIDE DEF Floor
  <2> QED
    BY <2>1, <2>2 DEF TypeOK, IDInv, ViewBelow, AnswersBelow, StackIDsUnique
<1> QED
  BY <1>1, <1>2, <1>3, PTL DEF Spec

\* The table of remembered responses never holds more than ResponseCap + 2
\* entries, however many requests the client sends (rememberResponseStackIDs).
THEOREM ResponsesAreBounded == Spec => []ResponsesBounded
<1>1. Init => TypeOK /\ IDInv /\ ResponsesBounded
  BY Initially
<1>2. TypeOK /\ IDInv /\ ResponsesBounded /\ [Next]_vars
        => (TypeOK /\ IDInv /\ ResponsesBounded)'
  BY Inductive
<1> QED
  BY <1>1, <1>2, PTL DEF Spec

-----------------------------------------------------------------------------
(* The held item.  HeldItemShown speaks of the time between batches only; in   *)
(* a batch the peers know what was held when the batch began, and that is what *)
(* finishBatch compares with.                                                  *)

HeldInv ==
    /\ HeldItemShown
    /\ phase \in {"request", "batch"} => heldShown = batch.held

LEMMA HeldInductive ==
    ASSUME TypeOK, HeldInv, [Next]_vars
    PROVE  HeldInv'
<1> USE DEF HeldInv, HeldItemShown, heldItem, inventory
<1>1. CASE UNCHANGED vars
  BY <1>1 DEF vars
<1>2. ASSUME NEW s \in Slots, NEW t \in ItemTypes, NEW n \in 1..MaxStackCount,
             NEW id \in {0, nextStackID + 1}, setItem(s, t, n, id)
      PROVE  HeldInv'
  BY <1>2 DEF setItem
<1>3. CASE sendInitialInventory
  BY <1>3 DEF sendInitialInventory
<1>4. ASSUME NEW slot \in 0..(HotbarSlots - 1), NEW claimsActual \in BOOLEAN,
             handleMobEquipment(slot, claimsActual)
      PROVE  HeldInv'
  BY <1>4 DEF handleMobEquipment
<1>5. ASSUME NEW id \in RequestIDs, NEW names \in Namespaces,
             beginBatch(id, names) \/ continueBatch(id, names)
      PROVE  HeldInv'
  BY <1>5 DEF beginBatch, continueBatch, beginRequest
<1>6. CASE applyStackRequestAction
  BY <1>6 DEF applyStackRequestAction
<1>7. CASE rejectRequest
  BY <1>7 DEF rejectRequest, TypeOK
<1>8. CASE acceptRequest
  BY <1>8 DEF acceptRequest, TypeOK
<1>9. CASE finishBatch
  BY <1>9 DEF finishBatch
<1> QED
  BY <1>1, <1>2, <1>3, <1>4, <1>5, <1>6, <1>7, <1>8, <1>9 DEF Next

\* Between batches the spawned peers have been told the item that the player
\* really holds, whatever the requests of a batch did to the held slot and
\* whichever of them were rolled back (processItemStackRequests).
THEOREM PeersSeeHeldItem == Spec => []HeldItemShown
<1>1. Init => HeldInv
  BY DEF Init, HeldInv, HeldItemShown
<1>2. HeldInv => HeldItemShown
  BY DEF HeldInv
<1> QED
  BY <1>1, <1>2, TypeCorrect, HeldInductive, PTL DEF Spec

-----------------------------------------------------------------------------
(* What the client is told.  ClientViewAccurate speaks of the time between     *)
(* batches; the answers of a batch describe the slots as they are between its  *)
(* requests, and while a request is open the slots are the snapshot with the   *)
(* changes recorded so far.  That needs a request to use one name per slot:    *)
(* with two, an earlier change stays recorded under the other name.            *)

OneNameEach ==
    \A names \in Namespaces : \A ref, other \in names :
        resolveSlot(ref) /\ resolveSlot(other) /\ SlotOf(ref) = SlotOf(other) => ref = other

\* The recorded changes are what the slots hold, and all other slots are as in
\* the snapshot.
Mirrored(content, changes, snapshot) ==
    /\ \A ref \in DOMAIN changes : content[SlotOf(ref)] = changes[ref]
    /\ \A s \in Slots : s \notin Touched(changes) => content[s] = snapshot[s]

Tells(shown, content) == \A s \in Slots : shown[s] = Shown(content[s])

RequestMirrored ==
    phase = "request" =>
        /\ request.names \in Namespaces
        /\ DOMAIN request.changes \subseteq request.names
        /\ Mirrored(items, request.changes, request.items)
        /\ Tells(batch.view, request.items)

ViewInv ==
    /\ phase = "setup" => view[CursorSlot] = Shown(items[CursorSlot])
    /\ phase = "idle" => Tells(view, items)
    /\ phase = "batch" => Tells(batch.view, items)
    /\ RequestMirrored

\* Two writes of a request and their record.
LEMMA MirrorTwo ==
    ASSUME OneNameEach, TypeOK, RequestMirrored, phase = "request", phase' = "request",
           batch' = batch,
           NEW ref1 \in request.names, resolveSlot(ref1), NEW item1,
           NEW ref2 \in request.names, resolveSlot(ref2), NEW item2, ref1 # ref2,
           setRequestSlots(ref1, item1, ref2, item2)
    PROVE  RequestMirrored'
<1> DEFINE old == request.changes
           new == Put(Put(old, ref1, item1), ref2, item2)
<1>1. /\ DOMAIN new = {ref1, ref2} \cup DOMAIN old
      /\ \A x \in DOMAIN new : new[x] = IF x = ref2 THEN item2
                                      ELSE IF x = ref1 THEN item1 ELSE old[x]
  BY DEF Put
<1>2. /\ request'.names = request.names /\ request'.items = request.items
      /\ request'.changes = new
  BY DEF setRequestSlots, TypeOK
<1>3. /\ SlotOf(ref1) \in Slots /\ SlotOf(ref2) \in Slots
      /\ \A ref \in DOMAIN old : resolveSlot(ref) /\ SlotOf(ref) \in Slots /\ ref \in request.names
  BY SlotOfRef DEF TypeOK, RequestMirrored
<1>4. \A s \in Slots : items'[s] = IF s = SlotOf(ref2) THEN item2
                                   ELSE IF s = SlotOf(ref1) THEN item1 ELSE items[s]
  BY <1>3 DEF setRequestSlots, TypeOK
<1>5. \A ref, other \in DOMAIN new : SlotOf(ref) = SlotOf(other) => ref = other
  BY <1>1, <1>3 DEF OneNameEach, RequestMirrored
<1>6. \A s \in Slots : s \notin Touched(new) =>
          s \notin Touched(old) /\ s # SlotOf(ref1) /\ s # SlotOf(ref2)
  BY <1>1 DEF Touched
<1> HIDE DEF new
<1>7. \A ref \in DOMAIN new : items'[SlotOf(ref)] = new[ref]
  <2> SUFFICES ASSUME NEW ref \in DOMAIN new PROVE items'[SlotOf(ref)] = new[ref]
    OBVIOUS
  <2>1. ref1 \in DOMAIN new /\ ref2 \in DOMAIN new
    BY <1>1
  <2>2. CASE ref = ref2
    BY <2>2, <1>1, <1>3, <1>4
  <2>3. CASE ref = ref1
    BY <2>1, <2>3, <1>1, <1>3, <1>4, <1>5
  <2>4. CASE ref # ref1 /\ ref # ref2
    <3>1. ref \in DOMAIN old /\ new[ref] = old[ref] /\ items[SlotOf(ref)] = old[ref]
      BY <2>4, <1>1 DEF RequestMirrored, Mirrored
    <3>2. SlotOf(ref) # SlotOf(ref1) /\ SlotOf(ref) # SlotOf(ref2)
      BY <2>1, <2>4, <1>5
    <3> QED
      BY <3>1, <3>2, <1>3, <1>4
  <2> QED
    BY <2>2, <2>3, <2>4
<1>8. Mirrored(items', new, request.items)
  BY <1>4, <1>6, <1>7 DEF RequestMirrored, Mirrored
<1> QED
  BY <1>1, <1>2, <1>3, <1>8 DEF RequestMirrored

\* One write, also of the item that is there already.
LEMMA MirrorOne ==
    ASSUME OneNameEach, TypeOK, RequestMirrored, phase = "request", phase' = "request",
           batch' = batch,
           NEW ref \in request.names, resolveSlot(ref), NEW item,
           items' = [items EXCEPT ![SlotOf(ref)] = item],
           request' = [request EXCEPT !.changes = Put(request.changes, ref, item)]
    PROVE  RequestMirrored'
<1> DEFINE old == request.changes
           new == Put(old, ref, item)
<1>1. /\ DOMAIN new = {ref} \cup DOMAIN old
      /\ \A x \in DOMAIN new : new[x] = IF x = ref THEN item ELSE old[x]
  BY DEF Put
<1>2. /\ request'.names = request.names /\ request'.items = request.items
      /\ request'.changes = new
  BY DEF TypeOK
<1>3. /\ SlotOf(ref) \in Slots
      /\ \A x \in DOMAIN old : resolveSlot(x) /\ SlotOf(x) \in Slots /\ x \in request.names
  BY SlotOfRef DEF TypeOK, RequestMirrored
<1>4. \A s \in Slots : items'[s] = IF s = SlotOf(ref) THEN item ELSE items[s]
  BY <1>3 DEF TypeOK
<1>5. \A x \in DOMAIN new : SlotOf(x) = SlotOf(ref) => x = ref
  BY <1>1, <1>3 DEF OneNameEach, RequestMirrored
<1>6. \A s \in Slots : s \notin Touched(new) => s \notin Touched(old) /\ s # SlotOf(ref)
  BY <1>1 DEF Touched
<1> HIDE DEF new
<1>7. \A x \in DOMAIN new : items'[SlotOf(x)] = new[x]
  BY <1>1, <1>3, <1>4, <1>5 DEF RequestMirrored, Mirrored
<1>8. Mirrored(items', new, request.items)
  BY <1>4, <1>6, <1>7 DEF RequestMirrored, Mirrored
<1> QED
  BY <1>1, <1>2, <1>3, <1>8 DEF RequestMirrored

\* Every stack action writes and records alike.
LEMMA ActionMirrors ==
    ASSUME OneNameEach, TypeOK, RequestMirrored, applyStackRequestAction
    PROVE  RequestMirrored'
<1>1. phase = "request" /\ phase' = "request" /\ batch' = batch
  BY DEF applyStackRequestAction
<1>2. ASSUME NEW info \in SlotInfo(request.names), verifyStackRequestSlot(info)
      PROVE  info.ref \in request.names /\ resolveSlot(info.ref) /\ SlotOf(info.ref) \in Slots
  BY <1>2, NamedSlot DEF SlotInfo
<1>3. ASSUME NEW source \in SlotInfo(request.names), NEW destination \in SlotInfo(request.names),
             NEW count \in 0..MaxStackCount, transferStack(source, destination, count)
      PROVE  RequestMirrored'
  <2>1. /\ verifyStackRequestSlot(source) /\ verifyStackRequestSlot(destination)
        /\ source.ref # destination.ref
        /\ \E item1, item2 : setRequestSlots(source.ref, item1, destination.ref, item2)
    BY <1>3 DEF transferStack
  <2> QED
    BY <2>1, <1>1, <1>2, MirrorTwo
<1>4. ASSUME NEW source \in SlotInfo(request.names), NEW destination \in SlotInfo(request.names),
             swapStacks(source, destination)
      PROVE  RequestMirrored'
  <2>1. /\ verifyStackRequestSlot(source) /\ verifyStackRequestSlot(destination)
        /\ source.ref # destination.ref
        /\ \E item1, item2 : setRequestSlots(source.ref, item1, destination.ref, item2)
    BY <1>4 DEF swapStacks
  <2> QED
    BY <2>1, <1>1, <1>2, MirrorTwo
<1>5. ASSUME NEW source \in SlotInfo(request.names), NEW count \in 0..MaxStackCount,
             removeFromStack(source, count)
      PROVE  RequestMirrored'
  <2>1. /\ verifyStackRequestSlot(source)
        /\ setRequestSlot(source.ref, Less(items[SlotOf(source.ref)], count))
    BY <1>5 DEF removeFromStack
  <2> QED
    BY <2>1, <1>1, <1>2, MirrorOne DEF setRequestSlot
<1>6. ASSUME NEW source \in SlotInfo(request.names), ackMineBlockStack(source)
      PROVE  RequestMirrored'
  <2>1. /\ verifyStackRequestSlot(source)
        /\ request' = [request EXCEPT !.changes =
                          Put(request.changes, source.ref, items[SlotOf(source.ref)])]
        /\ items' = items
    BY <1>6 DEF ackMineBlockStack
  <2>2. items' = [items EXCEPT ![SlotOf(source.ref)] = items[SlotOf(source.ref)]]
    BY <2>1, <1>2 DEF TypeOK
  <2> QED
    BY <2>1, <2>2, <1>1, <1>2, MirrorOne
<1> QED
  BY <1>3, <1>4, <1>5, <1>6 DEF applyStackRequestAction, dropStack, destroyStack

\* The answer to a request that is accepted describes the slots as they are.
LEMMA AnswerTells ==
    ASSUME TypeOK, ViewInv, phase = "request"
    PROVE  Tells(ViewAfter(batch.view, request.changes), items)
<1> SUFFICES ASSUME NEW s \in Slots
             PROVE  ViewAfter(batch.view, request.changes)[s] = Shown(items[s])
  BY DEF Tells
<1>1. Mirrored(items, request.changes, request.items) /\ Tells(batch.view, request.items)
  BY DEF ViewInv, RequestMirrored
<1>2. CASE s \in Touched(request.changes)
  <2> DEFINE last == LastName(request.changes, s)
  <2>1. last \in DOMAIN request.changes /\ SlotOf(last) = s
    BY <1>2, LastNameExists DEF NamesOf
  <2>2. items[s] = request.changes[last]
    BY <2>1, <1>1 DEF Mirrored
  <2> QED
    BY <1>2, <2>2 DEF ViewAfter
<1>3. CASE s \notin Touched(request.changes)
  BY <1>1, <1>3 DEF Mirrored, Tells, ViewAfter
<1> QED
  BY <1>2, <1>3

LEMMA ViewInductive ==
    ASSUME OneNameEach, TypeOK, ViewInv, [Next]_vars
    PROVE  ViewInv'
<1> USE DEF inventory
<1>0. CursorSlot \in Slots
  BY InventoryAssumption DEF CursorSlot, OffhandSlot, Slots
<1>1. CASE UNCHANGED vars
  BY <1>1 DEF vars, ViewInv, Tells, RequestMirrored, Mirrored, Touched
<1>2. ASSUME NEW s \in Slots, NEW t \in ItemTypes, NEW n \in 1..MaxStackCount,
             NEW id \in {0, nextStackID + 1}, setItem(s, t, n, id)
      PROVE  ViewInv'
  <2>1. s # CursorSlot /\ phase = "setup" /\ phase' = "setup" /\ view' = view
    BY <1>2, InventoryAssumption DEF setItem, CursorSlot
  <2>2. items'[CursorSlot] = items[CursorSlot]
    BY <1>0, <1>2, <2>1 DEF setItem, TypeOK
  <2> QED
    BY <2>1, <2>2 DEF ViewInv, RequestMirrored
<1>3. CASE sendInitialInventory
  <2>1. view[CursorSlot] = Shown(items[CursorSlot])
    BY <1>0, <1>3 DEF sendInitialInventory, ViewInv, Tells
  <2> QED
    BY <1>0, <1>3, <2>1 DEF sendInitialInventory, ViewInv, Tells, RequestMirrored
<1>4. ASSUME NEW slot \in 0..(HotbarSlots - 1), NEW claimsActual \in BOOLEAN,
             handleMobEquipment(slot, claimsActual)
      PROVE  ViewInv'
  <2>1. phase = "idle" /\ phase' = "idle" /\ items' = items /\ Tells(view, items)
    BY <1>4 DEF handleMobEquipment, ViewInv
  <2>2. Tells(view', items)
    BY <1>4, <2>1 DEF handleMobEquipment, Tells, TypeOK
  <2> QED
    BY <2>1, <2>2 DEF ViewInv, Tells, RequestMirrored
<1>5. ASSUME NEW id \in RequestIDs, NEW names \in Namespaces,
             beginBatch(id, names) \/ continueBatch(id, names)
      PROVE  ViewInv'
  <2>1. /\ phase' = "request" /\ items' = items
        /\ request' = [id |-> id, names |-> names, items |-> items, next |-> nextStackID,
                       changes |-> << >>]
    BY <1>5 DEF beginBatch, continueBatch, beginRequest
  <2>2. /\ request'.names = names /\ request'.items = items /\ DOMAIN request'.changes = {}
    BY <2>1
  <2>3. Tells(batch'.view, items)
    BY <1>5 DEF beginBatch, continueBatch, ViewInv
  <2> QED
    BY <2>1, <2>2, <2>3 DEF ViewInv, Tells, RequestMirrored, Mirrored
<1>6. CASE applyStackRequestAction
  <2>1. phase' = "request" /\ RequestMirrored'
    BY <1>6, ActionMirrors DEF ViewInv, applyStackRequestAction
  <2> QED
    BY <2>1 DEF ViewInv
<1>7. CASE rejectRequest
  <2>1. /\ phase = "request" /\ phase' = "batch" /\ items' = request.items
        /\ batch'.view = batch.view
    BY <1>7 DEF rejectRequest, TypeOK
  <2> QED
    BY <2>1 DEF ViewInv, RequestMirrored, Tells
<1>8. CASE acceptRequest
  <2>1. /\ phase = "request" /\ phase' = "batch" /\ items' = items
        /\ batch'.view = ViewAfter(batch.view, request.changes)
    BY <1>8 DEF acceptRequest, TypeOK
  <2>2. Tells(batch'.view, items')
    BY <2>1, AnswerTells
  <2> QED
    BY <2>1, <2>2 DEF ViewInv, RequestMirrored
<1>9. CASE finishBatch
  <2>1. /\ phase = "batch" /\ phase' = "idle" /\ items' = items /\ Tells(batch.view, items)
    BY <1>9 DEF finishBatch, ViewInv
  <2>2. Tells(view', items)
    BY <1>9, <2>1 DEF finishBatch, Tells
  <2> QED
    BY <2>1, <2>2 DEF ViewInv, RequestMirrored, Tells
<1> QED
  BY <1>1, <1>2, <1>3, <1>4, <1>5, <1>6, <1>7, <1>8, <1>9 DEF Next

\* When each request uses one name per slot, the packets written so far tell
\* the client between batches exactly what every slot holds: accepted and
\* rejected requests may mix, and the cursor is accurate although neither
\* sendInitialInventory nor resyncInventory writes it (ItemStackResponse,
\* stackResponseContainerInfo).
THEOREM ViewIsAccurate ==
    ASSUME OneNameEach
    PROVE  Spec => []ClientViewAccurate
<1>1. Init => ViewInv
  <2>1. CursorSlot \in Slots
    BY InventoryAssumption DEF CursorSlot, OffhandSlot, Slots
  <2> QED
    BY <2>1 DEF Init, ViewInv, RequestMirrored
<1>2. ViewInv => ClientViewAccurate
  BY DEF ViewInv, Tells, ClientViewAccurate
<1> QED
  BY <1>1, <1>2, TypeCorrect, ViewInductive, PTL DEF Spec

-----------------------------------------------------------------------------
(* Items.  NoItemsCreated is not inductive: a rejected request puts its        *)
(* snapshot back.  A transfer between two names of one slot would count the    *)
(* items twice, so a request has to use one name per slot here too.            *)

Counts(content, t) == [s \in Slots |-> CountOf(content[s], t)]
TotalOf(content, t) == SumOf(Counts(content, t))

ItemInv ==
    \A t \in ItemTypes :
        /\ TotalOf(items, t) <= supply[t]
        /\ phase = "request" => TotalOf(request.items, t) <= supply[t]

LEMMA SlotsFinite == IsFiniteSet(Slots)
  BY FS_Interval, InventoryAssumption DEF Slots, OffhandSlot

LEMMA CountsType ==
    ASSUME NEW content \in [Slots -> Item], NEW t \in ItemTypes
    PROVE  Counts(content, t) \in [Slots -> Int]
  BY DEF Counts, CountOf, Item

\* A slot with another item: the total changes by the difference.
LEMMA TotalAfterOne ==
    ASSUME NEW old \in [Slots -> Item], NEW new \in [Slots -> Item], NEW x \in Slots,
           \A s \in Slots : s # x => new[s] = old[s], NEW t \in ItemTypes
    PROVE  /\ TotalOf(old, t) \in Int /\ TotalOf(new, t) \in Int
           /\ TotalOf(new, t) = TotalOf(old, t) + CountOf(new[x], t) - CountOf(old[x], t)
<1>1. Counts(old, t) \in [Slots -> Int] /\ Counts(new, t) \in [Slots -> Int]
  BY CountsType
<1>2. \A s \in Slots : s # x => Counts(new, t)[s] = Counts(old, t)[s]
  BY DEF Counts
<1>3. /\ TotalOf(old, t) \in Int
      /\ TotalOf(new, t) = TotalOf(old, t) + Counts(new, t)[x] - Counts(old, t)[x]
  BY <1>1, <1>2, SlotsFinite, SumChanges DEF TotalOf
<1>4. Counts(new, t)[x] = CountOf(new[x], t) /\ Counts(old, t)[x] = CountOf(old[x], t)
  BY DEF Counts
<1>5. CountOf(new[x], t) \in Int /\ CountOf(old[x], t) \in Int
  BY DEF CountOf, Item
<1> QED
  BY <1>3, <1>4, <1>5

LEMMA TotalAfterTwo ==
    ASSUME NEW old \in [Slots -> Item], NEW new \in [Slots -> Item],
           NEW x \in Slots, NEW y \in Slots, x # y,
           \A s \in Slots : s # x /\ s # y => new[s] = old[s], NEW t \in ItemTypes,
           CountOf(new[x], t) + CountOf(new[y], t) <= CountOf(old[x], t) + CountOf(old[y], t)
    PROVE  TotalOf(old, t) \in Int /\ TotalOf(new, t) \in Int /\ TotalOf(new, t) <= TotalOf(old, t)
<1> DEFINE mid == [old EXCEPT ![x] = new[x]]
<1>1. /\ mid \in [Slots -> Item] /\ mid[x] = new[x] /\ mid[y] = old[y]
      /\ \A s \in Slots : s # x => mid[s] = old[s]
      /\ \A s \in Slots : s # y => new[s] = mid[s]
  OBVIOUS
<1> HIDE DEF mid
<1>2. /\ TotalOf(old, t) \in Int /\ TotalOf(mid, t) \in Int
      /\ TotalOf(mid, t) = TotalOf(old, t) + CountOf(new[x], t) - CountOf(old[x], t)
  BY <1>1, TotalAfterOne
<1>3. /\ TotalOf(new, t) \in Int
      /\ TotalOf(new, t) = TotalOf(mid, t) + CountOf(new[y], t) - CountOf(old[y], t)
  BY <1>1, TotalAfterOne
<1>4. \A s \in Slots : CountOf(new[s], t) \in Int /\ CountOf(old[s], t) \in Int
  BY DEF CountOf, Item
<1> QED
  BY <1>2, <1>3, <1>4

\* Every stack action leaves at most the items there were.
StackKeepsItems == \A t \in ItemTypes :
    TotalOf(items, t) \in Int /\ TotalOf(items', t) \in Int /\ TotalOf(items', t) <= TotalOf(items, t)

\* An empty slot counts for nothing, and taking n items away leaves n fewer.
LEMMA CountOfEmpty ==
    ASSUME NEW item \in Item, itemIsEmpty(item), NEW t \in ItemTypes
    PROVE  CountOf(item, t) = 0
  BY InventoryAssumption DEF itemIsEmpty, CountOf, Item

LEMMA CountOfLess ==
    ASSUME NEW item \in Item, NEW n \in 1..MaxStackCount, item.count >= n, NEW t \in ItemTypes
    PROVE  CountOf(Less(item, n), t) = CountOf(item, t) - (IF item.type = t THEN n ELSE 0)
  BY InventoryAssumption DEF Less, Empty, CountOf, Item

LEMMA TransferKeepsItems ==
    ASSUME OneNameEach, TypeOK, request.names \in Namespaces,
           NEW source \in SlotInfo(request.names), NEW destination \in SlotInfo(request.names),
           NEW count \in 0..MaxStackCount, transferStack(source, destination, count)
    PROVE  StackKeepsItems
<1> DEFINE f == SlotOf(source.ref)
           d == SlotOf(destination.ref)
           from == items[f]
           to == items[d]
           rest == Less(from, count)
<1>1. /\ source.ref \in Refs /\ resolveSlot(source.ref) /\ f \in Slots /\ from \in Item
      /\ destination.ref \in Refs /\ resolveSlot(destination.ref) /\ d \in Slots /\ to \in Item
  BY NamedSlot DEF transferStack
<1>2. count \in 1..MaxStackCount /\ ~itemIsEmpty(from) /\ from.count >= count
  BY InventoryAssumption DEF transferStack
<1>3. rest \in Item
  BY <1>1, <1>2, LessItem
<1>4. f # d
  BY <1>1 DEF transferStack, OneNameEach, SlotInfo
<1>5. PICK put \in Item :
         /\ setRequestSlots(source.ref, rest, destination.ref, put)
         /\ \A t \in ItemTypes :
               CountOf(put, t) <= CountOf(to, t) + (IF from.type = t THEN count ELSE 0)
  <2>1. CASE itemIsEmpty(to)
    <3> DEFINE moved == [from EXCEPT !.count = count,
                                     !.id = IF count # from.count THEN nextStackID ELSE @]
    <3>1. moved \in Item /\ moved.count = count /\ moved.type = from.type
      BY <1>1, <1>2 DEF Item, TypeOK
    <3>2. setRequestSlots(source.ref, rest, destination.ref, moved)
      BY <2>1 DEF transferStack
    <3> HIDE DEF moved
    <3>3. ASSUME NEW t \in ItemTypes
          PROVE  CountOf(moved, t) <= CountOf(to, t) + (IF from.type = t THEN count ELSE 0)
      <4>1. CountOf(to, t) = 0
        BY <1>1, <2>1, CountOfEmpty
      <4> QED
        BY <4>1, <3>1 DEF CountOf
    <3> QED
      BY <3>1, <3>2, <3>3
  <2>2. CASE ~itemIsEmpty(to)
    <3> DEFINE merged == [to EXCEPT !.count = @ + count]
    <3>1. to.type = from.type /\ to.count + count <= MaxStackCount
      BY <2>2 DEF transferStack, canMerge
    <3>2. merged \in Item /\ merged.count = to.count + count /\ merged.type = from.type
      BY <1>1, <1>2, <3>1, InventoryAssumption DEF Item
    <3>3. setRequestSlots(source.ref, rest, destination.ref, merged)
      BY <2>2 DEF transferStack
    <3> HIDE DEF merged
    <3>4. ASSUME NEW t \in ItemTypes
          PROVE  CountOf(merged, t) <= CountOf(to, t) + (IF from.type = t THEN count ELSE 0)
      BY <1>1, <3>1, <3>2 DEF CountOf, Item
    <3> QED
      BY <3>2, <3>3, <3>4
  <2> QED
    BY <2>1, <2>2
<1>6. /\ items' \in [Slots -> Item]
      /\ \A s \in Slots : items'[s] = IF s = d THEN put ELSE IF s = f THEN rest ELSE items[s]
  BY <1>1, <1>3, <1>5, SetTwo
<1>7. ASSUME NEW t \in ItemTypes
      PROVE  CountOf(items'[f], t) + CountOf(items'[d], t)
                <= CountOf(items[f], t) + CountOf(items[d], t)
  <2>1. CountOf(rest, t) = CountOf(from, t) - (IF from.type = t THEN count ELSE 0)
    BY <1>1, <1>2, CountOfLess
  <2>2. items'[f] = rest /\ items'[d] = put
    BY <1>1, <1>4, <1>6
  <2>3. CountOf(from, t) \in Int /\ CountOf(to, t) \in Int /\ CountOf(put, t) \in Int
    BY <1>1, <1>5 DEF CountOf, Item
  <2>4. CountOf(put, t) <= CountOf(to, t) + (IF from.type = t THEN count ELSE 0)
    BY <1>5
  <2> HIDE DEF f, d, from, to, rest
  <2>5. CountOf(rest, t) + CountOf(put, t) <= CountOf(from, t) + CountOf(to, t)
    BY <1>2, <2>1, <2>3, <2>4
  <2> QED
    BY <2>2, <2>5 DEF from, to
<1>8. items \in [Slots -> Item] /\ \A s \in Slots : s # f /\ s # d => items'[s] = items[s]
  BY <1>6 DEF TypeOK
<1> HIDE DEF f, d, from, to, rest
<1> QED
  BY <1>1, <1>4, <1>6, <1>7, <1>8, TotalAfterTwo DEF StackKeepsItems

LEMMA SwapKeepsItems ==
    ASSUME OneNameEach, TypeOK, request.names \in Namespaces,
           NEW source \in SlotInfo(request.names), NEW destination \in SlotInfo(request.names),
           swapStacks(source, destination)
    PROVE  StackKeepsItems
<1> DEFINE f == SlotOf(source.ref)
           d == SlotOf(destination.ref)
<1>1. /\ source.ref \in Refs /\ resolveSlot(source.ref) /\ f \in Slots /\ items[f] \in Item
      /\ destination.ref \in Refs /\ resolveSlot(destination.ref) /\ d \in Slots /\ items[d] \in Item
  BY NamedSlot DEF swapStacks
<1>2. f # d
  BY <1>1 DEF swapStacks, OneNameEach, SlotInfo
<1>3. /\ items' \in [Slots -> Item]
      /\ \A s \in Slots : items'[s] = IF s = d THEN items[f] ELSE IF s = f THEN items[d] ELSE items[s]
  BY <1>1, SetTwo DEF swapStacks
<1>4. items \in [Slots -> Item]
  BY DEF TypeOK
<1> HIDE DEF f, d
<1>5. ASSUME NEW t \in ItemTypes
      PROVE  CountOf(items'[f], t) + CountOf(items'[d], t)
                <= CountOf(items[f], t) + CountOf(items[d], t)
  <2>1. CountOf(items[f], t) \in Int /\ CountOf(items[d], t) \in Int
    BY <1>1 DEF CountOf, Item
  <2> QED
    BY <2>1, <1>1, <1>2, <1>3
<1> QED
  BY <1>1, <1>2, <1>3, <1>4, <1>5, TotalAfterTwo DEF StackKeepsItems

LEMMA RemoveKeepsItems ==
    ASSUME TypeOK, NEW source \in SlotInfo(request.names), NEW count \in 0..MaxStackCount,
           removeFromStack(source, count)
    PROVE  StackKeepsItems
<1> DEFINE f == SlotOf(source.ref)
           from == items[f]
<1>1. source.ref \in Refs /\ resolveSlot(source.ref) /\ f \in Slots /\ from \in Item
  BY NamedSlot DEF removeFromStack
<1>2. count \in 1..MaxStackCount /\ from.count >= count
  BY InventoryAssumption DEF removeFromStack
<1>3. Less(from, count) \in Item
  BY <1>1, <1>2, LessItem
<1>4. /\ items' \in [Slots -> Item]
      /\ \A s \in Slots : items'[s] = IF s = f THEN Less(from, count) ELSE items[s]
  BY <1>1, <1>3, SetOne DEF removeFromStack
<1>5. items \in [Slots -> Item]
  BY DEF TypeOK
<1> SUFFICES ASSUME NEW t \in ItemTypes
             PROVE  /\ TotalOf(items, t) \in Int /\ TotalOf(items', t) \in Int
                    /\ TotalOf(items', t) <= TotalOf(items, t)
  BY DEF StackKeepsItems
<1>6. /\ TotalOf(items, t) \in Int /\ TotalOf(items', t) \in Int
      /\ TotalOf(items', t) = TotalOf(items, t) + CountOf(items'[f], t) - CountOf(items[f], t)
  BY <1>1, <1>4, <1>5, TotalAfterOne
<1>7. CountOf(items'[f], t) <= CountOf(items[f], t)
  <2>1. CountOf(Less(from, count), t) = CountOf(from, t) - (IF from.type = t THEN count ELSE 0)
    BY <1>1, <1>2, CountOfLess
  <2>2. CountOf(from, t) \in Int
    BY <1>1 DEF CountOf, Item
  <2> QED
    BY <2>1, <2>2, <1>1, <1>2, <1>4
<1>8. CountOf(items'[f], t) \in Int /\ CountOf(items[f], t) \in Int
  BY <1>1, <1>4 DEF CountOf, Item
<1> QED
  BY <1>6, <1>7, <1>8

LEMMA ActionKeepsItems ==
    ASSUME OneNameEach, TypeOK, RequestMirrored, applyStackRequestAction
    PROVE  StackKeepsItems
<1>1. request.names \in Namespaces
  BY DEF RequestMirrored, applyStackRequestAction
<1>2. ASSUME NEW source \in SlotInfo(request.names), ackMineBlockStack(source)
      PROVE  StackKeepsItems
  <2>1. items' = items /\ items \in [Slots -> Item] /\ CursorSlot \in Slots
    BY <1>2, InventoryAssumption DEF ackMineBlockStack, TypeOK, CursorSlot, OffhandSlot, Slots
  <2>2. \A t \in ItemTypes : TotalOf(items, t) \in Int
    BY <2>1, TotalAfterOne
  <2> QED
    BY <2>1, <2>2 DEF StackKeepsItems
<1> QED
  BY <1>1, <1>2, TransferKeepsItems, SwapKeepsItems, RemoveKeepsItems
  DEF applyStackRequestAction, dropStack, destroyStack

LEMMA ItemsInductive ==
    ASSUME OneNameEach, TypeOK, RequestMirrored, ItemInv, [Next]_vars
    PROVE  ItemInv'
<1> SUFFICES ASSUME NEW t \in ItemTypes
             PROVE  /\ TotalOf(items', t) <= supply'[t]
                    /\ phase' = "request" => TotalOf(request'.items, t) <= supply'[t]
  BY DEF ItemInv
<1>1. TotalOf(items, t) <= supply[t] /\ (phase = "request" => TotalOf(request.items, t) <= supply[t])
  BY DEF ItemInv
<1>2. supply[t] \in Int
  BY DEF TypeOK
<1>3. ASSUME NEW s \in Slots, NEW type \in ItemTypes, NEW n \in 1..MaxStackCount,
             NEW id \in {0, nextStackID + 1}, setItem(s, type, n, id)
      PROVE  TotalOf(items', t) <= supply'[t]
  <2> DEFINE given == IF id = 0 THEN nextStackID ELSE id
  <2>1. given \in Nat /\ items' = [items EXCEPT ![s] = [type |-> type, count |-> n, id |-> given]]
    BY <1>3 DEF setItem, TypeOK
  <2> HIDE DEF given
  <2>2. /\ items \in [Slots -> Item] /\ items' \in [Slots -> Item]
        /\ \A x \in Slots : x # s => items'[x] = items[x]
    BY <2>1, InventoryAssumption DEF TypeOK, Item
  <2>3. /\ TotalOf(items, t) \in Int /\ TotalOf(items', t) \in Int
        /\ TotalOf(items', t) = TotalOf(items, t) + CountOf(items'[s], t) - CountOf(items[s], t)
    BY <2>2, TotalAfterOne
  <2>4. CountOf(items[s], t) = 0
    BY <1>3, <2>2, CountOfEmpty DEF setItem
  <2>5. CountOf(items'[s], t) = IF type = t THEN n ELSE 0
    BY <2>1, <2>2 DEF CountOf
  <2>6. supply'[t] = IF type = t THEN supply[t] + n ELSE supply[t]
    BY <1>3 DEF setItem, TypeOK
  <2> QED
    BY <1>1, <1>2, <2>3, <2>4, <2>5, <2>6
<1>4. CASE applyStackRequestAction
  <2>1. phase = "request" /\ phase' = "request" /\ supply' = supply
    BY <1>4 DEF applyStackRequestAction
  <2>2. request'.items = request.items
    <3>1. \E changes : request' = [request EXCEPT !.changes = changes]
      <4> USE DEF setRequestSlot, setRequestSlots
      <4>1. ASSUME NEW source, NEW destination, NEW count, transferStack(source, destination, count)
            PROVE  \E changes : request' = [request EXCEPT !.changes = changes]
        BY <4>1 DEF transferStack
      <4>2. ASSUME NEW source, NEW destination, swapStacks(source, destination)
            PROVE  \E changes : request' = [request EXCEPT !.changes = changes]
        BY <4>2 DEF swapStacks
      <4>3. ASSUME NEW source, NEW count, removeFromStack(source, count)
            PROVE  \E changes : request' = [request EXCEPT !.changes = changes]
        BY <4>3 DEF removeFromStack
      <4>4. ASSUME NEW source, ackMineBlockStack(source)
            PROVE  \E changes : request' = [request EXCEPT !.changes = changes]
        BY <4>4 DEF ackMineBlockStack
      <4> QED
        BY <1>4, <4>1, <4>2, <4>3, <4>4 DEF applyStackRequestAction, dropStack, destroyStack
    <3> QED
      BY <3>1 DEF TypeOK
  <2>3. /\ TotalOf(items, t) \in Int /\ TotalOf(items', t) \in Int
        /\ TotalOf(items', t) <= TotalOf(items, t)
    BY <1>4, ActionKeepsItems DEF StackKeepsItems
  <2> QED
    BY <1>1, <1>2, <2>1, <2>2, <2>3
<1>5. CASE rejectRequest
  BY <1>1, <1>5 DEF rejectRequest
<1>6. ASSUME NEW id \in RequestIDs, NEW names \in Namespaces,
             beginBatch(id, names) \/ continueBatch(id, names)
      PROVE  /\ TotalOf(items', t) <= supply'[t]
             /\ phase' = "request" => TotalOf(request'.items, t) <= supply'[t]
  BY <1>1, <1>6 DEF beginBatch, continueBatch, beginRequest, inventory
<1>7. CASE \/ sendInitialInventory \/ acceptRequest \/ finishBatch
           \/ \E slot \in 0..(HotbarSlots - 1), claimsActual \in BOOLEAN :
                 handleMobEquipment(slot, claimsActual)
  BY <1>1, <1>7 DEF sendInitialInventory, acceptRequest, finishBatch, handleMobEquipment, inventory
<1>8. CASE UNCHANGED vars
  BY <1>1, <1>8 DEF vars
<1>9. ASSUME NEW s \in Slots, NEW type \in ItemTypes, NEW n \in 1..MaxStackCount,
             NEW id \in {0, nextStackID + 1}, setItem(s, type, n, id)
      PROVE  phase' # "request"
  BY <1>9 DEF setItem
<1> QED
  BY <1>3, <1>4, <1>5, <1>6, <1>7, <1>8, <1>9 DEF Next

\* When each request uses one name per slot, no sequence of takes, places,
\* swaps, drops and rollbacks creates items: of every type there are never
\* more than setItem put in (transferStack, swapStacks, dropStack, destroyStack).
THEOREM ItemsAreConserved ==
    ASSUME OneNameEach
    PROVE  Spec => []NoItemsCreated
<1>1. Init => ViewInv /\ ItemInv
  <2> SUFFICES ASSUME Init PROVE ViewInv /\ ItemInv
    OBVIOUS
  <2>1. CursorSlot \in Slots
    BY InventoryAssumption DEF CursorSlot, OffhandSlot, Slots
  <2>2. ViewInv
    BY <2>1 DEF Init, ViewInv, RequestMirrored
  <2>3. \A t \in ItemTypes : Counts(items, t) \in [Slots -> {0}]
    BY DEF Init, Counts, CountOf, Empty
  <2>4. \A t \in ItemTypes : TotalOf(items, t) = 0
    BY <2>3, SlotsFinite, SumOfZeros DEF TotalOf
  <2> QED
    BY <2>2, <2>4 DEF Init, ItemInv
<1>2. TypeOK /\ ViewInv /\ ItemInv /\ [Next]_vars => (ViewInv /\ ItemInv)'
  BY ViewInductive, ItemsInductive DEF ViewInv
<1>3. ItemInv => NoItemsCreated
  BY DEF ItemInv, NoItemsCreated, Total, TotalOf, Counts, SumOf
<1> QED
  BY <1>1, <1>2, <1>3, TypeCorrect, PTL DEF Spec
=============================================================================
