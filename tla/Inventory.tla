------------------------------ MODULE Inventory ------------------------------
(***************************************************************************)
(* The server-authoritative inventory of one player                        *)
(* (internal/server/mcpe_inventory.go): the item slots, the stack network  *)
(* IDs, and the ItemStackRequest transactions that the client drives.      *)
(*                                                                         *)
(* One ItemStackRequest packet carries a batch of requests and each request*)
(* a list of stack actions.  The handler applies the actions one after the *)
(* other in place; the first action that fails restores the snapshot taken *)
(* at the start of its request.  The answer, the held-item broadcast and   *)
(* the resync leave only when the whole batch is done.  The steps of a     *)
(* batch are separate steps here: peers read the held item of a spawning   *)
(* player without any lock, so the intermediate states are observable.     *)
(***************************************************************************)
EXTENDS Integers, FiniteSets, Functions

CONSTANTS
    MainSlots,      \* mcpeInventorySlots: number of main inventory slots
    HotbarSlots,    \* mcpeHotbarSlots: the first main slots, which can be held
    MaxStackCount,  \* mcpeMaxStackCount
    ItemTypes,      \* what sameStackType tells apart (ID, meta, NBT, lore)
    NoItem,         \* the item type of an empty slot
    Creative,       \* whether the game mode allows destroying items
    RequestIDs,     \* request IDs the client uses
    ResponseCap,    \* remembered responses before the table is cleared (256)
    Namespaces,     \* the sets of slot names one request may draw from
    MaxStackID      \* bound of the model: no stack ID above it is handed out

\* Names of slots on the wire.
Refs == UNION Namespaces

ASSUME InventoryAssumption ==
    /\ MainSlots \in Nat \ {0}
    /\ HotbarSlots \in 1..MainSlots
    /\ MaxStackCount \in Nat \ {0}
    /\ NoItem \notin ItemTypes
    /\ Creative \in BOOLEAN
    /\ RequestIDs \subseteq Int
    /\ ResponseCap \in Nat
    /\ MaxStackID \in Nat \ {0}
    /\ \A r \in Refs : r \in [container : STRING, slot : Nat]

\* Assigning to a key of a Go map.
Put(map, key, value) == [x \in DOMAIN map \cup {key} |-> IF x = key THEN value ELSE map[x]]

\* Where items really are: the main slots, the cursor and the off hand.
CursorSlot == MainSlots
OffhandSlot == MainSlots + 1
Slots == 0..OffhandSlot

Item == [type : ItemTypes \cup {NoItem}, count : 0..MaxStackCount, id : Nat]
Empty == [type |-> NoItem, count |-> 0, id |-> 0]
itemIsEmpty(item) == item.type = NoItem \/ item.count = 0
itemStackNetworkID(item) == IF itemIsEmpty(item) THEN 0 ELSE item.id

\* What a response or content packet tells the client about a slot.
Entry == [count : 0..MaxStackCount, id : Nat]
Shown(item) == [count |-> item.count, id |-> itemStackNetworkID(item)]

\* The slot names that resolveSlot accepts, and the slot each one names.
resolveSlot(ref) ==
    \/ ref.container \in {"inventory", "combined"} /\ ref.slot < MainSlots
    \/ ref.container = "hotbar" /\ ref.slot < HotbarSlots
    \/ ref.container \in {"cursor", "offhand"} /\ ref.slot = 0

SlotOf(ref) ==
    CASE ref.container = "cursor"  -> CursorSlot
      [] ref.container = "offhand" -> OffhandSlot
      [] OTHER                     -> ref.slot

VARIABLES
    items,             \* the content of every slot
    nextStackID,       \* the next stack network ID to hand out
    selectedHotbar,    \* the held hotbar slot
    responseStackIDs,  \* request ID |-> (slot |-> ID that slot was answered with)
    phase,             \* "setup", "idle", "request" (open) or "batch" (between two)
    request,           \* the open request: its ID, names, snapshot and changes
    batch,             \* the batch: client view after its answers, flags
    view,              \* what the packets written so far tell the client
    heldShown,         \* the held item last written to the spawned peers
    supply             \* history: how many items of each type were ever put in

inventory == <<items, nextStackID, selectedHotbar>>
vars == <<items, nextStackID, selectedHotbar, responseStackIDs, phase, request,
          batch, view, heldShown, supply>>

heldItem == items[selectedHotbar]

NoRequest == [id |-> 0, names |-> {}, items |-> [s \in Slots |-> Empty], next |-> 1,
              changes |-> << >>]
NoBatch == [view |-> [s \in Slots |-> Shown(Empty)], held |-> Empty, rejected |-> FALSE]

Init ==
    /\ items = [s \in Slots |-> Empty]
    /\ nextStackID = 1
    /\ selectedHotbar = 0
    /\ responseStackIDs = << >>
    /\ phase = "setup"
    /\ request = NoRequest
    /\ batch = NoBatch
    /\ view = [s \in Slots |-> Shown(Empty)]
    /\ heldShown = Empty
    /\ supply = [t \in ItemTypes |-> 0]

-----------------------------------------------------------------------------
(* Filling and announcing the inventory *)

\* setItem with normaliseItem: an item without an ID gets a fresh one, an item
\* with an ID of its own pushes nextStackID beyond it.  The caller brings an ID
\* no other stack has, and fills the main slots before the first announcement.
setItem(s, type, count, id) ==
    /\ phase = "setup"
    /\ s \in 0..(MainSlots - 1)
    /\ itemIsEmpty(items[s])
    /\ id = 0 \/ id \notin {items[x].id : x \in Slots}
    /\ nextStackID < MaxStackID
    /\ LET given == IF id = 0 THEN nextStackID ELSE id
       IN  /\ items' = [items EXCEPT ![s] = [type |-> type, count |-> count, id |-> given]]
           /\ nextStackID' = IF given >= nextStackID THEN given + 1 ELSE nextStackID
    /\ supply' = [supply EXCEPT ![type] = @ + count]
    /\ UNCHANGED <<selectedHotbar, responseStackIDs, phase, request, batch, view, heldShown>>

\* sendInitialInventory writes the main slots and the off hand, never the
\* cursor; AddPlayer then carries the held item to the peers.  A client that
\* asks for the chunk radius again gets the contents again.
sendInitialInventory ==
    /\ phase \in {"setup", "idle"}
    /\ phase' = "idle"
    /\ view' = [s \in Slots |-> IF s = CursorSlot THEN view[s] ELSE Shown(items[s])]
    /\ heldShown' = IF phase = "setup" THEN heldItem ELSE heldShown
    /\ UNCHANGED <<inventory, responseStackIDs, request, batch, supply>>

\* handleMobEquipment for the inventory window with HotBarSlot = InventorySlot:
\* the slot is written again when the client claims another item than the
\* server has.  All other packets of this kind leave the inventory alone.
handleMobEquipment(slot, claimsActual) ==
    /\ phase = "idle"
    /\ selectedHotbar' = slot
    /\ view' = IF claimsActual THEN view ELSE [view EXCEPT ![slot] = Shown(items[slot])]
    /\ heldShown' = items[slot]
    /\ UNCHANGED <<items, nextStackID, responseStackIDs, phase, request, batch, supply>>

-----------------------------------------------------------------------------
(* Stack actions *)

\* A slot named in a request comes with the ID the client believes is there; a
\* negative ID stands for whatever an earlier request was answered with.
ClaimedIDs == 0..MaxStackID \cup {id \in RequestIDs \cup {-r : r \in RequestIDs} : id < 0}
SlotInfo(names) == [ref : names, id : ClaimedIDs]

\* resolveStackNetworkID.  Responses are remembered under a slot name and all
\* its aliases, and looked up under all of them, so per slot.
resolvesTo(claimed, s, actual) ==
    IF claimed >= 0
    THEN claimed = actual
    ELSE /\ claimed \in DOMAIN responseStackIDs
         /\ s \in DOMAIN responseStackIDs[claimed]
         /\ responseStackIDs[claimed][s] = actual

verifyStackRequestSlot(info) ==
    /\ resolveSlot(info.ref)
    /\ LET s == SlotOf(info.ref)
       IN  resolvesTo(info.id, s, itemStackNetworkID(items[s]))

\* setRequestSlot writes the slot and reads it back into the changes.
setRequestSlot(ref, item) ==
    /\ items' = [items EXCEPT ![SlotOf(ref)] = item]
    /\ request' = [request EXCEPT !.changes = Put(@, ref, item)]

\* Mutant: only the second slot is reported to the client.
setRequestSlotsRecordsOne(ref1, item1, ref2, item2) ==
    /\ items' = [items EXCEPT ![SlotOf(ref1)] = item1, ![SlotOf(ref2)] = item2]
    /\ request' = [request EXCEPT !.changes = Put(@, ref2, item2)]

\* Two calls of setRequestSlot, one after the other.
setRequestSlots(ref1, item1, ref2, item2) ==
    /\ items' = [items EXCEPT ![SlotOf(ref1)] = item1, ![SlotOf(ref2)] = item2]
    /\ request' = [request EXCEPT !.changes = Put(Put(@, ref1, item1), ref2, item2)]

\* Mutant: a part of a stack is taken and the stack is left as it was.
LessForgetsPart(item, n) == IF item.count = n THEN Empty ELSE item

Less(item, n) == IF item.count = n THEN Empty ELSE [item EXCEPT !.count = @ - n]

\* Mutant: a merge that ignores mcpeMaxStackCount.
canMergeAnyCount(from, to, count) == to.type = from.type

canMerge(from, to, count) == to.type = from.type /\ to.count + count <= MaxStackCount

\* Take, Place, PlaceInContainer and TakeOutContainer.  The whole stack keeps
\* its ID when it moves to an empty slot, a part of it gets a fresh one; items
\* merged into another stack take that stack's ID.
transferStack(source, destination, count) ==
    LET from  == items[SlotOf(source.ref)]
        to    == items[SlotOf(destination.ref)]
        split == count # from.count
    IN  /\ count > 0
        /\ verifyStackRequestSlot(source)
        /\ verifyStackRequestSlot(destination)
        /\ source.ref # destination.ref
        /\ ~itemIsEmpty(from) /\ from.count >= count
        /\ \/ /\ itemIsEmpty(to)
              /\ split => nextStackID < MaxStackID
              /\ nextStackID' = IF split THEN nextStackID + 1 ELSE nextStackID
              /\ setRequestSlots(source.ref, Less(from, count), destination.ref,
                                 [from EXCEPT !.count = count,
                                              !.id = IF split THEN nextStackID ELSE @])
           \/ /\ ~itemIsEmpty(to)
              /\ canMerge(from, to, count)
              /\ setRequestSlots(source.ref, Less(from, count), destination.ref,
                                 [to EXCEPT !.count = @ + count])
              /\ UNCHANGED nextStackID

swapStacks(source, destination) ==
    /\ verifyStackRequestSlot(source)
    /\ verifyStackRequestSlot(destination)
    /\ source.ref # destination.ref
    /\ setRequestSlots(source.ref, items[SlotOf(destination.ref)],
                       destination.ref, items[SlotOf(source.ref)])
    /\ UNCHANGED nextStackID

\* dropStack, and destroyStack in a game mode that allows it.
removeFromStack(source, count) ==
    LET from == items[SlotOf(source.ref)]
    IN  /\ count > 0
        /\ verifyStackRequestSlot(source)
        /\ ~itemIsEmpty(from) /\ from.count >= count
        /\ setRequestSlot(source.ref, Less(from, count))
        /\ UNCHANGED nextStackID

dropStack(source, count) == removeFromStack(source, count)
destroyStack(source, count) == Creative /\ removeFromStack(source, count)

\* MineBlock names a hotbar slot, through the inventory container.
ackMineBlockStack(source) ==
    /\ source.ref.container = "inventory" /\ source.ref.slot < HotbarSlots
    /\ verifyStackRequestSlot(source)
    /\ request' = [request EXCEPT !.changes = Put(@, source.ref, items[SlotOf(source.ref)])]
    /\ UNCHANGED <<items, nextStackID>>

\* An action that passes every check of its handler.
applyStackRequestAction ==
    /\ phase = "request"
    /\ \E source \in SlotInfo(request.names) :
          \/ \E destination \in SlotInfo(request.names), count \in 0..MaxStackCount :
                transferStack(source, destination, count)
          \/ \E destination \in SlotInfo(request.names) : swapStacks(source, destination)
          \/ \E count \in 0..MaxStackCount : dropStack(source, count)
          \/ \E count \in 0..MaxStackCount : destroyStack(source, count)
          \/ ackMineBlockStack(source)
    /\ UNCHANGED <<selectedHotbar, responseStackIDs, phase, batch, view, heldShown, supply>>

-----------------------------------------------------------------------------
(* Requests and batches *)

\* applyItemStackRequest: the snapshot, then the actions one by one.
beginRequest(id, names) ==
    /\ phase' = "request"
    /\ request' = [id |-> id, names |-> names, items |-> items, next |-> nextStackID,
                   changes |-> << >>]
    /\ UNCHANGED <<inventory, responseStackIDs, view, heldShown, supply>>

beginBatch(id, names) ==
    /\ phase = "idle"
    /\ batch' = [view |-> view, held |-> heldItem, rejected |-> FALSE]
    /\ beginRequest(id, names)

\* Mutant: the held item is read for every request instead of once per batch.
continueBatchReadsHeld(id, names) ==
    /\ phase = "batch"
    /\ batch' = [batch EXCEPT !.held = heldItem]
    /\ beginRequest(id, names)

continueBatch(id, names) ==
    /\ phase = "batch"
    /\ UNCHANGED batch
    /\ beginRequest(id, names)

\* Mutant: nextStackID goes back to the snapshot, the items do not.
rejectRequestKeepsItems ==
    /\ phase = "request"
    /\ nextStackID' = request.next
    /\ phase' = "batch"
    /\ batch' = [batch EXCEPT !.rejected = TRUE]
    /\ request' = NoRequest
    /\ UNCHANGED <<items, selectedHotbar, responseStackIDs, view, heldShown, supply>>

\* An action that fails one of the checks, or one of a kind the server does not
\* support, which a client can always send: the inventory goes back to the
\* snapshot and the response carries only the error status.
rejectRequest ==
    /\ phase = "request"
    /\ items' = request.items
    /\ nextStackID' = request.next
    /\ phase' = "batch"
    /\ batch' = [batch EXCEPT !.rejected = TRUE]
    /\ request' = NoRequest
    /\ UNCHANGED <<selectedHotbar, responseStackIDs, view, heldShown, supply>>

\* The slots that a request touched, and the names it used for one of them.
Touched(changes) == {SlotOf(ref) : ref \in DOMAIN changes}
NamesOf(changes, s) == {ref \in DOMAIN changes : SlotOf(ref) = s}

\* stackResponseContainerInfo lists the containers in the order of their IDs,
\* so the client is left with the last name of a slot in this order.
ContainerRank == [c \in {"combined", "hotbar", "inventory", "offhand", "cursor"} |->
                    CASE c = "combined" -> 12 [] c = "hotbar" -> 28
                      [] c = "inventory" -> 29 [] c = "offhand" -> 34 [] c = "cursor" -> 59]
LastName(changes, s) ==
    CHOOSE ref \in NamesOf(changes, s) :
        \A other \in NamesOf(changes, s) :
            ContainerRank[other.container] <= ContainerRank[ref.container]

ViewAfter(shown, changes) ==
    [s \in Slots |-> IF s \in Touched(changes)
                     THEN Shown(changes[LastName(changes, s)]) ELSE shown[s]]

\* Mutant: the table is never emptied.
rememberEveryResponse(id, changes, name) ==
    LET ids == [s \in Touched(changes) |-> itemStackNetworkID(changes[name[s]])]
    IN  responseStackIDs' = Put(Put(responseStackIDs, id, ids), -id, ids)

\* rememberResponseStackIDs ranges over the changes in Go's random map order,
\* so any name of a slot may be the one whose ID stays; the table is emptied
\* when it holds more than ResponseCap entries, and grows by up to two.
rememberResponseStackIDs(id, changes, name) ==
    LET kept == IF Cardinality(DOMAIN responseStackIDs) > ResponseCap
                THEN << >> ELSE responseStackIDs
        ids  == [s \in Touched(changes) |-> itemStackNetworkID(changes[name[s]])]
    IN  responseStackIDs' =
            IF changes = << >> THEN responseStackIDs
            ELSE Put(Put(kept, id, ids), -id, ids)

acceptRequest ==
    /\ phase = "request"
    /\ \E name \in [Touched(request.changes) -> DOMAIN request.changes] :
        /\ \A s \in DOMAIN name : SlotOf(name[s]) = s
        /\ rememberResponseStackIDs(request.id, request.changes, name)
    /\ batch' = [batch EXCEPT !.view = ViewAfter(@, request.changes)]
    /\ phase' = "batch"
    /\ request' = NoRequest
    /\ UNCHANGED <<inventory, view, heldShown, supply>>

\* The rest of processItemStackRequests: ItemStackResponse to the client, the
\* held item to the peers if it changed, resyncInventory (not the cursor) if a
\* request was rejected.
finishBatch ==
    /\ phase = "batch"
    /\ phase' = "idle"
    /\ view' = IF batch.rejected
               THEN [s \in Slots |-> IF s = CursorSlot THEN batch.view[s] ELSE Shown(items[s])]
               ELSE batch.view
    /\ heldShown' = IF batch.held # heldItem THEN heldItem ELSE heldShown
    /\ batch' = NoBatch
    /\ UNCHANGED <<inventory, responseStackIDs, request, supply>>

Next ==
    \/ \E s \in Slots, t \in ItemTypes, n \in 1..MaxStackCount, id \in {0, nextStackID + 1} :
          setItem(s, t, n, id)
    \/ sendInitialInventory
    \/ \E slot \in 0..(HotbarSlots - 1), claimsActual \in BOOLEAN :
          handleMobEquipment(slot, claimsActual)
    \/ \E id \in RequestIDs, names \in Namespaces : beginBatch(id, names)
    \/ \E id \in RequestIDs, names \in Namespaces : continueBatch(id, names)
    \/ applyStackRequestAction
    \/ rejectRequest
    \/ acceptRequest
    \/ finishBatch

Spec == Init /\ [][Next]_vars

-----------------------------------------------------------------------------
(* Properties *)

\* Every variable has its type; in particular no stack ever exceeds
\* mcpeMaxStackCount.
TypeOK ==
    /\ items \in [Slots -> Item]
    /\ nextStackID \in Nat \ {0}
    /\ selectedHotbar \in 0..(HotbarSlots - 1)
    /\ IsFiniteSet(DOMAIN responseStackIDs)
    /\ \A r \in DOMAIN responseStackIDs :
          /\ DOMAIN responseStackIDs[r] \subseteq Slots
          /\ \A s \in DOMAIN responseStackIDs[r] : responseStackIDs[r][s] \in Nat
    /\ phase \in {"setup", "idle", "request", "batch"}
    /\ request = [id |-> request.id, names |-> request.names, items |-> request.items,
                  next |-> request.next, changes |-> request.changes]
    /\ request.names \subseteq Refs
    /\ request.items \in [Slots -> Item] /\ request.next \in Nat \ {0}
    /\ \A ref \in DOMAIN request.changes :
          ref \in Refs /\ resolveSlot(ref) /\ request.changes[ref] \in Item
    /\ batch \in [view : [Slots -> Entry], held : Item, rejected : BOOLEAN]
    /\ view \in [Slots -> Entry]
    /\ heldShown \in Item
    /\ supply \in [ItemTypes -> Nat]

\* The stack network IDs that nextNetworkStackID hands out and that transfers,
\* splits, merges, swaps and rollbacks carry around name stacks uniquely: no
\* two stacks share an ID, and no stack, snapshot, answer or remembered
\* response has an ID that could still be handed out.
UniqueIDs(content, next) ==
    /\ \A s \in Slots : itemIsEmpty(content[s]) \/ content[s].id \in 1..(next - 1)
    /\ \A s, t \in Slots :
          s # t /\ ~itemIsEmpty(content[s]) /\ ~itemIsEmpty(content[t])
              => content[s].id # content[t].id

StackIDsUnique ==
    /\ UniqueIDs(items, nextStackID)
    /\ \A s \in Slots : view[s].id < nextStackID
    /\ \A r \in DOMAIN responseStackIDs : \A s \in DOMAIN responseStackIDs[r] :
          responseStackIDs[r][s] < nextStackID

CountOf(item, t) == IF item.type = t THEN item.count ELSE 0
Total(t) == FoldFunction(+, 0, [s \in Slots |-> CountOf(items[s], t)])

\* No sequence of stack actions, accepted or rolled back, creates items:
\* there are never more items of a type than setItem put in.
NoItemsCreated == \A t \in ItemTypes : Total(t) <= supply[t]

\* Between batches the packets written so far (ItemStackResponse, the contents
\* written again after a rejection, InventorySlot) tell the client exactly
\* what every slot holds: also when a batch mixes accepted and rejected requests,
\* and for the cursor, which no resync writes.
ClientViewAccurate == phase = "idle" => \A s \in Slots : view[s] = Shown(items[s])

\* Between batches the spawned peers have been told the item the player really
\* holds, whatever a batch did to the held slot and undid again.
HeldItemShown == phase = "idle" => heldShown = heldItem

\* rememberResponseStackIDs keeps the table of remembered responses bounded:
\* it is emptied above ResponseCap and an answer adds two keys at most.
ResponsesBounded == Cardinality(DOMAIN responseStackIDs) <= ResponseCap + 2
=============================================================================
