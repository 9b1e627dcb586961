# TLA+ models of the Bedrock server

This directory holds TLA+ specifications of the server in `src/`, the TLC
configurations that check them on small instances, and TLAPS proofs of the
invariants that matter most for instances of any size. Paths below are relative
to `src/`.

## 1. The system

A Bedrock client talks RakNet; inside it, batches of packets that are first
plain, then compressed, then encrypted. Every connection is served by one
goroutine that reads a batch, dispatches its packets to handlers and writes the
answers. Handlers also write to the connections of *other* players. Beside the
sessions runs one main loop with ticks and submitted tasks.

| Part (source) | State | Operations | Hard behaviour | What makes it correct |
|---|---|---|---|---|
| Player inventory (`internal/server/mcpe_inventory.go`) | slots, `nextStackID`, selected hotbar slot, remembered responses | ItemStackRequest batches of stack actions, MobEquipment, initial inventory | rollback of half-applied requests, several names for a slot, predicted IDs, a table that is emptied at its limit | stack IDs name stacks uniquely, no items appear, the client and the peers see what the slots hold |
| Live player table (`mcpe_player_sync.go`, callers in `mcpe_login_flow.go`, `mcpe_world_sync.go`, `mcpe_session.go`, `server.go`) | `players` under `playersMu`, `nextID`, state and runtime ID of each client, the MOTD count | `addPlayer`, `removePlayer`, PlayerList, AddPlayer, RemoveActor, broadcasts, `playerLeft`, `updateMOTD` | receivers are collected under the lock and written to after it; a failing write breaks off a broadcast | the table is exact, playing players know each other, a leaving one is forgotten and saved once |
| Login and spawn (`mcpe_login_flow.go`, `mcpe_resourcepacks.go`, `mcpe_world_sync.go`, `mcpe_router.go`) | state of the client, stack/chunk flags | one handler per packet | packets in any order, repeated; codec switches in the middle | each switch at the right batch, nothing twice, a client that answers is spawned |
| Wire session and codec (`internal/network/mcpe/session.go`, `codec.go`) | compression flag, keys and counters, `writeMu` | read batch, write batch | peers write at any moment; the settings are switched without the lock | both ends agree on every batch |
| Resource pack queue (`internal/resourcepack/resourcepack.go`) | chosen packs, position, chunk | Begin, chunk requests | restart in the middle, full last chunk | info and chunks in step |
| RakNet adapter (`internal/network/raknet/server.go`) | listener, accept loop, sessions, wait group, closed, done | Listen, accept, serve, Close | accept racing Close, two closers | Close drains, the wait group is exact |
| Server runtime (`internal/server/server.go`) | start once, context, main loop, task queue, done | Start, Run, Stop, Wait, Submit, ticks, shutdown | `select` among several ready cases, full queue | done once and last, tasks in order, a stopped server ends |
| Commands, chat, permissions (`internal/command/command.go`, `mcpe_commands.go`, `mcpe_permissions.go`, `runConsoleInput` of `server.go`) | registry, operators by account, the list of commands each client was sent, the console loop | Dispatch, the six commands, chat, AvailableCommands, console lines | rights are looked up one at a time and used later; players and the console issue commands at once; writes to lost players fail in the middle of one | all rights come from the console, clients have the commands their player may use, a stop stops |
| World (`internal/world/types.go`, `flat.go`) | per sub-chunk a map of non-air blocks per layer, default biome and overrides | SetRuntimeID, SetBiomeID, FillBiomeID, the flat generator, lookups | heights below zero, layers that come and go with their blocks | the sparse maps say of every cell what was last set for it |
| Chunk publisher (`chunk_publisher.go`) | none of its own | SendInitial, LevelChunk, SubChunk answers | a write fails in the middle, palettes and packed words at their limits | what the client decodes are the cells of the world |
| Configuration, logging, MOTD text, bootstrap, `cmd/mcpe-mitm` | – | – | – | see section 8 |

How they interact: `server.go` starts the MCPE listener, which wraps the RakNet
adapter; the adapter runs a session goroutine per connection; the session calls
the router, the router the handlers of login, inventory and world sync; the
handlers share the player table and write through each other's wire sessions;
joins and leaves call back into `server.go` to update the MOTD count. Stop
cancels the context of the main loop, whose last act is to close the listener
(which waits for all sessions) and then `done`.

The hazards that follow from this are listed at their lines in `PROJECT.json`
under `hazards`, each with the properties that would notice it going wrong or a
note on why none does yet.

## 2. Modules

| Module | Models | Composes |
|---|---|---|
| `Inventory` | one player's inventory | – |
| `PlayerSync` | the player table and all sessions that use it | – |
| `LoginFlow` | one session from the first packet to spawned: handlers, codec, pack queue, and the client at the other end | – |
| `Transport` | what the rest of the server relies on from the network: abstract | – |
| `RaknetServer` | the RakNet adapter | implements `Transport` (`KeepsPromise`): `Stage` and `Over` say which of its states are which of the listener's |
| `ServerLifecycle` | the server runtime | uses `Transport` for the network |
| `Commands` | commands, chat, operators, AvailableCommands and the console | – |
| `Chunk` | the storage of a chunk and the flat generator | – |
| `ChunkPublisher` | SendInitial and the packets encoded from a chunk, with the client's decoders | extends `Chunk` |
| `InventoryProofs`, `PlayerSyncProofs`, `LoginFlowProofs`, `RaknetServerProofs`, `ServerLifecycleProofs`, `CommandsProofs` | theorems and proofs about the module of that name | |
| `ChunkProofs` | theorems and proofs about `Chunk` and `ChunkPublisher` | |
| `FoldProofs` | induction, and what folds over sets and functions compute: used by the proofs of `Inventory` and of the chunks | |
| `MCInventory`, `MCPlayerSync`, `MCLoginFlow`, `MCCommands`, `MCChunkPublisher` | instances: slot names, pack sizes, names and logins, heights, symmetry sets | |

Definitions keep the names of the functions they model; `map` in `PROJECT.json`
gives the lines. A definition whose comment begins with "Mutant" is a deliberately
wrong variant of the next definition; it is used by no specification and serves
to show that a property depends on the code it is about (`mutants` in
`PROJECT.json`: one for each property of each passing run).

### Inventory

State: `items` (main slots, cursor, off hand), `nextStackID`, `selectedHotbar`,
`responseStackIDs`, plus what the handler keeps on its stack: `phase`, `request`
(snapshot, next ID and changes of the open request) and `batch` (what the answer
has collected so far). `view` and `heldShown` are what the client and the peers
have been told; `supply` is what `setItem` put in.

One ItemStackRequest packet is several steps: `beginBatch`, any number of stack
actions (`transferStack`, `swapStacks`, `dropStack`, `destroyStack`,
`ackMineBlockStack`), then `acceptRequest` or `rejectRequest`, perhaps
`continueBatch` with another request, and `finishBatch`, which writes the answer,
the resync and the held item. The steps are kept apart because `addPlayerPacket`
reads the held item from another goroutine. A rejection is possible at every
point of a request: an action that is invalid can always be named.

Slots are named by container and number, and hotbar, inventory and combined
containers name the same main slots. `Namespaces` lists the sets of names that
one request may draw from, so an instance decides whether clients mix names. A
request may refer to a stack by its ID, by zero, or by the negative ID of an
earlier request, which `resolvesTo` looks up in the remembered responses. Two
iterations over Go maps matter and are choices in the model: the order in which
remembered changes are written, and in `ViewAfter` the order of containers.

### PlayerSync

`players` and `nextID` are those of `MCPEHandler`; `state`, `rid` those of each
client; `pc`, `todo`, `peers`, `count` the progress of the client's goroutine
through a handler: one step per critical section and one per write to a peer.
A join draws its runtime ID from the atomic counter in one step (`startGame`) and
enters the table in a later one (`addPlayer`), since the ID is drawn outside
`playersMu`: sessions may enter in another order than that of their IDs.
`list` and `actors` are the PlayerList entries and actors each client has been
told, `motd` the count that pings are answered with, `saved` how often the player
was saved. A write to a connection that is lost fails, and the error takes the
path it takes in the code: it ends the broadcast and, from a handler, the session
of the writer. `OutOfOrder` names the packets that clients may send whenever they
like; the router checks nothing. The answer to the resource packs that leads to
`startGame` is not among them: `finishResourcePackFlow` does look at the state.

### LoginFlow

Server: `state`, flags, `compressed`, `crypt` (key and both counters), the pack
`queue`, and `inbox`, the packets of the batch being handled. The wire: two
queues of batches, each marked with the settings it was encoded under. `client`
is the other end with its own settings; it reads, switches when it is told to,
and answers with every choice the protocol gives it (`Answers`). A batch is
`Readable` when its settings and counter are those of its reader. Which packs are
`configured`, and whether the client is orderly, is chosen in `Init`; a client that
is not orderly sends anything at any time.

A handler does not write by itself: it leaves the `calls` it makes on the
connection (`Write`, `WriteUncompressed`, `EnableCompression`, `EnableEncryption`,
and `addPlayer`, after which others can find the client), and the session's
goroutine makes them one after the other before it goes on. A write is three
steps, as in `session.go`: `compressed` is read, `writeMu` is taken and the batch
encoded (which draws the counter), the batch is written and the lock released. The
goroutines of other sessions (`Peers`) do the same to this connection
(`peerWrites`, `peerEncodes`, `connWrite`) between any two steps once the player is
in the table. The switches take no lock, also in the model.

### Commands

A command is run by the goroutine of the player who entered it or by the
console's (`Issuers`); `pc` is where that goroutine is and `job` what it works on.
Dispatch looks the permission up and starts the command (`run`). op and deop find
a session by name, in any order where there are several (`playerByName`), change
the operators (`setOperator`), look up the permissions behind the list of commands
one by one (`buildList`, one lock each) and write it (`writeList`). startGame does
the last two for the player who is joining, after it has entered it in the table.
say, chat and stop write to all spawned players. The collecting and the writing
are one step here (`Broadcast`), which may fail whenever a player that could have
been collected has lost its connection; `PlayerSync` has the steps of a broadcast.
Accounts and sessions are different things: rights belong to accounts, and an
account may have two sessions at once.

Three history variables serve the properties: `granted` (the console has made
somebody an operator), `late` (lines the console took up after the cancellation)
and `crossed`, the sessions left behind by a change of their account's rights:
those whose list someone else was building at that moment, and those of the same
account that op or deop did not find. For such a session the code promises
nothing: of two lists on their way the older may arrive last.

### Chunk, ChunkPublisher

`subChunks`, `defaultBiomeID` and `biomeOverrides` are the fields of the same names,
partial functions for Go's maps. The arrays they stand for are kept beside them as
history (`blocks`, `biomes`). Positions just outside the chunk are among the inputs;
they are errors that change nothing. The flat generator sets block after block
and can be cancelled before a column or fail on a layer outside the dimension.

`ChunkPublisher` sends the initial packets one by one and may be broken off at each.
The encoders are functions of a chunk: first-use palettes, bit widths, indices
packed into words that they need not fill, height maps, results of requests
outside the dimension. How the client reads the format back
(`decodePalettedStorage`, `Received`, `ReceivedHeight`) is external.

### Transport, RaknetServer, ServerLifecycle

`Transport`: `stage` of the listener, connections `live` and `over`. A connection
opens only while the listener is open, and the listener is closed only when no
session is left.

`RaknetServer` has the accept loop, a goroutine per session with its deferred
steps in order (close connection, unregister, `wg.Done`), and callers of Close
with one step for each of the effects of Close. The go-raknet listener is
external: it delivers connections, fails Accept after it is closed, and reads fail
on closed connections.

`ServerLifecycle` has callers of `Run`, `Stop`, `Submit`, the main loop with its
`select` and `drainTasks`, and the shutdown. The network in it is a `Transport`.

## 3. Runs

| Run | Instance | Shows |
|---|---|---|
| `inventory` | 2 hotbar slots, cursor, off hand; stacks up to 2; 1 item type; IDs up to 3; one name per slot (94 k states) | `StackIDsUnique`, `NoItemsCreated`, `ClientViewAccurate`, `HeldItemShown`, `TypeOK` |
| `inventory_responses` | 1 main slot, cursor; request IDs 1 and 2; table limit 1; names differ between requests, one is invalid (26 k states) | `ClientViewAccurate`, `ResponsesBounded` when predicted IDs are used and the table is filled and emptied |
| `inventory_aliases` | names mixed in one request | **violates** `NoItemsCreated` |
| `player_sync` | 3 sessions joining, spawning and ended by the server (2.5 M states) | `TableExact`, `PeersKnown`, `LeaveReachesPeers`, `SavedOnce`, `TypeOK` |
| `player_sync_unordered` | 2 sessions, connections lost at any point, the packets after StartGame out of turn (107 k) | `PeersKnown`, and `LostSessionsEnd` under fairness |
| `player_sync_ghost`, `player_sync_repeat` | 2 or 3 sessions | **violate** `NoGhostActors`, `EndedSessionsRemoved` |
| `raknet_server` | 3 connections, 2 closers (119 k) | `WaitGroupExact`, `CloseDrains`, `NoAddWhileWaiting`, refinement `KeepsPromise`, and `CloseReturns` under fairness |
| `server_lifecycle` | 2 connections, 2 callers of Run, 3 tasks, queue of 2 (47 k) | `DoneIsFinal`, `TasksInOrder`, `TypeOK`, and `StopEnds`, `AcceptedTasksRun` under fairness |
| `login_flow` | any subset of packs of 4 and 3 bytes configured, chunks of 2; 2 peers with 2 writes between them; an orderly client, or one that sends any 4 packets (819 k) | `WireAgrees`, `DownloadInStep`, `WrittenOnce`, `TypeOK`, and `LoginCompletes` under fairness |
| `commands` | 2 sessions, of one account or of two, and the console; 2 commands and a late line of the console, lists of 2 lookups, 1 connection lost (466 k) | `PrivilegeFromConsole`, `ListsCurrent`, `ConsoleStops`, `TypeOK`, and `StopStops` under fairness |
| `chunk_publisher` | sub-chunks of 2x2x2 from height -2 to 3, 2 layers, 2 blocks, 2 biomes, 2 changes; radius 2 around a spawn west of zero (15 k) | `StorageExact`, `NothingKeptForAir`, `SubChunkAnswersExact`, `HeightMapsExact`, `LevelChunkExact`, `ChunksFromTheCenter` |

Bounds and why they are enough for what is asked:

* `MaxStackCount = 2` is the smallest in which a stack can be split, merged and
  overfilled; with `MaxStackID = 3` two stacks can exist and one be split, with
  one ID given back by a rollback and handed out again. Wider instances are what
  the proof of `IDsUnique` is for.
* `ResponseCap = 1` instead of 256: with the two IDs of the instance and their
  negations the table passes its limit and is emptied again and again.
* Three sessions are needed for one to leave while a second is told and a third
  spawns; two suffice for each of the races between a pair.
* The pack sizes have one full and one partial last chunk; two packs, so that the
  queue advances and starts over.
* `MaxPackets = 4` lets a disorderly client start a download, fetch, restart and
  fetch, or repeat any packet of the way from the handshake to the world: the
  handlers do not look at the state, so no long prefix is needed.
* `TaskQueueCap` is below the number of tasks, so Submit meets a full queue.
* Two peers are the fewest that can contend for `writeMu` with each other and with
  the session; each may hold a batch encoded before a switch.
* Two commands at a time are what op and deop need to overlap, and what it takes for
  the console to make a player an operator and the player to stop the server;
  `MaxLate = 1` lets the console take up a line after that, which the bound on
  commands would keep it from. A list of two lookups is the shortest that can be
  torn. The theorems of `CommandsProofs` hold for any number of each.
* With radius 2 the square has chunks at three distances, so that passes over
  nearer chunks are skipped on the inside of a ring as well as at its center.
* `VIEW AllButMotd` of `player_sync` leaves the count of the MOTD out of what tells
  states apart: it is written and never read, and only `TypeOK` looks at it.
* The dimension of `chunk_publisher` has a sub-chunk below zero and two above, the
  flat world lies across zero, and a chunk with both block IDs and air has a
  palette of three, which needs two bits; words of five bits hold two such
  indices and leave a bit over. Two changes set a block and clear it, or fill a
  layer above an empty one. The theorems of `ChunkProofs` hold for all sizes.

`CHECK_DEADLOCK FALSE` is set where the system may stop for good: sessions and
servers end, and the bounds use up their connections, tasks or packets. The
inventory has no end and is checked for deadlock.

### Fairness

* `PlayerSync`: weak fairness of each session goroutine's own steps. Go schedules
  a runnable goroutine eventually. Packets and lost connections are not fair.
* `RaknetServer`: weak fairness of the accept loop, of each session's own steps
  and of each caller of Close once it has called.
* `ServerLifecycle`: weak fairness of the main loop and of the callers of Run;
  strong fairness of `selectDone`, since a Go `select` chooses at random among its
  ready cases, and the cancelled context is ready each time round; weak fairness
  of a session's end *while the network is closing*, which is what
  `RaknetServer` shows (`CloseReturns`).
* `LoginFlow`: the session goroutine runs, and the client keeps reading and
  answering. `LoginCompletes` is about such clients only; there is no timeout in
  the code that would get rid of any other. Whoever holds `writeMu` completes its
  write; peers need not begin one.
* `Commands`: weak fairness of the steps of each goroutine that runs a command and
  of its output. Nobody need enter anything, and connections are lost or not.

## 4. What the violations show

Each is a run whose counterexample is a behaviour of the code; `findings` in
`PROJECT.json` quotes what the repository says instead.

* `inventory_aliases`: `transferStack` compares slot *names*. A transfer
  from hotbar slot 0 to inventory slot 0 is one from a slot to itself; the second
  assignment leaves the sum of stack and transfer in it, and items have appeared.
* `player_sync_ghost`: B is spawned and collects its peers, A among them, under the
  lock. A leaves: `removePlayer` finds B spawned and writes RemoveActor to it. Only
  then does B's goroutine write A's AddPlayer to B. The removal came before what it
  removes, and B keeps A's actor.
* `player_sync_repeat`: a second ClientToServerHandshake puts a playing client
  back to waiting for packs; its next answer runs `startGame` again under a new
  runtime ID, and `removePlayer` deletes only that one.

The passing runs state what does hold next to these: `NoItemsCreated` where
requests use one name per slot, `PeersKnown` (no pair of *playing* players misses
one another) although ghosts may remain, and `TableExact` as long as the login
packets come in turn.

Two more weaknesses are stated as conditions or hazards and not as runs of their
own. `writePacketToClients` returns at the first failing write, so the peers behind
it keep the PlayerList entry of a player who left: `LeaveReachesPeers` holds for
those whose broadcast meets no lost connection. And `updateMOTD` reads the count
and pushes it in two steps, so that an older count may be pushed last; nothing in
the repository promises otherwise.

## 5. Proofs

Every theorem holds for all values of the constants that the assumption of its
module allows, and, where it says so, under one more hypothesis. Most properties
are not inductive as they stand; the invariant that each one needs is named below,
and was tried with TLC on the instance of its run before it was proved.

### Inventory (`InventoryAssumption`: any slots, types, names, request IDs, limit)

* `TypeCorrect`: `Spec => []TypeOK`; in particular no stack gets larger than
  `MaxStackCount`.
* `IDsUnique`: `Spec => []StackIDsUnique`. The property is not inductive, because
  a rejected request puts `nextStackID` *back*: it must be known that whatever
  still carries an ID carries one from before the request. `IDInv` says so with
  `Floor`, the value `nextStackID` can go back to (that of the snapshot while a
  request is open, else its own): the IDs of slots are unique and below
  `nextStackID`, those of the snapshot unique and below `Floor`, and those of the
  client's view, the view collected in the batch and all remembered answers below
  `Floor`. There is one lemma per action; the stack actions share lemmas on what
  two assignments to slots do to uniqueness, and hold with aliases too.
* `ResponsesAreBounded`: `Spec => []ResponsesBounded`, by cardinality of the
  domain under the two keys an answer adds.
* `PeersSeeHeldItem`: `Spec => []HeldItemShown`. `HeldInv` adds what is true inside
  a batch: the peers know what was held when it began, which is what
  `finishBatch` compares with.
* `ViewIsAccurate` and `ItemsAreConserved`: `Spec => []ClientViewAccurate` and
  `Spec => []NoItemsCreated`, under `OneNameEach`: no set of names that one request
  draws from has two names for a slot. `inventory_aliases` shows that the
  second needs it, and the record of changes, which is kept by name, shows why the
  first does. `ViewInv` says what the view collected in the batch is worth at each
  point: between requests it tells the slots, and in a request it tells the
  snapshot, of which the slots are the snapshot with the recorded changes
  (`Mirrored`). `ItemInv` bounds the totals of the slots and of the snapshot that a
  rejection brings back. Totals are sums over all slots; what two assignments do
  to one is a lemma of `FoldProofs`.

### PlayerSync (`PlayerSyncAssumption`: any clients, bounds, lost connections)

* `TypeCorrect`: `Spec => []TypeOK`.
* The other four hold if clients send the login packets only in turn
  (`LoginPackets \cap OutOfOrder = {}`, that is RequestNetworkSettings, Login and
  ClientToServerHandshake). `player_sync_repeat` shows that the last of them is
  needed; the first two put a client that is playing back to a state from which a
  handshake in turn leads to a second StartGame. RequestChunkRadius,
  SetLocalPlayerAsInitialised and Interact may come out of turn.
* `TableIsExact` and `PlayersSavedOnce`: `Spec => []TableExact` and
  `Spec => []SavedOnce`. `TableInv` adds what the table's exactness depends on:
  IDs above `nextID` are unused and no two clients share one (`FreshIDs`), entries
  are filed under their owner's ID (`Filed`), who has an ID is in the table from
  `addPlayer` to `removePlayer` (`Entered`) and not after (`Gone`), whoever can still reach
  `startGame` has no ID (`StartsOnce`), and `disconnected` is set only together
  with the save (`SavedAtTheEnd`).
* `PlayersKnowEachOther`: `Spec => []PeersKnown`. `KnownInv` says who owes what, with
  nothing said of the order of runtime IDs, which is not that of joining. Of two
  players in the table one entered second and found the other there; it owes both
  list entries. So each has the other's entry, or has yet to read the whole table,
  or has read it with the other in it and has yet to write it, or the other has it
  among those it must still announce itself to (`ListOf`, one formula for both
  sides). Of two spawned players, the actor of one is with the other or is still
  owed by one of them (`ActorOf`): whoever collected second found the other
  spawned. Failed writes end the session of the writer, which is then no longer
  playing.
* `LeavesReachPeers`: `Spec => []LeaveReachesPeers`. `LeaveInv`: the peers that a
  leaving session collected have joined and do not join again, so nobody puts
  the entry back; those the session is done with have lost it.

### LoginFlow (`LoginFlowAssumption`: any packs, sizes, peers, numbers of packets)

* `LoginTypes`, `StackAndWorldOnce`, `DownloadsInStep`: `Spec => []TypeOK`,
  `Spec => []WrittenOnce`, `Spec => []DownloadInStep`. `LoginInv` ties the counts of
  stacks and worlds to the flags that guard them, and the last info written to
  the queue. It was the proof that asked about a pack without data: it has no
  chunk at all, its info is written and the client asks for nothing; so
  `DownloadInStep` promises the next chunk of packs that are not empty.
* `BothEndsDecode`: `Spec => []WireAgrees`. Nothing about the head of a queue is
  inductive; `WireInv` says where the two ends are with respect to the switches.
  In `OpenPhase` (before the key) at most one batch is under way and nobody else
  writes, and each of its five alternatives names that batch and the settings it
  was and will be read under. In `SecurePhase` both ends are compressed, every
  batch under way is sealed with consecutive counters that start where its reader
  is and end where its writer is (`UpStream`, `DownStream`, with the batch that a
  goroutine holds under `writeMu` as the last), whoever has looked at `compressed`
  saw it set, and the server has its key or is about to set it before it reads or
  writes anything else. One lemma per phase and action.

### RaknetServer, Transport (`RaknetAssumption`: any connections and closers)

* `WaitGroupIsExact`, `CloseHasDrained`: `Spec => []WaitGroupExact` and
  `Spec => []CloseDrains`. `Inv` adds that the accept loop has one connection in hand
  (`OneAtATime`), that every open connection is incoming, in hand or served
  (`Attended`), what is true of a goroutine at each of its last steps (`Ends`) and of
  the server at each step of Close (`Drains`).
* `NothingAddedWhileWaiting`: `Spec => NoAddWhileWaiting`, an action property.
* `ImplementsTransport`: `Spec => KeepsPromise`, the refinement: initial states map to
  initial states, and each step is one of `Transport` or changes nothing of it.

### ServerLifecycle (`LifecycleAssumption`: any runners, tasks, connections, capacity)

* `LifecycleTypes`, `DoneComesLast`, `TasksStayInOrder`: `Spec => []TypeOK`,
  `Spec => []DoneIsFinal`, `Spec => []TasksInOrder`. `StartInv` says that Start has a
  single caller in it, `EndInv` pairs each position of the main loop with the stage
  of the listener and the count of closed `done`s.

### Commands (`CommandsAssumption`: any sessions, accounts, logins, lists, commands)

The invariant has one part per question, proved action by action:

* `CommandTypes`: `Spec => []TypeOK`, with `JobInv`, which says of every position
  what the job is there: op and deop have a target in `set`, `list` and `write`; a
  list under way has had fewer lookups than `Lookups`, and all of them when it is
  written. Everything else rests on it.
* `RightsComeFromConsole`: `Spec => []PrivilegeFromConsole`. `PrivilegeInv` adds the
  commands that are already past their only check: until the console has granted
  something, no player has a command in `run`, `set` or `shutdown` that an
  operator's right would be needed for.
* `ConsoleGivesUp`: `Spec => []ConsoleStops`. `ConsoleInv`: once a late line has been
  taken up, the server is stopped and the console is not waiting for another.
* `ListsAreCurrent`: `Spec => []ListsCurrent`. `ListsInv` says of every list under
  way to a session that is not crossed that the lookups made so far agree with the
  rights as they are now, and that a session without a list under way has its
  rights shown. A change of rights in between puts the session among the crossed,
  or is followed by a list of its own.

### Chunk, ChunkPublisher (`ChunkAssumption`, `ChunkPublisherAssumption`)

Any width, dimension, IDs, generator, radius and spawn; layers below 255, since a
byte counts them (see section 8).

* `ChunkTypeCorrect`, `NothingIsKeptForAir`, `StorageIsExact`: the three invariants of
  `Chunk` are inductive together. What is needed is that a cell is stored where no
  other cell is: the sub-chunk index and the offset determine the cell. That
  comes from one lemma on `floorDiv16`, that it is the division that rounds down
  for heights of either sign, so that y is Width times the one plus the other.
  Facts on `Put`, `Delete` and lookups of partial functions do the rest.
  `SendingChangesNoChunk` (`Spec => ChunkSpec`) carries them over to the publisher.
* `ChunksGoOutFromTheCenter`: `Spec => []ChunksFromTheCenter`. `SendInv`: what was sent is
  a prefix of `initialPackets`. `chunkPositions` is three nested loops with passes that
  are skipped; that the passes come in a strict order is `LoopOrder`, and that those
  which append are one for each chunk of the square, at its distance, is
  `KeptPasses`. That the positions are then each chunk once, nearest first
  (`PositionsInOrder`), rests on `Ranks`: in a finite strict order the number of
  smaller elements is a bijection that respects the order.
* `HeightMapsAreExact`: `Spec => []HeightMapsExact`: a block that is not air makes its
  sub-chunk non-empty, so the skipped ones hide none, and the highest block of a
  column is compared with the sub-chunk by the lemma on `floorDiv16`.
* `SubChunkAnswersAreExact`, `LevelChunksAreExact`: `Spec => []SubChunkAnswersExact` and
  `Spec => []LevelChunkExact`, under `IndicesFit`: a width of index that is enough for
  all values of a sub-chunk fits into a word. The code has 4096 values, at most 16
  bits and words of 32; the instance of `chunk_publisher` has 8 values and words of
  5 bits. That an encoded storage decodes to its values (`DecodesToTheValues`) goes
  in three steps: first uses order the values, so their ranks are distinct and below
  the size of the palette, which `paletteBits` makes room for (`PaletteIndices`,
  `PaletteBits`); of the word a number is packed in, the bits at its place are
  those of its index, since quotient and remainder give two numbers different
  places (`PackedWords`); and a number is the sum of the powers of its bits
  (`BinaryDigits`), in whatever order the sum is taken. The layers and sub-chunks
  that are left out have no blocks (`AirAboveLayers`, `AirAboveHighest`).

### FoldProofs

The induction theorems of the library take a predicate as a parameter and cannot be
used; here the predicate is a *set*, of numbers (`SetInduction`) or of subsets of a
finite set (`SubsetInduction`), and the provers instantiate it. From these follow
that the recursive function inside the folds of the community modules exists
(`FoldsExist`), how a sum changes when the function changes at a point, that a sum
does not depend on the order (`SumTakesAny`), and that bounded sets of integers have
a greatest or a least element.

`MaxStackID` and `MaxRuntimeID` are arbitrary in the proofs; the models do not
wrap, see section 8.

## 6. What is only model-checked

* Liveness (`LostSessionsEnd`, `CloseReturns`, `StopEnds`, `AcceptedTasksRun`,
  `LoginCompletes`, `StopStops`): temporal reasoning with fairness and ENABLED is out of the
  reach of the prover.
* The three runs that end in a violation: a counterexample is what they show.

Every invariant and every action property of the passing runs, and the refinement
of `Transport`, is a theorem. The provers know powers of two only as numbers, so
`Powers` lists those up to 2^16, the greatest width in the code; `RECURSIVE` operators
are not used.

## 7. Running

    tlc -config MCInventory.cfg MCInventory
    tlapm InventoryProofs.tla

`runs` in `PROJECT.json` pairs every configuration with its module.

## 8. What is not modelled, and why

* Bytes: packet fields, deflate, AES, JWT chains, key exchange. A login is accepted or
  refused, a key is a number, and decoding succeeds exactly when the
  settings agree.
* Positions, metadata, skins, the interaction target, the open inventory window
  and the loading screen of players; hence also the order of movement and spawn
  packets and unsynchronised reads of those fields.
* Wrapping of `nextStackID` (int32, after which IDs start again at 1) and of runtime
  IDs (uint64): out of range of an instance, and the models stop handing out IDs at
  their bound.
* The text of commands: parsing and quoting (`ParseLine`, `splitArgs`), usage and
  output, aliases and the registration of commands, which happens once before the
  server starts. A line is a command and its argument.
* Layer 255 of a sub-chunk: `encodeSubChunk` (`chunk_publisher.go:242-248`) would count
  256 storages in a byte and loop over them with a byte. No code sets a block in a
  layer other than 0, and `ChunkAssumption` takes the layers in use to be below 255.
* Block state hashes and biome names (`runtime.go` of `internal/world`): pure
  conversions to the IDs that the model starts from.
* `cloneMetadata`, which ranges over a map that another goroutine may be changing:
  listed as a hazard, without metadata in the model.
* A second Close that returns before the first has drained: the runtime calls
  Close once, and `CloseDrains` is stated for the first caller.
* Configuration parsing, logging, MOTD text, statistics, crash logs,
  loading of resource packs, bootstrap, the capture tool: no state that the
  properties depend on, or I/O only.

## 9. What is left

1. An abstract inventory (counts per type, slots as a bag) that `Inventory`
   implements when names are not mixed.
2. `PlayerSync`: positions, the loading screen, the open inventory; the held item
   of `Inventory` read by a spawning peer.
3. Proofs: that a network which implements `Transport` can take its place in
   `ServerLifecycle` is an argument in words (section 2) and not a theorem.
