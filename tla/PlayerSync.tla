----------------------------- MODULE PlayerSync ------------------------------
(***************************************************************************)
(* The live player table of the server and what the sessions tell each     *)
(* other about it (internal/server/mcpe_player_sync.go with the callers in *)
(* mcpe_login_flow.go, mcpe_world_sync.go, mcpe_session.go and the MOTD    *)
(* callbacks of server.go).                                                *)
(*                                                                         *)
(* Every connection is served by a goroutine of its own.  The goroutines   *)
(* share the table, guarded by playersMu, and write to each other's        *)
(* connections.  Peers are collected under the lock and written to after   *)
(* it is released, one write per step here, so that any other session may  *)
(* join, spawn, leave or lose its connection in between.                   *)
(***************************************************************************)
EXTENDS Integers, FiniteSets, Functions

CONSTANTS
    Clients,       \* network sessions; a player that returns is another one
    Nobody,        \* the nil *MCPEClient of a missing table entry
    MaxRuntimeID,  \* bound of the model: runtime IDs handed out
    MaxLost,       \* bound of the model: connections that may be lost at a time
    OutOfOrder     \* packets that clients may send at any time, not only in turn

ASSUME PlayerSyncAssumption ==
    /\ Nobody \notin Clients
    /\ MaxRuntimeID \in Nat
    /\ MaxLost \in Nat
    /\ OutOfOrder \subseteq {"RequestNetworkSettings", "Login", "ClientToServerHandshake",
                            "RequestChunkRadius", "SetLocalPlayerAsInitialised", "Interact"}

RuntimeIDs == 1..MaxRuntimeID

VARIABLES
    players,  \* MCPEHandler.players: runtime ID |-> client, under playersMu
    nextID,   \* MCPEHandler.nextID, an atomic counter
    state,    \* MCPEClient.state, written by its session and read by all
    rid,      \* MCPEClient.runtimeID, 0 before StartGame
    conn,     \* whether writes to the connection succeed: "open" or "lost"
    pc,       \* where the goroutine of the session is
    todo,     \* the collected clients it has yet to write to
    peers,    \* the clients it collected
    count,    \* the player count it read for the MOTD
    motd,     \* the player count that unconnected pings are answered with
    list,     \* the PlayerList entries each client has been told
    actors,   \* the runtime IDs of the actors each client has been told
    saved     \* how often playerLeft has saved the player of a session

vars == <<players, nextID, state, rid, conn, pc, todo, peers, count, motd,
          list, actors, saved>>

\* The states before the resource packs are one here: none is read by a peer.
States == {"login", "awaitPacks", "awaitRadius", "awaitInitialised", "spawned",
           "disconnected"}

\* ready: blocked in Read; addPlayer: in startGame, with a runtime ID but not yet
\* in the table; joined/left and pushJoined/pushLeft: in updateMOTD; startGame,
\* announce, readList, sendList: in startGame after addPlayer; spawn, seePeers,
\* showSelf: in handleSetLocalPlayerAsInitialised; broadcast: in any handler that
\* writes to the spawned peers; closing, unlist, unspawn: in removePlayer.
Positions == {"ready", "addPlayer", "joined", "pushJoined", "startGame", "announce",
              "readList", "sendList", "spawn", "seePeers", "showSelf", "broadcast",
              "closing", "unlist", "unspawn", "leave", "left", "pushLeft", "closed"}

Init ==
    /\ players = [r \in RuntimeIDs |-> Nobody]
    /\ nextID = 0
    /\ state = [c \in Clients |-> "login"]
    /\ rid = [c \in Clients |-> 0]
    /\ conn = [c \in Clients |-> "open"]
    /\ pc = [c \in Clients |-> "ready"]
    /\ todo = [c \in Clients |-> {}]
    /\ peers = [c \in Clients |-> {}]
    /\ count = [c \in Clients |-> 0]
    /\ motd = 0
    /\ list = [c \in Clients |-> {}]
    /\ actors = [c \in Clients |-> {}]
    /\ saved = [c \in Clients |-> 0]

Listed == {r \in RuntimeIDs : players[r] # Nobody}
allPlayers == {players[r] : r \in Listed}

\* Mutant: taking it for granted that players spawn in the order they join.
earlierPlayersExcept(c) == {d \in allPlayers \ {c} : state[d] = "spawned" /\ rid[d] < rid[c]}

spawnedPlayersExcept(c) == {d \in allPlayers \ {c} : state[d] = "spawned"}

Goto(c, position) == pc' = [pc EXCEPT ![c] = position]
Collect(c, clients) ==
    /\ todo' = [todo EXCEPT ![c] = clients]
    /\ peers' = [peers EXCEPT ![c] = clients]
Collected == <<todo, peers>>
Table == <<players, nextID, rid>>
Told == <<list, actors>>
Motd == <<count, motd>>

\* The next client of a loop over clients sorted by runtime ID.
Target(c, d) == d \in todo[c] /\ \A e \in todo[c] : rid[d] <= rid[e]
Done(c, d) == todo' = [todo EXCEPT ![c] = @ \ {d}]

\* The router hands a packet to its handler whatever the state is: only an
\* orderly client sends it in the state it belongs to.
Sends(c, packet, inState) ==
    /\ pc[c] = "ready" /\ conn[c] = "open"
    /\ state[c] = inState \/ packet \in OutOfOrder

-----------------------------------------------------------------------------
(* Joining: from the login packets to the end of startGame *)

\* handleRequestNetworkSettings and handleLogin: on to, or back to, the states
\* before the handshake.
handleLogin(c) ==
    /\ \E packet \in {"RequestNetworkSettings", "Login"} : Sends(c, packet, "login")
    /\ state' = [state EXCEPT ![c] = "login"]
    /\ UNCHANGED <<Table, conn, pc, Collected, Motd, Told, saved>>

handleClientToServerHandshake(c) ==
    /\ Sends(c, "ClientToServerHandshake", "login")
    /\ state' = [state EXCEPT ![c] = "awaitPacks"]
    /\ UNCHANGED <<Table, conn, pc, Collected, Motd, Told, saved>>

\* Mutant: runtime IDs by the number of players online.
nextRuntimeIDByCount == Cardinality(Listed) + 1

nextRuntimeID == nextID + 1

\* startGame after the resource packs: the runtime ID is drawn from the atomic
\* counter, outside playersMu.
startGame(c) ==
    /\ pc[c] = "ready" /\ conn[c] = "open"
    /\ state[c] = "awaitPacks"
    /\ nextID < MaxRuntimeID
    /\ nextID' = nextID + 1
    /\ rid' = [rid EXCEPT ![c] = nextRuntimeID]
    /\ Goto(c, "addPlayer")
    /\ UNCHANGED <<players, state, conn, Collected, Motd, Told, saved>>

\* initPlayerState fails: an identity that is no UUID ends the session before
\* addPlayer.  Only another Login changes the identity of a client that has
\* passed it before and has an entry in the table.
initPlayerStateFails(c) ==
    /\ pc[c] = "addPlayer"
    /\ c \notin allPlayers \/ "Login" \in OutOfOrder
    /\ Goto(c, "closing")
    /\ UNCHANGED <<Table, state, conn, Collected, Motd, Told, saved>>

\* Mutant: taking it for granted that players enter in the order of their IDs.
addPlayerTellsEarlier(c) ==
    /\ pc[c] = "addPlayer"
    /\ players' = [players EXCEPT ![rid[c]] = c]
    /\ Collect(c, {d \in allPlayers : rid[d] < rid[c]})
    /\ Goto(c, "joined")
    /\ UNCHANGED <<nextID, rid, state, conn, Motd, Told, saved>>

\* addPlayer collects the others and enters the client in one critical section.
\* Meanwhile any session may have drawn a later runtime ID and entered first.
addPlayer(c) ==
    /\ pc[c] = "addPlayer"
    /\ players' = [players EXCEPT ![rid[c]] = c]
    /\ Collect(c, allPlayers \ {c})
    /\ Goto(c, "joined")
    /\ UNCHANGED <<nextID, rid, state, conn, Motd, Told, saved>>

\* Mutant: the player who joins or leaves is not counted.
readCountOfOthers(c) ==
    /\ pc[c] \in {"joined", "left"}
    /\ count' = [count EXCEPT ![c] = Cardinality(Listed) - 1]
    /\ Goto(c, IF pc[c] = "joined" THEN "pushJoined" ELSE "pushLeft")
    /\ UNCHANGED <<Table, state, conn, Collected, motd, Told, saved>>

\* updateMOTD: the count is read under playersMu, pushed under pongMu.
readCount(c) ==
    /\ pc[c] \in {"joined", "left"}
    /\ count' = [count EXCEPT ![c] = Cardinality(Listed)]
    /\ Goto(c, IF pc[c] = "joined" THEN "pushJoined" ELSE "pushLeft")
    /\ UNCHANGED <<Table, state, conn, Collected, motd, Told, saved>>

pushCount(c) ==
    /\ pc[c] \in {"pushJoined", "pushLeft"}
    /\ motd' = count[c]
    /\ count' = [count EXCEPT ![c] = 0]
    /\ conn' = IF pc[c] = "pushLeft" THEN [conn EXCEPT ![c] = "lost"] ELSE conn
    /\ Goto(c, IF pc[c] = "pushJoined" THEN "startGame" ELSE "closed")
    /\ UNCHANGED <<Table, state, Collected, Told, saved>>

\* JigsawStructureData to AvailableCommands: writes to its own connection only.
sendStartGame(c) ==
    /\ pc[c] = "startGame"
    /\ Goto(c, IF conn[c] = "open" THEN "announce" ELSE "closing")
    /\ UNCHANGED <<Table, state, conn, Collected, Motd, Told, saved>>

\* sendInitialPlayerSync: PlayerList add to every client found by addPlayer;
\* one write that fails ends the joining session.
announce(c) ==
    /\ pc[c] = "announce"
    /\ \/ /\ todo[c] = {}
          /\ Goto(c, "readList")
          /\ UNCHANGED <<todo, list>>
       \/ \E d \in Clients :
            /\ Target(c, d)
            /\ Done(c, d)
            /\ IF conn[d] = "open"
               THEN list' = [list EXCEPT ![d] = @ \cup {c}] /\ UNCHANGED pc
               ELSE Goto(c, "closing") /\ UNCHANGED list
    /\ UNCHANGED <<Table, state, conn, peers, Motd, actors, saved>>

\* ... then the whole table to the joining client itself.
readList(c) ==
    /\ pc[c] = "readList"
    /\ Collect(c, allPlayers)
    /\ Goto(c, "sendList")
    /\ UNCHANGED <<Table, state, conn, Motd, Told, saved>>

sendList(c) ==
    /\ pc[c] = "sendList"
    /\ IF conn[c] = "open"
       THEN /\ list' = [list EXCEPT ![c] = @ \cup todo[c]]
            /\ state' = [state EXCEPT ![c] = "awaitRadius"]
            /\ Goto(c, "ready")
       ELSE Goto(c, "closing") /\ UNCHANGED <<list, state>>
    /\ Collect(c, {})
    /\ UNCHANGED <<Table, conn, Motd, actors, saved>>

\* The rest of the join writes only to the client's own connection.
handleRequestChunkRadius(c) ==
    /\ Sends(c, "RequestChunkRadius", "awaitRadius")
    /\ state' = [state EXCEPT ![c] = "awaitInitialised"]
    /\ UNCHANGED <<Table, conn, pc, Collected, Motd, Told, saved>>

-----------------------------------------------------------------------------
(* Spawning and playing *)

handleSetLocalPlayerAsInitialised(c) ==
    /\ Sends(c, "SetLocalPlayerAsInitialised", "awaitInitialised")
    /\ state' = [state EXCEPT ![c] = "spawned"]
    /\ Goto(c, "spawn")
    /\ UNCHANGED <<Table, conn, Collected, Motd, Told, saved>>

\* spawnToInitialisedPlayers: collect, then every peer's actor to the client,
\* then the client's actor to every peer.
spawnToInitialisedPlayers(c) ==
    /\ pc[c] = "spawn"
    /\ Collect(c, spawnedPlayersExcept(c))
    /\ Goto(c, "seePeers")
    /\ UNCHANGED <<Table, state, conn, Motd, Told, saved>>

seePeers(c) ==
    /\ pc[c] = "seePeers"
    /\ \/ /\ todo[c] = {}
          /\ todo' = [todo EXCEPT ![c] = peers[c]]
          /\ Goto(c, "showSelf")
          /\ UNCHANGED actors
       \/ \E d \in Clients :
            /\ Target(c, d)
            /\ Done(c, d)
            /\ IF conn[c] = "open"
               THEN actors' = [actors EXCEPT ![c] = @ \cup {rid[d]}] /\ UNCHANGED pc
               ELSE Goto(c, "closing") /\ UNCHANGED actors
    /\ UNCHANGED <<Table, state, conn, peers, Motd, list, saved>>

showSelf(c) ==
    /\ pc[c] = "showSelf"
    /\ \/ /\ todo[c] = {}
          /\ Goto(c, "ready")
          /\ Collect(c, {})
          /\ UNCHANGED actors
       \/ \E d \in Clients :
            /\ Target(c, d)
            /\ Done(c, d)
            /\ IF conn[d] = "open"
               THEN actors' = [actors EXCEPT ![d] = @ \cup {rid[c]}] /\ UNCHANGED pc
               ELSE Goto(c, "closing") /\ UNCHANGED actors
            /\ UNCHANGED peers
    /\ UNCHANGED <<Table, state, conn, Motd, list, saved>>

\* Movement, actor data, held items: a packet to every spawned peer.  A write
\* to a peer that fails ends the session of the one who moved.  Leaving a
\* vehicle is broadcast from any state after StartGame.
broadcastToSpawnedPeers(c) ==
    /\ Sends(c, "Interact", "spawned")
    /\ rid[c] # 0
    /\ spawnedPlayersExcept(c) # {}
    /\ Collect(c, spawnedPlayersExcept(c))
    /\ Goto(c, "broadcast")
    /\ UNCHANGED <<Table, state, conn, Motd, Told, saved>>

writePacketToClients(c) ==
    /\ pc[c] = "broadcast"
    /\ \/ /\ todo[c] = {}
          /\ Goto(c, "ready")
          /\ Collect(c, {})
       \/ \E d \in Clients :
            /\ Target(c, d)
            /\ Done(c, d)
            /\ IF conn[d] = "open" THEN UNCHANGED pc ELSE Goto(c, "closing")
            /\ UNCHANGED peers
    /\ UNCHANGED <<Table, state, conn, Motd, Told, saved>>

-----------------------------------------------------------------------------
(* Leaving *)

\* The remote side goes away, or the transport gives up on it.
connLost(c) ==
    /\ conn[c] = "open" /\ pc[c] # "closed"
    /\ Cardinality({d \in Clients : conn[d] = "lost"}) < MaxLost
    /\ conn' = [conn EXCEPT ![c] = "lost"]
    /\ UNCHANGED <<Table, state, pc, Collected, Motd, Told, saved>>

\* A handler refuses a packet (a mismatched runtime ID, a position that is not
\* finite, an unknown window, a radius below 1, ...): Serve returns while the
\* connection is still open.
handlerFails(c) ==
    /\ pc[c] = "ready" /\ conn[c] = "open"
    /\ Goto(c, "closing")
    /\ UNCHANGED <<Table, state, conn, Collected, Motd, Told, saved>>

\* Read fails and Serve returns.
readFails(c) ==
    /\ pc[c] = "ready" /\ conn[c] = "lost"
    /\ Goto(c, "closing")
    /\ UNCHANGED <<Table, state, conn, Collected, Motd, Told, saved>>

\* Mutant: sessions that never spawned are taken for absent.
inTableSpawned(c) == rid[c] # 0 /\ players[rid[c]] = c /\ state[c] = "spawned"

\* The entry that removePlayer would delete is the client's own.
inTable(c) == rid[c] # 0 /\ players[rid[c]] = c

\* OnDisconnect and the critical section of removePlayer.
removePlayer(c) ==
    /\ pc[c] = "closing"
    /\ IF inTable(c)
       THEN /\ players' = [players EXCEPT ![rid[c]] = Nobody]
            /\ Collect(c, {d \in {players[r] : r \in Listed \ {rid[c]}} : state[d] = "spawned"})
            /\ Goto(c, "unlist")
            /\ UNCHANGED conn
       ELSE /\ Goto(c, "closed")
            /\ Collect(c, {})
            /\ conn' = [conn EXCEPT ![c] = "lost"]
            /\ UNCHANGED players
    /\ UNCHANGED <<nextID, rid, state, Motd, Told, saved>>

\* Mutant: the loop ends with the first peer.
unlistFirst(c) ==
    /\ pc[c] = "unlist"
    /\ todo' = [todo EXCEPT ![c] = peers[c]]
    /\ Goto(c, "unspawn")
    /\ \/ todo[c] = {} /\ UNCHANGED list
       \/ \E d \in Clients :
            /\ Target(c, d)
            /\ list' = IF conn[d] = "open" THEN [list EXCEPT ![d] = @ \ {c}] ELSE list
    /\ UNCHANGED <<Table, state, conn, peers, Motd, actors, saved>>

\* PlayerList removal to the collected peers, until a write fails.
unlist(c) ==
    /\ pc[c] = "unlist"
    /\ \/ /\ todo[c] = {}
          /\ todo' = [todo EXCEPT ![c] = peers[c]]
          /\ Goto(c, "unspawn")
          /\ UNCHANGED list
       \/ \E d \in Clients :
            /\ Target(c, d)
            /\ IF conn[d] = "open"
               THEN /\ Done(c, d)
                    /\ list' = [list EXCEPT ![d] = @ \ {c}]
                    /\ UNCHANGED pc
               ELSE /\ todo' = [todo EXCEPT ![c] = peers[c]]
                    /\ Goto(c, "unspawn")
                    /\ UNCHANGED list
    /\ UNCHANGED <<Table, state, conn, peers, Motd, actors, saved>>

\* RemoveActor likewise.  (The leave message that follows changes nothing.)
unspawn(c) ==
    /\ pc[c] = "unspawn"
    /\ \/ /\ todo[c] = {}
          /\ Goto(c, "leave")
          /\ UNCHANGED <<todo, actors>>
       \/ \E d \in Clients :
            /\ Target(c, d)
            /\ IF conn[d] = "open"
               THEN /\ Done(c, d)
                    /\ actors' = [actors EXCEPT ![d] = @ \ {rid[c]}]
                    /\ UNCHANGED pc
               ELSE /\ todo' = [todo EXCEPT ![c] = {}]
                    /\ Goto(c, "leave")
                    /\ UNCHANGED actors
    /\ UNCHANGED <<Table, state, conn, peers, Motd, list, saved>>

\* Mutant: a player that had not spawned is not saved.
playerLeftIfSpawned(c) ==
    /\ pc[c] = "leave"
    /\ state' = [state EXCEPT ![c] = "disconnected"]
    /\ saved' = [saved EXCEPT ![c] = IF state[c] = "spawned" THEN @ + 1 ELSE @]
    /\ Goto(c, "left")
    /\ UNCHANGED <<Table, conn, Collected, Motd, Told>>

\* The state, then playerLeft: savePlayer, and updateMOTD.
playerLeft(c) ==
    /\ pc[c] = "leave"
    /\ state' = [state EXCEPT ![c] = "disconnected"]
    /\ saved' = [saved EXCEPT ![c] = @ + 1]
    /\ Goto(c, "left")
    /\ UNCHANGED <<Table, conn, Collected, Motd, Told>>

Session(c) ==
    \/ initPlayerStateFails(c) \/ addPlayer(c) \/ readCount(c) \/ pushCount(c)
    \/ sendStartGame(c) \/ announce(c) \/ readList(c) \/ sendList(c)
    \/ spawnToInitialisedPlayers(c) \/ seePeers(c) \/ showSelf(c)
    \/ writePacketToClients(c)
    \/ readFails(c) \/ removePlayer(c) \/ unlist(c) \/ unspawn(c) \/ playerLeft(c)

Packet(c) ==
    \/ handleLogin(c) \/ handleClientToServerHandshake(c)
    \/ startGame(c)
    \/ handleRequestChunkRadius(c)
    \/ handleSetLocalPlayerAsInitialised(c)
    \/ broadcastToSpawnedPeers(c)
    \/ handlerFails(c)

Next == \E c \in Clients : Session(c) \/ Packet(c) \/ connLost(c)

Spec == Init /\ [][Next]_vars

\* A goroutine that can run eventually runs; clients need not send anything
\* and connections need not fail.
FairSpec == Spec /\ \A c \in Clients : WF_vars(Session(c))

-----------------------------------------------------------------------------
(* Properties *)

\* Every variable has its type.
TypeOK ==
    /\ players \in [RuntimeIDs -> Clients \cup {Nobody}]
    /\ nextID \in 0..MaxRuntimeID
    /\ state \in [Clients -> States]
    /\ rid \in [Clients -> 0..MaxRuntimeID]
    /\ conn \in [Clients -> {"open", "lost"}]
    /\ pc \in [Clients -> Positions]
    /\ todo \in [Clients -> SUBSET Clients]
    /\ peers \in [Clients -> SUBSET Clients]
    /\ count \in [Clients -> Nat]
    /\ motd \in Nat
    /\ list \in [Clients -> SUBSET Clients]
    /\ actors \in [Clients -> SUBSET (0..MaxRuntimeID)]
    /\ saved \in [Clients -> Nat]

\* No handler is running: every session waits for a packet or is over.
Quiet == \A c \in Clients : pc[c] \in {"ready", "closed"}

Left(c) == pc[c] \in {"unlist", "unspawn", "leave", "left", "pushLeft", "closed"}
Playing(c) ==
    /\ rid[c] # 0 /\ ~Left(c)
    /\ state[c] \in {"awaitRadius", "awaitInitialised", "spawned"}

\* The live player table is exact although addPlayer and removePlayer of many
\* sessions interleave: an entry is filed under the current runtime ID of its
\* client, a client that is past StartGame has its entry until removePlayer
\* takes it out, and none is left of a session that has gone.
TableExact ==
    /\ \A r \in RuntimeIDs : players[r] # Nobody => rid[players[r]] = r
    /\ \A c \in Clients : Playing(c) => players[rid[c]] = c
    /\ \A c \in Clients : Left(c) => c \notin allPlayers

\* addPlayer and spawnToInitialisedPlayers leave no pair of players behind:
\* whichever order two of them drew their runtime IDs, entered the table and
\* spawned in, once both handlers are done each has the PlayerList entry of the
\* other, and if both have spawned each has the other's actor.
PeersKnown ==
    \A c, d \in Clients :
        /\ c # d
        /\ \A x \in {c, d} : Playing(x) /\ pc[x] \in {"ready", "broadcast"}
        => /\ d \in list[c]
           /\ state[c] = "spawned" /\ state[d] = "spawned" => rid[d] \in actors[c]

\* playerLeft saves a player exactly once per session that reached the table,
\* however and wherever the session ends, and never while it is playing.  A
\* session that ended before has no runtime ID, or failed in startGame and is
\* still waiting for its packs.
SavedOnce ==
    \A c \in Clients :
        /\ saved[c] <= 1
        /\ pc[c] = "closed" => (saved[c] = 1 <=> rid[c] # 0 /\ state[c] # "awaitPacks")
        /\ Playing(c) => saved[c] = 0

\* When a connection is lost its session ends and its player leaves the table,
\* whatever the peers do and whichever handler was running.
LostSessionsEnd ==
    \A c \in Clients : conn[c] = "lost" ~> pc[c] = "closed" /\ c \notin allPlayers

\* removePlayer "broadcasts `PlayerList` removal, `RemoveActor` and a leave
\* message to remaining spawned players": once the handlers are done nobody
\* keeps the actor of a player that is gone.
NoGhostActors ==
    Quiet => \A c \in Clients :
        conn[c] = "open" /\ state[c] = "spawned" => actors[c] \subseteq Listed

\* The same broadcast, where no write of it fails: unless one of the spawned
\* players that removePlayer collected has lost its connection, which breaks
\* the broadcast off, none of them has the leaving player on its list, and none
\* gets it back from a session that was joining meanwhile.
LeaveReachesPeers ==
    \A c \in Clients :
        pc[c] = "closed" /\ (\A d \in peers[c] : conn[d] = "open")
        => \A d \in peers[c] : c \notin list[d]

\* "When the network session ends, the server ... removes it from the live
\* player table".
EndedSessionsRemoved == \A c \in Clients : pc[c] = "closed" => c \notin allPlayers
=============================================================================
