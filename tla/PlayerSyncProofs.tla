--------------------------- MODULE PlayerSyncProofs --------------------------
(***************************************************************************)
(* For any number of clients, of runtime IDs and of lost connections:      *)
(* PlayerSync is well typed, and when the clients do not repeat the login  *)
(* packets the live player table is exact, every player is saved exactly *)
(* once, players that are done joining know each other and a player that   *)
(* is gone is off the lists of those who were told.                        *)
(***************************************************************************)
EXTENDS PlayerSync, FiniteSetTheorems, TLAPS

\* The packets that lead to startGame: none is sent again when none of them may
\* come out of turn.
LoginPackets == {"RequestNetworkSettings", "Login", "ClientToServerHandshake"}

\* updateMOTD counts a finite table.
LEMMA ListedCount == Cardinality(Listed) \in Nat
<1>1. IsFiniteSet(RuntimeIDs)
  BY PlayerSyncAssumption, FS_Interval DEF RuntimeIDs
<1>2. IsFiniteSet(Listed)
  BY <1>1, FS_Subset DEF Listed
<1> QED
  BY <1>2, FS_CardinalityType

\* Whoever is in the table is a client.
LEMMA AllPlayersAreClients == TypeOK => allPlayers \subseteq Clients
  BY DEF TypeOK, allPlayers, Listed

\* Changing one value of a function keeps its type.
LEMMA PutSet ==
    ASSUME NEW T, NEW f \in [Clients -> SUBSET T], NEW d \in Clients, NEW v \in SUBSET T
    PROVE  [f EXCEPT ![d] = v] \in [Clients -> SUBSET T]
  OBVIOUS

LEMMA TypeInductive == TypeOK /\ [Next]_vars => TypeOK'
<1> SUFFICES ASSUME TypeOK, [Next]_vars PROVE TypeOK'
  OBVIOUS
<1> USE PlayerSyncAssumption DEF TypeOK, Table, Collected, Motd, Told, Goto, Collect,
    Done, RuntimeIDs, States, Positions
<1>todo. todo \in [Clients -> SUBSET Clients] /\ peers \in [Clients -> SUBSET Clients]
  OBVIOUS
<1>list. list \in [Clients -> SUBSET Clients]
  OBVIOUS
<1>actors. actors \in [Clients -> SUBSET (0..MaxRuntimeID)]
  OBVIOUS
<1>rid. \A d \in Clients : rid[d] \in 0..MaxRuntimeID
  OBVIOUS
<1>1. CASE UNCHANGED vars
  BY <1>1 DEF vars
<1>2. ASSUME NEW c \in Clients, Packet(c) PROVE TypeOK'
  <2>1. CASE handleClientToServerHandshake(c)
    BY <2>1 DEF handleClientToServerHandshake
  <2>2. CASE startGame(c)
    BY <2>2 DEF startGame, nextRuntimeID
  <2>3. CASE handleLogin(c)
    BY <2>3 DEF handleLogin
  <2>4. CASE handleRequestChunkRadius(c)
    BY <2>4 DEF handleRequestChunkRadius
  <2>5. CASE handleSetLocalPlayerAsInitialised(c)
    BY <2>5 DEF handleSetLocalPlayerAsInitialised
  <2>6. CASE broadcastToSpawnedPeers(c)
    BY <2>6, AllPlayersAreClients DEF broadcastToSpawnedPeers, spawnedPlayersExcept
  <2>7. CASE handlerFails(c)
    BY <2>7 DEF handlerFails
  <2> QED
    BY <1>2, <2>1, <2>2, <2>3, <2>4, <2>5, <2>6, <2>7 DEF Packet
<1>3. ASSUME NEW c \in Clients, Session(c) PROVE TypeOK'
  <2>1. CASE readCount(c)
    BY <2>1, ListedCount DEF readCount
  <2>2. CASE pushCount(c)
    BY <2>2 DEF pushCount
  <2>3. CASE sendStartGame(c)
    BY <2>3 DEF sendStartGame
  <2>4. CASE announce(c)
    <3>1. pc' \in [Clients -> Positions]
      BY <2>4 DEF announce
    <3>2. todo' \in [Clients -> SUBSET Clients]
      BY <2>4 DEF announce
    <3>3. list' \in [Clients -> SUBSET Clients]
      <4>1. list' = list \/ \E d \in Clients : list' = [list EXCEPT ![d] = list[d] \cup {c}]
        BY <2>4 DEF announce
      <4> HIDE DEF TypeOK
      <4> QED
        BY <4>1, <1>list
    <3> QED
      BY <2>4, <3>1, <3>2, <3>3 DEF announce
  <2>5. CASE readList(c)
    BY <2>5, AllPlayersAreClients DEF readList
  <2>6. CASE sendList(c)
    <3>1. pc' \in [Clients -> Positions]
      <4>1. pc' = [pc EXCEPT ![c] = "ready"] \/ pc' = [pc EXCEPT ![c] = "closing"]
        BY <2>6 DEF sendList
      <4> QED
        BY <4>1
    <3>2. todo' \in [Clients -> SUBSET Clients]
      BY <2>6 DEF sendList
    <3>3. peers' \in [Clients -> SUBSET Clients]
      BY <2>6 DEF sendList
    <3>4. list' \in [Clients -> SUBSET Clients]
      <4>1. list' = list \/ list' = [list EXCEPT ![c] = list[c] \cup todo[c]]
        BY <2>6 DEF sendList
      <4> HIDE DEF TypeOK
      <4> QED
        BY <4>1, <1>list, <1>todo
    <3>5. state' \in [Clients -> States]
      BY <2>6 DEF sendList
    <3> QED
      BY <2>6, <3>1, <3>2, <3>3, <3>4, <3>5 DEF sendList
  <2>7. CASE spawnToInitialisedPlayers(c)
    BY <2>7, AllPlayersAreClients DEF spawnToInitialisedPlayers, spawnedPlayersExcept
  <2>8. CASE seePeers(c)
    <3>1. pc' \in [Clients -> Positions]
      BY <2>8 DEF seePeers
    <3>2. todo' \in [Clients -> SUBSET Clients]
      BY <2>8 DEF seePeers
    <3>3. actors' \in [Clients -> SUBSET (0..MaxRuntimeID)]
      <4>1. actors' = actors \/ \E d \in Clients : actors' = [actors EXCEPT ![c] = actors[c] \cup {rid[d]}]
        BY <2>8 DEF seePeers
      <4> HIDE DEF TypeOK
      <4> QED
        BY <4>1, <1>actors, <1>rid
    <3> QED
      BY <2>8, <3>1, <3>2, <3>3 DEF seePeers
  <2>9. CASE showSelf(c)
    <3>1. pc' \in [Clients -> Positions]
      BY <2>9 DEF showSelf
    <3>2. todo' \in [Clients -> SUBSET Clients]
      BY <2>9 DEF showSelf
    <3>3. peers' \in [Clients -> SUBSET Clients]
      BY <2>9 DEF showSelf
    <3>4. actors' \in [Clients -> SUBSET (0..MaxRuntimeID)]
      <4>1. actors' = actors \/ \E d \in Clients : actors' = [actors EXCEPT ![d] = actors[d] \cup {rid[c]}]
        BY <2>9 DEF showSelf
      <4> HIDE DEF TypeOK
      <4> QED
        BY <4>1, <1>actors, <1>rid
    <3> QED
      BY <2>9, <3>1, <3>2, <3>3, <3>4 DEF showSelf
  <2>10. CASE writePacketToClients(c)
    <3>1. pc' \in [Clients -> Positions]
      BY <2>10 DEF writePacketToClients
    <3>2. todo' \in [Clients -> SUBSET Clients]
      <4>1. \/ todo' = [todo EXCEPT ![c] = {}]
            \/ \E d \in Clients : todo' = [todo EXCEPT ![c] = todo[c] \ {d}]
        BY <2>10 DEF writePacketToClients
      <4> HIDE DEF TypeOK
      <4> QED
        BY <4>1, <1>todo
    <3>3. peers' \in [Clients -> SUBSET Clients]
      BY <2>10 DEF writePacketToClients
    <3> QED
      BY <2>10, <3>1, <3>2, <3>3 DEF writePacketToClients
  <2>11. CASE readFails(c)
    BY <2>11 DEF readFails
  <2>12. CASE removePlayer(c)
    <3> DEFINE others == {d \in {players[r] : r \in Listed \ {rid[c]}} : state[d] = "spawned"}
    <3>1. others \subseteq Clients
      BY DEF Listed
    <3>2. CASE rid[c] # 0 /\ players[rid[c]] = c
      <4>1. /\ players' = [players EXCEPT ![rid[c]] = Nobody]
            /\ todo' = [todo EXCEPT ![c] = others]
            /\ peers' = [peers EXCEPT ![c] = others]
            /\ pc' = [pc EXCEPT ![c] = "unlist"]
            /\ UNCHANGED <<conn, nextID, rid, state, count, motd, list, actors, saved>>
        BY <2>12, <3>2 DEF removePlayer, inTable
      <4> HIDE DEF others
      <4>2. todo' \in [Clients -> SUBSET Clients] /\ peers' \in [Clients -> SUBSET Clients]
        BY <3>1, <4>1, PutSet
      <4> QED
        BY <4>1, <4>2
    <3>3. CASE ~(rid[c] # 0 /\ players[rid[c]] = c)
      <4>1. /\ players' = players
            /\ todo' = [todo EXCEPT ![c] = {}]
            /\ peers' = [peers EXCEPT ![c] = {}]
            /\ pc' = [pc EXCEPT ![c] = "closed"]
            /\ conn' = [conn EXCEPT ![c] = "lost"]
            /\ UNCHANGED <<nextID, rid, state, count, motd, list, actors, saved>>
        BY <2>12, <3>3 DEF removePlayer, inTable
      <4> QED
        BY <4>1
    <3> QED
      BY <3>2, <3>3
  <2>13. CASE unlist(c)
    <3>1. pc' \in [Clients -> Positions]
      BY <2>13 DEF unlist
    <3>2. todo' \in [Clients -> SUBSET Clients]
      <4>1. \/ todo' = [todo EXCEPT ![c] = peers[c]]
            \/ \E d \in Clients : todo' = [todo EXCEPT ![c] = todo[c] \ {d}]
        BY <2>13 DEF unlist
      <4> HIDE DEF TypeOK
      <4> QED
        BY <4>1, <1>todo
    <3>3. list' \in [Clients -> SUBSET Clients]
      <4>1. list' = list \/ \E d \in Clients : list' = [list EXCEPT ![d] = list[d] \ {c}]
        BY <2>13 DEF unlist
      <4> HIDE DEF TypeOK
      <4> QED
        BY <4>1, <1>list
    <3> QED
      BY <2>13, <3>1, <3>2, <3>3 DEF unlist
  <2>14. CASE unspawn(c)
    <3>1. pc' \in [Clients -> Positions]
      BY <2>14 DEF unspawn
    <3>2. todo' \in [Clients -> SUBSET Clients]
      <4>1. \/ todo' = todo \/ todo' = [todo EXCEPT ![c] = {}]
            \/ \E d \in Clients : todo' = [todo EXCEPT ![c] = todo[c] \ {d}]
        BY <2>14 DEF unspawn
      <4> HIDE DEF TypeOK
      <4> QED
        BY <4>1, <1>todo
    <3>3. actors' \in [Clients -> SUBSET (0..MaxRuntimeID)]
      <4>1. actors' = actors \/ \E d \in Clients : actors' = [actors EXCEPT ![d] = actors[d] \ {rid[c]}]
        BY <2>14 DEF unspawn
      <4> HIDE DEF TypeOK
      <4> QED
        BY <4>1, <1>actors, <1>rid
    <3> QED
      BY <2>14, <3>1, <3>2, <3>3 DEF unspawn
  <2>15. CASE playerLeft(c)
    BY <2>15 DEF playerLeft
  <2>16. CASE initPlayerStateFails(c)
    BY <2>16 DEF initPlayerStateFails
  <2>17. CASE addPlayer(c)
    <3>1. allPlayers \ {c} \in SUBSET Clients
      BY AllPlayersAreClients
    <3>2. todo' \in [Clients -> SUBSET Clients] /\ peers' \in [Clients -> SUBSET Clients]
      BY <2>17, <3>1, PutSet DEF addPlayer
    <3> QED
      BY <2>17, <3>2 DEF addPlayer
  <2> QED
    BY <1>3, <2>1, <2>2, <2>3, <2>4, <2>5, <2>6, <2>7, <2>8, <2>9, <2>10, <2>11, <2>12,
       <2>13, <2>14, <2>15, <2>16, <2>17 DEF Session
<1>4. ASSUME NEW c \in Clients, connLost(c) PROVE TypeOK'
  BY <1>4 DEF connLost
<1> QED
  BY <1>1, <1>2, <1>3, <1>4 DEF Next

\* PlayerSync is well typed.
THEOREM TypeCorrect == Spec => []TypeOK
<1>1. Init => TypeOK
  BY PlayerSyncAssumption DEF Init, TypeOK, RuntimeIDs, States, Positions
<1> QED
  BY <1>1, TypeInductive, PTL DEF Spec
-----------------------------------------------------------------------------
(* The table.  The three conjuncts of TableExact are not inductive: whether    *)
(* addPlayer may overwrite an entry depends on the IDs that are still free, and*)
(* whether it may leave a second one behind on who can get to startGame again. *)

\* Runtime IDs are handed out once, and the table holds only those.
FreshIDs ==
    /\ \A c \in Clients : rid[c] <= nextID
    /\ \A c, d \in Clients : c # d /\ rid[c] # 0 => rid[c] # rid[d]
    /\ \A r \in RuntimeIDs : r > nextID => players[r] = Nobody

\* An entry is filed under the runtime ID of its client.
Filed == \A r \in RuntimeIDs : players[r] # Nobody => rid[players[r]] = r

\* A client with a runtime ID is in the table from addPlayer to removePlayer,
\* unless its startGame failed before addPlayer.
Entered ==
    \A c \in Clients :
        /\ rid[c] # 0 /\ ~Left(c) /\ pc[c] # "addPlayer"
        /\ ~(pc[c] = "closing" /\ state[c] = "awaitPacks")
        => players[rid[c]] = c

\* Who has left is not in the table.
Gone == \A c \in Clients : Left(c) => \A r \in RuntimeIDs : players[r] # c

\* startGame runs once per session: who can get there has no runtime ID, and who
\* is about to enter the table has one and is still waiting for its packs.
StartsOnce ==
    \A c \in Clients :
        /\ pc[c] = "addPlayer" => rid[c] # 0 /\ state[c] = "awaitPacks"
        /\ /\ pc[c] \in {"ready", "spawn", "seePeers", "showSelf", "broadcast"}
           /\ state[c] \in {"login", "awaitPacks"}
           => rid[c] = 0

\* Only playerLeft marks a session disconnected, and it saves the player; every
\* session that removePlayer took out of the table goes through it.
SavedAtTheEnd ==
    \A c \in Clients :
        /\ saved[c] = (IF state[c] = "disconnected" THEN 1 ELSE 0)
        /\ state[c] = "disconnected" => pc[c] \in {"left", "pushLeft", "closed"} /\ rid[c] # 0
        /\ pc[c] \in {"unlist", "unspawn", "leave"} => rid[c] # 0
        /\ pc[c] \in {"left", "pushLeft"} => state[c] = "disconnected"
        /\ pc[c] = "closed" /\ rid[c] # 0 /\ state[c] # "awaitPacks" => state[c] = "disconnected"

TableInv == FreshIDs /\ Filed /\ Entered /\ Gone /\ StartsOnce /\ SavedAtTheEnd

AtRest == {"ready", "spawn", "seePeers", "showSelf", "broadcast"}

\* A step of one session that leaves the table and the saved players alone.
LEMMA LocalStep ==
    ASSUME TypeOK, TableInv, UNCHANGED <<players, nextID, rid, saved>>,
           NEW c \in Clients, NEW p, NEW st,
           pc' = [pc EXCEPT ![c] = p], state' = [state EXCEPT ![c] = st],
           Left(c) <=> p \in {"unlist", "unspawn", "leave", "left", "pushLeft", "closed"},
           pc[c] = "closing" => p # pc[c] /\ Left(c),
           p # "addPlayer", pc[c] # "addPlayer",
           p \in AtRest /\ st \in {"login", "awaitPacks"} => rid[c] = 0,
           st = "disconnected" <=> state[c] = "disconnected",
           st = "disconnected" => p \in {"left", "pushLeft", "closed"},
           p \in {"left", "pushLeft", "closed"} => st = "disconnected",
           p \in {"unlist", "unspawn", "leave"} => pc[c] \in {"unlist", "unspawn", "leave"}
    PROVE  TableInv'
<1> USE DEF TypeOK, TableInv
<1>1. \A d \in Clients : d # c => pc'[d] = pc[d] /\ state'[d] = state[d]
  OBVIOUS
<1>2. pc'[c] = p /\ state'[c] = st
  OBVIOUS
<1>3. \A d \in Clients : Left(d)' <=> Left(d)
  BY <1>1, <1>2 DEF Left
<1>4. FreshIDs' /\ Filed'
  BY DEF FreshIDs, Filed
<1>5. Entered'
  BY <1>1, <1>2, <1>3 DEF Entered, Left
<1>6. Gone'
  BY <1>3 DEF Gone
<1>7. StartsOnce'
  BY <1>1, <1>2 DEF StartsOnce, AtRest
<1>8. SavedAtTheEnd'
  BY <1>1, <1>2 DEF SavedAtTheEnd
<1> QED
  BY <1>4, <1>5, <1>6, <1>7, <1>8

\* The same in the form most actions need: only the position changes.
LEMMA Move ==
    ASSUME TypeOK, TableInv, UNCHANGED <<players, nextID, rid, saved, state>>,
           NEW c \in Clients, NEW p, pc' = [pc EXCEPT ![c] = p],
           Left(c) <=> p \in {"unlist", "unspawn", "leave", "left", "pushLeft", "closed"},
           pc[c] = "closing" => Left(c),
           p \in AtRest => rid[c] = 0 \/ pc[c] \in AtRest,
           pc[c] # "closed", pc[c] # "addPlayer", p # "addPlayer",
           pc[c] \in {"left", "pushLeft"} <=> p \in {"left", "pushLeft", "closed"}
    PROVE  TableInv'
<1>1. state' = [state EXCEPT ![c] = state[c]]
  BY DEF TypeOK
<1>2. p \in AtRest /\ state[c] \in {"login", "awaitPacks"} => rid[c] = 0
  BY DEF TableInv, StartsOnce, AtRest
<1>3. state[c] = "disconnected" => p \in {"left", "pushLeft", "closed"}
  BY DEF TableInv, SavedAtTheEnd
<1>4. pc[c] # "closing"
  BY DEF Left
<1>5. p \in {"left", "pushLeft", "closed"} => state[c] = "disconnected"
  BY DEF TableInv, SavedAtTheEnd
<1>6. p \in {"unlist", "unspawn", "leave"} => pc[c] \in {"unlist", "unspawn", "leave"}
  BY DEF Left
<1> QED
  BY <1>1, <1>2, <1>3, <1>4, <1>5, <1>6, LocalStep

LEMMA TableInductive ==
    ASSUME LoginPackets \cap OutOfOrder = {}, TypeOK, TableInv, [Next]_vars
    PROVE  TableInv'
<1> USE DEF Table, Collected, Motd, Told, Goto, AtRest, Left
<1>1. CASE UNCHANGED vars
  BY <1>1 DEF vars, TableInv, FreshIDs, Filed, Entered, Gone, StartsOnce, SavedAtTheEnd
<1>2. ASSUME NEW c \in Clients, Packet(c) PROVE TableInv'
  <2>1. CASE handleClientToServerHandshake(c)
    <3>1. /\ pc[c] = "ready" /\ state[c] = "login"
          /\ pc' = [pc EXCEPT ![c] = "ready"] /\ state' = [state EXCEPT ![c] = "awaitPacks"]
      BY <2>1 DEF handleClientToServerHandshake, Sends, LoginPackets, TypeOK
    <3>2. rid[c] = 0
      BY <3>1 DEF TableInv, StartsOnce
    <3> QED
      BY <2>1, <3>1, <3>2, LocalStep DEF handleClientToServerHandshake
  <2>2. CASE startGame(c)
    <3> USE <2>2 DEF startGame, nextRuntimeID, TypeOK
    <3>1. rid[c] = 0 /\ nextID + 1 \in RuntimeIDs
      BY PlayerSyncAssumption DEF TableInv, StartsOnce, RuntimeIDs
    <3>2. FreshIDs'
      BY <3>1 DEF TableInv, FreshIDs, RuntimeIDs
    <3>3. Filed'
      BY <3>1 DEF TableInv, Filed, RuntimeIDs
    <3>4. Entered' /\ Gone'
      BY <3>1 DEF TableInv, Entered, Gone
    <3>5. StartsOnce' /\ SavedAtTheEnd'
      BY <3>1 DEF TableInv, StartsOnce, SavedAtTheEnd, RuntimeIDs
    <3> QED
      BY <3>2, <3>3, <3>4, <3>5 DEF TableInv
  <2>3. CASE handleLogin(c)
    <3>1. /\ pc[c] = "ready" /\ state[c] = "login"
          /\ pc' = [pc EXCEPT ![c] = "ready"] /\ state' = [state EXCEPT ![c] = "login"]
      BY <2>3 DEF handleLogin, Sends, LoginPackets, TypeOK
    <3>2. rid[c] = 0
      BY <3>1 DEF TableInv, StartsOnce
    <3> QED
      BY <2>3, <3>1, <3>2, LocalStep DEF handleLogin
  <2>4. CASE handleRequestChunkRadius(c)
    <3>1. /\ pc[c] = "ready" /\ pc' = [pc EXCEPT ![c] = "ready"]
          /\ state' = [state EXCEPT ![c] = "awaitInitialised"]
      BY <2>4 DEF handleRequestChunkRadius, Sends, TypeOK
    <3>2. state[c] # "disconnected"
      BY <3>1 DEF TableInv, SavedAtTheEnd
    <3> QED
      BY <2>4, <3>1, <3>2, LocalStep DEF handleRequestChunkRadius
  <2>5. CASE handleSetLocalPlayerAsInitialised(c)
    <3>1. /\ pc[c] = "ready" /\ pc' = [pc EXCEPT ![c] = "spawn"]
          /\ state' = [state EXCEPT ![c] = "spawned"]
      BY <2>5 DEF handleSetLocalPlayerAsInitialised, Sends
    <3>2. state[c] # "disconnected"
      BY <3>1 DEF TableInv, SavedAtTheEnd
    <3> QED
      BY <2>5, <3>1, <3>2, LocalStep DEF handleSetLocalPlayerAsInitialised
  <2>6. CASE broadcastToSpawnedPeers(c)
    BY <2>6, Move DEF broadcastToSpawnedPeers, Sends
  <2>7. CASE handlerFails(c)
    BY <2>7, Move DEF handlerFails
  <2> QED
    BY <1>2, <2>1, <2>2, <2>3, <2>4, <2>5, <2>6, <2>7 DEF Packet
<1>3. ASSUME NEW c \in Clients, Session(c) PROVE TableInv'
  <2>1. CASE readCount(c)
    BY <2>1, Move DEF readCount
  <2>2. CASE pushCount(c)
    BY <2>2, Move DEF pushCount
  <2>3. CASE sendStartGame(c)
    BY <2>3, Move DEF sendStartGame
  <2>4. CASE announce(c)
    <3>1. pc[c] = "announce" /\ \E p \in {"announce", "readList", "closing"} :
                                    pc' = [pc EXCEPT ![c] = p]
      BY <2>4 DEF announce, TypeOK
    <3> QED
      BY <2>4, <3>1, Move DEF announce
  <2>5. CASE readList(c)
    BY <2>5, Move DEF readList
  <2>6. CASE sendList(c)
    <3>1. CASE conn[c] = "open"
      <4>1. /\ pc[c] = "sendList" /\ pc' = [pc EXCEPT ![c] = "ready"]
            /\ state' = [state EXCEPT ![c] = "awaitRadius"]
        BY <2>6, <3>1 DEF sendList
      <4>2. state[c] # "disconnected"
        BY <4>1 DEF TableInv, SavedAtTheEnd
      <4> QED
        BY <2>6, <4>1, <4>2, LocalStep DEF sendList
    <3>2. CASE conn[c] # "open"
      BY <2>6, <3>2, Move DEF sendList
    <3> QED
      BY <3>1, <3>2
  <2>7. CASE spawnToInitialisedPlayers(c)
    BY <2>7, Move DEF spawnToInitialisedPlayers
  <2>8. CASE seePeers(c)
    <3>1. pc[c] = "seePeers" /\ \E p \in {"seePeers", "showSelf", "closing"} :
                                    pc' = [pc EXCEPT ![c] = p]
      BY <2>8 DEF seePeers, TypeOK
    <3> QED
      BY <2>8, <3>1, Move DEF seePeers
  <2>9. CASE showSelf(c)
    <3>1. pc[c] = "showSelf" /\ \E p \in {"showSelf", "ready", "closing"} :
                                    pc' = [pc EXCEPT ![c] = p]
      BY <2>9 DEF showSelf, TypeOK
    <3> QED
      BY <2>9, <3>1, Move DEF showSelf
  <2>10. CASE writePacketToClients(c)
    <3>1. pc[c] = "broadcast" /\ \E p \in {"broadcast", "ready", "closing"} :
                                    pc' = [pc EXCEPT ![c] = p]
      BY <2>10 DEF writePacketToClients, TypeOK
    <3> QED
      BY <2>10, <3>1, Move DEF writePacketToClients
  <2>11. CASE readFails(c)
    BY <2>11, Move DEF readFails
  <2>12. CASE removePlayer(c)
    <3>1. /\ pc[c] = "closing" /\ UNCHANGED <<nextID, rid, state, saved>>
          /\ \E p \in {"unlist", "closed"} : pc' = [pc EXCEPT ![c] = p]
          /\ players' = IF rid[c] # 0 /\ players[rid[c]] = c
                        THEN [players EXCEPT ![rid[c]] = Nobody] ELSE players
      BY <2>12 DEF removePlayer, inTable
    <3> USE <3>1 DEF TypeOK
    <3>2. FreshIDs' /\ Filed'
      BY PlayerSyncAssumption DEF TableInv, FreshIDs, Filed, RuntimeIDs
    <3>3. Gone'
      <4>1. \A r \in RuntimeIDs : players'[r] # c
        <5> SUFFICES ASSUME NEW r \in RuntimeIDs, players'[r] = c PROVE FALSE
          OBVIOUS
        <5>1. c # Nobody /\ r # 0
          BY PlayerSyncAssumption DEF RuntimeIDs
        <5>2. players[r] = c
          BY <5>1
        <5>3. rid[c] = r
          BY <5>1, <5>2 DEF TableInv, Filed
        <5> QED
          BY <5>1, <5>2, <5>3
      <4>2. \A d \in Clients, r \in RuntimeIDs : players'[r] = d => players[r] = d
        BY PlayerSyncAssumption DEF RuntimeIDs
      <4> QED
        BY <4>1, <4>2 DEF TableInv, Gone
    <3>4. Entered'
      BY DEF TableInv, FreshIDs, Entered
    <3>5. StartsOnce'
      BY DEF TableInv, StartsOnce
    <3>6. SavedAtTheEnd'
      <4>1. pc'[c] = "unlist" => rid[c] # 0
        BY <2>12 DEF removePlayer, inTable
      <4>2. pc'[c] = "closed" => rid[c] = 0 \/ state[c] = "awaitPacks"
        BY <2>12 DEF removePlayer, inTable, TableInv, Entered
      <4> QED
        BY <4>1, <4>2 DEF TableInv, SavedAtTheEnd
    <3> QED
      BY <3>2, <3>3, <3>4, <3>5, <3>6 DEF TableInv
  <2>13. CASE unlist(c)
    <3>1. pc[c] = "unlist" /\ \E p \in {"unlist", "unspawn"} : pc' = [pc EXCEPT ![c] = p]
      BY <2>13 DEF unlist, TypeOK
    <3> QED
      BY <2>13, <3>1, Move DEF unlist
  <2>14. CASE unspawn(c)
    <3>1. pc[c] = "unspawn" /\ \E p \in {"unspawn", "leave"} : pc' = [pc EXCEPT ![c] = p]
      BY <2>14 DEF unspawn, TypeOK
    <3> QED
      BY <2>14, <3>1, Move DEF unspawn
  <2>15. CASE playerLeft(c)
    <3> USE <2>15 DEF playerLeft, TypeOK
    <3>1. FreshIDs' /\ Filed' /\ Gone'
      BY DEF TableInv, FreshIDs, Filed, Gone
    <3>2. Entered' /\ StartsOnce'
      BY DEF TableInv, Entered, StartsOnce
    <3>3. SavedAtTheEnd'
      BY DEF TableInv, SavedAtTheEnd
    <3> QED
      BY <3>1, <3>2, <3>3 DEF TableInv
  <2>16. CASE initPlayerStateFails(c)
    <3> USE <2>16 DEF initPlayerStateFails, TypeOK
    <3>1. FreshIDs' /\ Filed' /\ Gone'
      BY DEF TableInv, FreshIDs, Filed, Gone
    <3>2. Entered' /\ StartsOnce'
      BY DEF TableInv, Entered, StartsOnce
    <3>3. SavedAtTheEnd'
      BY DEF TableInv, SavedAtTheEnd
    <3> QED
      BY <3>1, <3>2, <3>3 DEF TableInv
  <2>17. CASE addPlayer(c)
    <3> USE <2>17 DEF addPlayer, TypeOK
    <3>1. /\ rid[c] \in RuntimeIDs /\ rid[c] <= nextID /\ state[c] = "awaitPacks"
          /\ \A d \in Clients : d # c => rid[d] # rid[c]
      BY PlayerSyncAssumption DEF TableInv, FreshIDs, StartsOnce, RuntimeIDs
    <3>2. FreshIDs'
      BY <3>1 DEF TableInv, FreshIDs, RuntimeIDs
    <3>3. Filed'
      BY <3>1 DEF TableInv, Filed
    <3>4. Entered'
      BY <3>1 DEF TableInv, Entered
    <3>5. Gone'
      BY <3>1 DEF TableInv, Gone
    <3>6. StartsOnce' /\ SavedAtTheEnd'
      BY DEF TableInv, StartsOnce, SavedAtTheEnd
    <3> QED
      BY <3>2, <3>3, <3>4, <3>5, <3>6 DEF TableInv
  <2> QED
    BY <1>3, <2>1, <2>2, <2>3, <2>4, <2>5, <2>6, <2>7, <2>8, <2>9, <2>10, <2>11, <2>12,
       <2>13, <2>14, <2>15, <2>16, <2>17 DEF Session
<1>4. ASSUME NEW c \in Clients, connLost(c) PROVE TableInv'
  BY <1>4 DEF connLost, TableInv, FreshIDs, Filed, Entered, Gone, StartsOnce, SavedAtTheEnd
<1> QED
  BY <1>1, <1>2, <1>3, <1>4 DEF Next

LEMMA TableInitially == Init => TableInv
  BY PlayerSyncAssumption
  DEF Init, TableInv, FreshIDs, Filed, Entered, Gone, StartsOnce, SavedAtTheEnd, Left, RuntimeIDs

\* When clients do not repeat the login packets, whatever else they send in
\* whatever order, addPlayer and removePlayer keep the live player table exact.
THEOREM TableIsExact ==
    ASSUME LoginPackets \cap OutOfOrder = {}
    PROVE  Spec => []TableExact
<1>1. TypeOK /\ TableInv => TableExact
  BY DEF TypeOK, TableInv, TableExact, Filed, Entered, Gone, StartsOnce, Playing, Left,
     allPlayers, Listed
<1> QED
  BY <1>1, TableInitially, TypeCorrect, TableInductive, PTL DEF Spec

\* Under the same condition playerLeft saves every player that reached the
\* table exactly once.
THEOREM PlayersSavedOnce ==
    ASSUME LoginPackets \cap OutOfOrder = {}
    PROVE  Spec => []SavedOnce
<1>1. TypeOK /\ TableInv => SavedOnce
  BY DEF TypeOK, TableInv, SavedOnce, SavedAtTheEnd, Playing
<1> QED
  BY <1>1, TableInitially, TypeCorrect, TableInductive, PTL DEF Spec

-----------------------------------------------------------------------------
(* What the players know of each other.  PeersKnown speaks of players whose    *)
(* handlers are done.  Before, whoever is missing an entry is still to get it:  *)
(* of two players the one that entered the table later found the other there   *)
(* and has it on its list of receivers, and the one that entered earlier is in *)
(* the table when the later one reads it.  The order of the runtime IDs says   *)
(* nothing of that order.  Of two spawned ones the one that collected last owes*)
(* both actors.                                                                *)

Joining == {"addPlayer", "joined", "pushJoined", "startGame", "announce", "readList", "sendList"}

\* A session is still in startGame exactly while it waits with a runtime ID.
InStartGame ==
    \A c \in Clients : pc[c] \in Joining => state[c] = "awaitPacks" /\ rid[c] # 0

\* Before a session reads the whole table for its own list.
Unread == {"joined", "pushJoined", "startGame", "announce", "readList"}

\* Before a session has announced itself to those it found in addPlayer.
Unannounced == {"joined", "pushJoined", "startGame", "announce"}

\* The list entry of d is with c, or c has yet to read or to write its own list,
\* or d found c in the table and has yet to announce itself to it, or one of
\* them is ending.
ListOf(c, d) ==
    c # d /\ inTable(c) /\ inTable(d) =>
        \/ d \in list[c]
        \/ pc[c] \in Unread
        \/ pc[c] = "sendList" /\ d \in todo[c]
        \/ pc[d] \in Unannounced /\ c \in todo[d]
        \/ pc[c] = "closing" \/ pc[d] = "closing"

\* The actor of d is with c, or one of their sessions has yet to write it.
ActorOf(c, d) ==
    c # d /\ inTable(c) /\ inTable(d) /\ state[c] = "spawned" /\ state[d] = "spawned" =>
        \/ rid[d] \in actors[c]
        \/ pc[c] \in {"spawn", "closing"} \/ pc[d] \in {"spawn", "closing"}
        \/ pc[c] = "seePeers" /\ d \in todo[c]
        \/ pc[d] = "seePeers" /\ c \in peers[d]
        \/ pc[d] = "showSelf" /\ c \in todo[d]

KnownInv ==
    /\ InStartGame
    /\ \A c, d \in Clients : ListOf(c, d) /\ ActorOf(c, d)

\* The peers that a leaving session collected have joined before and do not join
\* again; those that it is done with have lost the entry, unless a write failed.
LeaveOf(c) ==
    Left(c) =>
        /\ \A d \in peers[c] : rid[d] # 0 /\ pc[d] \notin Joining
        /\ pc[c] = "unlist" => /\ todo[c] \subseteq peers[c]
                               /\ \A d \in peers[c] : d \in todo[c] \/ c \notin list[d]
        /\ pc[c] # "unlist" => \/ \E d \in peers[c] : conn[d] # "open"
                               \/ \A d \in peers[c] : c \notin list[d]

LeaveInv == \A c \in Clients : LeaveOf(c)

\* What is owed between e and all others.
Owed(e) ==
    \A c \in Clients : c # e =>
        ListOf(c, e) /\ ListOf(e, c) /\ ActorOf(c, e) /\ ActorOf(e, c)

\* A step of session e leaves the other sessions where they are, enters none of
\* them in the table and takes nothing from them about each other.
StepOf(e) ==
    /\ \A x \in Clients : x # e =>
          /\ pc'[x] = pc[x] /\ todo'[x] = todo[x] /\ peers'[x] = peers[x]
          /\ state'[x] = state[x] /\ rid'[x] = rid[x]
          /\ inTable(x)' => inTable(x)
    /\ \A x, y \in Clients : x # e /\ y # e /\ inTable(x) /\ inTable(y) =>
          /\ y \in list[x] => y \in list'[x]
          /\ rid[y] \in actors[x] => rid[y] \in actors'[x]

LEMMA KnownStep ==
    ASSUME TypeOK, KnownInv, NEW e \in Clients, StepOf(e), Owed(e)',
           pc'[e] \in Joining => state'[e] = "awaitPacks" /\ rid'[e] # 0
    PROVE  KnownInv'
<1>1. InStartGame'
  BY DEF KnownInv, InStartGame, StepOf
<1>2. ASSUME NEW c \in Clients, NEW d \in Clients PROVE ListOf(c, d)' /\ ActorOf(c, d)'
  <2>1. CASE c = d
    BY <2>1 DEF ListOf, ActorOf
  <2>2. CASE c # d /\ (c = e \/ d = e)
    BY <2>2 DEF Owed
  <2>3. CASE c # e /\ d # e
    <3>1. ListOf(c, d) /\ ActorOf(c, d)
      BY DEF KnownInv
    <3>2. /\ rid'[d] = rid[d]
          /\ pc'[d] = pc[d] /\ todo'[d] = todo[d] /\ peers'[d] = peers[d] /\ state'[d] = state[d]
          /\ pc'[c] = pc[c] /\ todo'[c] = todo[c] /\ state'[c] = state[c]
      BY <2>3 DEF StepOf
    <3>3. inTable(c)' /\ inTable(d)' =>
             /\ inTable(c) /\ inTable(d)
             /\ d \in list[c] => d \in list'[c]
             /\ rid[d] \in actors[c] => rid[d] \in actors'[c]
      BY <2>3 DEF StepOf
    <3>4. ListOf(c, d)'
      BY <3>1, <3>2, <3>3 DEF ListOf
    <3>5. ActorOf(c, d)'
      BY <3>1, <3>2, <3>3 DEF ActorOf
    <3> QED
      BY <3>4, <3>5
  <2> QED
    BY <2>1, <2>2, <2>3
<1> QED
  BY <1>1, <1>2 DEF KnownInv

\* Who has left is not in the table, and who is past startGame does not return.
LEMMA GoneFromTable ==
    ASSUME TypeOK, TableInv, NEW c \in Clients, Left(c)
    PROVE  ~inTable(c)
  BY PlayerSyncAssumption DEF TypeOK, TableInv, Gone, inTable, RuntimeIDs

\* Who is in the table is among allPlayers, and if spawned among the spawned.
LEMMA TableIsListed ==
    ASSUME TypeOK, NEW c \in Clients, inTable(c)
    PROVE  /\ c \in allPlayers
           /\ \A e \in Clients : c # e /\ state[c] = "spawned" => c \in spawnedPlayersExcept(e)
  BY PlayerSyncAssumption DEF TypeOK, inTable, allPlayers, Listed, spawnedPlayersExcept, RuntimeIDs

OthersStay(e) ==
    \A x \in Clients : x # e => pc'[x] = pc[x] /\ todo'[x] = todo[x] /\ peers'[x] = peers[x]

\* A session that only moves on: nothing in the table, the lists, the actors or
\* its state changes.
LEMMA KnownMove ==
    ASSUME TypeOK, TableInv, KnownInv, UNCHANGED <<players, rid, list, actors, state>>,
           NEW e \in Clients, OthersStay(e),
           pc'[e] \in Joining => pc[e] \in Joining,
           Owed(e)'
    PROVE  KnownInv'
<1>1. StepOf(e)
  BY DEF StepOf, OthersStay, inTable
<1>2. pc'[e] \in Joining => state'[e] = "awaitPacks" /\ rid'[e] # 0
  BY DEF KnownInv, InStartGame, TypeOK
<1> QED
  BY <1>1, <1>2, KnownStep

\* Failing or leaving, a session owes nothing any more.
LEMMA KnownEnd ==
    ASSUME TypeOK, TableInv, KnownInv, UNCHANGED <<players, rid, list, actors, state>>,
           NEW e \in Clients, OthersStay(e),
           \/ pc'[e] = "closing"
           \/ Left(e) /\ pc'[e] \in {"unlist", "unspawn", "leave", "left", "pushLeft", "closed"}
    PROVE  KnownInv'
<1>2. Left(e) => ~inTable(e)'
  BY GoneFromTable DEF inTable
<1>3. Owed(e)'
  BY <1>2 DEF Owed, ListOf, ActorOf
<1> QED
  BY <1>3, KnownMove DEF Joining

\* The packets of a client.
LEMMA PacketKnown ==
    ASSUME LoginPackets \cap OutOfOrder = {}, TypeOK, TableInv, KnownInv,
           NEW e \in Clients, Packet(e)
    PROVE  KnownInv'
<1> USE DEF Table, Collected, Motd, Told, Goto, AtRest, Joining, Unread, Unannounced
<1>1. CASE handleClientToServerHandshake(e)
  <2>1. /\ pc[e] = "ready" /\ state[e] = "login" /\ state' = [state EXCEPT ![e] = "awaitPacks"]
        /\ UNCHANGED <<players, rid, pc, todo, peers, list, actors>>
    BY <1>1 DEF handleClientToServerHandshake, Sends, LoginPackets
  <2>2. ~inTable(e)' /\ ~inTable(e)
    BY <2>1 DEF TableInv, StartsOnce, inTable
  <2>3. StepOf(e)
    BY <2>1 DEF StepOf, TypeOK, inTable
  <2>4. Owed(e)'
    BY <2>2 DEF Owed, ListOf, ActorOf
  <2> QED
    BY <2>1, <2>3, <2>4, KnownStep
<1>2. CASE startGame(e)
  <2>1. /\ pc[e] = "ready" /\ state[e] = "awaitPacks" /\ nextID + 1 \in RuntimeIDs
        /\ rid' = [rid EXCEPT ![e] = nextID + 1] /\ pc' = [pc EXCEPT ![e] = "addPlayer"]
        /\ UNCHANGED <<players, state, todo, peers, list, actors>>
    BY <1>2, PlayerSyncAssumption DEF startGame, nextRuntimeID, TypeOK, RuntimeIDs
  <2>2. rid'[e] = nextID + 1 /\ rid'[e] # 0 /\ ~inTable(e)'
    <3>1. rid'[e] = nextID + 1 /\ nextID \in Nat
      BY <2>1, PlayerSyncAssumption DEF TypeOK
    <3>2. players[nextID + 1] = Nobody
      BY <2>1, <3>1 DEF TableInv, FreshIDs
    <3> QED
      BY <2>1, <3>1, <3>2, PlayerSyncAssumption DEF inTable
  <2>3. StepOf(e)
    BY <2>1 DEF StepOf, TypeOK, inTable
  <2>4. Owed(e)'
    BY <2>2 DEF Owed, ListOf, ActorOf
  <2> QED
    BY <2>1, <2>2, <2>3, <2>4, KnownStep
<1>3. CASE handleLogin(e)
  <2>1. /\ pc[e] = "ready" /\ state[e] = "login" /\ state' = [state EXCEPT ![e] = "login"]
        /\ UNCHANGED <<players, rid, pc, todo, peers, list, actors>>
    BY <1>3 DEF handleLogin, Sends, LoginPackets
  <2>2. ~inTable(e)' /\ ~inTable(e)
    BY <2>1 DEF TableInv, StartsOnce, inTable
  <2>3. StepOf(e)
    BY <2>1 DEF StepOf, TypeOK, inTable
  <2>4. Owed(e)'
    BY <2>2 DEF Owed, ListOf, ActorOf
  <2> QED
    BY <2>1, <2>3, <2>4, KnownStep
<1>4. CASE handleRequestChunkRadius(e)
  <2>1. /\ pc[e] = "ready" /\ state' = [state EXCEPT ![e] = "awaitInitialised"]
        /\ UNCHANGED <<players, rid, pc, todo, peers, list, actors>>
    BY <1>4 DEF handleRequestChunkRadius, Sends
  <2>2. StepOf(e)
    BY <2>1 DEF StepOf, TypeOK, inTable
  <2>3. Owed(e)'
    BY <2>1 DEF Owed, KnownInv, ListOf, ActorOf, inTable, TypeOK
  <2> QED
    BY <2>1, <2>2, <2>3, KnownStep
<1>5. CASE handleSetLocalPlayerAsInitialised(e)
  <2>1. /\ pc[e] = "ready" /\ state' = [state EXCEPT ![e] = "spawned"]
        /\ pc' = [pc EXCEPT ![e] = "spawn"]
        /\ UNCHANGED <<players, rid, todo, peers, list, actors>>
    BY <1>5 DEF handleSetLocalPlayerAsInitialised, Sends
  <2>2. StepOf(e) /\ pc'[e] = "spawn"
    BY <2>1 DEF StepOf, TypeOK, inTable
  <2>3. Owed(e)'
    BY <2>1, <2>2 DEF Owed, KnownInv, ListOf, ActorOf, inTable
  <2> QED
    BY <2>2, <2>3, KnownStep
<1>6. CASE broadcastToSpawnedPeers(e)
  <2>1. /\ pc[e] = "ready" /\ pc' = [pc EXCEPT ![e] = "broadcast"]
        /\ todo' = [todo EXCEPT ![e] = spawnedPlayersExcept(e)]
        /\ peers' = [peers EXCEPT ![e] = spawnedPlayersExcept(e)]
        /\ UNCHANGED <<players, rid, state, list, actors>>
    BY <1>6 DEF broadcastToSpawnedPeers, Sends, Collect
  <2>2. pc'[e] = "broadcast" /\ OthersStay(e)
    BY <2>1 DEF TypeOK, OthersStay
  <2>3. Owed(e)'
    BY <2>1, <2>2 DEF Owed, OthersStay, KnownInv, ListOf, ActorOf, inTable
  <2> QED
    BY <2>1, <2>2, <2>3, KnownMove
<1>7. CASE handlerFails(e)
  <2>1. pc'[e] = "closing" /\ OthersStay(e) /\ UNCHANGED <<players, rid, state, list, actors>>
    BY <1>7 DEF handlerFails, TypeOK, OthersStay
  <2> QED
    BY <2>1, KnownEnd
<1> QED
  BY <1>1, <1>2, <1>3, <1>4, <1>5, <1>6, <1>7 DEF Packet

\* startGame from addPlayer on.
LEMMA JoinKnown ==
    ASSUME TypeOK, TableInv, KnownInv, NEW e \in Clients,
           \/ initPlayerStateFails(e) \/ addPlayer(e)
           \/ readCount(e) \/ pushCount(e) \/ sendStartGame(e) \/ announce(e) \/ readList(e)
           \/ sendList(e)
    PROVE  KnownInv'
<1> USE DEF Table, Collected, Motd, Told, Goto, AtRest, Joining, Unread, Unannounced
<1>0. pc[e] \in Joining => state[e] = "awaitPacks" /\ rid[e] # 0
  BY DEF KnownInv, InStartGame
<1>1. CASE readCount(e) \/ pushCount(e)
  <2>1. /\ OthersStay(e) /\ UNCHANGED <<players, rid, state, list, actors, todo, peers>>
        /\ \/ pc[e] \in {"joined", "pushJoined"} /\ pc'[e] \in {"pushJoined", "startGame"}
           \/ pc[e] \in {"left", "pushLeft"} /\ pc'[e] \in {"pushLeft", "closed"}
    BY <1>1 DEF readCount, pushCount, TypeOK, OthersStay
  <2>2. CASE pc[e] \in {"left", "pushLeft"} /\ pc'[e] \in {"pushLeft", "closed"}
    BY <2>1, <2>2, KnownEnd DEF Left
  <2>3. CASE pc[e] \in {"joined", "pushJoined"} /\ pc'[e] \in {"pushJoined", "startGame"}
    <3>1. Owed(e)'
      BY <1>0, <2>1, <2>3 DEF Owed, OthersStay, KnownInv, ListOf, ActorOf, inTable
    <3> QED
      BY <2>1, <2>3, <3>1, KnownMove
  <2> QED
    BY <2>1, <2>2, <2>3
<1>2. CASE sendStartGame(e)
  <2>1. /\ OthersStay(e) /\ UNCHANGED <<players, rid, state, list, actors, todo, peers>>
        /\ pc[e] = "startGame" /\ pc'[e] \in {"announce", "closing"}
    BY <1>2 DEF sendStartGame, TypeOK, OthersStay
  <2>2. CASE pc'[e] = "closing"
    BY <2>1, <2>2, KnownEnd
  <2>3. CASE pc'[e] = "announce"
    <3>1. Owed(e)'
      BY <1>0, <2>1, <2>3 DEF Owed, OthersStay, KnownInv, ListOf, ActorOf, inTable
    <3> QED
      BY <2>1, <2>3, <3>1, KnownMove
  <2> QED
    BY <2>1, <2>2, <2>3
<1>3. CASE announce(e)
  <2>1. pc[e] = "announce" /\ UNCHANGED <<players, rid, state, actors, peers>>
    BY <1>3 DEF announce
  <2>2. CASE todo[e] = {} /\ Goto(e, "readList") /\ UNCHANGED <<todo, list>>
    <3>1. OthersStay(e) /\ pc'[e] = "readList"
      BY <2>1, <2>2 DEF OthersStay, TypeOK
    <3>2. Owed(e)'
      BY <1>0, <2>1, <2>2, <3>1 DEF Owed, OthersStay, KnownInv, ListOf, ActorOf, inTable
    <3> QED
      BY <2>1, <2>2, <3>1, <3>2, KnownMove
  <2>3. ASSUME NEW d \in Clients, d \in todo[e], todo' = [todo EXCEPT ![e] = todo[e] \ {d}],
               list' = [list EXCEPT ![d] = list[d] \cup {e}], UNCHANGED pc
        PROVE  KnownInv'
    <3>1. /\ list'[d] = list[d] \cup {e} /\ \A x \in Clients : x # d => list'[x] = list[x]
          /\ todo'[e] = todo[e] \ {d} /\ \A x \in Clients : x # e => todo'[x] = todo[x]
      BY <2>3 DEF TypeOK
    <3>2. StepOf(e)
      BY <2>1, <2>3, <3>1 DEF StepOf, inTable
    <3>3. Owed(e)'
      BY <1>0, <2>1, <2>3, <3>1 DEF Owed, KnownInv, ListOf, ActorOf, inTable
    <3> QED
      BY <1>0, <2>1, <2>3, <3>2, <3>3, KnownStep
  <2>4. ASSUME NEW d \in Clients, todo' = [todo EXCEPT ![e] = todo[e] \ {d}],
               Goto(e, "closing"), UNCHANGED list
        PROVE  KnownInv'
    <3>1. OthersStay(e) /\ pc'[e] = "closing"
      BY <2>1, <2>4 DEF OthersStay, TypeOK
    <3> QED
      BY <2>1, <2>4, <3>1, KnownEnd
  <2> QED
    BY <1>3, <2>2, <2>3, <2>4 DEF announce, Target, Done
<1>4. CASE readList(e)
  <2>1. /\ pc[e] = "readList" /\ OthersStay(e) /\ UNCHANGED <<players, rid, state, list, actors>>
        /\ pc'[e] = "sendList" /\ todo'[e] = allPlayers
    BY <1>4 DEF readList, Collect, OthersStay, TypeOK
  <2>2. \A c \in Clients : inTable(c) => c \in allPlayers
    BY TableIsListed
  <2>3. Owed(e)'
    BY <1>0, <2>1, <2>2 DEF Owed, OthersStay, KnownInv, ListOf, ActorOf, inTable
  <2> QED
    BY <2>1, <2>3, KnownMove
<1>5. CASE sendList(e)
  <2>1. pc[e] = "sendList" /\ OthersStay(e) /\ UNCHANGED <<players, rid, actors>>
    BY <1>5 DEF sendList, Collect, OthersStay, TypeOK
  <2>2. CASE conn[e] = "open"
    <3>1. /\ pc'[e] = "ready" /\ state'[e] = "awaitRadius"
          /\ \A x \in Clients : x # e => state'[x] = state[x] /\ list'[x] = list[x]
          /\ list'[e] = list[e] \cup todo[e]
      BY <1>5, <2>2 DEF sendList, TypeOK
    <3>2. StepOf(e)
      BY <2>1, <3>1 DEF StepOf, OthersStay, inTable
    <3>3. Owed(e)'
      BY <1>0, <2>1, <3>1 DEF Owed, OthersStay, KnownInv, ListOf, ActorOf, inTable
    <3> QED
      BY <3>1, <3>2, <3>3, KnownStep
  <2>3. CASE conn[e] # "open"
    <3>1. pc'[e] = "closing" /\ UNCHANGED <<list, state>>
      BY <1>5, <2>3 DEF sendList, TypeOK
    <3> QED
      BY <2>1, <3>1, KnownEnd
  <2> QED
    BY <2>2, <2>3
<1>6. CASE initPlayerStateFails(e)
  <2>1. pc'[e] = "closing" /\ OthersStay(e) /\ UNCHANGED <<players, rid, state, list, actors>>
    BY <1>6 DEF initPlayerStateFails, OthersStay, TypeOK
  <2> QED
    BY <2>1, KnownEnd
<1>7. CASE addPlayer(e)
  <2>1. /\ pc[e] = "addPlayer" /\ OthersStay(e) /\ UNCHANGED <<rid, state, list, actors>>
        /\ players' = [players EXCEPT ![rid[e]] = e]
        /\ pc'[e] = "joined" /\ todo'[e] = allPlayers \ {e}
    BY <1>7 DEF addPlayer, Collect, OthersStay, TypeOK
  <2>2. /\ rid[e] \in RuntimeIDs
        /\ \A x \in Clients : x # e => rid[x] # rid[e]
        /\ \A x \in Clients : rid[x] # 0 => rid[x] \in RuntimeIDs
    BY <2>1, <1>0, PlayerSyncAssumption DEF TypeOK, TableInv, FreshIDs, RuntimeIDs
  <2>3. \A x \in Clients : x # e /\ inTable(x)' => inTable(x)
    BY <2>1, <2>2 DEF inTable, TypeOK
  <2>4. StepOf(e)
    BY <2>1, <2>3 DEF StepOf, OthersStay
  <2>5. ASSUME NEW c \in Clients, c # e
        PROVE  ListOf(c, e)' /\ ListOf(e, c)' /\ ActorOf(c, e)' /\ ActorOf(e, c)'
    <3>1. inTable(c)' => c \in todo'[e]
      BY <2>1, <2>3, <2>5, TableIsListed
    <3>2. ListOf(c, e)'
      BY <2>1, <3>1 DEF ListOf, Unannounced
    <3>3. ListOf(e, c)'
      BY <2>1 DEF ListOf, Unread
    <3>4. state'[e] # "spawned"
      BY <1>0, <2>1
    <3> QED
      BY <3>2, <3>3, <3>4 DEF ActorOf
  <2>6. Owed(e)'
    BY <2>5 DEF Owed
  <2> QED
    BY <1>0, <2>1, <2>4, <2>6, KnownStep
<1> QED
  BY <1>1, <1>2, <1>3, <1>4, <1>5, <1>6, <1>7

\* Spawning and playing.
LEMMA SpawnKnown ==
    ASSUME TypeOK, TableInv, KnownInv, NEW e \in Clients,
           \/ spawnToInitialisedPlayers(e) \/ seePeers(e) \/ showSelf(e)
           \/ writePacketToClients(e) \/ readFails(e)
    PROVE  KnownInv'
<1> USE DEF Table, Collected, Motd, Told, Goto, AtRest, Joining, Unread, Unannounced
<1>1. CASE spawnToInitialisedPlayers(e)
  <2>1. /\ pc[e] = "spawn" /\ OthersStay(e) /\ UNCHANGED <<players, rid, state, list, actors>>
        /\ pc'[e] = "seePeers" /\ todo'[e] = spawnedPlayersExcept(e)
        /\ peers'[e] = spawnedPlayersExcept(e)
    BY <1>1 DEF spawnToInitialisedPlayers, Collect, OthersStay, TypeOK
  <2>2. \A c \in Clients : inTable(c) /\ c # e /\ state[c] = "spawned" => c \in spawnedPlayersExcept(e)
    BY TableIsListed
  <2>3. Owed(e)'
    BY <2>1, <2>2 DEF Owed, OthersStay, KnownInv, ListOf, ActorOf, inTable
  <2> QED
    BY <2>1, <2>3, KnownMove
<1>2. CASE seePeers(e)
  <2>1. pc[e] = "seePeers" /\ UNCHANGED <<players, rid, state, list, peers>>
    BY <1>2 DEF seePeers
  <2>2. CASE todo[e] = {} /\ todo' = [todo EXCEPT ![e] = peers[e]] /\ Goto(e, "showSelf")
             /\ UNCHANGED actors
    <3>1. OthersStay(e) /\ pc'[e] = "showSelf" /\ todo'[e] = peers[e]
      BY <2>1, <2>2 DEF OthersStay, TypeOK
    <3>2. Owed(e)'
      BY <2>1, <2>2, <3>1 DEF Owed, OthersStay, KnownInv, ListOf, ActorOf, inTable
    <3> QED
      BY <2>1, <2>2, <3>1, <3>2, KnownMove
  <2>3. ASSUME NEW d \in Clients, todo' = [todo EXCEPT ![e] = todo[e] \ {d}],
               actors' = [actors EXCEPT ![e] = actors[e] \cup {rid[d]}], UNCHANGED pc
        PROVE  KnownInv'
    <3>1. /\ actors'[e] = actors[e] \cup {rid[d]}
          /\ \A x \in Clients : x # e => actors'[x] = actors[x]
          /\ todo'[e] = todo[e] \ {d} /\ \A x \in Clients : x # e => todo'[x] = todo[x]
      BY <2>3 DEF TypeOK
    <3>2. StepOf(e)
      BY <2>1, <2>3, <3>1 DEF StepOf, inTable
    <3>3. Owed(e)'
      BY <2>1, <2>3, <3>1 DEF Owed, KnownInv, ListOf, ActorOf, inTable
    <3> QED
      BY <2>1, <2>3, <3>2, <3>3, KnownStep
  <2>4. ASSUME NEW d \in Clients, todo' = [todo EXCEPT ![e] = todo[e] \ {d}],
               Goto(e, "closing"), UNCHANGED actors
        PROVE  KnownInv'
    <3>1. OthersStay(e) /\ pc'[e] = "closing"
      BY <2>1, <2>4 DEF OthersStay, TypeOK
    <3> QED
      BY <2>1, <2>4, <3>1, KnownEnd
  <2> QED
    BY <1>2, <2>2, <2>3, <2>4 DEF seePeers, Target, Done
<1>3. CASE showSelf(e)
  <2>1. pc[e] = "showSelf" /\ UNCHANGED <<players, rid, state, list>>
    BY <1>3 DEF showSelf
  <2>2. CASE todo[e] = {} /\ Goto(e, "ready") /\ Collect(e, {}) /\ UNCHANGED actors
    <3>1. OthersStay(e) /\ pc'[e] = "ready"
      BY <2>1, <2>2 DEF OthersStay, Collect, TypeOK
    <3>2. Owed(e)'
      BY <2>1, <2>2, <3>1 DEF Owed, OthersStay, KnownInv, ListOf, ActorOf, inTable
    <3> QED
      BY <2>1, <2>2, <3>1, <3>2, KnownMove
  <2>3. ASSUME NEW d \in Clients, todo' = [todo EXCEPT ![e] = todo[e] \ {d}], UNCHANGED peers,
               actors' = [actors EXCEPT ![d] = actors[d] \cup {rid[e]}], UNCHANGED pc
        PROVE  KnownInv'
    <3>1. /\ actors'[d] = actors[d] \cup {rid[e]}
          /\ \A x \in Clients : x # d => actors'[x] = actors[x]
          /\ todo'[e] = todo[e] \ {d} /\ \A x \in Clients : x # e => todo'[x] = todo[x]
      BY <2>3 DEF TypeOK
    <3>2. StepOf(e)
      BY <2>1, <2>3, <3>1 DEF StepOf, inTable
    <3>3. Owed(e)'
      BY <2>1, <2>3, <3>1 DEF Owed, KnownInv, ListOf, ActorOf, inTable
    <3> QED
      BY <2>1, <2>3, <3>2, <3>3, KnownStep
  <2>4. ASSUME NEW d \in Clients, todo' = [todo EXCEPT ![e] = todo[e] \ {d}], UNCHANGED peers,
               Goto(e, "closing"), UNCHANGED actors
        PROVE  KnownInv'
    <3>1. OthersStay(e) /\ pc'[e] = "closing"
      BY <2>1, <2>4 DEF OthersStay, TypeOK
    <3> QED
      BY <2>1, <2>4, <3>1, KnownEnd
  <2> QED
    BY <1>3, <2>2, <2>3, <2>4 DEF showSelf, Target, Done
<1>4. CASE writePacketToClients(e)
  <2>1. /\ pc[e] = "broadcast" /\ UNCHANGED <<players, rid, state, list, actors>>
        /\ OthersStay(e) /\ pc'[e] \in {"broadcast", "ready", "closing"}
    BY <1>4 DEF writePacketToClients, Collect, Target, Done, OthersStay, TypeOK
  <2>2. CASE pc'[e] = "closing"
    BY <2>1, <2>2, KnownEnd
  <2>3. CASE pc'[e] # "closing"
    <3>1. Owed(e)'
      BY <2>1, <2>3 DEF Owed, OthersStay, KnownInv, ListOf, ActorOf, inTable
    <3> QED
      BY <2>1, <2>3, <3>1, KnownMove
  <2> QED
    BY <2>2, <2>3
<1>5. CASE readFails(e)
  <2>1. pc'[e] = "closing" /\ OthersStay(e) /\ UNCHANGED <<players, rid, state, list, actors>>
    BY <1>5 DEF readFails, OthersStay, TypeOK
  <2> QED
    BY <2>1, KnownEnd
<1> QED
  BY <1>1, <1>2, <1>3, <1>4, <1>5

\* Leaving.
LEMMA EndKnown ==
    ASSUME TypeOK, TableInv, KnownInv, NEW e \in Clients,
           removePlayer(e) \/ unlist(e) \/ unspawn(e) \/ playerLeft(e)
    PROVE  KnownInv'
<1> USE DEF Table, Collected, Motd, Told, Goto, AtRest, Joining, Unread, Unannounced
<1>1. CASE removePlayer(e)
  <2>1. /\ pc[e] = "closing" /\ OthersStay(e) /\ UNCHANGED <<rid, state, list, actors>>
        /\ pc'[e] \in {"unlist", "closed"}
        /\ players' = IF inTable(e) THEN [players EXCEPT ![rid[e]] = Nobody] ELSE players
    BY <1>1 DEF removePlayer, Collect, OthersStay, TypeOK
  <2>2. ~inTable(e)' /\ \A x \in Clients : inTable(x)' => inTable(x)
    <3>1. CASE ~inTable(e)
      BY <2>1, <3>1 DEF inTable
    <3>2. CASE inTable(e)
      <4>1. rid[e] \in RuntimeIDs /\ players' = [players EXCEPT ![rid[e]] = Nobody]
        BY <2>1, <3>2, PlayerSyncAssumption DEF inTable, TypeOK, RuntimeIDs
      <4>2. players'[rid[e]] = Nobody /\ \A r \in RuntimeIDs : r # rid[e] => players'[r] = players[r]
        BY <4>1 DEF TypeOK
      <4>3. \A x \in Clients : rid[x] # 0 => rid[x] \in RuntimeIDs
        BY PlayerSyncAssumption DEF TypeOK, RuntimeIDs
      <4> QED
        BY <2>1, <3>2, <4>2, <4>3, PlayerSyncAssumption DEF inTable
    <3> QED
      BY <3>1, <3>2
  <2>3. StepOf(e)
    BY <2>1, <2>2 DEF StepOf, OthersStay
  <2>4. Owed(e)'
    BY <2>2 DEF Owed, ListOf, ActorOf
  <2> QED
    BY <2>1, <2>3, <2>4, KnownStep
<1>2. CASE unlist(e)
  <2>1. /\ pc[e] = "unlist" /\ OthersStay(e) /\ UNCHANGED <<players, rid, state, actors>>
        /\ pc'[e] \in {"unlist", "unspawn"}
    BY <1>2 DEF unlist, Target, Done, OthersStay, TypeOK
  <2>5. \A x \in Clients : list[x] \ {e} \subseteq list'[x]
    <3>1. list' = list \/ \E d \in Clients : list' = [list EXCEPT ![d] = list[d] \ {e}]
      BY <1>2 DEF unlist
    <3> QED
      BY <3>1 DEF TypeOK
  <2>2. ~inTable(e) /\ ~inTable(e)'
    BY <2>1, GoneFromTable DEF Left, inTable
  <2>3. StepOf(e)
    BY <2>1, <2>2, <2>5 DEF StepOf, OthersStay, inTable
  <2>4. Owed(e)'
    BY <2>2 DEF Owed, ListOf, ActorOf
  <2> QED
    BY <2>1, <2>3, <2>4, KnownStep
<1>3. CASE unspawn(e)
  <2>1. /\ pc[e] = "unspawn" /\ OthersStay(e) /\ UNCHANGED <<players, rid, state, list>>
        /\ pc'[e] \in {"unspawn", "leave"}
        /\ \A x \in Clients : actors[x] \ {rid[e]} \subseteq actors'[x]
    BY <1>3 DEF unspawn, Target, Done, OthersStay, TypeOK
  <2>2. ~inTable(e) /\ ~inTable(e)'
    BY <2>1, GoneFromTable DEF Left, inTable
  <2>3. \A y \in Clients : y # e => rid[y] # rid[e]
    BY <2>1 DEF TableInv, FreshIDs, SavedAtTheEnd
  <2>4. StepOf(e)
    BY <2>1, <2>2, <2>3 DEF StepOf, OthersStay, inTable
  <2>5. Owed(e)'
    BY <2>2 DEF Owed, ListOf, ActorOf
  <2> QED
    BY <2>1, <2>4, <2>5, KnownStep
<1>4. CASE playerLeft(e)
  <2>1. /\ pc[e] = "leave" /\ OthersStay(e) /\ UNCHANGED <<players, rid, list, actors>>
        /\ pc'[e] = "left" /\ \A x \in Clients : x # e => state'[x] = state[x]
    BY <1>4 DEF playerLeft, OthersStay, TypeOK
  <2>2. ~inTable(e) /\ ~inTable(e)'
    BY <2>1, GoneFromTable DEF Left, inTable
  <2>3. StepOf(e)
    BY <2>1 DEF StepOf, OthersStay, inTable
  <2>4. Owed(e)'
    BY <2>2 DEF Owed, ListOf, ActorOf
  <2> QED
    BY <2>1, <2>3, <2>4, KnownStep
<1> QED
  BY <1>1, <1>2, <1>3, <1>4

LEMMA KnownInductive ==
    ASSUME LoginPackets \cap OutOfOrder = {}, TypeOK, TableInv, KnownInv, [Next]_vars
    PROVE  KnownInv'
<1>1. CASE UNCHANGED vars
  BY <1>1 DEF vars, KnownInv, InStartGame, ListOf, ActorOf, inTable
<1>2. ASSUME NEW c \in Clients, connLost(c) PROVE KnownInv'
  BY <1>2 DEF connLost, Table, Collected, Told, KnownInv, InStartGame, ListOf, ActorOf, inTable
<1>3. ASSUME NEW c \in Clients, Session(c) PROVE KnownInv'
  BY <1>3, JoinKnown, SpawnKnown, EndKnown DEF Session
<1> QED
  BY <1>1, <1>2, <1>3, PacketKnown DEF Next

\* When clients do not repeat the login packets, whatever else they send and
\* however many connections are lost: once the handlers of two players are
\* done, each has the other's PlayerList entry and, when both have spawned, the
\* other's actor, whichever order they drew their runtime IDs, entered the table
\* and spawned in (startGame, addPlayer, sendInitialPlayerSync,
\* spawnToInitialisedPlayers).
THEOREM PlayersKnowEachOther ==
    ASSUME LoginPackets \cap OutOfOrder = {}
    PROVE  Spec => []PeersKnown
<1>1. Init => TableInv /\ KnownInv
  BY TableInitially DEF Init, KnownInv, InStartGame, ListOf, ActorOf, inTable, Joining
<1>2. TypeOK /\ TableInv /\ KnownInv /\ [Next]_vars => (TableInv /\ KnownInv)'
  BY TableInductive, KnownInductive
<1>3. TypeOK /\ TableInv /\ KnownInv => PeersKnown
  <2> SUFFICES ASSUME TypeOK, TableInv, KnownInv, NEW c \in Clients, NEW d \in Clients, c # d,
                      Playing(c), pc[c] \in {"ready", "broadcast"},
                      Playing(d), pc[d] \in {"ready", "broadcast"}
               PROVE  /\ d \in list[c]
                      /\ state[c] = "spawned" /\ state[d] = "spawned" => rid[d] \in actors[c]
    BY DEF PeersKnown
  <2>1. inTable(c) /\ inTable(d)
    BY DEF TableInv, Entered, Playing, inTable
  <2>2. d \in list[c]
    BY <2>1 DEF KnownInv, ListOf, Unread, Unannounced
  <2>3. state[c] = "spawned" /\ state[d] = "spawned" => rid[d] \in actors[c]
    BY <2>1 DEF KnownInv, ActorOf
  <2> QED
    BY <2>2, <2>3
<1> QED
  BY <1>1, <1>2, <1>3, TypeCorrect, PTL DEF Spec
-----------------------------------------------------------------------------
(* Leaving.  A peer that removePlayer collected could get the entry back from  *)
(* readList of its own join or from the announcement of the leaving player:    *)
(* neither is still to come when the entry is taken away.                      *)

\* What a step of e may do to the leave of another session: lists grow by e
\* only, except the list of e itself while it joins.
LeaveStepOf(e) ==
    /\ OthersStay(e)
    /\ \A x \in Clients : rid[x] # 0 => rid'[x] # 0
    /\ \A x \in Clients : conn'[x] = "open" => conn[x] = "open"
    /\ pc'[e] \in Joining => pc[e] \in Joining \/ rid[e] = 0
    /\ \A x \in Clients : list'[x] \subseteq list[x] \cup {e} \/ (x = e /\ pc[e] \in Joining)

LEMMA LeaveOthers ==
    ASSUME TypeOK, LeaveInv, NEW e \in Clients, LeaveStepOf(e), LeaveOf(e)'
    PROVE  LeaveInv'
<1> SUFFICES ASSUME NEW c \in Clients, c # e, Left(c)' PROVE LeaveOf(c)'
  BY DEF LeaveInv, LeaveOf
<1>1. pc'[c] = pc[c] /\ todo'[c] = todo[c] /\ peers'[c] = peers[c]
  BY DEF LeaveStepOf, OthersStay
<1>2. LeaveOf(c) /\ Left(c) /\ peers[c] \subseteq Clients
  BY <1>1 DEF LeaveInv, Left, TypeOK
<1>3. \A d \in peers[c] : rid[d] # 0 /\ pc[d] \notin Joining
  BY <1>2 DEF LeaveOf
<1>4. ASSUME NEW d \in peers[c]
      PROVE  /\ rid'[d] # 0 /\ pc'[d] \notin Joining
             /\ conn'[d] = "open" => conn[d] = "open"
             /\ c \notin list[d] => c \notin list'[d]
  BY <1>2, <1>3 DEF LeaveStepOf, OthersStay
<1> QED
  BY <1>1, <1>2, <1>4 DEF LeaveOf

\* A step of a session that has not left.
LEMMA LeaveStay ==
    ASSUME TypeOK, LeaveInv, NEW e \in Clients, LeaveStepOf(e), ~Left(e)'
    PROVE  LeaveInv'
  BY LeaveOthers DEF LeaveOf

\* A step of a session that is past unlist: its peers and the lists stay.
LEMMA LeaveOn ==
    ASSUME TypeOK, LeaveInv, NEW e \in Clients, OthersStay(e), UNCHANGED <<rid, list>>,
           \A x \in Clients : conn'[x] = "open" => conn[x] = "open",
           pc[e] \in {"unspawn", "leave", "left", "pushLeft"}, peers'[e] = peers[e],
           pc'[e] \in {"unspawn", "leave", "left", "pushLeft", "closed"}
    PROVE  LeaveInv'
<1>1. LeaveStepOf(e)
  BY DEF LeaveStepOf, Joining
<1>2. LeaveOf(e) /\ Left(e) /\ e \notin peers[e] \cap {d \in Clients : pc[d] \in Joining}
  BY DEF LeaveInv, Left, LeaveOf
<1>3. \A d \in peers[e] : d \in Clients /\ (d # e => pc'[d] = pc[d])
  BY DEF TypeOK, OthersStay
<1>4. LeaveOf(e)'
  BY <1>2, <1>3 DEF LeaveOf, Joining
<1> QED
  BY <1>1, <1>4, LeaveOthers

LEMMA LeaveInductive ==
    ASSUME LoginPackets \cap OutOfOrder = {},
           TypeOK, TableInv, InStartGame, LeaveInv, [Next]_vars
    PROVE  LeaveInv'
<1> USE DEF Table, Collected, Motd, Told, Goto, Joining
<1>1. CASE UNCHANGED vars
  BY <1>1 DEF vars, LeaveInv, LeaveOf, Left
<1>2. ASSUME NEW e \in Clients, connLost(e) PROVE LeaveInv'
  <2>1. conn' = [conn EXCEPT ![e] = "lost"] /\ UNCHANGED <<rid, pc, todo, peers, list>>
    BY <1>2 DEF connLost
  <2>2. \A x \in Clients : conn'[x] = "open" => conn[x] = "open"
    BY <2>1 DEF TypeOK
  <2> QED
    BY <2>1, <2>2 DEF LeaveInv, LeaveOf, Left, TypeOK
<1>3. ASSUME NEW e \in Clients, Packet(e) PROVE LeaveInv'
  <2>1. pc[e] = "ready" /\ UNCHANGED <<conn, list>> /\ OthersStay(e)
    BY <1>3 DEF Packet, Sends, handleLogin, handleClientToServerHandshake, startGame,
       handleRequestChunkRadius, handleSetLocalPlayerAsInitialised, broadcastToSpawnedPeers,
       handlerFails, Collect, OthersStay, TypeOK
  <2>2. pc'[e] \in {"ready", "addPlayer", "closing", "spawn", "broadcast"}
    BY <1>3, <2>1 DEF Packet, handleLogin, handleClientToServerHandshake, startGame,
       handleRequestChunkRadius, handleSetLocalPlayerAsInitialised, broadcastToSpawnedPeers,
       handlerFails, TypeOK
  <2>3. pc'[e] = "addPlayer" => rid[e] = 0
    <3>1. pc'[e] = "addPlayer" => state[e] = "awaitPacks"
      BY <1>3, <2>1 DEF Packet, handleLogin, handleClientToServerHandshake, startGame,
         handleRequestChunkRadius, handleSetLocalPlayerAsInitialised, broadcastToSpawnedPeers,
         handlerFails, TypeOK
    <3> QED
      BY <2>1, <3>1 DEF TableInv, StartsOnce
  <2>4. \A x \in Clients : rid[x] # 0 => rid'[x] # 0
    <3>1. rid' = rid \/ rid' = [rid EXCEPT ![e] = nextID + 1]
      BY <1>3 DEF Packet, handleLogin, handleClientToServerHandshake, startGame, nextRuntimeID,
         handleRequestChunkRadius, handleSetLocalPlayerAsInitialised, broadcastToSpawnedPeers,
         handlerFails
    <3>2. nextID + 1 # 0
      BY PlayerSyncAssumption DEF TypeOK
    <3> QED
      BY <3>1, <3>2 DEF TypeOK
  <2>5. LeaveStepOf(e)
    BY <2>1, <2>2, <2>3, <2>4 DEF LeaveStepOf
  <2> QED
    BY <2>2, <2>5, LeaveStay DEF Left
<1>4. ASSUME NEW e \in Clients,
             \/ readCount(e) /\ pc[e] = "joined"
             \/ pushCount(e) /\ pc[e] = "pushJoined"
             \/ sendStartGame(e) \/ announce(e) \/ readList(e)
             \/ initPlayerStateFails(e) \/ addPlayer(e)
      PROVE  LeaveInv'
  <2>1. /\ UNCHANGED <<rid, conn>> /\ OthersStay(e) /\ pc[e] \in Joining
        /\ pc'[e] \in Joining \cup {"closing"}
    BY <1>4 DEF readCount, pushCount, sendStartGame, announce, readList, initPlayerStateFails,
       addPlayer, Collect, Done, OthersStay, TypeOK
  <2>2. list' = list \/ \E d \in Clients : list' = [list EXCEPT ![d] = list[d] \cup {e}]
    BY <1>4 DEF readCount, pushCount, sendStartGame, announce, readList, initPlayerStateFails,
       addPlayer
  <2>3. \A x \in Clients : list'[x] \subseteq list[x] \cup {e}
    BY <2>2 DEF TypeOK
  <2>4. LeaveStepOf(e)
    BY <2>1, <2>3 DEF LeaveStepOf
  <2> QED
    BY <2>1, <2>4, LeaveStay DEF Left
<1>5. ASSUME NEW e \in Clients, sendList(e) PROVE LeaveInv'
  <2>1. /\ UNCHANGED <<rid, conn>> /\ OthersStay(e) /\ pc[e] = "sendList"
        /\ pc'[e] \in {"ready", "closing"}
    BY <1>5 DEF sendList, Collect, OthersStay, TypeOK
  <2>2. list' = list \/ list' = [list EXCEPT ![e] = list[e] \cup todo[e]]
    BY <1>5 DEF sendList
  <2>3. \A x \in Clients : x # e => list'[x] = list[x]
    BY <2>2 DEF TypeOK
  <2>4. LeaveStepOf(e)
    BY <2>1, <2>3 DEF LeaveStepOf
  <2> QED
    BY <2>1, <2>4, LeaveStay DEF Left
<1>6. ASSUME NEW e \in Clients,
             \/ spawnToInitialisedPlayers(e) \/ seePeers(e) \/ showSelf(e)
             \/ writePacketToClients(e) \/ readFails(e)
      PROVE  LeaveInv'
  <2>1. UNCHANGED <<rid, conn, list>> /\ OthersStay(e)
    BY <1>6 DEF spawnToInitialisedPlayers, seePeers, showSelf, writePacketToClients, readFails,
       Collect, Done, OthersStay, TypeOK
  <2>2. pc'[e] \in AtRest \cup {"closing"}
    BY <1>6 DEF spawnToInitialisedPlayers, seePeers, showSelf, writePacketToClients, readFails,
       AtRest, TypeOK
  <2>3. LeaveStepOf(e)
    BY <2>1, <2>2 DEF LeaveStepOf, AtRest
  <2> QED
    BY <2>2, <2>3, LeaveStay DEF Left, AtRest
<1>7. ASSUME NEW e \in Clients, removePlayer(e) PROVE LeaveInv'
  <2>1. /\ UNCHANGED <<rid, list>> /\ OthersStay(e) /\ pc[e] = "closing"
        /\ pc'[e] \in {"unlist", "closed"}
        /\ \A x \in Clients : conn'[x] = "open" => conn[x] = "open"
    BY <1>7 DEF removePlayer, Collect, OthersStay, TypeOK
  <2>2. LeaveStepOf(e)
    BY <2>1 DEF LeaveStepOf
  <2>3. CASE inTable(e)
    <3>1. /\ pc'[e] = "unlist" /\ todo'[e] = peers'[e]
          /\ peers'[e] = {d \in {players[r] : r \in Listed \ {rid[e]}} : state[d] = "spawned"}
      <4> DEFINE found == {d \in {players[r] : r \in Listed \ {rid[e]}} : state[d] = "spawned"}
      <4>1. pc' = [pc EXCEPT ![e] = "unlist"] /\ Collect(e, found)
        BY <1>7, <2>3 DEF removePlayer
      <4> HIDE DEF found
      <4>2. pc'[e] = "unlist" /\ todo'[e] = found /\ peers'[e] = found
        BY <4>1 DEF Collect, TypeOK
      <4> QED
        BY <4>2 DEF found
    <3>2. ASSUME NEW d \in peers'[e] PROVE rid'[d] # 0 /\ pc'[d] \notin Joining
      <4>1. PICK r \in RuntimeIDs : players[r] = d /\ players[r] # Nobody
        BY <3>1, <3>2 DEF Listed
      <4>2. d \in Clients /\ rid[d] = r /\ state[d] = "spawned"
        BY <3>1, <3>2, <4>1 DEF TypeOK, TableInv, Filed
      <4>3. rid[d] # 0
        BY <4>2, PlayerSyncAssumption DEF RuntimeIDs
      <4>4. pc[d] \notin Joining
        BY <4>2 DEF InStartGame
      <4> QED
        BY <2>1, <4>2, <4>3, <4>4 DEF OthersStay
    <3>3. LeaveOf(e)'
      BY <3>1, <3>2 DEF LeaveOf
    <3> QED
      BY <2>2, <3>3, LeaveOthers
  <2>4. CASE ~inTable(e)
    <3>1. peers'[e] = {} /\ pc'[e] = "closed"
      BY <1>7, <2>4 DEF removePlayer, Collect, TypeOK
    <3>2. LeaveOf(e)'
      BY <3>1 DEF LeaveOf
    <3> QED
      BY <2>2, <3>2, LeaveOthers
  <2> QED
    BY <2>3, <2>4
<1>8. ASSUME NEW e \in Clients, unlist(e) PROVE LeaveInv'
  <2>1. /\ UNCHANGED <<rid, conn, peers>> /\ OthersStay(e) /\ pc[e] = "unlist"
        /\ pc'[e] \in {"unlist", "unspawn"}
    BY <1>8 DEF unlist, Done, OthersStay, TypeOK
  <2>2. list' = list \/ \E d \in Clients : list' = [list EXCEPT ![d] = list[d] \ {e}]
    BY <1>8 DEF unlist
  <2>3. \A x \in Clients : list'[x] \subseteq list[x]
    BY <2>2 DEF TypeOK
  <2>4. LeaveStepOf(e)
    BY <2>1, <2>3 DEF LeaveStepOf
  <2>5. /\ \A d \in peers[e] : rid[d] # 0 /\ pc[d] \notin Joining
        /\ todo[e] \subseteq peers[e] /\ \A d \in peers[e] : d \in todo[e] \/ e \notin list[d]
    BY <2>1 DEF LeaveInv, LeaveOf, Left
  <2>6. \A d \in peers'[e] : rid'[d] # 0 /\ pc'[d] \notin Joining
    BY <2>1, <2>5 DEF OthersStay, TypeOK
  <2>7. LeaveOf(e)'
    <3>1. CASE todo[e] = {} /\ pc' = [pc EXCEPT ![e] = "unspawn"] /\ UNCHANGED list
      <4>1. pc'[e] = "unspawn" /\ \A d \in peers'[e] : e \notin list'[d]
        BY <2>1, <2>5, <3>1 DEF TypeOK
      <4> QED
        BY <2>6, <4>1 DEF LeaveOf
    <3>2. ASSUME NEW d \in Clients, Target(e, d), conn[d] = "open", Done(e, d),
                 list' = [list EXCEPT ![d] = list[d] \ {e}], UNCHANGED pc
          PROVE  LeaveOf(e)'
      <4>1. pc'[e] = "unlist" /\ todo'[e] = todo[e] \ {d} /\ e \notin list'[d]
        BY <2>1, <3>2 DEF Done, TypeOK
      <4>2. \A x \in peers'[e] : x \in todo'[e] \/ e \notin list'[x]
        BY <2>1, <2>3, <2>5, <4>1 DEF TypeOK
      <4> QED
        BY <2>1, <2>5, <2>6, <4>1, <4>2 DEF LeaveOf
    <3>3. ASSUME NEW d \in Clients, Target(e, d), conn[d] # "open", pc' = [pc EXCEPT ![e] = "unspawn"]
          PROVE  LeaveOf(e)'
      <4>1. pc'[e] = "unspawn" /\ d \in peers'[e] /\ conn'[d] # "open"
        BY <2>1, <2>5, <3>3 DEF Target, TypeOK
      <4> QED
        BY <2>6, <4>1 DEF LeaveOf
    <3> QED
      BY <1>8, <3>1, <3>2, <3>3 DEF unlist
  <2> QED
    BY <2>4, <2>7, LeaveOthers
<1>9. ASSUME NEW e \in Clients,
             \/ unspawn(e) \/ playerLeft(e)
             \/ readCount(e) /\ pc[e] = "left"
             \/ pushCount(e) /\ pc[e] = "pushLeft"
      PROVE  LeaveInv'
  <2>1. /\ UNCHANGED <<rid, list, peers>> /\ OthersStay(e)
        /\ pc[e] \in {"unspawn", "leave", "left", "pushLeft"}
        /\ pc'[e] \in {"unspawn", "leave", "left", "pushLeft", "closed"}
    BY <1>9 DEF unspawn, playerLeft, readCount, pushCount, Done, OthersStay, TypeOK
  <2>2. \A x \in Clients : conn'[x] = "open" => conn[x] = "open"
    BY <1>9 DEF unspawn, playerLeft, readCount, pushCount, TypeOK
  <2> QED
    BY <2>1, <2>2, LeaveOn
<1> QED
  BY <1>1, <1>2, <1>3, <1>4, <1>5, <1>6, <1>7, <1>8, <1>9
     DEF Next, Session, readCount, pushCount

\* When clients do not repeat the login packets: a player whose session is
\* over is on the list of none of the spawned players that removePlayer found,
\* unless one of their connections was lost, which breaks the broadcast off; no
\* session that joins, spawns or leaves meanwhile puts the entry back.
THEOREM LeavesReachPeers ==
    ASSUME LoginPackets \cap OutOfOrder = {}
    PROVE  Spec => []LeaveReachesPeers
<1>1. Init => TableInv /\ KnownInv /\ LeaveInv
  BY TableInitially DEF Init, KnownInv, InStartGame, ListOf, ActorOf, inTable, Joining,
     LeaveInv, LeaveOf, Left
<1>2. TypeOK /\ TableInv /\ KnownInv /\ LeaveInv /\ [Next]_vars => (TableInv /\ KnownInv /\ LeaveInv)'
  BY TableInductive, KnownInductive, LeaveInductive DEF KnownInv
<1>3. LeaveInv => LeaveReachesPeers
  BY DEF LeaveInv, LeaveOf, LeaveReachesPeers, Left
<1> QED
  BY <1>1, <1>2, <1>3, TypeCorrect, PTL DEF Spec
=============================================================================
