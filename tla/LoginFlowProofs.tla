--------------------------- MODULE LoginFlowProofs ---------------------------
(***************************************************************************)
(* For any set of resource packs, any sizes, any chunk size and any number *)
(* of other sessions that write: what a session has written, which pack it *)
(* is sending, and that both ends of the connection decode what they read. *)
(***************************************************************************)
EXTENDS LoginFlow, FoldProofs, SequenceTheorems

-----------------------------------------------------------------------------
(* Begin: Once(packs) *)

\* One step of Once, and the recursion that FoldLeft sets up for it.
SeeOnce(seen, p) == IF p \in Range(seen) THEN seen ELSE Append(seen, p)

OnceStep(packs, g, s) ==
    IF s = {} THEN << >> ELSE SeeOnce(g[s \ {Max(s)}], packs[Max(s)])

Onces(packs) == CHOOSE g : g = [s \in SUBSET DOMAIN packs |-> OnceStep(packs, g, s)]

LEMMA OnceIs ==
    ASSUME NEW packs
    PROVE  Once(packs) = Onces(packs)[DOMAIN packs]
  BY DEF Once, FoldLeft, MapThenFoldSet, Onces, OnceStep, SeeOnce

\* The greatest index of a set of them.
LEMMA MaxIndex ==
    ASSUME NEW n \in Nat, NEW s \in SUBSET (1..n), s # {}
    PROVE  Max(s) \in s /\ \A i \in s : i <= Max(s)
<1>1. \E m \in s : \A y \in s : m >= y
  <2>1. s \in SUBSET Int /\ n \in Int
    OBVIOUS
  <2>4. \A y \in s : y <= n
    OBVIOUS
  <2>2. PICK m \in s : \A y \in s : y <= m
    BY <2>1, <2>4, HasGreatest
  <2>3. \A y \in s : m >= y
    BY <2>2
  <2> QED
    BY <2>3
<1>2. Max(s) \in s /\ \A i \in s : Max(s) >= i
  BY <1>1 DEF Max
<1> QED
  BY <1>2

\* The recursion has a solution.
LEMMA OncesUnfold ==
    ASSUME NEW P, NEW packs \in Seq(P)
    PROVE  \A s \in SUBSET DOMAIN packs : Onces(packs)[s] = OnceStep(packs, Onces(packs), s)
<1> DEFINE S == DOMAIN packs
           V == Seq(P)
           first == [s \in SUBSET S |-> Max(s)]
           step == [x \in S \X V |-> SeeOnce(x[2], packs[x[1]])]
           base == << >>
<1>1. S = 1..Len(packs) /\ Len(packs) \in Nat /\ IsFiniteSet(S)
  BY LenProperties, FS_Interval
<1>2. \A s \in SUBSET S : s # {} => first[s] \in s /\ first[s] = Max(s)
  BY <1>1, MaxIndex
<1>3. step \in [S \X V -> V]
  <2>1. ASSUME NEW i \in S, NEW v \in V PROVE SeeOnce(v, packs[i]) \in V
    BY <1>1 DEF SeeOnce
  <2> QED
    BY <2>1
<1>4. base \in V
  OBVIOUS
<1>5. \A i \in S, v \in V : step[<<i, v>>] = SeeOnce(v, packs[i])
  OBVIOUS
<1>11. \A s \in SUBSET S : s # {} => first[s] \in s
  BY <1>2
<1>12. IsFiniteSet(S)
  BY <1>1
<1> HIDE DEF first, step, base, V, S
<1>13. Foldable(S, V, base, first, step)
  BY <1>3, <1>4, <1>11, <1>12 DEF Foldable
<1>14. PICK g : IsFold(S, V, base, first, step, g)
  BY <1>13, FoldsExist
<1>6. g \in [SUBSET S -> V] /\ \A s \in SUBSET S : g[s] = FoldStep(base, first, step, g, s)
  BY <1>14 DEF IsFold
<1>7. ASSUME NEW s \in SUBSET S PROVE g[s] = OnceStep(packs, g, s)
  <2>1. CASE s = {}
    BY <1>6, <2>1 DEF FoldStep, OnceStep, base
  <2>2. CASE s # {}
    <3>1. first[s] = Max(s) /\ first[s] \in S /\ g[s \ {first[s]}] \in V
      BY <1>2, <1>6, <2>2
    <3>2. g[s] = step[<<first[s], g[s \ {first[s]}]>>]
      BY <1>6, <2>2 DEF FoldStep
    <3> QED
      BY <1>5, <2>2, <3>1, <3>2 DEF OnceStep
  <2> QED
    BY <2>1, <2>2
<1>8. g = [s \in SUBSET S |-> OnceStep(packs, g, s)]
  BY <1>6, <1>7
<1> USE DEF S
<1> DEFINE o == Onces(packs)
<1>9. o = [s \in SUBSET S |-> OnceStep(packs, o, s)]
  BY <1>8 DEF Onces
<1> HIDE DEF o
<1>10. \A s \in SUBSET S : o[s] = OnceStep(packs, o, s)
  BY <1>9
<1> QED
  BY <1>10 DEF o

\* Begin selects packs of the request only, and its first pack first.
LEMMA OnceProperties ==
    ASSUME NEW P, NEW packs \in Seq(P), packs # << >>
    PROVE  /\ Once(packs) \in Seq(P)
           /\ Len(Once(packs)) \in Nat \ {0}
           /\ Once(packs)[1] = packs[1]
<1> DEFINE o == Onces(packs)
           l == Len(packs)
           Good(n) == o[1..n] \in Seq(P) /\ Len(o[1..n]) >= 1 /\ o[1..n][1] = packs[1]
           T == {n \in Nat : n \in 1..l => Good(n)}
<1>1. l \in Nat \ {0} /\ DOMAIN packs = 1..l /\ \A i \in 1..l : packs[i] \in P
  BY EmptySeq, LenProperties, ElementOfSeq
<1>2. \A s \in SUBSET (1..l) : o[s] = OnceStep(packs, o, s)
  BY <1>1, OncesUnfold
<1> HIDE DEF o, l
<1>3. ASSUME NEW n \in 1..l PROVE o[1..n] = SeeOnce(o[1..(n - 1)], packs[n])
  <2>1. Max(1..n) = n
    <3>1. n \in Nat /\ n \in 1..n
      BY <1>1
    <3>3. 1..n # {} /\ 1..n \in SUBSET (1..n)
      BY <3>1
    <3>2. Max(1..n) \in 1..n /\ n <= Max(1..n)
      BY <3>1, <3>3, MaxIndex
    <3> QED
      BY <3>1, <3>2
  <2>2. (1..n) \ {n} = 1..(n - 1) /\ 1..n \in SUBSET (1..l) /\ 1..n # {}
    BY <1>1
  <2> QED
    BY <1>2, <2>1, <2>2 DEF OnceStep
<1>4. o[1..0] = << >>
  <2>1. 1..0 = {} /\ {} \in SUBSET (1..l)
    OBVIOUS
  <2> QED
    BY <1>2, <2>1 DEF OnceStep
<1>5. 0 \in T
  OBVIOUS
<1>6. ASSUME NEW n \in Nat, n \in T PROVE n + 1 \in T
  <2> SUFFICES ASSUME n + 1 \in 1..l PROVE Good(n + 1)
    OBVIOUS
  <2>1. o[1..(n + 1)] = SeeOnce(o[1..n], packs[n + 1])
    BY <1>3
  <2>2. CASE n = 0
    <3>1. SeeOnce(<< >>, packs[1]) = <<packs[1]>>
      BY DEF SeeOnce, Range
    <3>2. o[1..(n + 1)] = <<packs[1]>>
      BY <1>4, <2>1, <2>2, <3>1
    <3> QED
      BY <1>1, <3>2
  <2>3. CASE n # 0
    <3>1. Good(n)
      BY <1>1, <1>6, <2>3
    <3> DEFINE v == o[1..n]
    <3>2. v \in Seq(P) /\ Len(v) >= 1 /\ v[1] = packs[1] /\ packs[n + 1] \in P
      BY <1>1, <3>1
    <3> HIDE DEF v
    <3>3. SeeOnce(v, packs[n + 1]) \in Seq(P)
      BY <3>2 DEF SeeOnce
    <3>4. Len(SeeOnce(v, packs[n + 1])) >= 1
      BY <3>2 DEF SeeOnce
    <3>5. SeeOnce(v, packs[n + 1])[1] = packs[1]
      BY <3>2 DEF SeeOnce
    <3> QED
      BY <2>1, <3>3, <3>4, <3>5 DEF v
  <2> QED
    BY <2>2, <2>3
<1>7. l \in T
  <2> HIDE DEF T
  <2> QED
    BY <1>1, <1>5, <1>6, SetInduction
<1>8. Good(l) /\ Once(packs) = o[1..l]
  BY <1>1, <1>7, OnceIs DEF o
<1> QED
  BY <1>8

-----------------------------------------------------------------------------
(* Types.  TypeOK says nothing of the packets that are on their way, of which  *)
(* the packs of a request and the keys of a handshake come back.               *)

ServerPackets ==
    [type : {"NetworkSettings", "PlayStatusLoginSuccess", "ResourcePacksInfo", "ResourcePackStack",
             "StartGame", "ChunkRadiusUpdated", "InitialChunks", "PlayStatusPlayerSpawn", "FromPeer"}]
    \cup [type : {"ServerToClientHandshake"}, key : Nat]
    \cup [type : {"ResourcePackDataInfo"}, pack : Packs]
    \cup [type : {"ResourcePackChunkData"}, pack : Packs, index : Nat]

ClientPackets ==
    [type : {"RequestNetworkSettings", "Login", "ClientToServerHandshake", "ClientCacheStatus",
             "AllPacksDownloaded", "Completed", "Refused", "ResourcePacksReadyForValidation",
             "RequestChunkRadius", "SetLocalPlayerAsInitialised"}]
    \cup [type : {"SendPacks"}, packs : Seq(Packs \cup {"unknown"})]
    \cup [type : {"ResourcePackChunkRequest"}, pack : Packs, index : Nat]

Calls ==
    [call : {"WritePacket", "WritePacketUncompressed"}, pk : ServerPackets]
    \cup [call : {"EnableCompression", "addPlayer"}]
    \cup [call : {"EnableEncryption"}, key : Nat]

\* Those that switch nothing.
PlainServerPackets ==
    {pk \in ServerPackets : pk.type \notin {"NetworkSettings", "ServerToClientHandshake"}}
PlainClientPackets ==
    {pk \in ClientPackets : pk.type \notin {"RequestNetworkSettings", "Login"}}
PlainCalls == [call : {"WritePacket"}, pk : PlainServerPackets] \cup [call : {"addPlayer"}]

Crypts == [key : Nat, in : Nat, out : Nat]
BatchesOf(lists) == [packets : lists, compressed : BOOLEAN, key : Nat, counter : Nat]
ServerBatches == BatchesOf({<<pk>> : pk \in ServerPackets})
ClientBatches == BatchesOf(Seq(ClientPackets))

States == {"awaitNetworkSettings", "awaitLogin", "awaitClientHandshake", "awaitPacks",
           "awaitChunkRadius", "awaitInitialised", "spawned", "ended"}

Infos == {<< >>} \cup (Packs \X Nat)
History == [stacks : Nat, startGames : Nat, worlds : Nat, peers : Nat, info : Infos]

\* The part of the session's state that its handlers change.
FlowTypes ==
    /\ configured \in SUBSET Packs
    /\ state \in States /\ stackSent \in BOOLEAN /\ chunksSent \in BOOLEAN
    /\ queue \in [selected : Seq(configured), current : Nat \ {0}, currentChunk : Nat]
    /\ queue.current <= Len(queue.selected) + 1
    /\ inbox \in Seq(ClientPackets)
    /\ calls \in Seq(Calls)
    /\ written \in History

\* The part that the codecs, the other sessions and the client change.
WireTypes ==
    /\ joined \in BOOLEAN /\ compressed \in BOOLEAN /\ crypt \in Crypts
    /\ pending \in [Writers -> {<< >>} \cup {<<b>> : b \in ServerBatches}]
    /\ peerWriting \in [Peers -> SUBSET BOOLEAN]
    /\ toServer \in Seq(ClientBatches) /\ toClient \in Seq(ServerBatches)
    /\ client \in [orderly : BOOLEAN, compressed : BOOLEAN, crypt : Crypts, missing : SUBSET Packs,
                   sent : Nat, answers : Seq(ClientPackets)]

\* What a handler may do.
HandlerStep ==
    /\ inbox # << >> /\ inbox' = Tail(inbox)
    /\ UNCHANGED <<configured, joined, compressed, crypt, pending, peerWriting, toServer, toClient, client>>

LEMMA HandlesStep ==
    ASSUME NEW type, Handles(type)
    PROVE  HandlerStep /\ calls = << >> /\ state # "ended" /\ Head(inbox).type = type
  BY DEF Handles, HandlerStep, codec, writers

\* A handler that leaves the queue, the inbox and the history of downloads alone.
LEMMA FlowStep ==
    ASSUME FlowTypes, HandlerStep, state' \in States, stackSent' \in BOOLEAN, chunksSent' \in BOOLEAN,
           calls' \in Seq(Calls), UNCHANGED queue,
           written' \in History
    PROVE  FlowTypes'
  BY DEF FlowTypes, HandlerStep

\* The calls that write a list of packets.
LEMMA CallsToWrite ==
    /\ \A pk \in ServerPackets : Write(pk) \in Calls /\ WriteUncompressed(pk) \in Calls
    /\ EnableCompression \in Calls /\ addPlayer \in Calls
    /\ \A k \in Nat : EnableEncryption(k) \in Calls
<1>1. ASSUME NEW pk \in ServerPackets PROVE Write(pk) \in Calls /\ WriteUncompressed(pk) \in Calls
  BY DEF Calls, Write, WriteUncompressed
<1>2. EnableCompression \in Calls /\ addPlayer \in Calls
  BY DEF Calls, EnableCompression, addPlayer
<1>3. \A k \in Nat : EnableEncryption(k) \in Calls
  BY DEF Calls, EnableEncryption
<1> QED
  BY <1>1, <1>2, <1>3

LEMMA PlainCallsToWrite ==
    /\ \A pk \in PlainServerPackets : Write(pk) \in PlainCalls
    /\ addPlayer \in PlainCalls /\ << >> \in Seq(PlainCalls)
    /\ \A s \in Seq(PlainCalls) : s \in Seq(Calls)
<1>1. \A pk \in PlainServerPackets : Write(pk) \in PlainCalls
  BY DEF PlainCalls, Write
<1>2. addPlayer \in PlainCalls /\ << >> \in Seq(PlainCalls)
  BY DEF PlainCalls, addPlayer
<1>3. PlainCalls \subseteq Calls
  BY DEF PlainCalls, Calls, PlainServerPackets
<1>4. \A s \in Seq(PlainCalls) : s \in Seq(Calls)
  BY <1>3, SeqMonotonic
<1> QED
  BY <1>1, <1>2, <1>4

LEMMA WritePacketsCalls ==
    ASSUME NEW packets \in Seq(PlainServerPackets), WritePackets(packets)
    PROVE  calls' \in Seq(PlainCalls) /\ calls' \in Seq(Calls)
<1>1. calls' = [i \in 1..Len(packets) |-> Write(packets[i])] /\ Len(packets) \in Nat
  BY DEF WritePackets
<1>2. \A i \in 1..Len(packets) : Write(packets[i]) \in PlainCalls
  BY PlainCallsToWrite
<1>3. calls' \in [1..Len(packets) -> PlainCalls]
  BY <1>1, <1>2
<1>4. calls' \in Seq(PlainCalls)
  BY <1>1, <1>3
<1> QED
  BY <1>4, PlainCallsToWrite

\* The packets of the session.
LEMMA PacketsOfServer ==
    /\ \A t \in {"NetworkSettings", "PlayStatusLoginSuccess", "ResourcePacksInfo", "ResourcePackStack",
                 "StartGame", "ChunkRadiusUpdated", "InitialChunks", "PlayStatusPlayerSpawn",
                 "FromPeer"} : Pk(t) \in ServerPackets
    /\ \A k \in Nat : [type |-> "ServerToClientHandshake", key |-> k] \in ServerPackets
    /\ \A p \in Packs : PackPk("ResourcePackDataInfo", p) \in ServerPackets
    /\ \A p \in Packs, i \in Nat : ChunkPk("ResourcePackChunkData", p, i) \in ServerPackets
<1>1. \A t \in {"NetworkSettings", "PlayStatusLoginSuccess", "ResourcePacksInfo", "ResourcePackStack",
                 "StartGame", "ChunkRadiusUpdated", "InitialChunks", "PlayStatusPlayerSpawn",
                 "FromPeer"} : Pk(t) \in ServerPackets
  BY DEF ServerPackets, Pk
<1>2. \A k \in Nat : [type |-> "ServerToClientHandshake", key |-> k] \in ServerPackets
  BY DEF ServerPackets
<1>3. \A p \in Packs : PackPk("ResourcePackDataInfo", p) \in ServerPackets
  BY DEF ServerPackets, PackPk
<1>4. \A p \in Packs, i \in Nat : ChunkPk("ResourcePackChunkData", p, i) \in ServerPackets
  BY DEF ServerPackets, ChunkPk
<1> QED
  BY <1>1, <1>2, <1>3, <1>4

LEMMA PlainPacketsOfServer ==
    /\ \A t \in {"PlayStatusLoginSuccess", "ResourcePacksInfo", "ResourcePackStack", "StartGame",
                 "ChunkRadiusUpdated", "InitialChunks", "PlayStatusPlayerSpawn", "FromPeer"} :
          Pk(t) \in PlainServerPackets
    /\ \A p \in Packs : PackPk("ResourcePackDataInfo", p) \in PlainServerPackets
    /\ \A p \in Packs, i \in Nat : ChunkPk("ResourcePackChunkData", p, i) \in PlainServerPackets
<1>1. \A t : Pk(t).type = t
  BY DEF Pk
<1>2. \A t, p : PackPk(t, p).type = t
  BY DEF PackPk
<1>3. \A t, p, i : ChunkPk(t, p, i).type = t
  BY DEF ChunkPk
<1> QED
  BY <1>1, <1>2, <1>3, PacketsOfServer DEF PlainServerPackets

-----------------------------------------------------------------------------
(* What has been written *)

\* The counters of the history follow the flags that the handlers test.
WrittenInv ==
    /\ written.stacks = (IF stackSent THEN 1 ELSE 0)
    /\ written.worlds = (IF chunksSent THEN 1 ELSE 0)
    /\ written.startGames > 0 /\ configured # {} => stackSent

FlowInv == FlowTypes /\ WrittenInv /\ DownloadInStep

\* A pack has a chunk for every place that its data reaches.
LEMMA CeilingDivision ==
    ASSUME NEW n \in Nat, NEW c \in Nat \ {0}, NEW k \in Nat, k * c < n
    PROVE  k < (n + c - 1) \div c
<1> DEFINE q == (n + c - 1) \div c
           r == (n + c - 1) % c
<1>1. n + c - 1 \in Nat
  OBVIOUS
<1>2. n + c - 1 = c * q + r /\ r \in 0..(c - 1) /\ q \in Int
  BY <1>1
<1> HIDE DEF q, r
<1>3. c * q > k * c
  BY <1>2
<1>4. SUFFICES ASSUME q <= k PROVE FALSE
  BY <1>2 DEF q
<1>5. PICK d \in Nat : k = q + d
  <2>1. k - q \in Nat /\ k = q + (k - q)
    BY <1>2, <1>4
  <2> QED
    BY <2>1
<1>6. k * c = c * q + d * c /\ d * c >= 0
  BY <1>2, <1>5
<1> QED
  BY <1>2, <1>3, <1>6

\* A handler that leaves the downloads alone.
LEMMA FlowInvStep ==
    ASSUME FlowInv, HandlerStep, state' \in States, stackSent' \in BOOLEAN, chunksSent' \in BOOLEAN,
           calls' \in Seq(Calls), UNCHANGED queue,
           written' \in History,
           written'.info = written.info, WrittenInv'
    PROVE  FlowInv'
<1>1. FlowTypes'
  BY FlowStep DEF FlowInv
<1>2. DownloadInStep'
  BY DEF FlowInv, DownloadInStep, downloading, currentPack
<1> QED
  BY <1>1, <1>2 DEF FlowInv

\* Fail and Nothing.
LEMMA FlowEnds ==
    ASSUME FlowInv, HandlerStep, calls = << >>, Fail \/ Nothing
    PROVE  FlowInv' /\ calls' \in Seq(PlainCalls)
<1>1. /\ state' \in States /\ UNCHANGED <<stackSent, chunksSent, queue, calls, written>>
  BY DEF Fail, Nothing, flow, FlowInv, FlowTypes, States
<1>2. WrittenInv' /\ stackSent' \in BOOLEAN /\ chunksSent' \in BOOLEAN /\ calls' \in Seq(Calls)
  BY <1>1 DEF FlowInv, FlowTypes, WrittenInv, HandlerStep
<1>3. written' \in History /\ written'.info = written.info
  BY <1>1 DEF FlowInv, FlowTypes
<1> QED
  BY <1>1, <1>2, <1>3, FlowInvStep, PlainCallsToWrite

\* A handler that writes packets and changes no more than the state.
LEMMA FlowWrites ==
    ASSUME FlowInv, HandlerStep, calls' \in Seq(Calls), state' \in States,
           UNCHANGED <<stackSent, chunksSent, queue, written>>
    PROVE  FlowInv'
<1>1. WrittenInv' /\ stackSent' \in BOOLEAN /\ chunksSent' \in BOOLEAN
  BY DEF FlowInv, FlowTypes, WrittenInv, HandlerStep
<1>2. written' \in History /\ written'.info = written.info
  BY DEF FlowInv, FlowTypes
<1> QED
  BY <1>1, <1>2, FlowInvStep

\* sendResourcePackStack.
LEMMA StackInv ==
    ASSUME FlowInv, HandlerStep, sendResourcePackStack
    PROVE  FlowInv' /\ calls' \in Seq(PlainCalls)
<1>1. StackPackets \in Seq(PlainServerPackets) /\ Len(StackPackets) = (IF stackSent THEN 0 ELSE 1)
  BY PlainPacketsOfServer DEF StackPackets, FlowInv, FlowTypes
<1>2. calls' \in Seq(PlainCalls) /\ calls' \in Seq(Calls)
  BY <1>1, WritePacketsCalls DEF sendResourcePackStack
<1>3. /\ stackSent' = TRUE /\ UNCHANGED <<state, chunksSent, queue>>
      /\ written' = [written EXCEPT !.stacks = @ + Len(StackPackets)]
  BY DEF sendResourcePackStack
<1>4. /\ written' \in History
      /\ written'.info = written.info /\ written'.stacks = 1
      /\ written'.worlds = written.worlds /\ written'.startGames = written.startGames
  <2> DEFINE n == Len(StackPackets)
  <2>1. n \in Nat /\ n = (IF stackSent THEN 0 ELSE 1) /\ written' = [written EXCEPT !.stacks = @ + n]
    BY <1>1, <1>3
  <2> HIDE DEF n
  <2>2. written \in History /\ written.stacks = (IF stackSent THEN 1 ELSE 0)
    BY DEF FlowInv, FlowTypes, WrittenInv
  <2> QED
    BY <2>1, <2>2 DEF History
<1>5. state' \in States /\ chunksSent' \in BOOLEAN /\ stackSent' \in BOOLEAN
  BY <1>3 DEF FlowInv, FlowTypes
<1>6. WrittenInv'
  BY <1>3, <1>4 DEF FlowInv, WrittenInv
<1> QED
  BY <1>2, <1>3, <1>4, <1>5, <1>6, FlowInvStep

\* finishResourcePackFlow.
LEMMA FinishInv ==
    ASSUME FlowInv, HandlerStep, calls = << >>, finishResourcePackFlow
    PROVE  FlowInv' /\ calls' \in Seq(PlainCalls)
<1>1. CASE state # "awaitPacks"
  BY <1>1, FlowEnds DEF finishResourcePackFlow
<1>2. CASE state = "awaitPacks"
  <2> DEFINE stack == IF configured = {} THEN << >> ELSE StackPackets
             writes == [i \in DOMAIN stack |-> Write(stack[i])]
  <2>1. stack \in Seq(PlainServerPackets) /\ Len(stack) = (IF stackSent \/ configured = {} THEN 0 ELSE 1)
    BY PlainPacketsOfServer DEF StackPackets, FlowInv, FlowTypes
  <2>2. /\ stackSent' = (stackSent \/ stack # << >>) /\ state' = "awaitChunkRadius"
        /\ calls' = writes \o <<addPlayer, Write(Pk("StartGame"))>>
        /\ written' = [written EXCEPT !.stacks = @ + Len(stack), !.startGames = @ + 1]
        /\ UNCHANGED <<chunksSent, queue>>
    BY <1>2 DEF finishResourcePackFlow
  <2> HIDE DEF stack
  <2>3. writes \in Seq(PlainCalls)
    <3>1. DOMAIN stack = 1..Len(stack) /\ Len(stack) \in Nat /\ \A i \in 1..Len(stack) : stack[i] \in PlainServerPackets
      BY <2>1, LenProperties, ElementOfSeq
    <3>2. writes \in [1..Len(stack) -> PlainCalls]
      BY <3>1, PlainCallsToWrite
    <3> QED
      BY <3>1, <3>2
  <2>4. calls' \in Seq(PlainCalls)
    <3>1. <<addPlayer, Write(Pk("StartGame"))>> \in Seq(PlainCalls)
      BY PlainCallsToWrite, PlainPacketsOfServer
    <3> HIDE DEF writes
    <3> QED
      BY <2>2, <2>3, <3>1
  <2>10. calls' \in Seq(Calls)
    BY <2>4, PlainCallsToWrite
  <2>5. stack # << >> <=> ~(stackSent \/ configured = {})
    <3>1. stack = << >> <=> Len(stack) = 0
      BY <2>1, EmptySeq
    <3> QED
      BY <2>1, <3>1
  <2>6. /\ written' \in History
        /\ written'.info = written.info /\ written'.stacks = written.stacks + Len(stack)
        /\ written'.worlds = written.worlds
    <3> DEFINE n == Len(stack)
    <3>1. n \in Nat /\ written' = [written EXCEPT !.stacks = @ + n, !.startGames = @ + 1]
      BY <2>1, <2>2
    <3> HIDE DEF n
    <3>2. written \in History
      BY DEF FlowInv, FlowTypes
    <3>4. /\ written'.info = written.info /\ written'.worlds = written.worlds
          /\ written'.stacks = written.stacks + n
      BY <3>1, <3>2 DEF History
    <3>5. /\ written.stacks + n \in Nat /\ written.startGames + 1 \in Nat
      BY <3>1, <3>2 DEF History
    <3>6. \A a \in Nat, b \in Nat : [written EXCEPT !.stacks = a, !.startGames = b] \in History
      BY <3>2 DEF History
    <3>3. /\ written' \in History /\ written'.info = written.info
          /\ written'.stacks = written.stacks + n /\ written'.worlds = written.worlds
      BY <3>1, <3>4, <3>5, <3>6
    <3> QED
      BY <3>3 DEF n
  <2>7. stackSent' = (stackSent \/ configured # {}) /\ stackSent \in BOOLEAN
    BY <2>2, <2>5 DEF FlowInv, FlowTypes
  <2>8. written'.stacks = (IF stackSent' THEN 1 ELSE 0)
    <3>1. written.stacks = (IF stackSent THEN 1 ELSE 0) /\ (stackSent = TRUE \/ stackSent = FALSE)
      BY <2>7 DEF FlowInv, WrittenInv
    <3>2. CASE stackSent = TRUE
      <4>1. Len(stack) = 0 /\ stackSent'
        BY <2>1, <2>7, <3>2
      <4> QED
        BY <2>6, <3>1, <3>2, <4>1
    <3>3. CASE stackSent = FALSE /\ configured = {}
      <4>1. Len(stack) = 0 /\ ~stackSent'
        BY <2>1, <2>7, <3>3
      <4> QED
        BY <2>6, <3>1, <3>3, <4>1
    <3>4. CASE stackSent = FALSE /\ configured # {}
      <4>1. Len(stack) = 1 /\ stackSent'
        BY <2>1, <2>7, <3>4
      <4> QED
        BY <2>6, <3>1, <3>4, <4>1
    <3> QED
      BY <3>1, <3>2, <3>3, <3>4
  <2>9. WrittenInv'
    BY <2>2, <2>6, <2>7, <2>8 DEF FlowInv, WrittenInv, HandlerStep
  <2> QED
    BY <2>2, <2>4, <2>6, <2>7, <2>9, <2>10, FlowInvStep DEF FlowInv, FlowTypes, States
<1> QED
  BY <1>1, <1>2

\* Begin starts at the first pack of the request, chunk 0.
LEMMA BeginInv ==
    ASSUME FlowInv, HandlerStep, NEW packs \in Seq(configured), packs # << >>,
           Begin(packs), UNCHANGED <<state, stackSent, chunksSent>>
    PROVE  FlowInv' /\ calls' \in Seq(PlainCalls)
<1>1. /\ Once(packs) \in Seq(configured) /\ Len(Once(packs)) \in Nat \ {0}
      /\ Once(packs)[1] = packs[1]
  BY OnceProperties
<1> DEFINE sel == Once(packs)
<1>2. /\ queue' = [selected |-> sel, current |-> 1, currentChunk |-> 0]
      /\ WritePackets(<<PackPk("ResourcePackDataInfo", packs[1])>>)
      /\ written' = [written EXCEPT !.info = <<packs[1], 0>>]
  BY DEF Begin
<1>3. packs[1] \in configured /\ packs[1] \in Packs /\ configured' = configured
  BY EmptySeq, ElementOfSeq DEF FlowInv, FlowTypes, HandlerStep
<1> HIDE DEF sel
<1>4. /\ queue' \in [selected : Seq(configured), current : Nat \ {0}, currentChunk : Nat]
      /\ queue'.current <= Len(queue'.selected) + 1
      /\ queue'.selected = sel /\ queue'.current = 1 /\ queue'.currentChunk = 0
  BY <1>1, <1>2 DEF sel
<1>5. calls' \in Seq(PlainCalls) /\ calls' \in Seq(Calls)
  <2>1. <<PackPk("ResourcePackDataInfo", packs[1])>> \in Seq(PlainServerPackets)
    BY <1>3, PlainPacketsOfServer
  <2> QED
    BY <1>2, <2>1, WritePacketsCalls
<1>6. <<packs[1], 0>> \in Infos
  BY <1>3 DEF Infos
<1>7. /\ written' \in History /\ written'.info = <<packs[1], 0>>
      /\ written'.stacks = written.stacks /\ written'.worlds = written.worlds
      /\ written'.startGames = written.startGames
  <2> DEFINE i == <<packs[1], 0>>
  <2>1. i \in Infos /\ written' = [written EXCEPT !.info = i] /\ written \in History
    BY <1>2, <1>6 DEF FlowInv, FlowTypes
  <2> HIDE DEF i
  <2>2. /\ written' \in History /\ written'.info = i
        /\ written'.stacks = written.stacks /\ written'.worlds = written.worlds
        /\ written'.startGames = written.startGames
    BY <2>1 DEF History
  <2> QED
    BY <2>2 DEF i
<1>8. FlowTypes'
  BY <1>3, <1>4, <1>5, <1>7 DEF FlowInv, FlowTypes, HandlerStep
<1>9. WrittenInv'
  BY <1>3, <1>7 DEF FlowInv, WrittenInv
<1>10. DownloadInStep'
  <2>1. currentPack' = packs[1]
    BY <1>1, <1>4 DEF currentPack, sel
  <2>2. ASSUME Size[packs[1]] # 0 PROVE 0 < ChunkCount(packs[1])
    <3>1. Size[packs[1]] \in Nat /\ ChunkSize \in Nat \ {0} /\ 0 * ChunkSize < Size[packs[1]]
      BY <1>3, <2>2, LoginFlowAssumption
    <3> QED
      BY <3>1, CeilingDivision DEF ChunkCount
  <2>3. ChunkCount(currentPack') = ChunkCount(packs[1])
    BY <2>1
  <2> QED
    BY <1>4, <1>7, <2>1, <2>2, <2>3 DEF DownloadInStep, ChunkCount
<1> QED
  BY <1>5, <1>8, <1>9, <1>10 DEF FlowInv

\* A chunk of the current pack, and the next pack after its last chunk.
LEMMA ChunkInv ==
    ASSUME FlowInv, HandlerStep, NEW pk, Expected(pk), HandleChunkRequest(pk),
           UNCHANGED <<state, stackSent, chunksSent>>
    PROVE  FlowInv' /\ calls' \in Seq(PlainCalls)
<1> DEFINE sel == queue.selected
           cur == queue.current
           n == queue.currentChunk
           p == sel[cur]
           next == sel[queue'.current]
           data == ChunkPk("ResourcePackChunkData", pk.pack, pk.index)
           info == PackPk("ResourcePackDataInfo", next)
           more == queue'.current > cur /\ queue'.current <= Len(sel)
           last == IsLast(p, n)
<1>1. /\ sel \in Seq(configured) /\ cur \in Nat \ {0} /\ n \in Nat /\ cur <= Len(sel)
      /\ pk.pack = p /\ pk.index = n /\ Len(sel) \in Nat
      /\ queue = [selected |-> sel, current |-> cur, currentChunk |-> n]
  BY DEF Expected, downloading, currentPack, FlowInv, FlowTypes
<1>2. /\ configured' = configured /\ configured \subseteq Packs
      /\ \A i \in 1..Len(sel) : sel[i] \in configured
      /\ p \in Packs /\ Size[p] \in Nat /\ ChunkSize \in Nat \ {0}
  BY <1>1, ElementOfSeq, LoginFlowAssumption DEF HandlerStep, FlowInv, FlowTypes
<1>3. queue' = IF last THEN [queue EXCEPT !.current = @ + 1, !.currentChunk = 0]
                       ELSE [queue EXCEPT !.currentChunk = @ + 1]
  BY DEF HandleChunkRequest, NextChunk, currentPack
<1>4. /\ queue'.selected = sel
      /\ queue'.current = (IF last THEN cur + 1 ELSE cur)
      /\ queue'.currentChunk = (IF last THEN 0 ELSE n + 1)
      /\ queue' \in [selected : Seq(configured), current : Nat \ {0}, currentChunk : Nat]
      /\ queue'.current <= Len(sel) + 1
  <2> HIDE DEF sel, cur, n, last
  <2>1. CASE last
    <3>1. queue' = [selected |-> sel, current |-> cur + 1, currentChunk |-> 0]
      BY <1>1, <1>3, <2>1
    <3>2. cur + 1 \in Nat \ {0} /\ cur + 1 <= Len(sel) + 1
      BY <1>1
    <3> QED
      BY <1>1, <2>1, <3>1, <3>2
  <2>2. CASE ~last
    BY <1>1, <1>3, <2>2
  <2> QED
    BY <2>1, <2>2
<1>5. more <=> last /\ cur + 1 <= Len(sel)
  BY <1>1, <1>4
<1>6. IF more THEN WritePackets(<<data, info>>) /\ written' = [written EXCEPT !.info = <<next, 0>>]
              ELSE WritePackets(<<data>>) /\ written' = [written EXCEPT !.info[2] = @ + 1]
  BY DEF HandleChunkRequest
<1>7. data \in PlainServerPackets
  BY <1>1, <1>2, PlainPacketsOfServer
<1>8. written.info = <<p, n>> /\ written \in History
  BY <1>1 DEF FlowInv, FlowTypes, DownloadInStep, downloading, currentPack
<1>9. more => next \in Packs /\ info \in PlainServerPackets
  <2>1. more => queue'.current \in 1..Len(sel)
    BY <1>1, <1>4, <1>5
  <2>2. more => next \in Packs
    BY <1>2, <2>1
  <2> QED
    BY <2>2, PlainPacketsOfServer
<1> HIDE DEF sel, cur, n, p, next, data, info, more, last
<1>10. calls' \in Seq(PlainCalls) /\ calls' \in Seq(Calls)
  <2>1. CASE more
    <3>1. <<data, info>> \in Seq(PlainServerPackets)
      BY <1>7, <1>9, <2>1
    <3> QED
      BY <1>6, <2>1, <3>1, WritePacketsCalls
  <2>2. CASE ~more
    <3>1. <<data>> \in Seq(PlainServerPackets)
      BY <1>7
    <3> QED
      BY <1>6, <2>2, <3>1, WritePacketsCalls
  <2> QED
    BY <2>1, <2>2
<1> DEFINE i == IF more THEN <<next, 0>> ELSE <<p, n + 1>>
<1>11. i \in Infos /\ written' = [written EXCEPT !.info = i]
  <2>1. CASE more
    BY <1>6, <1>9, <2>1 DEF Infos
  <2>2. CASE ~more
    <3>1. [written.info EXCEPT ![2] = @ + 1] = <<p, n + 1>>
      BY <1>8
    <3>2. written' = [written EXCEPT !.info = [written.info EXCEPT ![2] = @ + 1]]
      BY <1>6, <1>8, <2>2 DEF History
    <3>3. i = <<p, n + 1>>
      BY <2>2
    <3>4. p \in Packs /\ n + 1 \in Nat
      BY <1>1, <1>2
    <3>5. <<p, n + 1>> \in Infos
      BY <3>4 DEF Infos
    <3> QED
      BY <3>1, <3>2, <3>3, <3>5
  <2> QED
    BY <2>1, <2>2
<1>12. /\ written' \in History /\ written'.info = i
       /\ written'.stacks = written.stacks /\ written'.worlds = written.worlds
       /\ written'.startGames = written.startGames
  <2> HIDE DEF i
  <2> QED
    BY <1>8, <1>11 DEF History
<1>13. FlowTypes'
  BY <1>2, <1>4, <1>10, <1>12 DEF FlowInv, FlowTypes, HandlerStep
<1>14. WrittenInv'
  BY <1>2, <1>12 DEF FlowInv, WrittenInv
<1>15. DownloadInStep'
  <2> SUFFICES ASSUME downloading'
               PROVE  /\ written'.info = <<currentPack', queue'.currentChunk>>
                      /\ Size[currentPack'] # 0 => queue'.currentChunk < ChunkCount(currentPack')
    BY DEF DownloadInStep, ChunkCount
  <2>1. queue'.current <= Len(sel) /\ currentPack' = sel[queue'.current]
    BY <1>4 DEF downloading, currentPack
  <2>2. CASE last
    <3>1. more /\ queue'.currentChunk = 0 /\ currentPack' = next
      BY <1>1, <1>4, <1>5, <2>1, <2>2 DEF next
    <3>2. ASSUME Size[next] # 0 PROVE 0 < ChunkCount(next)
      <4>1. Size[next] \in Nat /\ ChunkSize \in Nat \ {0} /\ 0 * ChunkSize < Size[next]
        BY <1>2, <1>9, <3>1, <3>2, LoginFlowAssumption
      <4> QED
        BY <4>1, CeilingDivision DEF ChunkCount
    <3> QED
      BY <1>12, <3>1, <3>2
  <2>3. CASE ~last
    <3>1. ~more /\ queue'.currentChunk = n + 1 /\ currentPack' = p
      BY <1>1, <1>4, <1>5, <2>1, <2>3 DEF p
    <3>2. n + 1 < ChunkCount(p)
      <4>1. (n + 1) * ChunkSize < Size[p] /\ n + 1 \in Nat
        BY <1>1, <1>2, <2>3 DEF last, IsLast
      <4> QED
        BY <1>2, <4>1, CeilingDivision DEF ChunkCount
    <3> QED
      BY <1>12, <3>1, <3>2
  <2> QED
    BY <2>2, <2>3
<1> QED
  BY <1>10, <1>13, <1>14, <1>15 DEF FlowInv

\* Every handler.
LEMMA HandlerInv ==
    ASSUME FlowInv, crypt \in Crypts, Handler
    PROVE  /\ FlowInv' /\ HandlerStep /\ calls = << >>
           /\ Head(inbox).type \notin {"RequestNetworkSettings", "Login"} => calls' \in Seq(PlainCalls)
<1>0. HandlerStep /\ calls = << >>
  BY HandlesStep DEF Handler, handleRequestNetworkSettings, handleLogin, handleClientToServerHandshake,
     handleClientCacheStatus, handleResourcePackClientResponse, handleResourcePacksReadyForValidation,
     handleResourcePackChunkRequest, handleRequestChunkRadius, handleSetLocalPlayerAsInitialised
<1>1. CASE handleRequestNetworkSettings
  <2>1. calls' \in Seq(Calls)
    BY <1>1, CallsToWrite, PacketsOfServer DEF handleRequestNetworkSettings
  <2> QED
    BY <1>0, <1>1, <2>1, FlowWrites, HandlesStep DEF handleRequestNetworkSettings, States
<1>2. CASE handleLogin
  <2>0. Head(inbox).type = "Login"
    BY <1>2, HandlesStep DEF handleLogin
  <2>1. CASE Fail
    BY <1>0, <2>1, FlowEnds
  <2>2. CASE ~Fail
    <3>1. /\ state' = "awaitClientHandshake" /\ UNCHANGED <<stackSent, chunksSent, queue, written>>
          /\ calls' = <<Write([type |-> "ServerToClientHandshake", key |-> crypt.key + 1]),
                        EnableEncryption(crypt.key + 1)>>
      BY <1>2, <2>2 DEF handleLogin
    <3>2. crypt.key + 1 \in Nat
      BY DEF Crypts
    <3>3. calls' \in Seq(Calls)
      BY <3>1, <3>2, CallsToWrite, PacketsOfServer
    <3> QED
      BY <1>0, <2>0, <3>1, <3>3, FlowWrites DEF States
  <2> QED
    BY <2>1, <2>2
<1>3. CASE handleClientToServerHandshake
  <2>1. <<Pk("PlayStatusLoginSuccess"), Pk("ResourcePacksInfo")>> \in Seq(PlainServerPackets)
    BY PlainPacketsOfServer
  <2>2. calls' \in Seq(PlainCalls) /\ calls' \in Seq(Calls)
    BY <1>3, <2>1, WritePacketsCalls DEF handleClientToServerHandshake
  <2> QED
    BY <1>0, <1>3, <2>2, FlowWrites DEF handleClientToServerHandshake, States
<1>4. CASE handleClientCacheStatus
  BY <1>0, <1>4, FlowEnds DEF handleClientCacheStatus
<1>5. CASE handleResourcePackClientResponse
  <2>1. CASE sendResourcePackStack
    BY <1>0, <2>1, StackInv
  <2>2. CASE finishResourcePackFlow
    BY <1>0, <2>2, FinishInv
  <2>3. CASE Fail
    BY <1>0, <2>3, FlowEnds
  <2>4. CASE /\ Handles("SendPacks")
             /\ Head(inbox).packs # << >> /\ Range(Head(inbox).packs) \subseteq configured
             /\ Begin(Head(inbox).packs)
             /\ UNCHANGED <<state, stackSent, chunksSent>>
    <3> DEFINE packs == Head(inbox).packs
    <3>1. Head(inbox) \in ClientPackets /\ Head(inbox).type = "SendPacks"
      BY <1>0, <2>4, HandlesStep, HeadTailProperties DEF HandlerStep, FlowInv, FlowTypes
    <3>2. packs \in Seq(Packs \cup {"unknown"})
      BY <3>1 DEF ClientPackets
    <3> HIDE DEF packs
    <3>3. packs \in Seq(configured) /\ packs # << >>
      <4>1. packs \in Seq(Range(packs)) /\ Range(packs) \subseteq configured
        BY <2>4, <3>2, SeqOfRange DEF packs
      <4>2. packs \in Seq(configured)
        BY <4>1, SeqMonotonic
      <4> QED
        BY <2>4, <4>2 DEF packs
    <3>4. Begin(packs)
      BY <2>4 DEF packs
    <3> QED
      BY <1>0, <2>4, <3>3, <3>4, BeginInv
  <2> QED
    BY <1>5, <2>1, <2>2, <2>3, <2>4 DEF handleResourcePackClientResponse
<1>6. CASE handleResourcePacksReadyForValidation
  BY <1>0, <1>6, FlowEnds, FinishInv DEF handleResourcePacksReadyForValidation
<1>7. CASE handleResourcePackChunkRequest
  BY <1>0, <1>7, FlowEnds, ChunkInv DEF handleResourcePackChunkRequest
<1>8. CASE handleRequestChunkRadius
  <2> DEFINE world == IF chunksSent THEN << >> ELSE <<Pk("InitialChunks")>>
             packets == <<Pk("ChunkRadiusUpdated")>> \o world \o <<Pk("PlayStatusPlayerSpawn")>>
             n == Len(world)
  <2>1. /\ WritePackets(packets) /\ chunksSent' = TRUE /\ state' = "awaitInitialised"
        /\ written' = [written EXCEPT !.worlds = @ + n]
        /\ UNCHANGED <<stackSent, queue>>
    BY <1>8 DEF handleRequestChunkRadius
  <2>2. world \in Seq(PlainServerPackets) /\ n = (IF chunksSent THEN 0 ELSE 1) /\ n \in Nat
    BY PlainPacketsOfServer
  <2> HIDE DEF world, n
  <2>3. packets \in Seq(PlainServerPackets)
    <3>1. <<Pk("ChunkRadiusUpdated")>> \in Seq(PlainServerPackets) /\ <<Pk("PlayStatusPlayerSpawn")>> \in Seq(PlainServerPackets)
      BY PlainPacketsOfServer
    <3> QED
      BY <2>2, <3>1
  <2> HIDE DEF packets
  <2>4. calls' \in Seq(PlainCalls) /\ calls' \in Seq(Calls)
    BY <2>1, <2>3, WritePacketsCalls
  <2>5. written \in History /\ written.worlds = (IF chunksSent THEN 1 ELSE 0)
    BY DEF FlowInv, FlowTypes, WrittenInv
  <2>6. /\ written' \in History /\ written'.info = written.info
        /\ written'.stacks = written.stacks /\ written'.startGames = written.startGames
        /\ written'.worlds = 1
    BY <2>1, <2>2, <2>5 DEF History
  <2>7. WrittenInv'
    BY <1>0, <2>1, <2>6 DEF FlowInv, WrittenInv, HandlerStep
  <2>8. state' \in States /\ stackSent' \in BOOLEAN /\ chunksSent' \in BOOLEAN
    BY <2>1 DEF FlowInv, FlowTypes, States
  <2> QED
    BY <1>0, <2>1, <2>4, <2>6, <2>7, <2>8, FlowInvStep
<1>9. CASE handleSetLocalPlayerAsInitialised
  <2>1. calls' \in Seq(PlainCalls) /\ calls' \in Seq(Calls) /\ state' \in States
    BY <1>0, <1>9, PlainCallsToWrite DEF handleSetLocalPlayerAsInitialised, States
  <2> QED
    BY <1>0, <1>9, <2>1, FlowWrites DEF handleSetLocalPlayerAsInitialised
<1> QED
  BY <1>0, <1>1, <1>2, <1>3, <1>4, <1>5, <1>6, <1>7, <1>8, <1>9 DEF Handler

-----------------------------------------------------------------------------
(* The wire, typed *)

LEMMA CodecTypes ==
    ASSUME NEW c \in Crypts
    PROVE  /\ \A n \in Nat : Advance(c, n) \in Crypts
           /\ AfterReading(c) \in Crypts
<1>1. \A n \in Nat : Advance(c, n) \in Crypts
  BY DEF Advance, Crypts
<1>2. AfterReading(c) \in Crypts
  BY DEF AfterReading, Crypts
<1> QED
  BY <1>1, <1>2

LEMMA BatchTypes ==
    ASSUME NEW c \in Crypts, NEW lists, NEW n \in Nat, NEW packets \in lists, NEW comp \in BOOLEAN
    PROVE  Batch(packets, comp, c, n) \in BatchesOf(lists)
<1>1. c.key \in Nat /\ (IF c.key = 0 THEN 0 ELSE n) \in Nat
  BY DEF Crypts
<1> QED
  BY <1>1 DEF Batch, BatchesOf

\* The packets of the client.
LEMMA PacketsOfClient ==
    /\ \A t \in {"RequestNetworkSettings", "Login", "ClientToServerHandshake", "ClientCacheStatus",
                 "AllPacksDownloaded", "Completed", "Refused", "ResourcePacksReadyForValidation",
                 "RequestChunkRadius", "SetLocalPlayerAsInitialised"} : Pk(t) \in ClientPackets
    /\ \A s \in Seq(Packs \cup {"unknown"}) : SendPacks(s) \in ClientPackets
    /\ \A p \in Packs, i \in Nat : ChunkPk("ResourcePackChunkRequest", p, i) \in ClientPackets
<1>1. \A t \in {"RequestNetworkSettings", "Login", "ClientToServerHandshake", "ClientCacheStatus",
                 "AllPacksDownloaded", "Completed", "Refused", "ResourcePacksReadyForValidation",
                 "RequestChunkRadius", "SetLocalPlayerAsInitialised"} : Pk(t) \in ClientPackets
  BY DEF ClientPackets, Pk
<1>2. \A s \in Seq(Packs \cup {"unknown"}) : SendPacks(s) \in ClientPackets
  BY DEF ClientPackets, SendPacks
<1>3. \A p \in Packs, i \in Nat : ChunkPk("ResourcePackChunkRequest", p, i) \in ClientPackets
  BY DEF ClientPackets, ChunkPk
<1> QED
  BY <1>1, <1>2, <1>3

LEMMA PlainPacketsOfClient ==
    /\ \A t \in {"ClientToServerHandshake", "ClientCacheStatus", "AllPacksDownloaded", "Completed",
                 "Refused", "ResourcePacksReadyForValidation", "RequestChunkRadius",
                 "SetLocalPlayerAsInitialised"} : Pk(t) \in PlainClientPackets
    /\ \A s \in Seq(Packs \cup {"unknown"}) : SendPacks(s) \in PlainClientPackets
    /\ \A p \in Packs, i \in Nat : ChunkPk("ResourcePackChunkRequest", p, i) \in PlainClientPackets
<1>1. \A t : Pk(t).type = t
  BY DEF Pk
<1>2. \A p : SendPacks(p).type = "SendPacks"
  BY DEF SendPacks
<1>3. \A t, p, i : ChunkPk(t, p, i).type = t
  BY DEF ChunkPk
<1> QED
  BY <1>1, <1>2, <1>3, PacketsOfClient DEF PlainClientPackets

\* Lists of some packs.
LEMMA ListsArePacks ==
    ASSUME configured \in SUBSET Packs
    PROVE  \A s \in PackLists : s \in Seq(Packs \cup {"unknown"}) /\ Range(s) \in SUBSET Packs
<1> SUFFICES ASSUME NEW s \in PackLists
             PROVE  s \in Seq(Packs \cup {"unknown"}) /\ Range(s) \in SUBSET Packs
  OBVIOUS
<1>1. Cardinality(configured) \in Nat
  BY LoginFlowAssumption, FS_Subset, FS_CardinalityType
<1>2. PICK n \in 0..Cardinality(configured) : s \in [1..n -> configured]
  BY DEF PackLists
<1>3. n \in Nat /\ s \in [1..n -> Packs] /\ s \in [1..n -> Packs \cup {"unknown"}]
  BY <1>1, <1>2
<1>4. s \in Seq(Packs) /\ s \in Seq(Packs \cup {"unknown"})
  BY <1>3
<1> QED
  BY <1>4, RangeOfSeq

\* What an orderly client answers.
LEMMA AnswersPlain ==
    ASSUME configured \in SUBSET Packs, client.missing \in SUBSET Packs,
           NEW pk \in ServerPackets, pk.type # "NetworkSettings", NEW a \in Answers(pk)
    PROVE  a[1] \in Seq(PlainClientPackets) /\ a[2] \in SUBSET Packs
<1> DEFINE one(p) == {<< <<p>>, client.missing >>}
           left == client.missing \ {pk.pack}
           Good == a[1] \in Seq(PlainClientPackets) /\ a[2] \in SUBSET Packs
<1>1. ASSUME NEW p \in PlainClientPackets, a \in one(p) PROVE Good
  BY <1>1
<1> HIDE DEF one
<1>2. ASSUME NEW t \in {"ClientToServerHandshake", "ClientCacheStatus",
                 "AllPacksDownloaded", "Completed", "Refused", "ResourcePacksReadyForValidation",
                 "RequestChunkRadius", "SetLocalPlayerAsInitialised"}, a \in one(Pk(t)) PROVE Good
  BY <1>1, <1>2, PlainPacketsOfClient
<1>4. CASE pk.type = "ServerToClientHandshake"
  <2>1. a = << <<Pk("ClientToServerHandshake"), Pk("ClientCacheStatus")>>, {} >>
    BY <1>4 DEF Answers
  <2> QED
    BY <2>1, PlainPacketsOfClient
<1>5. CASE pk.type = "ResourcePacksInfo"
  <2>1. \/ \E s \in PackLists : a = << <<SendPacks(s)>>, Range(s) >>
        \/ a \in one(Pk("AllPacksDownloaded")) \/ a \in one(Pk("Completed"))
    BY <1>5 DEF Answers, one
  <2>2. ASSUME NEW s \in PackLists, a = << <<SendPacks(s)>>, Range(s) >> PROVE Good
    <3>1. SendPacks(s) \in PlainClientPackets /\ Range(s) \in SUBSET Packs
      BY ListsArePacks, PlainPacketsOfClient
    <3> QED
      BY <2>2, <3>1
  <2> QED
    BY <1>2, <2>1, <2>2
<1>6. CASE pk.type = "ResourcePackDataInfo"
  <2>1. pk.pack \in Packs
    BY <1>6 DEF ServerPackets
  <2>2. ChunkPk("ResourcePackChunkRequest", pk.pack, 0) \in PlainClientPackets
    BY <2>1, PlainPacketsOfClient
  <2>3. a \in one(ChunkPk("ResourcePackChunkRequest", pk.pack, 0))
    BY <1>6 DEF Answers, one
  <2> QED
    BY <1>1, <2>2, <2>3
<1>7. CASE pk.type = "ResourcePackChunkData"
  <2>1. pk.pack \in Packs /\ pk.index \in Nat
    BY <1>7 DEF ServerPackets
  <2>2. ChunkPk("ResourcePackChunkRequest", pk.pack, pk.index + 1) \in PlainClientPackets
    BY <2>1, PlainPacketsOfClient
  <2>3. \/ a \in one(ChunkPk("ResourcePackChunkRequest", pk.pack, pk.index + 1))
        \/ a = << IF left = {} THEN <<Pk("AllPacksDownloaded")>> ELSE << >>, left >>
    BY <1>7 DEF Answers, one
  <2>4. CASE a = << IF left = {} THEN <<Pk("AllPacksDownloaded")>> ELSE << >>, left >>
    <3>1. (IF left = {} THEN <<Pk("AllPacksDownloaded")>> ELSE << >>) \in Seq(PlainClientPackets)
      BY PlainPacketsOfClient
    <3> QED
      BY <2>4, <3>1
  <2> QED
    BY <1>1, <2>2, <2>3, <2>4
<1>8. CASE pk.type = "ResourcePackStack"
  <2>1. a \in one(Pk("Completed")) \/ a \in one(Pk("ResourcePacksReadyForValidation"))
    BY <1>8 DEF Answers, one
  <2> QED
    BY <1>2, <2>1
<1>9. CASE pk.type = "StartGame"
  <2>1. a \in one(Pk("RequestChunkRadius"))
    BY <1>9 DEF Answers, one
  <2> QED
    BY <1>2, <2>1
<1>10. CASE pk.type = "PlayStatusPlayerSpawn"
  <2>1. a \in one(Pk("SetLocalPlayerAsInitialised"))
    BY <1>10 DEF Answers, one
  <2> QED
    BY <1>2, <2>1
<1>11. CASE pk.type \notin {"NetworkSettings", "ServerToClientHandshake", "ResourcePacksInfo",
                            "ResourcePackDataInfo", "ResourcePackChunkData", "ResourcePackStack",
                            "StartGame", "PlayStatusPlayerSpawn"}
  <2>1. a = << << >>, client.missing >>
    BY <1>11 DEF Answers
  <2> QED
    BY <2>1
<1>12. Good
  BY <1>4, <1>5, <1>6, <1>7, <1>8, <1>9, <1>10, <1>11
<1> QED
  BY <1>12

LEMMA AnswersTyped ==
    ASSUME configured \in SUBSET Packs, client.missing \in SUBSET Packs,
           NEW pk \in ServerPackets, NEW a \in Answers(pk)
    PROVE  a[1] \in Seq(ClientPackets) /\ a[2] \in SUBSET Packs
<1>1. CASE pk.type = "NetworkSettings"
  <2>1. a = << <<Pk("Login")>>, client.missing >>
    BY <1>1 DEF Answers
  <2> QED
    BY <2>1, PacketsOfClient
<1>2. CASE pk.type # "NetworkSettings"
  <2>1. a[1] \in Seq(PlainClientPackets) /\ a[2] \in SUBSET Packs
    BY <1>2, AnswersPlain
  <2>2. PlainClientPackets \subseteq ClientPackets
    BY DEF PlainClientPackets
  <2> QED
    BY <2>1, <2>2, SeqMonotonic
<1> QED
  BY <1>1, <1>2

\* The session holds writeMu only for the call that it is at.
WriteInv ==
    pending[Session] # << >> =>
        calls # << >> /\ Head(calls).call \in {"WritePacket", "WritePacketUncompressed"}

\* The rest of the session's calls, or the packets of a batch.
LEMMA FlowMoves ==
    ASSUME FlowInv, inbox' \in Seq(ClientPackets), calls' \in Seq(Calls), state' \in States,
           UNCHANGED <<configured, stackSent, chunksSent, queue, written>>
    PROVE  FlowInv'
<1>1. FlowTypes'
  BY DEF FlowInv, FlowTypes
<1>2. WrittenInv' /\ DownloadInStep'
  BY DEF FlowInv, WrittenInv, DownloadInStep, downloading, currentPack
<1> QED
  BY <1>1, <1>2 DEF FlowInv

LEMMA EncodeTypes ==
    ASSUME WireTypes, NEW w \in Writers, NEW pk \in ServerPackets, NEW comp \in BOOLEAN,
           Encode(w, pk, comp)
    PROVE  /\ crypt' \in Crypts
           /\ pending' \in [Writers -> {<< >>} \cup {<<b>> : b \in ServerBatches}]
           /\ \A x \in Writers : x # w => pending'[x] = pending[x] /\ pending[x] = << >>
<1>1. crypt \in Crypts /\ crypt.out \in Nat
  BY DEF WireTypes, Crypts
<1>2. crypt' \in Crypts
  BY <1>1, CodecTypes DEF Encode
<1> DEFINE b == Batch(<<pk>>, comp, crypt, crypt.out)
<1>3. b \in ServerBatches
  <2>1. <<pk>> \in {<<x>> : x \in ServerPackets}
    OBVIOUS
  <2> DEFINE L == {<<x>> : x \in ServerPackets}
  <2> HIDE DEF L
  <2>2. <<pk>> \in L
    BY <2>1 DEF L
  <2>3. Batch(<<pk>>, comp, crypt, crypt.out) \in BatchesOf(L)
    BY <1>1, <2>2, BatchTypes
  <2> QED
    BY <2>3 DEF L, ServerBatches
<1>4. pending' = [pending EXCEPT ![w] = <<b>>] /\ \A x \in Writers : pending[x] = << >>
  BY DEF Encode, writeMuFree
<1> HIDE DEF b
<1>5. <<b>> \in {<<x>> : x \in ServerBatches}
  BY <1>3
<1>6. pending' \in [Writers -> {<< >>} \cup {<<x>> : x \in ServerBatches}]
  BY <1>4, <1>5 DEF WireTypes
<1> QED
  BY <1>2, <1>4, <1>6 DEF WireTypes

LEMMA SessionTypes ==
    ASSUME FlowInv, WireTypes, WriteInv,
           sessionEncodes \/ sessionSwitches \/ (\E w \in Writers : connWrite(w)) \/ Serve
    PROVE  FlowInv' /\ WireTypes' /\ WriteInv'
<1>0. /\ calls \in Seq(Calls) /\ inbox \in Seq(ClientPackets) /\ Session \in Writers
      /\ state \in States
  BY DEF FlowInv, FlowTypes, Writers
<1>1. CASE sessionEncodes
  <2>1. /\ calls # << >> /\ Head(calls).call \in {"WritePacket", "WritePacketUncompressed"}
        /\ Encode(Session, Head(calls).pk, Head(calls).call = "WritePacket" /\ compressed)
        /\ UNCHANGED <<configured, compressed, flow, joined, inbox, calls, peerWriting,
                       toServer, toClient, client, written>>
    BY <1>1 DEF sessionEncodes
  <2>2. Head(calls) \in Calls
    BY <1>0, <2>1
  <2>3. Head(calls).pk \in ServerPackets
    BY <2>1, <2>2 DEF Calls
  <2>4. (Head(calls).call = "WritePacket" /\ compressed) \in BOOLEAN
    BY DEF WireTypes
  <2>5. /\ crypt' \in Crypts
        /\ pending' \in [Writers -> {<< >>} \cup {<<b>> : b \in ServerBatches}]
    BY <1>0, <2>1, <2>3, <2>4, EncodeTypes
  <2>6. FlowInv'
    BY <1>0, <2>1, FlowMoves DEF flow
  <2>7. WireTypes'
    BY <2>1, <2>5 DEF WireTypes
  <2> QED
    BY <2>1, <2>6, <2>7 DEF WriteInv
<1>2. CASE sessionSwitches
  <2>1. /\ calls # << >> /\ calls' = Tail(calls)
        /\ UNCHANGED <<configured, flow, inbox, writers, toServer, toClient, client, written>>
    BY <1>2 DEF sessionSwitches
  <2>2. Head(calls) \in Calls /\ Tail(calls) \in Seq(Calls)
    BY <1>0, <2>1
  <2>3. \/ compressed' = TRUE /\ UNCHANGED <<crypt, joined>>
        \/ /\ Head(calls).call = "EnableEncryption" /\ crypt' = [key |-> Head(calls).key, in |-> 0, out |-> 0]
           /\ UNCHANGED <<compressed, joined>>
        \/ joined' = TRUE /\ UNCHANGED <<compressed, crypt>>
    BY <1>2 DEF sessionSwitches, codec
  <2>4. Head(calls).call = "EnableEncryption" => Head(calls).key \in Nat
    BY <2>2 DEF Calls
  <2>5. joined' \in BOOLEAN /\ compressed' \in BOOLEAN /\ crypt' \in Crypts
    <3>1. joined \in BOOLEAN /\ compressed \in BOOLEAN /\ crypt \in Crypts
      BY DEF WireTypes
    <3>2. \A k \in Nat : [key |-> k, in |-> 0, out |-> 0] \in Crypts
      BY DEF Crypts
    <3> QED
      BY <2>3, <2>4, <3>1, <3>2
  <2>6. FlowInv'
    BY <1>0, <2>1, <2>2, FlowMoves DEF flow
  <2>7. WireTypes'
    BY <2>1, <2>5 DEF WireTypes, writers
  <2>8. Head(calls).call \notin {"WritePacket", "WritePacketUncompressed"}
    BY <1>2 DEF sessionSwitches
  <2>9. pending[Session] = << >>
    BY <2>8 DEF WriteInv
  <2> QED
    BY <2>1, <2>6, <2>7, <2>9 DEF WriteInv, writers
<1>3. ASSUME NEW w \in Writers, connWrite(w) PROVE FlowInv' /\ WireTypes' /\ WriteInv'
  <2>1. /\ pending[w] # << >> /\ toClient' = toClient \o pending[w]
        /\ pending' = [pending EXCEPT ![w] = << >>]
        /\ UNCHANGED <<configured, codec, flow, joined, inbox, toServer, client, written>>
    BY <1>3 DEF connWrite
  <2>2. PICK b \in ServerBatches : pending[w] = <<b>>
    BY <2>1 DEF WireTypes
  <2>3. toClient' \in Seq(ServerBatches)
    BY <2>1, <2>2 DEF WireTypes
  <2>4. pending' \in [Writers -> {<< >>} \cup {<<x>> : x \in ServerBatches}]
    BY <2>1 DEF WireTypes
  <2>5. CASE w = Session
    <3>1. calls' = Tail(calls) /\ UNCHANGED peerWriting /\ calls # << >>
      BY <1>3, <2>1, <2>5 DEF connWrite, WriteInv
    <3>2. calls' \in Seq(Calls)
      BY <1>0, <3>1
    <3>3. pending'[Session] = << >>
      BY <2>1, <2>5 DEF WireTypes
    <3>4. FlowInv'
      BY <1>0, <2>1, <3>2, FlowMoves DEF flow
    <3>5. WireTypes'
      BY <2>1, <2>3, <2>4, <3>1 DEF WireTypes, codec
    <3> QED
      BY <3>3, <3>4, <3>5 DEF WriteInv
  <2>6. CASE w # Session
    <3>1. peerWriting' = [peerWriting EXCEPT ![w] = {}] /\ UNCHANGED calls /\ w \in Peers
      BY <1>3, <2>6 DEF connWrite, Writers
    <3>2. peerWriting' \in [Peers -> SUBSET BOOLEAN]
      BY <3>1 DEF WireTypes
    <3>3. pending'[Session] = pending[Session]
      BY <1>0, <2>1, <2>6 DEF WireTypes
    <3>4. FlowInv'
      BY <1>0, <2>1, <3>1, FlowMoves DEF flow
    <3>5. WireTypes'
      BY <2>1, <2>3, <2>4, <3>2 DEF WireTypes, codec
    <3> QED
      BY <3>1, <3>3, <3>4, <3>5 DEF WriteInv
  <2> QED
    BY <2>5, <2>6
<1>4. CASE Serve
  <2>1. /\ toServer # << >> /\ toServer' = Tail(toServer) /\ calls = << >>
        /\ UNCHANGED <<configured, joined, compressed, stackSent, chunksSent, queue, calls, writers,
                       toClient, client, written>>
        /\ \/ inbox' = Head(toServer).packets /\ crypt' = AfterReading(crypt) /\ state' = state
           \/ state' = "ended" /\ UNCHANGED <<inbox, crypt>>
    BY <1>4 DEF Serve
  <2>2. Head(toServer) \in ClientBatches /\ Tail(toServer) \in Seq(ClientBatches)
    BY <2>1 DEF WireTypes
  <2>3. Head(toServer).packets \in Seq(ClientPackets)
    BY <2>2 DEF ClientBatches, BatchesOf
  <2>4. crypt' \in Crypts
    BY <2>1, CodecTypes DEF WireTypes
  <2>5. FlowInv'
    BY <1>0, <2>1, <2>3, FlowMoves DEF States
  <2>6. WireTypes'
    BY <2>1, <2>2, <2>4 DEF WireTypes, writers
  <2> QED
    BY <2>1, <2>5, <2>6 DEF WriteInv, writers
<1> QED
  BY <1>1, <1>2, <1>3, <1>4

LEMMA PeerTypes ==
    ASSUME FlowInv, WireTypes, WriteInv, NEW w \in Peers, peerWrites(w) \/ peerEncodes(w)
    PROVE  FlowInv' /\ WireTypes' /\ WriteInv'
<1>0. /\ calls \in Seq(Calls) /\ inbox \in Seq(ClientPackets) /\ w \in Writers /\ state \in States
      /\ Session \in Writers /\ Session # w
  BY LoginFlowAssumption DEF FlowInv, FlowTypes, Writers
<1>1. CASE peerWrites(w)
  <2>1. /\ peerWriting' = [peerWriting EXCEPT ![w] = {compressed}]
        /\ written' = [written EXCEPT !.peers = @ + 1]
        /\ UNCHANGED <<configured, codec, flow, joined, inbox, calls, pending, toServer, toClient, client>>
    BY <1>1 DEF peerWrites
  <2>2. written \in History
    BY DEF FlowInv, FlowTypes
  <2>3. /\ written' \in History /\ written'.info = written.info /\ written'.stacks = written.stacks
        /\ written'.worlds = written.worlds /\ written'.startGames = written.startGames
    BY <2>1, <2>2 DEF History
  <2>4. FlowTypes'
    BY <2>1, <2>3 DEF FlowInv, FlowTypes, flow
  <2>5. WrittenInv' /\ DownloadInStep'
    BY <2>1, <2>3 DEF FlowInv, WrittenInv, DownloadInStep, downloading, currentPack, flow
  <2>6. peerWriting' \in [Peers -> SUBSET BOOLEAN]
    BY <2>1 DEF WireTypes
  <2>7. WireTypes'
    BY <2>1, <2>6 DEF WireTypes, codec
  <2> QED
    BY <2>1, <2>4, <2>5, <2>7 DEF WriteInv, FlowInv
<1>2. CASE peerEncodes(w)
  <2>1. PICK comp \in peerWriting[w] : Encode(w, Pk("FromPeer"), comp)
    BY <1>2 DEF peerEncodes
  <2>2. comp \in BOOLEAN /\ Pk("FromPeer") \in ServerPackets
    BY PacketsOfServer DEF WireTypes
  <2>3. /\ crypt' \in Crypts
        /\ pending' \in [Writers -> {<< >>} \cup {<<b>> : b \in ServerBatches}]
        /\ \A x \in Writers : x # w => pending'[x] = pending[x] /\ pending[x] = << >>
    BY <1>0, <2>1, <2>2, EncodeTypes
  <2>4. UNCHANGED <<configured, compressed, flow, joined, inbox, calls, peerWriting,
                    toServer, toClient, client, written>>
    BY <1>2 DEF peerEncodes
  <2>5. FlowInv'
    BY <1>0, <2>4, FlowMoves DEF flow
  <2>6. WireTypes'
    BY <2>3, <2>4 DEF WireTypes
  <2> QED
    BY <1>0, <2>3, <2>5, <2>6 DEF WriteInv
<1> QED
  BY <1>1, <1>2

\* Everything but the client's side of the wire stays.
ServerStays ==
    UNCHANGED <<configured, joined, compressed, crypt, state, stackSent, chunksSent, queue,
                inbox, calls, pending, peerWriting, written>>

ClientTyped(c) ==
    c \in [orderly : BOOLEAN, compressed : BOOLEAN, crypt : Crypts, missing : SUBSET Packs,
           sent : Nat, answers : Seq(ClientPackets)]

LEMMA ClientMoves ==
    ASSUME FlowInv, WireTypes, WriteInv, ServerStays, ClientTyped(client'),
           toServer' \in Seq(ClientBatches), toClient' \in Seq(ServerBatches)
    PROVE  FlowInv' /\ WireTypes' /\ WriteInv'
<1>1. FlowInv'
  <2>1. calls \in Seq(Calls) /\ inbox \in Seq(ClientPackets) /\ state \in States
    BY DEF FlowInv, FlowTypes
  <2> QED
    BY <2>1, FlowMoves DEF ServerStays
<1>2. WireTypes'
  BY DEF WireTypes, ServerStays, ClientTyped
<1> QED
  BY <1>1, <1>2 DEF WriteInv, ServerStays

LEMMA ClientSendsTypes ==
    ASSUME FlowInv, WireTypes, WriteInv,
           NEW packets \in Seq(ClientPackets), NEW rest \in Seq(ClientPackets),
           ClientSends(packets, rest)
    PROVE  FlowInv' /\ WireTypes' /\ WriteInv'
<1>1. ClientTyped(client) /\ toServer \in Seq(ClientBatches) /\ toClient \in Seq(ServerBatches)
  BY DEF WireTypes, ClientTyped
<1>2. client.crypt \in Crypts /\ client.crypt.out \in Nat /\ client.compressed \in BOOLEAN
  BY <1>1 DEF ClientTyped, Crypts
<1> DEFINE b == Batch(packets, client.compressed, client.crypt, client.crypt.out)
           a == Advance(client.crypt, 1)
<1>3. b \in ClientBatches
  BY <1>2, BatchTypes DEF ClientBatches
<1>4. a \in Crypts
  BY <1>2, CodecTypes
<1>5. /\ toServer' = Append(toServer, b) /\ UNCHANGED toClient /\ ServerStays
      /\ client' = [client EXCEPT !.answers = rest, !.crypt = a, !.sent = @ + 1]
  BY DEF ClientSends, ServerStays, codec, flow, writers
<1> HIDE DEF a, b
<1>6. ClientTyped(client')
  <2>1. client.sent + 1 \in Nat
    BY <1>1 DEF ClientTyped
  <2>2. \A n \in Nat : ClientTyped([client EXCEPT !.answers = rest, !.crypt = a, !.sent = n])
    BY <1>1, <1>4 DEF ClientTyped
  <2> QED
    BY <1>5, <2>1, <2>2
<1>7. toServer' \in Seq(ClientBatches)
  BY <1>1, <1>3, <1>5
<1> QED
  BY <1>1, <1>5, <1>6, <1>7, ClientMoves

LEMMA ClientTypes ==
    ASSUME FlowInv, WireTypes, WriteInv, clientReads \/ clientAnswers \/ clientSendsAnything
    PROVE  FlowInv' /\ WireTypes' /\ WriteInv'
<1>0. ClientTyped(client) /\ configured \in SUBSET Packs
  BY DEF WireTypes, ClientTyped, FlowInv, FlowTypes
<1>1. CASE clientReads
  <2> DEFINE pk == Head(toClient).packets[1]
  <2>1. /\ toClient # << >> /\ toClient' = Tail(toClient) /\ UNCHANGED toServer /\ ServerStays
    BY <1>1 DEF clientReads, ServerStays, codec, flow, writers
  <2>2. Head(toClient) \in ServerBatches /\ Tail(toClient) \in Seq(ServerBatches)
    BY <2>1 DEF WireTypes
  <2>3. pk \in ServerPackets
    <3>1. PICK x \in ServerPackets : Head(toClient).packets = <<x>>
      BY <2>2 DEF ServerBatches, BatchesOf
    <3> QED
      BY <3>1
  <2> DEFINE newCrypt == IF pk.type = "ServerToClientHandshake" THEN [key |-> pk.key, in |-> 0, out |-> 0]
                         ELSE AfterReading(client.crypt)
             newComp == client.compressed \/ pk.type = "NetworkSettings"
  <2>4. PICK a \in IF client.orderly THEN Answers(pk) ELSE {<< << >>, {} >>} :
           client' = [client EXCEPT !.answers = @ \o a[1], !.missing = a[2],
                                    !.compressed = newComp, !.crypt = newCrypt]
    BY <1>1 DEF clientReads
  <2>5. newCrypt \in Crypts
    <3>1. CASE pk.type = "ServerToClientHandshake"
      <4>1. pk.key \in Nat
        BY <2>3, <3>1 DEF ServerPackets
      <4> QED
        BY <3>1, <4>1 DEF Crypts
    <3>2. CASE pk.type # "ServerToClientHandshake"
      BY <1>0, <3>2, CodecTypes DEF ClientTyped
    <3> QED
      BY <3>1, <3>2
  <2>6. a[1] \in Seq(ClientPackets) /\ a[2] \in SUBSET Packs
    <3>1. CASE client.orderly
      <4>1. a \in Answers(pk) /\ client.missing \in SUBSET Packs
        BY <1>0, <2>4, <3>1 DEF ClientTyped
      <4> QED
        BY <1>0, <2>3, <4>1, AnswersTyped
    <3>2. CASE ~client.orderly
      <4>1. a = << << >>, {} >>
        BY <2>4, <3>2
      <4> QED
        BY <4>1
    <3> QED
      BY <3>1, <3>2
  <2>7. newComp \in BOOLEAN
    BY <1>0 DEF ClientTyped
  <2> HIDE DEF newCrypt, newComp, pk
  <2> DEFINE a1 == a[1]
             a2 == a[2]
  <2>8. /\ a1 \in Seq(ClientPackets) /\ a2 \in SUBSET Packs
        /\ client' = [client EXCEPT !.answers = @ \o a1, !.missing = a2,
                                    !.compressed = newComp, !.crypt = newCrypt]
    BY <2>4, <2>6
  <2> HIDE DEF a1, a2
  <2>9. client.answers \o a1 \in Seq(ClientPackets)
    BY <1>0, <2>8 DEF ClientTyped
  <2>10. \A s \in Seq(ClientPackets) :
            ClientTyped([client EXCEPT !.answers = s, !.missing = a2, !.compressed = newComp, !.crypt = newCrypt])
    BY <1>0, <2>5, <2>7, <2>8 DEF ClientTyped
  <2>11. ClientTyped(client')
    BY <2>8, <2>9, <2>10
  <2>12. toServer' \in Seq(ClientBatches)
    BY <2>1 DEF WireTypes
  <2> QED
    BY <2>1, <2>2, <2>11, <2>12, ClientMoves
<1>2. CASE clientAnswers
  <2>1. client.answers \in Seq(ClientPackets) /\ client.answers # << >>
    BY <1>0, <1>2 DEF ClientTyped, clientAnswers
  <2>2. /\ <<Head(client.answers)>> \in Seq(ClientPackets) /\ Tail(client.answers) \in Seq(ClientPackets)
        /\ << >> \in Seq(ClientPackets)
    BY <2>1
  <2> QED
    BY <1>2, <2>1, <2>2, ClientSendsTypes DEF clientAnswers
<1>3. CASE clientSendsAnything
  <2>1. PICK pk \in AnyPacket : ClientSends(<<pk>>, << >>)
    BY <1>3 DEF clientSendsAnything
  <2>2. pk \in ClientPackets
    <3>1. CASE \E s \in UNION {[1..n -> configured \cup {"unknown"}] : n \in 0..2} : pk = SendPacks(s)
      <4>1. PICK n \in 0..2 : \E s \in [1..n -> configured \cup {"unknown"}] : pk = SendPacks(s)
        BY <3>1
      <4>4. PICK s \in [1..n -> configured \cup {"unknown"}] : pk = SendPacks(s)
        BY <4>1
      <4>2. s \in [1..n -> Packs \cup {"unknown"}] /\ n \in Nat
        BY <1>0, <4>4
      <4>3. s \in Seq(Packs \cup {"unknown"})
        BY <4>2
      <4> QED
        BY <4>3, <4>4, PacketsOfClient
    <3>2. CASE \E p \in configured, i \in 0..2 : pk = ChunkPk("ResourcePackChunkRequest", p, i)
      BY <1>0, <3>2, PacketsOfClient
    <3>3. CASE pk \in {Pk(type) : type \in {"RequestNetworkSettings", "Login", "ClientToServerHandshake",
                "ClientCacheStatus", "AllPacksDownloaded", "Completed", "Refused",
                "ResourcePacksReadyForValidation", "RequestChunkRadius",
                "SetLocalPlayerAsInitialised"}}
      BY <3>3, PacketsOfClient
    <3> QED
      BY <2>1, <3>1, <3>2, <3>3 DEF AnyPacket
  <2>3. <<pk>> \in Seq(ClientPackets) /\ << >> \in Seq(ClientPackets)
    BY <2>2
  <2> QED
    BY <2>1, <2>3, ClientSendsTypes
<1> QED
  BY <1>1, <1>2, <1>3

LoginInv == FlowInv /\ WireTypes /\ WriteInv

LEMMA LoginInitially == Init => LoginInv
<1> SUFFICES ASSUME Init PROVE LoginInv
  OBVIOUS
<1>1. FlowTypes
  <2>1. configured \in SUBSET Packs /\ state \in States /\ stackSent \in BOOLEAN /\ chunksSent \in BOOLEAN
    BY DEF Init, States
  <2>2. /\ queue = [selected |-> << >>, current |-> 1, currentChunk |-> 0]
        /\ inbox = << >> /\ calls = << >>
    BY DEF Init, NoQueue
  <2>3. << >> \in Seq(configured) /\ << >> \in Seq(ClientPackets) /\ << >> \in Seq(Calls) /\ Len(<< >>) = 0
    OBVIOUS
  <2>4. /\ queue \in [selected : Seq(configured), current : Nat \ {0}, currentChunk : Nat]
        /\ queue.current <= Len(queue.selected) + 1
    BY <2>2, <2>3
  <2>5. << >> \in Infos /\ written = [stacks |-> 0, startGames |-> 0, worlds |-> 0, peers |-> 0, info |-> << >>]
    BY DEF Init, Infos
  <2>6. written \in History
    BY <2>5 DEF History
  <2> QED
    BY <2>1, <2>2, <2>3, <2>4, <2>6 DEF FlowTypes
<1>2. WrittenInv /\ DownloadInStep /\ WriteInv
  BY DEF Init, WrittenInv, DownloadInStep, downloading, NoQueue, WriteInv, Writers
<1>3. ClientTyped(client)
  <2>1. PICK orderly \in BOOLEAN :
          client = [orderly |-> orderly, compressed |-> FALSE, crypt |-> NoCrypt, missing |-> {}, sent |-> 0,
                    answers |-> IF orderly THEN <<Pk("RequestNetworkSettings")>> ELSE << >>]
    BY DEF Init
  <2>2. (IF orderly THEN <<Pk("RequestNetworkSettings")>> ELSE << >>) \in Seq(ClientPackets)
    BY PacketsOfClient
  <2>3. NoCrypt \in Crypts
    BY DEF NoCrypt, Crypts
  <2> QED
    BY <2>1, <2>2, <2>3 DEF ClientTyped
<1>4. WireTypes
  <2>1. joined \in BOOLEAN /\ compressed \in BOOLEAN /\ crypt \in Crypts
    BY DEF Init, NoCrypt, Crypts
  <2>2. pending \in [Writers -> {<< >>} \cup {<<b>> : b \in ServerBatches}]
    BY DEF Init
  <2>3. peerWriting \in [Peers -> SUBSET BOOLEAN]
    BY DEF Init
  <2>4. toServer \in Seq(ClientBatches) /\ toClient \in Seq(ServerBatches)
    BY DEF Init
  <2> QED
    BY <1>3, <2>1, <2>2, <2>3, <2>4 DEF WireTypes, ClientTyped
<1> QED
  BY <1>1, <1>2, <1>4 DEF LoginInv, FlowInv

LEMMA LoginInductive == LoginInv /\ [Next]_vars => LoginInv'
<1> SUFFICES ASSUME LoginInv, [Next]_vars PROVE LoginInv'
  OBVIOUS
<1> USE DEF LoginInv
<1>1. CASE Handler
  <2>1. FlowInv' /\ HandlerStep /\ calls = << >>
    BY <1>1, HandlerInv DEF WireTypes
  <2>2. WireTypes' /\ WriteInv'
    BY <2>1 DEF WireTypes, WriteInv, HandlerStep
  <2> QED
    BY <2>1, <2>2
<1>2. CASE UNCHANGED vars
  <2>1. FlowInv'
    BY <1>2 DEF vars, FlowInv, FlowTypes, WrittenInv, DownloadInStep, downloading, currentPack
  <2>2. WireTypes' /\ WriteInv'
    BY <1>2 DEF vars, WireTypes, WriteInv
  <2> QED
    BY <2>1, <2>2
<1> QED
  BY <1>1, <1>2, SessionTypes, PeerTypes, ClientTypes DEF Next

LEMMA LoginInvariant == Spec => []LoginInv
  BY LoginInitially, LoginInductive, PTL DEF Spec

\* Every variable of the login flow has its type, whatever the client sends:
\* the queue never points beyond the packs that Begin selected, and those are
\* configured ones.
THEOREM LoginTypes == Spec => []TypeOK
<1>1. LoginInv => TypeOK
  <2> SUFFICES ASSUME LoginInv PROVE TypeOK
    OBVIOUS
  <2>1. /\ state \in States /\ configured \subseteq Packs
        /\ joined \in BOOLEAN /\ compressed \in BOOLEAN /\ stackSent \in BOOLEAN /\ chunksSent \in BOOLEAN
        /\ peerWriting \in [Peers -> SUBSET BOOLEAN]
    BY DEF LoginInv, FlowInv, FlowTypes, WireTypes
  <2>2. crypt.key \in Nat /\ crypt.in \in Nat /\ crypt.out \in Nat
    BY DEF LoginInv, WireTypes, Crypts
  <2>3. /\ queue.selected \in Seq(configured) /\ queue.current \in Nat \ {0} /\ queue.currentChunk \in Nat
        /\ queue.current <= Len(queue.selected) + 1
    BY DEF LoginInv, FlowInv, FlowTypes
  <2>4. queue.current \in 1..(Len(queue.selected) + 1) /\ Range(queue.selected) \subseteq configured
    BY <2>3, RangeOfSeq
  <2>5. \A w \in Writers : Len(pending[w]) \in {0, 1}
    <3> SUFFICES ASSUME NEW w \in Writers PROVE Len(pending[w]) \in {0, 1}
      OBVIOUS
    <3>1. pending[w] = << >> \/ \E b \in ServerBatches : pending[w] = <<b>>
      BY DEF LoginInv, WireTypes
    <3>2. Len(<< >>) = 0 /\ \A b : Len(<<b>>) = 1
      OBVIOUS
    <3> QED
      BY <3>1, <3>2
  <2> QED
    BY <2>1, <2>2, <2>3, <2>4, <2>5 DEF TypeOK, States
<1> QED
  BY <1>1, LoginInvariant, PTL

\* Whatever a client sends and repeats: sendResourcePackStack,
\* finishResourcePackFlow and handleRequestChunkRadius write the stack and the
\* world at most once, and the stack before StartGame when there are packs.
THEOREM StackAndWorldOnce == Spec => []WrittenOnce
<1>1. LoginInv => WrittenOnce
  BY DEF LoginInv, FlowInv, FlowTypes, WrittenInv, WrittenOnce
<1> QED
  BY <1>1, LoginInvariant, PTL

\* Whatever a client requests, and whatever sizes the packs have: the queue and
\* what has been written of the download do not get out of step (Begin,
\* HandleChunkRequest).
THEOREM DownloadsInStep == Spec => []DownloadInStep
<1>1. LoginInv => DownloadInStep
  BY DEF LoginInv, FlowInv
<1> QED
  BY <1>1, LoginInvariant, PTL

-----------------------------------------------------------------------------
(* Both ends decode what they read.  For an orderly client the handshake is   *)
(* a row of phases, in each of which at most one batch is on its way; then    *)
(* both ends hold the key and the batches are numbered.                       *)

\* A batch written before the encryption.
Clear(pk, comp) == [packets |-> <<pk>>, compressed |-> comp, key |-> 0, counter |-> 0]
Handshake == [type |-> "ServerToClientHandshake", key |-> 1]
EmptyCrypt(k) == [key |-> k, in |-> 0, out |-> 0]

\* No other session writes to the client.
Idle ==
    /\ joined = FALSE
    /\ \A w \in Peers : pending[w] = << >> /\ peerWriting[w] = {}

Codecs(comp, k, clientComp) ==
    /\ compressed = comp /\ crypt = EmptyCrypt(k)
    /\ client.compressed = clientComp /\ client.crypt = NoCrypt

Session3(cs, ib, pd) == calls = cs /\ inbox = ib /\ pending[Session] = pd
Wire3(answers, up, down) == client.answers = answers /\ toServer = up /\ toClient = down

RequestPhase ==
    /\ Codecs(FALSE, 0, FALSE)
    /\ \/ /\ Session3(<< >>, << >>, << >>)
          /\ \/ Wire3(<<Pk("RequestNetworkSettings")>>, << >>, << >>)
             \/ Wire3(<< >>, <<Clear(Pk("RequestNetworkSettings"), FALSE)>>, << >>)
       \/ Session3(<< >>, <<Pk("RequestNetworkSettings")>>, << >>) /\ Wire3(<< >>, << >>, << >>)

SettingsPhase ==
    /\ Codecs(FALSE, 0, FALSE)
    /\ \E pd \in {<< >>, <<Clear(Pk("NetworkSettings"), FALSE)>>} :
          Session3(<<WriteUncompressed(Pk("NetworkSettings")), EnableCompression>>, << >>, pd)
    /\ Wire3(<< >>, << >>, << >>)

\* The server switches compression on while the client reads and answers.
CompressionPhase ==
    \E cs \in {<< >>, <<EnableCompression>>} :
        /\ Session3(cs, << >>, << >>)
        /\ \/ /\ Codecs(cs = << >>, 0, FALSE)
              /\ Wire3(<< >>, << >>, <<Clear(Pk("NetworkSettings"), FALSE)>>)
           \/ /\ Codecs(cs = << >>, 0, TRUE)
              /\ \/ Wire3(<<Pk("Login")>>, << >>, << >>)
                 \/ Wire3(<< >>, <<Clear(Pk("Login"), TRUE)>>, << >>)

LoginPhase ==
    /\ Codecs(TRUE, 0, TRUE)
    /\ Wire3(<< >>, << >>, << >>)
    /\ \/ Session3(<< >>, <<Pk("Login")>>, << >>)
       \/ \E pd \in {<< >>, <<Clear(Handshake, TRUE)>>} :
             Session3(<<Write(Handshake), EnableEncryption(1)>>, << >>, pd)

\* The server takes the key while the client reads the handshake.
HandshakePhase ==
    /\ Wire3(<< >>, << >>, <<Clear(Handshake, TRUE)>>)
    /\ \/ Codecs(TRUE, 0, TRUE) /\ Session3(<<EnableEncryption(1)>>, << >>, << >>)
       \/ Codecs(TRUE, 1, TRUE) /\ Session3(<< >>, << >>, << >>)

\* A batch under the key with the given counter.
Sealed(b, n) == b.compressed = TRUE /\ b.key = 1 /\ b.counter = n

\* From the client: numbered from what the server expects to what the client has sent.
UpStream ==
    /\ \A i \in 1..Len(toServer) :
          /\ Sealed(toServer[i], crypt.in + i - 1)
          /\ toServer[i].packets \in Seq(PlainClientPackets)
    /\ client.crypt.out = crypt.in + Len(toServer)
    /\ inbox \in Seq(PlainClientPackets) /\ client.answers \in Seq(PlainClientPackets)

\* To the client: the batch that was encoded last may not be on the wire, but
\* then its writer holds writeMu.
DownStream ==
    /\ \A i \in 1..Len(toClient) :
          /\ Sealed(toClient[i], client.crypt.in + i - 1)
          /\ toClient[i].packets[1] \in PlainServerPackets
    /\ \A w \in Writers : pending[w] # << >> =>
          /\ Sealed(pending[w][1], client.crypt.in + Len(toClient))
          /\ pending[w][1].packets[1] \in PlainServerPackets
          /\ crypt.out = client.crypt.in + Len(toClient) + 1
          /\ \A x \in Writers : x # w => pending[x] = << >>
    /\ writeMuFree => crypt.out = client.crypt.in + Len(toClient)

Keyed == compressed = TRUE /\ client.compressed = TRUE /\ client.crypt.key = 1
PeersCompress == \A w \in Peers : peerWriting[w] \subseteq {TRUE}

\* The client holds the key; the server does too, or takes it before it reads
\* or writes anything.
Switched == crypt.key = 1 /\ calls \in Seq(PlainCalls)
Switching ==
    /\ crypt = NoCrypt /\ Idle /\ Session3(<<EnableEncryption(1)>>, << >>, << >>)
    /\ toClient = << >> /\ client.crypt.in = 0

SecurePhase == Keyed /\ PeersCompress /\ UpStream /\ DownStream /\ (Switched \/ Switching)

OpenPhase ==
    Idle /\ (RequestPhase \/ SettingsPhase \/ CompressionPhase \/ LoginPhase \/ HandshakePhase)

WireInv == state # "ended" /\ client.orderly => OpenPhase \/ SecurePhase

\* Short sequences.
LEMMA ShortSequences ==
    /\ \A x : <<x>> # << >> /\ Head(<<x>>) = x /\ Tail(<<x>>) = << >> /\ Append(<< >>, x) = <<x>>
    /\ \A x : << >> \o <<x>> = <<x>>
    /\ \A x, y : <<x, y>> # << >> /\ Head(<<x, y>>) = x /\ Tail(<<x, y>>) = <<y>>
<1>1. \A x : <<x>> # << >> /\ Head(<<x>>) = x /\ Tail(<<x>>) = << >> /\ Append(<< >>, x) = <<x>>
  OBVIOUS
<1>2. \A x : << >> \o <<x>> = <<x>>
  <2> SUFFICES ASSUME NEW x PROVE << >> \o <<x>> = <<x>>
    OBVIOUS
  <2>1. << >> \in Seq({x}) /\ <<x>> \in Seq({x})
    OBVIOUS
  <2> QED
    BY <2>1, ConcatEmptySeq
<1>3. \A x, y : <<x, y>> # << >> /\ Head(<<x, y>>) = x /\ Tail(<<x, y>>) = <<y>>
  OBVIOUS
<1> QED
  BY <1>1, <1>2, <1>3

\* The client sends the only answer it has.
LEMMA AnswerOne ==
    ASSUME LoginInv, NEW pk, NEW comp, NEW k, NEW clientComp, NEW down, Codecs(comp, k, clientComp),
           Wire3(<<pk>>, << >>, down), clientAnswers
    PROVE  /\ Codecs(comp, k, clientComp)' /\ Wire3(<< >>, <<Clear(pk, clientComp)>>, down)'
           /\ ServerStays
<1>1. PICK packets \in {client.answers, <<Head(client.answers)>>},
           rest \in {<< >>, Tail(client.answers)} : 
             /\ packets = <<pk>> /\ rest = << >>
             /\ ClientSends(packets, rest)
  BY ShortSequences DEF clientAnswers, Wire3
<1>2. ClientSends(<<pk>>, << >>)
  BY <1>1
<1>3. client.compressed = clientComp /\ client.crypt = NoCrypt /\ toServer = << >> /\ toClient = down
      /\ compressed = comp /\ crypt = EmptyCrypt(k)
  BY DEF Codecs, Wire3
<1>4. Batch(<<pk>>, clientComp, NoCrypt, NoCrypt.out) = Clear(pk, clientComp)
  BY DEF Batch, Clear, NoCrypt
<1>5. Advance(NoCrypt, 1) = NoCrypt
  BY DEF Advance, NoCrypt
<1>6. /\ toServer' = <<Clear(pk, clientComp)>> /\ toClient' = down /\ ServerStays
      /\ client' = [client EXCEPT !.answers = << >>, !.crypt = NoCrypt, !.sent = @ + 1]
  BY <1>2, <1>3, <1>4, <1>5, ShortSequences DEF ClientSends, ServerStays, codec, flow, writers
<1>7. client'.answers = << >> /\ client'.crypt = NoCrypt /\ client'.compressed = clientComp
  BY <1>3, <1>6 DEF LoginInv, WireTypes
<1> QED
  BY <1>3, <1>6, <1>7 DEF Codecs, Wire3, ServerStays

LEMMA OpenAnswers ==
    ASSUME LoginInv, OpenPhase, clientAnswers
    PROVE  OpenPhase'
<1>1. client.answers # << >>
  BY DEF clientAnswers
<1>2. CASE RequestPhase
  <2>1. /\ Codecs(FALSE, 0, FALSE) /\ Session3(<< >>, << >>, << >>)
        /\ Wire3(<<Pk("RequestNetworkSettings")>>, << >>, << >>)
    BY <1>1, <1>2 DEF RequestPhase, Wire3
  <2>2. /\ Codecs(FALSE, 0, FALSE)' /\ Wire3(<< >>, <<Clear(Pk("RequestNetworkSettings"), FALSE)>>, << >>)'
        /\ ServerStays
    BY <2>1, AnswerOne
  <2>3. Session3(<< >>, << >>, << >>)' /\ Idle'
    BY <2>1, <2>2 DEF Session3, ServerStays, OpenPhase, Idle
  <2> QED
    BY <2>2, <2>3 DEF OpenPhase, RequestPhase
<1>3. CASE CompressionPhase
  <2>1. PICK cs \in {<< >>, <<EnableCompression>>} :
          /\ Session3(cs, << >>, << >>) /\ Codecs(cs = << >>, 0, TRUE)
          /\ Wire3(<<Pk("Login")>>, << >>, << >>)
    BY <1>1, <1>3 DEF CompressionPhase, Wire3
  <2>2. /\ Codecs(cs = << >>, 0, TRUE)' /\ Wire3(<< >>, <<Clear(Pk("Login"), TRUE)>>, << >>)'
        /\ ServerStays
    BY <2>1, AnswerOne
  <2>3. Session3(cs, << >>, << >>)' /\ Idle'
    BY <2>1, <2>2 DEF Session3, ServerStays, OpenPhase, Idle
  <2> QED
    BY <2>2, <2>3 DEF OpenPhase, CompressionPhase
<1>4. CASE SettingsPhase \/ LoginPhase \/ HandshakePhase
  BY <1>1, <1>4 DEF SettingsPhase, LoginPhase, HandshakePhase, Wire3
<1> QED
  BY <1>2, <1>3, <1>4 DEF OpenPhase

\* The client reads the only batch on its way.
LEMMA ReadOne ==
    ASSUME LoginInv, client.orderly, NEW pk \in ServerPackets, NEW comp, NEW up,
           Wire3(<< >>, up, <<Clear(pk, comp)>>), clientReads
    PROVE  /\ toServer' = up /\ toClient' = << >> /\ ServerStays
           /\ client'.orderly = client.orderly
           /\ client'.compressed = (client.compressed \/ pk.type = "NetworkSettings")
           /\ client'.crypt = (IF pk.type = "ServerToClientHandshake"
                               THEN EmptyCrypt(pk.key) ELSE AfterReading(client.crypt))
           /\ \E a \in Answers(pk) : client'.answers = << >> \o a[1]
<1>1. toClient = <<Clear(pk, comp)>> /\ toServer = up /\ client.answers = << >>
  BY DEF Wire3
<1>2. Head(toClient).packets[1] = pk
  BY <1>1, ShortSequences DEF Clear
<1> DEFINE newCrypt == IF pk.type = "ServerToClientHandshake"
                       THEN [key |-> pk.key, in |-> 0, out |-> 0] ELSE AfterReading(client.crypt)
           newComp == client.compressed \/ pk.type = "NetworkSettings"
<1>3. PICK a \in Answers(pk) :
         client' = [client EXCEPT !.answers = @ \o a[1], !.missing = a[2],
                                  !.compressed = newComp, !.crypt = newCrypt]
  BY <1>2 DEF clientReads
<1>4. toClient' = << >> /\ toServer' = up /\ ServerStays
  BY <1>1, ShortSequences DEF clientReads, ServerStays, codec, flow, writers
<1> HIDE DEF newCrypt, newComp
<1>5. /\ client'.orderly = client.orderly /\ client'.compressed = newComp /\ client'.crypt = newCrypt
      /\ client'.answers = << >> \o a[1]
  BY <1>1, <1>3 DEF LoginInv, WireTypes
<1> QED
  BY <1>4, <1>5 DEF newCrypt, newComp, EmptyCrypt

LEMMA OpenReads ==
    ASSUME LoginInv, client.orderly, OpenPhase, clientReads
    PROVE  OpenPhase' \/ SecurePhase'
<1>1. toClient # << >> /\ Idle /\ configured \in SUBSET Packs /\ client.missing \in SUBSET Packs
  BY DEF clientReads, OpenPhase, LoginInv, FlowInv, FlowTypes, WireTypes
<1>2. CASE CompressionPhase
  <2>1. PICK cs \in {<< >>, <<EnableCompression>>} :
          /\ Session3(cs, << >>, << >>) /\ Codecs(cs = << >>, 0, FALSE)
          /\ Wire3(<< >>, << >>, <<Clear(Pk("NetworkSettings"), FALSE)>>)
    BY <1>1, <1>2 DEF CompressionPhase, Wire3
  <2>2. Pk("NetworkSettings") \in ServerPackets /\ Pk("NetworkSettings").type = "NetworkSettings"
    BY PacketsOfServer DEF Pk
  <2> DEFINE pk == Pk("NetworkSettings")
  <2> HIDE DEF pk
  <2>3. /\ toServer' = << >> /\ toClient' = << >> /\ ServerStays
        /\ client'.compressed = (client.compressed \/ pk.type = "NetworkSettings")
        /\ client'.crypt = (IF pk.type = "ServerToClientHandshake"
                            THEN EmptyCrypt(pk.key) ELSE AfterReading(client.crypt))
        /\ \E a \in Answers(pk) : client'.answers = << >> \o a[1]
    BY <2>1, <2>2, ReadOne DEF pk
  <2>4. pk.type = "NetworkSettings"
    BY <2>2 DEF pk
  <2>5. Answers(pk) = {<< <<Pk("Login")>>, client.missing >>}
    BY <2>4 DEF Answers
  <2>6. client'.answers = <<Pk("Login")>>
    BY <2>3, <2>5, ShortSequences
  <2>7. client'.crypt = NoCrypt
    BY <2>1, <2>3, <2>4 DEF Codecs, AfterReading, NoCrypt
  <2>8. client'.compressed = TRUE
    BY <2>3, <2>4
  <2>9. Session3(cs, << >>, << >>)' /\ Idle' /\ Codecs(cs = << >>, 0, TRUE)'
    BY <1>1, <2>1, <2>3, <2>7, <2>8 DEF Session3, ServerStays, Idle, Codecs
  <2>10. Wire3(<<Pk("Login")>>, << >>, << >>)'
    BY <2>3, <2>6 DEF Wire3
  <2> QED
    BY <2>9, <2>10 DEF OpenPhase, CompressionPhase
<1>3. CASE HandshakePhase
  <2>1. Wire3(<< >>, << >>, <<Clear(Handshake, TRUE)>>)
    BY <1>3 DEF HandshakePhase
  <2>2. Handshake \in ServerPackets /\ Handshake.type = "ServerToClientHandshake" /\ Handshake.key = 1
    BY PacketsOfServer DEF Handshake
  <2>3. /\ toServer' = << >> /\ toClient' = << >> /\ ServerStays
        /\ client'.compressed = (client.compressed \/ Handshake.type = "NetworkSettings")
        /\ client'.crypt = (IF Handshake.type = "ServerToClientHandshake"
                            THEN EmptyCrypt(Handshake.key) ELSE AfterReading(client.crypt))
        /\ \E a \in Answers(Handshake) : client'.answers = << >> \o a[1]
    BY <2>1, <2>2, ReadOne
  <2>4. PICK a \in Answers(Handshake) : client'.answers = << >> \o a[1]
    BY <2>3
  <2>5. a[1] \in Seq(PlainClientPackets)
    BY <1>1, <2>2, AnswersPlain
  <2>6. client'.answers \in Seq(PlainClientPackets)
    BY <2>4, <2>5, ConcatEmptySeq
  <2>7. client'.crypt = EmptyCrypt(1) /\ client'.compressed = TRUE
    BY <1>3, <2>2, <2>3 DEF HandshakePhase, Codecs
  <2>8. client'.crypt.key = 1 /\ client'.crypt.in = 0 /\ client'.crypt.out = 0
    BY <2>7 DEF EmptyCrypt
  <2>9. /\ compressed' = TRUE /\ crypt' = crypt /\ inbox' = << >>
        /\ pending'[Session] = << >>
    BY <1>3, <2>3 DEF HandshakePhase, Codecs, Session3, ServerStays
  <2>10. crypt.in = 0 /\ crypt.out = 0
    BY <1>3 DEF HandshakePhase, Codecs, EmptyCrypt
  <2>11. Idle' /\ \A w \in Writers : pending'[w] = << >>
    BY <1>1, <2>3, <2>9 DEF Idle, Writers, ServerStays
  <2>12. UpStream'
    BY <2>3, <2>6, <2>8, <2>9, <2>10 DEF UpStream
  <2>13. DownStream'
    BY <2>3, <2>8, <2>9, <2>10, <2>11 DEF DownStream
  <2>14. \/ crypt'.key = 1 /\ calls' \in Seq(PlainCalls)
         \/ crypt' = NoCrypt /\ Session3(<<EnableEncryption(1)>>, << >>, << >>)'
    <3>1. CASE Codecs(TRUE, 0, TRUE) /\ Session3(<<EnableEncryption(1)>>, << >>, << >>)
      BY <2>3, <3>1 DEF Codecs, Session3, ServerStays, EmptyCrypt, NoCrypt
    <3>2. CASE Codecs(TRUE, 1, TRUE) /\ Session3(<< >>, << >>, << >>)
      <4>1. crypt' = EmptyCrypt(1) /\ calls' = << >>
        BY <2>3, <3>2 DEF Codecs, Session3, ServerStays
      <4> QED
        BY <4>1, PlainCallsToWrite DEF EmptyCrypt
    <3> QED
      BY <1>3, <3>1, <3>2 DEF HandshakePhase
  <2>15. (Switched \/ Switching)'
    BY <2>3, <2>8, <2>11, <2>14 DEF Switched, Switching
  <2>16. Keyed' /\ PeersCompress'
    BY <2>7, <2>8, <2>9, <2>11 DEF Keyed, PeersCompress, Idle
  <2> QED
    BY <2>12, <2>13, <2>15, <2>16 DEF SecurePhase
<1>4. CASE RequestPhase \/ SettingsPhase \/ LoginPhase
  BY <1>1, <1>4 DEF RequestPhase, SettingsPhase, LoginPhase, Wire3
<1> QED
  BY <1>2, <1>3, <1>4 DEF OpenPhase

\* The server reads the only batch on its way.
LEMMA ServeOne ==
    ASSUME LoginInv, NEW pk, NEW comp, NEW down, Codecs(comp, 0, comp), Session3(<< >>, << >>, << >>),
           Wire3(<< >>, <<Clear(pk, comp)>>, down), Idle, Serve
    PROVE  Codecs(comp, 0, comp)' /\ Session3(<< >>, <<pk>>, << >>)' /\ Wire3(<< >>, << >>, down)' /\ Idle'
<1>1. Head(toServer) = Clear(pk, comp) /\ Tail(toServer) = << >> /\ compressed = comp /\ crypt = EmptyCrypt(0)
  BY ShortSequences DEF Wire3, Codecs
<1>2. Readable(Head(toServer), compressed, crypt)
  BY <1>1 DEF Readable, Clear, EmptyCrypt
<1>3. /\ toServer' = << >> /\ inbox' = Head(toServer).packets /\ crypt' = AfterReading(crypt)
      /\ UNCHANGED <<joined, compressed, calls, pending, peerWriting, toClient, client>>
  BY <1>1, <1>2 DEF Serve, writers
<1>4. inbox' = <<pk>> /\ crypt' = crypt
  BY <1>1, <1>3 DEF Clear, EmptyCrypt, AfterReading
<1> QED
  BY <1>3, <1>4 DEF Codecs, Session3, Wire3, Idle

LEMMA OpenServe ==
    ASSUME LoginInv, OpenPhase, Serve
    PROVE  OpenPhase'
<1>1. toServer # << >> /\ calls = << >> /\ Idle
  BY DEF Serve, OpenPhase
<1>2. CASE RequestPhase
  <2>1. /\ Codecs(FALSE, 0, FALSE) /\ Session3(<< >>, << >>, << >>)
        /\ Wire3(<< >>, <<Clear(Pk("RequestNetworkSettings"), FALSE)>>, << >>)
    BY <1>1, <1>2 DEF RequestPhase, Wire3
  <2>2. /\ Codecs(FALSE, 0, FALSE)' /\ Session3(<< >>, <<Pk("RequestNetworkSettings")>>, << >>)'
        /\ Wire3(<< >>, << >>, << >>)' /\ Idle'
    BY <1>1, <2>1, ServeOne
  <2> QED
    BY <2>2 DEF OpenPhase, RequestPhase
<1>3. CASE CompressionPhase
  <2>1. PICK cs \in {<< >>, <<EnableCompression>>} :
          /\ Session3(cs, << >>, << >>) /\ Codecs(cs = << >>, 0, TRUE)
          /\ Wire3(<< >>, <<Clear(Pk("Login"), TRUE)>>, << >>)
    BY <1>1, <1>3 DEF CompressionPhase, Wire3
  <2>2. cs = << >>
    BY <1>1, <2>1 DEF Session3
  <2>3. (cs = << >>) = TRUE
    BY <2>2
  <2>4. Codecs(TRUE, 0, TRUE) /\ Session3(<< >>, << >>, << >>)
    BY <2>1, <2>2, <2>3
  <2>5. /\ Codecs(TRUE, 0, TRUE)' /\ Session3(<< >>, <<Pk("Login")>>, << >>)'
        /\ Wire3(<< >>, << >>, << >>)' /\ Idle'
    BY <1>1, <2>1, <2>4, ServeOne
  <2> QED
    BY <2>5 DEF OpenPhase, LoginPhase
<1>4. CASE SettingsPhase \/ LoginPhase \/ HandshakePhase
  BY <1>1, <1>4 DEF SettingsPhase, LoginPhase, HandshakePhase, Wire3
<1> QED
  BY <1>2, <1>3, <1>4 DEF OpenPhase

\* A packet is handled by the handler of its type.
LEMMA HandlerOfType ==
    ASSUME Handler
    PROVE  /\ inbox # << >>
           /\ Head(inbox).type = "RequestNetworkSettings" => handleRequestNetworkSettings
           /\ Head(inbox).type = "Login" => handleLogin
<1>1. CASE handleRequestNetworkSettings \/ handleLogin
  BY <1>1, HandlesStep DEF handleRequestNetworkSettings, handleLogin, HandlerStep
<1>2. CASE handleResourcePackClientResponse
  <2>1. \E t \in {"SendPacks", "AllPacksDownloaded", "Completed", "Refused"} : Handles(t)
    BY <1>2 DEF handleResourcePackClientResponse
  <2> QED
    BY <2>1, HandlesStep DEF HandlerStep
<1>3. CASE handleClientToServerHandshake \/ handleClientCacheStatus \/ handleResourcePacksReadyForValidation
           \/ handleResourcePackChunkRequest \/ handleRequestChunkRadius \/ handleSetLocalPlayerAsInitialised
  <2>1. \E t \in {"ClientToServerHandshake", "ClientCacheStatus", "ResourcePacksReadyForValidation",
                  "ResourcePackChunkRequest", "RequestChunkRadius", "SetLocalPlayerAsInitialised"} : Handles(t)
    BY <1>3 DEF handleClientToServerHandshake, handleClientCacheStatus, handleResourcePacksReadyForValidation,
       handleResourcePackChunkRequest, handleRequestChunkRadius, handleSetLocalPlayerAsInitialised
  <2> QED
    BY <2>1, HandlesStep DEF HandlerStep
<1> QED
  BY <1>1, <1>2, <1>3 DEF Handler

LEMMA OpenHandler ==
    ASSUME LoginInv, client.orderly, OpenPhase, Handler
    PROVE  OpenPhase'
<1>1. inbox # << >> /\ Idle /\ HandlerStep
  BY HandlerOfType, HandlerInv DEF OpenPhase, LoginInv, WireTypes
<1>2. ASSUME NEW comp, Codecs(comp, 0, comp), Wire3(<< >>, << >>, << >>),
             NEW pk, Session3(<< >>, <<pk>>, << >>)
      PROVE  /\ Codecs(comp, 0, comp)' /\ Wire3(<< >>, << >>, << >>)' /\ Idle'
             /\ inbox' = << >> /\ pending'[Session] = << >>
  BY <1>1, <1>2, ShortSequences DEF HandlerStep, Codecs, Wire3, Session3, Idle
<1>3. CASE RequestPhase
  <2>1. /\ Codecs(FALSE, 0, FALSE) /\ Wire3(<< >>, << >>, << >>)
        /\ Session3(<< >>, <<Pk("RequestNetworkSettings")>>, << >>)
    BY <1>1, <1>3 DEF RequestPhase, Session3
  <2>2. Head(inbox).type = "RequestNetworkSettings"
    BY <2>1, ShortSequences DEF Session3, Pk
  <2>3. calls' = <<WriteUncompressed(Pk("NetworkSettings")), EnableCompression>>
    BY <2>2, HandlerOfType DEF handleRequestNetworkSettings
  <2>4. /\ Codecs(FALSE, 0, FALSE)' /\ Wire3(<< >>, << >>, << >>)' /\ Idle'
        /\ inbox' = << >> /\ pending'[Session] = << >>
    BY <1>2, <2>1
  <2>5. SettingsPhase'
    BY <2>3, <2>4 DEF SettingsPhase, Session3
  <2> QED
    BY <2>4, <2>5 DEF OpenPhase
<1>4. CASE LoginPhase
  <2>1. /\ Codecs(TRUE, 0, TRUE) /\ Wire3(<< >>, << >>, << >>)
        /\ Session3(<< >>, <<Pk("Login")>>, << >>)
    BY <1>1, <1>4 DEF LoginPhase, Session3
  <2>2. Head(inbox).type = "Login"
    BY <2>1, ShortSequences DEF Session3, Pk
  <2>3. calls' = <<Write([type |-> "ServerToClientHandshake", key |-> crypt.key + 1]),
                   EnableEncryption(crypt.key + 1)>>
    BY <2>2, HandlerOfType DEF handleLogin
  <2>6. crypt.key + 1 = 1
    BY <2>1 DEF Codecs, EmptyCrypt
  <2>7. calls' = <<Write(Handshake), EnableEncryption(1)>>
    BY <2>3, <2>6 DEF Handshake
  <2>4. /\ Codecs(TRUE, 0, TRUE)' /\ Wire3(<< >>, << >>, << >>)' /\ Idle'
        /\ inbox' = << >> /\ pending'[Session] = << >>
    BY <1>2, <2>1
  <2>5. LoginPhase'
    BY <2>7, <2>4 DEF LoginPhase, Session3
  <2> QED
    BY <2>4, <2>5 DEF OpenPhase
<1>5. CASE SettingsPhase \/ CompressionPhase \/ HandshakePhase
  BY <1>1, <1>5 DEF SettingsPhase, CompressionPhase, HandshakePhase, Session3
<1> QED
  BY <1>3, <1>4, <1>5 DEF OpenPhase

\* The session encodes a packet before the encryption.
LEMMA EncodeOne ==
    ASSUME LoginInv, NEW pk, NEW comp, NEW clientComp, NEW next, NEW c,
           c \in {Write(pk), WriteUncompressed(pk)},
           Codecs(comp, 0, clientComp), Session3(<<c, next>>, << >>, << >>),
           Wire3(<< >>, << >>, << >>), Idle, sessionEncodes
    PROVE  /\ Codecs(comp, 0, clientComp)' /\ Wire3(<< >>, << >>, << >>)' /\ Idle'
           /\ Session3(<<c, next>>, << >>, <<Clear(pk, c.call = "WritePacket" /\ comp)>>)'
<1>1. /\ Head(calls) = c /\ c.pk = pk /\ crypt = EmptyCrypt(0) /\ compressed = comp
      /\ calls = <<c, next>> /\ inbox = << >>
  BY ShortSequences DEF Session3, Write, WriteUncompressed, Codecs
<1> DEFINE cc == c.call = "WritePacket" /\ comp
<1>2. /\ Encode(Session, pk, cc)
      /\ UNCHANGED <<compressed, joined, inbox, calls, peerWriting, toServer, toClient, client>>
  BY <1>1 DEF sessionEncodes
<1> HIDE DEF cc
<1>3. Batch(<<pk>>, cc, EmptyCrypt(0), EmptyCrypt(0).out) = Clear(pk, cc)
      /\ Advance(EmptyCrypt(0), 1) = EmptyCrypt(0)
  BY DEF Batch, Clear, EmptyCrypt, Advance
<1>4. pending' = [pending EXCEPT ![Session] = <<Clear(pk, cc)>>] /\ crypt' = EmptyCrypt(0)
  BY <1>1, <1>2, <1>3 DEF Encode
<1>5. Session \in Writers /\ \A w \in Peers : w \in Writers /\ w # Session
  BY LoginFlowAssumption DEF Writers
<1>6. pending'[Session] = <<Clear(pk, cc)>> /\ \A w \in Peers : pending'[w] = pending[w]
  BY <1>4, <1>5 DEF LoginInv, WireTypes
<1>7. Codecs(comp, 0, clientComp)' /\ Wire3(<< >>, << >>, << >>)' /\ Idle'
  BY <1>2, <1>4, <1>6 DEF Codecs, Wire3, Idle
<1>8. Session3(<<c, next>>, << >>, <<Clear(pk, cc)>>)'
  BY <1>1, <1>2, <1>6 DEF Session3
<1> QED
  BY <1>7, <1>8 DEF cc

LEMMA OpenEncodes ==
    ASSUME LoginInv, OpenPhase, sessionEncodes
    PROVE  OpenPhase'
<1>1. /\ calls # << >> /\ pending[Session] = << >> /\ Idle
      /\ Head(calls).call \in {"WritePacket", "WritePacketUncompressed"}
  BY DEF sessionEncodes, OpenPhase
<1>2. CASE SettingsPhase
  <2> DEFINE c == WriteUncompressed(Pk("NetworkSettings"))
  <2>1. /\ Codecs(FALSE, 0, FALSE) /\ Wire3(<< >>, << >>, << >>)
        /\ Session3(<<c, EnableCompression>>, << >>, << >>)
    BY <1>1, <1>2 DEF SettingsPhase, Session3
  <2>2. (c.call = "WritePacket" /\ FALSE) = FALSE
    OBVIOUS
  <2>3. c \in {Write(Pk("NetworkSettings")), WriteUncompressed(Pk("NetworkSettings"))}
    OBVIOUS
  <2> HIDE DEF c
  <2>4. /\ Codecs(FALSE, 0, FALSE)' /\ Wire3(<< >>, << >>, << >>)' /\ Idle'
        /\ Session3(<<c, EnableCompression>>, << >>,
                    <<Clear(Pk("NetworkSettings"), c.call = "WritePacket" /\ FALSE)>>)'
    BY <1>1, <2>1, <2>3, EncodeOne
  <2>5. Session3(<<c, EnableCompression>>, << >>, <<Clear(Pk("NetworkSettings"), FALSE)>>)'
    BY <2>2, <2>4
  <2> QED
    BY <2>4, <2>5 DEF OpenPhase, SettingsPhase, c
<1>3. CASE LoginPhase
  <2> DEFINE c == Write(Handshake)
  <2>1. /\ Codecs(TRUE, 0, TRUE) /\ Wire3(<< >>, << >>, << >>)
        /\ Session3(<<c, EnableEncryption(1)>>, << >>, << >>)
    BY <1>1, <1>3 DEF LoginPhase, Session3
  <2>2. (c.call = "WritePacket" /\ TRUE) = TRUE
    BY DEF Write
  <2>3. c \in {Write(Handshake), WriteUncompressed(Handshake)}
    OBVIOUS
  <2> HIDE DEF c
  <2>4. /\ Codecs(TRUE, 0, TRUE)' /\ Wire3(<< >>, << >>, << >>)' /\ Idle'
        /\ Session3(<<c, EnableEncryption(1)>>, << >>,
                    <<Clear(Handshake, c.call = "WritePacket" /\ TRUE)>>)'
    BY <1>1, <2>1, <2>3, EncodeOne
  <2>5. Session3(<<c, EnableEncryption(1)>>, << >>, <<Clear(Handshake, TRUE)>>)'
    BY <2>2, <2>4
  <2> QED
    BY <2>4, <2>5 DEF OpenPhase, LoginPhase, c
<1>4. CASE RequestPhase
  BY <1>1, <1>4 DEF RequestPhase, Session3
<1>5. CASE CompressionPhase \/ HandshakePhase
  <2>1. calls = <<EnableCompression>> \/ calls = <<EnableEncryption(1)>>
    BY <1>1, <1>5 DEF CompressionPhase, HandshakePhase, Session3
  <2> QED
    BY <1>1, <2>1, ShortSequences DEF EnableCompression, EnableEncryption
<1> QED
  BY <1>2, <1>3, <1>4, <1>5 DEF OpenPhase

\* The session writes the batch that it has encoded.
LEMMA WriteOne ==
    ASSUME LoginInv, NEW b, NEW comp, NEW clientComp, NEW next, NEW c,
           Codecs(comp, 0, clientComp), Session3(<<c, next>>, << >>, <<b>>),
           Wire3(<< >>, << >>, << >>), Idle, connWrite(Session)
    PROVE  /\ Codecs(comp, 0, clientComp)' /\ Wire3(<< >>, << >>, <<b>>)' /\ Idle'
           /\ Session3(<<next>>, << >>, << >>)'
<1>1. /\ toClient' = toClient \o pending[Session]
      /\ pending' = [pending EXCEPT ![Session] = << >>]
      /\ calls' = Tail(calls)
      /\ UNCHANGED <<compressed, crypt, joined, inbox, toServer, client, peerWriting>>
  BY DEF connWrite, codec
<1>2. toClient' = <<b>> /\ calls' = <<next>>
  BY <1>1, ShortSequences DEF Wire3, Session3
<1>3. Session \in Writers /\ \A w \in Peers : w \in Writers /\ w # Session
  BY LoginFlowAssumption DEF Writers
<1>4. pending'[Session] = << >> /\ \A w \in Peers : pending'[w] = pending[w]
  BY <1>1, <1>3 DEF LoginInv, WireTypes
<1> QED
  BY <1>1, <1>2, <1>4 DEF Codecs, Wire3, Idle, Session3

LEMMA OpenWrites ==
    ASSUME LoginInv, OpenPhase, NEW w \in Writers, connWrite(w)
    PROVE  OpenPhase'
<1>1. w = Session /\ pending[Session] # << >> /\ Idle
  BY DEF connWrite, OpenPhase, Idle, Writers
<1>2. CASE SettingsPhase
  <2>1. /\ Codecs(FALSE, 0, FALSE) /\ Wire3(<< >>, << >>, << >>)
        /\ Session3(<<WriteUncompressed(Pk("NetworkSettings")), EnableCompression>>, << >>,
                    <<Clear(Pk("NetworkSettings"), FALSE)>>)
    BY <1>1, <1>2 DEF SettingsPhase, Session3
  <2>2. /\ Codecs(FALSE, 0, FALSE)' /\ Wire3(<< >>, << >>, <<Clear(Pk("NetworkSettings"), FALSE)>>)' /\ Idle'
        /\ Session3(<<EnableCompression>>, << >>, << >>)'
    BY <1>1, <2>1, WriteOne
  <2> DEFINE cs == <<EnableCompression>>
  <2>3. (cs = << >>) = FALSE
    BY ShortSequences
  <2> HIDE DEF cs
  <2>4. Codecs(cs = << >>, 0, FALSE)'
    BY <2>2, <2>3
  <2>5. cs \in {<< >>, <<EnableCompression>>} /\ Session3(cs, << >>, << >>)'
    BY <2>2 DEF cs
  <2>6. CompressionPhase'
    BY <2>2, <2>4, <2>5 DEF CompressionPhase
  <2> QED
    BY <2>2, <2>6 DEF OpenPhase
<1>3. CASE LoginPhase
  <2>1. /\ Codecs(TRUE, 0, TRUE) /\ Wire3(<< >>, << >>, << >>)
        /\ Session3(<<Write(Handshake), EnableEncryption(1)>>, << >>, <<Clear(Handshake, TRUE)>>)
    BY <1>1, <1>3 DEF LoginPhase, Session3
  <2>2. /\ Codecs(TRUE, 0, TRUE)' /\ Wire3(<< >>, << >>, <<Clear(Handshake, TRUE)>>)' /\ Idle'
        /\ Session3(<<EnableEncryption(1)>>, << >>, << >>)'
    BY <1>1, <2>1, WriteOne
  <2> QED
    BY <2>2 DEF OpenPhase, HandshakePhase
<1>4. CASE RequestPhase \/ CompressionPhase \/ HandshakePhase
  BY <1>1, <1>4 DEF RequestPhase, CompressionPhase, HandshakePhase, Session3
<1> QED
  BY <1>2, <1>3, <1>4 DEF OpenPhase

LEMMA OpenSwitches ==
    ASSUME LoginInv, OpenPhase, sessionSwitches
    PROVE  OpenPhase'
<1>1. /\ calls # << >> /\ calls' = Tail(calls) /\ Idle
      /\ Head(calls).call \in {"EnableCompression", "EnableEncryption", "addPlayer"}
      /\ UNCHANGED <<inbox, pending, peerWriting, toServer, toClient, client>>
  BY DEF sessionSwitches, writers, OpenPhase
<1>2. CASE CompressionPhase
  <2>1. PICK cs \in {<< >>, <<EnableCompression>>} :
          /\ Session3(cs, << >>, << >>)
          /\ \/ /\ Codecs(cs = << >>, 0, FALSE)
                /\ Wire3(<< >>, << >>, <<Clear(Pk("NetworkSettings"), FALSE)>>)
             \/ /\ Codecs(cs = << >>, 0, TRUE)
                /\ \/ Wire3(<<Pk("Login")>>, << >>, << >>)
                   \/ Wire3(<< >>, <<Clear(Pk("Login"), TRUE)>>, << >>)
    BY <1>2 DEF CompressionPhase
  <2>2. calls = <<EnableCompression>>
    BY <1>1, <2>1 DEF Session3
  <2>3. Head(calls).call = "EnableCompression" /\ calls' = << >>
    BY <1>1, <2>2, ShortSequences DEF EnableCompression
  <2>4. compressed' = TRUE /\ UNCHANGED <<crypt, joined>>
    BY <2>3 DEF sessionSwitches
  <2>5. Session3(<< >>, << >>, << >>)' /\ Idle'
    BY <1>1, <2>1, <2>3, <2>4 DEF Session3, Idle
  <2> DEFINE none == << >>
  <2>7. (none = << >>) = TRUE
    OBVIOUS
  <2> HIDE DEF none
  <2>6. \A cc \in BOOLEAN : Codecs(cs = << >>, 0, cc) => Codecs(none = << >>, 0, cc)'
    BY <1>1, <2>4, <2>7 DEF Codecs
  <2>8. \A a, u, d : Wire3(a, u, d) => Wire3(a, u, d)'
    BY <1>1 DEF Wire3
  <2>9. none \in {<< >>, <<EnableCompression>>} /\ Session3(none, << >>, << >>)'
    BY <2>5 DEF none
  <2>10. CompressionPhase'
    BY <2>1, <2>6, <2>8, <2>9 DEF CompressionPhase
  <2> QED
    BY <2>5, <2>10 DEF OpenPhase
<1>3. CASE HandshakePhase
  <2>1. /\ Wire3(<< >>, << >>, <<Clear(Handshake, TRUE)>>)
        /\ Codecs(TRUE, 0, TRUE) /\ Session3(<<EnableEncryption(1)>>, << >>, << >>)
    BY <1>1, <1>3 DEF HandshakePhase, Session3
  <2>2. Head(calls) = EnableEncryption(1) /\ calls' = << >>
    BY <1>1, <2>1, ShortSequences DEF Session3
  <2>3. Head(calls).call = "EnableEncryption" /\ Head(calls).key = 1
    BY <2>2 DEF EnableEncryption
  <2>4. crypt' = EmptyCrypt(1) /\ UNCHANGED <<compressed, joined>>
    BY <2>3 DEF sessionSwitches, EmptyCrypt
  <2>5. Session3(<< >>, << >>, << >>)' /\ Idle' /\ Wire3(<< >>, << >>, <<Clear(Handshake, TRUE)>>)'
        /\ Codecs(TRUE, 1, TRUE)'
    BY <1>1, <2>1, <2>2, <2>4 DEF Session3, Idle, Wire3, Codecs
  <2> QED
    BY <2>5 DEF OpenPhase, HandshakePhase
<1>4. CASE RequestPhase
  BY <1>1, <1>4 DEF RequestPhase, Session3
<1>5. CASE SettingsPhase
  <2>1. Head(calls) = WriteUncompressed(Pk("NetworkSettings"))
    BY <1>5, ShortSequences DEF SettingsPhase, Session3
  <2> QED
    BY <1>1, <2>1 DEF WriteUncompressed
<1>6. CASE LoginPhase
  <2>1. Head(calls) = Write(Handshake)
    BY <1>1, <1>6, ShortSequences DEF LoginPhase, Session3
  <2> QED
    BY <1>1, <2>1 DEF Write
<1> QED
  BY <1>2, <1>3, <1>4, <1>5, <1>6 DEF OpenPhase

\* The handshake goes from phase to phase.
LEMMA OpenStep ==
    ASSUME LoginInv, client.orderly, OpenPhase, Next
    PROVE  OpenPhase' \/ SecurePhase'
<1>1. ~clientSendsAnything
  BY DEF clientSendsAnything
<1>2. ASSUME NEW w \in Peers PROVE ~peerWrites(w) /\ ~peerEncodes(w)
  BY DEF OpenPhase, Idle, peerWrites, peerEncodes
<1> QED
  BY <1>1, <1>2, OpenAnswers, OpenReads, OpenServe, OpenHandler, OpenEncodes, OpenWrites, OpenSwitches
  DEF Next

LEMMA WireNumbers ==
    ASSUME LoginInv
    PROVE  /\ crypt.key \in Nat /\ crypt.in \in Nat /\ crypt.out \in Nat
           /\ client.crypt.key \in Nat /\ client.crypt.in \in Nat /\ client.crypt.out \in Nat
           /\ toServer \in Seq(ClientBatches) /\ toClient \in Seq(ServerBatches)
           /\ Len(toServer) \in Nat /\ Len(toClient) \in Nat
           /\ crypt \in Crypts /\ client.crypt \in Crypts
<1>1. toServer \in Seq(ClientBatches) /\ toClient \in Seq(ServerBatches)
  BY DEF LoginInv, WireTypes
<1>2. crypt \in Crypts /\ client.crypt \in Crypts
  BY DEF LoginInv, WireTypes
<1> QED
  BY <1>1, <1>2 DEF Crypts

LEMMA SecureSends ==
    ASSUME LoginInv, SecurePhase, NEW packets \in Seq(PlainClientPackets),
           NEW rest \in Seq(PlainClientPackets), ClientSends(packets, rest)
    PROVE  SecurePhase'
<1>0. Keyed /\ PeersCompress /\ UpStream /\ DownStream /\ (Switched \/ Switching)
  BY DEF SecurePhase
<1> DEFINE b == Batch(packets, client.compressed, client.crypt, client.crypt.out)
           a == Advance(client.crypt, 1)
<1>1. Sealed(b, client.crypt.out) /\ b.packets = packets
  BY <1>0 DEF Batch, Sealed, Keyed
<1>2. a = [client.crypt EXCEPT !.out = @ + 1]
  BY <1>0 DEF Advance, Keyed
<1>3. a.key = client.crypt.key /\ a.in = client.crypt.in /\ a.out = client.crypt.out + 1
  BY <1>2, WireNumbers DEF Crypts
<1>4. /\ toServer' = Append(toServer, b) /\ UNCHANGED toClient /\ ServerStays
      /\ client' = [client EXCEPT !.answers = rest, !.crypt = a, !.sent = @ + 1]
  BY DEF ClientSends, ServerStays, codec, flow, writers
<1> HIDE DEF a, b
<1>5. client'.answers = rest /\ client'.crypt = a /\ client'.compressed = client.compressed
  BY <1>4 DEF LoginInv, WireTypes
<1>6. Keyed' /\ PeersCompress'
  BY <1>0, <1>3, <1>4, <1>5 DEF Keyed, PeersCompress, ServerStays
<1>7. DownStream'
  BY <1>0, <1>3, <1>4, <1>5 DEF DownStream, writeMuFree, ServerStays
<1>8. (Switched \/ Switching)'
  BY <1>0, <1>3, <1>4, <1>5 DEF Switched, Switching, Idle, Session3, ServerStays
<1>9. UpStream'
  <2>1. /\ Len(toServer') = Len(toServer) + 1 /\ toServer'[Len(toServer) + 1] = b
        /\ \A i \in 1..Len(toServer) : toServer'[i] = toServer[i]
    BY <1>4, WireNumbers
  <2>2. ASSUME NEW i \in 1..Len(toServer')
        PROVE  Sealed(toServer'[i], crypt.in + i - 1) /\ toServer'[i].packets \in Seq(PlainClientPackets)
    <3>1. CASE i \in 1..Len(toServer)
      BY <1>0, <2>1, <3>1 DEF UpStream
    <3>2. CASE i = Len(toServer) + 1
      <4>1. crypt.in + i - 1 = client.crypt.out
        BY <1>0, <3>2, WireNumbers DEF UpStream
      <4> QED
        BY <1>1, <2>1, <3>2, <4>1
    <3> QED
      BY <2>1, <3>1, <3>2, WireNumbers
  <2>3. client'.crypt.out = crypt.in + Len(toServer')
    <3>1. client'.crypt.out = client.crypt.out + 1
      BY <1>3, <1>5
    <3>2. client.crypt.out = crypt.in + Len(toServer)
      BY <1>0 DEF UpStream
    <3>3. crypt.in \in Nat /\ Len(toServer) \in Nat
      BY WireNumbers
    <3>4. Len(toServer') = Len(toServer) + 1
      BY <2>1
    <3> QED
      BY <3>1, <3>2, <3>3, <3>4
  <2>4. crypt' = crypt /\ inbox' = inbox
    BY <1>4 DEF ServerStays
  <2>5. inbox' \in Seq(PlainClientPackets) /\ client'.answers \in Seq(PlainClientPackets)
    BY <1>0, <1>5, <2>4 DEF UpStream
  <2>6. \A i \in 1..Len(toServer') :
           Sealed(toServer'[i], crypt'.in + i - 1) /\ toServer'[i].packets \in Seq(PlainClientPackets)
    BY <2>2, <2>4
  <2>7. client'.crypt.out = crypt'.in + Len(toServer')
    BY <2>3, <2>4
  <2> QED
    BY <2>5, <2>6, <2>7 DEF UpStream, Sealed
<1> QED
  BY <1>6, <1>7, <1>8, <1>9 DEF SecurePhase

LEMMA SecureAnswers ==
    ASSUME LoginInv, SecurePhase, clientAnswers
    PROVE  SecurePhase'
<1>1. client.answers \in Seq(PlainClientPackets) /\ client.answers # << >>
  BY DEF SecurePhase, UpStream, clientAnswers
<1>2. /\ <<Head(client.answers)>> \in Seq(PlainClientPackets)
      /\ Tail(client.answers) \in Seq(PlainClientPackets) /\ << >> \in Seq(PlainClientPackets)
  BY <1>1
<1> QED
  BY <1>1, <1>2, SecureSends DEF clientAnswers

LEMMA SecureReads ==
    ASSUME LoginInv, client.orderly, SecurePhase, clientReads
    PROVE  SecurePhase'
<1>0. Keyed /\ PeersCompress /\ UpStream /\ DownStream /\ toClient # << >> /\ Switched
  BY DEF SecurePhase, clientReads, Switching
<1> DEFINE pk == Head(toClient).packets[1]
<1>1. Head(toClient) = toClient[1] /\ 1 \in 1..Len(toClient)
  BY <1>0, WireNumbers
<1>2. pk \in PlainServerPackets
  BY <1>0, <1>1 DEF DownStream
<1>3. pk \in ServerPackets /\ pk.type # "NetworkSettings" /\ pk.type # "ServerToClientHandshake"
  BY <1>2 DEF PlainServerPackets
<1> DEFINE newCrypt == AfterReading(client.crypt)
           newComp == client.compressed \/ pk.type = "NetworkSettings"
<1>4. PICK a \in Answers(pk) :
        client' = [client EXCEPT !.answers = @ \o a[1], !.missing = a[2],
                                 !.compressed = newComp, !.crypt = newCrypt]
  BY <1>3 DEF clientReads
<1>5. toClient' = Tail(toClient) /\ UNCHANGED toServer /\ ServerStays
  BY DEF clientReads, ServerStays, codec, flow, writers
<1>6. a[1] \in Seq(PlainClientPackets)
  BY <1>3, AnswersPlain DEF LoginInv, FlowInv, FlowTypes, WireTypes
<1>7. newComp = TRUE
  BY <1>0 DEF Keyed
<1>8. newCrypt = [client.crypt EXCEPT !.in = @ + 1]
  BY <1>0 DEF Keyed, AfterReading
<1>9. newCrypt.key = client.crypt.key /\ newCrypt.in = client.crypt.in + 1 /\ newCrypt.out = client.crypt.out
  BY <1>8, WireNumbers DEF Crypts
<1> HIDE DEF newCrypt, newComp, pk
<1>10. client'.answers = client.answers \o a[1] /\ client'.crypt = newCrypt /\ client'.compressed = TRUE
  BY <1>4, <1>7 DEF LoginInv, WireTypes
<1>11. client'.answers \in Seq(PlainClientPackets)
  BY <1>0, <1>6, <1>10 DEF UpStream
<1>12. Keyed' /\ PeersCompress' /\ Switched'
  BY <1>0, <1>5, <1>9, <1>10 DEF Keyed, PeersCompress, Switched, ServerStays
<1>13. UpStream'
  BY <1>0, <1>5, <1>9, <1>10, <1>11 DEF UpStream, ServerStays
<1>14. DownStream'
  <2>1. /\ Len(toClient') = Len(toClient) - 1
        /\ \A i \in 1..Len(toClient') : toClient'[i] = toClient[i + 1] /\ i + 1 \in 1..Len(toClient)
    BY <1>0, <1>5, WireNumbers
  <2>2. ASSUME NEW i \in 1..Len(toClient')
        PROVE  Sealed(toClient'[i], client'.crypt.in + i - 1) /\ toClient'[i].packets[1] \in PlainServerPackets
    <3>1. client'.crypt.in + i - 1 = client.crypt.in + (i + 1) - 1
      BY <1>9, <1>10, WireNumbers
    <3> QED
      BY <1>0, <2>1, <3>1 DEF DownStream
  <2>3. client'.crypt.in + Len(toClient') = client.crypt.in + Len(toClient)
    <3>1. client'.crypt.in = client.crypt.in + 1
      BY <1>9, <1>10
    <3>2. client.crypt.in \in Nat /\ Len(toClient) \in Nat
      BY WireNumbers
    <3> QED
      BY <2>1, <3>1, <3>2
  <2>4. pending' = pending /\ crypt' = crypt
    BY <1>5 DEF ServerStays
  <2>5. \A w \in Writers : pending'[w] # << >> =>
          /\ Sealed(pending'[w][1], client'.crypt.in + Len(toClient'))
          /\ pending'[w][1].packets[1] \in PlainServerPackets
          /\ crypt'.out = client'.crypt.in + Len(toClient') + 1
          /\ \A x \in Writers : x # w => pending'[x] = << >>
    BY <1>0, <2>3, <2>4 DEF DownStream
  <2>6. writeMuFree' => crypt'.out = client'.crypt.in + Len(toClient')
    BY <1>0, <2>3, <2>4 DEF DownStream, writeMuFree
  <2> QED
    BY <2>2, <2>5, <2>6 DEF DownStream, Sealed
<1> QED
  BY <1>12, <1>13, <1>14 DEF SecurePhase

LEMMA SecureServe ==
    ASSUME LoginInv, SecurePhase, Serve
    PROVE  SecurePhase'
<1>1. toServer # << >> /\ calls = << >>
  BY DEF Serve
<1>0. Keyed /\ PeersCompress /\ UpStream /\ DownStream /\ Switched
  BY <1>1, ShortSequences DEF SecurePhase, Switching, Session3
<1>2. Head(toServer) = toServer[1] /\ 1 \in 1..Len(toServer)
  BY <1>1, WireNumbers
<1>3. Sealed(toServer[1], crypt.in + 1 - 1) /\ toServer[1].packets \in Seq(PlainClientPackets)
  BY <1>0, <1>2 DEF UpStream
<1>4. crypt.in + 1 - 1 = crypt.in
  BY WireNumbers
<1>5. Sealed(Head(toServer), crypt.in)
  BY <1>2, <1>3, <1>4
<1>6. Readable(Head(toServer), compressed, crypt)
  BY <1>0, <1>5 DEF Readable, Sealed, Keyed, Switched
<1>7. /\ toServer' = Tail(toServer) /\ inbox' = Head(toServer).packets /\ crypt' = AfterReading(crypt)
      /\ UNCHANGED <<joined, compressed, calls, pending, peerWriting, toClient, client>>
  BY <1>6 DEF Serve, writers
<1>8. crypt' = [crypt EXCEPT !.in = @ + 1]
  BY <1>0, <1>7 DEF AfterReading, Switched
<1>9. crypt'.key = crypt.key /\ crypt'.in = crypt.in + 1 /\ crypt'.out = crypt.out
  BY <1>8, WireNumbers DEF Crypts
<1>10. Keyed' /\ PeersCompress' /\ Switched'
  BY <1>0, <1>7, <1>9 DEF Keyed, PeersCompress, Switched
<1>11. DownStream'
  BY <1>0, <1>7, <1>9 DEF DownStream, writeMuFree
<1>12. UpStream'
  <2>1. /\ Len(toServer') = Len(toServer) - 1
        /\ \A i \in 1..Len(toServer') : toServer'[i] = toServer[i + 1] /\ i + 1 \in 1..Len(toServer)
    BY <1>1, <1>7, WireNumbers
  <2>2. ASSUME NEW i \in 1..Len(toServer')
        PROVE  Sealed(toServer'[i], crypt'.in + i - 1) /\ toServer'[i].packets \in Seq(PlainClientPackets)
    <3>1. crypt'.in + i - 1 = crypt.in + (i + 1) - 1
      BY <1>9, WireNumbers
    <3> QED
      BY <1>0, <2>1, <3>1 DEF UpStream
  <2>3. client'.crypt.out = crypt'.in + Len(toServer')
    <3>1. client'.crypt.out = crypt.in + Len(toServer)
      BY <1>0, <1>7 DEF UpStream
    <3>2. crypt.in \in Nat /\ Len(toServer) \in Nat
      BY WireNumbers
    <3>3. Len(toServer') = Len(toServer) - 1
      BY <2>1
    <3> QED
      BY <1>9, <3>1, <3>2, <3>3
  <2>4. inbox' \in Seq(PlainClientPackets) /\ client'.answers \in Seq(PlainClientPackets)
    BY <1>0, <1>2, <1>3, <1>7 DEF UpStream
  <2> QED
    BY <2>2, <2>3, <2>4 DEF UpStream, Sealed
<1> QED
  BY <1>10, <1>11, <1>12 DEF SecurePhase

LEMMA SecureHandler ==
    ASSUME LoginInv, SecurePhase, Handler
    PROVE  SecurePhase'
<1>1. inbox # << >> /\ HandlerStep
  BY HandlerInv, HandlerOfType DEF LoginInv, WireTypes
<1>0. Keyed /\ PeersCompress /\ UpStream /\ DownStream /\ Switched
  BY <1>1 DEF SecurePhase, Switching, Session3
<1>2. Head(inbox) \in PlainClientPackets /\ Tail(inbox) \in Seq(PlainClientPackets)
  BY <1>0, <1>1 DEF UpStream
<1>3. Head(inbox).type \notin {"RequestNetworkSettings", "Login"}
  BY <1>2 DEF PlainClientPackets
<1>4. calls' \in Seq(PlainCalls)
  BY <1>3, HandlerInv DEF LoginInv, WireTypes
<1>5. Keyed' /\ PeersCompress' /\ Switched'
  BY <1>0, <1>1, <1>4 DEF Keyed, PeersCompress, Switched, HandlerStep
<1>6. UpStream' /\ DownStream'
  BY <1>0, <1>1, <1>2 DEF UpStream, DownStream, writeMuFree, HandlerStep
<1> QED
  BY <1>5, <1>6 DEF SecurePhase

\* Whoever encodes draws the next counter and keeps writeMu.
LEMMA SecureEncode ==
    ASSUME LoginInv, Keyed, DownStream, Switched, NEW w \in Writers, NEW pk \in PlainServerPackets,
           Encode(w, pk, TRUE), UNCHANGED <<toClient, client>>
    PROVE  DownStream' /\ crypt'.key = crypt.key /\ crypt'.in = crypt.in
<1> DEFINE b == Batch(<<pk>>, TRUE, crypt, crypt.out)
<1>1. Sealed(b, crypt.out) /\ b.packets[1] = pk
  BY DEF Batch, Sealed, Switched
<1>2. /\ pending' = [pending EXCEPT ![w] = <<b>>] /\ writeMuFree
      /\ crypt' = [crypt EXCEPT !.out = @ + 1]
  BY DEF Encode, Advance, Switched
<1> HIDE DEF b
<1>3. crypt'.key = crypt.key /\ crypt'.in = crypt.in /\ crypt'.out = crypt.out + 1
  BY <1>2, WireNumbers DEF Crypts
<1>4. crypt.out = client.crypt.in + Len(toClient)
  BY <1>2 DEF DownStream
<1>5. pending'[w] = <<b>> /\ \A x \in Writers : x # w => pending'[x] = << >>
  BY <1>2 DEF LoginInv, WireTypes, writeMuFree
<1>6. pending'[w] # << >> /\ pending'[w][1] = b
  BY <1>5
<1>7. ASSUME NEW x \in Writers, pending'[x] # << >>
      PROVE  /\ Sealed(pending'[x][1], client'.crypt.in + Len(toClient'))
             /\ pending'[x][1].packets[1] \in PlainServerPackets
             /\ crypt'.out = client'.crypt.in + Len(toClient') + 1
             /\ \A y \in Writers : y # x => pending'[y] = << >>
  <2>1. x = w
    BY <1>5, <1>7
  <2> QED
    BY <1>1, <1>3, <1>4, <1>5, <1>6, <2>1
<1>8. ~writeMuFree'
  BY <1>6 DEF writeMuFree
<1>9. \A i \in 1..Len(toClient') :
          /\ Sealed(toClient'[i], client'.crypt.in + i - 1)
          /\ toClient'[i].packets[1] \in PlainServerPackets
  BY DEF DownStream
<1>10. DownStream'
  BY <1>7, <1>8, <1>9 DEF DownStream, Sealed
<1> QED
  BY <1>3, <1>10

LEMMA SecureSessionEncodes ==
    ASSUME LoginInv, SecurePhase, sessionEncodes
    PROVE  SecurePhase'
<1>1. /\ calls # << >> /\ Head(calls).call \in {"WritePacket", "WritePacketUncompressed"}
      /\ Encode(Session, Head(calls).pk, Head(calls).call = "WritePacket" /\ compressed)
      /\ UNCHANGED <<compressed, joined, inbox, calls, peerWriting, toServer, toClient, client>>
  BY DEF sessionEncodes
<1>2. ~Switching
  BY <1>1, ShortSequences DEF Switching, Session3, EnableEncryption
<1>0. Keyed /\ PeersCompress /\ UpStream /\ DownStream /\ Switched /\ Session \in Writers
  BY <1>2 DEF SecurePhase, Writers
<1>3. Head(calls) \in PlainCalls
  BY <1>0, <1>1 DEF Switched
<1>4. Head(calls).call = "WritePacket" /\ Head(calls).pk \in PlainServerPackets
  BY <1>1, <1>3 DEF PlainCalls
<1>5. (Head(calls).call = "WritePacket" /\ compressed) = TRUE
  BY <1>0, <1>4 DEF Keyed
<1>6. Encode(Session, Head(calls).pk, TRUE)
  BY <1>1, <1>5
<1>7. DownStream' /\ crypt'.key = crypt.key /\ crypt'.in = crypt.in
  BY <1>0, <1>1, <1>4, <1>6, SecureEncode
<1>8. Keyed' /\ PeersCompress' /\ Switched'
  BY <1>0, <1>1, <1>7 DEF Keyed, PeersCompress, Switched
<1>9. UpStream'
  BY <1>0, <1>1, <1>7 DEF UpStream
<1> QED
  BY <1>7, <1>8, <1>9 DEF SecurePhase

LEMMA SecurePeers ==
    ASSUME LoginInv, SecurePhase, NEW w \in Peers, peerWrites(w) \/ peerEncodes(w)
    PROVE  SecurePhase'
<1>1. CASE peerWrites(w)
  <2>1. /\ joined /\ peerWriting' = [peerWriting EXCEPT ![w] = {compressed}]
        /\ UNCHANGED <<compressed, crypt, joined, inbox, calls, pending, toServer, toClient, client>>
    BY <1>1 DEF peerWrites, codec
  <2>2. Keyed /\ PeersCompress /\ UpStream /\ DownStream /\ Switched
    BY <2>1 DEF SecurePhase, Switching, Idle
  <2>3. PeersCompress'
    BY <2>1, <2>2 DEF PeersCompress, Keyed, LoginInv, WireTypes
  <2>4. Keyed' /\ Switched' /\ UpStream' /\ DownStream'
    BY <2>1, <2>2 DEF Keyed, Switched, UpStream, DownStream, writeMuFree
  <2> QED
    BY <2>3, <2>4 DEF SecurePhase
<1>2. CASE peerEncodes(w)
  <2>1. PICK comp \in peerWriting[w] : Encode(w, Pk("FromPeer"), comp)
    BY <1>2 DEF peerEncodes
  <2>2. UNCHANGED <<compressed, joined, inbox, calls, peerWriting, toServer, toClient, client>>
    BY <1>2 DEF peerEncodes
  <2>3. Keyed /\ PeersCompress /\ UpStream /\ DownStream /\ Switched
    BY <2>1 DEF SecurePhase, Switching, Idle
  <2>4. comp = TRUE /\ Encode(w, Pk("FromPeer"), TRUE)
    BY <2>1, <2>3 DEF PeersCompress
  <2>5. Pk("FromPeer") \in PlainServerPackets /\ w \in Writers
    BY PlainPacketsOfServer DEF Writers
  <2>6. DownStream' /\ crypt'.key = crypt.key /\ crypt'.in = crypt.in
    BY <2>2, <2>3, <2>4, <2>5, SecureEncode
  <2>7. Keyed' /\ PeersCompress' /\ Switched' /\ UpStream'
    BY <2>2, <2>3, <2>6 DEF Keyed, PeersCompress, Switched, UpStream
  <2> QED
    BY <2>6, <2>7 DEF SecurePhase
<1> QED
  BY <1>1, <1>2

LEMMA SecureWrites ==
    ASSUME LoginInv, SecurePhase, NEW w \in Writers, connWrite(w)
    PROVE  SecurePhase'
<1>1. /\ pending[w] # << >> /\ toClient' = toClient \o pending[w]
      /\ pending' = [pending EXCEPT ![w] = << >>]
      /\ UNCHANGED <<compressed, crypt, joined, inbox, toServer, client>>
  BY DEF connWrite, codec
<1>2. ~Switching
  BY <1>1 DEF Switching, Idle, Session3, Writers
<1>0. Keyed /\ PeersCompress /\ UpStream /\ DownStream /\ Switched
  BY <1>2 DEF SecurePhase
<1>3. PICK b \in ServerBatches : pending[w] = <<b>>
  BY <1>1 DEF LoginInv, WireTypes
<1>4. /\ Sealed(b, client.crypt.in + Len(toClient)) /\ b.packets[1] \in PlainServerPackets
      /\ crypt.out = client.crypt.in + Len(toClient) + 1
      /\ \A x \in Writers : x # w => pending[x] = << >>
  <2>1. pending[w][1] = b
    BY <1>3
  <2> QED
    BY <1>0, <1>1, <2>1 DEF DownStream
<1>5. \A x \in Writers : pending'[x] = << >>
  BY <1>1, <1>4 DEF LoginInv, WireTypes
<1>6. PeersCompress'
  <2>1. CASE w = Session
    BY <1>0, <2>1 DEF connWrite, PeersCompress
  <2>2. CASE w # Session
    BY <1>0, <2>2 DEF connWrite, PeersCompress, LoginInv, WireTypes
  <2> QED
    BY <2>1, <2>2
<1>7. calls' \in Seq(PlainCalls)
  <2>1. CASE w = Session
    <3>1. calls' = Tail(calls) /\ calls # << >> /\ calls \in Seq(PlainCalls)
      BY <1>0, <1>1, <2>1 DEF connWrite, LoginInv, WriteInv, Switched
    <3> QED
      BY <3>1
  <2>2. CASE w # Session
    BY <1>0, <2>2 DEF connWrite, Switched
  <2> QED
    BY <2>1, <2>2
<1>8. Keyed' /\ Switched' /\ UpStream'
  BY <1>0, <1>1, <1>7 DEF Keyed, Switched, UpStream
<1>9. DownStream'
  <2>1. /\ Len(toClient') = Len(toClient) + 1 /\ toClient'[Len(toClient) + 1] = b
        /\ \A i \in 1..Len(toClient) : toClient'[i] = toClient[i]
    BY <1>1, <1>3, WireNumbers
  <2>2. ASSUME NEW i \in 1..Len(toClient')
        PROVE  Sealed(toClient'[i], client.crypt.in + i - 1) /\ toClient'[i].packets[1] \in PlainServerPackets
    <3>1. CASE i \in 1..Len(toClient)
      BY <1>0, <2>1, <3>1 DEF DownStream
    <3>2. CASE i = Len(toClient) + 1
      <4>1. client.crypt.in + i - 1 = client.crypt.in + Len(toClient)
        BY <3>2, WireNumbers
      <4> QED
        BY <1>4, <2>1, <3>2, <4>1
    <3> QED
      BY <2>1, <3>1, <3>2, WireNumbers
  <2>3. crypt'.out = client'.crypt.in + Len(toClient')
    <3>1. crypt'.out = client'.crypt.in + Len(toClient) + 1
      BY <1>1, <1>4
    <3>2. client'.crypt.in \in Nat /\ Len(toClient) \in Nat
      BY <1>1, WireNumbers
    <3>3. Len(toClient') = Len(toClient) + 1
      BY <2>1
    <3> QED
      BY <3>1, <3>2, <3>3
  <2>4. \A i \in 1..Len(toClient') :
          /\ Sealed(toClient'[i], client'.crypt.in + i - 1)
          /\ toClient'[i].packets[1] \in PlainServerPackets
    BY <1>1, <2>2
  <2> QED
    BY <1>5, <2>3, <2>4 DEF DownStream, Sealed
<1> QED
  BY <1>6, <1>8, <1>9 DEF SecurePhase

LEMMA SecureSwitches ==
    ASSUME LoginInv, SecurePhase, sessionSwitches
    PROVE  SecurePhase'
<1>1. /\ calls # << >> /\ calls' = Tail(calls)
      /\ UNCHANGED <<inbox, pending, peerWriting, toServer, toClient, client>>
  BY DEF sessionSwitches, writers
<1>0. Keyed /\ PeersCompress /\ UpStream /\ DownStream /\ (Switched \/ Switching)
  BY DEF SecurePhase
<1>2. CASE Switched
  <2>1. Head(calls) \in PlainCalls /\ calls' \in Seq(PlainCalls)
    BY <1>1, <1>2 DEF Switched
  <2>2. Head(calls).call \in {"WritePacket", "addPlayer"}
    BY <2>1 DEF PlainCalls
  <2>3. UNCHANGED <<compressed, crypt>>
    BY <2>2 DEF sessionSwitches, codec
  <2>4. Keyed' /\ PeersCompress' /\ Switched'
    BY <1>0, <1>1, <1>2, <2>1, <2>3 DEF Keyed, PeersCompress, Switched
  <2>5. UpStream' /\ DownStream'
    BY <1>0, <1>1, <2>3 DEF UpStream, DownStream, writeMuFree
  <2> QED
    BY <2>4, <2>5 DEF SecurePhase
<1>3. CASE Switching
  <2>1. Head(calls) = EnableEncryption(1) /\ calls' = << >>
    BY <1>1, <1>3, ShortSequences DEF Switching, Session3
  <2>2. Head(calls).call = "EnableEncryption" /\ Head(calls).key = 1
    BY <2>1 DEF EnableEncryption
  <2>3. crypt' = EmptyCrypt(1) /\ UNCHANGED <<compressed, joined>>
    BY <2>2 DEF sessionSwitches, EmptyCrypt
  <2>4. crypt'.key = 1 /\ crypt'.in = 0 /\ crypt'.out = 0 /\ crypt.in = 0 /\ crypt.out = 0
    BY <1>3, <2>3 DEF EmptyCrypt, Switching, NoCrypt
  <2>5. Keyed' /\ PeersCompress' /\ Switched'
    BY <1>0, <1>1, <2>1, <2>3, <2>4, PlainCallsToWrite DEF Keyed, PeersCompress, Switched
  <2>6. UpStream'
    BY <1>0, <1>1, <2>4 DEF UpStream
  <2>7. DownStream'
    BY <1>0, <1>1, <2>4 DEF DownStream, writeMuFree
  <2> QED
    BY <2>5, <2>6, <2>7 DEF SecurePhase
<1> QED
  BY <1>0, <1>2, <1>3

LEMMA SecureStep ==
    ASSUME LoginInv, client.orderly, SecurePhase, Next
    PROVE  SecurePhase'
<1>1. ~clientSendsAnything
  BY DEF clientSendsAnything
<1> QED
  BY <1>1, SecureAnswers, SecureReads, SecureServe, SecureHandler, SecureSessionEncodes, SecurePeers,
     SecureWrites, SecureSwitches DEF Next

\* A session that is over stays over, and a client keeps its manners.
LEMMA EndedStays ==
    ASSUME LoginInv, Next
    PROVE  (state = "ended" => state' = "ended") /\ client'.orderly = client.orderly
<1>1. CASE Handler
  <2>1. HandlerStep
    BY <1>1, HandlerInv DEF LoginInv, WireTypes
  <2>2. state # "ended"
    BY <1>1, HandlesStep DEF Handler, handleRequestNetworkSettings, handleLogin, handleClientToServerHandshake,
       handleClientCacheStatus, handleResourcePackClientResponse, handleResourcePacksReadyForValidation,
       handleResourcePackChunkRequest, handleRequestChunkRadius, handleSetLocalPlayerAsInitialised
  <2> QED
    BY <2>1, <2>2 DEF HandlerStep
<1>2. CASE Serve \/ sessionEncodes \/ sessionSwitches
  BY <1>2 DEF Serve, sessionEncodes, sessionSwitches, flow
<1>3. CASE \E w \in Writers : connWrite(w)
  BY <1>3 DEF connWrite, flow
<1>4. CASE \E w \in Peers : peerWrites(w) \/ peerEncodes(w)
  BY <1>4 DEF peerWrites, peerEncodes, flow
<1>5. CASE clientReads
  <2>1. UNCHANGED state
    BY <1>5 DEF clientReads, flow
  <2> DEFINE pk == Head(toClient).packets[1]
             newComp == client.compressed \/ pk.type = "NetworkSettings"
             newCrypt == IF pk.type = "ServerToClientHandshake" THEN [key |-> pk.key, in |-> 0, out |-> 0]
                         ELSE AfterReading(client.crypt)
  <2>2. PICK a \in IF client.orderly THEN Answers(pk) ELSE {<< << >>, {} >>} :
           client' = [client EXCEPT !.answers = @ \o a[1], !.missing = a[2],
                                    !.compressed = newComp, !.crypt = newCrypt]
    BY <1>5 DEF clientReads
  <2> HIDE DEF pk, newComp, newCrypt
  <2>3. client'.orderly = client.orderly
    BY <2>2 DEF LoginInv, WireTypes
  <2> QED
    BY <2>1, <2>3
<1>6. ASSUME NEW packets, NEW rest, ClientSends(packets, rest)
      PROVE  UNCHANGED state /\ client'.orderly = client.orderly
  <2>1. UNCHANGED state /\ \E cr, n : client' = [client EXCEPT !.answers = rest, !.crypt = cr, !.sent = n]
    BY <1>6 DEF ClientSends, flow
  <2> QED
    BY <2>1 DEF LoginInv, WireTypes
<1>7. CASE clientAnswers \/ clientSendsAnything
  BY <1>6, <1>7 DEF clientAnswers, clientSendsAnything
<1> QED
  BY <1>1, <1>2, <1>3, <1>4, <1>5, <1>7 DEF Next

LEMMA WireInitially == Init => WireInv
<1> SUFFICES ASSUME Init, client.orderly PROVE OpenPhase
  BY DEF WireInv
<1>1. PICK orderly \in BOOLEAN :
          client = [orderly |-> orderly, compressed |-> FALSE, crypt |-> NoCrypt, missing |-> {}, sent |-> 0,
                    answers |-> IF orderly THEN <<Pk("RequestNetworkSettings")>> ELSE << >>]
  BY DEF Init
<1>2. client.answers = <<Pk("RequestNetworkSettings")>> /\ client.compressed = FALSE /\ client.crypt = NoCrypt
  BY <1>1
<1>3. Codecs(FALSE, 0, FALSE)
  BY <1>2 DEF Codecs, Init, EmptyCrypt, NoCrypt
<1>4. Session3(<< >>, << >>, << >>) /\ Idle
  BY DEF Session3, Idle, Init, Writers
<1>5. Wire3(<<Pk("RequestNetworkSettings")>>, << >>, << >>)
  BY <1>2 DEF Wire3, Init
<1> QED
  BY <1>3, <1>4, <1>5 DEF OpenPhase, RequestPhase

LEMMA WireInductive == LoginInv /\ WireInv /\ [Next]_vars => WireInv'
<1> SUFFICES ASSUME LoginInv, WireInv, [Next]_vars, state' # "ended", client'.orderly
             PROVE  OpenPhase' \/ SecurePhase'
  BY DEF WireInv
<1>1. CASE Next
  <2>1. state # "ended" /\ client.orderly
    BY <1>1, EndedStays
  <2> QED
    BY <1>1, <2>1, OpenStep, SecureStep DEF WireInv
<1>2. CASE UNCHANGED vars
  <2>1. OpenPhase \/ SecurePhase
    BY <1>2 DEF WireInv, vars
  <2>2. CASE OpenPhase
    BY <1>2, <2>2 DEF vars, OpenPhase, Idle, RequestPhase, SettingsPhase, CompressionPhase, LoginPhase,
       HandshakePhase, Codecs, Session3, Wire3
  <2>3. CASE SecurePhase
    BY <1>2, <2>3 DEF vars, SecurePhase, Keyed, PeersCompress, UpStream, DownStream, Switched, Switching,
       Idle, Session3, writeMuFree
  <2> QED
    BY <2>1, <2>2, <2>3
<1> QED
  BY <1>1, <1>2

LEMMA WireInvariant == Spec => []WireInv
  BY WireInitially, WireInductive, LoginInvariant, PTL DEF Spec

\* An orderly client and the session decode every batch they come to: any
\* number of other sessions may write at the same time, and the switches of
\* handleRequestNetworkSettings and handleLogin may come before or after the
\* client's own (Session.EnableCompression, EnableEncryption, writePacket).
THEOREM BothEndsDecode == Spec => []WireAgrees
<1>1. LoginInv /\ WireInv => WireAgrees
  <2> SUFFICES ASSUME LoginInv, WireInv, state # "ended", client.orderly
               PROVE  /\ toClient # << >> => Readable(Head(toClient), client.compressed, client.crypt)
                      /\ toServer # << >> /\ inbox = << >> /\ calls = << >> =>
                            Readable(Head(toServer), compressed, crypt)
    BY DEF WireAgrees
  <2>1. CASE OpenPhase
    <3>1. ASSUME NEW pk, NEW comp
          PROVE  Readable(Clear(pk, comp), comp, EmptyCrypt(0)) /\ Head(<<Clear(pk, comp)>>) = Clear(pk, comp)
      BY ShortSequences DEF Readable, Clear, EmptyCrypt
    <3>2. NoCrypt = EmptyCrypt(0)
      BY DEF NoCrypt, EmptyCrypt
    <3>3. CASE RequestPhase
      BY <3>1, <3>2, <3>3 DEF RequestPhase, Codecs, Session3, Wire3
    <3>4. CASE SettingsPhase \/ LoginPhase
      BY <3>4 DEF SettingsPhase, LoginPhase, Wire3
    <3>5. CASE HandshakePhase
      <4>1. /\ toServer = << >> /\ toClient = <<Clear(Handshake, TRUE)>> /\ client.compressed = TRUE
            /\ client.crypt = NoCrypt
        BY <3>5 DEF HandshakePhase, Wire3, Codecs
      <4> QED
        BY <3>1, <3>2, <4>1
    <3>6. CASE CompressionPhase
      <4>1. PICK cs \in {<< >>, <<EnableCompression>>} :
              /\ calls = cs /\ compressed = (cs = << >>) /\ crypt = EmptyCrypt(0) /\ client.crypt = NoCrypt
              /\ \/ /\ client.compressed = FALSE /\ toServer = << >>
                    /\ toClient = <<Clear(Pk("NetworkSettings"), FALSE)>>
                 \/ /\ client.compressed = TRUE /\ toClient = << >>
                    /\ toServer = << >> \/ toServer = <<Clear(Pk("Login"), TRUE)>>
        BY <3>6 DEF CompressionPhase, Session3, Codecs, Wire3
      <4>2. calls = << >> => compressed = TRUE
        BY <4>1
      <4>3. ASSUME toClient # << >> PROVE Readable(Head(toClient), client.compressed, client.crypt)
        BY <3>1, <3>2, <4>1, <4>3
      <4>4. ASSUME toServer # << >>, calls = << >> PROVE Readable(Head(toServer), compressed, crypt)
        <5>1. compressed = TRUE /\ toServer = <<Clear(Pk("Login"), TRUE)>> /\ crypt = EmptyCrypt(0)
          BY <4>1, <4>2, <4>4
        <5> QED
          BY <3>1, <5>1
      <4> QED
        BY <4>3, <4>4
    <3> QED
      BY <2>1, <3>3, <3>4, <3>5, <3>6 DEF OpenPhase
  <2>2. CASE SecurePhase
    <3>0. Keyed /\ UpStream /\ DownStream /\ (Switched \/ Switching)
      BY <2>2 DEF SecurePhase
    <3>1. ASSUME toClient # << >> PROVE Readable(Head(toClient), client.compressed, client.crypt)
      <4>1. Head(toClient) = toClient[1] /\ 1 \in 1..Len(toClient) /\ client.crypt.in + 1 - 1 = client.crypt.in
        BY <3>1, WireNumbers
      <4>2. Sealed(Head(toClient), client.crypt.in)
        BY <3>0, <4>1 DEF DownStream
      <4> QED
        BY <3>0, <4>2 DEF Readable, Sealed, Keyed
    <3>2. ASSUME toServer # << >>, calls = << >> PROVE Readable(Head(toServer), compressed, crypt)
      <4>1. Head(toServer) = toServer[1] /\ 1 \in 1..Len(toServer) /\ crypt.in + 1 - 1 = crypt.in
        BY <3>2, WireNumbers
      <4>2. Sealed(Head(toServer), crypt.in)
        BY <3>0, <4>1 DEF UpStream
      <4>3. crypt.key = 1
        BY <3>0, <3>2, ShortSequences DEF Switched, Switching, Session3
      <4> QED
        BY <3>0, <4>2, <4>3 DEF Readable, Sealed, Keyed
    <3> QED
      BY <3>1, <3>2
  <2> QED
    BY <2>1, <2>2 DEF WireInv
<1> QED
  BY <1>1, LoginInvariant, WireInvariant, PTL
=============================================================================
