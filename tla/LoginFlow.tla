------------------------------ MODULE LoginFlow ------------------------------
(***************************************************************************)
(* One MCPE session from its first packet to the spawned player: the state *)
(* machine of internal/server (mcpe_login_flow.go, mcpe_resourcepacks.go,  *)
(* mcpe_world_sync.go), the resource pack queue (internal/resourcepack) and*)
(* the batch codec below it (internal/network/mcpe), whose compression and *)
(* encryption are switched on while packets are on their way.              *)
(*                                                                         *)
(* A client in the player table is also written to by the goroutines of    *)
(* other sessions.  Every packet is a WritePacket of its own: a look at    *)
(* compressed, then the encoding and the write to the connection under     *)
(* writeMu.  What a handler does with the connection is therefore a list   *)
(* of calls that it makes one after the other.                             *)
(*                                                                         *)
(* The Minecraft client is external.  An orderly one answers what it is    *)
(* sent, the other sends any packet at any time; both switch compression   *)
(* and encryption on when they read NetworkSettings and                    *)
(* ServerToClientHandshake.                                                *)
(***************************************************************************)
EXTENDS Integers, Sequences, FiniteSets, SequencesExt

CONSTANTS
    Packs,          \* the resource packs that may be configured
    Size,           \* pack |-> length of its data
    ChunkSize,      \* DefaultChunkSize
    Session,        \* the goroutine of the session
    Peers,          \* goroutines of other sessions
    MaxPackets,     \* bound of the model: packets that a disorderly client sends
    MaxPeerWrites   \* bound of the model: packets that other sessions write

ASSUME LoginFlowAssumption ==
    /\ IsFiniteSet(Packs)
    /\ Size \in [Packs -> Nat]
    /\ ChunkSize \in Nat \ {0}
    /\ Session \notin Peers
    /\ MaxPackets \in Nat /\ MaxPeerWrites \in Nat

VARIABLES
    configured,  \* MCPEHandler.resourcePacks, which never changes
    state,       \* MCPEClient.state; "ended" once Serve has returned
    joined,      \* whether startGame has entered the client in the player table
    compressed,  \* session.compressed
    crypt,       \* codec.encryption: the key (0: none) and both counters
    stackSent,   \* MCPEClient.resourcePackStackSent
    chunksSent,  \* MCPEClient.chunksSent
    queue,       \* MCPEClient.resourceDownloads
    inbox,       \* the packets of the batch in hand that are yet to be handled
    calls,       \* what the handler that is running has yet to call
    pending,     \* writer |-> the batches it has encoded under writeMu and not written
    peerWriting, \* peer |-> the setting of compressed it has read, if it is writing
    toServer,    \* batches on their way from the client
    toClient,    \* batches on their way to the client
    client,      \* the Minecraft client: codec, answers to send, missing packs
    written      \* history: what the handlers have called for

codec == <<compressed, crypt>>
flow == <<state, stackSent, chunksSent, queue>>
writers == <<pending, peerWriting>>
vars == <<configured, state, joined, compressed, crypt, stackSent, chunksSent, queue,
          inbox, calls, pending, peerWriting, toServer, toClient, client, written>>

Writers == Peers \cup {Session}

Pk(type) == [type |-> type]
PackPk(type, p) == [type |-> type, pack |-> p]
ChunkPk(type, p, i) == [type |-> type, pack |-> p, index |-> i]

NoQueue == [selected |-> << >>, current |-> 1, currentChunk |-> 0]
NoCrypt == [key |-> 0, in |-> 0, out |-> 0]

Init ==
    /\ configured \in SUBSET Packs
    /\ state = "awaitNetworkSettings"
    /\ joined = FALSE
    /\ compressed = FALSE
    /\ crypt = NoCrypt
    /\ stackSent = FALSE
    /\ chunksSent = FALSE
    /\ queue = NoQueue
    /\ inbox = << >>
    /\ calls = << >>
    /\ pending = [w \in Writers |-> << >>]
    /\ peerWriting = [w \in Peers |-> {}]
    /\ toServer = << >>
    /\ toClient = << >>
    /\ \E orderly \in BOOLEAN :
          client = [orderly |-> orderly, compressed |-> FALSE, crypt |-> NoCrypt,
                    missing |-> {}, sent |-> 0,
                    answers |-> IF orderly THEN <<Pk("RequestNetworkSettings")>> ELSE << >>]
    /\ written = [stacks |-> 0, startGames |-> 0, worlds |-> 0, peers |-> 0, info |-> << >>]

-----------------------------------------------------------------------------
(* Batches *)

\* EncodeBatch under the given settings: the checksum holds the counter.
Batch(packets, comp, c, n) ==
    [packets |-> packets, compressed |-> comp, key |-> c.key,
     counter |-> IF c.key = 0 THEN 0 ELSE n]

Advance(c, n) == IF c.key = 0 THEN c ELSE [c EXCEPT !.out = @ + n]

\* DecodeBatch: the marker, the cipher stream and the checksum must match.
Readable(batch, comp, c) ==
    /\ batch.compressed = comp
    /\ batch.key = c.key
    /\ c.key # 0 => batch.counter = c.in

AfterReading(c) == IF c.key = 0 THEN c ELSE [c EXCEPT !.in = @ + 1]

-----------------------------------------------------------------------------
(* Writing *)

\* The calls of a handler on its connection, and addPlayer.
Write(pk) == [call |-> "WritePacket", pk |-> pk]
WriteUncompressed(pk) == [call |-> "WritePacketUncompressed", pk |-> pk]
EnableCompression == [call |-> "EnableCompression"]
EnableEncryption(key) == [call |-> "EnableEncryption", key |-> key]
addPlayer == [call |-> "addPlayer"]

WritePackets(packets) == calls' = [i \in 1..Len(packets) |-> Write(packets[i])]

\* Mutant: the lock is held for the encoding only.
writeMuNotHeld == TRUE

writeMuFree == \A w \in Writers : pending[w] = << >>

\* writePacket takes the lock and encodes a batch of one packet.
Encode(w, pk, comp) ==
    /\ writeMuFree
    /\ pending' = [pending EXCEPT ![w] = <<Batch(<<pk>>, comp, crypt, crypt.out)>>]
    /\ crypt' = Advance(crypt, 1)

\* It writes the batch and releases the lock.
connWrite(w) ==
    /\ pending[w] # << >>
    /\ toClient' = toClient \o pending[w]
    /\ pending' = [pending EXCEPT ![w] = << >>]
    /\ IF w = Session THEN calls' = Tail(calls) /\ UNCHANGED peerWriting
                      ELSE peerWriting' = [peerWriting EXCEPT ![w] = {}] /\ UNCHANGED calls
    /\ UNCHANGED <<configured, codec, flow, joined, inbox, toServer, client, written>>

sessionEncodes ==
    /\ calls # << >> /\ pending[Session] = << >>
    /\ Head(calls).call \in {"WritePacket", "WritePacketUncompressed"}
    /\ Encode(Session, Head(calls).pk, Head(calls).call = "WritePacket" /\ compressed)
    /\ UNCHANGED <<configured, compressed, flow, joined, inbox, calls, peerWriting,
                   toServer, toClient, client, written>>

\* The switches take no lock.
sessionSwitches ==
    /\ calls # << >> /\ calls' = Tail(calls)
    /\ LET c == Head(calls) IN
       \/ /\ c.call = "EnableCompression" /\ compressed' = TRUE
          /\ UNCHANGED <<crypt, joined>>
       \/ /\ c.call = "EnableEncryption" /\ crypt' = [key |-> c.key, in |-> 0, out |-> 0]
          /\ UNCHANGED <<compressed, joined>>
       \/ /\ c.call = "addPlayer" /\ joined' = TRUE
          /\ UNCHANGED codec
    /\ UNCHANGED <<configured, flow, inbox, writers, toServer, toClient, client, written>>

\* Another session writes to a client that is in the player table.
peerWrites(w) ==
    /\ state # "ended" /\ joined /\ peerWriting[w] = {}
    /\ written.peers < MaxPeerWrites
    /\ peerWriting' = [peerWriting EXCEPT ![w] = {compressed}]
    /\ written' = [written EXCEPT !.peers = @ + 1]
    /\ UNCHANGED <<configured, codec, flow, joined, inbox, calls, pending, toServer, toClient,
                   client>>

peerEncodes(w) ==
    /\ pending[w] = << >>
    /\ \E comp \in peerWriting[w] : Encode(w, Pk("FromPeer"), comp)
    /\ UNCHANGED <<configured, compressed, flow, joined, inbox, calls, peerWriting,
                   toServer, toClient, client, written>>

\* Serve and handleBatch: the whole batch is decoded before its first packet is
\* handled, so with the settings from before it.
Serve ==
    /\ state # "ended" /\ calls = << >> /\ inbox = << >> /\ toServer # << >>
    /\ toServer' = Tail(toServer)
    /\ IF Readable(Head(toServer), compressed, crypt)
       THEN /\ inbox' = Head(toServer).packets
            /\ crypt' = AfterReading(crypt)
            /\ UNCHANGED state
       ELSE state' = "ended" /\ UNCHANGED <<inbox, crypt>>
    /\ UNCHANGED <<configured, joined, compressed, stackSent, chunksSent, queue, calls, writers,
                   toClient, client, written>>

-----------------------------------------------------------------------------
(* The resource pack queue *)

ChunkCount(p) == (Size[p] + ChunkSize - 1) \div ChunkSize

downloading == queue.current <= Len(queue.selected)
currentPack == queue.selected[queue.current]

\* Begin starts over with the packs of the request, each once.
Once(packs) ==
    FoldLeft(LAMBDA seen, p : IF p \in Range(seen) THEN seen ELSE Append(seen, p), << >>, packs)

\* Mutant: a download that starts over goes on counting chunks.
BeginKeepsChunk(packs) ==
    /\ queue' = [queue EXCEPT !.selected = Once(packs), !.current = 1]
    /\ WritePackets(<<PackPk("ResourcePackDataInfo", packs[1])>>)
    /\ written' = [written EXCEPT !.info = <<packs[1], 0>>]

Begin(packs) ==
    /\ queue' = [selected |-> Once(packs), current |-> 1, currentChunk |-> 0]
    /\ WritePackets(<<PackPk("ResourcePackDataInfo", packs[1])>>)
    /\ written' = [written EXCEPT !.info = <<packs[1], 0>>]

\* Pack.Chunk finds the chunk, and HandleChunkRequest accepts only the next one.
ChunkExists(p, i) == i * ChunkSize <= Size[p]

IsLast(p, i) == (i + 1) * ChunkSize >= Size[p]

Expected(pk) ==
    /\ downloading
    /\ pk.pack = currentPack
    /\ pk.index = queue.currentChunk
    /\ ChunkExists(pk.pack, pk.index)

\* Mutant: the queue advances twice when a pack is complete.
NextChunkTwice ==
    IF IsLast(currentPack, queue.currentChunk)
    THEN [queue EXCEPT !.current = @ + 2, !.currentChunk = 0]
    ELSE [queue EXCEPT !.currentChunk = @ + 1]

NextChunk ==
    IF IsLast(currentPack, queue.currentChunk)
    THEN [queue EXCEPT !.current = @ + 1, !.currentChunk = 0]
    ELSE [queue EXCEPT !.currentChunk = @ + 1]

HandleChunkRequest(pk) ==
    LET data == ChunkPk("ResourcePackChunkData", pk.pack, pk.index)
        more == queue'.current > queue.current /\ queue'.current <= Len(queue.selected)
    IN  /\ queue' = NextChunk
        /\ IF more
           THEN /\ WritePackets(<<data, PackPk("ResourcePackDataInfo",
                                               queue.selected[queue'.current])>>)
                /\ written' = [written EXCEPT !.info = <<queue.selected[queue'.current], 0>>]
           ELSE /\ WritePackets(<<data>>)
                /\ written' = [written EXCEPT !.info[2] = @ + 1]

-----------------------------------------------------------------------------
(* The handlers of the session.  Each takes the next packet of the inbox and
   leaves the calls that it makes; none but finishResourcePackFlow looks at the
   state. *)

Handles(type) ==
    /\ state # "ended" /\ calls = << >>
    /\ inbox # << >> /\ Head(inbox).type = type
    /\ inbox' = Tail(inbox)
    /\ UNCHANGED <<configured, codec, joined, writers, toServer, toClient, client>>

\* A handler returns an error: Serve returns and the session is over.
Fail ==
    /\ state' = "ended"
    /\ UNCHANGED <<stackSent, chunksSent, queue, calls, written>>

Nothing == UNCHANGED <<flow, calls, written>>

handleRequestNetworkSettings ==
    /\ Handles("RequestNetworkSettings")
    /\ calls' = <<WriteUncompressed(Pk("NetworkSettings")), EnableCompression>>
    /\ state' = "awaitLogin"
    /\ UNCHANGED <<stackSent, chunksSent, queue, written>>

\* A login chain that does not parse, or a policy that does not let it in,
\* ends the session; otherwise the handshake is written with the old settings
\* and the new key replaces them.
handleLogin ==
    /\ Handles("Login")
    /\ \/ ~client.orderly /\ Fail
       \/ /\ LET key == crypt.key + 1
             IN calls' = <<Write([type |-> "ServerToClientHandshake", key |-> key]),
                           EnableEncryption(key)>>
          /\ state' = "awaitClientHandshake"
          /\ UNCHANGED <<stackSent, chunksSent, queue, written>>

handleClientToServerHandshake ==
    /\ Handles("ClientToServerHandshake")
    /\ state' = "awaitPacks"
    /\ WritePackets(<<Pk("PlayStatusLoginSuccess"), Pk("ResourcePacksInfo")>>)
    /\ UNCHANGED <<stackSent, chunksSent, queue, written>>

handleClientCacheStatus == Handles("ClientCacheStatus") /\ Nothing

\* Mutant: nothing is written when there are no packs.
StackPacketsOfPacks == IF stackSent \/ configured = {} THEN << >> ELSE <<Pk("ResourcePackStack")>>

\* sendResourcePackStack writes the stack the first time only.
StackPackets == IF stackSent THEN << >> ELSE <<Pk("ResourcePackStack")>>

sendResourcePackStack ==
    /\ stackSent' = TRUE
    /\ WritePackets(StackPackets)
    /\ written' = [written EXCEPT !.stacks = @ + Len(StackPackets)]
    /\ UNCHANGED <<state, chunksSent, queue>>

\* finishResourcePackFlow with startGame, to the end of its writes.
finishResourcePackFlow ==
    LET stack == IF configured = {} THEN << >> ELSE StackPackets
    IN  IF state # "awaitPacks"
        THEN Nothing
        ELSE /\ stackSent' = (stackSent \/ stack # << >>)
             /\ calls' = [i \in DOMAIN stack |-> Write(stack[i])]
                          \o <<addPlayer, Write(Pk("StartGame"))>>
             /\ state' = "awaitChunkRadius"
             /\ written' = [written EXCEPT !.stacks = @ + Len(stack), !.startGames = @ + 1]
             /\ UNCHANGED <<chunksSent, queue>>

handleResourcePackClientResponse ==
    \/ /\ Handles("SendPacks")
       /\ LET packs == Head(inbox).packs
          IN  \/ packs = << >> /\ sendResourcePackStack
              \/ ~(Range(packs) \subseteq configured) /\ Fail
              \/ /\ packs # << >> /\ Range(packs) \subseteq configured
                 /\ Begin(packs)
                 /\ UNCHANGED <<state, stackSent, chunksSent>>
    \/ Handles("AllPacksDownloaded") /\ sendResourcePackStack
    \/ Handles("Completed") /\ finishResourcePackFlow
    \/ Handles("Refused") /\ Fail

handleResourcePacksReadyForValidation ==
    /\ Handles("ResourcePacksReadyForValidation")
    /\ IF stackSent THEN finishResourcePackFlow ELSE Nothing

handleResourcePackChunkRequest ==
    /\ Handles("ResourcePackChunkRequest")
    /\ IF Expected(Head(inbox))
       THEN /\ HandleChunkRequest(Head(inbox))
            /\ UNCHANGED <<state, stackSent, chunksSent>>
       ELSE Fail

\* Mutant: the world goes out with every request.
handleRequestChunkRadiusAgain ==
    /\ Handles("RequestChunkRadius")
    /\ WritePackets(<<Pk("ChunkRadiusUpdated"), Pk("InitialChunks"),
                      Pk("PlayStatusPlayerSpawn")>>)
    /\ chunksSent' = TRUE
    /\ state' = "awaitInitialised"
    /\ written' = [written EXCEPT !.worlds = @ + 1]
    /\ UNCHANGED <<stackSent, queue>>

\* The world goes out with the first request only.
handleRequestChunkRadius ==
    LET world == IF chunksSent THEN << >> ELSE <<Pk("InitialChunks")>>
    IN  /\ Handles("RequestChunkRadius")
        /\ WritePackets(<<Pk("ChunkRadiusUpdated")>> \o world \o <<Pk("PlayStatusPlayerSpawn")>>)
        /\ chunksSent' = TRUE
        /\ state' = "awaitInitialised"
        /\ written' = [written EXCEPT !.worlds = @ + Len(world)]
        /\ UNCHANGED <<stackSent, queue>>

handleSetLocalPlayerAsInitialised ==
    /\ Handles("SetLocalPlayerAsInitialised")
    /\ state' = "spawned"
    /\ UNCHANGED <<stackSent, chunksSent, queue, calls, written>>

-----------------------------------------------------------------------------
(* The Minecraft client, external *)

\* What a client may ask for: some of the packs, in an order of its own.
PackLists == {s \in UNION {[1..n -> configured] : n \in 0..Cardinality(configured)} : IsInjective(s)}
SendPacks(s) == [type |-> "SendPacks", packs |-> s]

\* The answers of an orderly client to a packet, and the packs it then misses.
Answers(pk) ==
    LET nothing == {<< << >>, client.missing >>}
        one(p) == {<< <<p>>, client.missing >>}
        left == client.missing \ {pk.pack}
    IN  CASE pk.type = "NetworkSettings" -> one(Pk("Login"))
          [] pk.type = "ServerToClientHandshake" ->
                {<< <<Pk("ClientToServerHandshake"), Pk("ClientCacheStatus")>>, {} >>}
          [] pk.type = "ResourcePacksInfo" ->
                {<< <<SendPacks(s)>>, Range(s) >> : s \in PackLists}
                    \cup one(Pk("AllPacksDownloaded")) \cup one(Pk("Completed"))
          [] pk.type = "ResourcePackDataInfo" ->
                one(ChunkPk("ResourcePackChunkRequest", pk.pack, 0))
          [] pk.type = "ResourcePackChunkData" ->
                IF pk.index + 1 < ChunkCount(pk.pack)
                THEN one(ChunkPk("ResourcePackChunkRequest", pk.pack, pk.index + 1))
                ELSE {<< IF left = {} THEN <<Pk("AllPacksDownloaded")>> ELSE << >>, left >>}
          [] pk.type = "ResourcePackStack" ->
                one(Pk("Completed")) \cup one(Pk("ResourcePacksReadyForValidation"))
          [] pk.type = "StartGame" -> one(Pk("RequestChunkRadius"))
          [] pk.type = "PlayStatusPlayerSpawn" -> one(Pk("SetLocalPlayerAsInitialised"))
          [] OTHER -> nothing

clientReads ==
    LET pk == Head(toClient).packets[1]
    IN  /\ toClient # << >>
        /\ Readable(Head(toClient), client.compressed, client.crypt)
        /\ toClient' = Tail(toClient)
        /\ \E a \in IF client.orderly THEN Answers(pk) ELSE {<< << >>, {} >>} :
              client' = [client EXCEPT
                  !.answers = @ \o a[1],
                  !.missing = a[2],
                  !.compressed = @ \/ pk.type = "NetworkSettings",
                  !.crypt = IF pk.type = "ServerToClientHandshake"
                            THEN [key |-> pk.key, in |-> 0, out |-> 0]
                            ELSE AfterReading(@)]
        /\ UNCHANGED <<configured, codec, flow, joined, inbox, calls, writers, toServer, written>>

\* The client sends its answers as one batch or one by one.
ClientSends(packets, rest) ==
    /\ toServer' = Append(toServer, Batch(packets, client.compressed, client.crypt,
                                          client.crypt.out))
    /\ client' = [client EXCEPT !.answers = rest, !.crypt = Advance(@, 1), !.sent = @ + 1]
    /\ UNCHANGED <<configured, codec, flow, joined, inbox, calls, writers, toClient, written>>

clientAnswers ==
    /\ client.answers # << >>
    /\ \/ ClientSends(client.answers, << >>)
       \/ ClientSends(<<Head(client.answers)>>, Tail(client.answers))

AnyPacket ==
    {Pk(type) : type \in {"RequestNetworkSettings", "Login", "ClientToServerHandshake",
        "ClientCacheStatus", "AllPacksDownloaded", "Completed", "Refused",
        "ResourcePacksReadyForValidation", "RequestChunkRadius",
        "SetLocalPlayerAsInitialised"}}
    \cup {SendPacks(s) : s \in UNION {[1..n -> configured \cup {"unknown"}] : n \in 0..2}}
    \cup {ChunkPk("ResourcePackChunkRequest", p, i) : p \in configured, i \in 0..2}

clientSendsAnything ==
    /\ ~client.orderly
    /\ client.sent < MaxPackets
    /\ toServer = << >> /\ toClient = << >>
    /\ \E pk \in AnyPacket : ClientSends(<<pk>>, << >>)

Handler ==
    \/ handleRequestNetworkSettings \/ handleLogin \/ handleClientToServerHandshake
    \/ handleClientCacheStatus \/ handleResourcePackClientResponse
    \/ handleResourcePacksReadyForValidation \/ handleResourcePackChunkRequest
    \/ handleRequestChunkRadius \/ handleSetLocalPlayerAsInitialised

Next ==
    \/ Serve \/ Handler \/ sessionEncodes \/ sessionSwitches
    \/ \E w \in Writers : connWrite(w)
    \/ \E w \in Peers : peerWrites(w) \/ peerEncodes(w)
    \/ clientReads \/ clientAnswers \/ clientSendsAnything

Spec == Init /\ [][Next]_vars

\* The session runs, whoever holds writeMu writes and releases it, and the client
\* goes on reading and answering.
FairSpec ==
    /\ Spec
    /\ WF_vars(Serve \/ Handler \/ sessionEncodes \/ sessionSwitches)
    /\ \A w \in Writers : WF_vars(connWrite(w))
    /\ WF_vars(clientReads) /\ WF_vars(clientAnswers)

-----------------------------------------------------------------------------
(* Properties *)

\* Every variable has its type.
TypeOK ==
    /\ state \in {"awaitNetworkSettings", "awaitLogin", "awaitClientHandshake", "awaitPacks",
                  "awaitChunkRadius", "awaitInitialised", "spawned", "ended"}
    /\ {joined, compressed, stackSent, chunksSent} \subseteq BOOLEAN
    /\ \A n \in {crypt.key, crypt.in, crypt.out} : n \in Nat
    /\ queue.current \in 1..(Len(queue.selected) + 1)
    /\ queue.currentChunk \in Nat
    /\ \A w \in Writers : Len(pending[w]) \in {0, 1}
    /\ peerWriting \in [Peers -> SUBSET BOOLEAN]
    /\ configured \subseteq Packs /\ Range(queue.selected) \subseteq configured

\* The head of each direction decodes under the settings its reader has when it
\* gets there, although compression and encryption are switched on at both
\* ends while batches are on their way, and several goroutines draw counters and
\* write: the batches reach the wire in the order of their counters.
WireAgrees ==
    state # "ended" /\ client.orderly =>
        /\ toClient # << >> => Readable(Head(toClient), client.compressed, client.crypt)
        /\ toServer # << >> /\ inbox = << >> /\ calls = << >> =>
              Readable(Head(toServer), compressed, crypt)

\* While a download runs the last ResourcePackDataInfo written is that of the
\* pack the queue is at, as many of its chunks have been written since as the
\* queue counts, and the next one exists unless the pack has no data at all:
\* also when Begin starts over in the middle of a pack, and when a pack ends
\* with its last chunk full.
DownloadInStep ==
    downloading => /\ written.info = <<currentPack, queue.currentChunk>>
                   /\ Size[currentPack] # 0 => queue.currentChunk < ChunkCount(currentPack)

\* Whatever a client sends and repeats, the resource pack stack is written at
\* most once and before StartGame when there are packs, and the world is
\* written at most once.
WrittenOnce ==
    /\ written.stacks <= 1 /\ written.worlds <= 1
    /\ written.startGames > 0 /\ configured # {} => written.stacks = 1

\* A client that answers every packet is spawned: whichever packs it asks for
\* and whichever answers it gives, the flow never comes to a halt.
LoginCompletes == client.orderly => <>(state = "spawned")
=============================================================================
