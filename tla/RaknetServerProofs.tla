------------------------- MODULE RaknetServerProofs --------------------------
(***************************************************************************)
(* What Close promises, and that the RakNet server implements Transport,   *)
(* for any number of connections and callers of Close.                     *)
(***************************************************************************)
EXTENDS RaknetServer, FiniteSetTheorems, TLAPS

Closes == {"cancel", "listener", "conns", "wait", "done", "returned"}

\* Every variable has its type.
TypeOK ==
    /\ listener \in {"none", "failed", "open", "closed"}
    /\ incoming \subseteq Conns
    /\ conn \in [Conns -> {"new", "open", "closed"}]
    /\ accept \in {"none", "accept", "register", "refuse", "serve", "ended"}
    /\ current \in Conns \cup {NoConn}
    /\ done \in BOOLEAN /\ closed \in BOOLEAN
    /\ sessions \subseteq Conns
    /\ wg \in Nat
    /\ ctx \in {"live", "cancelled"}
    /\ serve \in [Conns -> {"none", "serving", "close", "unregister", "wgDone", "ended"}]
    /\ closer \in [Closers -> Closes \cup {"idle", "join", "joined"}]
    /\ toClose \subseteq Conns

\* The connection that acceptLoop has taken from the listener, if any.
InHand(c) == accept \in {"register", "refuse", "serve"} /\ current = c

\* A connection is new, queued, in hand, or served, one after the other.
OneAtATime ==
    /\ accept \in {"register", "refuse", "serve"} => current \in Conns
    /\ \A c \in Conns :
          /\ conn[c] = "new" => c \notin incoming /\ ~InHand(c) /\ serve[c] = "none"
          /\ c \in incoming => ~InHand(c) /\ serve[c] = "none"
          /\ InHand(c) => serve[c] = "none"

\* An open connection has somebody to close it.
Attended ==
    \A c \in Conns : conn[c] = "open" =>
        c \in incoming \/ InHand(c) \/ serve[c] \in {"serving", "close"}

\* The listener and the two flags that tell of its end.
Ends ==
    /\ accept # "none" \/ closed => listener \in {"open", "closed"}
    /\ done => accept = "ended"
    /\ listener = "closed" => closed

\* One caller closes, and by the time it waits for done nothing is served.
Drains ==
    \A k \in Closers : closer[k] \in Closes =>
        /\ closed
        /\ \A j \in Closers : closer[j] \in Closes => j = k
        /\ closer[k] \in {"done", "returned"} => Goroutines = {}
        /\ closer[k] = "returned" => done

Inv == TypeOK /\ OneAtATime /\ Attended /\ Ends /\ Drains /\ WaitGroupExact

\* Sets of connections are finite.
LEMMA FiniteConns == ASSUME NEW S \in SUBSET Conns PROVE IsFiniteSet(S)
  BY RaknetAssumption, FS_Subset

\* The wait group and the table after a step that changes neither them nor who
\* is served.
LEMMA KeepsWaitGroup ==
    ASSUME WaitGroupExact, UNCHANGED table, Goroutines' = Goroutines,
           \A c \in Goroutines : serve'[c] = "wgDone" <=> serve[c] = "wgDone"
    PROVE  WaitGroupExact'
  BY DEF WaitGroupExact, table

\* Nothing is served before Listen.
LEMMA InitInv == Init => Inv
<1> SUFFICES ASSUME Init PROVE Inv
  OBVIOUS
<1>1. Goroutines = {}
  BY DEF Init, Goroutines
<1>2. WaitGroupExact
  BY <1>1, FS_EmptySet DEF Init, WaitGroupExact
<1>3. TypeOK
  BY DEF Init, TypeOK, Closes
<1>4. OneAtATime /\ Attended /\ Ends
  BY DEF Init, OneAtATime, Attended, Ends, InHand
<1>5. Drains
  BY DEF Init, Drains, Closes
<1> QED
  BY <1>2, <1>3, <1>4, <1>5 DEF Inv

-----------------------------------------------------------------------------
(* The invariant is preserved: one lemma per action.  Those that leave the
   goroutines alone first, then register and the two deferred calls *)

LEMMA Listened == ASSUME Inv, Listen PROVE Inv'
<1> USE DEF Inv, TypeOK, Listen, table, closing
<1>1. TypeOK'
  BY DEF OneAtATime, Closes
<1>2. OneAtATime' /\ Attended'
  BY DEF OneAtATime, Attended, InHand, Ends
<1>3. Ends'
  BY DEF Ends, Drains, Closes
<1>4. Goroutines' = Goroutines
  BY DEF Goroutines, Ends
<1>5. WaitGroupExact'
  BY <1>4, KeepsWaitGroup DEF Goroutines
<1>6. Drains'
  BY <1>4 DEF Drains, Closes, WaitGroupExact, Ends
<1> QED
  BY <1>1, <1>2, <1>3, <1>5, <1>6

LEMMA Dial == ASSUME NEW c \in Conns, Inv, dial(c) PROVE Inv'
<1> USE DEF Inv, TypeOK, dial, loop, table, closing
<1>1. TypeOK'
  BY DEF OneAtATime, Closes
<1>2. OneAtATime' /\ Attended'
  BY DEF OneAtATime, Attended, InHand
<1>3. Ends'
  BY DEF Ends, Drains, Closes
<1>4. Goroutines' = Goroutines
  BY DEF Goroutines, OneAtATime, InHand
<1>5. WaitGroupExact'
  BY <1>4, KeepsWaitGroup DEF Goroutines
<1>6. Drains'
  BY <1>4 DEF Drains, Closes, WaitGroupExact, Ends
<1> QED
  BY <1>1, <1>2, <1>3, <1>5, <1>6

LEMMA Lose == ASSUME NEW c \in Conns, Inv, lose(c) PROVE Inv'
<1> USE DEF Inv, TypeOK, lose, library, loop, table, closing, CloseConn
<1>1. TypeOK'
  BY DEF OneAtATime, Closes
<1>2. OneAtATime' /\ Attended'
  BY DEF OneAtATime, Attended, InHand
<1>3. Ends'
  BY DEF Ends, Drains, Closes
<1>4. Goroutines' = Goroutines
  BY DEF Goroutines, OneAtATime, InHand
<1>5. WaitGroupExact'
  BY <1>4, KeepsWaitGroup DEF Goroutines
<1>6. Drains'
  BY <1>4 DEF Drains, Closes, WaitGroupExact, Ends
<1> QED
  BY <1>1, <1>2, <1>3, <1>5, <1>6

LEMMA Taken == ASSUME NEW c \in Conns, Inv, Accept(c) PROVE Inv'
<1> USE DEF Inv, TypeOK, Accept, table, closing
<1>1. TypeOK'
  BY DEF OneAtATime, Closes
<1>2. OneAtATime' /\ Attended'
  BY DEF OneAtATime, Attended, InHand
<1>3. Ends'
  BY DEF Ends, Drains, Closes
<1>4. Goroutines' = Goroutines
  BY DEF Goroutines, OneAtATime, InHand
<1>5. WaitGroupExact'
  BY <1>4, KeepsWaitGroup DEF Goroutines
<1>6. Drains'
  BY <1>4 DEF Drains, Closes, WaitGroupExact, Ends
<1> QED
  BY <1>1, <1>2, <1>3, <1>5, <1>6

LEMMA AcceptFails == ASSUME Inv, acceptFails PROVE Inv'
<1> USE DEF Inv, TypeOK, acceptFails, library, table, closing
<1>1. TypeOK'
  BY DEF OneAtATime, Closes
<1>2. OneAtATime' /\ Attended'
  BY DEF OneAtATime, Attended, InHand
<1>3. Ends'
  BY DEF Ends, Drains, Closes
<1>4. Goroutines' = Goroutines
  BY DEF Goroutines, OneAtATime, InHand
<1>5. WaitGroupExact'
  BY <1>4, KeepsWaitGroup DEF Goroutines
<1>6. Drains'
  BY <1>4 DEF Drains, Closes, WaitGroupExact, Ends
<1> QED
  BY <1>1, <1>2, <1>3, <1>5, <1>6

LEMMA Refused == ASSUME Inv, refuse PROVE Inv'
<1> USE DEF Inv, TypeOK, refuse, library, table, closing, CloseConn
<1>1. TypeOK'
  BY DEF OneAtATime, Closes
<1>2. OneAtATime' /\ Attended'
  BY DEF OneAtATime, Attended, InHand
<1>3. Ends'
  BY DEF Ends, Drains, Closes
<1>4. Goroutines' = Goroutines
  BY DEF Goroutines, OneAtATime, InHand
<1>5. WaitGroupExact'
  BY <1>4, KeepsWaitGroup DEF Goroutines
<1>6. Drains'
  BY <1>4 DEF Drains, Closes, WaitGroupExact, Ends
<1> QED
  BY <1>1, <1>2, <1>3, <1>5, <1>6

LEMMA Cancelled == ASSUME NEW c \in Conns, Inv, cancelled(c) PROVE Inv'
<1> USE DEF Inv, TypeOK, cancelled, library, loop, table, closing, CloseConn
<1>1. TypeOK'
  BY DEF OneAtATime, Closes
<1>2. OneAtATime' /\ Attended'
  BY DEF OneAtATime, Attended, InHand
<1>3. Ends'
  BY DEF Ends, Drains, Closes
<1>4. Goroutines' = Goroutines
  BY DEF Goroutines, OneAtATime, InHand
<1>5. WaitGroupExact'
  BY <1>4, KeepsWaitGroup DEF Goroutines
<1>6. Drains'
  BY <1>4 DEF Drains, Closes, WaitGroupExact, Ends
<1> QED
  BY <1>1, <1>2, <1>3, <1>5, <1>6

LEMMA SessionStarted == ASSUME Inv, startSession PROVE Inv'
<1> USE DEF Inv, TypeOK, startSession, library, table, closing, Serve
<1>1. TypeOK'
  BY DEF OneAtATime, Closes
<1>2. OneAtATime' /\ Attended'
  BY DEF OneAtATime, Attended, InHand
<1>3. Ends'
  BY DEF Ends, Drains, Closes
<1>4. Goroutines' = Goroutines
  BY DEF Goroutines, OneAtATime, InHand
<1>5. WaitGroupExact'
  BY <1>4, KeepsWaitGroup DEF Goroutines, OneAtATime, InHand
<1>6. Drains'
  BY <1>4 DEF Drains, Closes, WaitGroupExact, Ends
<1> QED
  BY <1>1, <1>2, <1>3, <1>5, <1>6

LEMMA ServeEnds == ASSUME NEW c \in Conns, Inv, readFails(c) \/ handlerFails(c) PROVE Inv'
<1> USE DEF Inv, TypeOK, readFails, handlerFails, library, loop, table, closing, Serve
<1>1. TypeOK'
  BY DEF OneAtATime, Closes
<1>2. OneAtATime' /\ Attended'
  BY DEF OneAtATime, Attended, InHand
<1>3. Ends'
  BY DEF Ends, Drains, Closes
<1>4. Goroutines' = Goroutines
  BY DEF Goroutines, OneAtATime, InHand
<1>5. WaitGroupExact'
  BY <1>4, KeepsWaitGroup DEF Goroutines
<1>6. Drains'
  BY <1>4 DEF Drains, Closes, WaitGroupExact, Ends
<1> QED
  BY <1>1, <1>2, <1>3, <1>5, <1>6

LEMMA ConnClosed == ASSUME NEW c \in Conns, Inv, connClose(c) PROVE Inv'
<1> USE DEF Inv, TypeOK, connClose, library, loop, table, closing, CloseConn, Serve
<1>1. TypeOK'
  BY DEF OneAtATime, Closes
<1>2. OneAtATime' /\ Attended'
  BY DEF OneAtATime, Attended, InHand
<1>3. Ends'
  BY DEF Ends, Drains, Closes
<1>4. Goroutines' = Goroutines
  BY DEF Goroutines, OneAtATime, InHand
<1>5. WaitGroupExact'
  BY <1>4, KeepsWaitGroup DEF Goroutines
<1>6. Drains'
  BY <1>4 DEF Drains, Closes, WaitGroupExact, Ends
<1> QED
  BY <1>1, <1>2, <1>3, <1>5, <1>6

LEMMA CloseCalled == ASSUME NEW k \in Closers, Inv, Close(k) PROVE Inv'
<1> USE DEF Inv, TypeOK, Close, library, loop, table, At
<1>1. TypeOK'
  BY DEF OneAtATime, Closes
<1>2. OneAtATime' /\ Attended'
  BY DEF OneAtATime, Attended, InHand
<1>3. Ends'
  BY DEF Ends, Drains, Closes
<1>4. Goroutines' = Goroutines
  BY DEF Goroutines, OneAtATime, InHand
<1>5. WaitGroupExact'
  BY <1>4, KeepsWaitGroup DEF Goroutines
<1>6. Drains'
  BY <1>4 DEF Drains, Closes, WaitGroupExact, Ends
<1> QED
  BY <1>1, <1>2, <1>3, <1>5, <1>6

LEMMA CtxCancelled == ASSUME NEW k \in Closers, Inv, cancel(k) PROVE Inv'
<1> USE DEF Inv, TypeOK, cancel, library, loop, table, At
<1>1. TypeOK'
  BY DEF OneAtATime, Closes
<1>2. OneAtATime' /\ Attended'
  BY DEF OneAtATime, Attended, InHand
<1>3. Ends'
  BY DEF Ends, Drains, Closes
<1>4. Goroutines' = Goroutines
  BY DEF Goroutines, OneAtATime, InHand
<1>5. WaitGroupExact'
  BY <1>4, KeepsWaitGroup DEF Goroutines
<1>6. Drains'
  BY <1>4 DEF Drains, Closes, WaitGroupExact, Ends
<1> QED
  BY <1>1, <1>2, <1>3, <1>5, <1>6

LEMMA ListenerClosed == ASSUME NEW k \in Closers, Inv, listenerClose(k) PROVE Inv'
<1> USE DEF Inv, TypeOK, listenerClose, loop, table, At
<1>1. TypeOK'
  BY DEF OneAtATime, Closes
<1>2. OneAtATime' /\ Attended'
  BY DEF OneAtATime, Attended, InHand
<1>3. Ends'
  BY DEF Ends, Drains, Closes
<1>4. Goroutines' = Goroutines
  BY DEF Goroutines, OneAtATime, InHand
<1>5. WaitGroupExact'
  BY <1>4, KeepsWaitGroup DEF Goroutines
<1>6. Drains'
  BY <1>4 DEF Drains, Closes, WaitGroupExact, Ends
<1> QED
  BY <1>1, <1>2, <1>3, <1>5, <1>6

LEMMA ConnsClosed == ASSUME NEW k \in Closers, Inv, connsClose(k) PROVE Inv'
<1> USE DEF Inv, TypeOK, connsClose, library, loop, table, CloseConn, At
<1>1. TypeOK'
  BY DEF OneAtATime, Closes
<1>2. OneAtATime' /\ Attended'
  BY DEF OneAtATime, Attended, InHand
<1>3. Ends'
  BY DEF Ends, Drains, Closes
<1>4. Goroutines' = Goroutines
  BY DEF Goroutines, OneAtATime, InHand
<1>5. WaitGroupExact'
  BY <1>4, KeepsWaitGroup DEF Goroutines
<1>6. Drains'
  BY <1>4 DEF Drains, Closes, WaitGroupExact, Ends
<1> QED
  BY <1>1, <1>2, <1>3, <1>5, <1>6

LEMMA Waited == ASSUME NEW k \in Closers, Inv, wgWait(k) PROVE Inv'
<1> USE DEF Inv, TypeOK, wgWait, library, loop, table, At
<1>1. TypeOK'
  BY DEF OneAtATime, Closes
<1>2. OneAtATime' /\ Attended'
  BY DEF OneAtATime, Attended, InHand
<1>3. Ends'
  BY DEF Ends, Drains, Closes
<1>4. Goroutines' = Goroutines
  BY DEF Goroutines, OneAtATime, InHand
<1>5. WaitGroupExact'
  BY <1>4, KeepsWaitGroup DEF Goroutines
<1>6. Goroutines = {}
  BY FiniteConns, FS_EmptySet DEF WaitGroupExact, Goroutines
<1>7. Drains'
  BY <1>4, <1>6 DEF Drains, Closes
<1> QED
  BY <1>1, <1>2, <1>3, <1>5, <1>7

LEMMA DoneAwaited == ASSUME NEW k \in Closers, Inv, awaitDone(k) PROVE Inv'
<1> USE DEF Inv, TypeOK, awaitDone, library, loop, table, At
<1>1. TypeOK'
  BY DEF OneAtATime, Closes
<1>2. OneAtATime' /\ Attended'
  BY DEF OneAtATime, Attended, InHand
<1>3. Ends'
  BY DEF Ends, Drains, Closes
<1>4. Goroutines' = Goroutines
  BY DEF Goroutines, OneAtATime, InHand
<1>5. WaitGroupExact'
  BY <1>4, KeepsWaitGroup DEF Goroutines
<1>6. Drains'
  BY <1>4 DEF Drains, Closes, WaitGroupExact, Ends
<1> QED
  BY <1>1, <1>2, <1>3, <1>5, <1>6

\* register takes the connection in hand up, unless the server is closed.
LEMMA Registered == ASSUME Inv, register PROVE Inv'
<1> USE DEF Inv, TypeOK, register, library, table, closing
<1>1. TypeOK'
  BY DEF OneAtATime, Closes
<1>2. OneAtATime' /\ Attended' /\ Ends'
  BY DEF OneAtATime, Attended, Ends, InHand
<1>3. CASE closed
  <2>1. Goroutines' = Goroutines
    BY <1>3 DEF Goroutines, OneAtATime, InHand
  <2>2. WaitGroupExact'
    BY <1>3, <2>1, KeepsWaitGroup DEF Goroutines
  <2>3. Drains'
    BY <2>1 DEF Drains, Closes
  <2> QED
    BY <1>1, <1>2, <2>2, <2>3
<1>4. CASE ~closed
  <2>1. current \in Conns /\ current \notin Goroutines /\ serve[current] = "none"
    BY DEF OneAtATime, InHand, Goroutines
  <2>2. Goroutines' = Goroutines \cup {current}
    BY <1>4, <2>1 DEF Goroutines
  <2>3. Cardinality(Goroutines') = Cardinality(Goroutines) + 1
    BY <2>1, <2>2, FiniteConns, FS_AddElement DEF Goroutines
  <2>4. WaitGroupExact'
    BY <1>4, <2>1, <2>2, <2>3 DEF WaitGroupExact
  <2>5. Drains'
    BY <1>4 DEF Drains, Closes
  <2> QED
    BY <1>1, <1>2, <2>4, <2>5
<1> QED
  BY <1>3, <1>4

\* The first of the deferred calls that the wait group and the table see.
LEMMA Unregistered == ASSUME NEW c \in Conns, Inv, unregister(c) PROVE Inv'
<1> USE DEF Inv, TypeOK, unregister, library, loop, closing, Serve
<1>1. TypeOK'
  OBVIOUS
<1>2. OneAtATime' /\ Attended' /\ Ends'
  BY DEF OneAtATime, Attended, Ends, InHand
<1>3. Goroutines' = Goroutines
  BY DEF Goroutines
<1>4. WaitGroupExact'
  BY <1>3 DEF WaitGroupExact, Goroutines
<1>5. Drains'
  BY <1>3 DEF Drains, Closes
<1> QED
  BY <1>1, <1>2, <1>4, <1>5

\* And the last.
LEMMA CountedDown == ASSUME NEW c \in Conns, Inv, wgDone(c) PROVE Inv'
<1> USE DEF Inv, TypeOK, wgDone, library, loop, closing, Serve
<1>1. c \in Goroutines
  BY DEF Goroutines
<1>2. Goroutines' = Goroutines \ {c}
  BY DEF Goroutines, OneAtATime, InHand
<1>3. IsFiniteSet(Goroutines)
  BY FiniteConns DEF Goroutines
<1>4. wg - 1 = Cardinality(Goroutines') /\ wg - 1 \in Nat
  <2>1. Cardinality(Goroutines') = Cardinality(Goroutines) - 1
    BY <1>1, <1>2, <1>3, FS_RemoveElement
  <2>2. Cardinality(Goroutines) \in Nat /\ Cardinality(Goroutines) # 0
    BY <1>1, <1>3, FS_CardinalityType, FS_EmptySet
  <2> QED
    BY <2>1, <2>2 DEF WaitGroupExact
<1>5. TypeOK'
  BY <1>4
<1>6. OneAtATime' /\ Attended' /\ Ends'
  BY DEF OneAtATime, Attended, Ends, InHand
<1>7. sessions' = {b \in Goroutines' : serve'[b] # "wgDone"}
  <2>1. sessions = {b \in Goroutines : serve[b] # "wgDone"}
    BY DEF WaitGroupExact
  <2>2. \A b \in Goroutines : b # c => b \in Conns /\ serve'[b] = serve[b]
    BY DEF Goroutines
  <2> QED
    BY <1>2, <2>1, <2>2
<1>8. WaitGroupExact'
  BY <1>4, <1>7 DEF WaitGroupExact
<1>9. Drains'
  BY <1>2 DEF Drains, Closes
<1> QED
  BY <1>5, <1>6, <1>8, <1>9

\* A step of somebody else.
LEMMA Stutter == ASSUME Inv, UNCHANGED vars PROVE Inv'
<1>1. UNCHANGED Goroutines
  BY DEF vars, Goroutines
<1>2. WaitGroupExact' /\ Drains'
  BY <1>1 DEF Inv, vars, WaitGroupExact, Drains, Closes
<1> QED
  BY <1>2 DEF Inv, vars, TypeOK, OneAtATime, Attended, Ends, InHand

\* All actions together.
LEMMA NextInv == Inv /\ [Next]_vars => Inv'
<1> SUFFICES ASSUME Inv, [Next]_vars PROVE Inv'
  OBVIOUS
<1>1. CASE Listen
  BY <1>1, Listened
<1>2. CASE AcceptLoop
  BY <1>2, Taken, AcceptFails, Registered, Refused, SessionStarted DEF AcceptLoop
<1>3. ASSUME NEW c \in Conns, dial(c) \/ lose(c) \/ Session(c) \/ handlerFails(c)
      PROVE  Inv'
  BY <1>3, Dial, Lose, Cancelled, ServeEnds, ConnClosed, Unregistered, CountedDown
     DEF Session
<1>4. ASSUME NEW k \in Closers, Close(k) \/ Closing(k)
      PROVE  Inv'
  BY <1>4, CloseCalled, CtxCancelled, ListenerClosed, ConnsClosed, Waited, DoneAwaited
     DEF Closing
<1>5. CASE UNCHANGED vars
  BY <1>5, Stutter
<1> QED
  BY <1>1, <1>2, <1>3, <1>4, <1>5 DEF Next

\* The inductive invariant holds throughout.
LEMMA Invariance == Spec => []Inv
<1> QED
  BY InitInv, NextInv, PTL DEF Spec

-----------------------------------------------------------------------------
(* The invariants that the runs check *)

\* register, serveSession and its deferred calls keep wg and the session table
\* in step with the goroutines, for any number of connections.
THEOREM WaitGroupIsExact == Spec => []WaitGroupExact
<1>1. Inv => WaitGroupExact
  BY DEF Inv
<1> QED
  BY <1>1, Invariance, PTL

\* When Close returns to its first caller, nothing that acceptLoop was handed
\* is served or open any more.
THEOREM CloseHasDrained == Spec => []CloseDrains
<1>1. Inv => CloseDrains
  <2> SUFFICES ASSUME Inv, NEW k \in Closers, closer[k] = "returned"
               PROVE  /\ accept = "ended" /\ sessions = {} /\ Goroutines = {}
                      /\ \A c \in Conns : conn[c] = "open" => c \in incoming
    BY DEF CloseDrains
  <2>1. accept = "ended" /\ Goroutines = {}
    BY DEF Inv, Drains, Closes, Ends
  <2>2. sessions = {}
    BY <2>1 DEF Inv, WaitGroupExact
  <2>3. \A c \in Conns : conn[c] = "open" => c \in incoming
    BY <2>1 DEF Inv, Attended, InHand, Goroutines
  <2> QED
    BY <2>1, <2>2, <2>3
<1> QED
  BY <1>1, Invariance, PTL

-----------------------------------------------------------------------------
(* Steps *)

\* What a step does to the sessions, the wait group and those that are over:
\* there are three that do anything, and one of them needs an open server.
LEMMA TableSteps ==
    ASSUME Inv, [Next]_vars
    PROVE  \/ /\ register /\ ~closed
           \/ \E c \in Conns : unregister(c) \/ wgDone(c)
           \/ UNCHANGED table /\ Over' = Over
<1> USE DEF table
<1>1. CASE Listen
  BY <1>1 DEF Listen, Over
<1>2. CASE AcceptLoop
  BY <1>2 DEF AcceptLoop, Accept, acceptFails, register, refuse, startSession, Over, Serve,
              Inv, TypeOK, OneAtATime, InHand
<1>3. ASSUME NEW c \in Conns, dial(c) \/ lose(c) \/ Session(c) \/ handlerFails(c),
             ~unregister(c), ~wgDone(c)
      PROVE  UNCHANGED table /\ Over' = Over
  BY <1>3 DEF dial, lose, Session, cancelled, readFails, handlerFails, connClose, Over, Serve,
              Inv, TypeOK
<1>4. ASSUME NEW k \in Closers, Close(k) \/ Closing(k)
      PROVE  UNCHANGED table /\ Over' = Over
  BY <1>4 DEF Close, Closing, cancel, listenerClose, connsClose, wgWait, awaitDone, Over
<1>5. CASE UNCHANGED vars
  BY <1>5 DEF vars, Over
<1> QED
  BY <1>1, <1>2, <1>3, <1>4, <1>5 DEF Next

\* After closed is set, under mu, no step of acceptLoop adds to the wait group
\* that Close waits for.
THEOREM NothingAddedWhileWaiting == Spec => NoAddWhileWaiting
<1>1. ASSUME Inv, [Next]_vars, closed
      PROVE  wg' <= wg /\ sessions' \subseteq sessions
  BY <1>1, TableSteps DEF Inv, TypeOK, unregister, wgDone, table
<1>2. Inv /\ [Next]_vars => [closed => wg' <= wg /\ sessions' \subseteq sessions]_vars
  BY <1>1
<1> QED
  BY <1>2, Invariance, PTL DEF Spec, NoAddWhileWaiting

-----------------------------------------------------------------------------
(* Refinement of Transport *)

\* The stage of a server that is listening, told from closed and its closers.
LEMMA StageIs ==
    ASSUME Inv
    PROVE  /\ accept # "none" \/ closed => listener \in {"open", "closed"}
           /\ listener \in {"open", "closed"} /\ ~closed => Stage = "open"
           /\ closed => Stage = IF \E k \in Closers : closer[k] = "returned"
                                THEN "closed" ELSE "closing"
  BY DEF Inv, Ends, Drains, Closes, Stage

\* The steps that Transport sees of the listener.
LEMMA StageSteps ==
    ASSUME Inv, Inv', [Next]_vars
    PROVE  \/ Stage' = Stage
           \/ /\ Stage = "none" /\ Stage' \in {"open", "failed"} /\ Listen
           \/ /\ Stage = "open" /\ Stage' = "closing" /\ \E k \in Closers : Close(k)
           \/ /\ Stage = "closing" /\ Stage' = "closed" /\ sessions = {}
              /\ \E k \in Closers : awaitDone(k)
<1>1. CASE Listen
  BY <1>1 DEF Listen, closing, Stage, Inv, Ends, Drains, Closes
<1>2. CASE AcceptLoop
  BY <1>2 DEF AcceptLoop, Accept, acceptFails, register, refuse, startSession, library, closing,
              Stage
<1>3. ASSUME NEW c \in Conns, dial(c) \/ lose(c) \/ Session(c) \/ handlerFails(c)
      PROVE  Stage' = Stage
  BY <1>3 DEF dial, lose, Session, cancelled, readFails, handlerFails, connClose, unregister,
              wgDone, library, closing, Stage
<1>4. ASSUME NEW k \in Closers, Close(k)
      PROVE  Stage' = Stage \/ (Stage = "open" /\ Stage' = "closing")
  <2>1. \A j \in Closers : closer'[j] = "returned" <=> closer[j] = "returned"
    BY <1>4 DEF Close, At, Inv, TypeOK, Closes
  <2> QED
    BY <1>4, <2>1 DEF Close, library, Stage, Inv, Drains, Closes
<1>5. ASSUME NEW k \in Closers, cancel(k) \/ connsClose(k) \/ wgWait(k) \/ listenerClose(k)
      PROVE  Stage' = Stage
  <2>1. \A j \in Closers : closer'[j] = "returned" <=> closer[j] = "returned"
    BY <1>5 DEF cancel, connsClose, wgWait, listenerClose, At, Inv, TypeOK, Closes
  <2>2. closed /\ closed'
    BY <1>5 DEF cancel, connsClose, wgWait, listenerClose, Inv, Drains, Closes
  <2> QED
    BY <2>1, <2>2, StageIs DEF Stage, Inv, Ends
<1>6. ASSUME NEW k \in Closers, awaitDone(k)
      PROVE  Stage' = Stage \/ (Stage = "closing" /\ Stage' = "closed" /\ sessions = {})
  <2>1. CASE closer[k] = "join"
    <3>1. \A j \in Closers : closer'[j] = "returned" <=> closer[j] = "returned"
      BY <1>6, <2>1 DEF awaitDone, At, Inv, TypeOK
    <3> QED
      BY <1>6, <3>1 DEF awaitDone, library, Stage
  <2>2. CASE closer[k] = "done"
    <3>1. /\ closed /\ closed' /\ closer'[k] = "returned" /\ Goroutines = {}
          /\ \A j \in Closers : closer[j] # "returned"
      BY <1>6, <2>2 DEF awaitDone, At, Inv, TypeOK, Drains, Closes
    <3>2. listener' = listener /\ listener \in {"open", "closed"}
      BY <1>6, <3>1 DEF awaitDone, library, Inv, Ends
    <3>3. sessions = {}
      BY <3>1 DEF Inv, WaitGroupExact
    <3> QED
      BY <3>1, <3>2, <3>3 DEF Stage
  <2> QED
    BY <1>6, <2>1, <2>2 DEF awaitDone
<1>7. CASE UNCHANGED vars
  BY <1>7 DEF vars, Stage
<1> QED
  BY <1>1, <1>2, <1>3, <1>4, <1>5, <1>6, <1>7 DEF Next, Closing

\* Every step of the server is a step of Transport or leaves all it sees alone.
LEMMA StepSimulates == Inv /\ Inv' /\ [Next]_vars => [Promise!Next]_(Promise!tvars)
<1> SUFFICES ASSUME Inv, Inv', [Next]_vars
             PROVE  Promise!Next \/ UNCHANGED <<Stage, sessions, Over>>
  BY DEF Promise!tvars
<1>1. CASE register /\ ~closed
  <2>1. Stage = "open" /\ Stage' = "open"
    BY <1>1, StageIs DEF register, library, closing, Stage
  <2>2. current \in Conns /\ current \notin sessions \cup Over /\ Over' = Over
    BY <1>1 DEF register, Inv, OneAtATime, InHand, WaitGroupExact, Goroutines, Over
  <2>3. Promise!Open(current)
    BY <1>1, <2>1, <2>2 DEF register, Promise!Open
  <2> QED
    BY <2>2, <2>3 DEF Promise!Next
<1>2. ASSUME NEW c \in Conns, unregister(c)
      PROVE  Promise!Next
  <2>1. c \in sessions
    BY <1>2 DEF unregister, Inv, WaitGroupExact, Goroutines
  <2>2. Stage' = Stage /\ sessions' = sessions \ {c}
    BY <1>2 DEF unregister, library, closing, Stage
  <2>3. Over' = Over \cup {c}
    BY <1>2 DEF unregister, Serve, Over, Inv, TypeOK
  <2>4. Promise!End(c)
    BY <2>1, <2>2, <2>3 DEF Promise!End
  <2> QED
    BY <2>4 DEF Promise!Next
<1>3. ASSUME NEW c \in Conns, wgDone(c)
      PROVE  UNCHANGED <<Stage, sessions, Over>>
  BY <1>3 DEF wgDone, library, closing, Stage, Serve, Over, Inv, TypeOK
<1>4. CASE UNCHANGED table /\ Over' = Over
  BY <1>4, StageSteps DEF table, Promise!Next, Promise!Listen, Promise!ListenFails,
                          Promise!Close, Promise!Closed
<1> QED
  BY <1>1, <1>2, <1>3, <1>4, TableSteps

\* Listen, acceptLoop, serveSession and Close keep what the rest of the server
\* relies on: the RakNet server implements Transport.
THEOREM ImplementsTransport == Spec => KeepsPromise
<1>1. Init => Promise!Init
  BY DEF Init, Promise!Init, Stage, Over
<1> QED
  BY <1>1, StepSimulates, Invariance, PTL DEF Spec, KeepsPromise, Promise!Spec

=============================================================================
