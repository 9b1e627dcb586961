---------------------------- MODULE RaknetServer -----------------------------
(***************************************************************************)
(* The RakNet server (internal/network/raknet/server.go): the accept loop, *)
(* one goroutine per accepted connection, and Close, which may be called   *)
(* while connections are being accepted, served and lost.  The go-raknet   *)
(* listener and its connections are external: a queue of connections that  *)
(* Accept takes from, and connections that are open or closed.             *)
(***************************************************************************)
EXTENDS Integers, FiniteSets

CONSTANTS
    Conns,    \* connections that remote clients may open
    Closers,  \* goroutines that call Close
    NoConn    \* the accept loop has no connection in hand

ASSUME RaknetAssumption ==
    /\ IsFiniteSet(Conns)
    /\ NoConn \notin Conns

VARIABLES
    listener,  \* "none" before Listen, "failed", "open", "closed"
    incoming,  \* connections the listener holds for Accept
    conn,      \* "new", "open", "closed"
    accept,    \* where acceptLoop is
    current,   \* the connection acceptLoop has in hand
    done,      \* whether acceptLoop has closed the done channel
    closed,    \* Server.closed, under mu
    sessions,  \* Server.sessions, under mu
    wg,        \* Server.wg
    ctx,       \* Server.ctx: "live" or "cancelled"
    serve,     \* where the goroutine of each connection is in serveSession
    closer,    \* where each caller of Close is
    toClose    \* the sessions Close collected and has yet to close

library == <<listener, incoming>>
loop == <<accept, current, done>>
table == <<sessions, wg>>
closing == <<closed, ctx, closer, toClose>>
vars == <<listener, incoming, conn, accept, current, done, closed, sessions, wg, ctx,
          serve, closer, toClose>>

Init ==
    /\ listener = "none"
    /\ incoming = {}
    /\ conn = [c \in Conns |-> "new"]
    /\ accept = "none"
    /\ current = NoConn
    /\ done = FALSE
    /\ closed = FALSE
    /\ sessions = {}
    /\ wg = 0
    /\ ctx = "live"
    /\ serve = [c \in Conns |-> "none"]
    /\ closer = [k \in Closers |-> "idle"]
    /\ toClose = {}

CloseConn(c) == conn' = [conn EXCEPT ![c] = "closed"]
Serve(c, position) == serve' = [serve EXCEPT ![c] = position]
At(k, position) == closer' = [closer EXCEPT ![k] = position]

\* Listen binds the address and starts acceptLoop.
Listen ==
    /\ listener = "none"
    /\ \/ listener' = "open" /\ accept' = "accept"
       \/ listener' = "failed" /\ UNCHANGED accept
    /\ UNCHANGED <<incoming, conn, current, done, table, serve, closing>>

-----------------------------------------------------------------------------
(* The remote side *)

dial(c) ==
    /\ listener = "open"
    /\ conn[c] = "new"
    /\ conn' = [conn EXCEPT ![c] = "open"]
    /\ incoming' = incoming \cup {c}
    /\ UNCHANGED <<listener, loop, table, serve, closing>>

lose(c) ==
    /\ conn[c] = "open"
    /\ CloseConn(c)
    /\ UNCHANGED <<library, loop, table, serve, closing>>

-----------------------------------------------------------------------------
(* acceptLoop.  A listener that has been closed may still hand out what it had
   queued.  An Accept that fails otherwise is tried again. *)

Accept(c) ==
    /\ accept = "accept"
    /\ c \in incoming
    /\ incoming' = incoming \ {c}
    /\ current' = c
    /\ accept' = "register"
    /\ UNCHANGED <<listener, conn, done, table, serve, closing>>

acceptFails ==
    /\ accept = "accept"
    /\ listener = "closed"
    /\ accept' = "ended"
    /\ done' = TRUE
    /\ UNCHANGED <<library, conn, current, table, serve, closing>>

\* Mutant: closed is not looked at.
registerAlways ==
    /\ accept = "register"
    /\ sessions' = sessions \cup {current}
    /\ wg' = wg + 1
    /\ accept' = "serve"
    /\ UNCHANGED <<library, conn, current, done, serve, closing>>

register ==
    /\ accept = "register"
    /\ IF closed
       THEN accept' = "refuse" /\ UNCHANGED table
       ELSE /\ sessions' = sessions \cup {current}
            /\ wg' = wg + 1
            /\ accept' = "serve"
    /\ UNCHANGED <<library, conn, current, done, serve, closing>>

refuse ==
    /\ accept = "refuse"
    /\ CloseConn(current)
    /\ accept' = "accept"
    /\ current' = NoConn
    /\ UNCHANGED <<library, done, table, serve, closing>>

startSession ==
    /\ accept = "serve"
    /\ Serve(current, "serving")
    /\ accept' = "accept"
    /\ current' = NoConn
    /\ UNCHANGED <<library, conn, done, table, closing>>

-----------------------------------------------------------------------------
(* serveSession: the handler (session.Serve), then the deferred calls *)

\* The goroutine that session.Serve starts closes the connection when the
\* context is cancelled.
cancelled(c) ==
    /\ serve[c] = "serving" /\ conn[c] = "open"
    /\ ctx = "cancelled"
    /\ CloseConn(c)
    /\ UNCHANGED <<library, loop, table, serve, closing>>

readFails(c) ==
    /\ serve[c] = "serving" /\ conn[c] = "closed"
    /\ Serve(c, "close")
    /\ UNCHANGED <<library, conn, loop, table, closing>>

\* A batch that does not decode or a packet that its handler refuses.
handlerFails(c) ==
    /\ serve[c] = "serving" /\ conn[c] = "open"
    /\ Serve(c, "close")
    /\ UNCHANGED <<library, conn, loop, table, closing>>

connClose(c) ==
    /\ serve[c] = "close"
    /\ CloseConn(c)
    /\ Serve(c, "unregister")
    /\ UNCHANGED <<library, loop, table, closing>>

\* Mutant: the connection stays in the table.
unregisterForgets(c) ==
    /\ serve[c] = "unregister"
    /\ Serve(c, "wgDone")
    /\ UNCHANGED <<library, conn, loop, table, closing>>

unregister(c) ==
    /\ serve[c] = "unregister"
    /\ sessions' = sessions \ {c}
    /\ Serve(c, "wgDone")
    /\ UNCHANGED <<library, conn, loop, wg, closing>>

wgDone(c) ==
    /\ serve[c] = "wgDone"
    /\ wg' = wg - 1
    /\ Serve(c, "ended")
    /\ UNCHANGED <<library, conn, loop, sessions, closing>>

-----------------------------------------------------------------------------
(* Close *)

\* The critical section.  Only the first caller goes on; the others wait for
\* the accept loop.
Close(k) ==
    /\ listener \in {"open", "closed"}
    /\ closer[k] = "idle"
    /\ IF closed
       THEN At(k, "join") /\ UNCHANGED <<closed, toClose>>
       ELSE closed' = TRUE /\ toClose' = sessions /\ At(k, "cancel")
    /\ UNCHANGED <<library, conn, loop, table, ctx, serve>>

cancel(k) ==
    /\ closer[k] = "cancel"
    /\ ctx' = "cancelled"
    /\ At(k, "listener")
    /\ UNCHANGED <<library, conn, loop, table, closed, toClose, serve>>

\* Mutant: the listener is left open.
listenerCloseForgets(k) ==
    /\ closer[k] = "listener"
    /\ At(k, "conns")
    /\ UNCHANGED <<library, conn, loop, table, closed, ctx, toClose, serve>>

listenerClose(k) ==
    /\ closer[k] = "listener"
    /\ listener' = "closed"
    /\ At(k, "conns")
    /\ UNCHANGED <<incoming, conn, loop, table, closed, ctx, toClose, serve>>

connsClose(k) ==
    /\ closer[k] = "conns"
    /\ \/ \E c \in toClose : CloseConn(c) /\ toClose' = toClose \ {c}
          /\ UNCHANGED closer
       \/ toClose = {} /\ At(k, "wait") /\ UNCHANGED <<conn, toClose>>
    /\ UNCHANGED <<library, loop, table, closed, ctx, serve>>

\* Mutant: Close does not wait for the sessions.
wgWaitSkipped(k) ==
    /\ closer[k] = "wait"
    /\ At(k, "done")
    /\ UNCHANGED <<library, conn, loop, table, closed, ctx, toClose, serve>>

wgWait(k) ==
    /\ closer[k] = "wait"
    /\ wg = 0
    /\ At(k, "done")
    /\ UNCHANGED <<library, conn, loop, table, closed, ctx, toClose, serve>>

awaitDone(k) ==
    /\ closer[k] \in {"done", "join"}
    /\ done
    /\ At(k, IF closer[k] = "done" THEN "returned" ELSE "joined")
    /\ UNCHANGED <<library, conn, loop, table, closed, ctx, toClose, serve>>

AcceptLoop == (\E c \in Conns : Accept(c)) \/ acceptFails \/ register \/ refuse \/ startSession
Session(c) == cancelled(c) \/ readFails(c) \/ connClose(c) \/ unregister(c) \/ wgDone(c)
Closing(k) == cancel(k) \/ listenerClose(k) \/ connsClose(k) \/ wgWait(k) \/ awaitDone(k)

Next ==
    \/ Listen
    \/ AcceptLoop
    \/ \E c \in Conns : dial(c) \/ lose(c) \/ Session(c) \/ handlerFails(c)
    \/ \E k \in Closers : Close(k) \/ Closing(k)

Spec == Init /\ [][Next]_vars

\* Goroutines that can run do run.  Remote clients, handlers that refuse a
\* packet and callers of Close owe nothing.
FairSpec ==
    /\ Spec
    /\ WF_vars(AcceptLoop)
    /\ \A c \in Conns : WF_vars(Session(c))
    /\ \A k \in Closers : WF_vars(Closing(k))

-----------------------------------------------------------------------------
(* Properties *)

\* The goroutines that serveSession runs in, or that acceptLoop is about to
\* start.
Goroutines == {c \in Conns : \/ serve[c] \notin {"none", "ended"}
                             \/ accept = "serve" /\ current = c}

\* wg, sessions and the goroutines keep in step through register, unregister
\* and their deferred calls: wg.Wait misses no goroutine and never blocks for
\* one that is gone, and no connection is left registered.
WaitGroupExact ==
    /\ wg = Cardinality(Goroutines)
    /\ sessions = {c \in Goroutines : serve[c] # "wgDone"}

\* When Close returns to its first caller no goroutine serves a connection any
\* more, acceptLoop has ended, and no connection that Accept handed out is
\* open: also one that was accepted while Close was running.
CloseDrains ==
    \A k \in Closers : closer[k] = "returned" =>
        /\ accept = "ended" /\ sessions = {} /\ Goroutines = {}
        /\ \A c \in Conns : conn[c] = "open" => c \in incoming

\* Once closed is set nothing is registered and wg does not grow, so wg.Add
\* never runs beside wg.Wait.
NoAddWhileWaiting == [][closed => wg' <= wg /\ sessions' \subseteq sessions]_vars

\* Every call of Close returns, whatever the connections do.
CloseReturns == \A k \in Closers : closer[k] # "idle" ~> closer[k] \in {"returned", "joined"}

\* What Transport sees of it.  The first caller of Close returns last.
Stage ==
    IF listener \in {"none", "failed"} THEN listener
    ELSE IF \E k \in Closers : closer[k] = "returned" THEN "closed"
    ELSE IF closed THEN "closing" ELSE "open"
Over == {c \in Conns : serve[c] \in {"wgDone", "ended"}}

\* The RakNet server keeps the promise of Transport: it serves a connection once
\* and only while it is open, and Close returns when none is served any more.
Promise == INSTANCE Transport WITH stage <- Stage, live <- sessions, over <- Over

KeepsPromise == Promise!Spec
=============================================================================
