--------------------------- MODULE ServerLifecycle ---------------------------
(***************************************************************************)
(* The server runtime (internal/server/server.go): Start, Run, Stop, Wait, *)
(* Submit, the main loop with its ticks and its task queue, and the        *)
(* shutdown.  The network listener it owns is the abstract Transport.      *)
(***************************************************************************)
EXTENDS Integers, Sequences, Functions

CONSTANTS
    Conns,         \* connections that remote clients may open
    Runners,       \* goroutines that call Run
    Tasks,         \* tasks handed to Submit, each once
    NoTask,        \* the main loop runs no task
    TaskQueueCap   \* capacity of the task queue

ASSUME LifecycleAssumption ==
    /\ NoTask \notin Tasks
    /\ TaskQueueCap \in Nat \ {0}

VARIABLES
    stage, live, over,  \* the listener: see Transport
    startOnce,          \* "new", "busy" or "over"
    runner,             \* where each caller of Run is
    ctx,                \* Server.ctx: "live" or "cancelled"
    done,               \* how often the done channel has been closed
    loop,               \* where the main loop is
    task,               \* the task the main loop runs
    taskQueue,          \* Server.taskQueue
    accepted,           \* history: the tasks that Submit accepted, in order
    refused,            \* history: the tasks that Submit refused
    ran                 \* history: the tasks that the main loop took, in order

network == <<stage, live, over>>
starting == <<startOnce, runner>>
tasks == <<task, taskQueue, ran>>
submitted == <<accepted, refused>>
vars == <<stage, live, over, startOnce, runner, ctx, done, loop, task, taskQueue,
          accepted, refused, ran>>

mcpeServer == INSTANCE Transport

Init ==
    /\ mcpeServer!Init
    /\ startOnce = "new"
    /\ runner = [k \in Runners |-> "idle"]
    /\ ctx = "live"
    /\ done = 0
    /\ loop = "none"
    /\ task = NoTask
    /\ taskQueue = << >>
    /\ accepted = << >>
    /\ refused = {}
    /\ ran = << >>

Goto(k, position) == runner' = [runner EXCEPT ![k] = position]

-----------------------------------------------------------------------------
(* Run: Start, then wait for the caller's context or the end of the server *)

\* Start for the first time: startOnce.Do holds the others back until it is
\* over.
Start(k) ==
    /\ runner[k] = "idle" /\ startOnce = "new"
    /\ startOnce' = "busy"
    /\ Goto(k, "listening")
    /\ UNCHANGED <<network, ctx, done, loop, tasks, submitted>>

\* startNetwork.
startNetwork(k) ==
    /\ runner[k] = "listening"
    /\ mcpeServer!Listen
    /\ Goto(k, "starting")
    /\ UNCHANGED <<startOnce, ctx, done, loop, tasks, submitted>>

\* Mutant: a Start that fails does not close the done channel.
startFailsSilently(k) ==
    /\ runner[k] = "listening"
    /\ mcpeServer!ListenFails
    /\ ctx' = "cancelled"
    /\ startOnce' = "over"
    /\ Goto(k, "failed")
    /\ UNCHANGED <<done, loop, tasks, submitted>>

\* The address cannot be bound: Start and Run return the error.
startFails(k) ==
    /\ runner[k] = "listening"
    /\ mcpeServer!ListenFails
    /\ ctx' = "cancelled"
    /\ done' = done + 1
    /\ startOnce' = "over"
    /\ Goto(k, "failed")
    /\ UNCHANGED <<loop, tasks, submitted>>

startLoop(k) ==
    /\ runner[k] = "starting"
    /\ loop' = "select"
    /\ startOnce' = "over"
    /\ Goto(k, "waiting")
    /\ UNCHANGED <<network, ctx, done, tasks, submitted>>

\* A later Start does nothing and returns nil, also after one that failed.
StartAgain(k) ==
    /\ runner[k] = "idle" /\ startOnce = "over"
    /\ Goto(k, "waiting")
    /\ UNCHANGED <<network, startOnce, ctx, done, loop, tasks, submitted>>

\* The caller's context is cancelled: Stop, then Wait.
runCancelled(k) ==
    /\ runner[k] = "waiting"
    /\ ctx' = "cancelled"
    /\ Goto(k, "stopping")
    /\ UNCHANGED <<network, startOnce, done, loop, tasks, submitted>>

Wait(k) ==
    /\ runner[k] \in {"waiting", "stopping"}
    /\ done > 0
    /\ Goto(k, "returned")
    /\ UNCHANGED <<network, startOnce, ctx, done, loop, tasks, submitted>>

\* Stop, from a signal, the console or the stop command of a player.
Stop ==
    /\ ctx = "live"
    /\ ctx' = "cancelled"
    /\ UNCHANGED <<network, starting, done, loop, tasks, submitted>>

-----------------------------------------------------------------------------
(* Submit and the main loop *)

\* Mutant: one task more than the channel holds.
queueFullLate == Len(taskQueue) > TaskQueueCap

queueFull == Len(taskQueue) >= TaskQueueCap

\* The select of Submit: either of the cases that are ready, and the default
\* when none is.
Submit(t) ==
    /\ t \notin Range(accepted) \cup refused
    /\ \/ /\ ctx = "cancelled"
          /\ refused' = refused \cup {t}
          /\ UNCHANGED <<taskQueue, accepted>>
       \/ /\ ~queueFull
          /\ taskQueue' = Append(taskQueue, t)
          /\ accepted' = Append(accepted, t)
          /\ UNCHANGED refused
       \/ /\ ctx = "live" /\ queueFull
          /\ refused' = refused \cup {t}
          /\ UNCHANGED <<taskQueue, accepted>>
    /\ UNCHANGED <<network, starting, ctx, done, loop, task, ran>>

takeTask ==
    /\ taskQueue # << >>
    /\ task' = Head(taskQueue)
    /\ taskQueue' = Tail(taskQueue)
    /\ ran' = Append(ran, Head(taskQueue))

\* The three cases of the select in run.
selectTask ==
    /\ loop = "select"
    /\ takeTask
    /\ loop' = "task"
    /\ UNCHANGED <<network, starting, ctx, done, submitted>>

selectTick ==
    /\ loop = "select"
    /\ loop' = "drain"
    /\ UNCHANGED <<network, starting, ctx, done, tasks, submitted>>

selectDone ==
    /\ loop = "select"
    /\ ctx = "cancelled"
    /\ loop' = "close"
    /\ UNCHANGED <<network, starting, ctx, done, tasks, submitted>>

\* runTask returns, also when the task panics.
runTask ==
    /\ loop \in {"task", "drainTask"}
    /\ task' = NoTask
    /\ loop' = IF loop = "task" THEN "select" ELSE "drain"
    /\ UNCHANGED <<network, starting, ctx, done, taskQueue, ran, submitted>>

\* Mutant: the queue is emptied and nothing of it is run.
drainTasksDrops ==
    /\ loop = "drain"
    /\ taskQueue' = << >>
    /\ loop' = "select"
    /\ UNCHANGED <<network, starting, ctx, done, task, ran, submitted>>

\* drainTasks in tickOnce: everything that is queued, also what is submitted
\* meanwhile, and without a look at ctx.
drainTasks ==
    /\ loop = "drain"
    /\ \/ takeTask /\ loop' = "drainTask"
       \/ taskQueue = << >> /\ loop' = "select" /\ UNCHANGED tasks
    /\ UNCHANGED <<network, starting, ctx, done, submitted>>

\* The deferred calls of run: Close of the listener, then close(done).
closeNetwork ==
    /\ loop = "close"
    /\ mcpeServer!Close
    /\ loop' = "closing"
    /\ UNCHANGED <<starting, ctx, done, tasks, submitted>>

\* Mutant: the main loop does not wait for Close to return.
networkNotAwaited ==
    /\ loop = "closing"
    /\ loop' = "finish"
    /\ UNCHANGED <<network, starting, ctx, done, tasks, submitted>>

networkClosed ==
    /\ loop = "closing"
    /\ mcpeServer!Closed
    /\ loop' = "finish"
    /\ UNCHANGED <<starting, ctx, done, tasks, submitted>>

closeDone ==
    /\ loop = "finish"
    /\ done' = done + 1
    /\ loop' = "ended"
    /\ UNCHANGED <<network, starting, ctx, tasks, submitted>>

-----------------------------------------------------------------------------
(* The listener serves connections meanwhile *)

Serve(c) ==
    /\ mcpeServer!Open(c)
    /\ UNCHANGED <<starting, ctx, done, loop, tasks, submitted>>

ServeEnds(c) ==
    /\ mcpeServer!End(c)
    /\ UNCHANGED <<starting, ctx, done, loop, tasks, submitted>>

MainLoop ==
    \/ selectTask \/ selectTick \/ selectDone \/ runTask \/ drainTasks
    \/ closeNetwork \/ networkClosed \/ closeDone

Runner(k) == startNetwork(k) \/ startFails(k) \/ startLoop(k) \/ Wait(k)

Next ==
    \/ MainLoop
    \/ Stop
    \/ \E k \in Runners : Runner(k) \/ Start(k) \/ StartAgain(k) \/ runCancelled(k)
    \/ \E t \in Tasks : Submit(t)
    \/ \E c \in Conns : Serve(c) \/ ServeEnds(c)

Spec == Init /\ [][Next]_vars

\* The goroutines run.  The select of run chooses among its ready cases at
\* random, so the case of ctx is taken when it is ready again and again.
\* Sessions end when the listener closes: RaknetServer shows that they do.
FairSpec ==
    /\ Spec
    /\ WF_vars(MainLoop)
    /\ SF_vars(selectDone)
    /\ \A k \in Runners : WF_vars(Runner(k))
    /\ \A c \in Conns : WF_vars(stage = "closing" /\ ServeEnds(c))

-----------------------------------------------------------------------------
(* Properties *)

\* Every variable has its type, and the queue keeps within its capacity.
TypeOK ==
    /\ stage \in {"none", "failed", "open", "closing", "closed"}
    /\ live \subseteq Conns /\ over \subseteq Conns
    /\ startOnce \in {"new", "busy", "over"}
    /\ runner \in [Runners -> {"idle", "listening", "starting", "failed", "waiting",
                               "stopping", "returned"}]
    /\ ctx \in {"live", "cancelled"}
    /\ done \in Nat
    /\ loop \in {"none", "select", "task", "drain", "drainTask", "close", "closing",
                 "finish", "ended"}
    /\ task \in Tasks \cup {NoTask}
    /\ taskQueue \in Seq(Tasks) /\ Len(taskQueue) <= TaskQueueCap
    /\ accepted \in Seq(Tasks)
    /\ refused \subseteq Tasks
    /\ ran \in Seq(Tasks)

\* The done channel is closed at most once, by a Start that fails or by the
\* main loop (closing it twice would panic), and when it is closed everything
\* is over: Wait and Run return to a caller who finds no listener, no session
\* and no main loop.
DoneIsFinal ==
    /\ done <= 1
    /\ done = 1 => /\ stage \in {"failed", "closed"}
                   /\ live = {}
                   /\ loop \in {"none", "ended"}

\* The two places that take from the queue, the select of run and drainTasks,
\* lose, repeat and reorder no task: what was accepted has been taken or is
\* queued, in the order of Submit, and nothing that was refused is.
TasksInOrder ==
    /\ accepted = ran \o taskQueue
    /\ refused \cap Range(accepted) = {}

\* A started server that is stopped comes to its end, whatever it was doing,
\* and every Run returns.
StopEnds ==
    ctx = "cancelled" /\ startOnce # "new"
        ~> done = 1 /\ \A k \in Runners : runner[k] \in {"idle", "failed", "returned"}

\* Every task that Submit accepts is taken, unless the server is stopped.
AcceptedTasksRun ==
    \A t \in Tasks : t \in Range(accepted) /\ startOnce # "new"
                        ~> t \in Range(ran) \/ ctx = "cancelled"
=============================================================================
