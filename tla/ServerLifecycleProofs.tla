------------------------ MODULE ServerLifecycleProofs ------------------------
(***************************************************************************)
(* The end of the server and the order of its tasks, for any number of     *)
(* connections, callers of Run and tasks and any capacity of the queue.    *)
(***************************************************************************)
EXTENDS ServerLifecycle, SequenceTheorems, TLAPS

\* Start has a single caller in it, who finds the listener and the main loop as
\* nobody else leaves them.
StartInv ==
    /\ startOnce = "new" => stage = "none"
    /\ startOnce # "over" => loop = "none" /\ done = 0
    /\ \A k \in Runners :
          /\ runner[k] = "listening" => startOnce = "busy" /\ stage = "none"
          /\ runner[k] = "starting" => startOnce = "busy" /\ stage = "open"
          /\ runner[k] \in {"listening", "starting"} =>
                \A j \in Runners : runner[j] \in {"listening", "starting"} => j = k

\* After Start the main loop and the listener end together, done last.
EndInv ==
    startOnce = "over" =>
        \/ loop = "none" /\ stage = "failed" /\ done = 1
        \/ loop \in {"select", "task", "drain", "drainTask", "close"} /\ stage = "open" /\ done = 0
        \/ loop = "closing" /\ stage = "closing" /\ done = 0
        \/ loop = "finish" /\ stage = "closed" /\ done = 0
        \/ loop = "ended" /\ stage = "closed" /\ done = 1

\* Sessions are served only between Listen and the end of Close.
ServedInv == stage \notin {"open", "closing"} => live = {}

Inv == TypeOK /\ StartInv /\ EndInv /\ ServedInv /\ TasksInOrder

-----------------------------------------------------------------------------
(* Queues *)

\* A task that moves from the head of the queue to the end of those that ran.
LEMMA TakenInOrder ==
    ASSUME NEW r \in Seq(Tasks), NEW q \in Seq(Tasks), q # << >>
    PROVE  /\ Head(q) \in Tasks /\ Tail(q) \in Seq(Tasks) /\ Len(Tail(q)) < Len(q)
           /\ Append(r, Head(q)) \in Seq(Tasks)
           /\ Append(r, Head(q)) \o Tail(q) = r \o q
<1>1. Head(q) \in Tasks /\ Tail(q) \in Seq(Tasks) /\ Len(Tail(q)) = Len(q) - 1
  BY HeadTailProperties
<1>2. Append(r, Head(q)) \in Seq(Tasks)
  BY <1>1
<1>3. Append(r, Head(q)) \o Tail(q) = r \o q
  <2>1. Append(r, Head(q)) \o Tail(q) \in Seq(Tasks) /\ r \o q \in Seq(Tasks)
    BY <1>1, <1>2
  <2>2. Len(Append(r, Head(q)) \o Tail(q)) = Len(r \o q)
    BY <1>1, <1>2
  <2>3. \A i \in 1..Len(r \o q) : (Append(r, Head(q)) \o Tail(q))[i] = (r \o q)[i]
    BY <1>1, <1>2
  <2> QED
    BY <2>1, <2>2, <2>3, SeqEqual
<1> QED
  BY <1>1, <1>2, <1>3

\* A task that Submit appends.
LEMMA QueuedInOrder ==
    ASSUME NEW r \in Seq(Tasks), NEW q \in Seq(Tasks), NEW t \in Tasks
    PROVE  /\ Append(q, t) \in Seq(Tasks) /\ Len(Append(q, t)) = Len(q) + 1
           /\ Append(r \o q, t) = r \o Append(q, t)
           /\ Range(Append(q, t)) = Range(q) \cup {t}
<1>1. Append(q, t) \in Seq(Tasks) /\ Len(Append(q, t)) = Len(q) + 1
  OBVIOUS
<1>2. Append(r \o q, t) = r \o Append(q, t)
  <2>1. Append(r \o q, t) \in Seq(Tasks) /\ r \o Append(q, t) \in Seq(Tasks)
    OBVIOUS
  <2>2. Len(Append(r \o q, t)) = Len(r \o Append(q, t))
    OBVIOUS
  <2>3. \A i \in 1..Len(Append(r \o q, t)) : Append(r \o q, t)[i] = (r \o Append(q, t))[i]
    OBVIOUS
  <2> QED
    BY <2>1, <2>2, <2>3, SeqEqual
<1>3. Range(Append(q, t)) = Range(q) \cup {t}
  <2>1. /\ DOMAIN q = 1..Len(q) /\ DOMAIN Append(q, t) = 1..(Len(q) + 1)
        /\ \A i \in 1..Len(q) : Append(q, t)[i] = q[i]
        /\ Append(q, t)[Len(q) + 1] = t /\ Len(q) \in Nat
    BY <1>1, LenProperties, AppendProperties
  <2> QED
    BY <2>1 DEF Range
<1> QED
  BY <1>1, <1>2, <1>3

\* Nothing has been started or submitted.
LEMMA InitInv == Init => Inv
  BY LifecycleAssumption, EmptySeq
     DEF Init, mcpeServer!Init, Inv, TypeOK, StartInv, EndInv, ServedInv, TasksInOrder, Range

-----------------------------------------------------------------------------
(* The invariant is preserved: one lemma per action.  First those that leave the
   tasks alone *)

LEMMA Started == ASSUME NEW k \in Runners, Inv, Start(k) PROVE Inv'
<1> USE DEF Inv, TypeOK, Start, network, tasks, submitted, Goto
<1>1. TypeOK'
  OBVIOUS
<1>2. StartInv' /\ EndInv' /\ ServedInv'
  BY DEF StartInv, EndInv, ServedInv
<1>3. TasksInOrder'
  BY DEF TasksInOrder
<1> QED
  BY <1>1, <1>2, <1>3

LEMMA Listening == ASSUME NEW k \in Runners, Inv, startNetwork(k) PROVE Inv'
<1> USE DEF Inv, TypeOK, startNetwork, mcpeServer!Listen, starting, tasks, submitted, Goto
<1>1. TypeOK'
  OBVIOUS
<1>2. StartInv' /\ EndInv' /\ ServedInv'
  BY DEF StartInv, EndInv, ServedInv
<1>3. TasksInOrder'
  BY DEF TasksInOrder
<1> QED
  BY <1>1, <1>2, <1>3

LEMMA StartFailed == ASSUME NEW k \in Runners, Inv, startFails(k) PROVE Inv'
<1> USE DEF Inv, TypeOK, startFails, mcpeServer!ListenFails, tasks, submitted, Goto
<1>1. TypeOK'
  OBVIOUS
<1>2. StartInv' /\ EndInv' /\ ServedInv'
  BY DEF StartInv, EndInv, ServedInv
<1>3. TasksInOrder'
  BY DEF TasksInOrder
<1> QED
  BY <1>1, <1>2, <1>3

LEMMA LoopStarted == ASSUME NEW k \in Runners, Inv, startLoop(k) PROVE Inv'
<1> USE DEF Inv, TypeOK, startLoop, network, starting, tasks, submitted, Goto
<1>1. TypeOK'
  OBVIOUS
<1>2. StartInv' /\ EndInv' /\ ServedInv'
  BY DEF StartInv, EndInv, ServedInv
<1>3. TasksInOrder'
  BY DEF TasksInOrder
<1> QED
  BY <1>1, <1>2, <1>3

LEMMA StartedAgain == ASSUME NEW k \in Runners, Inv, StartAgain(k) PROVE Inv'
<1> USE DEF Inv, TypeOK, StartAgain, network, tasks, submitted, Goto
<1>1. TypeOK'
  OBVIOUS
<1>2. StartInv' /\ EndInv' /\ ServedInv'
  BY DEF StartInv, EndInv, ServedInv
<1>3. TasksInOrder'
  BY DEF TasksInOrder
<1> QED
  BY <1>1, <1>2, <1>3

LEMMA RunCancelled == ASSUME NEW k \in Runners, Inv, runCancelled(k) PROVE Inv'
<1> USE DEF Inv, TypeOK, runCancelled, network, tasks, submitted, Goto
<1>1. TypeOK'
  OBVIOUS
<1>2. StartInv' /\ EndInv' /\ ServedInv'
  BY DEF StartInv, EndInv, ServedInv
<1>3. TasksInOrder'
  BY DEF TasksInOrder
<1> QED
  BY <1>1, <1>2, <1>3

LEMMA Waited == ASSUME NEW k \in Runners, Inv, Wait(k) PROVE Inv'
<1> USE DEF Inv, TypeOK, Wait, network, tasks, submitted, Goto
<1>1. TypeOK'
  OBVIOUS
<1>2. StartInv' /\ EndInv' /\ ServedInv'
  BY DEF StartInv, EndInv, ServedInv
<1>3. TasksInOrder'
  BY DEF TasksInOrder
<1> QED
  BY <1>1, <1>2, <1>3

LEMMA Stopped == ASSUME Inv, Stop PROVE Inv'
<1> USE DEF Inv, TypeOK, Stop, network, starting, tasks, submitted
<1>1. TypeOK'
  OBVIOUS
<1>2. StartInv' /\ EndInv' /\ ServedInv'
  BY DEF StartInv, EndInv, ServedInv
<1>3. TasksInOrder'
  BY DEF TasksInOrder
<1> QED
  BY <1>1, <1>2, <1>3

LEMMA Ticked == ASSUME Inv, selectTick PROVE Inv'
<1> USE DEF Inv, TypeOK, selectTick, network, starting, tasks, submitted
<1>1. TypeOK'
  OBVIOUS
<1>2. StartInv' /\ EndInv' /\ ServedInv'
  BY DEF StartInv, EndInv, ServedInv
<1>3. TasksInOrder'
  BY DEF TasksInOrder
<1> QED
  BY <1>1, <1>2, <1>3

LEMMA DoneSelected == ASSUME Inv, selectDone PROVE Inv'
<1> USE DEF Inv, TypeOK, selectDone, network, starting, tasks, submitted
<1>1. TypeOK'
  OBVIOUS
<1>2. StartInv' /\ EndInv' /\ ServedInv'
  BY DEF StartInv, EndInv, ServedInv
<1>3. TasksInOrder'
  BY DEF TasksInOrder
<1> QED
  BY <1>1, <1>2, <1>3

LEMMA NetworkClosing == ASSUME Inv, closeNetwork PROVE Inv'
<1> USE DEF Inv, TypeOK, closeNetwork, mcpeServer!Close, starting, tasks, submitted
<1>1. TypeOK'
  OBVIOUS
<1>2. StartInv' /\ EndInv' /\ ServedInv'
  BY DEF StartInv, EndInv, ServedInv
<1>3. TasksInOrder'
  BY DEF TasksInOrder
<1> QED
  BY <1>1, <1>2, <1>3

LEMMA NetworkClosed == ASSUME Inv, networkClosed PROVE Inv'
<1> USE DEF Inv, TypeOK, networkClosed, mcpeServer!Closed, starting, tasks, submitted
<1>1. TypeOK'
  OBVIOUS
<1>2. StartInv' /\ EndInv' /\ ServedInv'
  BY DEF StartInv, EndInv, ServedInv
<1>3. TasksInOrder'
  BY DEF TasksInOrder
<1> QED
  BY <1>1, <1>2, <1>3

LEMMA DoneClosed == ASSUME Inv, closeDone PROVE Inv'
<1> USE DEF Inv, TypeOK, closeDone, network, starting, tasks, submitted
<1>1. TypeOK'
  OBVIOUS
<1>2. StartInv' /\ EndInv' /\ ServedInv'
  BY DEF StartInv, EndInv, ServedInv
<1>3. TasksInOrder'
  BY DEF TasksInOrder
<1> QED
  BY <1>1, <1>2, <1>3

LEMMA Served == ASSUME NEW c \in Conns, Inv, Serve(c) PROVE Inv'
<1> USE DEF Inv, TypeOK, Serve, mcpeServer!Open, starting, tasks, submitted
<1>1. TypeOK'
  OBVIOUS
<1>2. StartInv' /\ EndInv' /\ ServedInv'
  BY DEF StartInv, EndInv, ServedInv
<1>3. TasksInOrder'
  BY DEF TasksInOrder
<1> QED
  BY <1>1, <1>2, <1>3

LEMMA ServeEnded == ASSUME NEW c \in Conns, Inv, ServeEnds(c) PROVE Inv'
<1> USE DEF Inv, TypeOK, ServeEnds, mcpeServer!End, starting, tasks, submitted
<1>1. TypeOK'
  OBVIOUS
<1>2. StartInv' /\ EndInv' /\ ServedInv'
  BY DEF StartInv, EndInv, ServedInv
<1>3. TasksInOrder'
  BY DEF TasksInOrder
<1> QED
  BY <1>1, <1>2, <1>3

-----------------------------------------------------------------------------
(* Then Submit, the two places that take from the queue, and runTask *)

LEMMA Submitted == ASSUME NEW t \in Tasks, Inv, Submit(t) PROVE Inv'
<1> USE DEF Inv, TypeOK, network, starting
<1>1. StartInv' /\ EndInv' /\ ServedInv'
  BY DEF Submit, StartInv, EndInv, ServedInv
<1>2. CASE UNCHANGED <<taskQueue, accepted>> /\ refused' = refused \cup {t}
  <2>1. TypeOK'
    BY <1>2 DEF Submit
  <2>2. TasksInOrder'
    BY <1>2 DEF Submit, TasksInOrder
  <2> QED
    BY <1>1, <2>1, <2>2
<1>3. CASE /\ ~queueFull /\ UNCHANGED refused
           /\ taskQueue' = Append(taskQueue, t) /\ accepted' = Append(accepted, t)
  <2>1. Len(taskQueue) + 1 <= TaskQueueCap
    BY <1>3, LifecycleAssumption, LenProperties DEF queueFull
  <2>2. TypeOK'
    BY <1>3, <2>1, QueuedInOrder DEF Submit
  <2>3. accepted' = ran' \o taskQueue'
    BY <1>3, QueuedInOrder DEF Submit, TasksInOrder
  <2>4. Range(accepted') = Range(accepted) \cup {t}
    BY <1>3, QueuedInOrder
  <2>5. refused' \cap Range(accepted') = {}
    BY <1>3, <2>4 DEF Submit, TasksInOrder
  <2> QED
    BY <1>1, <2>2, <2>3, <2>5 DEF TasksInOrder
<1> QED
  BY <1>2, <1>3 DEF Submit

\* Both take the head of the queue, in select or in drain.
LEMMA TaskTaken ==
    ASSUME Inv, takeTask, UNCHANGED <<network, starting, ctx, done, submitted>>,
           \/ loop = "select" /\ loop' = "task"
           \/ loop = "drain" /\ loop' = "drainTask"
    PROVE  Inv'
<1> USE DEF Inv, TypeOK, network, starting, submitted
<1>1. StartInv' /\ EndInv' /\ ServedInv'
  BY DEF StartInv, EndInv, ServedInv
<1>2. TypeOK'
  BY TakenInOrder, LifecycleAssumption, LenProperties DEF takeTask
<1>3. TasksInOrder'
  BY TakenInOrder DEF takeTask, TasksInOrder
<1> QED
  BY <1>1, <1>2, <1>3

LEMMA TaskSelected == ASSUME Inv, selectTask PROVE Inv'
  BY TaskTaken DEF selectTask

LEMMA Drained == ASSUME Inv, drainTasks PROVE Inv'
<1>1. CASE takeTask /\ loop' = "drainTask"
  BY <1>1, TaskTaken DEF drainTasks
<1>2. CASE loop' = "select" /\ UNCHANGED tasks
  <2> USE DEF Inv, TypeOK, drainTasks, network, starting, tasks, submitted
  <2>1. TypeOK' /\ TasksInOrder'
    BY <1>2 DEF TasksInOrder
  <2>2. StartInv' /\ EndInv' /\ ServedInv'
    BY <1>2 DEF StartInv, EndInv, ServedInv
  <2> QED
    BY <2>1, <2>2
<1> QED
  BY <1>1, <1>2 DEF drainTasks

LEMMA TaskRun == ASSUME Inv, runTask PROVE Inv'
<1> USE DEF Inv, TypeOK, runTask, network, starting, submitted
<1>1. TypeOK' /\ TasksInOrder'
  BY DEF TasksInOrder
<1>2. StartInv' /\ EndInv' /\ ServedInv'
  BY DEF StartInv, EndInv, ServedInv
<1> QED
  BY <1>1, <1>2

\* All actions together.
LEMMA NextInv == Inv /\ [Next]_vars => Inv'
<1> SUFFICES ASSUME Inv, [Next]_vars PROVE Inv'
  OBVIOUS
<1>1. CASE MainLoop
  BY <1>1, TaskSelected, Ticked, DoneSelected, TaskRun, Drained, NetworkClosing, NetworkClosed,
     DoneClosed DEF MainLoop
<1>2. CASE Stop
  BY <1>2, Stopped
<1>3. ASSUME NEW k \in Runners, Runner(k) \/ Start(k) \/ StartAgain(k) \/ runCancelled(k)
      PROVE  Inv'
  BY <1>3, Started, Listening, StartFailed, LoopStarted, StartedAgain, RunCancelled, Waited
     DEF Runner
<1>4. ASSUME NEW t \in Tasks, Submit(t) PROVE Inv'
  BY <1>4, Submitted
<1>5. ASSUME NEW c \in Conns, Serve(c) \/ ServeEnds(c) PROVE Inv'
  BY <1>5, Served, ServeEnded
<1>6. CASE UNCHANGED vars
  <2> USE <1>6 DEF Inv, vars
  <2>1. TypeOK'
    BY DEF TypeOK
  <2>2. StartInv' /\ EndInv' /\ ServedInv' /\ TasksInOrder'
    BY DEF StartInv, EndInv, ServedInv, TasksInOrder
  <2> QED
    BY <2>1, <2>2
<1> QED
  BY <1>1, <1>2, <1>3, <1>4, <1>5, <1>6 DEF Next

\* The inductive invariant holds throughout.
LEMMA Invariance == Spec => []Inv
<1> QED
  BY InitInv, NextInv, PTL DEF Spec

-----------------------------------------------------------------------------
(* The invariants that the runs check *)

\* Every variable has its type; Submit keeps the queue within its capacity.
THEOREM LifecycleTypes == Spec => []TypeOK
<1>1. Inv => TypeOK
  BY DEF Inv
<1> QED
  BY <1>1, Invariance, PTL

\* However Start, Stop, Run and the main loop interleave, done is closed once,
\* and when it is the listener, the sessions and the main loop are gone.
THEOREM DoneComesLast == Spec => []DoneIsFinal
<1>1. Inv => DoneIsFinal
  BY DEF Inv, TypeOK, StartInv, EndInv, ServedInv, DoneIsFinal
<1> QED
  BY <1>1, Invariance, PTL

\* The select of run and drainTasks take the tasks in the order of Submit.
THEOREM TasksStayInOrder == Spec => []TasksInOrder
<1>1. Inv => TasksInOrder
  BY DEF Inv
<1> QED
  BY <1>1, Invariance, PTL

=============================================================================
