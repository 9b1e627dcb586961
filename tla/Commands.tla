------------------------------ MODULE Commands -------------------------------
(***************************************************************************)
(* Commands, chat and permissions: the registry and its dispatcher         *)
(* (internal/command/command.go), the default commands and their handlers  *)
(* (internal/server/mcpe_commands.go), the operators                       *)
(* (mcpe_permissions.go) and the console (runConsoleInput of server.go).   *)
(*                                                                         *)
(* Commands are run by the goroutine of the player that sent them, or by   *)
(* that of the console.  They share the operators, under a lock that is    *)
(* taken for one lookup or one update at a time, the player table, and the *)
(* connection of every client, to which any of them may write the list of  *)
(* commands its player may use.                                            *)
(***************************************************************************)
EXTENDS Naturals, FiniteSets

CONSTANTS
    Players,      \* network sessions; a player that returns is another one
    Accounts,     \* player UUIDs
    Logins,       \* which sessions log in with which accounts
    Names,        \* lower-cased display names, and arguments that name nobody
    NameOf,       \* the name that goes with an account
    Console,      \* the console sender
    Lookups,      \* commands whose permission is looked up in the operators
    MaxCommands,  \* bound of the model: commands and chat messages entered
    MaxLate,      \* bound of the model: lines of the console beyond it after a stop
    MaxLost       \* bound of the model: connections that may be lost

ASSUME CommandsAssumption ==
    /\ Console \notin Players
    /\ Logins \subseteq [Players -> Accounts]
    /\ NameOf \in [Accounts -> Names]
    /\ Lookups \in Nat \ {0}
    /\ MaxCommands \in Nat
    /\ MaxLate \in Nat
    /\ MaxLost \in Nat

Issuers == Players \cup {Console}

Commands == {"deop", "help", "list", "op", "say", "stop"}
defaultPlayerPermissions == {"help", "list"}

\* What a list of commands was made of: no lookup yet, the rights of a player,
\* those of an operator, or some of either.
Lists == {"none", "player", "operator", "torn"}

VARIABLES
    account,    \* MCPEClient.player.uuid, the account a session logs in with
    state,      \* where a session is: in the player table, or before or after it
    conn,       \* whether writes to the connection succeed: "open" or "lost"
    operators,  \* permissionManager.operators: accounts
    shown,      \* the last AvailableCommands a client received
    stoppers,   \* who has called shutdown; the context is cancelled when not {}
    pc,         \* where the goroutine of a session or of the console is
    job,        \* what it is working on
    issued,     \* counts the commands entered, for the bound
    granted,    \* history: the console has made somebody an operator
    crossed,    \* history: sessions whose list a concurrent update may make stale
    late        \* history: lines the console took up after the cancellation

vars == <<account, state, conn, operators, shown, stoppers, pc, job, issued, granted, crossed, late>>

\* joining: in the table, startGame still running; joined: before the spawn.
States == {"connecting", "joining", "joined", "spawned", "disconnected"}
inTable(p) == state[p] \in {"joining", "joined", "spawned"}

\* idle: blocked in Read or Scan; run: in Command.Run; set, list, write: in op
\* and deop, and in sendAvailableCommands; shutdown: in stop; output: the result
\* is on its way to the sender.
Positions == {"idle", "run", "set", "list", "write", "shutdown", "output", "ended"}

\* target: the client op, deop or sendAvailableCommands is about; lookups and
\* visible: the loop of Visible.
NewJob(cmd, name, target) ==
    [cmd |-> cmd, name |-> name, target |-> target, lookups |-> 0, visible |-> "none"]
NoJob == NewJob("none", "none", Console)

Init ==
    /\ account \in Logins
    /\ state = [p \in Players |-> "connecting"]
    /\ conn = [p \in Players |-> "open"]
    /\ operators = {}
    /\ shown = [p \in Players |-> "none"]
    /\ stoppers = {}
    /\ pc = [i \in Issuers |-> "idle"]
    /\ job = [i \in Issuers |-> NoJob]
    /\ issued = 0
    /\ granted = FALSE
    /\ crossed = {}
    /\ late = 0

Goto(i, position) == pc' = [pc EXCEPT ![i] = position]
History == <<granted, crossed, late>>

\* Mutant: a permission that is not known to be an operator's is everybody's.
hasPlayerPermissionByName(p, cmd) ==
    cmd \notin {"say", "stop", "deop"} \/ account[p] \in operators

hasPlayerPermission(p, cmd) == cmd \in defaultPlayerPermissions \/ account[p] \in operators
rights(p) == IF account[p] \in operators THEN "operator" ELSE "player"
HasPermission(i, cmd) == i = Console \/ hasPlayerPermission(i, cmd)

-----------------------------------------------------------------------------
(* Entering a command *)

\* The bounds of the model.  They never keep the console from another line when
\* the server has just been stopped.
Enter(i) ==
    /\ issued < IF i = Console /\ stoppers # {} THEN MaxCommands + MaxLate ELSE MaxCommands
    /\ issued' = issued + 1

\* Registry.Dispatch up to the call of Run: the permission is looked up here
\* and not again.  A line that cannot be parsed, an unknown command and a
\* missing permission give a failure to output.
Dispatch(i, cmd, name) ==
    /\ IF cmd \in Commands /\ HasPermission(i, cmd)
       THEN Goto(i, "run") /\ job' = [job EXCEPT ![i] = NewJob(cmd, name, Console)]
       ELSE Goto(i, "output") /\ UNCHANGED job
    /\ Enter(i)

\* What a sender may enter; only op and deop look at their argument.
Lines == ({"op", "deop"} \X Names) \cup ({"help", "list", "say", "stop", "unknown"} \X {"none"})

\* handleText with a leading slash, and handleCommandRequest.
playerCommand(p) ==
    /\ pc[p] = "idle" /\ conn[p] = "open" /\ state[p] = "spawned"
    /\ \E l \in Lines : Dispatch(p, l[1], l[2])
    /\ UNCHANGED <<account, state, conn, operators, shown, stoppers, History>>

\* handleText without one.
chat(p) ==
    /\ pc[p] = "idle" /\ conn[p] = "open" /\ state[p] = "spawned"
    /\ Enter(p)
    /\ job' = [job EXCEPT ![p] = NewJob("chat", "none", Console)]
    /\ Goto(p, "run")
    /\ UNCHANGED <<account, state, conn, operators, shown, stoppers, History>>

consoleCommand ==
    /\ pc[Console] = "idle"
    /\ \E l \in Lines : Dispatch(Console, l[1], l[2])
    /\ late' = IF stoppers # {} THEN late + 1 ELSE late
    /\ UNCHANGED <<account, state, conn, operators, shown, stoppers, granted, crossed>>

\* The console has no more input.
consoleCloses ==
    /\ pc[Console] = "idle"
    /\ Goto(Console, "ended")
    /\ UNCHANGED <<account, state, conn, operators, shown, stoppers, job, issued, History>>

-----------------------------------------------------------------------------
(* Running it *)

\* help and list read the registry and the table for their output.
runQuery(i) ==
    /\ pc[i] = "run" /\ job[i].cmd \in {"help", "list"}
    /\ Goto(i, "output")
    /\ UNCHANGED <<account, state, conn, operators, shown, stoppers, job, issued, History>>

\* op and deop: playerByName finds any of the sessions with the name, in the
\* order of a Go map.
playerByName(i) ==
    /\ pc[i] = "run" /\ job[i].cmd \in {"op", "deop"}
    /\ LET found == {p \in Players : inTable(p) /\ NameOf[account[p]] = job[i].name}
       IN \/ found = {} /\ Goto(i, "output") /\ UNCHANGED job
          \/ \E p \in found : Goto(i, "set") /\ job' = [job EXCEPT ![i].target = p]
    /\ UNCHANGED <<account, state, conn, operators, shown, stoppers, issued, History>>

\* The sessions whose list the change of an account's rights leaves behind: one
\* that someone else is building or writing a list for, and any that is not the
\* one op or deop found.
Behind(i) ==
    {p \in Players :
        /\ inTable(p) /\ account[p] = account[job[i].target]
        /\ \/ p # job[i].target
           \/ \E j \in Issuers \ {i} : pc[j] \in {"list", "write"} /\ job[j].target = p}

\* Mutant: the list is built only for a new operator.
setOperatorQuietly(i) ==
    /\ pc[i] = "set"
    /\ LET id == account[job[i].target]
       IN operators' = IF job[i].cmd = "op" THEN operators \cup {id} ELSE operators \ {id}
    /\ crossed' = IF operators' # operators THEN crossed \cup Behind(i) ELSE crossed
    /\ granted' = (granted \/ (i = Console /\ job[i].cmd = "op"))
    /\ Goto(i, IF job[i].cmd = "op" THEN "list" ELSE "output")
    /\ UNCHANGED <<account, state, conn, shown, stoppers, job, issued, late>>

setOperator(i) ==
    /\ pc[i] = "set"
    /\ LET id == account[job[i].target]
       IN operators' = IF job[i].cmd = "op" THEN operators \cup {id} ELSE operators \ {id}
    /\ crossed' = IF operators' # operators THEN crossed \cup Behind(i) ELSE crossed
    /\ granted' = (granted \/ (i = Console /\ job[i].cmd = "op"))
    /\ Goto(i, "list")
    /\ UNCHANGED <<account, state, conn, shown, stoppers, job, issued, late>>

\* Mutant: the loop goes one name too far.
buildListTooFar(i) ==
    /\ pc[i] = "list"
    /\ LET found == rights(job[i].target)
       IN job' = [job EXCEPT ![i].lookups = @ + 1,
                             ![i].visible = IF @ \in {"none", found} THEN found ELSE "torn"]
    /\ IF job'[i].lookups > Lookups THEN Goto(i, "write") ELSE UNCHANGED pc
    /\ UNCHANGED <<account, state, conn, operators, shown, stoppers, issued, History>>

\* Visible walks the sorted names; each permission that is not a default one is
\* looked up under a lock of its own.
buildList(i) ==
    /\ pc[i] = "list"
    /\ LET found == rights(job[i].target)
       IN job' = [job EXCEPT ![i].lookups = @ + 1,
                             ![i].visible = IF @ \in {"none", found} THEN found ELSE "torn"]
    /\ IF job'[i].lookups = Lookups THEN Goto(i, "write") ELSE UNCHANGED pc
    /\ UNCHANGED <<account, state, conn, operators, shown, stoppers, issued, History>>

\* AvailableCommands to the target, and what op and deop write to it after that.
\* A failure ends the session that is joining; op and deop ignore it.
writeList(i) ==
    /\ pc[i] = "write"
    /\ LET p == job[i].target
       IN shown' = IF conn[p] = "open" THEN [shown EXCEPT ![p] = job[i].visible] ELSE shown
    /\ IF job[i].cmd = "join"
       THEN /\ state' = [state EXCEPT ![i] = IF conn[i] = "open" THEN "joined" ELSE "disconnected"]
            /\ Goto(i, IF conn[i] = "open" THEN "idle" ELSE "ended")
       ELSE Goto(i, "output") /\ UNCHANGED state
    /\ job' = [job EXCEPT ![i] = NoJob]
    /\ UNCHANGED <<account, conn, operators, stoppers, issued, History>>

\* The spawned players are collected and then written to until a write fails,
\* in one step: a player that has left may have been collected before.
Broadcast(failed) ==
    /\ failed \/ \A p \in Players : state[p] = "spawned" => conn[p] = "open"
    /\ failed => \E p \in Players : state[p] \in {"spawned", "disconnected"} /\ conn[p] = "lost"

\* Mutant: stop gives up when its announcement fails.
broadcastTextOrGiveUp(i) ==
    /\ pc[i] = "run" /\ job[i].cmd \in {"chat", "say", "stop"}
    /\ \E failed \in BOOLEAN :
          /\ Broadcast(failed)
          /\ Goto(i, IF job[i].cmd = "stop" /\ ~failed THEN "shutdown" ELSE "output")
    /\ UNCHANGED <<account, state, conn, operators, shown, stoppers, job, issued, History>>

\* chat, say and stop: when the broadcast fails say reports it, stop goes on, and
\* a chat message ends the session it is from.
broadcastText(i) ==
    /\ pc[i] = "run" /\ job[i].cmd \in {"chat", "say", "stop"}
    /\ \E failed \in BOOLEAN :
          /\ Broadcast(failed)
          /\ Goto(i, CASE job[i].cmd = "say"  -> "output"
                       [] job[i].cmd = "stop" -> "shutdown"
                       [] job[i].cmd = "chat" -> IF failed THEN "ended" ELSE "idle")
          /\ IF job[i].cmd = "chat" /\ failed
             THEN /\ state' = [state EXCEPT ![i] = "disconnected"]
                  /\ conn' = [conn EXCEPT ![i] = "lost"]
             ELSE UNCHANGED <<state, conn>>
    /\ job' = [job EXCEPT ![i] = NoJob]
    /\ UNCHANGED <<account, operators, shown, stoppers, issued, History>>

shutdown(i) ==
    /\ pc[i] = "shutdown"
    /\ stoppers' = stoppers \cup {i}
    /\ Goto(i, "output")
    /\ UNCHANGED <<account, state, conn, operators, shown, job, issued, History>>

\* The result to the player: a failed write ends the session.
output(p) ==
    /\ pc[p] = "output"
    /\ Goto(p, IF conn[p] = "open" THEN "idle" ELSE "ended")
    /\ state' = IF conn[p] = "open" THEN state ELSE [state EXCEPT ![p] = "disconnected"]
    /\ job' = [job EXCEPT ![p] = NoJob]
    /\ UNCHANGED <<account, conn, operators, shown, stoppers, issued, History>>

\* Mutant: the console does not look at the context.
consoleOutputGoesOn ==
    /\ pc[Console] = "output"
    /\ Goto(Console, "idle")
    /\ job' = [job EXCEPT ![Console] = NoJob]
    /\ UNCHANGED <<account, state, conn, operators, shown, stoppers, issued, History>>

\* The result to the log; the console ends when the context is cancelled.
consoleOutput ==
    /\ pc[Console] = "output"
    /\ Goto(Console, IF stoppers = {} THEN "idle" ELSE "ended")
    /\ job' = [job EXCEPT ![Console] = NoJob]
    /\ UNCHANGED <<account, state, conn, operators, shown, stoppers, issued, History>>

-----------------------------------------------------------------------------
(* Sessions *)

\* startGame enters the player in the table and sends it its commands.
startGame(p) ==
    /\ pc[p] = "idle" /\ conn[p] = "open" /\ state[p] = "connecting"
    /\ state' = [state EXCEPT ![p] = "joining"]
    /\ job' = [job EXCEPT ![p] = NewJob("join", "none", p)]
    /\ Goto(p, "list")
    /\ UNCHANGED <<account, conn, operators, shown, stoppers, issued, History>>

spawn(p) ==
    /\ pc[p] = "idle" /\ conn[p] = "open" /\ state[p] = "joined"
    /\ state' = [state EXCEPT ![p] = "spawned"]
    /\ UNCHANGED <<account, conn, operators, shown, stoppers, pc, job, issued, History>>

mayBeLost(p) == conn[p] = "lost" \/ Cardinality({q \in Players : conn[q] = "lost"}) < MaxLost

connLost(p) ==
    /\ conn[p] = "open" /\ mayBeLost(p)
    /\ conn' = [conn EXCEPT ![p] = "lost"]
    /\ UNCHANGED <<account, state, operators, shown, stoppers, pc, job, issued, History>>

\* Read or a handler fails, and removePlayer takes the player out of the table.
leave(p) ==
    /\ pc[p] = "idle" /\ mayBeLost(p)
    /\ state' = [state EXCEPT ![p] = "disconnected"]
    /\ conn' = [conn EXCEPT ![p] = "lost"]
    /\ Goto(p, "ended")
    /\ UNCHANGED <<account, operators, shown, stoppers, job, issued, History>>

Step(i) ==
    \/ runQuery(i) \/ playerByName(i) \/ setOperator(i) \/ buildList(i) \/ writeList(i)
    \/ broadcastText(i) \/ shutdown(i)

Next ==
    \/ \E i \in Issuers : Step(i)
    \/ \E p \in Players : \/ playerCommand(p) \/ chat(p) \/ output(p)
                          \/ startGame(p) \/ spawn(p) \/ connLost(p) \/ leave(p)
    \/ consoleCommand \/ consoleCloses \/ consoleOutput

Spec == Init /\ [][Next]_vars

\* A goroutine that can run eventually runs; nobody need enter anything.
FairSpec ==
    /\ Spec
    /\ \A i \in Issuers : WF_vars(Step(i))
    /\ \A p \in Players : WF_vars(output(p))
    /\ WF_vars(consoleOutput)

-----------------------------------------------------------------------------
(* Properties *)

Job == [cmd : Commands \cup {"none", "join", "chat"}, name : Names \cup {"none"},
        target : Issuers, lookups : 0..Lookups, visible : Lists]

\* Every variable has its type, and whoever works on a target has one.
TypeOK ==
    /\ account \in [Players -> Accounts]
    /\ state \in [Players -> States]
    /\ conn \in [Players -> {"open", "lost"}]
    /\ operators \in SUBSET Accounts
    /\ shown \in [Players -> Lists]
    /\ stoppers \in SUBSET Issuers
    /\ pc \in [Issuers -> Positions]
    /\ job \in [Issuers -> Job]
    /\ issued \in Nat
    /\ granted \in BOOLEAN
    /\ crossed \in SUBSET Players
    /\ late \in Nat
    /\ \A i \in Issuers : pc[i] \in {"set", "list", "write"} => job[i].target \in Players

\* All rights come from the console: as long as the console has not made
\* anybody an operator there is none, and no player has stopped the server,
\* whatever players enter, and although the right is looked up well before the
\* command takes effect and outlives the session it was given to.
PrivilegeFromConsole == ~granted => operators = {} /\ stoppers \subseteq {Console}

\* "op/deop update an online player's operator state and resend
\* AvailableCommands", and startGame sends it "based on the player's current
\* permissions": while no list is being sent to it a client has the commands its
\* player may use.  Two updates that overlap, and a second session of the same
\* account, are what breaks this, and nothing else.
ListsCurrent ==
    \A p \in Players \ crossed :
        /\ state[p] \in {"joined", "spawned"} /\ conn[p] = "open"
        /\ \A i \in Issuers : pc[i] \in {"list", "write"} => job[i].target # p
        => shown[p] = rights(p)

\* runConsoleInput looks at the context after a line and not before: it takes
\* up at most one more after the cancellation, and then no other.
ConsoleStops == late <= 1 /\ (late = 1 => pc[Console] # "idle")

\* A stop that has been admitted stops the server, although it announces it to
\* the players first and their connections may fail in the meantime.
StopStops ==
    \A i \in Issuers : pc[i] = "run" /\ job[i].cmd = "stop" ~> stoppers # {}
=============================================================================
