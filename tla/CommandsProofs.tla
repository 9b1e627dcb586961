--------------------------- MODULE CommandsProofs ----------------------------
(***************************************************************************)
(* Proofs about Commands, for any number of sessions and accounts, any     *)
(* number of commands and any length of the lists.                         *)
(***************************************************************************)
EXTENDS Commands, TLAPS

\* What the position of a goroutine says of its job.
JobInv ==
    \A i \in Issuers :
        /\ pc[i] \in {"run", "set"} => job[i].lookups = 0 /\ job[i].visible = "none"
        /\ pc[i] = "list" => job[i].lookups < Lookups
        /\ pc[i] = "run" => job[i].cmd \in Commands \cup {"chat"}
        /\ pc[i] = "set" => job[i].cmd \in {"op", "deop"}
        /\ pc[i] \in {"set", "list", "write"} =>
              job[i].target \in Players /\ state[job[i].target] # "connecting"
        /\ pc[i] \in {"list", "write"} /\ job[i].cmd = "join" =>
              i \in Players /\ job[i].target = i /\ state[i] = "joining"
        /\ i = Console /\ pc[i] \in {"run", "list", "write"} => job[i].cmd \notin {"join", "chat"}

\* Before the console has made anybody an operator no player is in the middle
\* of a command that takes a right.
PrivilegeInv ==
    ~granted =>
        /\ operators = {} /\ stoppers \subseteq {Console}
        /\ \A p \in Players : /\ pc[p] \notin {"set", "shutdown"}
                              /\ pc[p] = "run" => job[p].cmd \in {"help", "list", "chat"}

\* The console is past its last line once it has taken up one too many.
ConsoleInv == late # 0 => late = 1 /\ stoppers # {} /\ pc[Console] # "idle"

Building(i, p) == pc[i] \in {"list", "write"} /\ job[i].target = p

\* A list that is being built for a session has nothing stale in it, and the
\* one that was received has nothing stale when none is on its way.
ListInv(p) ==
    /\ inTable(p) => \A i \in Issuers : Building(i, p) =>
          job[i].visible = rights(p) \/ (pc[i] = "list" /\ job[i].visible = "none")
    /\ /\ state[p] \in {"joined", "spawned"} /\ conn[p] = "open"
       /\ \A i \in Issuers : ~Building(i, p)
       => shown[p] = rights(p)

ListsInv == \A p \in Players \ crossed : ListInv(p)

Inv == TypeOK /\ JobInv /\ PrivilegeInv /\ ConsoleInv /\ ListsInv

\* The console is none of the players.
LEMMA IssuersAre == Players \subseteq Issuers /\ Console \in Issuers /\ Console \notin Players
  BY CommandsAssumption DEF Issuers

\* A dispatched line gives the sender a new job, or its failure to output.
LEMMA Entered ==
    ASSUME TypeOK, NEW i \in Issuers, NEW l \in Lines, Dispatch(i, l[1], l[2])
    PROVE  /\ pc' \in [Issuers -> Positions] /\ job' \in [Issuers -> Job]
           /\ issued' \in Nat
           /\ \A j \in Issuers \ {i} : pc'[j] = pc[j] /\ job'[j] = job[j]
           /\ \/ /\ pc'[i] = "run" /\ l[1] \in Commands /\ HasPermission(i, l[1])
                 /\ job'[i].cmd = l[1] /\ job'[i].lookups = 0 /\ job'[i].visible = "none"
              \/ pc'[i] = "output"
<1> DEFINE new == NewJob(l[1], l[2], Console)
<1>1. l[2] \in Names \cup {"none"}
  BY DEF Lines
<1>2. issued' \in Nat
  BY CommandsAssumption DEF Dispatch, Enter, TypeOK
<1>3. CASE l[1] \in Commands /\ HasPermission(i, l[1])
  <2>1. pc' = [pc EXCEPT ![i] = "run"] /\ job' = [job EXCEPT ![i] = new]
    BY <1>3 DEF Dispatch, Goto
  <2>2. new.cmd = l[1] /\ new.lookups = 0 /\ new.visible = "none"
    BY DEF NewJob
  <2>3. new \in Job
    BY <1>1, <1>3, IssuersAre, CommandsAssumption DEF NewJob, Job, Lists
  <2> HIDE DEF new
  <2> QED
    BY <1>2, <1>3, <2>1, <2>2, <2>3 DEF TypeOK, Positions
<1>4. CASE ~(l[1] \in Commands /\ HasPermission(i, l[1]))
  BY <1>2, <1>4 DEF Dispatch, Goto, TypeOK, Positions
<1> QED
  BY <1>3, <1>4

\* Behind is about sessions.
LEMMA BehindType == ASSUME NEW i PROVE Behind(i) \subseteq Players
  BY DEF Behind

\* Types are kept: a list ends with the last lookup.
LEMMA TypeStep ==
    ASSUME TypeOK, JobInv, [Next]_vars
    PROVE  TypeOK'
<1>1. ASSUME NEW i \in Issuers, runQuery(i) PROVE TypeOK'
  BY <1>1, CommandsAssumption, IssuersAre DEF runQuery, Goto, History, TypeOK, JobInv, NewJob, NoJob, Job, Positions, Lists, Commands, States
<1>2. ASSUME NEW i \in Issuers, playerByName(i) PROVE TypeOK'
  <2>1. CASE Goto(i, "output") /\ UNCHANGED job
    BY <1>2, <2>1 DEF playerByName, Goto, History, TypeOK, Positions
  <2>2. ASSUME NEW p \in Players, pc' = [pc EXCEPT ![i] = "set"],
               job' = [job EXCEPT ![i].target = p]
        PROVE  TypeOK'
    <3>1. job' \in [Issuers -> Job] /\ job'[i].target = p
      BY <2>2, IssuersAre DEF TypeOK, Job
    <3>2. \A j \in Issuers \ {i} : pc'[j] = pc[j] /\ job'[j] = job[j]
      BY <2>2 DEF TypeOK
    <3> QED
      BY <1>2, <2>2, <3>1, <3>2 DEF playerByName, History, TypeOK, Positions
  <2> QED
    BY <1>2, <2>1, <2>2 DEF playerByName, Goto
<1>3. ASSUME NEW i \in Issuers, setOperator(i) PROVE TypeOK'
  <2>1. job[i].target \in Players
    BY <1>3 DEF setOperator, TypeOK
  <2>2. operators' \in SUBSET Accounts
    BY <1>3, <2>1 DEF setOperator, TypeOK
  <2>3. crossed' \in SUBSET Players
    BY <1>3, BehindType DEF setOperator, TypeOK
  <2>4. granted' \in BOOLEAN
    BY <1>3 DEF setOperator, TypeOK
  <2> QED
    BY <1>3, <2>1, <2>2, <2>3, <2>4 DEF setOperator, Goto, TypeOK, Positions
<1>4. ASSUME NEW i \in Issuers, buildList(i) PROVE TypeOK'
  <2>1. job[i].lookups \in 0..Lookups /\ job[i].lookups < Lookups /\ job[i] \in Job
    BY <1>4 DEF buildList, TypeOK, JobInv, Job
  <2>2. \E v \in Lists : job' = [job EXCEPT ![i].lookups = @ + 1, ![i].visible = v]
    BY <1>4 DEF buildList, rights, Lists
  <2>n. job[i].lookups + 1 \in 0..Lookups
    BY <2>1, CommandsAssumption
  <2>3. job' \in [Issuers -> Job] /\ \A j \in Issuers : job'[j].target = job[j].target
    <3>1. PICK v \in Lists : job' = [job EXCEPT ![i].lookups = @ + 1, ![i].visible = v]
      BY <2>2
    <3> DEFINE counted == [job EXCEPT ![i].lookups = @ + 1]
    <3>2. counted \in [Issuers -> Job] /\ \A j \in Issuers : counted[j].target = job[j].target
      BY <2>1, <2>n DEF TypeOK, Job
    <3>3. job' = [counted EXCEPT ![i].visible = v]
      BY <3>1
    <3> HIDE DEF counted
    <3> QED
      BY <3>2, <3>3 DEF Job
  <2>4. pc' = pc \/ pc' = [pc EXCEPT ![i] = "write"]
    BY <1>4 DEF buildList, Goto
  <2> QED
    BY <1>4, <2>3, <2>4 DEF buildList, History, TypeOK, Positions
<1>5. ASSUME NEW i \in Issuers, writeList(i) PROVE TypeOK'
  <2>1. NoJob \in Job /\ job[i].visible \in Lists
    BY IssuersAre, CommandsAssumption DEF NewJob, NoJob, Job, Lists, TypeOK
  <2>2. job' = [job EXCEPT ![i] = NoJob]
        /\ UNCHANGED <<account, conn, operators, stoppers, issued, granted, crossed, late>>
    BY <1>5 DEF writeList, History
  <2>3. pc' \in [Issuers -> Positions] /\ state' \in [Players -> States]
    BY <1>5 DEF writeList, Goto, TypeOK, Positions, States
  <2>4. shown' \in [Players -> Lists]
    BY <1>5, <2>1 DEF writeList, TypeOK
  <2>5. pc'[i] \in {"idle", "ended", "output"} /\ \A j \in Issuers \ {i} : pc'[j] = pc[j]
    BY <1>5 DEF writeList, Goto, TypeOK
  <2>6. \A j \in Issuers : pc'[j] \in {"set", "list", "write"} => job'[j].target \in Players
    BY <2>2, <2>5 DEF TypeOK
  <2> QED
    BY <2>1, <2>2, <2>3, <2>4, <2>6 DEF TypeOK
<1>6. ASSUME NEW i \in Issuers, broadcastText(i) PROVE TypeOK'
  <2>1. NoJob \in Job
    BY IssuersAre, CommandsAssumption DEF NewJob, NoJob, Job, Lists
  <2>2. job' = [job EXCEPT ![i] = NoJob]
        /\ UNCHANGED <<account, operators, shown, stoppers, issued, granted, crossed, late>>
    BY <1>6 DEF broadcastText, History
  <2>3. \E position \in {"output", "shutdown", "ended", "idle"} : pc' = [pc EXCEPT ![i] = position]
    BY <1>6 DEF broadcastText, Goto
  <2>4. \/ UNCHANGED <<state, conn>>
        \/ state' = [state EXCEPT ![i] = "disconnected"] /\ conn' = [conn EXCEPT ![i] = "lost"]
    BY <1>6 DEF broadcastText
  <2> QED
    BY <2>1, <2>2, <2>3, <2>4 DEF TypeOK, Positions, States
<1>7. ASSUME NEW i \in Issuers, shutdown(i) PROVE TypeOK'
  BY <1>7, CommandsAssumption, IssuersAre DEF shutdown, Goto, History, TypeOK, JobInv, NewJob, NoJob, Job, Positions, Lists, Commands, States
<1>8. ASSUME NEW p \in Players, playerCommand(p) PROVE TypeOK'
  <2>1. PICK l \in Lines : Dispatch(p, l[1], l[2])
    BY <1>8 DEF playerCommand
  <2>2. UNCHANGED <<account, state, conn, operators, shown, stoppers, granted, crossed, late>>
    BY <1>8 DEF playerCommand, History
  <2> QED
    BY <2>1, <2>2, Entered, IssuersAre DEF TypeOK
<1>9. ASSUME NEW p \in Players, chat(p) PROVE TypeOK'
  BY <1>9, CommandsAssumption, IssuersAre DEF chat, Enter, Goto, History, TypeOK, JobInv, NewJob, NoJob, Job, Positions, Lists, Commands, States
<1>10. ASSUME NEW p \in Players, output(p) PROVE TypeOK'
  BY <1>10, CommandsAssumption, IssuersAre DEF output, Goto, History, TypeOK, JobInv, NewJob, NoJob, Job, Positions, Lists, Commands, States
<1>11. ASSUME NEW p \in Players, startGame(p) PROVE TypeOK'
  <2>1. NewJob("join", "none", p) \in Job /\ NewJob("join", "none", p).target = p
    BY IssuersAre, CommandsAssumption DEF NewJob, Job, Lists
  <2> QED
    BY <1>11, <2>1, IssuersAre DEF startGame, Goto, History, TypeOK, Positions, States
<1>12. ASSUME NEW p \in Players, spawn(p) PROVE TypeOK'
  BY <1>12, CommandsAssumption, IssuersAre DEF spawn, Goto, History, TypeOK, JobInv, NewJob, NoJob, Job, Positions, Lists, Commands, States
<1>13. ASSUME NEW p \in Players, connLost(p) PROVE TypeOK'
  BY <1>13, CommandsAssumption, IssuersAre DEF connLost, Goto, History, TypeOK, JobInv, NewJob, NoJob, Job, Positions, Lists, Commands, States
<1>14. ASSUME NEW p \in Players, leave(p) PROVE TypeOK'
  BY <1>14, CommandsAssumption, IssuersAre DEF leave, Goto, History, TypeOK, JobInv, NewJob, NoJob, Job, Positions, Lists, Commands, States
<1>15. CASE consoleCommand
  <2>1. PICK l \in Lines : Dispatch(Console, l[1], l[2])
    BY <1>15 DEF consoleCommand
  <2>2. UNCHANGED <<account, state, conn, operators, shown, stoppers, granted, crossed>> /\ late' \in {late, late + 1}
    BY <1>15 DEF consoleCommand, History
  <2> QED
    BY <2>1, <2>2, Entered, IssuersAre DEF TypeOK
<1>16. CASE consoleCloses
  BY <1>16, CommandsAssumption, IssuersAre DEF consoleCloses, Goto, History, TypeOK, JobInv, NewJob, NoJob, Job, Positions, Lists, Commands, States
<1>17. CASE consoleOutput
  BY <1>17, CommandsAssumption, IssuersAre DEF consoleOutput, Goto, History, TypeOK, JobInv, NewJob, NoJob, Job, Positions, Lists, Commands, States
<1>18. CASE UNCHANGED vars
  BY <1>18 DEF vars, TypeOK, JobInv, NewJob, NoJob, Job, Positions, Lists, Commands, States
<1> QED
  BY <1>1, <1>2, <1>3, <1>4, <1>5, <1>6, <1>7, <1>8, <1>9, <1>10, <1>11, <1>12, <1>13, <1>14, <1>15, <1>16, <1>17, <1>18 DEF Next, Step

\* A goroutine's job is kept while others change the table.
LEMMA JobStep ==
    ASSUME TypeOK, JobInv, [Next]_vars
    PROVE  JobInv'
<1>1. ASSUME NEW i \in Issuers, runQuery(i) PROVE JobInv'
  BY <1>1, CommandsAssumption, IssuersAre DEF runQuery, Goto, History, TypeOK, JobInv, inTable, NewJob, NoJob, Job, Positions, Lists, Commands, States
<1>2. ASSUME NEW i \in Issuers, playerByName(i) PROVE JobInv'
  BY <1>2, CommandsAssumption, IssuersAre DEF playerByName, Goto, History, TypeOK, JobInv, inTable, NewJob, NoJob, Job, Positions, Lists, Commands, States
<1>3. ASSUME NEW i \in Issuers, setOperator(i) PROVE JobInv'
  BY <1>3, CommandsAssumption, IssuersAre DEF setOperator, Goto, History, TypeOK, JobInv, inTable, NewJob, NoJob, Job, Positions, Lists, Commands, States
<1>4. ASSUME NEW i \in Issuers, buildList(i) PROVE JobInv'
  BY <1>4, CommandsAssumption, IssuersAre DEF buildList, Goto, History, TypeOK, JobInv, inTable, NewJob, NoJob, Job, Positions, Lists, Commands, States
<1>5. ASSUME NEW i \in Issuers, writeList(i) PROVE JobInv'
  BY <1>5, CommandsAssumption, IssuersAre DEF writeList, Goto, History, TypeOK, JobInv, inTable, NewJob, NoJob, Job, Positions, Lists, Commands, States
<1>6. ASSUME NEW i \in Issuers, broadcastText(i) PROVE JobInv'
  BY <1>6, CommandsAssumption, IssuersAre DEF broadcastText, Goto, History, TypeOK, JobInv, inTable, NewJob, NoJob, Job, Positions, Lists, Commands, States
<1>7. ASSUME NEW i \in Issuers, shutdown(i) PROVE JobInv'
  BY <1>7, CommandsAssumption, IssuersAre DEF shutdown, Goto, History, TypeOK, JobInv, inTable, NewJob, NoJob, Job, Positions, Lists, Commands, States
<1>8. ASSUME NEW p \in Players, playerCommand(p) PROVE JobInv'
  <2>1. PICK l \in Lines : Dispatch(p, l[1], l[2])
    BY <1>8 DEF playerCommand
  <2>2. UNCHANGED <<account, state, conn, operators, shown, stoppers, granted, crossed, late>>
    BY <1>8 DEF playerCommand, History
  <2> QED
    BY <2>1, <2>2, Entered, IssuersAre DEF JobInv, Commands
<1>9. ASSUME NEW p \in Players, chat(p) PROVE JobInv'
  BY <1>9, CommandsAssumption, IssuersAre DEF chat, Goto, History, TypeOK, JobInv, inTable, NewJob, NoJob, Job, Positions, Lists, Commands, States
<1>10. ASSUME NEW p \in Players, output(p) PROVE JobInv'
  BY <1>10, CommandsAssumption, IssuersAre DEF output, Goto, History, TypeOK, JobInv, inTable, NewJob, NoJob, Job, Positions, Lists, Commands, States
<1>11. ASSUME NEW p \in Players, startGame(p) PROVE JobInv'
  BY <1>11, CommandsAssumption, IssuersAre DEF startGame, Goto, History, TypeOK, JobInv, inTable, NewJob, NoJob, Job, Positions, Lists, Commands, States
<1>12. ASSUME NEW p \in Players, spawn(p) PROVE JobInv'
  BY <1>12, CommandsAssumption, IssuersAre DEF spawn, Goto, History, TypeOK, JobInv, inTable, NewJob, NoJob, Job, Positions, Lists, Commands, States
<1>13. ASSUME NEW p \in Players, connLost(p) PROVE JobInv'
  BY <1>13, CommandsAssumption, IssuersAre DEF connLost, Goto, History, TypeOK, JobInv, inTable, NewJob, NoJob, Job, Positions, Lists, Commands, States
<1>14. ASSUME NEW p \in Players, leave(p) PROVE JobInv'
  BY <1>14, CommandsAssumption, IssuersAre DEF leave, Goto, History, TypeOK, JobInv, inTable, NewJob, NoJob, Job, Positions, Lists, Commands, States
<1>15. CASE consoleCommand
  <2>1. PICK l \in Lines : Dispatch(Console, l[1], l[2])
    BY <1>15 DEF consoleCommand
  <2>2. UNCHANGED <<account, state, conn, operators, shown, stoppers, granted, crossed>> /\ late' \in {late, late + 1}
    BY <1>15 DEF consoleCommand, History
  <2> QED
    BY <2>1, <2>2, Entered, IssuersAre DEF JobInv, Commands
<1>16. CASE consoleCloses
  BY <1>16, CommandsAssumption, IssuersAre DEF consoleCloses, Goto, History, TypeOK, JobInv, inTable, NewJob, NoJob, Job, Positions, Lists, Commands, States
<1>17. CASE consoleOutput
  BY <1>17, CommandsAssumption, IssuersAre DEF consoleOutput, Goto, History, TypeOK, JobInv, inTable, NewJob, NoJob, Job, Positions, Lists, Commands, States
<1>18. CASE UNCHANGED vars
  BY <1>18 DEF vars, TypeOK, JobInv, inTable, NewJob, NoJob, Job, Positions, Lists, Commands, States
<1> QED
  BY <1>1, <1>2, <1>3, <1>4, <1>5, <1>6, <1>7, <1>8, <1>9, <1>10, <1>11, <1>12, <1>13, <1>14, <1>15, <1>16, <1>17, <1>18 DEF Next, Step

\* No step of a player takes a right that nobody gave it.
LEMMA PrivilegeStep ==
    ASSUME TypeOK, JobInv, PrivilegeInv, [Next]_vars
    PROVE  PrivilegeInv'
<1>1. ASSUME NEW i \in Issuers, runQuery(i) PROVE PrivilegeInv'
  BY <1>1, CommandsAssumption, IssuersAre DEF runQuery, Goto, History, TypeOK, JobInv, PrivilegeInv, NewJob, NoJob, Job
<1>2. ASSUME NEW i \in Issuers, playerByName(i) PROVE PrivilegeInv'
  BY <1>2, CommandsAssumption, IssuersAre DEF playerByName, Goto, History, TypeOK, JobInv, PrivilegeInv, NewJob, NoJob, Job
<1>3. ASSUME NEW i \in Issuers, setOperator(i) PROVE PrivilegeInv'
  <2>1. SUFFICES ASSUME ~granted' PROVE PrivilegeInv'
    BY DEF PrivilegeInv
  <2>2. ~granted /\ ~(i = Console /\ job[i].cmd = "op")
    BY <1>3, <2>1 DEF setOperator
  <2>3. i = Console
    BY <1>3, <2>2 DEF setOperator, PrivilegeInv, Issuers
  <2>4. job[i].cmd = "deop"
    BY <1>3, <2>2, <2>3 DEF setOperator, JobInv
  <2>5. operators' = {}
    BY <1>3, <2>2, <2>4 DEF setOperator, PrivilegeInv
  <2> QED
    BY <1>3, <2>2, <2>3, <2>5, IssuersAre DEF setOperator, Goto, TypeOK, PrivilegeInv
<1>4. ASSUME NEW i \in Issuers, buildList(i) PROVE PrivilegeInv'
  BY <1>4, CommandsAssumption, IssuersAre DEF buildList, Goto, History, TypeOK, JobInv, PrivilegeInv, NewJob, NoJob, Job
<1>5. ASSUME NEW i \in Issuers, writeList(i) PROVE PrivilegeInv'
  BY <1>5, CommandsAssumption, IssuersAre DEF writeList, Goto, History, TypeOK, JobInv, PrivilegeInv, NewJob, NoJob, Job
<1>6. ASSUME NEW i \in Issuers, broadcastText(i) PROVE PrivilegeInv'
  BY <1>6, CommandsAssumption, IssuersAre DEF broadcastText, Goto, History, TypeOK, JobInv, PrivilegeInv, NewJob, NoJob, Job
<1>7. ASSUME NEW i \in Issuers, shutdown(i) PROVE PrivilegeInv'
  <2>1. ~granted => i = Console
    BY <1>7 DEF shutdown, PrivilegeInv, Issuers
  <2>2. UNCHANGED <<granted, operators, job>> /\ stoppers' = stoppers \cup {i}
        /\ pc' = [pc EXCEPT ![i] = "output"]
    BY <1>7 DEF shutdown, Goto, History
  <2> QED
    BY <2>1, <2>2, IssuersAre DEF TypeOK, PrivilegeInv
<1>8. ASSUME NEW p \in Players, playerCommand(p) PROVE PrivilegeInv'
  <2>1. PICK l \in Lines : Dispatch(p, l[1], l[2])
    BY <1>8 DEF playerCommand
  <2>2. UNCHANGED <<account, state, conn, operators, shown, stoppers, granted, crossed, late>>
    BY <1>8 DEF playerCommand, History
  <2> QED
    BY <2>1, <2>2, Entered, IssuersAre DEF PrivilegeInv, HasPermission, hasPlayerPermission, defaultPlayerPermissions
<1>9. ASSUME NEW p \in Players, chat(p) PROVE PrivilegeInv'
  BY <1>9, CommandsAssumption, IssuersAre DEF chat, Goto, History, TypeOK, JobInv, PrivilegeInv, NewJob, NoJob, Job
<1>10. ASSUME NEW p \in Players, output(p) PROVE PrivilegeInv'
  BY <1>10, CommandsAssumption, IssuersAre DEF output, Goto, History, TypeOK, JobInv, PrivilegeInv, NewJob, NoJob, Job
<1>11. ASSUME NEW p \in Players, startGame(p) PROVE PrivilegeInv'
  BY <1>11, CommandsAssumption, IssuersAre DEF startGame, Goto, History, TypeOK, JobInv, PrivilegeInv, NewJob, NoJob, Job
<1>12. ASSUME NEW p \in Players, spawn(p) PROVE PrivilegeInv'
  BY <1>12, CommandsAssumption, IssuersAre DEF spawn, Goto, History, TypeOK, JobInv, PrivilegeInv, NewJob, NoJob, Job
<1>13. ASSUME NEW p \in Players, connLost(p) PROVE PrivilegeInv'
  BY <1>13, CommandsAssumption, IssuersAre DEF connLost, Goto, History, TypeOK, JobInv, PrivilegeInv, NewJob, NoJob, Job
<1>14. ASSUME NEW p \in Players, leave(p) PROVE PrivilegeInv'
  BY <1>14, CommandsAssumption, IssuersAre DEF leave, Goto, History, TypeOK, JobInv, PrivilegeInv, NewJob, NoJob, Job
<1>15. CASE consoleCommand
  BY <1>15, CommandsAssumption, IssuersAre DEF consoleCommand, Dispatch, Lines, Goto, History, TypeOK, JobInv, PrivilegeInv, NewJob, NoJob, Job
<1>16. CASE consoleCloses
  BY <1>16, CommandsAssumption, IssuersAre DEF consoleCloses, Goto, History, TypeOK, JobInv, PrivilegeInv, NewJob, NoJob, Job
<1>17. CASE consoleOutput
  BY <1>17, CommandsAssumption, IssuersAre DEF consoleOutput, Goto, History, TypeOK, JobInv, PrivilegeInv, NewJob, NoJob, Job
<1>18. CASE UNCHANGED vars
  BY <1>18 DEF vars, TypeOK, JobInv, PrivilegeInv, NewJob, NoJob, Job
<1> QED
  BY <1>1, <1>2, <1>3, <1>4, <1>5, <1>6, <1>7, <1>8, <1>9, <1>10, <1>11, <1>12, <1>13, <1>14, <1>15, <1>16, <1>17, <1>18 DEF Next, Step

\* The console comes back for another line only before the cancellation.
LEMMA ConsoleStep ==
    ASSUME TypeOK, JobInv, ConsoleInv, [Next]_vars
    PROVE  ConsoleInv'
<1>1. ASSUME NEW i \in Issuers, runQuery(i) PROVE ConsoleInv'
  BY <1>1, CommandsAssumption, IssuersAre DEF runQuery, Goto, History, TypeOK, JobInv, ConsoleInv, NewJob, NoJob, Job
<1>2. ASSUME NEW i \in Issuers, playerByName(i) PROVE ConsoleInv'
  BY <1>2, CommandsAssumption, IssuersAre DEF playerByName, Goto, History, TypeOK, JobInv, ConsoleInv, NewJob, NoJob, Job
<1>3. ASSUME NEW i \in Issuers, setOperator(i) PROVE ConsoleInv'
  BY <1>3, CommandsAssumption, IssuersAre DEF setOperator, Goto, History, TypeOK, JobInv, ConsoleInv, NewJob, NoJob, Job
<1>4. ASSUME NEW i \in Issuers, buildList(i) PROVE ConsoleInv'
  BY <1>4, CommandsAssumption, IssuersAre DEF buildList, Goto, History, TypeOK, JobInv, ConsoleInv, NewJob, NoJob, Job
<1>5. ASSUME NEW i \in Issuers, writeList(i) PROVE ConsoleInv'
  BY <1>5, CommandsAssumption, IssuersAre DEF writeList, Goto, History, TypeOK, JobInv, ConsoleInv, NewJob, NoJob, Job
<1>6. ASSUME NEW i \in Issuers, broadcastText(i) PROVE ConsoleInv'
  BY <1>6, CommandsAssumption, IssuersAre DEF broadcastText, Goto, History, TypeOK, JobInv, ConsoleInv, NewJob, NoJob, Job
<1>7. ASSUME NEW i \in Issuers, shutdown(i) PROVE ConsoleInv'
  BY <1>7, CommandsAssumption, IssuersAre DEF shutdown, Goto, History, TypeOK, JobInv, ConsoleInv, NewJob, NoJob, Job
<1>8. ASSUME NEW p \in Players, playerCommand(p) PROVE ConsoleInv'
  BY <1>8, CommandsAssumption, IssuersAre DEF playerCommand, Dispatch, Lines, Goto, History, TypeOK, JobInv, ConsoleInv, NewJob, NoJob, Job
<1>9. ASSUME NEW p \in Players, chat(p) PROVE ConsoleInv'
  BY <1>9, CommandsAssumption, IssuersAre DEF chat, Goto, History, TypeOK, JobInv, ConsoleInv, NewJob, NoJob, Job
<1>10. ASSUME NEW p \in Players, output(p) PROVE ConsoleInv'
  BY <1>10, CommandsAssumption, IssuersAre DEF output, Goto, History, TypeOK, JobInv, ConsoleInv, NewJob, NoJob, Job
<1>11. ASSUME NEW p \in Players, startGame(p) PROVE ConsoleInv'
  BY <1>11, CommandsAssumption, IssuersAre DEF startGame, Goto, History, TypeOK, JobInv, ConsoleInv, NewJob, NoJob, Job
<1>12. ASSUME NEW p \in Players, spawn(p) PROVE ConsoleInv'
  BY <1>12, CommandsAssumption, IssuersAre DEF spawn, Goto, History, TypeOK, JobInv, ConsoleInv, NewJob, NoJob, Job
<1>13. ASSUME NEW p \in Players, connLost(p) PROVE ConsoleInv'
  BY <1>13, CommandsAssumption, IssuersAre DEF connLost, Goto, History, TypeOK, JobInv, ConsoleInv, NewJob, NoJob, Job
<1>14. ASSUME NEW p \in Players, leave(p) PROVE ConsoleInv'
  BY <1>14, CommandsAssumption, IssuersAre DEF leave, Goto, History, TypeOK, JobInv, ConsoleInv, NewJob, NoJob, Job
<1>15. CASE consoleCommand
  BY <1>15, CommandsAssumption, IssuersAre DEF consoleCommand, Dispatch, Lines, Goto, History, TypeOK, JobInv, ConsoleInv, NewJob, NoJob, Job
<1>16. CASE consoleCloses
  BY <1>16, CommandsAssumption, IssuersAre DEF consoleCloses, Goto, History, TypeOK, JobInv, ConsoleInv, NewJob, NoJob, Job
<1>17. CASE consoleOutput
  BY <1>17, CommandsAssumption, IssuersAre DEF consoleOutput, Goto, History, TypeOK, JobInv, ConsoleInv, NewJob, NoJob, Job
<1>18. CASE UNCHANGED vars
  BY <1>18 DEF vars, TypeOK, JobInv, ConsoleInv, NewJob, NoJob, Job
<1> QED
  BY <1>1, <1>2, <1>3, <1>4, <1>5, <1>6, <1>7, <1>8, <1>9, <1>10, <1>11, <1>12, <1>13, <1>14, <1>15, <1>16, <1>17, <1>18 DEF Next, Step

\* Who leaves the lists, the rights and the table alone, or takes a session out
\* of it, leaves the lists as good as they were.
LEMMA ListFrame ==
    ASSUME ListsInv,
           UNCHANGED <<account, operators, shown, crossed>>,
           \A p \in Players : \/ state'[p] \in {state[p], "disconnected"}
                              \/ state[p] = "joined" /\ state'[p] = "spawned",
           \A p \in Players : conn'[p] \in {conn[p], "lost"},
           \A i \in Issuers : \/ pc'[i] = pc[i] /\ job'[i] = job[i]
                              \/ /\ pc[i] \notin {"list", "write"}
                                 /\ pc'[i] \notin {"list", "write"}
    PROVE  ListsInv'
<1> SUFFICES ASSUME NEW p \in Players \ crossed PROVE ListInv(p)'
  BY DEF ListsInv
<1>1. ListInv(p) /\ rights(p)' = rights(p) /\ shown'[p] = shown[p]
  BY DEF ListsInv, rights
<1>2. \A i \in Issuers : /\ Building(i, p)' <=> Building(i, p)
                         /\ Building(i, p) => pc'[i] = pc[i] /\ job'[i] = job[i]
  BY DEF Building
<1>3. inTable(p)' => inTable(p)
  BY DEF inTable
<1>4. state'[p] \in {"joined", "spawned"} => state[p] \in {"joined", "spawned"}
  OBVIOUS
<1>5. conn'[p] = "open" => conn[p] = "open"
  OBVIOUS
<1> QED
  BY <1>1, <1>2, <1>3, <1>4, <1>5 DEF ListInv

\* op, deop and startGame keep the lists of the sessions that nobody else is
\* updating at the same time.
LEMMA ListStep ==
    ASSUME TypeOK, JobInv, ListsInv, [Next]_vars
    PROVE  ListsInv'
<1>1. ASSUME NEW i \in Issuers, runQuery(i) PROVE ListsInv'
  BY <1>1, ListFrame, IssuersAre DEF runQuery, Goto, History, TypeOK
<1>2. ASSUME NEW i \in Issuers, playerByName(i) PROVE ListsInv'
  BY <1>2, ListFrame, IssuersAre DEF playerByName, Goto, History, TypeOK
<1>3. ASSUME NEW i \in Issuers, setOperator(i) PROVE ListsInv'
  <2> SUFFICES ASSUME NEW p \in Players \ crossed' PROVE ListInv(p)'
    BY DEF ListsInv
  <2> DEFINE t == job[i].target
  <2>1. pc[i] = "set" /\ pc' = [pc EXCEPT ![i] = "list"]
        /\ UNCHANGED <<account, state, conn, shown, job>>
    BY <1>3 DEF setOperator, Goto
  <2>2. t \in Players /\ job[i].visible = "none"
    BY <2>1 DEF JobInv
  <2>3. p \notin crossed /\ ListInv(p)
    BY <1>3 DEF setOperator, ListsInv
  <2>4. /\ pc'[i] = "list" /\ job'[i] = job[i]
        /\ \A j \in Issuers \ {i} : pc'[j] = pc[j] /\ job'[j] = job[j]
    BY <2>1 DEF TypeOK
  <2>5. \A j \in Issuers \ {i} : Building(j, p)' <=> Building(j, p)
    BY <2>4 DEF Building
  <2>6. ~Building(i, p)
    BY <2>1 DEF Building
  <2>7. inTable(p)' <=> inTable(p)
    BY <2>1 DEF inTable
  <2>8. CASE rights(p)' = rights(p)
    <3>1. Building(i, p)' => pc'[i] = "list" /\ job'[i].visible = "none"
      BY <2>2, <2>4
    <3> QED
      BY <2>1, <2>3, <2>4, <2>5, <2>6, <2>7, <2>8, <3>1 DEF ListInv
  <2>9. CASE rights(p)' # rights(p)
    <3>1. account[p] = account[t] /\ operators' # operators
      BY <1>3, <2>1, <2>9 DEF setOperator, rights
    <3>2. p \notin Behind(i)
      BY <1>3, <3>1 DEF setOperator
    <3>3. CASE inTable(p)
      <4>1. p = t /\ \A j \in Issuers \ {i} : ~Building(j, p)
        BY <3>1, <3>2, <3>3 DEF Behind, Building
      <4>2. Building(i, p)'
        BY <2>4, <4>1 DEF Building
      <4> QED
        BY <2>2, <2>4, <2>5, <4>1, <4>2 DEF ListInv
    <3>4. CASE ~inTable(p)
      BY <2>1, <2>7, <3>4 DEF ListInv, inTable
    <3> QED
      BY <3>3, <3>4
  <2> QED
    BY <2>8, <2>9
<1>4. ASSUME NEW i \in Issuers, buildList(i) PROVE ListsInv'
  <2> SUFFICES ASSUME NEW p \in Players \ crossed PROVE ListInv(p)'
    BY <1>4 DEF ListsInv, buildList, History
  <2> DEFINE found == rights(job[i].target)
  <2>1. /\ pc[i] = "list" /\ pc'[i] \in {"list", "write"}
        /\ \A j \in Issuers \ {i} : pc'[j] = pc[j] /\ job'[j] = job[j]
    BY <1>4 DEF buildList, Goto, TypeOK
  <2>2. /\ job'[i].target = job[i].target
        /\ job'[i].visible = IF job[i].visible \in {"none", found} THEN found ELSE "torn"
    <3> DEFINE counted == [job EXCEPT ![i].lookups = @ + 1]
    <3>1. job' = [counted EXCEPT ![i].visible = IF @ \in {"none", found} THEN found ELSE "torn"]
      BY <1>4 DEF buildList
    <3>2. counted \in [Issuers -> [cmd : Commands \cup {"none", "join", "chat"},
                                   name : Names \cup {"none"}, target : Issuers,
                                   lookups : Nat, visible : Lists]]
          /\ counted[i].target = job[i].target /\ counted[i].visible = job[i].visible
      BY DEF TypeOK, Job
    <3> HIDE DEF counted
    <3> QED
      BY <3>1, <3>2
  <2>3. UNCHANGED <<account, state, conn, operators, shown>>
    BY <1>4 DEF buildList
  <2>4. ListInv(p) /\ rights(p)' = rights(p) /\ (inTable(p)' <=> inTable(p))
    BY <2>3 DEF ListsInv, rights, inTable
  <2>5. \A j \in Issuers : Building(j, p)' <=> Building(j, p)
    BY <2>1, <2>2 DEF Building
  <2>6. inTable(p) /\ Building(i, p) => job'[i].visible = rights(p)
    <3>1. SUFFICES ASSUME inTable(p), Building(i, p) PROVE job'[i].visible = rights(p)
      OBVIOUS
    <3>2. found = rights(p) /\ job[i].visible \in {"none", rights(p)}
      BY <3>1, <2>4 DEF ListInv, Building
    <3> QED
      BY <2>2, <3>2
  <2> QED
    BY <2>1, <2>3, <2>4, <2>5, <2>6 DEF ListInv
<1>5. ASSUME NEW i \in Issuers, writeList(i) PROVE ListsInv'
  <2> SUFFICES ASSUME NEW p \in Players \ crossed PROVE ListInv(p)'
    BY <1>5 DEF ListsInv, writeList, History
  <2> DEFINE t == job[i].target
  <2>1. /\ pc[i] = "write" /\ pc'[i] \notin {"list", "write"}
        /\ \A j \in Issuers \ {i} : pc'[j] = pc[j] /\ job'[j] = job[j]
    BY <1>5 DEF writeList, Goto, TypeOK
  <2>2. t \in Players /\ (job[i].cmd = "join" => i \in Players /\ t = i /\ state[i] = "joining")
    BY <2>1 DEF JobInv
  <2>3. UNCHANGED <<account, conn, operators>>
    BY <1>5 DEF writeList
  <2>4. ListInv(p) /\ rights(p)' = rights(p)
    BY <2>3 DEF ListsInv, rights
  <2>5. /\ ~Building(i, p)'
        /\ \A j \in Issuers \ {i} : Building(j, p)' <=> Building(j, p)
    BY <2>1 DEF Building
  <2>6. CASE p # t
    <3>1. shown'[p] = shown[p]
      BY <1>5, <2>6 DEF writeList, TypeOK
    <3>2. state'[p] = state[p]
      BY <1>5, <2>2, <2>6 DEF writeList, TypeOK
    <3>3. ~Building(i, p)
      BY <2>6 DEF Building
    <3> QED
      BY <2>1, <2>3, <2>4, <2>5, <3>1, <3>2, <3>3 DEF ListInv, inTable
  <2>7. CASE p = t
    <3>1. Building(i, p)
      BY <2>1, <2>7 DEF Building
    <3>2. conn[p] = "open" => shown'[p] = job[i].visible
      BY <1>5, <2>7 DEF writeList, TypeOK
    <3>3. inTable(p)' => inTable(p)
      BY <1>5, <2>2, <2>7 DEF writeList, TypeOK, inTable
    <3>4. inTable(p) => job[i].visible = rights(p)
      BY <2>1, <2>4, <3>1 DEF ListInv
    <3>5. state'[p] \in {"joined", "spawned"} => inTable(p)'
      BY DEF inTable
    <3> QED
      BY <2>1, <2>3, <2>4, <2>5, <3>2, <3>3, <3>4, <3>5 DEF ListInv
  <2> QED
    BY <2>6, <2>7
<1>6. ASSUME NEW i \in Issuers, broadcastText(i) PROVE ListsInv'
  BY <1>6, ListFrame, IssuersAre DEF broadcastText, Goto, History, TypeOK
<1>7. ASSUME NEW i \in Issuers, shutdown(i) PROVE ListsInv'
  BY <1>7, ListFrame, IssuersAre DEF shutdown, Goto, History, TypeOK
<1>8. ASSUME NEW p \in Players, playerCommand(p) PROVE ListsInv'
  <2>1. PICK l \in Lines : Dispatch(p, l[1], l[2])
    BY <1>8 DEF playerCommand
  <2> QED
    BY <1>8, <2>1, Entered, ListFrame, IssuersAre DEF playerCommand, History
<1>9. ASSUME NEW p \in Players, chat(p) PROVE ListsInv'
  BY <1>9, ListFrame, IssuersAre DEF chat, Goto, History, TypeOK
<1>10. ASSUME NEW p \in Players, output(p) PROVE ListsInv'
  BY <1>10, ListFrame, IssuersAre DEF output, Goto, History, TypeOK
<1>11. ASSUME NEW p \in Players, startGame(p) PROVE ListsInv'
  <2> SUFFICES ASSUME NEW q \in Players \ crossed PROVE ListInv(q)'
    BY <1>11 DEF ListsInv, startGame, History
  <2>1. /\ pc[p] = "idle" /\ state[p] = "connecting"
        /\ UNCHANGED <<account, conn, operators, shown>>
    BY <1>11 DEF startGame
  <2>2. /\ pc'[p] = "list" /\ job'[p].target = p /\ job'[p].visible = "none"
        /\ \A j \in Issuers \ {p} : pc'[j] = pc[j] /\ job'[j] = job[j]
    BY <1>11, IssuersAre DEF startGame, Goto, TypeOK, NewJob
  <2>3. ListInv(q) /\ rights(q)' = rights(q)
    BY <2>1 DEF ListsInv, rights
  <2>4. \A j \in Issuers \ {p} : Building(j, q)' <=> Building(j, q)
    BY <2>2 DEF Building
  <2>5. CASE q = p
    <3>1. \A j \in Issuers : ~Building(j, p)
      BY <2>1 DEF JobInv, Building
    <3>2. Building(p, p)'
      BY <2>2 DEF Building
    <3> QED
      BY <2>2, <2>4, <2>5, <3>1, <3>2, IssuersAre DEF ListInv
  <2>6. CASE q # p
    <3>1. state'[q] = state[q] /\ (inTable(q)' <=> inTable(q))
      BY <1>11, <2>6 DEF startGame, TypeOK, inTable
    <3>2. ~Building(p, q)' /\ ~Building(p, q)
      BY <2>1, <2>2, <2>6 DEF Building
    <3> QED
      BY <2>1, <2>2, <2>3, <2>4, <3>1, <3>2, IssuersAre DEF ListInv
  <2> QED
    BY <2>5, <2>6
<1>12. ASSUME NEW p \in Players, spawn(p) PROVE ListsInv'
  BY <1>12, ListFrame, IssuersAre DEF spawn, Goto, History, TypeOK
<1>13. ASSUME NEW p \in Players, connLost(p) PROVE ListsInv'
  BY <1>13, ListFrame, IssuersAre DEF connLost, Goto, History, TypeOK
<1>14. ASSUME NEW p \in Players, leave(p) PROVE ListsInv'
  BY <1>14, ListFrame, IssuersAre DEF leave, Goto, History, TypeOK
<1>15. CASE consoleCommand
  <2>1. PICK l \in Lines : Dispatch(Console, l[1], l[2])
    BY <1>15 DEF consoleCommand
  <2> QED
    BY <1>15, <2>1, Entered, ListFrame, IssuersAre DEF consoleCommand, History
<1>16. CASE consoleCloses
  BY <1>16, ListFrame, IssuersAre DEF consoleCloses, Goto, History, TypeOK
<1>17. CASE consoleOutput
  BY <1>17, ListFrame, IssuersAre DEF consoleOutput, Goto, History, TypeOK
<1>18. CASE UNCHANGED vars
  BY <1>18, ListFrame DEF vars
<1> QED
  BY <1>1, <1>2, <1>3, <1>4, <1>5, <1>6, <1>7, <1>8, <1>9, <1>10, <1>11, <1>12, <1>13, <1>14, <1>15, <1>16, <1>17, <1>18 DEF Next, Step

\* The inductive invariant holds at first and after every step.
LEMMA Invariance == Spec => []Inv
<1>1. Init => Inv
  <2> SUFFICES ASSUME Init PROVE Inv
    OBVIOUS
  <2>1. TypeOK
    <3>1. NoJob \in Job
      BY IssuersAre, CommandsAssumption DEF NewJob, NoJob, Job, Lists
    <3>2. account \in [Players -> Accounts] /\ granted \in BOOLEAN
      BY CommandsAssumption DEF Init
    <3>3. issued \in Nat /\ late \in Nat
      BY CommandsAssumption DEF Init
    <3>4. \A i \in Issuers : pc[i] = "idle"
      BY DEF Init
    <3> QED
      BY <3>1, <3>2, <3>3, <3>4 DEF Init, TypeOK, States, Lists, Positions
  <2>2. JobInv /\ PrivilegeInv /\ ConsoleInv
    BY IssuersAre DEF Init, JobInv, PrivilegeInv, ConsoleInv
  <2>3. ListsInv
    BY DEF Init, ListsInv, ListInv, inTable
  <2> QED
    BY <2>1, <2>2, <2>3 DEF Inv
<1>2. Inv /\ [Next]_vars => Inv'
  BY TypeStep, JobStep, PrivilegeStep, ConsoleStep, ListStep DEF Inv
<1> QED
  BY <1>1, <1>2, PTL DEF Spec

\* Whatever players and the console enter, every variable has its type: no list
\* is looked up further than it is long, and op and deop always have a target.
THEOREM CommandTypes == Spec => []TypeOK
<1>1. Inv => TypeOK
  BY DEF Inv
<1> QED
  BY <1>1, Invariance, PTL

\* HasPermission, looked up once by Dispatch, is enough: no interleaving of
\* commands, joins and losses gives a player a right that the console did not.
THEOREM RightsComeFromConsole == Spec => []PrivilegeFromConsole
<1>1. Inv => PrivilegeFromConsole
  BY DEF Inv, PrivilegeInv, PrivilegeFromConsole
<1> QED
  BY <1>1, Invariance, PTL

\* runConsoleInput takes up at most one line after the context was cancelled.
THEOREM ConsoleGivesUp == Spec => []ConsoleStops
<1>1. Inv => ConsoleStops
  BY DEF Inv, TypeOK, ConsoleInv, ConsoleStops
<1> QED
  BY <1>1, Invariance, PTL

\* The AvailableCommands that op, deop and startGame send are those of the
\* player's rights, except for the sessions that an overlapping update or a
\* second session of the same account leaves behind.
THEOREM ListsAreCurrent == Spec => []ListsCurrent
<1>1. Inv => ListsCurrent
  BY DEF Inv, ListsInv, ListInv, Building, ListsCurrent
<1> QED
  BY <1>1, Invariance, PTL
=============================================================================
