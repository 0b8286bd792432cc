--------------------------- MODULE StartupProofs ---------------------------
(***************************************************************************)
(* However the forks of daemonize() go and whenever a signal comes, one      *)
(* process runs main(). The three processes go through it in turn: the       *)
(* second exists once the first is a parent that only exits, the third once  *)
(* the second is, and each is only ever in its part of main().               *)
(***************************************************************************)
EXTENDS Startup, TLAPS

Gone == {"parent", "exited", "killed"}

\* What main() does after daemonize().
Rest == {"lists", "key", "load", "loop", "sleep", "giveup", "shutdown"}

Turns ==
    /\ pc \in [Process -> Steps]
    /\ pc[1] \in {"args", "config", "signals", "abort", "detach"} \cup Rest \cup Gone
    /\ pc[2] \in {"none", "setsid", "fork2", "giveup"} \cup Gone
    /\ pc[3] \in {"none", "stdin", "stdout", "stderr"} \cup Rest \cup Gone
    /\ pc[2] # "none" => pc[1] \in Gone
    /\ pc[3] # "none" => pc[1] \in Gone /\ pc[2] \in Gone

\* Main() begins in the first process.
LEMMA TurnsInit == Init => Turns
  BY DEF Init, Turns, Process, Steps, Rest, Gone

\* Every step of a process in main().
LEMMA MainTurns == ASSUME Turns, NEW p \in Process, Main(p) PROVE Turns'
<1> USE DEF Process, Steps, Rest, Gone
<1>1. CASE readargs(p)
  BY <1>1 DEF readargs, Turns
<1>2. CASE usage(p)
  BY <1>2 DEF usage, Ends, Turns, Goto
<1>3. CASE log_init(p)
  BY <1>3 DEF log_init, Turns, Goto
<1>4. CASE parse_config_file(p)
  BY <1>4 DEF parse_config_file, Turns, Goto
<1>5. CASE setup_signals(p)
  BY <1>5 DEF setup_signals, Turns, Goto
<1>6. CASE Detach(p)
  BY <1>6 DEF Detach, ForkTo, Turns, Goto
<1>7. CASE Setsid(p)
  BY <1>7 DEF Setsid, Turns, Goto
<1>8. CASE Fork2(p)
  BY <1>8 DEF Fork2, ForkTo, Turns, Goto
<1>9. CASE ParentExits(p)
  BY <1>9 DEF ParentExits, Ends, Turns, Goto
<1>10. CASE Stdin(p) \/ Stdout(p) \/ Stderr(p)
  BY <1>10 DEF Stdin, Stdout, Stderr, Redirect, Turns, Goto
<1>11. CASE CheckLists(p)
  BY <1>11 DEF CheckLists, Turns, Goto
<1>12. CASE CheckKey(p)
  BY <1>12 DEF CheckKey, Turns, Goto
<1>13. CASE load_state(p)
  BY <1>13 DEF load_state, Turns, Goto
<1>14. CASE Pass(p)
  BY <1>14 DEF Pass, Turns, Goto
<1>15. CASE Wake(p) \/ LeaveLoop(p)
  BY <1>15 DEF Wake, LeaveLoop, Turns, Goto
<1>16. CASE shutdown_daemon(p)
  BY <1>16 DEF shutdown_daemon, Ends, Turns, Goto
<1> QED
  BY <1>1, <1>2, <1>3, <1>4, <1>5, <1>6, <1>7, <1>8, <1>9, <1>10, <1>11, <1>12, <1>13, <1>14,
     <1>15, <1>16 DEF Main

\* A signal kills the first process before it has caught it, and wakes a sleeping one.
LEMMA TerminateTurns == ASSUME Turns, NEW p \in Process, Terminate(p) PROVE Turns'
<1>1. CASE pc[p] \in {"args", "config", "signals", "abort"}
  BY <1>1 DEF Terminate, Ends, Goto, Turns, Process, Steps, Rest, Gone
<1>2. CASE pc[p] \notin {"args", "config", "signals", "abort"}
  BY <1>2 DEF Terminate, Turns, Process, Steps, Rest, Gone
<1> QED
  BY <1>1, <1>2

\* A message through syslog() moves no process on.
LEMMA MessageTurns == ASSUME Turns, NEW p \in Process, Message(p) PROVE Turns'
  BY DEF Message, Turns

LEMMA TurnsNext == Turns /\ [Next]_vars => Turns'
<1> SUFFICES ASSUME Turns, [Next]_vars PROVE Turns'
  OBVIOUS
<1>1. CASE UNCHANGED vars
  BY <1>1 DEF vars, Turns
<1> QED
  BY <1>1, MainTurns, MessageTurns, TerminateTurns DEF Next

\* No two processes go on after daemonize(), whichever of its calls fail and whenever signals come.
THEOREM OnlyOneDaemon == Spec => []OneDaemon
<1>1. Turns => OneDaemon
  BY DEF Turns, OneDaemon, Active, Process, Gone
<1> QED
  BY <1>1, TurnsInit, TurnsNext, PTL DEF Spec

-----------------------------------------------------------------------------
(* Types and descriptors.                                                  *)

\* What the C library may have done to a descriptor that was free when it opened its socket.
Socket(d) == IF opts.log # "syslog" THEN {}
             ELSE IF d = LogFile THEN {"closed", "syslog"} ELSE {"closed"}

\* What a descriptor is before it is redirected.
Opened(d) == IF d = gLogFP THEN {"log"}
             ELSE IF d \in env.std THEN {"tty"} ELSE {"closed"} \cup Socket(d)

Nulled(d) == IF d \in env.std THEN {"null"} ELSE {"null"} \cup Socket(d)

\* The standard descriptors that daemonize() has moved to /dev/null: those below this one.
Redirected(p) == IF p # 3 \/ pc[p] = "stdin" THEN 0
                 ELSE IF pc[p] = "stdout" THEN 1 ELSE IF pc[p] = "stderr" THEN 2 ELSE 3

Holds(p, d) == IF env.null /\ d < Redirected(p) THEN Nulled(d) ELSE Opened(d)

\* Every process that goes on has what was opened, but for what is redirected; log and socket are
\* none of the descriptors that were given. Only with --nodaemon does the first process reach the
\* loop.
Table ==
    /\ env \in [orphan : BOOLEAN, std : StdSets, null : BOOLEAN]
    /\ \A p \in Process : Active(p) =>
          \A d \in Descriptors : fds[p][d] \in Holds(p, d)
    /\ gLogFP \notin env.std /\ LogFile \notin env.std
    /\ pc[1] = "args" => gLogFP = -1 /\ LogFile = -1
    /\ gLogFP # -1 => opts.log = "file"
    /\ LogFile # -1 => opts.log = "syslog"
    /\ pc[1] \in Rest \ {"giveup"} => opts.nofork

IInv == Turns /\ TypeOK /\ Table

\* open() finds a descriptor: the program is started with three of seven at most.
LEMMA LowestFree ==
    ASSUME NEW S \in SUBSET Descriptors, 3 \in S
    PROVE  Min(S) \in S
<1>1. \E m \in S : \A x \in S : m <= x
  <2>1. CASE 0 \in S
    BY <2>1 DEF Descriptors
  <2>2. CASE 0 \notin S /\ 1 \in S
    BY <2>2 DEF Descriptors
  <2>3. CASE 0 \notin S /\ 1 \notin S /\ 2 \in S
    BY <2>3 DEF Descriptors
  <2>4. CASE 0 \notin S /\ 1 \notin S /\ 2 \notin S
    BY <2>4 DEF Descriptors
  <2> QED
    BY <2>1, <2>2, <2>3, <2>4
<1> QED
  BY <1>1 DEF Min

\* When a process goes on after daemonize(), the others are gone or were never forked.
LEMMA OthersRest ==
    ASSUME Turns, NEW p \in Process, Active(p), NEW q \in Process, q # p
    PROVE  pc[q] \in {"none"} \cup Gone
  BY DEF Turns, Active, Process, Gone

\* Before main() reads its options everything is as it was given.
LEMMA IInvInit == Init => IInv
<1> SUFFICES ASSUME Init PROVE IInv
  OBVIOUS
<1> USE DEF Init
<1>1. Turns
  BY TurnsInit
<1>2. TypeOK
  <2>1. args \in Seq(Options)
    BY StartupAssumption
  <2>2. /\ pc \in [Process -> Steps] /\ closing \in [Process -> BOOLEAN]
        /\ fds \in [Process -> [Descriptors -> {"closed", "tty", "log", "syslog", "null"}]]
    BY DEF Steps
  <2>3. 0 \in 0 .. MaxHistory
    BY StartupAssumption
  <2> QED
    BY <2>1, <2>2, <2>3 DEF TypeOK
<1>3. Table
  <2>1. \A d \in env.std : d # -1
    BY StartupAssumption
  <2>2. \A p \in Process : Active(p) => p = 1
    BY DEF Active, Process
  <2>3. \A d \in Descriptors : fds[1][d] \in Opened(d)
    BY DEF Opened, Process, Descriptors
  <2>4. Redirected(1) = 0 /\ pc[1] = "args"
    BY DEF Redirected, Process
  <2> QED
    BY <2>1, <2>2, <2>3, <2>4 DEF Table, Rest, Descriptors, Holds
<1> QED
  BY <1>1, <1>2, <1>3 DEF IInv

\* A step after which no process goes on that did not before, nor has other descriptors.
LEMMA TableKept ==
    ASSUME Table, UNCHANGED <<env, output>>,
           \A q \in Process : Active(q)' => /\ Active(q) /\ fds'[q] = fds[q]
                                          /\ Redirected(q)' = Redirected(q),
           pc'[1] = "args" => pc[1] = "args",
           pc'[1] \in Rest \ {"giveup"} => pc[1] \in Rest \ {"giveup"}
    PROVE  Table'
BY DEF Table, Holds, Opened, Nulled, Socket, output

\* Before the log is opened a descriptor is free.
LEMMA FreeAtArgs ==
    ASSUME IInv, pc[1] = "args"
    PROVE  Lowest(1) \in Descriptors /\ fds[1][Lowest(1)] = "closed"
<1> DEFINE free == { d \in Descriptors : fds[1][d] = "closed" }
<1>1. 3 \in free
  <2>1. 3 \notin env.std /\ 3 \in Descriptors /\ 3 # gLogFP /\ 3 # LogFile
    BY StartupAssumption DEF Table, Descriptors, IInv
  <2>2. fds[1][3] \in Opened(3)
    BY <2>1 DEF Table, IInv, Active, Redirected, Process, Holds
  <2> QED
    BY <2>1, <2>2 DEF Opened, Socket
<1>2. Lowest(1) \in free
  BY <1>1, LowestFree DEF Lowest, LowestOf
<1> QED
  BY <1>2

\* What one of its descriptors is while the program logs through syslog().
LEMMA UnderSyslog ==
    ASSUME IInv, NEW p \in Process, Message(p), NEW d \in Descriptors
    PROVE  /\ gLogFP = -1
           /\ d \in env.std => d # LogFile
           /\ d # LogFile => fds[p][d] \in Holds(p, d) \ {"syslog"}
           /\ "closed" \in Holds(p, d) <=> d \notin env.std
<1>1. Active(p) /\ opts.log = "syslog" /\ gLogFP = -1 /\ LogFile \notin env.std
  BY DEF Message, IInv, Table
<1>2. fds[p][d] \in Holds(p, d)
  BY <1>1 DEF IInv, Table
<1> QED
  BY <1>1, <1>2 DEF Holds, Opened, Nulled, Socket, Descriptors

\* The socket is closed, and moves to a descriptor that is free.
LEMMA SocketMoves ==
    ASSUME IInv, NEW p \in Process, Message(p)
    PROVE  /\ LowestOf(WithoutSocket(p)) \in Descriptors \ env.std
           /\ \A d \in Descriptors : WithoutSocket(p)[d] \in Holds(p, d) \ {"syslog"}
           /\ WithoutSocket(p) \in [Descriptors -> {"closed", "tty", "log", "syslog", "null"}]
<1> DEFINE table == WithoutSocket(p)
<1>1. /\ fds[p] \in [Descriptors -> {"closed", "tty", "log", "syslog", "null"}]
      /\ LogFile \in Descriptors \cup {-1}
  BY DEF IInv, TypeOK
<1>2. table = IF LogFile = -1 THEN fds[p] ELSE [fds[p] EXCEPT ![LogFile] = "closed"]
  BY DEF WithoutSocket
<1>3. \A d \in Descriptors : table[d] = IF d = LogFile THEN "closed" ELSE fds[p][d]
  BY <1>1, <1>2 DEF Descriptors
<1>4. table \in [Descriptors -> {"closed", "tty", "log", "syslog", "null"}]
  BY <1>1, <1>2
<1>5. \A d \in Descriptors : table[d] \in Holds(p, d) \ {"syslog"}
  <2> SUFFICES ASSUME NEW d \in Descriptors PROVE table[d] \in Holds(p, d) \ {"syslog"}
    OBVIOUS
  <2>1. CASE d = LogFile
    <3>1. table[d] = "closed" /\ d \notin env.std
      BY <1>3, <2>1, UnderSyslog
    <3> HIDE DEF table
    <3> QED
      BY <3>1, UnderSyslog
  <2>2. CASE d # LogFile
    <3>1. table[d] = fds[p][d]
      BY <1>3, <2>2
    <3> HIDE DEF table
    <3> QED
      BY <2>2, <3>1, UnderSyslog
  <2> QED
    BY <2>1, <2>2
<1>6. table[3] = "closed"
  <2>1. 3 \in Descriptors /\ 3 \notin env.std
    BY StartupAssumption DEF IInv, Table, Descriptors
  <2>2. gLogFP = -1 /\ opts.log = "syslog" /\ ~(3 < Redirected(p))
    <3>1. ~(3 < Redirected(p))
      BY DEF Redirected
    <3>2. gLogFP = -1
      BY <2>1, UnderSyslog
    <3> QED
      BY <3>1, <3>2 DEF Message
  <2>3. table[3] \in Opened(3) \ {"syslog"}
    BY <1>5, <2>1, <2>2 DEF Holds
  <2> QED
    BY <2>1, <2>2, <2>3 DEF Opened, Socket
<1>7. LowestOf(table) \in { d \in Descriptors : table[d] = "closed" }
  BY <1>6, LowestFree DEF LowestOf, Descriptors
<1>8. LowestOf(table) \in Descriptors \ env.std
  BY <1>5, <1>7, UnderSyslog
<1> QED
  BY <1>4, <1>5, <1>8

\* A message keeps the table: only what was free before is closed or the socket's.
LEMMA MessageTable ==
    ASSUME IInv, Turns', NEW p \in Process, Message(p)
    PROVE  Table'
<1>1. /\ Active(p) /\ opts.log = "syslog" /\ pc[1] # "args" /\ gLogFP = -1
      /\ UNCHANGED <<pc, env, opts, gLogFP>>
  BY DEF Message, Turns, IInv, Table, Process, Active, Gone
<1>2. \A q \in Process : Active(q) => q = p
  BY <1>1, OthersRest DEF IInv, Active, Gone
<1>3. PICK d \in {LowestOf(WithoutSocket(p)), -1} :
         /\ LogFile' = d
         /\ fds' = [fds EXCEPT ![p] = IF d = -1 THEN WithoutSocket(p)
                                     ELSE [WithoutSocket(p) EXCEPT ![d] = "syslog"]]
  BY DEF Message
<1>4. d \notin env.std
  BY <1>3, SocketMoves, StartupAssumption DEF IInv, Table
<1>5. \A e \in Descriptors : fds'[p][e] = IF e = d THEN "syslog" ELSE WithoutSocket(p)[e]
  BY <1>3, SocketMoves DEF IInv, TypeOK, Descriptors
<1>6. \A e \in Descriptors : Holds(p, e) \ {"syslog"} \subseteq Holds(p, e)'
  BY <1>1 DEF Holds, Opened, Nulled, Socket, Redirected
<1>7. d \in Descriptors => "syslog" \in Holds(p, d)'
  BY <1>1, <1>3, <1>4 DEF Holds, Opened, Nulled, Socket, Descriptors
<1>8. \A e \in Descriptors : fds'[p][e] \in Holds(p, e)'
  BY <1>5, <1>6, <1>7, SocketMoves
<1> QED
  BY <1>1, <1>2, <1>3, <1>4, <1>8 DEF Table, Active, IInv

\* Every step in main() keeps the table.
LEMMA MainTable ==
    ASSUME IInv, Turns', NEW p \in Process, Main(p)
    PROVE  Table'
<1> USE DEF IInv, Process
<1>1. CASE readargs(p)
  <2>1. p = 1 /\ pc[1] = "args" /\ UNCHANGED <<pc, fds, gLogFP, LogFile, env>>
    BY <1>1 DEF readargs, Turns, Rest, Gone
  <2>2. gLogFP = -1 /\ LogFile = -1 /\ Redirected(1) = 0
    BY <2>1 DEF Table, Redirected
  <2>3. \A q \in Process : Active(q) => q = 1
    BY <2>1 DEF Turns, Active, Gone
  <2>4. \A d \in Descriptors : fds[1][d] = IF d \in env.std THEN "tty" ELSE "closed"
    BY <2>1, <2>2 DEF Table, Holds, Opened, Socket, Active, Descriptors
  <2>5. \A d \in Descriptors : fds'[1][d] \in Holds(1, d)'
    BY <2>1, <2>2, <2>4 DEF Holds, Opened, Socket, Redirected, Descriptors
  <2> QED
    BY <2>1, <2>2, <2>3, <2>5 DEF Table, Active, Rest
<1>2. CASE usage(p) \/ ParentExits(p) \/ shutdown_daemon(p)
  <2>1. /\ UNCHANGED <<env, output>>
        /\ pc' = [pc EXCEPT ![p] = "exited"] /\ fds' = [fds EXCEPT ![p] = Closed]
    BY <1>2 DEF usage, ParentExits, shutdown_daemon, Ends, Goto, output
  <2>2. \A q \in Process : Active(q)' => q # p /\ Active(q) /\ pc'[q] = pc[q] /\ fds'[q] = fds[q]
    BY <2>1 DEF Turns, TypeOK, Active
  <2> QED
    BY <2>1, <2>2, TableKept DEF Redirected, Turns, Rest
<1>3. CASE log_init(p)
  <2>1. /\ p = 1 /\ pc[1] = "args" /\ pc' = [pc EXCEPT ![1] = "config"]
        /\ UNCHANGED <<env, opts>> /\ gLogFP = -1 /\ LogFile = -1
    <3>1. pc[p] = "args" /\ pc' = [pc EXCEPT ![p] = "config"] /\ UNCHANGED <<env, opts>>
      BY <1>3 DEF log_init, Goto
    <3>2. p = 1
      BY <3>1 DEF Turns, Rest, Gone
    <3> QED
      BY <3>1, <3>2 DEF Table
  <2>2. \A d \in Descriptors : fds[1][d] = IF d \in env.std THEN "tty" ELSE "closed"
    BY <2>1 DEF Table, Active, Redirected, Descriptors, Holds, Opened, Socket
  <2>3. \A q \in Process : Active(q)' => q = 1
    BY <2>1 DEF Turns, Active, Gone
  <2>4. Redirected(1)' = 0 /\ pc'[1] = "config"
    BY <2>1 DEF Redirected, Turns
  <2>5. CASE UNCHANGED <<gLogFP, LogFile, fds>>
    <3>1. \A d \in Descriptors : fds'[1][d] \in Holds(1, d)'
      BY <2>1, <2>2, <2>4, <2>5 DEF Holds, Opened, Socket, Descriptors
    <3>2. gLogFP' = -1 /\ LogFile' = -1 /\ -1 \notin env'.std
      BY <2>1, <2>5 DEF Table
    <3> QED
      BY <2>1, <2>3, <2>4, <3>1, <3>2 DEF Table, Rest
  <2>6. ASSUME NEW kind \in {"log", "syslog"}, fds' = [fds EXCEPT ![1][Lowest(1)] = kind],
               \/ kind = "log" /\ opts.log = "file" /\ gLogFP' = Lowest(1) /\ LogFile' = LogFile
               \/ kind = "syslog" /\ opts.log = "syslog" /\ LogFile' = Lowest(1)
                  /\ gLogFP' = gLogFP
        PROVE  Table'
    <3>1. PICK low : low = Lowest(1)
      OBVIOUS
    <3>2. low \in Descriptors /\ fds[1][low] = "closed"
      BY <2>1, <3>1, FreeAtArgs DEF Active
    <3>3. low \notin env.std /\ low # -1
      BY <2>2, <3>2 DEF Descriptors
    <3>4. \A d \in Descriptors : fds'[1][d] = IF d = low THEN kind ELSE fds[1][d]
      BY <2>6, <3>1, <3>2 DEF TypeOK
    <3>5. \A d \in Descriptors : fds'[1][d] \in Holds(1, d)'
      BY <2>1, <2>2, <2>4, <2>6, <3>1, <3>3, <3>4 DEF Holds, Opened, Socket, Descriptors
    <3>6. /\ gLogFP' \notin env.std /\ LogFile' \notin env.std
          /\ gLogFP' # -1 => opts.log = "file"
          /\ LogFile' # -1 => opts.log = "syslog"
      BY <2>1, <2>6, <3>1, <3>3 DEF Table
    <3> QED
      BY <2>1, <2>3, <2>4, <3>5, <3>6 DEF Table, Rest
  <2> QED
    BY <1>3, <2>1, <2>5, <2>6 DEF log_init
<1>4. CASE parse_config_file(p) \/ setup_signals(p)
  <2>1. /\ p = 1 /\ UNCHANGED <<env, output, fds>> /\ Active(1)
        /\ \A q \in Process : q # 1 => pc'[q] = pc[q]
        /\ pc'[1] \in {"signals", "abort", "detach"} \/ (pc'[1] = "lists" /\ opts.nofork)
    BY <1>4 DEF parse_config_file, setup_signals, Goto, output, Turns, Rest, Gone, Active
  <2>2. \A q \in Process : Redirected(q)' = Redirected(q)
    BY <2>1 DEF Redirected
  <2>3. \A q \in Process, d \in Descriptors : Holds(q, d)' = Holds(q, d)
    BY <2>1, <2>2 DEF Holds, Opened, Nulled, Socket, output
  <2>4. \A q \in Process : Active(q)' => Active(q)
    BY <2>1 DEF Active
  <2>5. \A q \in Process : Active(q)' => \A d \in Descriptors : fds'[q][d] \in Holds(q, d)'
    BY <2>1, <2>3, <2>4 DEF Table
  <2>6. pc'[1] # "args" /\ (pc'[1] \in Rest \ {"giveup"} => opts.nofork)
    BY <2>1 DEF Rest
  <2> QED
    BY <2>1, <2>5, <2>6 DEF Table, output
<1>5. CASE Setsid(p)
  <2>1. /\ p = 2 /\ UNCHANGED <<env, output, fds>> /\ Active(2)
        /\ \A q \in Process : q # 2 => pc'[q] = pc[q]
    BY <1>5 DEF Setsid, Goto, output, Turns, Rest, Gone, Active
  <2> QED
    BY <2>1, TableKept DEF Active, Redirected
<1>6. CASE Detach(p) \/ Fork2(p)
  <2>1. /\ p # 3 /\ Active(p) /\ UNCHANGED <<env, output>>
        /\ pc[p] \in {"detach", "fork2"}
    BY <1>6 DEF Detach, Fork2, ForkTo, Goto, output, Turns, Rest, Gone, Active
  <2>2. CASE pc' = [pc EXCEPT ![p] = "giveup"] /\ UNCHANGED fds
    BY <2>1, <2>2, TableKept DEF Active, Redirected, Turns, Rest
  <2>3. CASE /\ pc' = [pc EXCEPT ![p] = "parent", ![p + 1] = IF p = 1 THEN "setsid" ELSE "stdin"]
             /\ fds' = [fds EXCEPT ![p + 1] = fds[p]]
    <3>1. \A q \in Process : Active(q)' => q = p + 1
      BY <2>1, <2>3, OthersRest DEF Turns, Active, Gone
    <3>2. p + 1 \in Process /\ fds'[p + 1] = fds[p] /\ Redirected(p) = 0 /\ Redirected(p + 1)' = 0
      BY <2>1, <2>3 DEF Redirected, Turns, TypeOK
    <3>3. pc'[1] \notin Rest /\ pc'[1] # "args"
      BY <2>1, <2>3 DEF Turns, Rest, Gone
    <3> QED
      BY <2>1, <3>1, <3>2, <3>3, SMTT(60) DEF Table, Holds, Opened, Nulled, Socket, output
  <2> QED
    BY <1>6, <2>1, <2>2, <2>3 DEF Detach, Fork2, ForkTo, Goto, Turns, Rest, Gone
<1>7. ASSUME NEW d \in 0 .. 2, NEW from, NEW to, Redirect(p, d, from, to),
             d = 0 => from = "stdin" /\ to = "stdout",
             d = 1 => from = "stdout" /\ to = "stderr",
             d = 2 => from = "stderr" /\ to = "lists"
      PROVE  Table'
  <2>1. /\ p = 3 /\ Active(3) /\ UNCHANGED <<env, output>>
        /\ pc[3] = from /\ pc' = [pc EXCEPT ![3] = to]
        /\ fds' = [fds EXCEPT ![3] = NullAt(3, d)]
    <3>1. /\ pc[p] = from /\ pc' = [pc EXCEPT ![p] = to] /\ UNCHANGED <<env, output>>
          /\ fds' = [fds EXCEPT ![p] = NullAt(p, d)]
      BY <1>7 DEF Redirect, Goto
    <3>2. from \in {"stdin", "stdout", "stderr"}
      BY <1>7
    <3>3. p = 3
      BY <3>1, <3>2 DEF Turns, Rest, Gone
    <3> QED
      BY <3>1, <3>2, <3>3 DEF Active
  <2>2. Redirected(3) = d /\ Redirected(3)' = d + 1
    BY <1>7, <2>1 DEF Redirected, Turns
  <2>3. \A q \in Process : Active(q)' => q = 3
    BY <2>1, OthersRest DEF Turns, Active, Gone
  <2>4. \A e \in Descriptors : fds'[3][e] = IF env.null /\ e = d THEN "null" ELSE fds[3][e]
    BY <1>7, <2>1 DEF NullAt, TypeOK, Descriptors
  <2>5. \A e \in Descriptors : fds'[3][e] \in Holds(3, e)'
    BY <2>1, <2>2, <2>4 DEF Table, Descriptors, Holds, Opened, Nulled, Socket, output
  <2>6. pc'[1] = pc[1]
    BY <2>1 DEF Turns
  <2> QED
    BY <2>1, <2>3, <2>5, <2>6 DEF Table, output
<1>8. CASE Stdin(p) \/ Stdout(p) \/ Stderr(p)
  BY <1>7, <1>8 DEF Stdin, Stdout, Stderr
<1>9. CASE CheckLists(p) \/ CheckKey(p) \/ load_state(p) \/ Pass(p) \/ Wake(p) \/ LeaveLoop(p)
  <2>1. /\ Active(p) /\ UNCHANGED <<env, output, fds>> /\ p # 2
        /\ pc[p] \in Rest \ {"giveup"} /\ pc'[p] \in Rest
        /\ \A q \in Process : q # p => pc'[q] = pc[q]
    BY <1>9 DEF CheckLists, CheckKey, load_state, Pass, Wake, LeaveLoop, Goto, Turns, Rest,
                Gone, Active
  <2>2. \A q \in Process : Redirected(q)' = Redirected(q)
    BY <2>1 DEF Redirected, Rest
  <2> QED
    BY <2>1, <2>2, TableKept DEF Active, Rest
<1> QED
  BY <1>1, <1>2, <1>3, <1>4, <1>5, <1>6, <1>8, <1>9 DEF Main

\* A signal that kills takes the descriptors away, any other leaves them.
LEMMA TerminateTable ==
    ASSUME IInv, Turns', NEW p \in Process, Terminate(p)
    PROVE  Table'
<1> USE DEF IInv, Process
<1>1. CASE pc[p] \in {"args", "config", "signals", "abort"}
  <2>1. /\ UNCHANGED <<env, output>>
        /\ pc' = [pc EXCEPT ![p] = "killed"] /\ fds' = [fds EXCEPT ![p] = Closed]
    BY <1>1 DEF Terminate, Ends, Goto, output
  <2>2. \A q \in Process : Active(q)' => q # p /\ Active(q) /\ pc'[q] = pc[q] /\ fds'[q] = fds[q]
    BY <2>1 DEF Turns, TypeOK, Active
  <2> QED
    BY <2>1, <2>2, TableKept DEF Redirected, Turns, Rest
<1>2. CASE pc[p] \notin {"args", "config", "signals", "abort"}
  <2>1. /\ UNCHANGED <<env, output, fds>>
        /\ pc' = IF pc[p] = "sleep" THEN [pc EXCEPT ![p] = "loop"] ELSE pc
    BY <1>2 DEF Terminate, output
  <2>2. \A q \in Process : pc'[q] = pc[q] \/ (pc[q] = "sleep" /\ pc'[q] = "loop")
    BY <2>1 DEF Turns
  <2> QED
    BY <2>1, <2>2, TableKept DEF Redirected, Active, Rest
<1> QED
  BY <1>1, <1>2

OptsType == [log : {"stderr", "file", "syslog"}, nofork : BOOLEAN, once : BOOLEAN,
             match_only : BOOLEAN]

\* Every option but -h leaves options.
LEMMA OptionTyped ==
    ASSUME NEW o \in Options \ {"help"}, opts \in OptsType
    PROVE  OptionSet(o) \in OptsType
<1> USE DEF OptsType
<1>1. CASE o = "verbose"
  BY <1>1 DEF OptionSet
<1>2. CASE o = "nodaemon"
  BY <1>2 DEF OptionSet
<1>3. CASE o \in {"logfile", "syslog"}
  BY <1>3 DEF OptionSet
<1>4. CASE o = "xml"
  BY <1>4 DEF OptionSet
<1>5. CASE o = "once"
  BY <1>5 DEF OptionSet
<1>6. CASE o = "match-only"
  BY <1>6 DEF OptionSet
<1> QED
  BY <1>1, <1>2, <1>3, <1>4, <1>5, <1>6 DEF Options

\* A save leaves no more than it was to write, or what was there.
LEMMA SaveTyped ==
    ASSUME NEW n \in 0 .. MaxHistory, statefile \in 0 .. MaxHistory, cut \in BOOLEAN, save_state(n)
    PROVE  statefile' \in 0 .. MaxHistory /\ cut' \in BOOLEAN
<1>1. CASE UNCHANGED <<statefile, cut>>
  BY <1>1
<1>2. CASE statefile' = n /\ cut' = FALSE
  BY <1>2
<1>3. CASE statefile' \in 0 .. n /\ cut' = TRUE
  <2>1. statefile' \in 0 .. MaxHistory
    BY <1>3, StartupAssumption
  <2> QED
    BY <1>3, <2>1
<1> QED
  BY <1>1, <1>2, <1>3 DEF save_state

\* Every step keeps the types.
LEMMA TypeStep == IInv /\ [Next]_vars => TypeOK'
<1> SUFFICES ASSUME IInv, [Next]_vars PROVE TypeOK'
  OBVIOUS
<1> DEFINE Values == {"closed", "tty", "log", "syslog", "null"}
<1>0. Turns' /\ TypeOK
  BY TurnsNext DEF IInv
<1>1. CASE UNCHANGED vars
  BY <1>0, <1>1 DEF vars, TypeOK, output, key, store
<1>2. ASSUME NEW p \in Process, Main(p) \/ Terminate(p)
      PROVE  closing' \in [Process -> BOOLEAN] /\ told' \in BOOLEAN
  BY <1>0, <1>2, ZenonT(30) DEF Main, Terminate, Ends, Goto, readargs, usage, log_init, parse_config_file,
       setup_signals, Detach, Setsid, Fork2, ForkTo, ParentExits, Stdin, Stdout, Stderr, Redirect,
       CheckLists, CheckKey, load_state, Pass, Wake, LeaveLoop, shutdown_daemon, TypeOK, Process
<1>3. ASSUME NEW p \in Process, Main(p) \/ Terminate(p)
      PROVE  fds' \in [Process -> [Descriptors -> Values]]
  <2>1. UNCHANGED fds \/ fds' = [fds EXCEPT ![p + 1] = fds[p]]
        \/ fds' = [fds EXCEPT ![p] = Closed]
        \/ (\E d \in 0 .. 2 : fds' = [fds EXCEPT ![p] = NullAt(p, d)])
        \/ (\E kind \in {"log", "syslog"} : fds' = [fds EXCEPT ![p][Lowest(p)] = kind])
    <3>1. CASE Terminate(p) \/ usage(p) \/ ParentExits(p) \/ shutdown_daemon(p)
      BY <3>1 DEF Terminate, Ends, usage, ParentExits, shutdown_daemon
    <3>2. CASE Detach(p) \/ Setsid(p) \/ Fork2(p)
      BY <3>2 DEF Detach, Setsid, Fork2, ForkTo
    <3>3. CASE Stdin(p) \/ Stdout(p) \/ Stderr(p)
      BY <3>3 DEF Stdin, Stdout, Stderr, Redirect
    <3>4. CASE \/ readargs(p) \/ log_init(p) \/ parse_config_file(p) \/ setup_signals(p)
               \/ CheckLists(p) \/ CheckKey(p) \/ load_state(p) \/ Pass(p) \/ Wake(p) \/ LeaveLoop(p)
      BY <3>4 DEF readargs, log_init, parse_config_file, setup_signals, CheckLists, CheckKey,
         load_state, Pass, Wake, LeaveLoop
    <3> QED
      BY <1>3, <3>1, <3>2, <3>3, <3>4 DEF Main
  <2>2. fds \in [Process -> [Descriptors -> Values]]
    BY <1>0 DEF TypeOK
  <2>3. Closed \in [Descriptors -> Values]
    BY DEF Closed
  <2>4. \A d \in 0 .. 2 : NullAt(p, d) \in [Descriptors -> Values]
    BY <2>2 DEF NullAt
  <2> QED
    BY <2>1, <2>2, <2>3, <2>4
<1>4. ASSUME NEW p \in Process, Main(p) \/ Terminate(p)
      PROVE  /\ args' \in Seq(Options)
             /\ opts' \in [log : {"stderr", "file", "syslog"}, nofork : BOOLEAN, once : BOOLEAN,
                           match_only : BOOLEAN]
  <2>1. UNCHANGED <<args, opts>> \/ readargs(p)
    BY <1>4 DEF Main, Terminate, usage, log_init, parse_config_file, output,
       setup_signals, Detach, Setsid, Fork2, ForkTo, ParentExits, Stdin, Stdout, Stderr, Redirect,
       CheckLists, CheckKey, load_state, Pass, Wake, LeaveLoop, shutdown_daemon
  <2>2. CASE readargs(p)
    <3>1. args # <<>> /\ args' = Tail(args) /\ opts' = OptionSet(Head(args))
      BY <2>2 DEF readargs
    <3>2. Head(args) \in Options /\ Tail(args) \in Seq(Options)
      BY <1>0, <3>1 DEF TypeOK
    <3>3. opts' \in OptsType
      BY <1>0, <3>1, <3>2, OptionTyped, <2>2 DEF TypeOK, readargs, OptsType
    <3> QED
      BY <3>1, <3>2, <3>3 DEF OptsType
  <2> QED
    BY <1>0, <2>1, <2>2 DEF TypeOK
<1>5. ASSUME NEW p \in Process, Main(p) \/ Terminate(p)
      PROVE  gLogFP' \in Descriptors \cup {-1} /\ LogFile' \in Descriptors \cup {-1}
  <2>1. UNCHANGED <<gLogFP, LogFile>> \/ log_init(p)
    BY <1>5 DEF Main, Terminate, readargs, usage, parse_config_file, output,
       setup_signals, Detach, Setsid, Fork2, ForkTo, ParentExits, Stdin, Stdout, Stderr, Redirect,
       CheckLists, CheckKey, load_state, Pass, Wake, LeaveLoop, shutdown_daemon
  <2>2. CASE log_init(p)
    <3>1. p = 1 /\ pc[1] = "args"
      BY <2>2 DEF log_init, Goto, Turns, Rest, Gone, Process, IInv
    <3>2. Lowest(p) \in Descriptors
      BY <3>1, FreeAtArgs
    <3> QED
      BY <1>0, <2>2, <3>2 DEF log_init, TypeOK
  <2> QED
    BY <1>0, <2>1, <2>2 DEF TypeOK
<1>6. ASSUME NEW p \in Process, Main(p) \/ Terminate(p)
      PROVE  /\ session' \in [feeds : BOOLEAN, filters : BOOLEAN, prowl_key : BOOLEAN]
             /\ prowl_key_valid' \in {0, 1} /\ verified' \in BOOLEAN
  BY <1>0, <1>6 DEF Main, Terminate, readargs, usage, log_init, parse_config_file, key,
       setup_signals, Detach, Setsid, Fork2, ForkTo, ParentExits, Stdin, Stdout, Stderr, Redirect,
       CheckLists, CheckKey, load_state, Pass, Wake, LeaveLoop, shutdown_daemon, TypeOK
<1>7. ASSUME NEW p \in Process, Main(p) \/ Terminate(p)
      PROVE  /\ downloads' \in 0 .. MaxHistory /\ bucket_changed' \in BOOLEAN
             /\ statefile' \in 0 .. MaxHistory /\ unread' \in BOOLEAN /\ cut' \in BOOLEAN
  <2>1. UNCHANGED store \/ load_state(p) \/ Pass(p) \/ shutdown_daemon(p)
    BY <1>7 DEF Main, Terminate, readargs, usage, log_init, parse_config_file,
       setup_signals, Detach, Setsid, Fork2, ForkTo, ParentExits, Stdin, Stdout, Stderr, Redirect,
       CheckLists, CheckKey, Wake, LeaveLoop
  <2>2. CASE UNCHANGED store
    BY <1>0, <2>2 DEF store, TypeOK
  <2>3. CASE load_state(p)
    BY <1>0, <2>3 DEF load_state, TypeOK
  <2>4. CASE Pass(p) /\ ~ UNCHANGED store
    <3>1. /\ downloads < MaxHistory /\ downloads' = downloads + 1 /\ bucket_changed' = TRUE
          /\ save_state(downloads + 1) /\ UNCHANGED unread
      BY <2>4 DEF Pass
    <3>2. downloads' \in 0 .. MaxHistory
      BY <1>0, <3>1, StartupAssumption DEF TypeOK
    <3>3. statefile' \in 0 .. MaxHistory /\ cut' \in BOOLEAN
      BY <1>0, <3>1, <3>2, SaveTyped DEF TypeOK
    <3> QED
      BY <1>0, <3>1, <3>2, <3>3 DEF TypeOK
  <2>5. CASE shutdown_daemon(p)
    <3>1. UNCHANGED <<downloads, bucket_changed, unread>>
      BY <2>5 DEF shutdown_daemon
    <3>2. UNCHANGED <<statefile, cut>> \/ save_state(downloads)
      BY <2>5 DEF shutdown_daemon
    <3>3. statefile' \in 0 .. MaxHistory /\ cut' \in BOOLEAN
      BY <1>0, <3>2, SaveTyped DEF TypeOK
    <3> QED
      BY <1>0, <3>1, <3>3 DEF TypeOK
  <2> QED
    BY <2>1, <2>2, <2>3, <2>4, <2>5
<1>8. ASSUME NEW p \in Process, Main(p) \/ Terminate(p) PROVE TypeOK'
  BY <1>0, <1>2, <1>3, <1>4, <1>5, <1>6, <1>7, <1>8 DEF TypeOK, Turns
<1>9. ASSUME NEW p \in Process, Message(p) PROVE TypeOK'
  <2>1. PICK d \in {LowestOf(WithoutSocket(p)), -1} :
           /\ LogFile' = d
           /\ fds' = [fds EXCEPT ![p] = IF d = -1 THEN WithoutSocket(p)
                                       ELSE [WithoutSocket(p) EXCEPT ![d] = "syslog"]]
    BY <1>9 DEF Message
  <2>2. fds \in [Process -> [Descriptors -> Values]]
    BY <1>0 DEF TypeOK
  <2>3. fds' \in [Process -> [Descriptors -> Values]] /\ LogFile' \in Descriptors \cup {-1}
    BY <1>9, <2>1, <2>2, SocketMoves
  <2>4. UNCHANGED <<pc, closing, args, opts, gLogFP, session, prowl_key_valid, verified, store, told>>
    BY <1>9 DEF Message, key
  <2> QED
    BY <1>0, <2>3, <2>4 DEF TypeOK, store
<1> QED
  BY <1>1, <1>8, <1>9 DEF Next

\* The table is kept by every step of every process, a signal among them.
LEMMA IInvStep == IInv /\ [Next]_vars => IInv'
<1> SUFFICES ASSUME IInv, [Next]_vars PROVE IInv'
  OBVIOUS
<1>1. Turns' /\ TypeOK'
  BY TurnsNext, TypeStep DEF IInv
<1>2. Table'
  <2>1. CASE UNCHANGED vars
    BY <2>1 DEF vars, output, IInv, Table, Active, Holds, Opened, Nulled, Socket, Redirected
  <2> QED
    BY <1>1, <2>1, MainTable, MessageTable, TerminateTable DEF Next
<1> QED
  BY <1>1, <1>2 DEF IInv

\* The variables of a start keep their types.
THEOREM StartTypeCorrect == Spec => []TypeOK
<1>1. IInv => TypeOK
  BY DEF IInv
<1> QED
  BY <1>1, IInvInit, IInvStep, PTL DEF Spec

\* The daemon holds no terminal and keeps its log, for every set of descriptors and every command
\* line, wherever the C library opens its socket: of the three processes only the last is
\* redirected, after the log was opened, and syslog() only ever moves to a descriptor that was free
\* when the program was started.
THEOREM DaemonIsDetached == Spec => []Detached
<1>1. IInv => Detached
  <2> SUFFICES ASSUME IInv, NEW p \in Process, Serving(p), env.null
               PROVE  IF p = 1 THEN opts.nofork /\ \A d \in env.std : fds[p][d] = "tty"
                      ELSE /\ \A d \in env.std : fds[p][d] = "null"
                           /\ \A d \in 0 .. 2 : fds[p][d] = "null" \/
                                 (opts.log = "syslog" /\ (fds[p][d] = "closed" \/ d = LogFile))
                           /\ \A d \in Descriptors \ (0 .. 2) :
                                 fds[p][d] = "closed" \/ d \in {gLogFP, LogFile}
                           /\ gLogFP # -1 /\ env.std = 0 .. 2 => am_printf(p) = "log"
    BY DEF Detached
  <2>1. Active(p) /\ p # 2 /\ env.std \subseteq 0 .. 2
    BY StartupAssumption DEF Serving, Active, IInv, Turns, Table, Gone
  <2>2. CASE p = 1
    <3>1. opts.nofork /\ Redirected(1) = 0 /\ gLogFP \notin env.std
      BY <2>2 DEF IInv, Table, Serving, Rest, Redirected
    <3>2. \A d \in env.std : fds[1][d] = "tty"
      BY <2>1, <2>2, <3>1 DEF IInv, Table, Holds, Opened, Descriptors
    <3> QED
      BY <2>2, <3>1, <3>2
  <2>3. CASE p = 3
    <3>1. Redirected(3) = 3
      BY <2>3 DEF Serving, Redirected
    <3>2. \A d \in Descriptors : fds[3][d] \in IF d < 3 THEN Nulled(d) ELSE Opened(d)
      BY <2>1, <2>3, <3>1 DEF IInv, Table, Holds
    <3>3. \A d \in Descriptors \ (0 .. 2) : fds[3][d] \in Opened(d) /\ d \notin env.std
      BY <2>1, <3>2 DEF Descriptors
    <3>4. gLogFP # -1 /\ env.std = 0 .. 2 => am_printf(3) = "log"
      <4> SUFFICES ASSUME gLogFP # -1, env.std = 0 .. 2 PROVE am_printf(3) = "log"
        OBVIOUS
      <4>1. gLogFP \in Descriptors \ (0 .. 2) /\ opts.log = "file"
        BY DEF IInv, Table, TypeOK
      <4> QED
        BY <3>3, <4>1 DEF am_printf, Opened
    <3>5. \A d \in 0 .. 2 : fds[3][d] \in Nulled(d)
      BY <3>2 DEF Descriptors
    <3>6. \A d \in env.std : fds[3][d] = "null"
      BY <2>1, <3>5 DEF Nulled
    <3>7. \A d \in 0 .. 2 : fds[3][d] = "null" \/
             (opts.log = "syslog" /\ (fds[3][d] = "closed" \/ d = LogFile))
      BY <3>5 DEF Nulled, Socket
    <3>8. \A d \in Descriptors \ (0 .. 2) : fds[3][d] = "closed" \/ d \in {gLogFP, LogFile}
      BY <3>3 DEF Opened, Socket
    <3> QED
      BY <2>3, <3>4, <3>6, <3>7, <3>8
  <2> QED
    BY <2>1, <2>2, <2>3 DEF Process
<1> QED
  BY <1>1, IInvInit, IInvStep, PTL DEF Spec

-----------------------------------------------------------------------------
(* The refinement.                                                         *)

Before == Steps \ ({"none", "loop", "sleep", "shutdown"} \cup Gone)

\* Nothing is recorded before the loop, and from then on memory holds at least what the disk holds,
\* unless the record could not be read: a save that is cut short only leaves less.
Recorded ==
    /\ downloads \in Nat /\ statefile \in Nat
    /\ unread \in BOOLEAN /\ bucket_changed \in BOOLEAN /\ cut \in BOOLEAN
    /\ (\E p \in Process : pc[p] \in Before) => ~bucket_changed /\ ~unread
    /\ (\E p \in Process : Serving(p)) /\ ~unread => statefile <= downloads

\* Before main() runs nothing is changed.
LEMMA RecordedInit == Init => Recorded
<1> SUFFICES ASSUME Init PROVE Recorded
  OBVIOUS
<1>1. downloads = 0 /\ statefile \in Nat /\ unread = FALSE /\ bucket_changed = FALSE
      /\ cut = FALSE
  BY StartupAssumption DEF Init
<1>2. ~ \E p \in Process : Serving(p)
  BY DEF Init, Serving, Process
<1>3. bucket_changed \in BOOLEAN /\ unread \in BOOLEAN /\ cut \in BOOLEAN /\ ~bucket_changed /\ ~unread
  BY <1>1
<1> QED
  BY <1>1, <1>2, <1>3 DEF Recorded

\* A step in main() that leaves the record alone and does not reach the loop from before it.
LEMMA RecordedStays ==
    ASSUME Turns, Turns', Recorded, UNCHANGED <<downloads, statefile, unread, bucket_changed, cut>>,
           \A p \in Process : pc'[p] \in Before => \E q \in Process : pc[q] \in Before,
           \A p \in Process : Serving(p)' => \E q \in Process : Serving(q)
    PROVE  Recorded'
  BY DEF Recorded

\* A save leaves at most what it was to write, or what was there.
LEMMA SaveBounds ==
    ASSUME NEW n \in Nat, statefile \in Nat, cut \in BOOLEAN, save_state(n)
    PROVE  /\ statefile' \in Nat /\ cut' \in BOOLEAN
           /\ statefile <= n => statefile' <= n
           /\ statefile <= n /\ ~cut' => statefile' >= statefile
<1>1. cut' \in BOOLEAN
  BY Zenon DEF save_state
<1>2. CASE UNCHANGED statefile
  BY <1>1, <1>2
<1>3. CASE statefile' = n
  BY <1>1, <1>3
<1>4. CASE statefile' \in 0 .. n /\ cut'
  BY <1>1, <1>4
<1>5. UNCHANGED statefile \/ statefile' = n \/ (statefile' \in 0 .. n /\ cut')
  BY Zenon DEF save_state
<1> QED
  BY <1>2, <1>3, <1>4, <1>5

\* Loading makes memory hold the record, and a pass adds to both in this order.
LEMMA RecordedMain == ASSUME Turns, Turns', Recorded, NEW p \in Process, Main(p) PROVE Recorded'
<1> USE DEF Process, Steps, Gone, Before, Serving, Goto
<1>1. CASE readargs(p)
  BY <1>1, RecordedStays DEF readargs, store
<1>2. CASE usage(p) \/ ParentExits(p)
  BY <1>2, RecordedStays DEF usage, ParentExits, Ends, store, Turns
<1>3. CASE log_init(p) \/ parse_config_file(p) \/ setup_signals(p)
  BY <1>3, RecordedStays DEF log_init, parse_config_file, setup_signals, store, Turns
<1>4. CASE Detach(p) \/ Setsid(p) \/ Fork2(p)
  BY <1>4, RecordedStays DEF Detach, Setsid, Fork2, ForkTo, store, Turns
<1>5. CASE Stdin(p) \/ Stdout(p) \/ Stderr(p)
  BY <1>5, RecordedStays DEF Stdin, Stdout, Stderr, Redirect, store, Turns
<1>6. CASE CheckLists(p) \/ CheckKey(p)
  BY <1>6, RecordedStays DEF CheckLists, CheckKey, store, Turns
<1>7. CASE load_state(p)
  <2>1. \A q \in Process : q # p => pc[q] \in {"none"} \cup Gone
    BY <1>7, OthersRest DEF load_state, Active
  <2>2. \A q \in Process : pc'[q] \notin Before
    BY <1>7, <2>1 DEF load_state, Turns
  <2>3. unread' \in BOOLEAN /\ downloads' \in Nat /\ UNCHANGED <<statefile, bucket_changed, cut>>
    BY <1>7 DEF load_state, Recorded
  <2>4. ~unread' => downloads' = statefile
    BY <1>7 DEF load_state
  <2> HIDE DEF Before, Serving
  <2> QED BY <2>2, <2>3, <2>4 DEF Recorded
<1>8. CASE Pass(p)
  <2>1. \A q \in Process : q # p => pc[q] \in {"none"} \cup Gone
    BY <1>8, OthersRest DEF Pass, Active
  <2>2. \A q \in Process : pc'[q] \notin Before
    BY <1>8, <2>1 DEF Pass, Turns
  <2>3. Serving(p)
    BY <1>8 DEF Pass
  <2>4. \/ UNCHANGED store
        \/ /\ downloads' = downloads + 1 /\ bucket_changed' = TRUE
           /\ save_state(downloads + 1) /\ UNCHANGED unread
    BY <1>8 DEF Pass
  <2>5. /\ unread' = unread /\ bucket_changed' \in BOOLEAN /\ cut' \in BOOLEAN
        /\ downloads' \in Nat /\ statefile' \in Nat
    <3>1. CASE UNCHANGED store
      BY <3>1 DEF store, Recorded
    <3>2. CASE downloads' = downloads + 1 /\ bucket_changed' = TRUE
                /\ save_state(downloads + 1) /\ UNCHANGED unread
      <4>1. downloads' \in Nat /\ statefile' \in Nat /\ cut' \in BOOLEAN
        BY <3>2, SaveBounds DEF Recorded
      <4> QED BY <3>2, <4>1
    <3> QED BY <2>4, <3>1, <3>2
  <2>6. ~unread => statefile <= downloads
    BY <2>3 DEF Recorded
  <2>7. ~unread' => statefile' <= downloads'
    <3>1. CASE UNCHANGED store
      BY <2>6, <3>1 DEF store
    <3>2. CASE downloads' = downloads + 1 /\ save_state(downloads + 1) /\ UNCHANGED unread
      BY <2>6, <3>2, SaveBounds DEF Recorded
    <3> QED BY <2>4, <3>1, <3>2
  <2> HIDE DEF Before, Serving
  <2> QED BY <2>2, <2>5, <2>7 DEF Recorded
<1>9. CASE Wake(p) \/ LeaveLoop(p)
  BY <1>9, RecordedStays DEF Wake, LeaveLoop, store, Turns
<1>10. CASE shutdown_daemon(p)
  <2>1. /\ UNCHANGED <<downloads, unread, bucket_changed>>
        /\ UNCHANGED <<statefile, cut>> \/ save_state(downloads)
    BY <1>10 DEF shutdown_daemon
  <2>2. statefile' \in Nat /\ cut' \in BOOLEAN
        /\ (statefile <= downloads => statefile' <= downloads)
    BY <2>1, SaveBounds DEF Recorded
  <2>3. /\ \A q \in Process : pc'[q] \in Before => pc[q] \in Before
        /\ \A q \in Process : Serving(q)' => Serving(q)
    BY <1>10 DEF shutdown_daemon, Ends, Turns, Rest
  <2> HIDE DEF Before, Serving
  <2> QED BY <2>1, <2>2, <2>3 DEF Recorded
<1> QED
  BY <1>1, <1>2, <1>3, <1>4, <1>5, <1>6, <1>7, <1>8, <1>9, <1>10 DEF Main

\* A signal touches neither memory nor disk.
LEMMA RecordedTerminate ==
    ASSUME Turns, Turns', Recorded, NEW p \in Process, Terminate(p) PROVE Recorded'
  BY RecordedStays DEF Terminate, Ends, Goto, store, Turns, Process, Steps, Gone, Before, Serving

\* So does a message.
LEMMA RecordedMessage ==
    ASSUME Turns, Turns', Recorded, NEW p \in Process, Message(p) PROVE Recorded'
  BY RecordedStays DEF Message, store, Serving

\* The process that is active says what the start is doing.
LEMMA StatusOf ==
    ASSUME Turns, NEW p \in Process, Active(p)
    PROVE  Status = IF Serving(p) THEN "serving" ELSE "starting"
  BY DEF Turns, Status, Active, Serving, Process, Steps, Rest, Gone

LEMMA StatusOfNext ==
    ASSUME Turns', NEW p \in Process, Active(p)'
    PROVE  Status' = IF Serving(p)' THEN "serving" ELSE "starting"
  BY DEF Turns, Status, Active, Serving, Process, Steps, Rest, Gone

\* When the active process ends, the start has ended: no other goes on.
LEMMA StatusEnds ==
    ASSUME Turns, NEW p \in Process, Active(p), NEW how \in {"exited", "killed"},
           pc' = [pc EXCEPT ![p] = how]
    PROVE  Status' = "stopped"
  BY DEF Turns, Status, Active, Serving, Process, Steps, Rest, Gone

\* A step within the part before the loop, or within the loop, is none of Service.
LEMMA Stutters ==
    ASSUME Turns, Turns', NEW p \in Process, NEW q \in Process, Active(p), Active(q)',
           Serving(p) <=> Serving(q)', UNCHANGED <<statefile, unread, cut>>
    PROVE  UNCHANGED Promise!vars
  BY StatusOf, StatusOfNext DEF Promise!vars

\* Every step in main() is one of Service or none.
LEMMA MainImplements ==
    ASSUME Turns, Turns', Recorded, Recorded', NEW p \in Process, Main(p)
    PROVE  [Promise!Next]_(Promise!vars)
<1> USE DEF Process, Steps, Gone, Active, Serving, Goto
<1>1. CASE readargs(p)
  BY <1>1, Stutters DEF readargs, store
<1>2. CASE usage(p)
  <2>1. Status = "starting" /\ Status' = "stopped"
    BY <1>2, StatusOf, StatusEnds DEF usage, Ends
  <2> QED BY <1>2, <2>1 DEF usage, store, Promise!Next, Promise!GiveUp
<1>3. CASE log_init(p) \/ parse_config_file(p) \/ setup_signals(p)
  BY <1>3, Stutters DEF log_init, parse_config_file, setup_signals, store, Turns
<1>4. CASE Detach(p) \/ Setsid(p) \/ Fork2(p)
  <2>1. UNCHANGED <<statefile, unread, cut>>
    BY <1>4 DEF Detach, Setsid, Fork2, ForkTo, store
  <2>2. Active(p) /\ ~Serving(p)
    BY <1>4 DEF Detach, Setsid, Fork2, ForkTo
  <2>3. \E q \in {p, p + 1} \cap Process : Active(q)' /\ ~Serving(q)'
    <3>1. CASE Detach(p)
      <4>1. p = 1
        BY <3>1 DEF Detach, ForkTo, Turns, Rest
      <4>2. pc' = [pc EXCEPT ![1] = "giveup"] \/ pc' = [pc EXCEPT ![1] = "parent", ![2] = "setsid"]
        BY <3>1, <4>1 DEF Detach, ForkTo
      <4>3. pc'[1] = "giveup" \/ pc'[2] = "setsid"
        BY <4>2 DEF Turns
      <4> QED BY <4>1, <4>3
    <3>2. CASE Setsid(p)
      BY <3>2 DEF Setsid, Turns
    <3>3. CASE Fork2(p)
      <4>1. p = 2
        BY <3>3 DEF Fork2, ForkTo, Turns, Rest
      <4>2. pc' = [pc EXCEPT ![2] = "giveup"] \/ pc' = [pc EXCEPT ![2] = "parent", ![3] = "stdin"]
        BY <3>3, <4>1 DEF Fork2, ForkTo
      <4>3. pc'[2] = "giveup" \/ pc'[3] = "stdin"
        BY <4>2 DEF Turns
      <4> QED BY <4>1, <4>3
    <3> QED BY <1>4, <3>1, <3>2, <3>3
  <2> HIDE DEF Active, Serving
  <2> QED BY <2>1, <2>2, <2>3, Stutters
<1>5. CASE Stdin(p) \/ Stdout(p) \/ Stderr(p)
  BY <1>5, Stutters DEF Stdin, Stdout, Stderr, Redirect, store, Turns
<1>6. CASE CheckLists(p) \/ CheckKey(p)
  BY <1>6, Stutters DEF CheckLists, CheckKey, store, Turns
<1>7. CASE load_state(p)
  <2>1. Status = "starting" /\ Status' = "serving"
    BY <1>7, StatusOf, StatusOfNext DEF load_state, Turns
  <2> QED BY <1>7, <2>1 DEF load_state, Recorded, Promise!Next, Promise!Serve
<1>8. CASE Pass(p)
  <2>1. Status = "serving" /\ Status' = "serving"
    BY <1>8, StatusOf, StatusOfNext DEF Pass, Turns
  <2>2. statefile \in Nat /\ cut \in BOOLEAN /\ downloads \in Nat
        /\ (~unread => statefile <= downloads)
    BY <1>8 DEF Recorded, Pass
  <2>3. CASE UNCHANGED store
    BY <2>1, <2>3 DEF store, Promise!vars
  <2>4. CASE save_state(downloads + 1) /\ UNCHANGED unread
    <3>1. /\ statefile' \in Nat /\ cut' \in BOOLEAN
          /\ ~unread /\ ~cut' => statefile' >= statefile
      BY <2>2, <2>4, SaveBounds
    <3> QED BY <2>1, <2>4, <3>1 DEF Promise!Next, Promise!Record
  <2> QED BY <1>8, <2>3, <2>4 DEF Pass
<1>9. CASE Wake(p) \/ LeaveLoop(p)
  BY <1>9, Stutters DEF Wake, LeaveLoop, store, Turns
<1>10. CASE shutdown_daemon(p)
  <2>1. Status' = "stopped"
    BY <1>10, StatusEnds DEF shutdown_daemon, Ends
  <2>2. CASE pc[p] = "shutdown"
    <3>1. Status = "serving"
      BY <2>2, StatusOf
    <3>2. /\ statefile \in Nat /\ cut \in BOOLEAN /\ downloads \in Nat
          /\ ~unread => statefile <= downloads
      BY <2>2 DEF Recorded
    <3>3. UNCHANGED unread /\ (UNCHANGED <<statefile, cut>> \/ save_state(downloads))
      BY <1>10 DEF shutdown_daemon
    <3>4. /\ statefile' \in Nat /\ cut' \in BOOLEAN
          /\ ~unread /\ ~cut' => statefile' >= statefile
      BY <3>2, <3>3, SaveBounds
    <3> QED BY <2>1, <3>1, <3>3, <3>4 DEF Promise!Next, Promise!Record
  <2>3. CASE pc[p] \in {"abort", "giveup"}
    <3>1. Status = "starting" /\ ~bucket_changed
      BY <2>3, StatusOf DEF Recorded, Before
    <3> QED BY <1>10, <2>1, <3>1 DEF shutdown_daemon, Promise!Next, Promise!GiveUp
  <2> QED BY <1>10, <2>2, <2>3 DEF shutdown_daemon, Ends
<1>11. CASE ParentExits(p)
  <2>1. Status' = Status
    BY <1>11 DEF ParentExits, Ends, Status, Turns
  <2> QED BY <1>11, <2>1 DEF ParentExits, store, Promise!vars
<1> QED
  BY <1>1, <1>2, <1>3, <1>4, <1>5, <1>6, <1>7, <1>8, <1>9, <1>10, <1>11 DEF Main

\* A signal ends a start that has not caught it yet, and changes nothing else.
LEMMA TerminateImplements ==
    ASSUME Turns, Turns', NEW p \in Process, Terminate(p)
    PROVE  [Promise!Next]_(Promise!vars)
<1> USE DEF Process, Steps, Gone, Active, Serving
<1>1. CASE pc[p] \in {"args", "config", "signals", "abort"}
  <2>1. Status = "starting" /\ Status' = "stopped"
    BY <1>1, StatusOf, StatusEnds DEF Terminate, Ends, Goto
  <2> QED BY <1>1, <2>1 DEF Terminate, store, Promise!Next, Promise!GiveUp
<1>2. CASE pc[p] \notin {"args", "config", "signals", "abort"}
  <2>1. Status' = Status
    BY <1>2 DEF Terminate, Status, Turns
  <2> QED BY <1>2, <2>1 DEF Terminate, store, Promise!vars
<1> QED
  BY <1>1, <1>2

\* Every start of the daemon is one of Service's: it serves once or not at all, and the record on
\* disk shrinks only when it could not be read or a save was cut short, for every history and every
\* combination of failures. (That a start comes to an end is left to the runs.)
THEOREM StartIsService == Spec => Promise!Init /\ [][Promise!Next]_(Promise!vars)
<1>1. Init => Promise!Init
  BY StartupAssumption DEF Init, Promise!Init, Status, Serving, Active, Process, Gone
<1>2. Turns /\ Recorded /\ [Next]_vars => Recorded' /\ [Promise!Next]_(Promise!vars)
  <2> SUFFICES ASSUME Turns, Recorded, [Next]_vars
               PROVE  Recorded' /\ [Promise!Next]_(Promise!vars)
    OBVIOUS
  <2>1. Turns'
    BY TurnsNext
  <2>2. CASE UNCHANGED vars
    BY <2>2 DEF vars, store, Recorded, Serving, Promise!vars, Status, Active
  <2>3. ASSUME NEW p \in Process, Main(p) PROVE Recorded' /\ [Promise!Next]_(Promise!vars)
    <3>1. Recorded'
      BY <2>1, <2>3, RecordedMain
    <3> QED BY <2>1, <2>3, <3>1, MainImplements
  <2>4. ASSUME NEW p \in Process, Terminate(p) PROVE Recorded' /\ [Promise!Next]_(Promise!vars)
    BY <2>1, <2>4, RecordedTerminate, TerminateImplements
  <2>5. ASSUME NEW p \in Process, Message(p) PROVE Recorded' /\ [Promise!Next]_(Promise!vars)
    <3>1. UNCHANGED Promise!vars
      BY <2>5 DEF Message, Promise!vars, Status, Serving, Active, store
    <3> QED BY <2>1, <2>5, <3>1, RecordedMessage
  <2> QED
    BY <2>2, <2>3, <2>4, <2>5 DEF Next
<1> QED
  BY <1>1, <1>2, TurnsInit, TurnsNext, RecordedInit, PTL DEF Spec

=============================================================================
