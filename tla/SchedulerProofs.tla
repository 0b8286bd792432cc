--------------------------- MODULE SchedulerProofs ---------------------------
(***************************************************************************)
(* For every interval option, width, number of downloads and limit on       *)
(* children: no ended script is forgotten, and a SIGTERM is acted on within *)
(* one interval.                                                            *)
(***************************************************************************)
EXTENDS Scheduler, TLAPS

\* What is left of the sleep never goes beyond the interval, counted from the
\* signal; a pass starts only before the signal is seen, so no minute has been
\* counted when it ends.
Timed == /\ pc = "config" => ~closing
         /\ (pc = "pass" \/ ~closing) => overdue = 0
         /\ pc = "sleep" => overdue + remaining <= check_interval

Inv == Ranges /\ NoForgottenZombie /\ Timed /\ StopsWithinInterval

LEMMA FlagsInit == Init => Flags
  BY DEF Init, Flags

LEMMA FlagsNext == Flags /\ [Next]_vars => Flags'
<1> SUFFICES ASSUME Flags, [Next]_vars PROVE Flags'
  OBVIOUS
<1>1. once' \in BOOLEAN
  BY DEF Flags, vars, signals, Next, Main, Handler, SetInterval, Configured, Check,
     Script, EndPass, Tick, Wake, Stop, Terminate, ScriptEnds, Deliver, Reap, Reaped
<1>2. closing' \in BOOLEAN
  BY DEF Flags, vars, signals, Next, Main, Handler, SetInterval, Configured, Check,
     Script, EndPass, Tick, Wake, Stop, Terminate, ScriptEnds, Deliver, Reap, Reaped
<1>3. reaping' \in BOOLEAN
  BY DEF Flags, vars, signals, Next, Main, Handler, SetInterval, Configured, Check,
     Script, EndPass, Tick, Wake, Stop, Terminate, ScriptEnds, Deliver, Reap, Reaped
<1>4. sigchld' \in BOOLEAN
  BY DEF Flags, vars, signals, Next, Main, Handler, SetInterval, Configured, Check,
     Script, EndPass, Tick, Wake, Stop, Terminate, ScriptEnds, Deliver, Reap, Reaped
<1> QED BY <1>1, <1>2, <1>3, <1>4 DEF Flags

LEMMA InvInit == Init => Inv
  BY SchedulerAssumption DEF Init, Inv, Ranges, NoForgottenZombie, Timed, StopsWithinInterval

\* Every step of main(), of the handler and of the children keeps the invariant.
LEMMA InvNext == Inv /\ [Next]_vars => Inv'
<1> SUFFICES ASSUME Inv, [Next]_vars PROVE Inv'
  OBVIOUS
<1> USE SchedulerAssumption DEF Inv, Ranges, NoForgottenZombie, Timed, StopsWithinInterval,
                                signals, children, history
<1>1. ASSUME NEW number \in Numbers, SetInterval(number) PROVE Inv'
  <2>1. number \in Nat /\ number % IntervalWidth \in 0 .. (IntervalWidth - 1)
    OBVIOUS
  <2>2. check_interval' \in 0 .. (IntervalWidth - 1)
    BY <1>1, <2>1 DEF SetInterval
  <2> QED BY <1>1, <2>2 DEF SetInterval
<1>2. CASE Configured
  BY <1>2 DEF Configured
<1>3. CASE Check
  BY <1>3 DEF Check
<1>4. CASE Script
  BY <1>4 DEF Script
<1>5. CASE EndPass
  BY <1>5 DEF EndPass
<1>6. CASE Tick
  BY <1>6 DEF Tick
<1>7. CASE Wake
  BY <1>7 DEF Wake
<1>8. CASE Stop
  BY <1>8 DEF Stop
<1>9. CASE Terminate
  BY <1>9 DEF Terminate, Interrupted
<1>10. CASE ScriptEnds
  BY <1>10 DEF ScriptEnds
<1>11. CASE Deliver
  BY <1>11 DEF Deliver, Interrupted
<1>12. CASE Reap
  BY <1>12 DEF Reap
<1>13. CASE Reaped
  BY <1>13 DEF Reaped
<1>14. CASE UNCHANGED vars
  BY <1>14 DEF vars
<1> QED
  BY <1>1, <1>2, <1>3, <1>4, <1>5, <1>6, <1>7, <1>8, <1>9, <1>10, <1>11, <1>12,
     <1>13, <1>14 DEF Next, Main, Handler

LEMMA Invariant == Spec => [](Inv /\ Flags)
  BY InvInit, InvNext, FlagsInit, FlagsNext, PTL DEF Spec

\* The interval keeps its eight bits and the counters stay natural numbers.
THEOREM SchedulerTypeCorrect == Spec => []TypeOK
  BY Invariant, PTL DEF Inv, TypeOK

\* Whenever an ended script waits, its signal is pending or the handler runs.
THEOREM ZombiesRemembered == Spec => []NoForgottenZombie
  BY Invariant, PTL DEF Inv

\* The daemon sleeps at most one interval after it was told to stop.
THEOREM StopsSoon == Spec => []StopsWithinInterval
  BY Invariant, PTL DEF Inv

=============================================================================
