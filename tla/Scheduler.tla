------------------------------ MODULE Scheduler ------------------------------
(***************************************************************************)
(* When the daemon checks its feeds: the interval option of config_parser.c, *)
(* the loop of main() with its sleep(), SIGTERM, and the children            *)
(* callDownloadDoneScript() starts, whose SIGCHLD both reaps them and cuts   *)
(* the sleep short. A pass is its number of downloads; what a download does  *)
(* is in Trailermatic. Time passes in minutes, and only the minutes slept    *)
(* are counted.                                                              *)
(***************************************************************************)
EXTENDS Integers

CONSTANTS
    AM_DEFAULT_INTERVAL,
    IntervalWidth,   \* number of values of check_interval (2^8, a uint8_t)
    Numbers,         \* the numbers an interval line may give
    MaxDownloads,    \* bound on the downloads of one pass
    MaxScripts       \* the system's limit on children, beyond which fork() fails

ASSUME SchedulerAssumption ==
    /\ IntervalWidth \in Nat \ {0}
    /\ AM_DEFAULT_INTERVAL \in 1 .. (IntervalWidth - 1)
    /\ Numbers \subseteq Nat /\ MaxDownloads \in Nat /\ MaxScripts \in Nat

VARIABLES
    pc,             \* main(): config, check, pass, sleep, stopped
    check_interval,
    once, closing,
    todo,           \* downloads left in this pass
    remaining,      \* minutes left of sleep()
    reaping,        \* onSigCHLD() runs; main() waits for it
    sigchld,        \* SIGCHLD is pending; a second one is merged with it
    running,        \* scripts that run
    zombies,        \* scripts that ended and were not waited for
    rested,         \* history: minutes slept since the last pass
    overdue         \* history: minutes slept since SIGTERM

children == <<running, zombies>>
signals == <<reaping, sigchld>>
history == <<rested, overdue>>
vars == <<pc, check_interval, once, closing, todo, remaining, signals, children, history>>

Init == /\ pc = "config" /\ check_interval = AM_DEFAULT_INTERVAL
        /\ once \in BOOLEAN /\ closing = FALSE
        /\ todo = 0 /\ remaining = 0
        /\ reaping = FALSE /\ sigchld = FALSE /\ running = 0 /\ zombies = 0
        /\ rested = 0 /\ overdue = 0

-----------------------------------------------------------------------------
(* main(). It is suspended while a signal handler runs.                     *)

\* Mutant: the number keeps its width.
SetIntervalWide(number) ==
    /\ pc = "config"
    /\ check_interval' = IF number > 0 THEN number ELSE check_interval
    /\ UNCHANGED <<pc, once, closing, todo, remaining, signals, children, history>>

\* set_option(): an interval line. parseUInt() refuses 0, the number is stored in
\* eight bits.
SetInterval(number) ==
    /\ pc = "config"
    /\ check_interval' = IF number > 0 THEN number % IntervalWidth ELSE check_interval
    /\ UNCHANGED <<pc, once, closing, todo, remaining, signals, children, history>>

Configured == /\ pc = "config"
              /\ pc' = "check"
              /\ UNCHANGED <<check_interval, once, closing, todo, remaining, signals,
                             children, history>>

\* Mutant: the loop does not look at closing.
CheckRegardless == /\ pc = "check" /\ ~reaping
                   /\ pc' = "pass" /\ todo' \in 0 .. MaxDownloads
                   /\ UNCHANGED <<check_interval, once, closing, remaining, signals,
                                  children, history>>

\* The loop's test, while it holds, and the start of a pass.
Check == /\ pc = "check" /\ ~reaping /\ ~closing
         /\ pc' = "pass" /\ todo' \in 0 .. MaxDownloads
         /\ UNCHANGED <<check_interval, once, closing, remaining, signals, children, history>>

\* callDownloadDoneScript(): the handler is in place before fork(), which may fail.
Script == /\ pc = "pass" /\ ~reaping /\ todo > 0
          /\ todo' = todo - 1
          /\ \/ UNCHANGED running
             \/ running + zombies < MaxScripts /\ running' = running + 1
          /\ UNCHANGED <<pc, check_interval, once, closing, remaining, signals, zombies, history>>

\* Mutant: --once is forgotten.
EndPassSleeping == /\ pc = "pass" /\ ~reaping /\ todo = 0
                   /\ pc' = "sleep"
                   /\ remaining' = check_interval /\ rested' = 0
                   /\ UNCHANGED <<check_interval, once, closing, todo, signals, children, overdue>>

\* The end of a pass: sleep(check_interval * 60), whether or not a signal came.
EndPass == /\ pc = "pass" /\ ~reaping /\ todo = 0
           /\ pc' = IF once THEN "stopped" ELSE "sleep"
           /\ remaining' = check_interval /\ rested' = 0
           /\ UNCHANGED <<check_interval, once, closing, todo, signals, children, overdue>>

\* A minute of sleep.
Tick == /\ pc = "sleep" /\ remaining > 0
        /\ remaining' = remaining - 1 /\ rested' = rested + 1
        /\ overdue' = IF closing THEN overdue + 1 ELSE overdue
        /\ UNCHANGED <<pc, check_interval, once, closing, todo, signals, children>>

Wake == /\ pc = "sleep" /\ remaining = 0
        /\ pc' = "check"
        /\ UNCHANGED <<check_interval, once, closing, todo, remaining, signals, children, history>>

Stop == /\ pc = "check" /\ ~reaping /\ closing
        /\ pc' = "stopped"
        /\ UNCHANGED <<check_interval, once, closing, todo, remaining, signals, children, history>>

-----------------------------------------------------------------------------
(* Signals and children.                                                   *)

\* A caught signal ends sleep() before its time.
Interrupted == pc' = IF pc = "sleep" THEN "check" ELSE pc

\* SIGTERM or SIGINT, once the handlers are set up.
Terminate == /\ pc \in {"check", "pass", "sleep"} /\ ~closing
             /\ closing' = TRUE /\ Interrupted
             /\ UNCHANGED <<check_interval, once, todo, remaining, signals, children, history>>

ScriptEnds == /\ pc # "stopped" /\ running > 0
              /\ running' = running - 1 /\ zombies' = zombies + 1
              /\ sigchld' = TRUE
              /\ UNCHANGED <<pc, check_interval, once, closing, todo, remaining, reaping, history>>

\* onSigCHLD() is called; the signal is blocked until it returns.
Deliver == /\ pc # "stopped" /\ sigchld /\ ~reaping
           /\ sigchld' = FALSE /\ reaping' = TRUE
           /\ Interrupted
           /\ UNCHANGED <<check_interval, once, closing, todo, remaining, children, history>>

\* waitpid() returns a child.
Reap == /\ reaping /\ zombies > 0
        /\ zombies' = zombies - 1
        /\ UNCHANGED <<pc, check_interval, once, closing, todo, remaining, signals, running, history>>

\* Mutant: one waitpid() for every signal.
ReapedOne == /\ reaping
             /\ reaping' = FALSE
             /\ UNCHANGED <<pc, check_interval, once, closing, todo, remaining, sigchld,
                            children, history>>

\* waitpid() returns 0 (no child has ended) or -1 (there is none).
Reaped == /\ reaping /\ zombies = 0
          /\ reaping' = FALSE
          /\ UNCHANGED <<pc, check_interval, once, closing, todo, remaining, sigchld,
                         children, history>>

-----------------------------------------------------------------------------

Main == Configured \/ Check \/ Script \/ EndPass \/ Tick \/ Wake \/ Stop
Handler == Deliver \/ Reap \/ Reaped

Next == \/ \E number \in Numbers : SetInterval(number)
        \/ Main \/ Handler \/ Terminate \/ ScriptEnds

\* The process is scheduled, time passes and pending signals are delivered. Scripts
\* need not end.
Spec == Init /\ [][Next]_vars /\ WF_vars(Main) /\ WF_vars(Handler)

-----------------------------------------------------------------------------
(* Properties.                                                             *)

Flags == once \in BOOLEAN /\ closing \in BOOLEAN /\ reaping \in BOOLEAN /\ sigchld \in BOOLEAN

Ranges ==
    /\ pc \in {"config", "check", "pass", "sleep", "stopped"}
    /\ check_interval \in 0 .. (IntervalWidth - 1)
    /\ todo \in 0 .. MaxDownloads /\ remaining \in 0 .. (IntervalWidth - 1)
    /\ running \in Nat /\ zombies \in Nat /\ rested \in Nat /\ overdue \in Nat

TypeOK == Flags /\ Ranges

\* A script that has ended is waited for, though SIGCHLD is merged when several end
\* at once and blocked while the handler runs: onSigCHLD() takes all there are.
NoForgottenZombie == zombies > 0 => sigchld \/ reaping

\* ... and in the end all of them are.
ChildrenReaped == zombies > 0 ~> (zombies = 0 \/ pc = "stopped")

\* A SIGTERM ends the daemon within one interval, also one that comes in the middle
\* of a pass or between the loop's test and sleep(), and starts no further pass.
StopsWithinInterval == overdue <= check_interval

\* The feeds are checked again and again until the process stops, whatever the
\* scripts do and for every interval; with --once it stops.
KeepsChecking == /\ []<>(pc = "pass") \/ <>(pc = "stopped")
                 /\ once => <>(pc = "stopped")

\* Both: neither do the scripts keep the daemon from its feeds, nor the feeds from its scripts.
KeepsServing == KeepsChecking /\ ChildrenReaped

\* trailermatic.conf-sample, line 4: "interval in minutes between checks". A script
\* that ends during the sleep starts the next check at once.
IntervalKept == [][(pc = "sleep" /\ pc' = "check" /\ ~closing') => rested >= check_interval]_vars

=============================================================================
