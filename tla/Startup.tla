------------------------------ MODULE Startup ------------------------------
(***************************************************************************)
(* From main() to its loop and out of it: readargs(), log_init(), the        *)
(* configuration, setup_signals(), daemonize() with its two forks, the Prowl *)
(* key check, load_state(), shutdown_daemon(). A process is its place in     *)
(* main(), its descriptors and its copy of closing. After fork() the parent  *)
(* does nothing but _exit(0), so what else main() keeps is kept once.        *)
(***************************************************************************)
EXTENDS Integers, Sequences, FiniteSetsExt

CONSTANTS
    StdSets,        \* the standard descriptors the program may be started with
    CommandLines,   \* the options it may be started with
    MaxHistory      \* bound on the downloads on record

Options == {"verbose", "nodaemon", "help", "logfile", "syslog", "xml", "once", "match-only"}

ASSUME StartupAssumption ==
    StdSets \subseteq SUBSET (0 .. 2) /\ CommandLines \subseteq Seq(Options) /\ MaxHistory \in Nat

VARIABLES
    pc,             \* of every process: none; args, config, ...; parent, exited, killed
    fds,            \* its descriptors: closed, or open on tty, log, syslog, null
    closing,        \* its closing
    args,           \* the options not read yet
    opts,           \* what readargs() set
    gLogFP,         \* the descriptor of the log file, -1 for none
    LogFile,        \* the one the C library has for syslog's socket, -1 for none
    session,        \* what the configuration file gives
    prowl_key_valid,
    verified,       \* history: verifyProwlAPIKey() said that the key is valid
    downloads, bucket_changed,
    statefile,      \* downloads on record
    unread,         \* history: load_state() could not open it
    cut,            \* history: the last save that opened it did not write it to its end
    told,           \* history: SIGTERM came to the process that runs main()
    env             \* given: an orphan (getppid() = 1), standard descriptors, /dev/null

output == <<opts, gLogFP, LogFile>>
key == <<prowl_key_valid, verified>>
store == <<downloads, bucket_changed, statefile, unread, cut>>
vars == <<pc, fds, closing, args, output, session, key, store, told, env>>

Process == 1 .. 3
Descriptors == 0 .. 6
Steps == {"none", "args", "config", "signals", "detach", "setsid", "fork2", "stdin", "stdout",
          "stderr", "lists", "key", "load", "loop", "sleep", "abort", "giveup", "shutdown",
          "parent", "exited", "killed"}
Init ==
    /\ env \in [orphan : BOOLEAN, std : StdSets, null : BOOLEAN]
    /\ pc = [p \in Process |-> IF p = 1 THEN "args" ELSE "none"]
    /\ fds = [p \in Process |-> [d \in Descriptors |->
                                    IF p = 1 /\ d \in env.std THEN "tty" ELSE "closed"]]
    /\ closing = [p \in Process |-> FALSE]
    /\ args \in CommandLines
    /\ opts = [log |-> "stderr", nofork |-> FALSE, once |-> FALSE, match_only |-> FALSE]
    /\ gLogFP = -1 /\ LogFile = -1
    /\ session = [feeds |-> FALSE, filters |-> FALSE, prowl_key |-> FALSE]
    /\ prowl_key_valid = 0 /\ verified = FALSE
    /\ downloads = 0 /\ bucket_changed = FALSE /\ statefile \in 0 .. MaxHistory
    /\ unread = FALSE /\ cut = FALSE
    /\ told = FALSE

\* Process p goes on from one step of main() to another.
Goto(p, from, to) == pc[p] = from /\ pc' = [pc EXCEPT ![p] = to]

Closed == [d \in Descriptors |-> "closed"]

\* Process p ends: its descriptors and its memory go.
Ends(p, from, how) ==
    /\ Goto(p, from, how)
    /\ fds' = [fds EXCEPT ![p] = Closed] /\ closing' = [closing EXCEPT ![p] = FALSE]

-----------------------------------------------------------------------------
(* Options, log and configuration.                                         *)

\* What an option sets; -v, -c and -a set nothing that is kept here.
OptionSet(o) ==
    CASE o = "verbose"    -> opts
      [] o = "nodaemon"   -> [opts EXCEPT !.nofork = TRUE]
      [] o = "logfile"    -> [opts EXCEPT !.log = "file"]
      [] o = "syslog"     -> [opts EXCEPT !.log = "syslog"]
      [] o = "xml"        -> [opts EXCEPT !.nofork = TRUE, !.once = TRUE]
      [] o = "once"       -> [opts EXCEPT !.once = TRUE]
      [] o = "match-only" -> [opts EXCEPT !.match_only = TRUE]

readargs(p) ==
    /\ args # <<>> /\ Head(args) # "help" /\ args' = Tail(args)
    /\ pc[p] = "args" /\ opts' = OptionSet(Head(args))
    /\ UNCHANGED <<pc, fds, closing, gLogFP, LogFile, session, key, store, told, env>>

\* -h and every unknown option end the program.
usage(p) ==
    /\ args # <<>> /\ Head(args) = "help" /\ Ends(p, "args", "exited")
    /\ UNCHANGED <<args, output, session, key, store, told, env>>

\* open() and socket() take the lowest descriptor that is free.
LowestOf(table) == Min({ d \in Descriptors : table[d] = "closed" })
Lowest(p) == LowestOf(fds[p])

\* The log file is opened, or cannot be and messages go to stderr. openlog() with LOG_NDELAY opens
\* its socket at once, if there is a daemon at the other end.
log_init(p) ==
    /\ args = <<>> /\ Goto(p, "args", "config")
    /\ \/ /\ opts.log = "file"
          /\ gLogFP' = Lowest(p) /\ fds' = [fds EXCEPT ![p][Lowest(p)] = "log"]
          /\ UNCHANGED LogFile
       \/ /\ opts.log = "syslog"
          /\ LogFile' = Lowest(p) /\ fds' = [fds EXCEPT ![p][Lowest(p)] = "syslog"]
          /\ UNCHANGED gLogFP
       \/ UNCHANGED <<gLogFP, LogFile, fds>>
    /\ UNCHANGED <<closing, args, opts, session, key, store, told, env>>

\* Where a message goes that process p prints.
am_printf(p) == IF opts.log = "syslog" THEN "syslog"
                ELSE fds[p][IF gLogFP # -1 THEN gLogFP ELSE 2]

\* The table without the descriptor that the C library has for its socket.
WithoutSocket(p) == IF LogFile = -1 THEN fds[p] ELSE [fds[p] EXCEPT ![LogFile] = "closed"]

\* A file with an error leaves whatever was set before it.
parse_config_file(p) ==
    /\ \/ Goto(p, "config", "signals") \/ Goto(p, "config", "abort")
    /\ session' \in [feeds : BOOLEAN, filters : BOOLEAN, prowl_key : BOOLEAN]
    /\ UNCHANGED <<fds, closing, args, output, key, store, told, env>>

setup_signals(p) ==
    /\ Goto(p, "signals", IF opts.nofork THEN "lists" ELSE "detach")
    /\ UNCHANGED <<fds, closing, args, output, session, key, store, told, env>>

-----------------------------------------------------------------------------
(* daemonize().                                                            *)

\* Process p + 1 is a copy of p that goes on at a step of its own; p only exits. Or fork() fails.
ForkTo(p, from, to) ==
    /\ pc[p] = from
    /\ \/ /\ pc' = [pc EXCEPT ![p] = "parent", ![p + 1] = to]
          /\ fds' = [fds EXCEPT ![p + 1] = fds[p]]
          /\ closing' = [closing EXCEPT ![p + 1] = closing[p]]
       \/ Goto(p, from, "giveup") /\ UNCHANGED <<fds, closing>>
    /\ UNCHANGED <<args, output, session, key, store, told, env>>

\* A child of init gives up, everything else forks.
Detach(p) ==
    IF env.orphan
    THEN Goto(p, "detach", "giveup")
         /\ UNCHANGED <<fds, closing, args, output, session, key, store, told, env>>
    ELSE ForkTo(p, "detach", "setsid")

Setsid(p) ==
    /\ \/ Goto(p, "setsid", "fork2") \/ Goto(p, "setsid", "giveup")
    /\ UNCHANGED <<fds, closing, args, output, session, key, store, told, env>>

Fork2(p) == ForkTo(p, "fork2", "stdin")

\* Mutant: the parent goes on as well.
ParentStays(p) ==
    /\ Goto(p, "parent", "lists")
    /\ UNCHANGED <<fds, closing, args, output, session, key, store, told, env>>

ParentExits(p) ==
    /\ Ends(p, "parent", "exited")
    /\ UNCHANGED <<args, output, session, key, store, told, env>>

\* Mutant: the descriptor that was opened is not closed.
NullKept(p, d) ==
    IF env.null THEN [fds[p] EXCEPT ![Lowest(p)] = "null", ![d] = "null"] ELSE fds[p]

\* /dev/null is opened, moved to d by dup2() unless it is there already, and closed where it was.
\* If it cannot be opened neither call has an effect.
NullAt(p, d) == IF env.null THEN [fds[p] EXCEPT ![d] = "null"] ELSE fds[p]

Redirect(p, d, from, to) ==
    /\ Goto(p, from, to)
    /\ fds' = [fds EXCEPT ![p] = NullAt(p, d)]
    /\ UNCHANGED <<closing, args, output, session, key, store, told, env>>

Stdin(p) == Redirect(p, 0, "stdin", "stdout")
Stdout(p) == Redirect(p, 1, "stdout", "stderr")
Stderr(p) == Redirect(p, 2, "stderr", "lists")

-----------------------------------------------------------------------------
(* The rest of main().                                                     *)

CheckLists(p) ==
    /\ Goto(p, "lists", IF ~session.feeds \/ ~session.filters THEN "giveup"
                        ELSE IF session.prowl_key THEN "key" ELSE "load")
    /\ UNCHANGED <<fds, closing, args, output, session, key, store, told, env>>

\* Mutant: the answer is kept as it is.
CheckKeyResult(p) ==
    /\ Goto(p, "key", "load")
    /\ \E result \in {1, -1, -401} :
          prowl_key_valid' = result /\ verified' = (result = 1)
    /\ UNCHANGED <<fds, closing, args, output, session, store, told, env>>

\* verifyProwlAPIKey() returns 1, -1 without an answer, or minus the code of the answer: the
\* key counts as valid unless that is 0.
CheckKey(p) ==
    /\ Goto(p, "key", "load")
    /\ \E result \in {1, -1, -401} :
          prowl_key_valid' = (IF result # 0 THEN 1 ELSE 0) /\ verified' = (result = 1)
    /\ UNCHANGED <<fds, closing, args, output, session, store, told, env>>

\* The state file may be impossible to open.
load_state(p) ==
    /\ Goto(p, "load", "loop")
    /\ \/ downloads' = statefile /\ UNCHANGED unread
       \/ unread' = TRUE /\ UNCHANGED downloads
    /\ UNCHANGED <<fds, closing, args, output, session, key, bucket_changed, statefile, cut, told,
                   env>>

\* n downloads are written: the file cannot be opened, or it is emptied and gets all of them, or
\* no more than some when a write or fclose() fails. No caller looks at the result.
save_state(n) ==
    \/ UNCHANGED <<statefile, cut>>
    \/ statefile' = n /\ cut' = FALSE
    \/ statefile' \in 0 .. n /\ cut' = TRUE

\* Mutant: the loop does not look at closing.
PassRegardless(p) ==
    /\ Goto(p, "loop", IF opts.once THEN "shutdown" ELSE "sleep")
    /\ UNCHANGED <<store, fds, closing, args, output, session, key, told, env>>

\* A pass with or without a new download, after which the state is saved. --match-only downloads
\* nothing.
Pass(p) ==
    /\ ~closing[p] /\ Goto(p, "loop", IF opts.once THEN "shutdown" ELSE "sleep")
    /\ \/ UNCHANGED store
       \/ /\ ~opts.match_only /\ downloads < MaxHistory
          /\ downloads' = downloads + 1 /\ bucket_changed' = TRUE
          /\ save_state(downloads + 1)
          /\ UNCHANGED unread
    /\ UNCHANGED <<fds, closing, args, output, session, key, told, env>>

Wake(p) ==
    /\ Goto(p, "sleep", "loop")
    /\ UNCHANGED <<fds, closing, args, output, session, key, store, told, env>>

LeaveLoop(p) ==
    /\ closing[p] /\ Goto(p, "loop", "shutdown")
    /\ UNCHANGED <<fds, closing, args, output, session, key, store, told, env>>


\* After an error in the configuration, a start that cannot go on, or the loop: the state is saved
\* if it changed, and the process ends with EXIT_SUCCESS.
shutdown_daemon(p) ==
    /\ \E from \in {"abort", "giveup", "shutdown"} : Ends(p, from, "exited")
    /\ IF bucket_changed THEN save_state(downloads) ELSE UNCHANGED <<statefile, cut>>
    /\ UNCHANGED <<args, output, session, key, downloads, bucket_changed, unread, told, env>>

-----------------------------------------------------------------------------

\* The process runs main(), and has not been replaced by its child.
Active(p) == pc[p] \notin {"none", "parent", "exited", "killed"}

\* SIGTERM or SIGINT, which kills until setup_signals() has run and is inherited as caught.
Terminate(p) ==
    /\ pc[p] \notin {"none", "exited", "killed"} /\ ~closing[p]
    /\ IF pc[p] \in {"args", "config", "signals", "abort"}
       THEN Ends(p, pc[p], "killed")
       ELSE /\ closing' = [closing EXCEPT ![p] = TRUE]
            /\ pc' = IF pc[p] = "sleep" THEN [pc EXCEPT ![p] = "loop"] ELSE pc
            /\ UNCHANGED fds
    /\ told' = (told \/ Active(p))
    /\ UNCHANGED <<args, output, session, key, store, env>>

\* A message, which -v decides about, through syslog(): where the daemon at the other end does not
\* take it, or the descriptor is not its socket any more, the descriptor is closed, and the socket
\* opened again if it can be.
Message(p) ==
    /\ Active(p) /\ pc[p] # "args" /\ opts.log = "syslog"
    /\ \E d \in {LowestOf(WithoutSocket(p)), -1} :
          /\ LogFile' = d
          /\ fds' = [fds EXCEPT ![p] = IF d = -1 THEN WithoutSocket(p)
                                      ELSE [WithoutSocket(p) EXCEPT ![d] = "syslog"]]
    /\ UNCHANGED <<pc, closing, args, opts, gLogFP, session, key, store, told, env>>

Main(p) == \/ readargs(p) \/ usage(p) \/ log_init(p) \/ parse_config_file(p) \/ setup_signals(p)
           \/ Detach(p) \/ Setsid(p) \/ Fork2(p) \/ ParentExits(p)
           \/ Stdin(p) \/ Stdout(p) \/ Stderr(p)
           \/ CheckLists(p) \/ CheckKey(p) \/ load_state(p)
           \/ Pass(p) \/ Wake(p) \/ LeaveLoop(p) \/ shutdown_daemon(p)

Next == \E p \in Process : Main(p) \/ Message(p) \/ Terminate(p)

\* Every process is scheduled, and a sleep ends. No signal need come.
Spec == Init /\ [][Next]_vars /\ \A p \in Process : WF_vars(Main(p))

-----------------------------------------------------------------------------
(* Properties.                                                             *)

\* The variables have their types.
TypeOK ==
    /\ pc \in [Process -> Steps]
    /\ fds \in [Process -> [Descriptors -> {"closed", "tty", "log", "syslog", "null"}]]
    /\ closing \in [Process -> BOOLEAN] /\ args \in Seq(Options)
    /\ opts \in [log : {"stderr", "file", "syslog"}, nofork : BOOLEAN, once : BOOLEAN,
                 match_only : BOOLEAN]
    /\ gLogFP \in Descriptors \cup {-1} /\ LogFile \in Descriptors \cup {-1}
    /\ session \in [feeds : BOOLEAN, filters : BOOLEAN, prowl_key : BOOLEAN]
    /\ prowl_key_valid \in {0, 1} /\ verified \in BOOLEAN
    /\ downloads \in 0 .. MaxHistory /\ bucket_changed \in BOOLEAN
    /\ statefile \in 0 .. MaxHistory /\ unread \in BOOLEAN /\ cut \in BOOLEAN
    /\ told \in BOOLEAN

Serving(p) == pc[p] \in {"loop", "sleep", "shutdown"}

\* Two forks and their failures leave one process that goes on: no two of them load and save the
\* same state file.
OneDaemon == \A p, q \in Process : Active(p) /\ Active(q) => p = q

\* The daemon holds no terminal: the standard descriptors it was started with are /dev/null, and so
\* are the others unless syslog() has, or had, its socket there; besides them it has at most its log
\* open. That is still the file which was opened before the forks, if the program was started with
\* its standard descriptors. In the foreground it keeps what it was given.
Detached ==
    \A p \in Process : Serving(p) /\ env.null =>
        IF p = 1 THEN opts.nofork /\ \A d \in env.std : fds[p][d] = "tty"
        ELSE /\ \A d \in env.std : fds[p][d] = "null"
             /\ \A d \in 0 .. 2 : fds[p][d] = "null" \/
                    (opts.log = "syslog" /\ (fds[p][d] = "closed" \/ d = LogFile))
             /\ \A d \in Descriptors \ (0 .. 2) : fds[p][d] = "closed" \/ d \in {gLogFP, LogFile}
             /\ gLogFP # -1 /\ env.std = 0 .. 2 => am_printf(p) = "log"

\* A signal that came while the daemon was starting, to whichever process it was then, is known to
\* the process that serves, and ends it, whatever it was doing.
SignalStops == told ~> \A p \in Process : ~Active(p)

Status == IF \E p \in Process : Serving(p) THEN "serving"
          ELSE IF \E p \in Process : Active(p) THEN "starting" ELSE "stopped"

\* The start is that of Service: it serves once or gives up, and on every path out of main() the
\* record on disk only grows, unless it could not be read or a save failed half way.
Promise == INSTANCE Service WITH status <- Status, history <- statefile, readable <- ~unread


\* trailermatic.c:508: "check if Prowl API key is given, and if it is valid".
KeyVerified == prowl_key_valid = 1 => verified

=============================================================================
