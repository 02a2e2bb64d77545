------------------------------ MODULE Launcher ------------------------------
(***************************************************************************)
(* `sc start` and `sc stop` (src/cli/commands/start.ts, stop.ts) over the  *)
(* processes they start and end, the PID file and the supervisor's socket. *)
(*                                                                         *)
(* `sc start` is a process of its own, the launcher: it spawns the         *)
(* supervisor, waits for its socket, spawns the gateway, waits for its     *)
(* HTTP port, writes the PID file and only then listens for the exits of   *)
(* the two and for signals.  Its children are detached and outlive it.     *)
(* What a launcher does between two waits is one step.  `sc stop` is       *)
(* another process that ends whatever it finds; its signals, its sweep and *)
(* its removal of the files are steps of their own.                        *)
(*                                                                         *)
(* A process is named by its launcher and its role; the replacement is the *)
(* supervisor that is spawned when the first one exits.  PIDs are not      *)
(* reused.  systemd's own stop command is `sc stop` again.                 *)
(***************************************************************************)
EXTENDS Integers, FiniteSets

CONSTANTS
  Launchers,   \* runs of `sc start`
  MaxCrashes   \* bound on processes that die by themselves

ASSUME LauncherAssumption == MaxCrashes \in Nat

Processes   == Launchers \X {"supervisor", "replacement", "gateway"}
Supervisors == Launchers \X {"supervisor", "replacement"}
Gateways    == Launchers \X {"gateway"}

VARIABLES
  launcher,   \* where each run of `sc start` stands
  process,    \* where each process stands
  told,       \* processes with a SIGTERM, or a timer of it, on the way
  noticed,    \* processes whose exit event their launcher has emitted
  restart,    \* launchers with a timer that replaces the supervisor
  pidFile,    \* the processes the PID file names, {} without the file
  socket,     \* the supervisor whose socket the socket file is, if any
  stop,       \* where `sc stop` stands; "done" until the next start
  crashes,    \* processes that died by themselves
  overlap     \* history: a start met something that runs or stops, or a stop
              \* met a start

vars == << launcher, process, told, noticed, restart, pidFile, socket, stop,
           crashes, overlap >>

files == << pidFile, socket >>

Alive(p) == process[p] \in {"started", "up", "clashed"}

\* supervisorProc, and the two processes shutdown() knows.
Current(l) ==
  IF process[<< l, "replacement" >>] = "none" THEN << l, "supervisor" >>
                                              ELSE << l, "replacement" >>

Own(l) == {Current(l), << l, "gateway" >>}

Starting(l) == launcher[l] \in {"waitSocket", "waitHttp"}

\* Nothing runs, and nothing is being started or stopped.
Quiet ==
  /\ \A p \in Processes : ~Alive(p)
  /\ \A l \in Launchers : launcher[l] \in {"off", "stopped", "ended"}
  /\ stop \in {"idle", "done"}

Init ==
  /\ launcher = [l \in Launchers |-> "off"]
  /\ process = [p \in Processes |-> "none"]
  /\ told = {}
  /\ noticed = {}
  /\ restart = {}
  /\ pidFile = {}
  /\ socket = {}
  /\ stop = "idle"
  /\ crashes = 0
  /\ overlap = FALSE

-----------------------------------------------------------------------------
(* The processes.                                                          *)

\* Mutant of SupervisorListens: a socket file that is there stays there.
SupervisorListensBeside(p) ==
  /\ process[p] = "started"
  /\ socket' = IF socket = {} THEN {p} ELSE socket
  /\ process' = [process EXCEPT ![p] =
       IF \E q \in Supervisors : process[q] = "up" THEN "clashed" ELSE "up"]
  /\ UNCHANGED << launcher, told, noticed, restart, pidFile, stop, crashes, overlap >>

\* startServer() removes whatever socket file is there and binds its own; if
\* another supervisor has the proxy's port, the error of that listen, which
\* nothing handles, comes right after.
SupervisorListens(p) ==
  /\ process[p] = "started"
  /\ socket' = {p}
  /\ process' = [process EXCEPT ![p] =
       IF \E q \in Supervisors : process[q] = "up" THEN "clashed" ELSE "up"]
  /\ UNCHANGED << launcher, told, noticed, restart, pidFile, stop, crashes, overlap >>

\* The gateway serves HTTP, unless another one has the port.
GatewayListens(p) ==
  /\ process[p] = "started"
  /\ process' = [process EXCEPT ![p] =
       IF \E q \in Gateways : process[q] = "up" THEN "dead" ELSE "up"]
  /\ told' = { q \in told : process'[q] # "dead" }
  /\ UNCHANGED << launcher, noticed, restart, files, stop, crashes, overlap >>

\* A crash, a refused boot (no sandbox), or the error after a clash.  The
\* socket file stays.
Dies(p) ==
  /\ Alive(p)
  /\ process[p] # "clashed" => crashes < MaxCrashes
  /\ crashes' = IF process[p] = "clashed" THEN crashes ELSE crashes + 1
  /\ process' = [process EXCEPT ![p] = "dead"]
  /\ told' = told \ {p}
  /\ UNCHANGED << launcher, noticed, restart, files, stop, overlap >>

\* SIGTERM, or the SIGKILL that follows it: a supervisor that handles the
\* signal removes the socket file, whosever it is.
Terminated(p) ==
  /\ p \in told
  /\ process' = [process EXCEPT ![p] = "dead"]
  /\ told' = told \ {p}
  /\ \/ p \in Supervisors /\ socket' = {}
     \/ UNCHANGED socket
  /\ UNCHANGED << launcher, noticed, restart, pidFile, stop, crashes, overlap >>

-----------------------------------------------------------------------------
(* `sc start`.                                                             *)

\* The PID file is checked, and removed if nothing it names is alive; then the
\* supervisor is spawned.
Start(l) ==
  /\ launcher[l] = "off"
  /\ overlap' = (overlap \/ ~Quiet)
  /\ stop' = IF stop = "done" THEN "idle" ELSE stop
  /\ IF \E p \in pidFile : Alive(p)
       THEN /\ launcher' = [launcher EXCEPT ![l] = "ended"]
            /\ UNCHANGED << process, pidFile >>
       ELSE /\ launcher' = [launcher EXCEPT ![l] = "waitSocket"]
            /\ process' = [process EXCEPT ![<< l, "supervisor" >>] = "started"]
            /\ pidFile' = {}
  /\ UNCHANGED << told, noticed, restart, socket, crashes >>

\* waitForSocket() connects - to whoever listens - and the gateway is spawned.
SocketReady(l) ==
  /\ launcher[l] = "waitSocket"
  /\ \E p \in socket : Alive(p)
  /\ launcher' = [launcher EXCEPT ![l] = "waitHttp"]
  /\ process' = [process EXCEPT ![<< l, "gateway" >>] = "started"]
  /\ UNCHANGED << told, noticed, restart, files, stop, crashes, overlap >>

\* waitForHttp() gets an answer - from whoever serves the port.  The PID file
\* is written and the handlers are registered before the next event.
HttpReady(l) ==
  /\ launcher[l] = "waitHttp"
  /\ \E p \in Gateways : process[p] = "up"
  /\ launcher' = [launcher EXCEPT ![l] = "running"]
  /\ pidFile' = Own(l)
  /\ UNCHANGED << process, told, noticed, restart, socket, stop, crashes, overlap >>

\* Mutant of Leaves: the timer of the restart does not ask for shuttingDown.
LeavesTimer(l, where) ==
  /\ launcher' = [launcher EXCEPT ![l] = where]
  /\ noticed' = { p \in noticed : p[1] # l }
  /\ UNCHANGED restart

\* The launcher does not run any more (shuttingDown, or it exits): its exit
\* handlers and the timer of the restart do nothing from here on.
Leaves(l, where) ==
  /\ launcher' = [launcher EXCEPT ![l] = where]
  /\ restart' = restart \ {l}
  /\ noticed' = { p \in noticed : p[1] # l }

\* A wait times out, or a signal arrives before its handler: the launcher ends
\* and leaves what it started.
StartFails(l) ==
  /\ Starting(l)
  /\ Leaves(l, "ended")
  /\ UNCHANGED << process, told, files, stop, crashes, overlap >>

\* shutdown(): both processes get a SIGTERM, the files go.
Shutdown(l) ==
  /\ Leaves(l, "stopping")
  /\ told' = told \cup { p \in Own(l) : Alive(p) }
  /\ pidFile' = {}
  /\ socket' = {}

\* SIGINT or SIGTERM to a launcher that is running.
Interrupt(l) ==
  /\ launcher[l] = "running"
  /\ Shutdown(l)
  /\ UNCHANGED << process, stop, crashes, overlap >>

\* Mutant of ForceKill: it kills the supervisor that was spawned first.
ForceKillFirst(l) ==
  /\ launcher[l] = "stopping"
  /\ launcher' = [launcher EXCEPT ![l] = "stopped"]
  /\ process' = [p \in Processes |->
       IF p \in {<< l, "supervisor" >>, << l, "gateway" >>} /\ Alive(p)
         THEN "dead" ELSE process[p]]
  /\ told' = { p \in told : process'[p] # "dead" }
  /\ UNCHANGED << noticed, restart, files, stop, crashes, overlap >>

\* Three seconds later both get a SIGKILL, and the launcher exits.
ForceKill(l) ==
  /\ launcher[l] = "stopping"
  /\ launcher' = [launcher EXCEPT ![l] = "stopped"]
  /\ process' = [p \in Processes |->
       IF p \in Own(l) /\ Alive(p) THEN "dead" ELSE process[p]]
  /\ told' = { p \in told : process'[p] # "dead" }
  /\ UNCHANGED << noticed, restart, files, stop, crashes, overlap >>

\* The exit of the first supervisor: while running it sets the timer of the
\* restart, before that nobody listens.  The replacement has no handler.
SupervisorExit(l) ==
  /\ Starting(l) \/ launcher[l] = "running"
  /\ process[<< l, "supervisor" >>] = "dead"
  /\ << l, "supervisor" >> \notin noticed
  /\ noticed' = noticed \cup {<< l, "supervisor" >>}
  /\ restart' = IF launcher[l] = "running" THEN restart \cup {l} ELSE restart
  /\ UNCHANGED << launcher, process, told, files, stop, crashes, overlap >>

\* The timer of the restart.
Restart(l) ==
  /\ l \in restart
  /\ process' = [process EXCEPT ![<< l, "replacement" >>] = "started"]
  /\ restart' = restart \ {l}
  /\ UNCHANGED << launcher, told, noticed, files, stop, crashes, overlap >>

\* Mutant of GatewayExit: the exit is printed, and that is all.
GatewayExitOnly(l) ==
  /\ Starting(l) \/ launcher[l] = "running"
  /\ process[<< l, "gateway" >>] = "dead"
  /\ << l, "gateway" >> \notin noticed
  /\ noticed' = noticed \cup {<< l, "gateway" >>}
  /\ UNCHANGED << launcher, process, told, restart, files, stop, crashes, overlap >>

\* The exit of the gateway shuts a running launcher down.
GatewayExit(l) ==
  /\ Starting(l) \/ launcher[l] = "running"
  /\ process[<< l, "gateway" >>] = "dead"
  /\ << l, "gateway" >> \notin noticed
  /\ IF launcher[l] = "running"
       THEN Shutdown(l)
       ELSE /\ noticed' = noticed \cup {<< l, "gateway" >>}
            /\ UNCHANGED << launcher, told, restart, files >>
  /\ UNCHANGED << process, stop, crashes, overlap >>

\* The launcher is killed; its children do not.
Hangup(l) ==
  /\ launcher[l] \in {"running", "stopping"}
  /\ Leaves(l, "ended")
  /\ UNCHANGED << process, told, files, stop, crashes, overlap >>

-----------------------------------------------------------------------------
(* `sc stop`.                                                              *)

\* The processes of the PID file get a SIGTERM and a timer for a SIGKILL.
StopBegins ==
  /\ stop \in {"idle", "done"}
  /\ overlap' = (overlap \/ \E l \in Launchers : Starting(l))
  /\ told' = told \cup { p \in pidFile : Alive(p) }
  /\ pidFile' = {}
  /\ stop' = "sweep"
  /\ UNCHANGED << launcher, process, noticed, restart, socket, crashes >>

\* Mutant of StopSweeps: only what holds a port is found.
StopSweepsPorts ==
  /\ stop = "sweep"
  /\ process' = [p \in Processes |-> IF process[p] = "up" THEN "dead" ELSE process[p]]
  /\ told' = { p \in told : process'[p] # "dead" }
  /\ stop' = "clean"
  /\ UNCHANGED << launcher, noticed, restart, files, crashes, overlap >>

\* killByPattern() sends a SIGTERM to every supervisor and gateway, and
\* killByPort() a SIGKILL to those that hold a port, which may or may not have
\* handled the first signal by then.
StopSweeps ==
  /\ stop = "sweep"
  /\ process' = [p \in Processes |-> IF process[p] = "up" THEN "dead" ELSE process[p]]
  /\ told' = { p \in Processes : process[p] \in {"started", "clashed"} }
  /\ \/ socket' = {} /\ \E p \in Supervisors : process[p] = "up"
     \/ UNCHANGED socket
  /\ stop' = "clean"
  /\ UNCHANGED << launcher, noticed, restart, pidFile, crashes, overlap >>

StopCleans ==
  /\ stop = "clean"
  /\ pidFile' = {}
  /\ socket' = {}
  /\ stop' = "done"
  /\ UNCHANGED << launcher, process, told, noticed, restart, crashes, overlap >>

-----------------------------------------------------------------------------
Next ==
  \/ \E p \in Supervisors : SupervisorListens(p)
  \/ \E p \in Gateways : GatewayListens(p)
  \/ \E p \in Processes : Dies(p) \/ Terminated(p)
  \/ \E l \in Launchers :
       \/ Start(l)
       \/ SocketReady(l)
       \/ HttpReady(l)
       \/ StartFails(l)
       \/ Interrupt(l)
       \/ ForceKill(l)
       \/ SupervisorExit(l)
       \/ Restart(l)
       \/ GatewayExit(l)
       \/ Hangup(l)
  \/ StopBegins
  \/ StopSweeps
  \/ StopCleans

Spec == Init /\ [][Next]_vars

-----------------------------------------------------------------------------
(* Properties.                                                             *)

\* The types of all variables; the socket file is one supervisor's, and a
\* replacement follows a supervisor that is dead.
TypeOK ==
  /\ launcher \in [Launchers -> {"off", "waitSocket", "waitHttp", "running",
                                 "stopping", "stopped", "ended"}]
  /\ process \in [Processes -> {"none", "started", "up", "clashed", "dead"}]
  /\ told \subseteq { p \in Processes : Alive(p) }
  /\ noticed \subseteq Processes
  /\ restart \subseteq { l \in Launchers : launcher[l] = "running" }
  /\ pidFile \subseteq Processes
  /\ socket \subseteq Supervisors
  /\ Cardinality(socket) <= 1
  /\ stop \in {"idle", "sweep", "clean", "done"}
  /\ crashes \in 0..MaxCrashes
  /\ overlap \in BOOLEAN
  /\ \A l \in Launchers :
       process[<< l, "replacement" >>] # "none" => process[<< l, "supervisor" >>] = "dead"

NothingLeft(l) == \A p \in Processes : p[1] = l => ~Alive(p)

\* What a launcher started is gone when its shutdown is over, the replacement
\* of the supervisor included, and nothing of it starts again (start.ts:
\* shutdown, the restart timer and `shuttingDown`).
ShutdownLeavesNothing ==
  \A l \in Launchers : launcher[l] = "stopped" => NothingLeft(l)

\* While a launcher runs and nobody stops it, the socket file leads to its
\* supervisor as soon as that one is up, also after a restart (main.ts:
\* startServer; the gateway connects through it).  Starts that met something
\* running are the exception: they take the socket over.
SocketIsServed ==
  \A l \in Launchers :
    launcher[l] = "running" /\ process[Current(l)] = "up" /\ stop = "idle" /\ ~overlap
      => socket = {Current(l)}

\* No signal, exit event, timer or command is on its way.
Settled ==
  /\ told = {} /\ restart = {} /\ stop \in {"idle", "done"}
  /\ \A l \in Launchers :
       /\ ~Starting(l) /\ launcher[l] # "stopping"
       /\ launcher[l] = "running"
            => \A r \in {"supervisor", "gateway"} :
                 process[<< l, r >>] = "dead" => << l, r >> \in noticed

\* A launcher does not go on without its gateway: once everything has settled
\* it has ended, whatever else died or was signalled meanwhile (start.ts: the
\* exit handler of the gateway).  A start that met another one can miss the
\* exit: the other gateway answered in the place of its own.
NoneWithoutGateway ==
  Settled /\ ~overlap =>
    \A l \in Launchers : launcher[l] = "running" => process[<< l, "gateway" >>] # "dead"

\* `sc stop` leaves nothing running, however the restart timer of a launcher
\* and the exits of its two processes interleave with the sweep (stop.ts; the
\* supervisor that is swept is restarted by its launcher, and is only ended
\* because the gateway's exit shuts the launcher down) - but for the
\* replacement of a launcher that was killed in between.
StopLeavesNothing ==
  stop = "done" /\ Settled /\ ~overlap =>
    \A p \in Processes :
      Alive(p) => p[2] = "replacement" /\ launcher[p[1]] = "ended"
=============================================================================
