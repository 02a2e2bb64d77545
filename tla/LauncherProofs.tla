--------------------------- MODULE LauncherProofs ---------------------------
(***************************************************************************)
(* The promises of `sc start` and `sc stop` for every number of launchers  *)
(* and of crashes.  Without overlaps everything rests on one fact: while a *)
(* launcher is at work no other one is, nor anything that one started.     *)
(***************************************************************************)
EXTENDS Launcher, FiniteSetTheorems, TLAPS

Roles == {"supervisor", "replacement", "gateway"}

\* At work: between its first spawn and the end of its shutdown.
Active(l) == launcher[l] \notin {"off", "stopped", "ended"}

-----------------------------------------------------------------------------
(* The invariant.                                                          *)

\* How far the processes of a launcher are follows from how far it is.
BornInOrder ==
  \A l \in Launchers :
    /\ launcher[l] = "off" => /\ process[<< l, "supervisor" >>] = "none"
                              /\ process[<< l, "replacement" >>] = "none"
                              /\ process[<< l, "gateway" >>] = "none"
    /\ launcher[l] = "waitSocket" => process[<< l, "gateway" >>] = "none"
    /\ launcher[l] \in {"waitHttp", "running"} => process[<< l, "gateway" >>] # "none"
    /\ l \in restart => process[<< l, "supervisor" >>] = "dead"

\* Exits are of the first two processes, and of dead ones.
NoticedAreDead ==
  \A p \in noticed : p[2] \in {"supervisor", "gateway"} /\ process[p] = "dead"

\* A launcher at work is alone, and only a launcher that was not is running
\* although it has heard of its gateway's exit.
Alone ==
  ~overlap =>
    \A l \in Launchers :
      /\ Active(l) => \A k \in Launchers \ {l} : ~Active(k) /\ NothingLeft(k)
      /\ launcher[l] = "running" => << l, "gateway" >> \notin noticed

\* No signal is under way to the processes of a launcher that nobody stops,
\* and the socket file is its supervisor's.
SocketOf(l) ==
  /\ told = {}
  /\ process[Current(l)] = "up" => socket = {Current(l)}

SocketInv ==
  stop = "idle" /\ ~overlap =>
    \A l \in Launchers : Starting(l) \/ launcher[l] = "running" => SocketOf(l)

\* While `sc stop` is at work nothing is being started, and what its sweep has
\* found is dead or will be.
Swept ==
  /\ stop # "idle" => \A l \in Launchers : ~Starting(l)
  /\ stop \in {"clean", "done"} =>
       \A p \in Processes : Alive(p) /\ p[2] # "replacement" => p \in told

SweptInv == ~overlap => Swept

LauncherInv ==
  /\ TypeOK
  /\ BornInOrder
  /\ NoticedAreDead
  /\ ShutdownLeavesNothing
  /\ Alone
  /\ SocketInv
  /\ SweptInv

-----------------------------------------------------------------------------
(* Facts about the names of processes.                                     *)

LEMMA Names ==
  /\ \A l \in Launchers : /\ << l, "supervisor" >> \in Processes
                            /\ << l, "replacement" >> \in Processes
                            /\ << l, "gateway" >> \in Processes
  /\ \A p \in Processes : /\ p[1] \in Launchers /\ p[2] \in Roles
                          /\ p = << p[1], p[2] >>
  /\ Supervisors \subseteq Processes /\ Gateways \subseteq Processes
  /\ \A p \in Supervisors : p[2] \in {"supervisor", "replacement"}
  /\ \A p \in Gateways : p[2] = "gateway"
  /\ \A l \in Launchers : Own(l) \subseteq Processes /\ Current(l) \in Supervisors
BY DEF Processes, Supervisors, Gateways, Roles, Own, Current

\* The socket file is one supervisor's at most.
LEMMA OneSocket ==
  /\ Cardinality({}) <= 1
  /\ \A p : Cardinality({p}) <= 1
BY FS_EmptySet, FS_Singleton

LEMMA InvInit == Init => LauncherInv
<1> SUFFICES ASSUME Init
             PROVE  LauncherInv
  OBVIOUS
<1>1. TypeOK
  <2>1. Cardinality(socket) <= 1
    BY OneSocket DEF Init
  <2>2. crashes \in 0..MaxCrashes
    BY LauncherAssumption DEF Init
  <2> QED
    BY <2>1, <2>2, Names DEF Init, TypeOK
<1>2. BornInOrder /\ NoticedAreDead /\ Alone /\ SocketInv /\ SweptInv
  BY Names
     DEF Init, BornInOrder, NoticedAreDead, Alone, SocketInv, SweptInv, Swept,
         Active, NothingLeft, Starting, Current, Alive
<1>3. ShutdownLeavesNothing
  BY DEF Init, ShutdownLeavesNothing
<1> QED
  BY <1>1, <1>2, <1>3 DEF LauncherInv

\* Every step keeps the types.
LEMMA TypeStep ==
  ASSUME LauncherInv, [Next]_vars
  PROVE  TypeOK'
<1> USE DEF LauncherInv, TypeOK, BornInOrder
<1>1. ASSUME NEW p \in Supervisors, SupervisorListens(p)
      PROVE  TypeOK'
  BY <1>1, Names, OneSocket, LauncherAssumption
     DEF SupervisorListens, Alive, files, Starting, Current
<1>2. ASSUME NEW p \in Gateways, GatewayListens(p)
      PROVE  TypeOK'
  BY <1>2, Names, OneSocket, LauncherAssumption
     DEF GatewayListens, Alive, files, Starting, Current
<1>3. ASSUME NEW p \in Processes, Dies(p)
      PROVE  TypeOK'
  BY <1>3, Names, OneSocket, LauncherAssumption
     DEF Dies, Alive, files, Starting, Current
<1>4. ASSUME NEW p \in Processes, Terminated(p)
      PROVE  TypeOK'
  BY <1>4, Names, OneSocket, LauncherAssumption
     DEF Terminated, Alive, files, Starting, Current
<1>5. ASSUME NEW l \in Launchers, Start(l)
      PROVE  TypeOK'
  <2>1. /\ process' \in [Processes -> {"none", "started", "up", "clashed", "dead"}]
        /\ launcher' \in [Launchers -> {"off", "waitSocket", "waitHttp", "running",
                                        "stopping", "stopped", "ended"}]
    BY <1>5, Names DEF Start
  <2>2. told' \subseteq { p \in Processes : Alive(p)' }
    BY <1>5, Names DEF Start, Alive
  <2>3. restart' \subseteq { k \in Launchers : launcher'[k] = "running" }
    BY <1>5 DEF Start
  <2>4. pidFile' \subseteq Processes /\ overlap' \in BOOLEAN
    BY <1>5 DEF Start, Quiet
  <2>5. \A k \in Launchers : process'[<< k, "replacement" >>] # "none" =>
                               process'[<< k, "supervisor" >>] = "dead"
    <3>1. process[<< l, "replacement" >>] = "none"
      BY <1>5 DEF Start
    <3>2. \A k \in Launchers :
            /\ process'[<< k, "replacement" >>] = process[<< k, "replacement" >>]
            /\ k # l => process'[<< k, "supervisor" >>] = process[<< k, "supervisor" >>]
      BY <1>5, Names DEF Start
    <3> QED
      BY <3>1, <3>2
  <2> QED
    BY <1>5, <2>1, <2>2, <2>3, <2>4, <2>5 DEF Start
<1>6. ASSUME NEW l \in Launchers, SocketReady(l)
      PROVE  TypeOK'
  BY <1>6, Names, OneSocket, LauncherAssumption
     DEF SocketReady, Alive, files, Starting, Current
<1>7. ASSUME NEW l \in Launchers, HttpReady(l)
      PROVE  TypeOK'
  BY <1>7, Names, OneSocket, LauncherAssumption
     DEF HttpReady, Alive, files, Own, Starting, Current
<1>8. ASSUME NEW l \in Launchers, StartFails(l)
      PROVE  TypeOK'
  BY <1>8, Names, OneSocket, LauncherAssumption
     DEF StartFails, Leaves, Alive, files, Starting, Current
<1>9. ASSUME NEW l \in Launchers, Interrupt(l)
      PROVE  TypeOK'
  <2>1. told' \subseteq { p \in Processes : Alive(p)' }
    BY <1>9, Names DEF Interrupt, Shutdown, Leaves, Alive
  <2>2. restart' \subseteq { k \in Launchers : launcher'[k] = "running" }
    BY <1>9 DEF Interrupt, Shutdown, Leaves
  <2> QED
    BY <1>9, <2>1, <2>2, OneSocket DEF Interrupt, Shutdown, Leaves
<1>10. ASSUME NEW l \in Launchers, ForceKill(l)
      PROVE  TypeOK'
  BY <1>10, Names, OneSocket, LauncherAssumption
     DEF ForceKill, Alive, files, Own, Starting, Current
<1>11. ASSUME NEW l \in Launchers, SupervisorExit(l)
      PROVE  TypeOK'
  <2>1. noticed' \subseteq Processes
    <3>1. noticed' = noticed \cup {<< l, "supervisor" >>}
      BY <1>11 DEF SupervisorExit
    <3>2. << l, "supervisor" >> \in Processes
      BY Names
    <3> QED
      BY <3>1, <3>2
  <2>2. restart' \subseteq { k \in Launchers : launcher'[k] = "running" }
    BY <1>11 DEF SupervisorExit
  <2> QED
    BY <1>11, <2>1, <2>2 DEF SupervisorExit, files, Alive
<1>12. ASSUME NEW l \in Launchers, Restart(l)
      PROVE  TypeOK'
  BY <1>12, Names, OneSocket, LauncherAssumption
     DEF Restart, Alive, files, Starting, Current
<1>13. ASSUME NEW l \in Launchers, GatewayExit(l)
      PROVE  TypeOK'
  <2>1. told' \subseteq { p \in Processes : Alive(p)' }
    BY <1>13, Names DEF GatewayExit, Shutdown, Leaves, Alive
  <2>2. restart' \subseteq { k \in Launchers : launcher'[k] = "running" }
    BY <1>13 DEF GatewayExit, Shutdown, Leaves
  <2>3. noticed' \subseteq Processes
    <3>1. noticed' \subseteq noticed \cup {<< l, "gateway" >>}
      BY <1>13 DEF GatewayExit, Shutdown, Leaves
    <3>2. << l, "gateway" >> \in Processes
      BY Names
    <3> QED
      BY <3>1, <3>2
  <2>4. pidFile' \subseteq Processes /\ socket' \subseteq Supervisors
        /\ Cardinality(socket') <= 1
    BY <1>13, OneSocket DEF GatewayExit, Shutdown, files
  <2>5. launcher' \in [Launchers -> {"off", "waitSocket", "waitHttp", "running",
                                     "stopping", "stopped", "ended"}]
    BY <1>13 DEF GatewayExit, Shutdown, Leaves
  <2> QED
    BY <1>13, <2>1, <2>2, <2>3, <2>4, <2>5 DEF GatewayExit
<1>14. ASSUME NEW l \in Launchers, Hangup(l)
      PROVE  TypeOK'
  BY <1>14, Names, OneSocket, LauncherAssumption
     DEF Hangup, Leaves, Alive, files, Starting, Current
<1>15. CASE StopBegins
  BY <1>15, Names, OneSocket, LauncherAssumption
     DEF StopBegins, Alive, files, Starting, Current
<1>16. CASE StopSweeps
  BY <1>16, Names, OneSocket, LauncherAssumption
     DEF StopSweeps, Alive, files, Starting, Current
<1>17. CASE StopCleans
  BY <1>17, Names, OneSocket, LauncherAssumption
     DEF StopCleans, Alive, files, Starting, Current
<1>18. CASE UNCHANGED vars
  BY <1>18 DEF vars, Alive, files, Starting, Current
<1> QED
  BY <1>1, <1>2, <1>3, <1>4, <1>5, <1>6, <1>7, <1>8, <1>9, <1>10, <1>11, <1>12,
     <1>13, <1>14, <1>15, <1>16, <1>17, <1>18
     DEF Next

\* Processes are spawned in the order of the launcher's waits.
LEMMA BornStep ==
  ASSUME LauncherInv, [Next]_vars
  PROVE  BornInOrder'
<1> USE DEF LauncherInv, TypeOK, BornInOrder
<1>1. ASSUME NEW p \in Supervisors, SupervisorListens(p)
      PROVE  BornInOrder'
  BY <1>1, Names DEF SupervisorListens, Alive
<1>2. ASSUME NEW p \in Gateways, GatewayListens(p)
      PROVE  BornInOrder'
  BY <1>2, Names DEF GatewayListens, Alive
<1>3. ASSUME NEW p \in Processes, Dies(p)
      PROVE  BornInOrder'
  BY <1>3, Names DEF Dies, Alive
<1>4. ASSUME NEW p \in Processes, Terminated(p)
      PROVE  BornInOrder'
  BY <1>4, Names DEF Terminated, Alive
<1>5. ASSUME NEW l \in Launchers, Start(l)
      PROVE  BornInOrder'
  <2>1. /\ launcher' = [launcher EXCEPT ![l] = "ended"] /\ process' = process
        \/ /\ launcher' = [launcher EXCEPT ![l] = "waitSocket"]
           /\ process' = [process EXCEPT ![<< l, "supervisor" >>] = "started"]
    BY <1>5 DEF Start
  <2>2. restart' = restart /\ l \notin restart
    BY <1>5 DEF Start
  <2>3. process[<< l, "gateway" >>] = "none"
    BY <1>5 DEF Start
  <2>4. \A k \in Launchers :
          /\ process'[<< k, "gateway" >>] = process[<< k, "gateway" >>]
          /\ process'[<< k, "replacement" >>] = process[<< k, "replacement" >>]
          /\ k # l => process'[<< k, "supervisor" >>] = process[<< k, "supervisor" >>]
    BY <2>1, Names
  <2>5. /\ launcher'[l] \in {"ended", "waitSocket"}
        /\ \A k \in Launchers \ {l} : launcher'[k] = launcher[k]
    BY <2>1
  <2>6. ASSUME NEW k \in Launchers
        PROVE  /\ launcher'[k] = "off" => /\ process'[<< k, "supervisor" >>] = "none"
                                          /\ process'[<< k, "replacement" >>] = "none"
                                          /\ process'[<< k, "gateway" >>] = "none"
               /\ launcher'[k] = "waitSocket" => process'[<< k, "gateway" >>] = "none"
               /\ launcher'[k] \in {"waitHttp", "running"} =>
                    process'[<< k, "gateway" >>] # "none"
               /\ k \in restart' => process'[<< k, "supervisor" >>] = "dead"
    <3>1. CASE k = l
      BY <2>2, <2>3, <2>4, <2>5, <3>1
    <3>2. CASE k # l
      BY <2>2, <2>4, <2>5, <3>2
    <3> QED
      BY <3>1, <3>2
  <2> QED
    BY <2>6
<1>6. ASSUME NEW l \in Launchers, SocketReady(l)
      PROVE  BornInOrder'
  BY <1>6, Names DEF SocketReady, Alive
<1>7. ASSUME NEW l \in Launchers, HttpReady(l)
      PROVE  BornInOrder'
  <2>1. /\ launcher[l] = "waitHttp" /\ launcher' = [launcher EXCEPT ![l] = "running"]
        /\ process' = process /\ restart' = restart
    BY <1>7 DEF HttpReady
  <2> QED
    BY <2>1
<1>8. ASSUME NEW l \in Launchers, StartFails(l)
      PROVE  BornInOrder'
  BY <1>8, Names DEF StartFails, Leaves, Alive
<1>9. ASSUME NEW l \in Launchers, Interrupt(l)
      PROVE  BornInOrder'
  BY <1>9, Names DEF Interrupt, Shutdown, Leaves, Alive
<1>10. ASSUME NEW l \in Launchers, ForceKill(l)
      PROVE  BornInOrder'
  BY <1>10, Names DEF ForceKill, Alive
<1>11. ASSUME NEW l \in Launchers, SupervisorExit(l)
      PROVE  BornInOrder'
  BY <1>11, Names DEF SupervisorExit, Alive
<1>12. ASSUME NEW l \in Launchers, Restart(l)
      PROVE  BornInOrder'
  BY <1>12, Names DEF Restart, Alive
<1>13. ASSUME NEW l \in Launchers, GatewayExit(l)
      PROVE  BornInOrder'
  <2>1. \/ launcher' = launcher /\ restart' = restart
        \/ launcher' = [launcher EXCEPT ![l] = "stopping"] /\ restart' = restart \ {l}
    BY <1>13 DEF GatewayExit, Shutdown, Leaves
  <2>2. process' = process
    BY <1>13 DEF GatewayExit
  <2> QED
    BY <2>1, <2>2
<1>14. ASSUME NEW l \in Launchers, Hangup(l)
      PROVE  BornInOrder'
  BY <1>14, Names DEF Hangup, Leaves, Alive
<1>15. CASE StopBegins
  BY <1>15, Names DEF StopBegins, Alive
<1>16. CASE StopSweeps
  BY <1>16, Names DEF StopSweeps, Alive
<1>17. CASE StopCleans
  BY <1>17, Names DEF StopCleans, Alive
<1>18. CASE UNCHANGED vars
  BY <1>18 DEF vars, Alive
<1> QED
  BY <1>1, <1>2, <1>3, <1>4, <1>5, <1>6, <1>7, <1>8, <1>9, <1>10, <1>11, <1>12,
     <1>13, <1>14, <1>15, <1>16, <1>17, <1>18
     DEF Next

\* An exit that has been emitted is that of a process that stays dead.
LEMMA NoticedStep ==
  ASSUME LauncherInv, [Next]_vars
  PROVE  NoticedAreDead'
<1> USE DEF LauncherInv, TypeOK, BornInOrder, NoticedAreDead
<1>1. ASSUME NEW p \in Supervisors, SupervisorListens(p)
      PROVE  NoticedAreDead'
  BY <1>1, Names DEF SupervisorListens, Alive
<1>2. ASSUME NEW p \in Gateways, GatewayListens(p)
      PROVE  NoticedAreDead'
  BY <1>2, Names DEF GatewayListens, Alive
<1>3. ASSUME NEW p \in Processes, Dies(p)
      PROVE  NoticedAreDead'
  BY <1>3, Names DEF Dies, Alive
<1>4. ASSUME NEW p \in Processes, Terminated(p)
      PROVE  NoticedAreDead'
  BY <1>4, Names DEF Terminated, Alive
<1>5. ASSUME NEW l \in Launchers, Start(l)
      PROVE  NoticedAreDead'
  <2>1. << l, "supervisor" >> \notin noticed
    BY <1>5 DEF Start
  <2>2. /\ process' = process \/ process' = [process EXCEPT ![<< l, "supervisor" >>] = "started"]
        /\ noticed' = noticed
    BY <1>5 DEF Start
  <2> QED
    BY <2>1, <2>2
<1>6. ASSUME NEW l \in Launchers, SocketReady(l)
      PROVE  NoticedAreDead'
  BY <1>6, Names DEF SocketReady, Alive
<1>7. ASSUME NEW l \in Launchers, HttpReady(l)
      PROVE  NoticedAreDead'
  BY <1>7, Names DEF HttpReady, Alive
<1>8. ASSUME NEW l \in Launchers, StartFails(l)
      PROVE  NoticedAreDead'
  BY <1>8, Names DEF StartFails, Leaves, Alive
<1>9. ASSUME NEW l \in Launchers, Interrupt(l)
      PROVE  NoticedAreDead'
  BY <1>9, Names DEF Interrupt, Shutdown, Leaves, Alive
<1>10. ASSUME NEW l \in Launchers, ForceKill(l)
      PROVE  NoticedAreDead'
  BY <1>10, Names DEF ForceKill, Alive
<1>11. ASSUME NEW l \in Launchers, SupervisorExit(l)
      PROVE  NoticedAreDead'
  <2>1. /\ noticed' = noticed \cup {<< l, "supervisor" >>} /\ process' = process
        /\ process[<< l, "supervisor" >>] = "dead"
    BY <1>11 DEF SupervisorExit
  <2> QED
    BY <2>1
<1>12. ASSUME NEW l \in Launchers, Restart(l)
      PROVE  NoticedAreDead'
  BY <1>12, Names DEF Restart, Alive
<1>13. ASSUME NEW l \in Launchers, GatewayExit(l)
      PROVE  NoticedAreDead'
  <2>1. /\ noticed' \subseteq noticed \cup {<< l, "gateway" >>} /\ process' = process
        /\ process[<< l, "gateway" >>] = "dead"
    BY <1>13 DEF GatewayExit, Shutdown, Leaves
  <2> QED
    BY <2>1
<1>14. ASSUME NEW l \in Launchers, Hangup(l)
      PROVE  NoticedAreDead'
  BY <1>14, Names DEF Hangup, Leaves, Alive
<1>15. CASE StopBegins
  BY <1>15, Names DEF StopBegins, Alive
<1>16. CASE StopSweeps
  BY <1>16, Names DEF StopSweeps, Alive
<1>17. CASE StopCleans
  BY <1>17, Names DEF StopCleans, Alive
<1>18. CASE UNCHANGED vars
  BY <1>18 DEF vars, Alive
<1> QED
  BY <1>1, <1>2, <1>3, <1>4, <1>5, <1>6, <1>7, <1>8, <1>9, <1>10, <1>11, <1>12,
     <1>13, <1>14, <1>15, <1>16, <1>17, <1>18
     DEF Next

\* What a shutdown ended is ended for good.
LEMMA ShutdownStep ==
  ASSUME LauncherInv, [Next]_vars
  PROVE  ShutdownLeavesNothing'
<1> USE DEF LauncherInv, TypeOK, ShutdownLeavesNothing, NothingLeft
<1>1. ASSUME NEW p \in Supervisors, SupervisorListens(p)
      PROVE  ShutdownLeavesNothing'
  BY <1>1, Names DEF SupervisorListens, files, Alive, Current, Starting
<1>2. ASSUME NEW p \in Gateways, GatewayListens(p)
      PROVE  ShutdownLeavesNothing'
  BY <1>2, Names DEF GatewayListens, files, Alive, Current, Starting
<1>3. ASSUME NEW p \in Processes, Dies(p)
      PROVE  ShutdownLeavesNothing'
  BY <1>3, Names DEF Dies, files, Alive, Current, Starting
<1>4. ASSUME NEW p \in Processes, Terminated(p)
      PROVE  ShutdownLeavesNothing'
  BY <1>4, Names DEF Terminated, files, Alive, Current, Starting
<1>5. ASSUME NEW l \in Launchers, Start(l)
      PROVE  ShutdownLeavesNothing'
  BY <1>5, Names DEF Start, Roles, files, Alive, Current, Starting
<1>6. ASSUME NEW l \in Launchers, SocketReady(l)
      PROVE  ShutdownLeavesNothing'
  BY <1>6, Names DEF SocketReady, files, Alive, Current, Starting
<1>7. ASSUME NEW l \in Launchers, HttpReady(l)
      PROVE  ShutdownLeavesNothing'
  BY <1>7, Names DEF HttpReady, files, Alive, Own, Current, Starting
<1>8. ASSUME NEW l \in Launchers, StartFails(l)
      PROVE  ShutdownLeavesNothing'
  BY <1>8, Names DEF StartFails, Leaves, files, Alive, Current, Starting
<1>9. ASSUME NEW l \in Launchers, Interrupt(l)
      PROVE  ShutdownLeavesNothing'
  BY <1>9, Names
     DEF Interrupt, Shutdown, Leaves, files, Alive, Own, Current, Starting
<1>10. ASSUME NEW l \in Launchers, ForceKill(l)
      PROVE  ShutdownLeavesNothing'
  BY <1>10, Names DEF ForceKill, Roles, files, Alive, Own, Current, Starting
<1>11. ASSUME NEW l \in Launchers, SupervisorExit(l)
      PROVE  ShutdownLeavesNothing'
  BY <1>11, Names DEF SupervisorExit, files, Alive, Current, Starting
<1>12. ASSUME NEW l \in Launchers, Restart(l)
      PROVE  ShutdownLeavesNothing'
  BY <1>12, Names DEF Restart, files, Alive, Current, Starting
<1>13. ASSUME NEW l \in Launchers, GatewayExit(l)
      PROVE  ShutdownLeavesNothing'
  BY <1>13, Names
     DEF GatewayExit, Shutdown, Leaves, files, Alive, Own, Current, Starting
<1>14. ASSUME NEW l \in Launchers, Hangup(l)
      PROVE  ShutdownLeavesNothing'
  BY <1>14, Names DEF Hangup, Leaves, files, Alive, Current, Starting
<1>15. CASE StopBegins
  BY <1>15, Names DEF StopBegins, files, Alive, Current, Starting
<1>16. CASE StopSweeps
  BY <1>16, Names DEF StopSweeps, files, Alive, Current, Starting
<1>17. CASE StopCleans
  BY <1>17, Names DEF StopCleans, files, Alive, Current, Starting
<1>18. CASE UNCHANGED vars
  BY <1>18 DEF vars, files, Alive, Current, Starting
<1> QED
  BY <1>1, <1>2, <1>3, <1>4, <1>5, <1>6, <1>7, <1>8, <1>9, <1>10, <1>11, <1>12,
     <1>13, <1>14, <1>15, <1>16, <1>17, <1>18
     DEF Next

\* What every step does to who is at work and what is alive: a launcher goes
\* to work alone, or there is an overlap from then on; what comes to life
\* belongs to a launcher at work.
Moves ==
  /\ overlap => overlap'
  /\ \A l \in Launchers : Active(l)' /\ ~Active(l) =>
       overlap' \/ (Quiet /\ \A k \in Launchers \ {l} : ~Active(k)')
  /\ \A p \in Processes : Alive(p)' /\ ~Alive(p) => Active(p[1])'

\* What the types say of launchers and processes.
LEMMA Shape ==
  ASSUME LauncherInv
  PROVE  /\ launcher \in [Launchers -> {"off", "waitSocket", "waitHttp", "running",
                                        "stopping", "stopped", "ended"}]
         /\ process \in [Processes -> {"none", "started", "up", "clashed", "dead"}]
         /\ told \subseteq { p \in Processes : Alive(p) }
         /\ restart \subseteq { l \in Launchers : launcher[l] = "running" }
         /\ overlap \in BOOLEAN
BY DEF LauncherInv, TypeOK

\* Every step moves like this.
LEMMA MovesStep ==
  ASSUME LauncherInv, [Next]_vars
  PROVE  Moves
<1> USE DEF Moves, Active
<1>1. ASSUME NEW p \in Supervisors, SupervisorListens(p)
      PROVE  Moves
  BY <1>1, Names, Shape DEF SupervisorListens, Alive
<1>2. ASSUME NEW p \in Gateways, GatewayListens(p)
      PROVE  Moves
  BY <1>2, Names, Shape DEF GatewayListens, Alive
<1>3. ASSUME NEW p \in Processes, Dies(p)
      PROVE  Moves
  BY <1>3, Names, Shape DEF Dies, Alive
<1>4. ASSUME NEW p \in Processes, Terminated(p)
      PROVE  Moves
  BY <1>4, Names, Shape DEF Terminated, Alive
<1>5. ASSUME NEW l \in Launchers, Start(l)
      PROVE  Moves
  <2>1. /\ overlap' = (overlap \/ ~Quiet)
        /\ \A k \in Launchers \ {l} : launcher'[k] = launcher[k]
    BY <1>5, Shape DEF Start
  <2>2. Quiet => \A k \in Launchers : ~Active(k)
    BY DEF Quiet
  <2>3. ASSUME NEW p \in Processes, Alive(p)', ~Alive(p)
        PROVE  Active(p[1])'
    BY <1>5, <2>3, Names, Shape DEF Start, Alive
  <2>4. ASSUME NEW k \in Launchers, Active(k)', ~Active(k), Quiet
        PROVE  \A j \in Launchers \ {k} : ~Active(j)'
    BY <2>1, <2>2, <2>4
  <2> QED
    BY <2>1, <2>3, <2>4
<1>6. ASSUME NEW l \in Launchers, SocketReady(l)
      PROVE  Moves
  BY <1>6, Names, Shape DEF SocketReady, Alive
<1>7. ASSUME NEW l \in Launchers, HttpReady(l)
      PROVE  Moves
  BY <1>7, Names, Shape DEF HttpReady, Alive
<1>8. ASSUME NEW l \in Launchers, StartFails(l)
      PROVE  Moves
  BY <1>8, Names, Shape DEF StartFails, Leaves, Alive
<1>9. ASSUME NEW l \in Launchers, Interrupt(l)
      PROVE  Moves
  BY <1>9, Names, Shape DEF Interrupt, Shutdown, Leaves, Alive
<1>10. ASSUME NEW l \in Launchers, ForceKill(l)
      PROVE  Moves
  BY <1>10, Names, Shape DEF ForceKill, Alive
<1>11. ASSUME NEW l \in Launchers, SupervisorExit(l)
      PROVE  Moves
  BY <1>11, Names, Shape DEF SupervisorExit, Alive
<1>12. ASSUME NEW l \in Launchers, Restart(l)
      PROVE  Moves
  BY <1>12, Names, Shape DEF Restart, Alive
<1>13. ASSUME NEW l \in Launchers, GatewayExit(l)
      PROVE  Moves
  BY <1>13, Names, Shape DEF GatewayExit, Shutdown, Leaves, Alive
<1>14. ASSUME NEW l \in Launchers, Hangup(l)
      PROVE  Moves
  BY <1>14, Names, Shape DEF Hangup, Leaves, Alive
<1>15. CASE StopBegins
  BY <1>15, Names, Shape DEF StopBegins, Alive
<1>16. CASE StopSweeps
  BY <1>16, Names, Shape DEF StopSweeps, Alive
<1>17. CASE StopCleans
  BY <1>17, Names, Shape DEF StopCleans, Alive
<1>18. CASE UNCHANGED vars
  BY <1>18 DEF vars, Alive
<1> QED
  BY <1>1, <1>2, <1>3, <1>4, <1>5, <1>6, <1>7, <1>8, <1>9, <1>10, <1>11, <1>12,
     <1>13, <1>14, <1>15, <1>16, <1>17, <1>18
     DEF Next

\* A launcher at work stays alone.
LEMMA AloneStep ==
  ASSUME LauncherInv, [Next]_vars, ~overlap', NEW l \in Launchers, Active(l)',
         NEW k \in Launchers \ {l}
  PROVE  ~Active(k)' /\ NothingLeft(k)'
<1>0. Moves /\ ~overlap /\ Alone
  BY MovesStep DEF Moves, LauncherInv
<1>1. CASE Active(l)
  <2>1. ~Active(k) /\ NothingLeft(k)
    BY <1>0, <1>1 DEF Alone
  <2>2. ~Active(k)'
    BY <1>0, <1>1, <2>1 DEF Moves, Quiet, Active
  <2> QED
    BY <1>0, <2>1, <2>2 DEF Moves, NothingLeft
<1>2. CASE ~Active(l)
  <2>1. Quiet /\ ~Active(k)'
    BY <1>0, <1>2 DEF Moves
  <2> QED
    BY <1>0, <2>1 DEF Moves, NothingLeft, Quiet
<1> QED
  BY <1>1, <1>2

\* Running means not to have heard of the gateway's exit.
LEMMA HeardStep ==
  ASSUME LauncherInv, [Next]_vars, ~overlap', NEW l \in Launchers, launcher'[l] = "running"
  PROVE  << l, "gateway" >> \notin noticed'
<1>0. ~overlap /\ Alone /\ NoticedAreDead
  BY MovesStep DEF Moves, LauncherInv
<1>1. ASSUME NEW p \in Supervisors, SupervisorListens(p)
      PROVE  << l, "gateway" >> \notin noticed'
  BY <1>0, <1>1, Shape DEF Alone, SupervisorListens
<1>2. ASSUME NEW p \in Gateways, GatewayListens(p)
      PROVE  << l, "gateway" >> \notin noticed'
  BY <1>0, <1>2, Shape DEF Alone, GatewayListens
<1>3. ASSUME NEW p \in Processes, Dies(p)
      PROVE  << l, "gateway" >> \notin noticed'
  BY <1>0, <1>3, Shape DEF Alone, Dies
<1>4. ASSUME NEW p \in Processes, Terminated(p)
      PROVE  << l, "gateway" >> \notin noticed'
  BY <1>0, <1>4, Shape DEF Alone, Terminated
<1>5. ASSUME NEW k \in Launchers, Start(k)
      PROVE  << l, "gateway" >> \notin noticed'
  BY <1>0, <1>5, Shape DEF Alone, Start
<1>6. ASSUME NEW k \in Launchers, SocketReady(k)
      PROVE  << l, "gateway" >> \notin noticed'
  BY <1>0, <1>6, Shape DEF Alone, SocketReady
<1>7. ASSUME NEW k \in Launchers, HttpReady(k)
      PROVE  << l, "gateway" >> \notin noticed'
  <2>1. Active(k) /\ launcher[k] = "waitHttp" /\ noticed' = noticed
        /\ launcher' = [launcher EXCEPT ![k] = "running"]
    BY <1>7 DEF HttpReady, Active
  <2>2. PICK q \in Gateways : process[q] = "up"
    BY <1>7 DEF HttpReady
  <2>3. q = << k, "gateway" >>
    BY <1>0, <2>1, <2>2, Names DEF Alone, NothingLeft, Alive
  <2>4. << k, "gateway" >> \notin noticed
    BY <1>0, <2>2, <2>3 DEF NoticedAreDead
  <2> QED
    BY <1>0, <2>1, <2>4, Shape DEF Alone
<1>8. ASSUME NEW k \in Launchers, StartFails(k)
      PROVE  << l, "gateway" >> \notin noticed'
  BY <1>0, <1>8, Shape DEF Alone, StartFails, Leaves
<1>9. ASSUME NEW k \in Launchers, Interrupt(k)
      PROVE  << l, "gateway" >> \notin noticed'
  BY <1>0, <1>9, Shape DEF Alone, Interrupt, Shutdown, Leaves
<1>10. ASSUME NEW k \in Launchers, ForceKill(k)
      PROVE  << l, "gateway" >> \notin noticed'
  BY <1>0, <1>10, Shape DEF Alone, ForceKill
<1>11. ASSUME NEW k \in Launchers, SupervisorExit(k)
      PROVE  << l, "gateway" >> \notin noticed'
  BY <1>0, <1>11, Shape DEF Alone, SupervisorExit
<1>12. ASSUME NEW k \in Launchers, Restart(k)
      PROVE  << l, "gateway" >> \notin noticed'
  BY <1>0, <1>12, Shape DEF Alone, Restart
<1>13. ASSUME NEW k \in Launchers, GatewayExit(k)
      PROVE  << l, "gateway" >> \notin noticed'
  <2>1. \/ launcher' = launcher /\ launcher[k] # "running"
           /\ noticed' = noticed \cup {<< k, "gateway" >>}
        \/ launcher' = [launcher EXCEPT ![k] = "stopping"] /\ noticed' \subseteq noticed
    BY <1>13 DEF GatewayExit, Shutdown, Leaves
  <2> QED
    BY <1>0, <2>1, Shape DEF Alone
<1>14. ASSUME NEW k \in Launchers, Hangup(k)
      PROVE  << l, "gateway" >> \notin noticed'
  BY <1>0, <1>14, Shape DEF Alone, Hangup, Leaves
<1>15. CASE StopBegins
  BY <1>0, <1>15, Shape DEF Alone, StopBegins
<1>16. CASE StopSweeps
  BY <1>0, <1>16, Shape DEF Alone, StopSweeps
<1>17. CASE StopCleans
  BY <1>0, <1>17, Shape DEF Alone, StopCleans
<1>18. CASE UNCHANGED vars
  BY <1>0, <1>18 DEF vars, Alone
<1> QED
  BY <1>1, <1>2, <1>3, <1>4, <1>5, <1>6, <1>7, <1>8, <1>9, <1>10, <1>11, <1>12,
     <1>13, <1>14, <1>15, <1>16, <1>17, <1>18
     DEF Next

\* A launcher at work stays alone, and hears of its gateway's exit by ending.
LEMMA AloneInv ==
  ASSUME LauncherInv, [Next]_vars
  PROVE  Alone'
BY AloneStep, HeardStep DEF Alone

\* While a launcher works undisturbed its supervisor has the socket file.
LEMMA SocketStep ==
  ASSUME LauncherInv, [Next]_vars, ~overlap', stop' = "idle",
         NEW l \in Launchers, Starting(l)' \/ launcher'[l] = "running"
  PROVE  SocketOf(l)'
<1>0. ~overlap
  BY MovesStep DEF Moves
<1>1. /\ Active(l)'
      /\ \A k \in Launchers \ {l} : ~Active(k)'
      /\ Active(l) => \A k \in Launchers \ {l} : ~Active(k) /\ NothingLeft(k)
  BY <1>0, AloneStep DEF Starting, Active, LauncherInv, Alone
<1>2. stop = "idle" /\ (Starting(l) \/ launcher[l] = "running") => SocketOf(l) /\ Active(l)
  BY <1>0 DEF LauncherInv, SocketInv, Starting, Active
<1>3. ASSUME NEW p \in Supervisors, SupervisorListens(p)
      PROVE  SocketOf(l)'
  <2>1. told = {} /\ Active(l) /\ process[p] = "started"
    BY <1>2, <1>3 DEF SupervisorListens, SocketOf, Starting
  <2>2. p[1] = l
    BY <1>1, <2>1, Names DEF NothingLeft, Alive
  <2>3. Current(l) = p
    BY <2>1, <2>2, Names DEF Current, Supervisors, LauncherInv, TypeOK
  <2>4. Current(l)' = p
    BY <1>3, <2>1, <2>2, <2>3, Names, Shape DEF SupervisorListens, Current
  <2> QED
    BY <1>3, <2>1, <2>4 DEF SupervisorListens, SocketOf
<1>4. ASSUME NEW p \in Gateways, GatewayListens(p)
      PROVE  SocketOf(l)'
  BY <1>1, <1>2, <1>4, Names, Shape
     DEF GatewayListens, Starting, SocketOf, Current, Active, files
<1>5. ASSUME NEW p \in Processes, Dies(p)
      PROVE  SocketOf(l)'
  BY <1>1, <1>2, <1>5, Names, Shape
     DEF Dies, Starting, SocketOf, Current, Active, files
<1>6. ASSUME NEW p \in Processes, Terminated(p)
      PROVE  SocketOf(l)'
  BY <1>1, <1>2, <1>6, Names, Shape
     DEF Terminated, Starting, SocketOf, Current, Active, files
<1>7. ASSUME NEW k \in Launchers, Start(k)
      PROVE  SocketOf(l)'
  <2>1. Quiet
    BY <1>0, <1>7 DEF Start
  <2>2. k = l
    BY <1>1, <1>7, <2>1, Shape DEF Start, Quiet, Active
  <2>3. told' = {}
    BY <1>7, <2>1, Shape DEF Start, Quiet
  <2>4. process'[<< l, "replacement" >>] = "none"
    BY <1>7, <2>2, Names, Shape DEF Start, LauncherInv, BornInOrder
  <2>5. process'[<< l, "supervisor" >>] = "started" \/ launcher'[l] = "ended"
    BY <1>7, <2>2, Names, Shape DEF Start
  <2> QED
    BY <1>1, <2>3, <2>4, <2>5 DEF Current, Active, SocketOf
<1>8. ASSUME NEW k \in Launchers, SocketReady(k)
      PROVE  SocketOf(l)'
  BY <1>1, <1>2, <1>8, Names, Shape
     DEF SocketReady, Starting, SocketOf, Current, Active, files
<1>9. ASSUME NEW k \in Launchers, HttpReady(k)
      PROVE  SocketOf(l)'
  BY <1>1, <1>2, <1>9, Names, Shape
     DEF HttpReady, Starting, SocketOf, Current, Active, files
<1>10. ASSUME NEW k \in Launchers, StartFails(k)
      PROVE  SocketOf(l)'
  BY <1>1, <1>2, <1>10, Names, Shape
     DEF StartFails, Leaves, Starting, SocketOf, Current, Active, files
<1>11. ASSUME NEW k \in Launchers, Interrupt(k)
      PROVE  SocketOf(l)'
  BY <1>1, <1>2, <1>11, Names, Shape
     DEF Interrupt, Shutdown, Leaves, Starting, SocketOf, Current, Active,
         files
<1>12. ASSUME NEW k \in Launchers, ForceKill(k)
      PROVE  SocketOf(l)'
  BY <1>1, <1>2, <1>12, Names, Shape
     DEF ForceKill, Starting, SocketOf, Current, Active, files
<1>13. ASSUME NEW k \in Launchers, SupervisorExit(k)
      PROVE  SocketOf(l)'
  BY <1>1, <1>2, <1>13, Names, Shape
     DEF SupervisorExit, Starting, SocketOf, Current, Active, files
<1>14. ASSUME NEW k \in Launchers, Restart(k)
      PROVE  SocketOf(l)'
  <2>1. k = l
    BY <1>1, <1>14, Shape DEF Restart, Active
  <2>2. process'[<< l, "replacement" >>] = "started"
    BY <1>14, <2>1, Names, Shape DEF Restart
  <2>3. told = {}
    BY <1>2, <1>14, <2>1, Shape DEF Restart, SocketOf
  <2>4. Current(l)' = << l, "replacement" >>
    BY <2>2 DEF Current
  <2> QED
    BY <1>14, <2>2, <2>3, <2>4 DEF Restart, SocketOf
<1>15. ASSUME NEW k \in Launchers, GatewayExit(k)
      PROVE  SocketOf(l)'
  BY <1>1, <1>2, <1>15, Names, Shape
     DEF GatewayExit, Shutdown, Leaves, Starting, SocketOf, Current, Active,
         files
<1>16. ASSUME NEW k \in Launchers, Hangup(k)
      PROVE  SocketOf(l)'
  BY <1>1, <1>2, <1>16, Names, Shape
     DEF Hangup, Leaves, Starting, SocketOf, Current, Active, files
<1>17. CASE StopBegins
  BY <1>1, <1>2, <1>17, Names, Shape
     DEF StopBegins, Starting, SocketOf, Current, Active, files
<1>18. CASE StopSweeps
  BY <1>1, <1>2, <1>18, Names, Shape
     DEF StopSweeps, Starting, SocketOf, Current, Active, files
<1>19. CASE StopCleans
  BY <1>1, <1>2, <1>19, Names, Shape
     DEF StopCleans, Starting, SocketOf, Current, Active, files
<1>20. CASE UNCHANGED vars
  BY <1>1, <1>2, <1>20 DEF vars, Starting, SocketOf, Current
<1> QED
  BY <1>3, <1>4, <1>5, <1>6, <1>7, <1>8, <1>9, <1>10, <1>11, <1>12, <1>13,
     <1>14, <1>15, <1>16, <1>17, <1>18, <1>19, <1>20
     DEF Next

\* The same for all launchers.
LEMMA SocketInvStep ==
  ASSUME LauncherInv, [Next]_vars
  PROVE  SocketInv'
BY SocketStep DEF SocketInv, Starting

\* What `sc stop` has swept stays swept, and nothing is started beside it.
LEMMA SweptStep ==
  ASSUME LauncherInv, [Next]_vars, ~overlap'
  PROVE  Swept'
<1>0. ~overlap /\ Swept
  BY MovesStep DEF Moves, LauncherInv, SweptInv
<1>1. ASSUME NEW q \in Supervisors, SupervisorListens(q)
      PROVE  Swept'
  BY <1>0, <1>1, Names, Shape DEF SupervisorListens, Alive, Starting, Swept
<1>2. ASSUME NEW q \in Gateways, GatewayListens(q)
      PROVE  Swept'
  BY <1>0, <1>2, Names, Shape DEF GatewayListens, Alive, Starting, Swept
<1>3. ASSUME NEW q \in Processes, Dies(q)
      PROVE  Swept'
  BY <1>0, <1>3, Names, Shape DEF Dies, Alive, Starting, Swept
<1>4. ASSUME NEW q \in Processes, Terminated(q)
      PROVE  Swept'
  BY <1>0, <1>4, Names, Shape DEF Terminated, Alive, Starting, Swept
<1>5. ASSUME NEW l \in Launchers, Start(l)
      PROVE  Swept'
  <2>1. overlap' = (overlap \/ ~Quiet) /\ stop' = IF stop = "done" THEN "idle" ELSE stop
    BY <1>5 DEF Start
  <2>2. stop' = "idle"
    BY <2>1 DEF Quiet
  <2> QED
    BY <2>2 DEF Swept
<1>6. ASSUME NEW l \in Launchers, SocketReady(l)
      PROVE  Swept'
  BY <1>0, <1>6, Names, Shape DEF SocketReady, Alive, Starting, Swept
<1>7. ASSUME NEW l \in Launchers, HttpReady(l)
      PROVE  Swept'
  BY <1>0, <1>7, Names, Shape DEF HttpReady, Alive, Starting, Swept
<1>8. ASSUME NEW l \in Launchers, StartFails(l)
      PROVE  Swept'
  BY <1>0, <1>8, Names, Shape DEF StartFails, Leaves, Alive, Starting, Swept
<1>9. ASSUME NEW l \in Launchers, Interrupt(l)
      PROVE  Swept'
  BY <1>0, <1>9, Names, Shape
     DEF Interrupt, Shutdown, Leaves, Alive, Starting, Swept
<1>10. ASSUME NEW l \in Launchers, ForceKill(l)
      PROVE  Swept'
  BY <1>0, <1>10, Names, Shape DEF ForceKill, Alive, Starting, Swept
<1>11. ASSUME NEW l \in Launchers, SupervisorExit(l)
      PROVE  Swept'
  BY <1>0, <1>11, Names, Shape DEF SupervisorExit, Alive, Starting, Swept
<1>12. ASSUME NEW l \in Launchers, Restart(l)
      PROVE  Swept'
  BY <1>0, <1>12, Names, Shape DEF Restart, Alive, Starting, Swept
<1>13. ASSUME NEW l \in Launchers, GatewayExit(l)
      PROVE  Swept'
  BY <1>0, <1>13, Names, Shape
     DEF GatewayExit, Shutdown, Leaves, files, Alive, Starting, Swept
<1>14. ASSUME NEW l \in Launchers, Hangup(l)
      PROVE  Swept'
  BY <1>0, <1>14, Names, Shape DEF Hangup, Leaves, Alive, Starting, Swept
<1>15. CASE StopBegins
  BY <1>0, <1>15, Names, Shape DEF StopBegins, Alive, Starting, Swept
<1>16. CASE StopSweeps
  BY <1>0, <1>16, Names, Shape DEF StopSweeps, Alive, Starting, Swept
<1>17. CASE StopCleans
  BY <1>0, <1>17, Names, Shape DEF StopCleans, Alive, Starting, Swept
<1>18. CASE UNCHANGED vars
  BY <1>0, <1>18 DEF vars, Alive, Starting, Swept
<1> QED
  BY <1>1, <1>2, <1>3, <1>4, <1>5, <1>6, <1>7, <1>8, <1>9, <1>10, <1>11, <1>12,
     <1>13, <1>14, <1>15, <1>16, <1>17, <1>18
     DEF Next

-----------------------------------------------------------------------------
(* The theorems.                                                           *)

\* The invariant is inductive.
LEMMA LauncherStep ==
  ASSUME LauncherInv, [Next]_vars
  PROVE  LauncherInv'
BY TypeStep, BornStep, NoticedStep, ShutdownStep, AloneInv, SocketInvStep,
   SweptStep
   DEF LauncherInv, SweptInv

\* The invariant holds in every state.
LEMMA LauncherCorrect == Spec => []LauncherInv
<1>1. LauncherInv /\ [Next]_vars => LauncherInv'
  BY LauncherStep
<1> QED
  BY InvInit, <1>1, PTL DEF Spec

\* The types of all variables, at any number of launchers and crashes; the
\* replacement of a supervisor follows a dead one (start.ts: the handler of
\* the supervisor's exit).
THEOREM LauncherTypeCorrect == Spec => []TypeOK
<1>1. LauncherInv => TypeOK
  BY DEF LauncherInv
<1> QED
  BY LauncherCorrect, <1>1, PTL

\* A shutdown that is over has left nothing alive, the replacement of the
\* supervisor included, and no timer brings anything back (start.ts:
\* shutdown, `shuttingDown` and the timer of the restart).
THEOREM ShutdownCorrect == Spec => []ShutdownLeavesNothing
<1>1. LauncherInv => ShutdownLeavesNothing
  BY DEF LauncherInv
<1> QED
  BY LauncherCorrect, <1>1, PTL

\* A running launcher that nobody stops is served through its own supervisor's
\* socket, also after that supervisor was replaced (main.ts: startServer).
THEOREM SocketCorrect == Spec => []SocketIsServed
<1>1. LauncherInv => SocketIsServed
  BY DEF LauncherInv, SocketInv, SocketIsServed, SocketOf
<1> QED
  BY LauncherCorrect, <1>1, PTL

\* No launcher goes on without its gateway, whatever else exits or is
\* signalled meanwhile (start.ts: the handler of the gateway's exit).
THEOREM GatewayCorrect == Spec => []NoneWithoutGateway
<1>1. LauncherInv => NoneWithoutGateway
  BY DEF LauncherInv, Alone, NoneWithoutGateway, Settled
<1> QED
  BY LauncherCorrect, <1>1, PTL

\* `sc stop` leaves nothing running but the replacement of a launcher that was
\* killed (stop.ts against the restart timer and the exit handlers of start.ts).
THEOREM StopCorrect == Spec => []StopLeavesNothing
<1>1. ASSUME LauncherInv, stop = "done", Settled, ~overlap,
             NEW p \in Processes, Alive(p)
      PROVE  p[2] = "replacement" /\ launcher[p[1]] = "ended"
  <2>1. p[2] = "replacement" /\ p[1] \in Launchers
    BY <1>1, Names DEF LauncherInv, SweptInv, Swept, Settled
  <2>2. launcher[p[1]] \notin {"waitSocket", "waitHttp", "stopping"}
    BY <1>1, <2>1 DEF Settled, Starting
  <2>3. launcher[p[1]] # "running"
    <3>1. SUFFICES ASSUME launcher[p[1]] = "running"
                   PROVE  FALSE
      OBVIOUS
    <3>2. << p[1], "gateway" >> \notin noticed
      BY <1>1, <2>1, <3>1 DEF LauncherInv, Alone
    <3>3. ~Alive(<< p[1], "gateway" >>)
      BY <1>1, <2>1, Names DEF LauncherInv, SweptInv, Swept, Settled
    <3>4. process[<< p[1], "gateway" >>] = "dead"
      <4>1. process[<< p[1], "gateway" >>] # "none"
        BY <1>1, <2>1, <3>1 DEF LauncherInv, BornInOrder
      <4>2. << p[1], "gateway" >> \in Processes
        BY <2>1, Names
      <4> QED
        BY <1>1, <3>3, <4>1, <4>2, Shape DEF Alive
    <3> QED
      BY <1>1, <2>1, <3>1, <3>2, <3>4 DEF Settled
  <2>4. launcher[p[1]] # "stopped"
    BY <1>1, <2>1 DEF LauncherInv, ShutdownLeavesNothing, NothingLeft
  <2>5. launcher[p[1]] # "off"
    BY <1>1, <2>1, Names DEF LauncherInv, BornInOrder, Alive
  <2> QED
    BY <1>1, <2>1, <2>2, <2>3, <2>4, <2>5, Shape
<1>2. LauncherInv => StopLeavesNothing
  BY <1>1 DEF StopLeavesNothing
<1> QED
  BY LauncherCorrect, <1>2, PTL
=============================================================================
