----------------------------- MODULE PodScripts ------------------------------
(***************************************************************************)
(* The entrypoint scripts of the two containers of a Datanode pod, the     *)
(* datanode (dn) and the region server (rs), which coordinate their start  *)
(* and stop through files in the shared volume /lifecycle, and the         *)
(* cluster-wide balancer switch that all region servers of a cluster flip  *)
(* when they shut down.  Pods of an HbaseTenant run variants of the        *)
(* scripts: the datanode does not wait for its socket and the region       *)
(* server leaves the balancer alone.                                       *)
(*                                                                         *)
(* Sleeps are not modelled as time: any step may take arbitrarily long,    *)
(* and the kubelet may kill a container any time after its SIGTERM.        *)
(***************************************************************************)
EXTENDS Integers, FiniteSets

CONSTANTS
  Pods,       \* pods of the Datanode StatefulSets
  Mixes,      \* the sets of pods that may be those of a tenant
  MaxFaults   \* bound on crashes of daemons, failed commands and failed probes

ASSUME PodAssumption == Mixes \subseteq SUBSET Pods /\ MaxFaults \in Nat

VARIABLES
  tenants,    \* the pods that run the tenant scripts; never changes
  dn,         \* where the datanode's script is
  rs,         \* where the region server's script is
  files,      \* files in /lifecycle
  socket,     \* whether the datanode's domain socket exists
  blind,      \* pods whose datanode script has got no socket path to wait for
  server,     \* whether the region server process runs
  balancer,   \* the balancer switch of the cluster
  term,       \* pods that are being deleted
  signalled,  \* containers that were sent SIGTERM
  faults,     \* faults so far
  unloaded,   \* history: RegionMover has moved the regions of this server away
  reborn,     \* history: containers that were restarted in their pod
  failed,     \* history: what went wrong in the shutdown of a region server
  leftOff,    \* history: servers that did not switch the balancer on, since it last was
  overlapped  \* history: servers in whose shutdown another of the cluster shut down

history == <<unloaded, reborn, failed, leftOff, overlapped>>
state == <<dn, rs, files, socket, blind, server, balancer, term, signalled, faults, history>>
vars == <<tenants, state>>

(***************************************************************************)
(* "boot": the trap is not set yet.  "starting": the daemon runs, the      *)
(* script waits for the socket.  "waiting": in shutdown, for rs-terminated;*)
(* "orphaned": the same, and the daemon has died meanwhile.  "stopping":   *)
(* the pause before the daemon is stopped, and the stop.  "hung": the      *)
(* daemon is gone, and the start loop still waits for a socket.            *)
(***************************************************************************)
DnSteps == {"boot", "starting", "up", "waiting", "orphaned", "stopping", "hung", "exited"}
Switching == {"switchOff", "unload", "switchOn"}
RsShutdown == Switching \cup {"mark", "stop"}
Failures == {"off", "move", "on", "kill"}
RsSteps == {"waitDn", "delay", "up", "exited"} \cup RsShutdown

Init ==
  /\ tenants \in Mixes
  /\ dn = [p \in Pods |-> "boot"]
  /\ rs = [p \in Pods |-> "waitDn"]
  /\ files = [p \in Pods |-> {}]
  /\ socket = [p \in Pods |-> FALSE]
  /\ blind = {}
  /\ server = [p \in Pods |-> FALSE]
  /\ balancer = TRUE
  /\ term = {}
  /\ signalled = [p \in Pods |-> {}]
  /\ faults = 0
  /\ unloaded = [p \in Pods |-> FALSE]
  /\ reborn = [p \in Pods |-> {}]
  /\ failed = [p \in Pods |-> {}]
  /\ leftOff = {} /\ overlapped = {}

DnGoes(p, step) == dn' = [dn EXCEPT ![p] = step]
RsGoes(p, step) == rs' = [rs EXCEPT ![p] = step]
Touch(p, file) == files' = [files EXCEPT ![p] = @ \cup {file}]
Fails(p, what) == failed' = [failed EXCEPT ![p] = @ \cup {what}]
Fault == faults < MaxFaults /\ faults' = faults + 1

------------------------------------------------------------------------------
(***************************************************************************)
(* The datanode's script.                                                  *)
(***************************************************************************)
DnLaunch(p) ==
  /\ dn[p] = "boot"
  /\ DnGoes(p, "starting")
  /\ UNCHANGED <<rs, files, socket, blind, server, balancer, term, signalled, faults, history>>

(***************************************************************************)
(* hdfs getconf prints nothing: "[ ! -e ]" is false, and the script of the *)
(* cluster, too, does not wait.                                            *)
(***************************************************************************)
DnLaunchBlind(p) ==
  /\ Fault
  /\ dn[p] = "boot" /\ p \notin tenants
  /\ DnGoes(p, "starting")
  /\ blind' = blind \cup {p}
  /\ UNCHANGED <<rs, files, socket, server, balancer, term, signalled, history>>

DnSocket(p) ==
  /\ dn[p] \in {"starting", "up", "waiting"} /\ ~socket[p]
  /\ socket' = [socket EXCEPT ![p] = TRUE]
  /\ UNCHANGED <<dn, rs, files, blind, server, balancer, term, signalled, faults, history>>

\* Mutant: the cluster's script, too, does not wait for the socket.
DnReadyAtOnce(p) == TRUE

(***************************************************************************)
(* Whether the script stops waiting for the socket.                        *)
(***************************************************************************)
DnReady(p) == p \in tenants \cup blind \/ socket[p]

DnStarted(p) ==
  /\ dn[p] = "starting" /\ DnReady(p)
  /\ DnGoes(p, "up")
  /\ Touch(p, "dn-started")
  /\ UNCHANGED <<rs, socket, blind, server, balancer, term, signalled, faults, history>>

DnSeesTerminated(p) ==
  /\ dn[p] \in {"waiting", "orphaned"} /\ "rs-terminated" \in files[p]
  /\ DnGoes(p, "stopping")
  /\ UNCHANGED <<rs, files, socket, blind, server, balancer, term, signalled, faults, history>>

(***************************************************************************)
(* The daemon is gone and its script runs on: to its end, or, if it is     *)
(* still in the loop that waits for the socket, for ever.                  *)
(***************************************************************************)
DnEnds(p) ==
  \/ DnReady(p) /\ DnGoes(p, "exited") /\ Touch(p, "dn-started")
  \/ ~DnReady(p) /\ DnGoes(p, "hung") /\ UNCHANGED files

DnStop(p) ==
  /\ dn[p] = "stopping"
  /\ DnEnds(p)
  /\ UNCHANGED <<rs, socket, blind, server, balancer, term, signalled, faults, history>>

------------------------------------------------------------------------------
(***************************************************************************)
(* The region server's script.                                             *)
(***************************************************************************)
RsSeesDatanode(p) ==
  /\ rs[p] = "waitDn" /\ "dn-started" \in files[p]
  /\ RsGoes(p, "delay")
  /\ UNCHANGED <<dn, files, socket, blind, server, balancer, term, signalled, faults, history>>

RsStart(p) ==
  /\ rs[p] = "delay"
  /\ RsGoes(p, "up")
  /\ server' = [server EXCEPT ![p] = TRUE]
  /\ UNCHANGED <<dn, files, socket, blind, balancer, term, signalled, faults, history>>

RsSwitchOff(p) ==
  /\ rs[p] = "switchOff"
  /\ balancer' = FALSE
  /\ RsGoes(p, "unload")
  /\ UNCHANGED <<dn, files, socket, blind, server, term, signalled, faults, history>>

\* Mutant: the balancer is not switched on again.
AfterUnloadLeftOff(p) == "mark"

\* Mutant: the script of the tenant ends like that of the cluster.
AfterUnloadSame(p) == "switchOn"

AfterUnload(p) == IF p \in tenants THEN "mark" ELSE "switchOn"

RsUnload(p) ==
  /\ rs[p] = "unload"
  /\ unloaded' = [unloaded EXCEPT ![p] = TRUE]
  /\ RsGoes(p, AfterUnload(p))
  /\ UNCHANGED <<dn, files, socket, blind, server, balancer, term, signalled, faults,
                 reborn, failed, leftOff, overlapped>>

RsSwitchOn(p) ==
  /\ rs[p] = "switchOn"
  /\ balancer' = TRUE
  /\ leftOff' = {}
  /\ RsGoes(p, "mark")
  /\ UNCHANGED <<dn, files, socket, blind, server, term, signalled, faults,
                 unloaded, reborn, failed, overlapped>>

\* Mutant: the script writes another file than the datanode waits for.
RsMarkMisspelt(p) ==
  /\ rs[p] = "mark"
  /\ Touch(p, "rs-stopped")
  /\ RsGoes(p, "stop")
  /\ UNCHANGED <<dn, socket, blind, server, balancer, term, signalled, faults, history>>

\* Mutant: the script forgets the file.
RsMarkNothing(p) ==
  /\ rs[p] = "mark"
  /\ RsGoes(p, "stop")
  /\ UNCHANGED <<dn, files, socket, blind, server, balancer, term, signalled, faults, history>>

(***************************************************************************)
(* The file comes before the server is stopped.                            *)
(***************************************************************************)
RsMark(p) ==
  /\ rs[p] = "mark"
  /\ Touch(p, "rs-terminated")
  /\ RsGoes(p, "stop")
  /\ UNCHANGED <<dn, socket, blind, server, balancer, term, signalled, faults, history>>

RsStop(p) ==
  /\ rs[p] = "stop"
  /\ server' = [server EXCEPT ![p] = FALSE]
  /\ RsGoes(p, "exited")
  /\ UNCHANGED <<dn, files, socket, blind, balancer, term, signalled, faults, history>>

ScriptStep(p) ==
  \/ DnLaunch(p) \/ DnSocket(p) \/ DnStarted(p) \/ DnSeesTerminated(p) \/ DnStop(p)
  \/ RsSeesDatanode(p) \/ RsStart(p) \/ RsSwitchOff(p) \/ RsUnload(p) \/ RsSwitchOn(p)
  \/ RsMark(p) \/ RsStop(p)

------------------------------------------------------------------------------
(***************************************************************************)
(* SIGTERM.  A script that has set its trap begins its shutdown.  Before   *)
(* that, bash as process 1 of its container ignores the signal, and dies   *)
(* of it if the pod shares one process namespace.                          *)
(***************************************************************************)
DnTrap(p) ==
  \/ dn[p] \in {"starting", "up"} /\ DnGoes(p, "waiting")
  \/ dn[p] \notin {"starting", "up"} /\ UNCHANGED dn
  \/ dn[p] = "boot" /\ DnGoes(p, "exited")

\* Mutant: the region server marks its end before it moves its regions.
ShutdownMarksFirst(p) == "mark"

ShutdownStart(p) == IF p \in tenants THEN "unload" ELSE "switchOff"

RsTrap(p) ==
  \/ rs[p] = "up" /\ RsGoes(p, ShutdownStart(p))
  \/ rs[p] \in {"waitDn", "delay"} /\ (UNCHANGED rs \/ RsGoes(p, "exited"))

SigtermDn(p) ==
  /\ signalled' = [signalled EXCEPT ![p] = @ \cup {"dn"}]
  /\ DnTrap(p)
  /\ UNCHANGED <<rs, files, socket, blind, server, balancer, term, history>>

(***************************************************************************)
(* The region servers of the cluster that shut down together with p's.     *)
(***************************************************************************)
Others(p) == {q \in Pods \ (tenants \cup {p}) : rs[q] \in Switching}

Meets(p) ==
  IF p \in tenants \/ rs[p] # "up" THEN overlapped
  ELSE (overlapped \ {p}) \cup (IF Others(p) = {} THEN {} ELSE Others(p) \cup {p})

SigtermRs(p) ==
  /\ signalled' = [signalled EXCEPT ![p] = @ \cup {"rs"}]
  /\ RsTrap(p)
  /\ overlapped' = Meets(p)
  /\ UNCHANGED <<dn, files, socket, blind, server, balancer, term,
                 unloaded, reborn, failed, leftOff>>

(***************************************************************************)
(* The kubelet: deletion of a pod sends SIGTERM to both containers,        *)
(* separately; a failed liveness probe to one; a container that does not   *)
(* exit within the grace period is killed; one that exited is restarted    *)
(* unless its pod is being deleted.                                        *)
(***************************************************************************)
DeletePod(p) ==
  /\ p \notin term
  /\ term' = term \cup {p}
  /\ UNCHANGED <<dn, rs, files, socket, blind, server, balancer, signalled, faults, history>>

Terminate(p) ==
  /\ p \in term
  /\ \/ "dn" \notin signalled[p] /\ dn[p] # "exited" /\ SigtermDn(p)
     \/ "rs" \notin signalled[p] /\ rs[p] # "exited" /\ SigtermRs(p)
  /\ UNCHANGED faults

ProbeFailure(p) ==
  /\ p \notin term /\ Fault
  /\ \/ "dn" \notin signalled[p] /\ dn[p] # "exited" /\ SigtermDn(p)
     \/ "rs" \notin signalled[p] /\ rs[p] # "exited" /\ SigtermRs(p)

KillDn(p) ==
  /\ "dn" \in signalled[p] /\ dn[p] # "exited"
  /\ DnGoes(p, "exited")
  /\ UNCHANGED <<rs, files, socket, blind, server, balancer, term, signalled, faults, history>>

KillRs(p) ==
  /\ "rs" \in signalled[p] /\ rs[p] # "exited"
  /\ RsGoes(p, "exited")
  /\ server' = [server EXCEPT ![p] = FALSE]
  /\ Fails(p, "kill")
  /\ leftOff' = IF p \notin tenants /\ rs[p] \in {"unload", "switchOn"}
                THEN leftOff \cup {p} ELSE leftOff
  /\ UNCHANGED <<dn, files, socket, blind, balancer, term, signalled, faults,
                 unloaded, reborn, overlapped>>

RestartDn(p) ==
  /\ p \notin term /\ dn[p] = "exited"
  /\ DnGoes(p, "boot")
  /\ socket' \in {socket, [socket EXCEPT ![p] = FALSE]}   \* the file may survive
  /\ signalled' = [signalled EXCEPT ![p] = @ \ {"dn"}]
  /\ reborn' = [reborn EXCEPT ![p] = @ \cup {"dn"}]
  /\ blind' = blind \ {p}
  /\ UNCHANGED <<rs, files, server, balancer, term, faults,
                 unloaded, failed, leftOff, overlapped>>

RestartRs(p) ==
  /\ p \notin term /\ rs[p] = "exited"
  /\ RsGoes(p, "waitDn")
  /\ signalled' = [signalled EXCEPT ![p] = @ \ {"rs"}]
  /\ unloaded' = [unloaded EXCEPT ![p] = FALSE]
  /\ reborn' = [reborn EXCEPT ![p] = @ \cup {"rs"}]
  /\ failed' = [failed EXCEPT ![p] = {}]
  /\ UNCHANGED <<dn, files, socket, blind, server, balancer, term, faults,
                 leftOff, overlapped>>

(***************************************************************************)
(* A daemon dies.  The script of the datanode waits for it alone.  That of *)
(* the region server waits for the tail commands it started as well, so it *)
(* does not notice.                                                        *)
(***************************************************************************)
DnCrash(p) ==
  /\ Fault
  /\ \/ dn[p] \in {"starting", "up"} /\ DnEnds(p)
     \/ dn[p] = "waiting" /\ DnGoes(p, "orphaned") /\ UNCHANGED files
  /\ UNCHANGED <<rs, socket, blind, server, balancer, term, signalled, history>>

RsCrash(p) ==
  /\ Fault
  /\ server[p]
  /\ server' = [server EXCEPT ![p] = FALSE]
  /\ UNCHANGED <<dn, rs, files, socket, blind, balancer, term, signalled, history>>

(***************************************************************************)
(* hbase shell cannot reach the master, or RegionMover gives up: the       *)
(* script does not look at their exit status and goes on.                  *)
(***************************************************************************)
SwitchFails(p) ==
  /\ Fault
  /\ \/ rs[p] = "switchOff" /\ RsGoes(p, "unload") /\ Fails(p, "off") /\ UNCHANGED leftOff
     \/ /\ rs[p] = "switchOn" /\ RsGoes(p, "mark") /\ Fails(p, "on")
        /\ leftOff' = leftOff \cup {p}
  /\ UNCHANGED <<dn, files, socket, blind, server, balancer, term, signalled,
                 unloaded, reborn, overlapped>>

MoveFails(p) ==
  /\ Fault
  /\ rs[p] = "unload"
  /\ Fails(p, "move")
  /\ RsGoes(p, AfterUnload(p))
  /\ UNCHANGED <<dn, files, socket, blind, server, balancer, term, signalled,
                 unloaded, reborn, leftOff, overlapped>>

Next ==
  /\ UNCHANGED tenants
  /\ \E p \in Pods :
       \/ ScriptStep(p) \/ DeletePod(p) \/ Terminate(p) \/ ProbeFailure(p)
       \/ KillDn(p) \/ KillRs(p) \/ RestartDn(p) \/ RestartRs(p)
       \/ DnLaunchBlind(p) \/ DnCrash(p) \/ RsCrash(p) \/ SwitchFails(p) \/ MoveFails(p)

(***************************************************************************)
(* Scripts run on and the kubelet delivers signals.  That it kills is not  *)
(* assumed: a pod should not need it.                                      *)
(***************************************************************************)
Fairness ==
  \A p \in Pods :
    /\ WF_state(DnLaunch(p) \/ DnStarted(p) \/ DnSeesTerminated(p) \/ DnStop(p))
    /\ WF_state(DnSocket(p))
    /\ WF_state(RsSeesDatanode(p) \/ RsStart(p) \/ RsSwitchOff(p) \/ RsUnload(p)
                 \/ RsSwitchOn(p) \/ RsMark(p) \/ RsStop(p))
    /\ WF_state(Terminate(p))
    /\ WF_state(RestartDn(p)) /\ WF_state(RestartRs(p))

Spec == Init /\ [][Next]_vars /\ Fairness

------------------------------------------------------------------------------
(***************************************************************************)
(* Type invariant.                                                         *)
(***************************************************************************)
TypeOK ==
  /\ dn \in [Pods -> DnSteps] /\ rs \in [Pods -> RsSteps]
  /\ files \in [Pods -> SUBSET {"dn-started", "rs-terminated"}]
  /\ socket \in [Pods -> BOOLEAN] /\ server \in [Pods -> BOOLEAN] /\ balancer \in BOOLEAN
  /\ signalled \in [Pods -> SUBSET {"dn", "rs"}]
  /\ tenants \in Mixes /\ term \subseteq Pods /\ blind \subseteq Pods
  /\ faults \in 0 .. MaxFaults
  /\ unloaded \in [Pods -> BOOLEAN] /\ reborn \in [Pods -> SUBSET {"dn", "rs"}]
  /\ failed \in [Pods -> SUBSET Failures] /\ leftOff \subseteq Pods /\ overlapped \subseteq Pods

(***************************************************************************)
(* The datanode stops by itself only after the region server of its pod    *)
(* has moved its regions away.  There are two exceptions: RegionMover has  *)
(* failed, which the script does not notice, and a pod whose region server *)
(* container was restarted: rs-terminated outlives the restart.            *)
(***************************************************************************)
RegionsMovedFirst ==
  \A p \in Pods :
    dn[p] = "stopping" /\ "rs" \notin reborn[p] => unloaded[p] \/ "move" \in failed[p]

(***************************************************************************)
(* A region server of the cluster runs only when the socket of its pod's   *)
(* datanode has appeared.  The exceptions are a script that was not told   *)
(* the path of the socket, and a datanode container that was restarted:    *)
(* dn-started is that of its predecessor.                                  *)
(***************************************************************************)
SocketFirst ==
  \A p \in Pods \ (tenants \cup blind) : server[p] /\ "dn" \notin reborn[p] => socket[p]

(***************************************************************************)
(* The balancer of the whole cluster is off only while some region server  *)
(* is between its two switches, however many shut down at once, unless one *)
(* was killed there or could not reach the master, and no other region     *)
(* server has switched it on since.                                        *)
(***************************************************************************)
BalancerOffExplained ==
  balancer \/ leftOff # {} \/ \E p \in Pods : rs[p] \in {"unload", "switchOn"}

(***************************************************************************)
(* The balancer is off while a region server of the cluster moves its      *)
(* regions away, unless the master was not reached to switch it off, or    *)
(* another region server of the cluster shut down meanwhile: the first to  *)
(* finish switches it on for all.  Tenants that shut down do not matter.   *)
(***************************************************************************)
OffWhileUnloading ==
  \A p \in Pods \ (tenants \cup overlapped) :
    rs[p] = "unload" /\ "off" \notin failed[p] => ~balancer

(***************************************************************************)
(* A deleted pod whose scripts are both up shuts down by itself, without   *)
(* being killed: the datanode's wait for the region server ends, also when *)
(* commands fail on the way.                                               *)
(***************************************************************************)
BothUp(p) == rs[p] \in {"up"} \cup RsShutdown /\ dn[p] \in {"up", "waiting", "stopping"} /\ DnReady(p)

ShutsDown ==
  \A p \in Pods :
    p \in term /\ BothUp(p) /\ signalled[p] = {}
      ~> (dn[p] = "exited" /\ rs[p] = "exited") \/ "kill" \in failed[p]
==============================================================================
