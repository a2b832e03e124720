--------------------------- MODULE PodScriptsProofs ---------------------------
(***************************************************************************)
(* What module PodScripts promises, for any number of pods, any mix of     *)
(* cluster and tenant pods and any number of faults.                       *)
(***************************************************************************)
EXTENDS PodScripts, TLAPS

(***************************************************************************)
(* Every step of a script, of the kubelet and every fault keeps the types. *)
(***************************************************************************)
LEMMA TypeNext == TypeOK /\ [Next]_vars => TypeOK'
<1> SUFFICES ASSUME TypeOK, [Next]_vars PROVE TypeOK'
  OBVIOUS
<1> USE DEF TypeOK, DnSteps, RsSteps, RsShutdown, Switching, Failures, DnGoes, RsGoes, Touch, Fails,
            history
<1>1. CASE UNCHANGED vars
  BY <1>1 DEF vars, state
<1>2. ASSUME UNCHANGED tenants, NEW p \in Pods, ScriptStep(p) PROVE TypeOK'
  <2>1. CASE DnLaunch(p)
    BY <1>2, <2>1 DEF DnLaunch
  <2>2. CASE DnSocket(p)
    BY <1>2, <2>2 DEF DnSocket
  <2>3. CASE DnStarted(p)
    BY <1>2, <2>3 DEF DnStarted
  <2>4. CASE DnSeesTerminated(p)
    BY <1>2, <2>4 DEF DnSeesTerminated
  <2>5. CASE DnStop(p)
    BY <1>2, <2>5 DEF DnStop, DnEnds
  <2>6. CASE RsSeesDatanode(p)
    BY <1>2, <2>6 DEF RsSeesDatanode
  <2>7. CASE RsStart(p)
    BY <1>2, <2>7 DEF RsStart
  <2>8. CASE RsSwitchOff(p)
    BY <1>2, <2>8 DEF RsSwitchOff
  <2>9. CASE RsUnload(p)
    BY <1>2, <2>9 DEF RsUnload, AfterUnload
  <2>10. CASE RsSwitchOn(p)
    BY <1>2, <2>10 DEF RsSwitchOn
  <2>11. CASE RsMark(p)
    BY <1>2, <2>11 DEF RsMark
  <2>12. CASE RsStop(p)
    BY <1>2, <2>12 DEF RsStop
  <2>13. QED
    BY <1>2, <2>1, <2>2, <2>3, <2>4, <2>5, <2>6, <2>7, <2>8, <2>9, <2>10, <2>11, <2>12
    DEF ScriptStep
<1>3. ASSUME NEW p \in Pods, SigtermDn(p), UNCHANGED tenants, faults' \in 0 .. MaxFaults
      PROVE  TypeOK'
  BY <1>3 DEF SigtermDn, DnTrap
<1>4. ASSUME NEW p \in Pods, SigtermRs(p), UNCHANGED tenants, faults' \in 0 .. MaxFaults
      PROVE  TypeOK'
  <2>1. overlapped' \subseteq Pods
    BY <1>4 DEF SigtermRs, Meets, Others
  <2>2. QED
    BY <1>4, <2>1 DEF SigtermRs, RsTrap, ShutdownStart
<1>5. Fault => faults' \in 0 .. MaxFaults
  BY PodAssumption DEF Fault
<1>6. ASSUME UNCHANGED tenants, NEW p \in Pods PROVE
        /\ DeletePod(p) => TypeOK'
        /\ Terminate(p) => TypeOK'
        /\ ProbeFailure(p) => TypeOK'
  <2>1. CASE DeletePod(p)
    BY <1>6, <2>1 DEF DeletePod
  <2>2. CASE Terminate(p)
    BY <1>6, <2>2, <1>3, <1>4 DEF Terminate
  <2>3. CASE ProbeFailure(p)
    BY <1>6, <2>3, <1>3, <1>4, <1>5 DEF ProbeFailure
  <2>4. QED
    BY <2>1, <2>2, <2>3
<1>7. ASSUME UNCHANGED tenants, NEW p \in Pods PROVE
        /\ KillDn(p) => TypeOK'
        /\ KillRs(p) => TypeOK'
        /\ RestartDn(p) => TypeOK'
        /\ RestartRs(p) => TypeOK'
  <2>1. CASE KillDn(p)
    BY <1>7, <2>1 DEF KillDn
  <2>2. CASE KillRs(p)
    BY <1>7, <2>2 DEF KillRs
  <2>3. CASE RestartDn(p)
    BY <1>7, <2>3 DEF RestartDn
  <2>4. CASE RestartRs(p)
    BY <1>7, <2>4 DEF RestartRs
  <2>5. QED
    BY <2>1, <2>2, <2>3, <2>4
<1>8. ASSUME UNCHANGED tenants, NEW p \in Pods PROVE
        /\ DnLaunchBlind(p) => TypeOK'
        /\ DnCrash(p) => TypeOK'
        /\ RsCrash(p) => TypeOK'
        /\ SwitchFails(p) => TypeOK'
        /\ MoveFails(p) => TypeOK'
  <2>1. CASE DnLaunchBlind(p)
    BY <1>8, <2>1, <1>5 DEF DnLaunchBlind
  <2>2. CASE DnCrash(p)
    BY <1>8, <2>2, <1>5 DEF DnCrash, DnEnds
  <2>3. CASE RsCrash(p)
    BY <1>8, <2>3, <1>5 DEF RsCrash
  <2>4. CASE SwitchFails(p)
    BY <1>8, <2>4, <1>5 DEF SwitchFails
  <2>5. CASE MoveFails(p)
    BY <1>8, <2>5, <1>5 DEF MoveFails, AfterUnload
  <2>6. QED
    BY <2>1, <2>2, <2>3, <2>4, <2>5
<1>9. QED
  BY <1>1, <1>2, <1>6, <1>7, <1>8 DEF Next

(***************************************************************************)
(* Types, at all times.                                                    *)
(***************************************************************************)
THEOREM TypeCorrect == Spec => []TypeOK
<1>1. Init => TypeOK
  BY PodAssumption DEF Init, TypeOK, DnSteps, RsSteps
<1>2. QED
  BY <1>1, TypeNext, PTL DEF Spec

------------------------------------------------------------------------------
(***************************************************************************)
(* The inductive invariant of one pod.  The files in /lifecycle tell the   *)
(* truth as long as the container that wrote them was not restarted, and   *)
(* the region server gets past its unloading only by running RegionMover.  *)
(***************************************************************************)
MoverRan(p) == unloaded[p] \/ "move" \in failed[p]

TerminatedTells(p) ==
  "rs" \notin reborn[p] /\ ("rs-terminated" \in files[p] \/ dn[p] = "stopping") => MoverRan(p)

StartedTells(p) ==
  p \notin tenants \cup blind /\ "dn" \notin reborn[p] /\ "dn-started" \in files[p] => socket[p]

PastUnload(p) == rs[p] \in {"switchOn", "mark", "stop"} => MoverRan(p)

PastDatanode(p) == rs[p] = "delay" \/ server[p] => "dn-started" \in files[p]

PodOk(p) == TerminatedTells(p) /\ StartedTells(p) /\ PastUnload(p) /\ PastDatanode(p)

(***************************************************************************)
(* The inductive invariant of the balancer.  Only a region server of the   *)
(* cluster switches it, and one that has switched it off has its own       *)
(* switch-on still ahead.  Two that are in their shutdowns at once know    *)
(* of it, so that nobody switches it on behind the back of the others.     *)
(***************************************************************************)
TenantNeverSwitches == \A p \in Pods : rs[p] \in {"switchOff", "switchOn"} => p \notin tenants

OffHasOwner ==
  balancer \/ leftOff # {} \/ \E p \in Pods : p \notin tenants /\ rs[p] \in {"unload", "switchOn"}

AloneUnlessMet ==
  \A p, q \in Pods \ tenants :
    p # q /\ rs[p] \in Switching /\ rs[q] \in Switching => p \in overlapped

OffWhileAlone ==
  \A p \in Pods \ tenants :
    rs[p] \in {"unload", "switchOn"} /\ p \notin overlapped /\ "off" \notin failed[p] => ~balancer

BalancerOk == TenantNeverSwitches /\ OffHasOwner /\ AloneUnlessMet /\ OffWhileAlone

(***************************************************************************)
(* Every step keeps the invariant of every pod.                            *)
(***************************************************************************)
LEMMA PodOkNext ==
  ASSUME TypeOK, [Next]_vars, NEW q \in Pods, PodOk(q)
  PROVE  PodOk(q)'
<1> USE DEF TypeOK, PodOk, MoverRan, TerminatedTells, StartedTells, PastUnload, PastDatanode,
            DnGoes, RsGoes, Touch, Fails, history
<1>1. CASE UNCHANGED vars
  BY <1>1 DEF vars, state
<1>2. ASSUME NEW p \in Pods, UNCHANGED tenants, ScriptStep(p) PROVE PodOk(q)'
  <2>1. CASE DnLaunch(p)
    BY <1>2, <2>1 DEF DnLaunch
  <2>2. CASE DnSocket(p)
    BY <1>2, <2>2 DEF DnSocket
  <2>3. CASE DnStarted(p)
    BY <1>2, <2>3 DEF DnStarted, DnReady
  <2>4. CASE DnSeesTerminated(p)
    BY <1>2, <2>4 DEF DnSeesTerminated
  <2>5. CASE DnStop(p)
    BY <1>2, <2>5 DEF DnStop, DnEnds, DnReady
  <2>6. CASE RsSeesDatanode(p)
    BY <1>2, <2>6 DEF RsSeesDatanode
  <2>7. CASE RsStart(p)
    BY <1>2, <2>7 DEF RsStart
  <2>8. CASE RsSwitchOff(p)
    BY <1>2, <2>8 DEF RsSwitchOff
  <2>9. CASE RsUnload(p)
    BY <1>2, <2>9 DEF RsUnload, AfterUnload
  <2>10. CASE RsSwitchOn(p)
    BY <1>2, <2>10 DEF RsSwitchOn
  <2>11. CASE RsMark(p)
    BY <1>2, <2>11 DEF RsMark
  <2>12. CASE RsStop(p)
    BY <1>2, <2>12 DEF RsStop
  <2>13. QED
    BY <1>2, <2>1, <2>2, <2>3, <2>4, <2>5, <2>6, <2>7, <2>8, <2>9, <2>10, <2>11, <2>12
    DEF ScriptStep
<1>3. ASSUME NEW p \in Pods, UNCHANGED tenants, SigtermDn(p) PROVE PodOk(q)'
  BY <1>3 DEF SigtermDn, DnTrap
<1>4. ASSUME NEW p \in Pods, UNCHANGED tenants, SigtermRs(p) PROVE PodOk(q)'
  BY <1>4 DEF SigtermRs, RsTrap, ShutdownStart
<1>5. ASSUME NEW p \in Pods, UNCHANGED tenants,
             DeletePod(p) \/ Terminate(p) \/ ProbeFailure(p)
      PROVE  PodOk(q)'
  BY <1>3, <1>4, <1>5 DEF DeletePod, Terminate, ProbeFailure
<1>6. ASSUME NEW p \in Pods, UNCHANGED tenants,
             KillDn(p) \/ KillRs(p) \/ RestartDn(p) \/ RestartRs(p)
      PROVE  PodOk(q)'
  <2>1. CASE KillDn(p)
    BY <1>6, <2>1 DEF KillDn
  <2>2. CASE KillRs(p)
    BY <1>6, <2>2 DEF KillRs
  <2>3. CASE RestartDn(p)
    BY <1>6, <2>3 DEF RestartDn
  <2>4. CASE RestartRs(p)
    BY <1>6, <2>4 DEF RestartRs
  <2>5. QED
    BY <1>6, <2>1, <2>2, <2>3, <2>4
<1>7. ASSUME NEW p \in Pods, UNCHANGED tenants,
             DnLaunchBlind(p) \/ DnCrash(p) \/ RsCrash(p) \/ SwitchFails(p) \/ MoveFails(p)
      PROVE  PodOk(q)'
  <2>1. CASE DnLaunchBlind(p)
    BY <1>7, <2>1 DEF DnLaunchBlind
  <2>2. CASE DnCrash(p)
    BY <1>7, <2>2 DEF DnCrash, DnEnds, DnReady
  <2>3. CASE RsCrash(p)
    BY <1>7, <2>3 DEF RsCrash
  <2>4. CASE SwitchFails(p)
    BY <1>7, <2>4 DEF SwitchFails
  <2>5. CASE MoveFails(p)
    BY <1>7, <2>5 DEF MoveFails, AfterUnload
  <2>6. QED
    BY <1>7, <2>1, <2>2, <2>3, <2>4, <2>5
<1>8. QED
  BY <1>1, <1>2, <1>5, <1>6, <1>7 DEF Next

(***************************************************************************)
(* Every step keeps that of the balancer.                                  *)
(***************************************************************************)
LEMMA BalancerNext ==
  ASSUME TypeOK, [Next]_vars, BalancerOk
  PROVE  BalancerOk'
<1> USE DEF TypeOK, BalancerOk, TenantNeverSwitches, OffHasOwner, AloneUnlessMet, OffWhileAlone,
            Switching, RsGoes, Fails, history
<1>1. CASE UNCHANGED vars
  BY <1>1 DEF vars, state
<1>2. ASSUME NEW p \in Pods, UNCHANGED tenants, ScriptStep(p) PROVE BalancerOk'
  <2>1. CASE DnLaunch(p)
    BY <1>2, <2>1 DEF DnLaunch
  <2>2. CASE DnSocket(p)
    BY <1>2, <2>2 DEF DnSocket
  <2>3. CASE DnStarted(p)
    BY <1>2, <2>3 DEF DnStarted, DnReady
  <2>4. CASE DnSeesTerminated(p)
    BY <1>2, <2>4 DEF DnSeesTerminated
  <2>5. CASE DnStop(p)
    BY <1>2, <2>5 DEF DnStop, DnEnds, DnReady
  <2>6. CASE RsSeesDatanode(p)
    BY <1>2, <2>6 DEF RsSeesDatanode
  <2>7. CASE RsStart(p)
    BY <1>2, <2>7 DEF RsStart
  <2>8. CASE RsSwitchOff(p)
    BY <1>2, <2>8 DEF RsSwitchOff
  <2>9. CASE RsUnload(p)
    BY <1>2, <2>9 DEF RsUnload, AfterUnload
  <2>10. CASE RsSwitchOn(p)
    BY <1>2, <2>10 DEF RsSwitchOn
  <2>11. CASE RsMark(p)
    BY <1>2, <2>11 DEF RsMark
  <2>12. CASE RsStop(p)
    BY <1>2, <2>12 DEF RsStop
  <2>13. QED
    BY <1>2, <2>1, <2>2, <2>3, <2>4, <2>5, <2>6, <2>7, <2>8, <2>9, <2>10, <2>11, <2>12
    DEF ScriptStep
<1>3. ASSUME NEW p \in Pods, UNCHANGED tenants, SigtermDn(p) PROVE BalancerOk'
  BY <1>3 DEF SigtermDn, DnTrap
<1>4. ASSUME NEW p \in Pods, UNCHANGED tenants, SigtermRs(p) PROVE BalancerOk'
  <2>1. CASE rs[p] = "up" /\ p \notin tenants
    <3>1. /\ rs' = [rs EXCEPT ![p] = "switchOff"] /\ overlapped' = Meets(p)
          /\ UNCHANGED <<balancer, failed, leftOff>>
      BY <1>4, <2>1 DEF SigtermRs, RsTrap, ShutdownStart
    <3>2. Meets(p) = (overlapped \ {p}) \cup (IF Others(p) = {} THEN {} ELSE Others(p) \cup {p})
      BY <2>1 DEF Meets
    <3>3. \A q \in Pods \ tenants : q # p /\ rs[q] \in Switching => q \in Meets(p) /\ p \in Meets(p)
      BY <3>2 DEF Others
    <3>4. \A q \in Pods : q # p /\ q \in overlapped => q \in Meets(p)
      BY <3>2
    <3>5. (TenantNeverSwitches /\ OffHasOwner)'
      BY <1>4, <2>1, <3>1
    <3>6. AloneUnlessMet'
      BY <1>4, <3>1, <3>3, <3>4
    <3>7. OffWhileAlone'
      BY <1>4, <3>1, <3>4
    <3>8. QED
      BY <3>5, <3>6, <3>7
  <2>2. CASE ~(rs[p] = "up" /\ p \notin tenants)
    <3>1. overlapped' = overlapped
      BY <1>4, <2>2 DEF SigtermRs, Meets
    <3>2. QED
      BY <1>4, <2>2, <3>1 DEF SigtermRs, RsTrap, ShutdownStart
  <2>3. QED
    BY <2>1, <2>2
<1>5. ASSUME NEW p \in Pods, UNCHANGED tenants,
             DeletePod(p) \/ Terminate(p) \/ ProbeFailure(p)
      PROVE  BalancerOk'
  BY <1>3, <1>4, <1>5 DEF DeletePod, Terminate, ProbeFailure
<1>6. ASSUME NEW p \in Pods, UNCHANGED tenants,
             KillDn(p) \/ KillRs(p) \/ RestartDn(p) \/ RestartRs(p)
      PROVE  BalancerOk'
  <2>1. CASE KillDn(p)
    BY <1>6, <2>1 DEF KillDn
  <2>2. CASE KillRs(p)
    BY <1>6, <2>2 DEF KillRs
  <2>3. CASE RestartDn(p)
    BY <1>6, <2>3 DEF RestartDn
  <2>4. CASE RestartRs(p)
    BY <1>6, <2>4 DEF RestartRs
  <2>5. QED
    BY <1>6, <2>1, <2>2, <2>3, <2>4
<1>7. ASSUME NEW p \in Pods, UNCHANGED tenants,
             DnLaunchBlind(p) \/ DnCrash(p) \/ RsCrash(p) \/ SwitchFails(p) \/ MoveFails(p)
      PROVE  BalancerOk'
  <2>1. CASE DnLaunchBlind(p)
    BY <1>7, <2>1 DEF DnLaunchBlind
  <2>2. CASE DnCrash(p)
    BY <1>7, <2>2 DEF DnCrash, DnEnds, DnReady
  <2>3. CASE RsCrash(p)
    BY <1>7, <2>3 DEF RsCrash
  <2>4. CASE SwitchFails(p)
    <3>1. CASE rs[p] = "switchOff"
      BY <1>7, <2>4, <3>1 DEF SwitchFails
    <3>2. CASE rs[p] = "switchOn"
      <4>1. /\ rs' = [rs EXCEPT ![p] = "mark"] /\ leftOff' = leftOff \cup {p}
            /\ failed' = [failed EXCEPT ![p] = @ \cup {"on"}]
            /\ UNCHANGED <<balancer, overlapped>>
        BY <2>4, <3>2 DEF SwitchFails
      <4>2. leftOff' # {}
        BY <4>1
      <4>3. (TenantNeverSwitches /\ OffHasOwner /\ AloneUnlessMet)'
        BY <1>7, <4>1, <4>2
      <4>4. OffWhileAlone'
        BY <1>7, <4>1
      <4>5. QED
        BY <4>3, <4>4
    <3>3. QED
      BY <2>4, <3>1, <3>2 DEF SwitchFails
  <2>5. CASE MoveFails(p)
    BY <1>7, <2>5 DEF MoveFails, AfterUnload
  <2>6. QED
    BY <1>7, <2>1, <2>2, <2>3, <2>4, <2>5
<1>8. QED
  BY <1>1, <1>2, <1>5, <1>6, <1>7 DEF Next

(***************************************************************************)
(* The three together.                                                     *)
(***************************************************************************)
PodInv ==
  /\ TypeOK
  /\ \A p \in Pods : PodOk(p)
  /\ BalancerOk

(***************************************************************************)
(* They hold at all times.                                                 *)
(***************************************************************************)
LEMMA PodInvAlways == Spec => []PodInv
<1>1. Init => PodInv
  <2> SUFFICES ASSUME Init PROVE PodInv
    OBVIOUS
  <2>1. TypeOK
    BY PodAssumption DEF Init, TypeOK, DnSteps, RsSteps
  <2>2. \A p \in Pods : PodOk(p)
    BY DEF Init, PodOk, TerminatedTells, StartedTells, PastUnload, PastDatanode
  <2>3. BalancerOk
    BY DEF Init, BalancerOk, TenantNeverSwitches, OffHasOwner, AloneUnlessMet, OffWhileAlone, Switching
  <2>4. QED
    BY <2>1, <2>2, <2>3 DEF PodInv
<1>2. PodInv /\ [Next]_vars => PodInv'
  BY TypeNext, PodOkNext, BalancerNext DEF PodInv
<1>3. QED
  BY <1>1, <1>2, PTL DEF Spec

(***************************************************************************)
(* A datanode stops by itself only after its region server has moved its   *)
(* regions or has failed to, in any pod whose region server container was  *)
(* not restarted.                                                          *)
(***************************************************************************)
THEOREM RegionsCorrect == Spec => []RegionsMovedFirst
<1>1. PodInv => RegionsMovedFirst
  BY DEF PodInv, PodOk, TerminatedTells, MoverRan, RegionsMovedFirst
<1>2. QED
  BY <1>1, PodInvAlways, PTL

(***************************************************************************)
(* A region server of the cluster runs only with its datanode's socket, in *)
(* any pod whose datanode container was not restarted and was told the     *)
(* socket's path.                                                          *)
(***************************************************************************)
THEOREM SocketCorrect == Spec => []SocketFirst
<1>1. PodInv => SocketFirst
  BY DEF PodInv, PodOk, StartedTells, PastDatanode, SocketFirst
<1>2. QED
  BY <1>1, PodInvAlways, PTL

(***************************************************************************)
(* However many region servers shut down at once, the balancer is off only *)
(* while one of them is between its switches, or one was cut short there   *)
(* and nobody has switched it on since.                                    *)
(***************************************************************************)
THEOREM BalancerCorrect == Spec => []BalancerOffExplained
<1>1. PodInv => BalancerOffExplained
  BY DEF PodInv, BalancerOk, OffHasOwner, BalancerOffExplained
<1>2. QED
  BY <1>1, PodInvAlways, PTL

(***************************************************************************)
(* A region server that is the only one of its cluster to shut down, and   *)
(* that reached the master, moves its regions with the balancer off,       *)
(* whatever the tenants' region servers do.                                *)
(***************************************************************************)
THEOREM UnloadingCorrect == Spec => []OffWhileUnloading
<1>1. PodInv => OffWhileUnloading
  BY DEF PodInv, BalancerOk, OffWhileAlone, OffWhileUnloading
<1>2. QED
  BY <1>1, PodInvAlways, PTL
==============================================================================
