-------------------------- MODULE OperatorProperties --------------------------
(***************************************************************************)
(* What the operator should guarantee, stated on the state of module       *)
(* Operator.                                                               *)
(***************************************************************************)
EXTENDS Operator

(***************************************************************************)
(* Type invariant: every variable holds what the code can put there, a     *)
(* running pass stands at a cursor its own generation has, and no object   *)
(* stage refers to a deployment, namespace or pod the spec does not list.  *)
(***************************************************************************)
PassOK(c) ==
  pass[c] # Nil =>
    /\ pass[c].gen \in 1 .. gen[c]
    /\ CursorOK(c, pass[c].gen, pass[c].at)

TypeOK ==
  /\ gen \in [CRs -> Nat]
  /\ \A c \in CRs : gen[c] \in DOMAIN Script[c]
  /\ api \in [Keys -> Object \cup {Nil}]
  /\ cache \in [Keys -> Object \cup {Nil}]
  /\ hashStore \in [HashKeys -> Content \cup {Nil}]
  /\ queued \subseteq CRs
  /\ timer \subseteq CRs
  /\ pass \in [CRs -> Pass \cup {Nil}]
  /\ \A c \in CRs : PassOK(c)
  /\ faults \in 0 .. MaxFaults
  /\ readySeen \in [StsKeys -> SUBSET Nat]
  /\ applied \in [StsKeys -> Nat]
  /\ restarts \in [StsKeys -> Nat]

------------------------------------------------------------------------------
(***************************************************************************)
(* Bring-up order.  When a StatefulSet appears in the API server, the pass *)
(* that creates it belongs to a generation in which every deployment       *)
(* listed before it already has its StatefulSet, and that StatefulSet has  *)
(* reported as many ready replicas as the generation asks for: no NameNode *)
(* before a complete JournalNode quorum, whatever edits, stale reads,      *)
(* crashes and pod failures happen in between (reconcileStatefulSet, and   *)
(* the loop over deployments of the cluster's Reconcile).                  *)
(***************************************************************************)
ReachedSize(c, g, i) ==
  LET k == StsKey(c, Deployments(c, g)[i])
  IN  api[k] # Nil /\ Dep(c, g, i).size \in readySeen[k]

ItsTurn(c, g, k) ==
  \E j \in 1 .. Len(Deployments(c, g)) :
    /\ k = StsKey(c, Deployments(c, g)[j])
    /\ \A i \in 1 .. (j - 1) : ReachedSize(c, g, i)

BringUpStep ==
  \A k \in StsKeys :
    api[k] = Nil /\ api'[k] # Nil =>
      \E c \in CRs : Running(c) /\ ItsTurn(c, pass[c].gen, k)

OrderedBringUp == [][BringUpStep]_vars

(***************************************************************************)
(* What pods mount is there before they are: a StatefulSet exists only if  *)
(* the CR's headless Service does and, for the kinds whose Reconcile       *)
(* always handles them, both ConfigMaps of its namespace.                  *)
(***************************************************************************)
DependenciesFirst ==
  \A c \in CRs : \A d \in DepNames(c) :
    api[StsKey(c, d)] # Nil =>
      /\ api[Key("svc", Meta[c].name, 0, Meta[c].ns)] # Nil
      /\ Meta[c].kind # "tenant" =>
           \A n \in {Meta[c].hbaseCfg, Meta[c].hadoopCfg} :
             api[Key("cfg", n, 0, Meta[c].ns)] # Nil

(***************************************************************************)
(* Upgrade order.  Among the deployments every generation has, an earlier  *)
(* one is never behind a later one: HMaster is never asked to run          *)
(* generation g while a Datanode has only been offered g-1, across         *)
(* requeues, errors and restarts of the operator.                          *)
(***************************************************************************)
Always(c) ==
  {i \in DOMAIN Meta[c].deps :
     \A g \in DOMAIN Script[c] : Meta[c].deps[i] \in Range(Deployments(c, g))}

RolloutOrder ==
  \A c \in CRs : \A i, j \in Always(c) :
    i < j => applied[StsKey(c, Meta[c].deps[i])] >= applied[StsKey(c, Meta[c].deps[j])]

(***************************************************************************)
(* The operator implements the ordered rollout of module Rollout: a        *)
(* StatefulSet is created, updated or accepted for generation g only by a  *)
(* pass of g, after every deployment before it was accepted for g and has  *)
(* had all its replicas ready, and generations never go backwards, though  *)
(* every pass starts anew from stale reads and may be cut short anywhere.  *)
(***************************************************************************)
PlanOf(c, g) ==
  [i \in 1 .. Len(Deployments(c, g)) |->
     [set |-> StsKey(c, Deployments(c, g)[i]), size |-> Dep(c, g, i).size]]

Abstract == INSTANCE Rollout WITH
  Clusters <- CRs, Components <- StsKeys, offered <- applied, reached <- readySeen,
  Plan <- [c \in CRs |-> [g \in DOMAIN Script[c] |-> PlanOf(c, g)]]

ImplementsRollout == Abstract!Spec

(***************************************************************************)
(* An invalid configuration stops its generation: a ConfigMap only ever    *)
(* holds a revision from a valid generation of a CR that manages it, and   *)
(* no StatefulSet is moved to an invalid generation (validateConfiguration *)
(* before reconcileConfigMap).                                             *)
(***************************************************************************)
OwnKeys == [c \in CRs |-> KeysOf(c)]

ValidData(c) ==
  UNION {{<<Script[c][g].hbase>>, <<Script[c][g].hadoop>>} :
           g \in {x \in DOMAIN Script[c] : Script[c][x].valid}}

InvalidNeverApplied ==
  /\ \A k \in Keys : k.kind = "cfg" /\ api[k] # Nil =>
       \E c \in CRs : k \in OwnKeys[c] /\ api[k].spec.data \in ValidData(c)
  /\ \A c \in CRs : \A d \in DepNames(c) :
       LET g == applied[StsKey(c, d)]
       IN  g # 0 /\ ReconcilesConfig(c, g) => SpecAt(c, g).valid

(***************************************************************************)
(* Pods are restarted for a reason: the pod template of a StatefulSet      *)
(* changes at most once per edit that asks for it, that is one that        *)
(* changes the template or the label, or the hbase configuration of a CR   *)
(* whose pods follow it.  Scaling, budgets, retries, stale reads and an    *)
(* operator that restarts do not roll the pods.  Two exceptions the code   *)
(* has: a standalone's first StatefulSet carries a stamp the next pass     *)
(* removes, and every other CR that manages the same ConfigMap may cause   *)
(* one annotated write of it (the two reads of hashStore in                *)
(* reconcileConfigMap).                                                    *)
(***************************************************************************)
AsksRestart(c, d, g) ==
  LET old == SpecAt(c, g - 1)
      new == SpecAt(c, g)
  IN  \/ new.dep[d].tmpl # old.dep[d].tmpl
      \/ new.label # old.label
      \/ new.label = "true" /\ new.hbase # old.hbase

Manages(c, k) ==
  k.kind = "cfg" /\ \E g \in DOMAIN Script[c] :
    k.ns \in Range(ConfigNamespaces(c, g)) /\ k.name \in {Meta[c].hbaseCfg, Meta[c].hadoopCfg}

Sharers(c) ==
  {d \in CRs \ {c} : Manages(d, Key("cfg", Meta[c].hbaseCfg, 0, Meta[c].ns))}

RestartsAccountedFor ==
  \A c \in CRs : \A d \in DepNames(c) :
    restarts[StsKey(c, d)] <=
      Cardinality({g \in 2 .. gen[c] : AsksRestart(c, d, g)})
        + (IF Meta[c].kind = "standalone" THEN 1 ELSE Cardinality(Sharers(c)))

(***************************************************************************)
(* A write whose hash is not on record is not forgotten: if hashStore      *)
(* remembers something else than what the API server holds, a pass of the  *)
(* owner is running or due.                                                *)
(***************************************************************************)
Pending(c) == Running(c) \/ c \in queued \/ c \in timer

NoForgottenWrite ==
  \A c \in CRs : \A k \in OwnKeys[c] :
    /\ api[k] # Nil
    /\ hashStore[HashKey(k)] # Nil
    /\ hashStore[HashKey(k)] # api[k].spec
    => Pending(c)

(***************************************************************************)
(* One component at a time: an existing StatefulSet's pod template is      *)
(* changed only when every deployment before it has finished its rollout.  *)
(***************************************************************************)
Settled(k) ==
  /\ Observed(k) /\ ~Rolling(k)
  /\ api[k].status.ready = api[k].spec.size

RolloutOneByOne ==
  [][\A c \in CRs : \A e \in DepNames(c) :
       restarts'[StsKey(c, e)] # restarts[StsKey(c, e)] =>
         \A i, j \in 1 .. Len(Deployments(c, gen[c])) :
           i < j /\ Deployments(c, gen[c])[j] = e
             => Settled(StsKey(c, Deployments(c, gen[c])[i]))]_vars

(***************************************************************************)
(* The operator never rests too early: when no pass of a CR is running or  *)
(* due, its Service, pod Services, ConfigMaps, StatefulSets and            *)
(* PodDisruptionBudgets hold what its last spec asks for, version stamps   *)
(* apart, although a pass may skip every write whose hash is on record.    *)
(***************************************************************************)
Holds(k, content) == api[k] # Nil /\ [api[k].spec EXCEPT !.ver = 0] = content

ConfigsMatch(c) ==
  ReconcilesConfig(c, gen[c]) =>
    \A n \in 1 .. Len(ConfigNamespaces(c, gen[c])) : \A s \in {"hbasecfg", "hadoopcfg"} :
      Holds(KeyAt(c, gen[c], At(s, 0, n)), Desired(c, gen[c], At(s, 0, n), 0))

DeploymentMatches(c, i) ==
  LET g == gen[c]
      Done(a) == Holds(KeyAt(c, g, a), Desired(c, g, a, 0))
  IN  /\ Done(At("ss", i, 0))
      /\ Dep(c, g, i).pdb # 0 => Done(At("pdb", i, 0))
      /\ Meta[c].kind = "cluster" /\ Dep(c, g, i).podsvc =>
           \A n \in 1 .. Dep(c, g, i).size : Done(At("podsvc", i, n))

Matches(c) ==
  /\ Holds(KeyAt(c, gen[c], At("svc", 0, 0)), Desired(c, gen[c], At("svc", 0, 0), 0))
  /\ ConfigsMatch(c)
  /\ \A i \in 1 .. Len(Deployments(c, gen[c])) : DeploymentMatches(c, i)

IdleMeansApplied == \A c \in CRs : ~Pending(c) => Matches(c)

------------------------------------------------------------------------------
(***************************************************************************)
(* Convergence: once edits and faults are over, the objects of every CR    *)
(* come to match its last spec and stay so, with its StatefulSets fully    *)
(* rolled out and all stamped with the same config version: the            *)
(* ConfigMap's, if the label asks for it.                                  *)
(***************************************************************************)
VersionInForce(c) ==
  LET cfg == api[Key("cfg", Meta[c].hbaseCfg, 0, Meta[c].ns)]
  IN  IF SpecAt(c, gen[c]).label = "true"
      THEN (IF cfg # Nil /\ cfg.v2 THEN cfg.rv ELSE 0)
      ELSE api[StsKey(c, Meta[c].datanode)].spec.ver

RolledOut(c) ==
  \A i \in 1 .. Len(Deployments(c, gen[c])) :
    LET k == StsKey(c, Deployments(c, gen[c])[i])
    IN  Settled(k) /\ api[k].spec.ver = VersionInForce(c)

Accepted(c) ==
  /\ \A ns \in Range(SpecAt(c, gen[c]).tns) : Watches(ns)
  /\ ReconcilesConfig(c, gen[c]) => SpecAt(c, gen[c]).valid
  /\ \A i \in 1 .. Len(Deployments(c, gen[c])) : Dep(c, gen[c], i).tmpl # 0

Converges == \A c \in CRs : <>[](Accepted(c) => Matches(c) /\ RolledOut(c))
==============================================================================
