------------------------------ MODULE Resources ------------------------------
(***************************************************************************)
(* The custom resources of the HBase operator and the Kubernetes objects   *)
(* they stand for: which object each stage of a Reconcile call handles,    *)
(* what that object should contain, under which key its hash is            *)
(* remembered, and which stage comes next.  All three controllers          *)
(* (HbaseCluster, HbaseTenant, HbaseStandalone) are described here; module *)
(* Operator gives them their state and steps.                              *)
(*                                                                         *)
(* Payloads are numbered revisions: a container spec, a port list or a     *)
(* configuration file is represented by a natural number that changes      *)
(* exactly when the payload does.                                          *)
(***************************************************************************)
EXTENDS Integers, Sequences, FiniteSets, Functions

CONSTANTS
  CRs,     \* custom resources the operator watches
  Meta,    \* per CR: kind, name, namespace, config map names, deployments
  Script,  \* per CR: the successive values of its spec (generation g at index g)
  Nil      \* no object, no hash, no revision

Kinds == {"cluster", "tenant", "standalone"}

(***************************************************************************)
(* The values of the serviceLabels entry RECONCILE_CONFIG_LABEL that the   *)
(* code tells apart; "true" stands for "yes" too, "off" for every other    *)
(* value and for an absent label.                                          *)
(***************************************************************************)
Labels == {"off", "config-only", "true"}

(***************************************************************************)
(* One deployment of a CR: replicas, revision of its pod template (0: a    *)
(* template buildStatefulSet rejects), revision of its container ports,    *)
(* whether each pod gets a service, and revision of its                    *)
(* PodDisruptionBudget (0: none).                                          *)
(***************************************************************************)
DeploymentSpec == [size : Nat, tmpl : Nat, ports : Nat, podsvc : BOOLEAN, pdb : Nat]

DepNames(c) == Range(Meta[c].deps)

(***************************************************************************)
(* A CR's spec.  hbase and hadoop are the revisions of the two             *)
(* configurations, valid whether validateConfiguration accepts them, and   *)
(* tns the tenantNamespaces of an HbaseCluster (empty for other kinds).    *)
(***************************************************************************)
CRSpec(c) ==
  [hbase : Nat, hadoop : Nat, valid : BOOLEAN, label : Labels,
   tns : Seq(STRING), dep : [DepNames(c) -> DeploymentSpec]]

MetaOK(c) ==
  /\ Meta[c].kind \in Kinds
  /\ Meta[c].name \in STRING /\ Meta[c].ns \in STRING
  /\ Meta[c].hbaseCfg \in STRING /\ Meta[c].hadoopCfg \in STRING
  /\ Meta[c].deps \in Seq(STRING)
  /\ Len(Meta[c].deps) >= (IF Meta[c].kind = "cluster" THEN 2 ELSE 1)
  /\ Meta[c].datanode \in DepNames(c)
  /\ \A i, j \in DOMAIN Meta[c].deps : Meta[c].deps[i] = Meta[c].deps[j] => i = j
  /\ Script[c] \in Seq(CRSpec(c))
  /\ Len(Script[c]) >= 1
  /\ Meta[c].kind # "cluster" => \A g \in DOMAIN Script[c] : Script[c][g].tns = <<>>

ASSUME MetaAssumption == \A c \in CRs : MetaOK(c)

(***************************************************************************)
(* Within a namespace no two custom resources name a deployment alike:     *)
(* they would manage one StatefulSet.                                      *)
(***************************************************************************)
ASSUME DistinctAssumption ==
  \A c, d \in CRs : c # d /\ Meta[c].ns = Meta[d].ns => DepNames(c) \cap DepNames(d) = {}

------------------------------------------------------------------------------
(***************************************************************************)
(* What a Reconcile call iterates over.                                    *)
(***************************************************************************)

SpecAt(c, g) == Script[c][g]

\* Mutant: Zookeeper is appended to the list, not put in front.
DeploymentsZookeeperLast(c, g) ==
  IF Meta[c].kind = "cluster"
  THEN Append(Tail(Meta[c].deps), Head(Meta[c].deps))
  ELSE Meta[c].deps

(***************************************************************************)
(* The ordered deployments of generation g.  A cluster lists Zookeeper     *)
(* first, and only if its size is not 0.                                   *)
(***************************************************************************)
Deployments(c, g) ==
  IF Meta[c].kind = "cluster" /\ SpecAt(c, g).dep[Head(Meta[c].deps)].size = 0
  THEN Tail(Meta[c].deps)
  ELSE Meta[c].deps

(***************************************************************************)
(* The namespaces that receive the two ConfigMaps: the tenants' first, the *)
(* CR's own last.                                                          *)
(***************************************************************************)
ConfigNamespaces(c, g) == Append(SpecAt(c, g).tns, Meta[c].ns)

Dep(c, g, i) == SpecAt(c, g).dep[Deployments(c, g)[i]]

(***************************************************************************)
(* Object keys.  pod is 0 except for the service of the pod-th replica.    *)
(***************************************************************************)
Key(kind, name, pod, ns) == [kind |-> kind, name |-> name, pod |-> pod, ns |-> ns]

StsKey(c, d) == Key("ss", d, 0, Meta[c].ns)

KeysOf(c) ==
  {Key("svc", Meta[c].name, 0, Meta[c].ns)}
    \cup {Key("cfg", n, 0, ns) :
            n  \in {Meta[c].hbaseCfg, Meta[c].hadoopCfg},
            ns \in UNION {Range(ConfigNamespaces(c, g)) : g \in DOMAIN Script[c]}}
    \cup {Key(kind, d, 0, Meta[c].ns) : kind \in {"ss", "pdb"}, d \in DepNames(c)}
    \cup UNION {{Key("svc", d, n, Meta[c].ns) : n \in 1 .. Script[c][g].dep[d].size} :
                  g \in DOMAIN Script[c], d \in DepNames(c)}

Keys == UNION {KeysOf(c) : c \in CRs}

StsKeys == {k \in Keys : k.kind = "ss"}

(***************************************************************************)
(* The key of an object's hash in hashStore: only a ConfigMap's carries    *)
(* the namespace.                                                          *)
(***************************************************************************)
HashKey(k) ==
  IF k.kind = "cfg" THEN k ELSE Key(k.kind, k.name, k.pod, "")

HashKeys == {HashKey(k) : k \in Keys}

------------------------------------------------------------------------------
(***************************************************************************)
(* The stages of Reconcile.  A cursor names a stage, the index of the      *)
(* deployment being handled and the index of the namespace or pod.         *)
(***************************************************************************)
ObjectStages == {"svc", "hbasecfg", "hadoopcfg", "podsvc", "ss", "pdb"}
Stages == ObjectStages \cup {"validate", "version", "done"}

At(stage, dep, sub) == [stage |-> stage, dep |-> dep, sub |-> sub]

Cursor == [stage : Stages, dep : Nat, sub : Nat]

(***************************************************************************)
(* The HbaseTenant controller touches the ConfigMaps only under these      *)
(* labels.                                                                 *)
(***************************************************************************)
ReconcilesConfig(c, g) ==
  Meta[c].kind = "tenant" => SpecAt(c, g).label \in {"config-only", "true"}

\* Mutant: the service is not reconciled first.
StartWithoutService(c, g) == At("validate", 0, 0)

(***************************************************************************)
(* Where the Reconcile call of each kind begins.                           *)
(***************************************************************************)
Start(c, g) ==
  IF Meta[c].kind # "tenant" THEN At("svc", 0, 0)
  ELSE IF ReconcilesConfig(c, g) THEN At("validate", 0, 0)
  ELSE At("version", 0, 0)

(***************************************************************************)
(* Entering the loop body for deployment i: the pod services, if asked     *)
(* for, come first.  Only the HbaseCluster controller creates them.        *)
(***************************************************************************)
EnterDeployment(c, g, i) ==
  IF /\ Meta[c].kind = "cluster"
     /\ Dep(c, g, i).podsvc
     /\ Dep(c, g, i).size > 0
  THEN At("podsvc", i, 1)
  ELSE At("ss", i, 0)

NextDeployment(c, g, i) ==
  IF i < Len(Deployments(c, g)) THEN EnterDeployment(c, g, i + 1) ELSE At("done", 0, 0)

\* Mutant: the ConfigMaps are skipped.
AfterServiceNoConfigs(c, g) == EnterDeployment(c, g, 1)

AfterService(c, g) ==
  IF Meta[c].kind = "tenant" THEN EnterDeployment(c, g, 1) ELSE At("validate", 0, 0)

AfterConfigs(c, g) ==
  IF Meta[c].kind = "standalone" THEN EnterDeployment(c, g, 1) ELSE At("version", 0, 0)

AfterVersion(c, g) ==
  IF Meta[c].kind = "tenant" THEN At("svc", 0, 0) ELSE EnterDeployment(c, g, 1)

\* Mutant: one namespace too many.
AfterHadoopConfigOffByOne(c, g, n) ==
  IF n <= Len(ConfigNamespaces(c, g)) THEN At("hbasecfg", 0, n + 1) ELSE AfterConfigs(c, g)

AfterHadoopConfig(c, g, n) ==
  IF n < Len(ConfigNamespaces(c, g)) THEN At("hbasecfg", 0, n + 1) ELSE AfterConfigs(c, g)

AfterPodService(c, g, i, n) ==
  IF n < Dep(c, g, i).size THEN At("podsvc", i, n + 1) ELSE At("ss", i, 0)

AfterStatefulSet(c, g, i) ==
  IF Dep(c, g, i).pdb # 0 THEN At("pdb", i, 0) ELSE NextDeployment(c, g, i)

After(c, g, a) ==
  CASE a.stage = "svc"       -> AfterService(c, g)
    [] a.stage = "validate"  -> At("hbasecfg", 0, 1)
    [] a.stage = "hbasecfg"  -> At("hadoopcfg", 0, a.sub)
    [] a.stage = "hadoopcfg" -> AfterHadoopConfig(c, g, a.sub)
    [] a.stage = "version"   -> AfterVersion(c, g)
    [] a.stage = "podsvc"    -> AfterPodService(c, g, a.dep, a.sub)
    [] a.stage = "ss"        -> AfterStatefulSet(c, g, a.dep)
    [] a.stage = "pdb"       -> NextDeployment(c, g, a.dep)
    [] OTHER                 -> At("done", 0, 0)

(***************************************************************************)
(* A cursor at which a call for generation g can stand: it refers to no    *)
(* deployment, namespace or pod the spec does not list.                    *)
(***************************************************************************)
CursorOK(c, g, a) ==
  /\ a \in Cursor
  /\ a.stage # "done"
  /\ a.stage \in {"hbasecfg", "hadoopcfg"} => a.sub \in 1 .. Len(ConfigNamespaces(c, g))
  /\ a.stage \in {"podsvc", "ss", "pdb"} => a.dep \in 1 .. Len(Deployments(c, g))
  /\ a.stage = "podsvc" => a.sub \in 1 .. Dep(c, g, a.dep).size

------------------------------------------------------------------------------
(***************************************************************************)
(* The object of a stage and what the builders put in it.  A hash covers   *)
(* the fields of Content: id is what of the object's identity it includes  *)
(* (the CR name through a service's selector, the namespace of a           *)
(* StatefulSet or PodDisruptionBudget, nothing of a ConfigMap).            *)
(***************************************************************************)
Content == [id : Seq(STRING), data : Seq(Nat), size : Nat, ver : Nat]

KeyAt(c, g, a) ==
  CASE a.stage = "svc"       -> Key("svc", Meta[c].name, 0, Meta[c].ns)
    [] a.stage = "hbasecfg"  -> Key("cfg", Meta[c].hbaseCfg, 0, ConfigNamespaces(c, g)[a.sub])
    [] a.stage = "hadoopcfg" -> Key("cfg", Meta[c].hadoopCfg, 0, ConfigNamespaces(c, g)[a.sub])
    [] a.stage = "podsvc"    -> Key("svc", Deployments(c, g)[a.dep], a.sub, Meta[c].ns)
    [] a.stage = "ss"        -> StsKey(c, Deployments(c, g)[a.dep])
    [] OTHER                 -> Key("pdb", Deployments(c, g)[a.dep], 0, Meta[c].ns)

(***************************************************************************)
(* A service lists the ports of its deployments, in order, and selects     *)
(* pods by CR name.                                                        *)
(***************************************************************************)
BuildService(c, ports) ==
  [id |-> <<Meta[c].name>>, data |-> ports, size |-> 0, ver |-> 0]

ClusterPorts(c, g) ==
  [i \in 1 .. Len(Deployments(c, g)) |-> Dep(c, g, i).ports]

BuildConfigMap(data) == [id |-> <<>>, data |-> <<data>>, size |-> 0, ver |-> 0]

\* Mutant: the number of replicas is part of the pod template.
BuildPodTemplateWithSize(c, g, i) == <<Dep(c, g, i).tmpl, Dep(c, g, i).size>>

(***************************************************************************)
(* The pod template without its annotation: containers, init containers,   *)
(* probes, volume claims and mounts are functions of the deployment's spec *)
(* alone, so its revision stands for them.                                 *)
(***************************************************************************)
BuildPodTemplate(c, g, i) == <<Dep(c, g, i).tmpl>>

(***************************************************************************)
(* ver is the config version annotation of the pod template, 0 when absent *)
(***************************************************************************)
BuildStatefulSet(c, g, i, ver) ==
  [id |-> <<Meta[c].name, Meta[c].ns>>, data |-> BuildPodTemplate(c, g, i),
   size |-> Dep(c, g, i).size, ver |-> ver]

BuildPodDisruptionBudget(c, g, i) ==
  [id |-> <<Meta[c].name, Meta[c].ns>>, data |-> <<Dep(c, g, i).pdb>>, size |-> 0, ver |-> 0]

Desired(c, g, a, ver) ==
  CASE a.stage = "svc"       -> BuildService(c, ClusterPorts(c, g))
    [] a.stage = "hbasecfg"  -> BuildConfigMap(SpecAt(c, g).hbase)
    [] a.stage = "hadoopcfg" -> BuildConfigMap(SpecAt(c, g).hadoop)
    [] a.stage = "podsvc"    -> BuildService(c, <<Dep(c, g, a.dep).ports>>)
    [] a.stage = "ss"        -> BuildStatefulSet(c, g, a.dep, ver)
    [] OTHER                 -> BuildPodDisruptionBudget(c, g, a.dep)
==============================================================================
