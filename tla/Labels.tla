------------------------------- MODULE Labels --------------------------------
(***************************************************************************)
(* Which pods the objects of the custom resources of one namespace select: *)
(* the headless Service, the pod Services, the StatefulSets and the        *)
(* PodDisruptionBudgets.  All of them are found through labels that the    *)
(* builders write over the labels of the user, partly in place: the map    *)
(* Labels of a deployment is shared by buildStatefulSet and                *)
(* buildPodDisruptionBudget, unless the user left it out.                  *)
(*                                                                         *)
(* A label map is a function from keys to values.  The keys the builders   *)
(* write are "app", "cr" (hbasecluster_cr), "sts" and "pod"                *)
(* (statefulset.kubernetes.io/statefulset-name and /pod-name).             *)
(***************************************************************************)
EXTENDS Integers, Sequences, FiniteSets

CONSTANTS
  Crs,       \* names of the custom resources of the namespace, unique across kinds
  Kind,      \* of each: "cluster", "tenant" or "standalone"
  DepsOf,    \* of each: the names of its deployments, in order
  UserKeys,  \* keys the user may label with
  Values,    \* values the user may label with
  Nil        \* a Go map that was never made

ASSUME LabelsAssumption ==
  /\ Kind \in [Crs -> {"cluster", "tenant", "standalone"}]
  /\ DOMAIN DepsOf = Crs
  /\ "pod" \notin UserKeys
  /\ \A c \in Crs : Kind[c] = "tenant" => DOMAIN DepsOf[c] = {1}
  /\ \A c, e \in Crs : \A i \in DOMAIN DepsOf[c], j \in DOMAIN DepsOf[e] :
       DepsOf[c][i] = DepsOf[e][j] => c = e /\ i = j

Deps(c) == {DepsOf[c][i] : i \in DOMAIN DepsOf[c]}
AllDeps == UNION {Deps(c) : c \in Crs}

UserMaps == {Nil} \cup UNION {[keys -> Values] : keys \in SUBSET UserKeys}
NoLabels == [k \in {} |-> ""]

(***************************************************************************)
(* The label maps that can come about; Nil is none, nor is it an object.   *)
(***************************************************************************)
LabelMaps ==
  UNION {[keys -> Values \cup Crs \cup AllDeps \cup {"hbasecluster"}] :
           keys \in SUBSET (UserKeys \cup {"app", "cr", "sts"})}

ASSUME NilAssumption ==
  Nil \notin LabelMaps \cup [selector : LabelMaps, template : LabelMaps]

VARIABLES
  given,     \* Labels of each deployment, as the user wrote them
  selector,  \* ServiceSelectorLabels of each custom resource
  labels,    \* Labels of each deployment in the memory of the running pass
  service,   \* per custom resource, the selector of its headless Service
  sets,      \* per deployment, selector and template labels of its StatefulSet
  budgets    \* per deployment, the selector of its PodDisruptionBudget

vars == <<given, selector, labels, service, sets, budgets>>

Init ==
  /\ given \in [AllDeps -> UserMaps]
  /\ selector \in [Crs -> UserMaps]
  /\ labels = given
  /\ service = [c \in Crs |-> Nil]
  /\ sets = [d \in AllDeps |-> Nil]
  /\ budgets = [d \in AllDeps |-> Nil]

------------------------------------------------------------------------------
(***************************************************************************)
(* The entries of map over are written into map base.                      *)
(***************************************************************************)
Written(base, over) ==
  [k \in DOMAIN base \cup DOMAIN over |-> IF k \in DOMAIN over THEN over[k] ELSE base[k]]

OrMade(map) == IF map = Nil THEN NoLabels ELSE map

SharedLabels(c) == [app |-> "hbasecluster", cr |-> c]

\* Mutant: the user's labels win over the shared ones.
GetSharedLabelsMapUserFirst(c, map) == Written(SharedLabels(c), OrMade(map))

GetSharedLabelsMap(c, map) == Written(OrMade(map), SharedLabels(c))
LabelsForPodService(c, pod) == [app |-> "hbasecluster", cr |-> c, pod |-> pod]
LabelsForStatefulSet(c, d) == Written(SharedLabels(c), [sts |-> d])

IsMultiStatefulSet(c) == Kind[c] # "tenant"

\* Mutant: the selector of a StatefulSet is the one from before there were several.
MatchLabelsShared(c, d) == SharedLabels(c)

MatchLabels(c, d) ==
  IF IsMultiStatefulSet(c) THEN LabelsForStatefulSet(c, d) ELSE SharedLabels(c)

TemplateLabels(c, d) == Written(OrMade(labels[d]), MatchLabels(c, d))

\* Mutant: the builder works on a copy of the labels.
LabelsAfterCopied(c, d) == labels[d]

(***************************************************************************)
(* What the caller's deployment holds afterwards: buildStatefulSet gets    *)
(* the deployment by value, so a map it makes itself is not seen outside,  *)
(* and one it was given is the caller's own.                               *)
(***************************************************************************)
LabelsAfter(c, d) == IF labels[d] = Nil THEN Nil ELSE TemplateLabels(c, d)

BuildService(c) ==
  /\ service[c] = Nil
  /\ service' = [service EXCEPT ![c] = GetSharedLabelsMap(c, selector[c])]
  /\ UNCHANGED <<given, selector, labels, sets, budgets>>

Before(c, d) == {DepsOf[c][i] : i \in {i \in DOMAIN DepsOf[c] :
                                         \E j \in DOMAIN DepsOf[c] : i < j /\ DepsOf[c][j] = d}}

BuildStatefulSet(c, d) ==
  /\ service[c] # Nil /\ sets[d] = Nil
  /\ \A e \in Before(c, d) : budgets[e] # Nil
  /\ sets' = [sets EXCEPT ![d] = [selector |-> MatchLabels(c, d),
                                  template |-> TemplateLabels(c, d)]]
  /\ labels' = [labels EXCEPT ![d] = LabelsAfter(c, d)]
  /\ UNCHANGED <<given, selector, service, budgets>>

(***************************************************************************)
(* A selector without labels selects every pod of the namespace.           *)
(***************************************************************************)
BuildPodDisruptionBudget(c, d) ==
  /\ sets[d] # Nil /\ budgets[d] = Nil
  /\ budgets' = [budgets EXCEPT ![d] = OrMade(labels[d])]
  /\ UNCHANGED <<given, selector, labels, service, sets>>

Next ==
  \E c \in Crs :
    \/ BuildService(c)
    \/ \E d \in Deps(c) : BuildStatefulSet(c, d) \/ BuildPodDisruptionBudget(c, d)

Spec == Init /\ [][Next]_vars

------------------------------------------------------------------------------
(***************************************************************************)
(* The labels of the first pod of a deployment: those of the template and  *)
(* the one the StatefulSet controller adds.                                *)
(***************************************************************************)
FirstPod(d) == <<d, 0>>

Pod(d) == Written(sets[d].template, [pod |-> FirstPod(d)])

Selects(sel, map) == \A k \in DOMAIN sel : k \in DOMAIN map /\ map[k] = sel[k]

Made == {d \in AllDeps : sets[d] # Nil}

(***************************************************************************)
(* A StatefulSet selects its own pods, as the API server demands, and none *)
(* of another StatefulSet of the namespace, whatever labels the user gave  *)
(* (buildStatefulSet: selectorMatchLabelsMap, templateLabelsMap).          *)
(***************************************************************************)
SetsSelectOwnPods ==
  \A d, e \in Made : Selects(sets[d].selector, Pod(e)) <=> d = e

(***************************************************************************)
(* A PodDisruptionBudget protects the pods of its deployment and no other, *)
(* even though the user's labels are the same for all of them; without any *)
(* labels of the user it counts every pod of the namespace.                *)
(***************************************************************************)
BudgetsSelectOwnPods ==
  \A d, e \in Made :
    budgets[d] # Nil => (Selects(budgets[d], Pod(e)) <=> d = e \/ given[d] = Nil)

(***************************************************************************)
(* The headless Service never leads to pods of another custom resource,    *)
(* and leads to all pods of its own unless the user's selector asks for a  *)
(* label they lack; the Service of a pod leads to that pod only            *)
(* (buildService: getSharedLabelsMap, labelsForPodService).                *)
(***************************************************************************)
Free(map) == [k \in DOMAIN OrMade(map) \ {"app", "cr"} |-> map[k]]

ServicesSelectOwnPods ==
  \A c, e \in Crs : \A d \in Deps(e) \cap Made :
    service[c] # Nil =>
      /\ Selects(service[c], Pod(d)) <=> c = e /\ Selects(Free(selector[c]), Pod(d))
      /\ \A f \in Deps(c) : Selects(LabelsForPodService(c, FirstPod(f)), Pod(d)) <=> f = d
==============================================================================
