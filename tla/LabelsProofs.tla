----------------------------- MODULE LabelsProofs -----------------------------
(***************************************************************************)
(* Proofs about module Labels, for every set of custom resources in the    *)
(* namespace and whatever labels their users write.                        *)
(***************************************************************************)
EXTENDS Labels, TLAPS

------------------------------------------------------------------------------
(***************************************************************************)
(* What the builders write.                                                *)
(***************************************************************************)

(***************************************************************************)
(* A deployment belongs to one custom resource.                            *)
(***************************************************************************)
LEMMA OwnerLemma ==
  /\ \A d \in AllDeps : \E c \in Crs : d \in Deps(c)
  /\ \A c \in Crs : Deps(c) \subseteq AllDeps
  /\ \A c, e \in Crs : \A d \in Deps(c) \cap Deps(e) : c = e
  /\ \A c \in Crs : \A d, f \in Deps(c) : Kind[c] = "tenant" => d = f
<1>1. /\ \A d \in AllDeps : \E c \in Crs : d \in Deps(c)
      /\ \A c \in Crs : Deps(c) \subseteq AllDeps
  BY DEF AllDeps
<1>2. \A c, e \in Crs : \A d \in Deps(c) \cap Deps(e) : c = e
  BY LabelsAssumption DEF Deps
<1>3. \A c \in Crs : \A d, f \in Deps(c) : Kind[c] = "tenant" => d = f
  BY LabelsAssumption DEF Deps
<1>4. QED
  BY <1>1, <1>2, <1>3

(***************************************************************************)
(* Writing one map over another.                                           *)
(***************************************************************************)
LEMMA WrittenLemma ==
  ASSUME NEW base, NEW over
  PROVE  /\ DOMAIN Written(base, over) = DOMAIN base \cup DOMAIN over
         /\ \A k \in DOMAIN over : Written(base, over)[k] = over[k]
         /\ \A k \in DOMAIN base \ DOMAIN over : Written(base, over)[k] = base[k]
  BY DEF Written

(***************************************************************************)
(* The selector of a StatefulSet: the CR's name always, the StatefulSet's  *)
(* own name unless the CR is a tenant.                                     *)
(***************************************************************************)
LEMMA MatchLemma ==
  ASSUME NEW c \in Crs, NEW d \in Deps(c)
  PROVE  /\ DOMAIN SharedLabels(c) = {"app", "cr"}
         /\ SharedLabels(c)["app"] = "hbasecluster" /\ SharedLabels(c)["cr"] = c
         /\ Kind[c] = "tenant" => DOMAIN MatchLabels(c, d) = {"app", "cr"}
         /\ Kind[c] # "tenant" => DOMAIN MatchLabels(c, d) = {"app", "cr", "sts"}
         /\ MatchLabels(c, d)["app"] = "hbasecluster"
         /\ MatchLabels(c, d)["cr"] = c
         /\ Kind[c] # "tenant" => MatchLabels(c, d)["sts"] = d
<1>1. /\ DOMAIN SharedLabels(c) = {"app", "cr"}
      /\ SharedLabels(c)["app"] = "hbasecluster" /\ SharedLabels(c)["cr"] = c
  BY DEF SharedLabels
<1>2. /\ DOMAIN LabelsForStatefulSet(c, d) = {"app", "cr", "sts"}
      /\ LabelsForStatefulSet(c, d)["app"] = "hbasecluster"
      /\ LabelsForStatefulSet(c, d)["cr"] = c
      /\ LabelsForStatefulSet(c, d)["sts"] = d
  BY DEF LabelsForStatefulSet, SharedLabels, Written
<1>3. CASE Kind[c] = "tenant"
  <2>1. MatchLabels(c, d) = SharedLabels(c)
    BY <1>3 DEF MatchLabels, IsMultiStatefulSet
  <2>2. QED
    BY <1>1, <1>3, <2>1
<1>4. CASE Kind[c] # "tenant"
  <2>1. MatchLabels(c, d) = LabelsForStatefulSet(c, d)
    BY <1>4 DEF MatchLabels, IsMultiStatefulSet
  <2>2. QED
    BY <1>1, <1>2, <1>4, <2>1
<1>5. QED
  BY <1>3, <1>4

(***************************************************************************)
(* A map of the user's is nil or has keys and values of the user's.        *)
(***************************************************************************)
LEMMA UserMapLemma ==
  ASSUME NEW map \in UserMaps
  PROVE  /\ DOMAIN OrMade(map) \subseteq UserKeys
         /\ \A k \in DOMAIN OrMade(map) : OrMade(map)[k] \in Values
         /\ map = Nil => DOMAIN OrMade(map) = {}
         /\ map # Nil => OrMade(map) = map
<1>1. CASE map = Nil
  BY <1>1 DEF OrMade, NoLabels
<1>2. CASE map # Nil
  <2>1. OrMade(map) = map
    BY <1>2 DEF OrMade
  <2>2. PICK keys \in SUBSET UserKeys : map \in [keys -> Values]
    BY <1>2 DEF UserMaps
  <2>3. QED
    BY <1>2, <2>1, <2>2
<1>3. QED
  BY <1>1, <1>2

(***************************************************************************)
(* The template labels of a deployment, by what the user gave.             *)
(***************************************************************************)
TemplateOf(c, d) == Written(OrMade(given[d]), MatchLabels(c, d))

(***************************************************************************)
(* They are the user's labels with the match labels written over.          *)
(***************************************************************************)
LEMMA TemplateLemma ==
  ASSUME NEW c \in Crs, NEW d \in Deps(c), given[d] \in UserMaps
  PROVE  /\ DOMAIN TemplateOf(c, d) = DOMAIN OrMade(given[d]) \cup DOMAIN MatchLabels(c, d)
         /\ \A k \in DOMAIN MatchLabels(c, d) : TemplateOf(c, d)[k] = MatchLabels(c, d)[k]
         /\ TemplateOf(c, d) \in LabelMaps
         /\ "pod" \notin DOMAIN TemplateOf(c, d)
<1> DEFINE t == TemplateOf(c, d)
           m == MatchLabels(c, d)
           u == OrMade(given[d])
<1>1. /\ Kind[c] = "tenant" => DOMAIN m = {"app", "cr"}
      /\ Kind[c] # "tenant" => DOMAIN m = {"app", "cr", "sts"}
      /\ m["app"] = "hbasecluster" /\ m["cr"] = c
      /\ Kind[c] # "tenant" => m["sts"] = d
  BY MatchLemma
<1>2. DOMAIN u \subseteq UserKeys /\ \A k \in DOMAIN u : u[k] \in Values
  BY UserMapLemma
<1>3. /\ DOMAIN t = DOMAIN u \cup DOMAIN m
      /\ \A k \in DOMAIN m : t[k] = m[k]
      /\ \A k \in DOMAIN u \ DOMAIN m : t[k] = u[k]
  BY WrittenLemma DEF TemplateOf
<1>4. "pod" \notin DOMAIN t
  BY <1>1, <1>2, <1>3, LabelsAssumption
<1>5. t \in LabelMaps
  <2> DEFINE K == DOMAIN t
             V == Values \cup Crs \cup AllDeps \cup {"hbasecluster"}
  <2>1. K \in SUBSET (UserKeys \cup {"app", "cr", "sts"})
    BY <1>1, <1>2, <1>3
  <2>2. \A k \in DOMAIN m : m[k] \in V
    BY <1>1, OwnerLemma
  <2>3. \A k \in K : t[k] \in V
    BY <1>2, <1>3, <2>2
  <2>4. t = [k \in K |-> t[k]]
    BY DEF TemplateOf, Written
  <2>5. t \in [K -> V]
    BY <2>3, <2>4
  <2>6. QED
    BY <2>1, <2>5 DEF LabelMaps
<1>6. QED
  BY <1>3, <1>4, <1>5

------------------------------------------------------------------------------
(***************************************************************************)
(* The inductive invariant: what was built comes from what the user gave,  *)
(* and the map of a deployment carries the builder's labels as soon as its *)
(* StatefulSet is built, unless the user left the map out.                 *)
(***************************************************************************)
DeploymentBuilt(c, d) ==
  \/ sets[d] = Nil /\ budgets[d] = Nil /\ labels[d] = given[d]
  \/ /\ sets[d] = [selector |-> MatchLabels(c, d), template |-> TemplateOf(c, d)]
     /\ labels[d] = IF given[d] = Nil THEN Nil ELSE TemplateOf(c, d)
     /\ budgets[d] \in {Nil, OrMade(labels[d])}

LabelsInv ==
  /\ given \in [AllDeps -> UserMaps]
  /\ selector \in [Crs -> UserMaps]
  /\ DOMAIN labels = AllDeps /\ DOMAIN sets = AllDeps /\ DOMAIN budgets = AllDeps
  /\ DOMAIN service = Crs
  /\ \A c \in Crs : service[c] \in {Nil, GetSharedLabelsMap(c, selector[c])}
  /\ \A c \in Crs : \A d \in Deps(c) : DeploymentBuilt(c, d)

(***************************************************************************)
(* The invariant holds before anything is built.                           *)
(***************************************************************************)
LEMMA LabelsInvInit == Init => LabelsInv
<1> SUFFICES ASSUME Init PROVE LabelsInv
  OBVIOUS
<1>1. \A c \in Crs : \A d \in Deps(c) : d \in AllDeps
  BY OwnerLemma
<1>2. QED
  BY <1>1 DEF Init, LabelsInv, DeploymentBuilt

(***************************************************************************)
(* A template is neither nil nor, in an object, confused with none.        *)
(***************************************************************************)
LEMMA TemplateNotNil ==
  ASSUME NEW c \in Crs, NEW d \in Deps(c), given[d] \in UserMaps
  PROVE  /\ TemplateOf(c, d) # Nil
         /\ [selector |-> MatchLabels(c, d), template |-> TemplateOf(c, d)] # Nil
<1>1. TemplateOf(c, d) \in LabelMaps
  BY TemplateLemma
<1>2. MatchLabels(c, d) \in LabelMaps
  <2> DEFINE m == MatchLabels(c, d)
             K == DOMAIN m
             V == Values \cup Crs \cup AllDeps \cup {"hbasecluster"}
  <2>1. K \in SUBSET (UserKeys \cup {"app", "cr", "sts"})
    BY MatchLemma
  <2>2. \A k \in K : m[k] \in V
    BY MatchLemma, OwnerLemma
  <2>3. m = [k \in K |-> m[k]]
    BY DEF MatchLabels, LabelsForStatefulSet, SharedLabels, Written
  <2>4. m \in [K -> V]
    BY <2>2, <2>3
  <2>5. QED
    BY <2>1, <2>4 DEF LabelMaps
<1>3. QED
  BY <1>1, <1>2, NilAssumption

(***************************************************************************)
(* Every builder keeps the invariant.                                      *)
(***************************************************************************)
LEMMA LabelsInvNext == LabelsInv /\ [Next]_vars => LabelsInv'
<1> SUFFICES ASSUME LabelsInv, [Next]_vars PROVE LabelsInv'
  OBVIOUS
<1>1. CASE UNCHANGED vars
  BY <1>1 DEF vars, LabelsInv, DeploymentBuilt, TemplateOf
<1>2. ASSUME NEW c \in Crs, BuildService(c) PROVE LabelsInv'
  BY <1>2 DEF BuildService, LabelsInv, DeploymentBuilt, TemplateOf
<1>3. ASSUME NEW c \in Crs, NEW d \in Deps(c), BuildStatefulSet(c, d) PROVE LabelsInv'
  <2>1. d \in AllDeps /\ given[d] \in UserMaps
    BY OwnerLemma DEF LabelsInv
  <2>2. sets[d] = Nil /\ budgets[d] = Nil /\ labels[d] = given[d]
    BY <1>3, <2>1, TemplateNotNil DEF BuildStatefulSet, LabelsInv, DeploymentBuilt
  <2>3. TemplateLabels(c, d) = TemplateOf(c, d)
    BY <2>2 DEF TemplateLabels, TemplateOf
  <2>4. /\ sets' = [sets EXCEPT ![d] = [selector |-> MatchLabels(c, d),
                                        template |-> TemplateOf(c, d)]]
        /\ labels' = [labels EXCEPT ![d] = IF given[d] = Nil THEN Nil ELSE TemplateOf(c, d)]
        /\ UNCHANGED <<given, selector, service, budgets>>
    BY <1>3, <2>2, <2>3 DEF BuildStatefulSet, LabelsAfter
  <2>5. ASSUME NEW e \in Crs, NEW f \in Deps(e) PROVE DeploymentBuilt(e, f)'
    <3>1. f \in AllDeps /\ DeploymentBuilt(e, f)
      BY OwnerLemma DEF LabelsInv
    <3>2. CASE f = d
      <4>1. e = c
        BY <3>2, OwnerLemma
      <4>2. /\ sets'[d] = [selector |-> MatchLabels(c, d), template |-> TemplateOf(c, d)]
            /\ labels'[d] = IF given[d] = Nil THEN Nil ELSE TemplateOf(c, d)
            /\ budgets'[d] = Nil /\ given' = given
        BY <2>1, <2>2, <2>4 DEF LabelsInv
      <4>3. QED
        BY <3>2, <4>1, <4>2 DEF DeploymentBuilt, TemplateOf
    <3>3. CASE f # d
      <4>1. sets'[f] = sets[f] /\ labels'[f] = labels[f] /\ budgets'[f] = budgets[f] /\ given' = given
        BY <2>4, <3>1, <3>3 DEF LabelsInv
      <4>2. QED
        BY <3>1, <4>1 DEF DeploymentBuilt, TemplateOf
    <3>4. QED
      BY <3>2, <3>3
  <2>6. QED
    BY <2>4, <2>5 DEF LabelsInv
<1>4. ASSUME NEW c \in Crs, NEW d \in Deps(c), BuildPodDisruptionBudget(c, d) PROVE LabelsInv'
  <2>1. d \in AllDeps /\ DeploymentBuilt(c, d) /\ sets[d] # Nil
    BY <1>4, OwnerLemma DEF LabelsInv, BuildPodDisruptionBudget
  <2>2. /\ budgets' = [budgets EXCEPT ![d] = OrMade(labels[d])]
        /\ UNCHANGED <<given, selector, labels, service, sets>>
    BY <1>4 DEF BuildPodDisruptionBudget
  <2>3. ASSUME NEW e \in Crs, NEW f \in Deps(e) PROVE DeploymentBuilt(e, f)'
    <3>1. f \in AllDeps /\ DeploymentBuilt(e, f)
      BY OwnerLemma DEF LabelsInv
    <3>2. CASE f = d
      <4>1. e = c
        BY <3>2, OwnerLemma
      <4>2. budgets'[d] = OrMade(labels[d])
        BY <2>1, <2>2 DEF LabelsInv
      <4>3. QED
        BY <2>1, <2>2, <3>2, <4>1, <4>2 DEF DeploymentBuilt, TemplateOf, OrMade
    <3>3. CASE f # d
      <4>1. budgets'[f] = budgets[f]
        BY <2>2, <3>1, <3>3 DEF LabelsInv
      <4>2. QED
        BY <2>2, <3>1, <4>1 DEF DeploymentBuilt, TemplateOf, OrMade
    <3>4. QED
      BY <3>2, <3>3
  <2>4. QED
    BY <2>2, <2>3 DEF LabelsInv
<1>5. QED
  BY <1>1, <1>2, <1>3, <1>4 DEF Next

------------------------------------------------------------------------------
(***************************************************************************)
(* What the selectors select.                                              *)
(***************************************************************************)

(***************************************************************************)
(* A StatefulSet that was built, and the labels of its pods.               *)
(***************************************************************************)
LEMMA BuiltLemma ==
  ASSUME LabelsInv, NEW c \in Crs, NEW d \in Deps(c), d \in Made
  PROVE  /\ sets[d].selector = MatchLabels(c, d)
         /\ sets[d].template = TemplateOf(c, d)
         /\ given[d] \in UserMaps
<1>1. d \in AllDeps /\ given[d] \in UserMaps /\ DeploymentBuilt(c, d) /\ sets[d] # Nil
  BY OwnerLemma DEF LabelsInv, Made
<1>2. sets[d] = [selector |-> MatchLabels(c, d), template |-> TemplateOf(c, d)]
  BY <1>1 DEF DeploymentBuilt
<1>3. QED
  BY <1>1, <1>2

(***************************************************************************)
(* A pod carries its template's labels.                                    *)
(***************************************************************************)
LEMMA PodTemplateLemma ==
  ASSUME LabelsInv, NEW c \in Crs, NEW d \in Deps(c), d \in Made
  PROVE  /\ DOMAIN Pod(d) = DOMAIN TemplateOf(c, d) \cup {"pod"}
         /\ \A k \in DOMAIN TemplateOf(c, d) : Pod(d)[k] = TemplateOf(c, d)[k]
         /\ Pod(d)["pod"] = FirstPod(d)
<1> DEFINE t == TemplateOf(c, d)
           r == [pod |-> FirstPod(d)]
<1>1. Pod(d) = Written(t, r)
  BY BuiltLemma DEF Pod
<1>2. "pod" \notin DOMAIN t
  BY BuiltLemma, TemplateLemma
<1>3. DOMAIN r = {"pod"} /\ r["pod"] = FirstPod(d)
  OBVIOUS
<1> HIDE DEF t, r
<1>4. /\ DOMAIN Written(t, r) = DOMAIN t \cup {"pod"}
      /\ \A k \in DOMAIN t : Written(t, r)[k] = t[k]
      /\ Written(t, r)["pod"] = FirstPod(d)
  BY <1>2, <1>3 DEF Written
<1>5. QED
  BY <1>1, <1>4 DEF t

(***************************************************************************)
(* Hence it carries the StatefulSet's match labels.                        *)
(***************************************************************************)
LEMMA PodMatchLemma ==
  ASSUME LabelsInv, NEW c \in Crs, NEW d \in Deps(c), d \in Made
  PROVE  /\ DOMAIN MatchLabels(c, d) \subseteq DOMAIN Pod(d)
         /\ \A k \in DOMAIN MatchLabels(c, d) : Pod(d)[k] = MatchLabels(c, d)[k]
<1> given[d] \in UserMaps
  BY BuiltLemma
<1>1. /\ DOMAIN TemplateOf(c, d) = DOMAIN OrMade(given[d]) \cup DOMAIN MatchLabels(c, d)
      /\ \A k \in DOMAIN MatchLabels(c, d) : TemplateOf(c, d)[k] = MatchLabels(c, d)[k]
  BY TemplateLemma
<1>2. /\ DOMAIN TemplateOf(c, d) \subseteq DOMAIN Pod(d)
      /\ \A k \in DOMAIN TemplateOf(c, d) : Pod(d)[k] = TemplateOf(c, d)[k]
  BY PodTemplateLemma
<1>3. ASSUME NEW k \in DOMAIN MatchLabels(c, d)
      PROVE  k \in DOMAIN Pod(d) /\ Pod(d)[k] = MatchLabels(c, d)[k]
  <2>1. k \in DOMAIN TemplateOf(c, d) /\ TemplateOf(c, d)[k] = MatchLabels(c, d)[k]
    BY <1>1
  <2>2. QED
    BY <1>2, <2>1
<1>4. QED
  BY <1>3, Zenon

(***************************************************************************)
(* Its CR's name always, its StatefulSet's unless the CR is a tenant.      *)
(***************************************************************************)
LEMMA PodLemma ==
  ASSUME LabelsInv, NEW c \in Crs, NEW d \in Deps(c), d \in Made
  PROVE  /\ {"app", "cr", "pod"} \subseteq DOMAIN Pod(d)
         /\ Pod(d)["app"] = "hbasecluster" /\ Pod(d)["cr"] = c
         /\ Kind[c] # "tenant" => "sts" \in DOMAIN Pod(d) /\ Pod(d)["sts"] = d
<1>1. "pod" \in DOMAIN Pod(d)
  BY PodTemplateLemma
<1>2. /\ DOMAIN MatchLabels(c, d) \subseteq DOMAIN Pod(d)
      /\ \A k \in DOMAIN MatchLabels(c, d) : Pod(d)[k] = MatchLabels(c, d)[k]
  BY PodMatchLemma
<1>3. QED
  BY <1>1, <1>2, MatchLemma

(***************************************************************************)
(* A selector that holds a StatefulSet's match labels selects pods of that *)
(* StatefulSet only.                                                       *)
(***************************************************************************)
LEMMA OnlyOwnPods ==
  ASSUME LabelsInv, NEW c \in Crs, NEW d \in Deps(c), NEW f \in Made, NEW sel,
         DOMAIN MatchLabels(c, d) \subseteq DOMAIN sel,
         \A k \in DOMAIN MatchLabels(c, d) : sel[k] = MatchLabels(c, d)[k],
         Selects(sel, Pod(f))
  PROVE  d = f
<1>1. PICK e \in Crs : f \in Deps(e)
  BY OwnerLemma DEF Made
<1>2. Pod(f)["cr"] = e /\ (Kind[e] # "tenant" => Pod(f)["sts"] = f)
  BY <1>1, PodLemma
<1>3. \A k \in DOMAIN MatchLabels(c, d) : Pod(f)[k] = MatchLabels(c, d)[k]
  BY DEF Selects
<1>4. c = e
  BY <1>2, <1>3, MatchLemma
<1>5. CASE Kind[c] = "tenant"
  BY <1>1, <1>4, <1>5, OwnerLemma
<1>6. CASE Kind[c] # "tenant"
  BY <1>2, <1>3, <1>4, <1>6, MatchLemma
<1>7. QED
  BY <1>5, <1>6

(***************************************************************************)
(* StatefulSets keep apart, for any number of custom resources and         *)
(* deployments in the namespace and any labels of the users.               *)
(***************************************************************************)
THEOREM SetsCorrect == Spec => []SetsSelectOwnPods
<1>1. LabelsInv => SetsSelectOwnPods
  <2> SUFFICES ASSUME LabelsInv, NEW d \in Made, NEW f \in Made
               PROVE  Selects(sets[d].selector, Pod(f)) <=> d = f
    BY DEF SetsSelectOwnPods
  <2>1. PICK c \in Crs : d \in Deps(c)
    BY OwnerLemma DEF Made
  <2>2. sets[d].selector = MatchLabels(c, d)
    BY <2>1, BuiltLemma
  <2>3. ASSUME Selects(sets[d].selector, Pod(f)) PROVE d = f
    BY <2>1, <2>2, <2>3, OnlyOwnPods
  <2>4. Selects(sets[d].selector, Pod(d))
    BY <2>1, <2>2, PodMatchLemma DEF Selects
  <2>5. QED
    BY <2>3, <2>4
<1>2. QED
  BY <1>1, LabelsInvInit, LabelsInvNext, PTL DEF Spec

(***************************************************************************)
(* A PodDisruptionBudget counts the pods of its own deployment and no      *)
(* others, or every pod of the namespace if the user gave its deployment   *)
(* no labels: the budget reads the map that buildStatefulSet wrote to.     *)
(***************************************************************************)
THEOREM BudgetsCorrect == Spec => []BudgetsSelectOwnPods
<1>1. LabelsInv => BudgetsSelectOwnPods
  <2> SUFFICES ASSUME LabelsInv, NEW d \in Made, NEW f \in Made, budgets[d] # Nil
               PROVE  Selects(budgets[d], Pod(f)) <=> (d = f \/ given[d] = Nil)
    BY DEF BudgetsSelectOwnPods
  <2>1. PICK c \in Crs : d \in Deps(c)
    BY OwnerLemma DEF Made
  <2>2. /\ labels[d] = IF given[d] = Nil THEN Nil ELSE TemplateOf(c, d)
        /\ budgets[d] = OrMade(labels[d])
        /\ given[d] \in UserMaps
    BY <2>1, BuiltLemma DEF LabelsInv, DeploymentBuilt, Made
  <2>3. CASE given[d] = Nil
    <3>1. DOMAIN budgets[d] = {}
      BY <2>2, <2>3 DEF OrMade, NoLabels
    <3>2. QED
      BY <2>3, <3>1 DEF Selects
  <2>4. CASE given[d] # Nil
    <3> DEFINE t == TemplateOf(c, d)
    <3>1. budgets[d] = t
      BY <2>1, <2>2, <2>4, TemplateNotNil DEF OrMade
    <3>2. /\ DOMAIN MatchLabels(c, d) \subseteq DOMAIN t
          /\ \A k \in DOMAIN MatchLabels(c, d) : t[k] = MatchLabels(c, d)[k]
      BY <2>1, <2>2, TemplateLemma
    <3> HIDE DEF t
    <3>3. ASSUME Selects(budgets[d], Pod(f)) PROVE d = f
      BY <2>1, <3>1, <3>2, <3>3, OnlyOwnPods
    <3>4. Selects(budgets[d], Pod(d))
      <4>1. DOMAIN t \subseteq DOMAIN Pod(d) /\ \A k \in DOMAIN t : Pod(d)[k] = t[k]
        BY <2>1, PodTemplateLemma DEF t
      <4>2. QED
        BY <3>1, <4>1 DEF Selects
    <3>5. QED
      BY <2>4, <3>3, <3>4
  <2>5. QED
    BY <2>3, <2>4
<1>2. QED
  BY <1>1, LabelsInvInit, LabelsInvNext, PTL DEF Spec

(***************************************************************************)
(* A headless Service leads to no pod of another custom resource, whatever *)
(* selector labels the user wrote, and a pod's Service to that pod only.   *)
(***************************************************************************)
THEOREM ServicesCorrect == Spec => []ServicesSelectOwnPods
<1>1. LabelsInv => ServicesSelectOwnPods
  <2> SUFFICES ASSUME LabelsInv, NEW c \in Crs, NEW e \in Crs,
                      NEW d \in Deps(e) \cap Made, service[c] # Nil
               PROVE  /\ Selects(service[c], Pod(d)) <=>
                            (c = e /\ Selects(Free(selector[c]), Pod(d)))
                      /\ \A f \in Deps(c) :
                           Selects(LabelsForPodService(c, FirstPod(f)), Pod(d)) <=> f = d
    BY DEF ServicesSelectOwnPods
  <2> DEFINE u == OrMade(selector[c])
             free == Free(selector[c])
  <2>1. selector[c] \in UserMaps /\ service[c] = Written(u, SharedLabels(c))
    BY DEF LabelsInv, GetSharedLabelsMap
  <2>2. /\ {"app", "cr"} \subseteq DOMAIN Pod(d) /\ "pod" \in DOMAIN Pod(d)
        /\ Pod(d)["app"] = "hbasecluster" /\ Pod(d)["cr"] = e
        /\ Pod(d)["pod"] = FirstPod(d)
    <3>1. d \in Deps(e) /\ d \in Made
      OBVIOUS
    <3>2. /\ {"app", "cr", "pod"} \subseteq DOMAIN Pod(d)
          /\ Pod(d)["app"] = "hbasecluster" /\ Pod(d)["cr"] = e
      BY <3>1, PodLemma
    <3>3. Pod(d)["pod"] = FirstPod(d)
      BY <3>1, PodTemplateLemma
    <3>4. QED
      BY <3>2, <3>3
  <2>3. DOMAIN SharedLabels(c) = {"app", "cr"} /\ SharedLabels(c)["app"] = "hbasecluster"
        /\ SharedLabels(c)["cr"] = c
    BY DEF SharedLabels
  <2>4. /\ DOMAIN service[c] = DOMAIN u \cup {"app", "cr"}
        /\ service[c]["app"] = "hbasecluster" /\ service[c]["cr"] = c
        /\ \A k \in DOMAIN u \ {"app", "cr"} : service[c][k] = u[k]
    BY <2>1, <2>3 DEF Written
  <2>5. /\ DOMAIN free = DOMAIN u \ {"app", "cr"}
        /\ \A k \in DOMAIN free : free[k] = u[k]
    <3>1. CASE selector[c] = Nil
      BY <3>1 DEF Free, OrMade, NoLabels
    <3>2. CASE selector[c] # Nil
      BY <3>2 DEF Free, OrMade
    <3>3. QED
      BY <3>1, <3>2
  <2> HIDE DEF u, free
  <2>6. ASSUME Selects(service[c], Pod(d)) PROVE c = e /\ Selects(free, Pod(d))
    BY <2>2, <2>4, <2>5, <2>6 DEF Selects
  <2>7. ASSUME c = e, Selects(free, Pod(d)) PROVE Selects(service[c], Pod(d))
    BY <2>2, <2>4, <2>5, <2>7 DEF Selects
  <2>8. ASSUME NEW f \in Deps(c)
        PROVE  Selects(LabelsForPodService(c, FirstPod(f)), Pod(d)) <=> f = d
    <3> DEFINE l == LabelsForPodService(c, FirstPod(f))
    <3>1. /\ DOMAIN l = {"app", "cr", "pod"}
          /\ l["app"] = "hbasecluster" /\ l["cr"] = c /\ l["pod"] = FirstPod(f)
      BY DEF LabelsForPodService
    <3> HIDE DEF l
    <3>2. ASSUME Selects(l, Pod(d)) PROVE f = d
      <4>1. FirstPod(d) = FirstPod(f)
        BY <2>2, <3>1, <3>2 DEF Selects
      <4>2. QED
        BY <4>1 DEF FirstPod
    <3>3. ASSUME f = d PROVE Selects(l, Pod(d))
      <4>1. c = e
        BY <3>3, OwnerLemma
      <4>2. QED
        BY <2>2, <3>1, <3>3, <4>1 DEF Selects
    <3>4. QED
      BY <3>2, <3>3 DEF l
  <2>9. QED
    BY <2>6, <2>7, <2>8 DEF free
<1>2. QED
  BY <1>1, LabelsInvInit, LabelsInvNext, PTL DEF Spec
==============================================================================
