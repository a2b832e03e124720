--------------------------- MODULE ResourcesProofs ---------------------------
(***************************************************************************)
(* Facts about module Resources that the proofs about modules Operator and *)
(* Deletion share: where a Reconcile call can stand and go, and the keys   *)
(* and contents of the objects it handles.                                 *)
(***************************************************************************)
EXTENDS Resources, SequenceTheorems, TLAPS

------------------------------------------------------------------------------
(***************************************************************************)
(* The control flow of Reconcile.                                          *)
(***************************************************************************)

(***************************************************************************)
(* The deployments a generation lists are among the CR's deployments and   *)
(* each has a well-formed spec (the deployments slice of Reconcile).       *)
(***************************************************************************)
LEMMA DeploymentsLemma ==
  ASSUME NEW c \in CRs, NEW g \in DOMAIN Script[c]
  PROVE  /\ Deployments(c, g) \in Seq(STRING)
         /\ Len(Deployments(c, g)) \in Nat \ {0}
         /\ \A i \in 1 .. Len(Deployments(c, g)) :
              /\ Deployments(c, g)[i] \in DepNames(c)
              /\ Dep(c, g, i) \in DeploymentSpec
         /\ SpecAt(c, g) \in CRSpec(c)
<1>1. MetaOK(c)
  BY MetaAssumption
<1>2. /\ Meta[c].deps \in Seq(STRING)
      /\ Len(Meta[c].deps) >= 1
      /\ Meta[c].kind = "cluster" => Len(Meta[c].deps) >= 2
  BY <1>1 DEF MetaOK
<1>3. SpecAt(c, g) \in CRSpec(c)
  BY <1>1 DEF MetaOK, SpecAt
<1>4. \A i \in 1 .. Len(Meta[c].deps) : Meta[c].deps[i] \in DepNames(c)
  BY <1>2 DEF DepNames, Range
<1>5. /\ Deployments(c, g) \in Seq(STRING)
      /\ Len(Deployments(c, g)) \in Nat \ {0}
      /\ \A i \in 1 .. Len(Deployments(c, g)) : Deployments(c, g)[i] \in DepNames(c)
  <2>1. CASE Deployments(c, g) = Meta[c].deps
    BY <2>1, <1>2, <1>4
  <2>2. CASE Deployments(c, g) = Tail(Meta[c].deps) /\ Len(Meta[c].deps) >= 2
    <3> DEFINE s == Meta[c].deps
    <3>1. s \in Seq(STRING) /\ Len(s) >= 2
      BY <2>2, <1>2
    <3>2. /\ Tail(s) \in Seq(STRING)
          /\ Len(Tail(s)) = Len(s) - 1
          /\ \A i \in 1 .. Len(s) - 1 : Tail(s)[i] = s[i + 1]
      <4>1. s # << >>
        BY <3>1
      <4>2. QED
        BY <3>1, <4>1, HeadTailProperties
    <3>3. \A i \in 1 .. Len(s) - 1 : s[i + 1] \in DepNames(c)
      BY <3>1, <1>4
    <3> HIDE DEF s
    <3>4. QED
      BY <2>2, <3>1, <3>2, <3>3 DEF s
  <2>3. QED
    BY <2>1, <2>2, <1>2 DEF Deployments
<1>6. \A i \in 1 .. Len(Deployments(c, g)) : Dep(c, g, i) \in DeploymentSpec
  BY <1>3, <1>5 DEF Dep, CRSpec
<1>7. QED
  BY <1>3, <1>5, <1>6

(***************************************************************************)
(* The namespaces that get the ConfigMaps form a non-empty sequence.       *)
(***************************************************************************)
LEMMA NamespacesLemma ==
  ASSUME NEW c \in CRs, NEW g \in DOMAIN Script[c]
  PROVE  /\ ConfigNamespaces(c, g) \in Seq(STRING)
         /\ Len(ConfigNamespaces(c, g)) \in Nat \ {0}
         /\ \A n \in 1 .. Len(ConfigNamespaces(c, g)) :
              ConfigNamespaces(c, g)[n] \in Range(ConfigNamespaces(c, g))
         /\ Meta[c].ns \in Range(ConfigNamespaces(c, g))
<1>1. Meta[c].ns \in STRING
  BY MetaAssumption DEF MetaOK
<1>2. SpecAt(c, g).tns \in Seq(STRING)
  BY DeploymentsLemma DEF CRSpec
<1>3. /\ ConfigNamespaces(c, g) \in Seq(STRING)
      /\ Len(ConfigNamespaces(c, g)) = Len(SpecAt(c, g).tns) + 1
      /\ ConfigNamespaces(c, g)[Len(SpecAt(c, g).tns) + 1] = Meta[c].ns
  BY <1>1, <1>2 DEF ConfigNamespaces
<1>4. DOMAIN ConfigNamespaces(c, g) = 1 .. Len(ConfigNamespaces(c, g))
  BY <1>3
<1>5. Len(SpecAt(c, g).tns) \in Nat
  BY <1>2
<1>6. Len(ConfigNamespaces(c, g)) \in Nat \ {0}
  BY <1>3, <1>5
<1>7. \A n \in 1 .. Len(ConfigNamespaces(c, g)) :
        ConfigNamespaces(c, g)[n] \in Range(ConfigNamespaces(c, g))
  BY <1>4 DEF Range
<1>8. Len(SpecAt(c, g).tns) + 1 \in 1 .. Len(ConfigNamespaces(c, g))
  BY <1>3, <1>5
<1>9. QED
  BY <1>3, <1>6, <1>7, <1>8

(***************************************************************************)
(* Entering a listed deployment leads to a valid cursor that has only the  *)
(* deployments before it behind it.                                        *)
(***************************************************************************)
LEMMA EnterLemma ==
  ASSUME NEW c \in CRs, NEW g \in DOMAIN Script[c],
         NEW i \in 1 .. Len(Deployments(c, g))
  PROVE  /\ CursorOK(c, g, EnterDeployment(c, g, i))
         /\ EnterDeployment(c, g, i).stage \in {"podsvc", "ss"}
         /\ EnterDeployment(c, g, i).dep = i
<1>1. Dep(c, g, i).size \in Nat /\ i \in Nat
  BY DeploymentsLemma DEF DeploymentSpec
<1>2. CASE EnterDeployment(c, g, i) = At("podsvc", i, 1) /\ Dep(c, g, i).size > 0
  BY <1>1, <1>2 DEF At, CursorOK, Cursor, Stages, ObjectStages
<1>3. CASE EnterDeployment(c, g, i) = At("ss", i, 0)
  BY <1>1, <1>3 DEF At, CursorOK, Cursor, Stages, ObjectStages
<1>4. QED
  BY <1>2, <1>3 DEF EnterDeployment

(***************************************************************************)
(* Reconcile starts at a valid cursor.                                     *)
(***************************************************************************)
LEMMA StartLemma ==
  ASSUME NEW c \in CRs, NEW g \in DOMAIN Script[c]
  PROVE  CursorOK(c, g, Start(c, g)) /\ Start(c, g).stage \in {"svc", "validate", "version"}
  BY DEF Start, At, CursorOK, Cursor, Stages, ObjectStages

(***************************************************************************)
(* Deployment i is behind cursor a: its stages of the pass are over.       *)
(***************************************************************************)
Behind(a, i) ==
  /\ a.stage \in {"podsvc", "ss", "pdb"}
  /\ i < a.dep \/ (i = a.dep /\ a.stage = "pdb")

(***************************************************************************)
(* From a valid cursor Reconcile goes to a valid one or ends, and a        *)
(* deployment gets behind the cursor only by leaving its StatefulSet       *)
(* stage.                                                                  *)
(***************************************************************************)
LEMMA AfterLemma ==
  ASSUME NEW c \in CRs, NEW g \in DOMAIN Script[c], NEW a, CursorOK(c, g, a),
         After(c, g, a).stage # "done"
  PROVE  /\ CursorOK(c, g, After(c, g, a))
         /\ \A i \in Nat : Behind(After(c, g, a), i)
                            => Behind(a, i) \/ (a.stage = "ss" /\ a.dep = i) \/ i = 0
<1> DEFINE b == After(c, g, a)
           Claim(x) == /\ CursorOK(c, g, x)
                       /\ \A i \in Nat : Behind(x, i)
                            => Behind(a, i) \/ (a.stage = "ss" /\ a.dep = i) \/ i = 0
<1>1. /\ Len(Deployments(c, g)) \in Nat \ {0}
      /\ Len(ConfigNamespaces(c, g)) \in Nat \ {0}
  BY DeploymentsLemma, NamespacesLemma
<1>2. /\ a.dep \in Nat /\ a.sub \in Nat
      /\ a.stage \in Stages \ {"done"}
  BY DEF CursorOK, Cursor
<1>3. Claim(EnterDeployment(c, g, 1))
  <2>1. 1 \in 1 .. Len(Deployments(c, g))
    BY <1>1
  <2>2. QED
    BY <2>1, EnterLemma DEF Behind
<1>4. Claim(At("validate", 0, 0)) /\ Claim(At("version", 0, 0)) /\ Claim(At("svc", 0, 0))
  BY DEF CursorOK, Cursor, Stages, ObjectStages, At, Behind
<1>5. \A n \in 1 .. Len(ConfigNamespaces(c, g)) :
        Claim(At("hbasecfg", 0, n)) /\ Claim(At("hadoopcfg", 0, n))
  BY <1>1 DEF CursorOK, Cursor, Stages, ObjectStages, At, Behind
<1>6. CASE a.stage = "svc"
  <2>1. b = AfterService(c, g)
    BY <1>6 DEF After
  <2>2. QED
    BY <2>1, <1>3, <1>4 DEF AfterService
<1>7. CASE a.stage = "validate"
  <2>1. b = At("hbasecfg", 0, 1)
    BY <1>7 DEF After
  <2>2. QED
    BY <2>1, <1>1, <1>5
<1>8. CASE a.stage = "hbasecfg"
  <2>1. b = At("hadoopcfg", 0, a.sub)
    BY <1>8 DEF After
  <2>2. a.sub \in 1 .. Len(ConfigNamespaces(c, g))
    BY <1>8 DEF CursorOK
  <2>3. QED
    BY <2>1, <2>2, <1>5
<1>9. CASE a.stage = "hadoopcfg"
  <2>1. b = AfterHadoopConfig(c, g, a.sub)
    BY <1>9 DEF After
  <2>2. a.sub \in 1 .. Len(ConfigNamespaces(c, g))
    BY <1>9 DEF CursorOK
  <2>3. CASE a.sub < Len(ConfigNamespaces(c, g))
    <3>1. a.sub + 1 \in 1 .. Len(ConfigNamespaces(c, g))
      BY <2>2, <2>3, <1>1
    <3>2. b = At("hbasecfg", 0, a.sub + 1)
      BY <2>1, <2>3 DEF AfterHadoopConfig
    <3>3. QED
      BY <3>1, <3>2, <1>5
  <2>4. CASE ~(a.sub < Len(ConfigNamespaces(c, g)))
    BY <2>1, <2>4, <1>3, <1>4 DEF AfterHadoopConfig, AfterConfigs
  <2>5. QED
    BY <2>3, <2>4
<1>10. CASE a.stage = "version"
  <2>1. b = AfterVersion(c, g)
    BY <1>10 DEF After
  <2>2. QED
    BY <2>1, <1>3, <1>4 DEF AfterVersion
<1>11. CASE a.stage = "podsvc"
  <2>1. b = AfterPodService(c, g, a.dep, a.sub)
    BY <1>11 DEF After
  <2>2. /\ a.dep \in 1 .. Len(Deployments(c, g))
        /\ a.sub \in 1 .. Dep(c, g, a.dep).size
        /\ Dep(c, g, a.dep).size \in Nat
    BY <1>11, DeploymentsLemma DEF CursorOK, DeploymentSpec
  <2>3. CASE a.sub < Dep(c, g, a.dep).size
    <3>1. b = At("podsvc", a.dep, a.sub + 1)
      BY <2>1, <2>3 DEF AfterPodService
    <3>2. a.sub + 1 \in 1 .. Dep(c, g, a.dep).size
      BY <2>2, <2>3
    <3>3. QED
      BY <3>1, <3>2, <2>2, <1>2, <1>11 DEF CursorOK, Cursor, Stages, ObjectStages, At, Behind
  <2>4. CASE ~(a.sub < Dep(c, g, a.dep).size)
    <3>1. b = At("ss", a.dep, 0)
      BY <2>1, <2>4 DEF AfterPodService
    <3>2. QED
      BY <3>1, <2>2, <1>2, <1>11 DEF CursorOK, Cursor, Stages, ObjectStages, At, Behind
  <2>5. QED
    BY <2>3, <2>4
<1>12. ASSUME a.stage \in {"ss", "pdb"}, b = NextDeployment(c, g, a.dep)
       PROVE  Claim(b)
  <2>1. a.dep \in 1 .. Len(Deployments(c, g))
    BY <1>12 DEF CursorOK
  <2>2. a.dep < Len(Deployments(c, g)) /\ b = EnterDeployment(c, g, a.dep + 1)
    BY <1>12 DEF NextDeployment, At
  <2>3. a.dep + 1 \in 1 .. Len(Deployments(c, g))
    BY <2>1, <2>2, <1>1
  <2>4. CursorOK(c, g, b) /\ b.dep = a.dep + 1 /\ b.stage # "pdb"
    BY <2>2, <2>3, EnterLemma
  <2>5. QED
    BY <2>4, <1>12, <1>2 DEF Behind
<1>13. CASE a.stage = "ss"
  <2>1. b = AfterStatefulSet(c, g, a.dep)
    BY <1>13 DEF After
  <2>2. CASE b = At("pdb", a.dep, 0)
    <3>1. a.dep \in 1 .. Len(Deployments(c, g))
      BY <1>13 DEF CursorOK
    <3>2. QED
      BY <2>2, <3>1, <1>2, <1>13 DEF CursorOK, Cursor, Stages, ObjectStages, At, Behind
  <2>3. CASE b = NextDeployment(c, g, a.dep)
    BY <2>3, <1>12, <1>13
  <2>4. QED
    BY <2>1, <2>2, <2>3 DEF AfterStatefulSet
<1>14. CASE a.stage = "pdb"
  <2>1. b = NextDeployment(c, g, a.dep)
    BY <1>14 DEF After
  <2>2. QED
    BY <2>1, <1>12, <1>14
<1>15. QED
  BY <1>2, <1>6, <1>7, <1>8, <1>9, <1>10, <1>11, <1>13, <1>14 DEF Stages, ObjectStages

------------------------------------------------------------------------------
(***************************************************************************)
(* The objects a pass handles.                                             *)
(***************************************************************************)

(***************************************************************************)
(* Every object stage names a key of the CR; it is a StatefulSet's exactly *)
(* in the "ss" stage, and then it is that of the cursor's deployment, and  *)
(* a ConfigMap's exactly in the two stages for them.                       *)
(***************************************************************************)
LEMMA KeyLemma ==
  ASSUME NEW c \in CRs, NEW g \in DOMAIN Script[c], NEW a, CursorOK(c, g, a),
         a.stage \in ObjectStages
  PROVE  /\ KeyAt(c, g, a) \in Keys /\ KeyAt(c, g, a) \in KeysOf(c)
         /\ HashKey(KeyAt(c, g, a)) \in HashKeys
         /\ (KeyAt(c, g, a).kind = "ss") <=> (a.stage = "ss")
         /\ (KeyAt(c, g, a).kind = "cfg") <=> (a.stage \in {"hbasecfg", "hadoopcfg"})
         /\ a.stage = "ss" => /\ KeyAt(c, g, a) \in StsKeys
                              /\ KeyAt(c, g, a) = StsKey(c, Deployments(c, g)[a.dep])
<1> DEFINE k == KeyAt(c, g, a)
<1>1. ASSUME a.stage = "svc" PROVE k \in KeysOf(c) /\ k.kind = "svc"
  <2>1. k = Key("svc", Meta[c].name, 0, Meta[c].ns)
    BY <1>1 DEF KeyAt
  <2>2. QED
    BY <2>1 DEF KeysOf, Key
<1>2. ASSUME a.stage \in {"hbasecfg", "hadoopcfg"} PROVE k \in KeysOf(c) /\ k.kind = "cfg"
  <2> DEFINE ns == ConfigNamespaces(c, g)[a.sub]
  <2>1. PICK n \in {Meta[c].hbaseCfg, Meta[c].hadoopCfg} : k = Key("cfg", n, 0, ns)
    BY <1>2 DEF KeyAt
  <2>2. ns \in Range(ConfigNamespaces(c, g))
    BY <1>2, NamespacesLemma DEF CursorOK
  <2>3. ns \in UNION {Range(ConfigNamespaces(c, x)) : x \in DOMAIN Script[c]}
    BY <2>2
  <2> HIDE DEF ns, k
  <2>4. k \in KeysOf(c)
    BY <2>1, <2>3 DEF KeysOf
  <2>5. QED
    BY <2>1, <2>4 DEF Key
<1>3. ASSUME a.stage = "podsvc" PROVE k \in KeysOf(c) /\ k.kind = "svc"
  <2> DEFINE d == Deployments(c, g)[a.dep]
  <2>1. k = Key("svc", d, a.sub, Meta[c].ns)
    BY <1>3 DEF KeyAt
  <2>2. d \in DepNames(c) /\ a.sub \in 1 .. Script[c][g].dep[d].size
    BY <1>3, DeploymentsLemma DEF CursorOK, Dep, SpecAt
  <2> HIDE DEF d, k
  <2>3. k \in {Key("svc", d, n, Meta[c].ns) : n \in 1 .. Script[c][g].dep[d].size}
    BY <2>1, <2>2
  <2> DEFINE PodKeys(x, e) ==
               {Key("svc", e, n, Meta[c].ns) : n \in 1 .. Script[c][x].dep[e].size}
  <2>4. k \in PodKeys(g, d)
    BY <2>3
  <2> HIDE DEF PodKeys
  <2>5. k \in UNION {PodKeys(x, e) : x \in DOMAIN Script[c], e \in DepNames(c)}
    BY <2>2, <2>4
  <2>6. k \in KeysOf(c)
    BY <2>5 DEF KeysOf, PodKeys
  <2>7. QED
    BY <2>1, <2>6 DEF Key
<1>4. ASSUME a.stage \in {"ss", "pdb"}
      PROVE  /\ k \in KeysOf(c)
             /\ k.kind = a.stage
             /\ a.stage = "ss" => k = StsKey(c, Deployments(c, g)[a.dep])
  <2> DEFINE d == Deployments(c, g)[a.dep]
  <2>1. k = Key(a.stage, d, 0, Meta[c].ns)
    BY <1>4 DEF KeyAt, StsKey
  <2>2. d \in DepNames(c)
    BY <1>4, DeploymentsLemma DEF CursorOK
  <2>3. a.stage = "ss" => k = StsKey(c, d)
    BY <2>1 DEF StsKey
  <2> HIDE DEF d, k
  <2>4. k \in KeysOf(c)
    BY <1>4, <2>1, <2>2 DEF KeysOf
  <2>5. QED
    BY <1>4, <2>1, <2>3, <2>4 DEF Key, d
<1>5. k \in KeysOf(c)
  BY <1>1, <1>2, <1>3, <1>4 DEF ObjectStages
<1>6. k \in Keys
  BY <1>5 DEF Keys
<1>7. /\ (k.kind = "ss") <=> (a.stage = "ss")
      /\ (k.kind = "cfg") <=> (a.stage \in {"hbasecfg", "hadoopcfg"})
  BY <1>1, <1>2, <1>3, <1>4 DEF ObjectStages
<1>8. QED
  BY <1>4, <1>5, <1>6, <1>7 DEF StsKeys, HashKeys

(***************************************************************************)
(* The StatefulSet keys are those of the CRs' deployments.                 *)
(***************************************************************************)
LEMMA StsKeyLemma ==
  ASSUME NEW c \in CRs, NEW d \in DepNames(c)
  PROVE  StsKey(c, d) \in StsKeys /\ StsKey(c, d) \in Keys
<1>1. StsKey(c, d) \in KeysOf(c)
  BY DEF KeysOf, StsKey
<1>2. QED
  BY <1>1 DEF StsKeys, Keys, StsKey, Key

(***************************************************************************)
(* Two custom resources never manage one StatefulSet: its key tells the CR *)
(* and the deployment.                                                     *)
(***************************************************************************)
LEMMA StsKeyInjective ==
  ASSUME NEW c \in CRs, NEW e \in CRs, NEW d \in DepNames(c), NEW f \in DepNames(e),
         StsKey(c, d) = StsKey(e, f)
  PROVE  c = e /\ d = f
<1>1. d = f /\ Meta[c].ns = Meta[e].ns
  BY DEF StsKey, Key
<1>2. QED
  BY <1>1, DistinctAssumption

(***************************************************************************)
(* The builders produce well-formed content.                               *)
(***************************************************************************)
LEMMA DesiredLemma ==
  ASSUME NEW c \in CRs, NEW g \in DOMAIN Script[c], NEW a, CursorOK(c, g, a),
         a.stage \in ObjectStages, NEW ver \in Nat
  PROVE  Desired(c, g, a, ver) \in Content
<1>1. Meta[c].name \in STRING /\ Meta[c].ns \in STRING
  BY MetaAssumption DEF MetaOK
<1>2. /\ <<Meta[c].name>> \in Seq(STRING)
      /\ <<Meta[c].name, Meta[c].ns>> \in Seq(STRING)
      /\ << >> \in Seq(STRING)
  BY <1>1
<1>3. SpecAt(c, g).hbase \in Nat /\ SpecAt(c, g).hadoop \in Nat
  BY DeploymentsLemma DEF CRSpec
<1>4. \A n \in Nat : <<n>> \in Seq(Nat)
  OBVIOUS
<1>5. CASE a.stage = "svc"
  <2>1. ClusterPorts(c, g) \in Seq(Nat)
    <3>1. Len(Deployments(c, g)) \in Nat
      BY DeploymentsLemma
    <3>2. \A i \in 1 .. Len(Deployments(c, g)) : Dep(c, g, i).ports \in Nat
      BY DeploymentsLemma DEF DeploymentSpec
    <3>3. QED
      BY <3>1, <3>2, IsASeq DEF ClusterPorts
  <2>2. QED
    BY <2>1, <1>2, <1>5 DEF Desired, BuildService, Content
<1>6. CASE a.stage \in {"hbasecfg", "hadoopcfg"}
  BY <1>2, <1>3, <1>4, <1>6 DEF Desired, BuildConfigMap, Content
<1>7. CASE a.stage \in {"podsvc", "ss", "pdb"}
  <2>1. Dep(c, g, a.dep) \in DeploymentSpec
    BY <1>7, DeploymentsLemma DEF CursorOK
  <2>2. /\ <<Dep(c, g, a.dep).ports>> \in Seq(Nat)
        /\ <<Dep(c, g, a.dep).tmpl>> \in Seq(Nat)
        /\ <<Dep(c, g, a.dep).pdb>> \in Seq(Nat)
        /\ Dep(c, g, a.dep).size \in Nat
    BY <2>1, <1>4 DEF DeploymentSpec
  <2>3. QED
    BY <2>2, <1>2, <1>7 DEF Desired, BuildService, BuildStatefulSet,
                            BuildPodTemplate, BuildPodDisruptionBudget, Content
<1>8. QED
  BY <1>5, <1>6, <1>7 DEF ObjectStages

------------------------------------------------------------------------------
(***************************************************************************)
(* What a pass has done, as a whole.                                       *)
(***************************************************************************)
Deploying == {"podsvc", "ss", "pdb"}

(***************************************************************************)
(* The object stages a pass of generation g goes through when nothing      *)
(* stops it.                                                               *)
(***************************************************************************)
Listed(c, g, b) ==
  /\ CursorOK(c, g, b) /\ b.stage \in ObjectStages
  /\ b.stage \in {"hbasecfg", "hadoopcfg"} => ReconcilesConfig(c, g)
  /\ b.stage = "podsvc" => Meta[c].kind = "cluster" /\ Dep(c, g, b.dep).podsvc
  /\ b.stage = "pdb" => Dep(c, g, b.dep).pdb # 0

(***************************************************************************)
(* Object stage b comes before cursor a in the order of c's controller.    *)
(***************************************************************************)
ServiceBehind(c, a) ==
  IF Meta[c].kind = "tenant" THEN a.stage \in Deploying ELSE a.stage # "svc"

ConfigBefore(c, b, a) ==
  \/ a.stage \in Deploying \cup {"version"}
  \/ Meta[c].kind = "tenant" /\ a.stage = "svc"
  \/ a.stage \in {"hbasecfg", "hadoopcfg"} /\ b.sub < a.sub
  \/ a.stage = "hadoopcfg" /\ b.stage = "hbasecfg" /\ b.sub = a.sub

DeploymentBefore(b, a) ==
  /\ a.stage \in Deploying
  /\ \/ b.dep < a.dep
     \/ /\ b.dep = a.dep
        /\ \/ b.stage = "podsvc" /\ (a.stage # "podsvc" \/ b.sub < a.sub)
           \/ b.stage = "ss" /\ a.stage = "pdb"

Passed(c, a, b) ==
  \/ a.stage = "done"
  \/ b.stage = "svc" /\ ServiceBehind(c, a)
  \/ b.stage \in {"hbasecfg", "hadoopcfg"} /\ ConfigBefore(c, b, a)
  \/ b.stage \in Deploying /\ DeploymentBefore(b, a)

(***************************************************************************)
(* Nothing is behind a pass that starts.                                   *)
(***************************************************************************)
LEMMA NonePassed ==
  ASSUME NEW c \in CRs, NEW g \in DOMAIN Script[c], NEW b, Listed(c, g, b)
  PROVE  ~Passed(c, Start(c, g), b)
<1>1. Start(c, g).stage \in {"svc", "validate", "version"}
  BY StartLemma
<1>2. CASE b.stage \in {"hbasecfg", "hadoopcfg"}
  <2>1. ReconcilesConfig(c, g)
    BY <1>2 DEF Listed
  <2>2. \/ Meta[c].kind # "tenant" /\ Start(c, g).stage = "svc"
        \/ Start(c, g).stage = "validate"
    BY <2>1 DEF Start, At
  <2>3. QED
    BY <1>2, <2>2 DEF Passed, ConfigBefore, Deploying
<1>3. CASE b.stage = "svc"
  BY <1>1, <1>3 DEF Passed, ServiceBehind, Deploying, Start, At
<1>4. CASE b.stage \in Deploying
  BY <1>1, <1>4 DEF Passed, DeploymentBefore, Deploying
<1>5. QED
  BY <1>2, <1>3, <1>4 DEF Listed, ObjectStages, Deploying

(***************************************************************************)
(* Two cursors at one stage of one object.                                 *)
(***************************************************************************)
SamePlace(a, b) ==
  /\ a.stage = b.stage
  /\ a.stage \in {"hbasecfg", "hadoopcfg", "podsvc"} => a.sub = b.sub
  /\ a.stage \in Deploying => a.dep = b.dep

(***************************************************************************)
(* Leaving a stage puts that stage behind the pass and no other that the   *)
(* generation lists.                                                       *)
(***************************************************************************)
LEMMA PassedLemma ==
  ASSUME NEW c \in CRs, NEW g \in DOMAIN Script[c], NEW a, CursorOK(c, g, a),
         NEW b, Listed(c, g, b), Passed(c, After(c, g, a), b)
  PROVE  Passed(c, a, b) \/ SamePlace(a, b)
<1> DEFINE x == After(c, g, a)
<1>1. /\ Len(Deployments(c, g)) \in Nat \ {0}
      /\ Len(ConfigNamespaces(c, g)) \in Nat \ {0}
  BY DeploymentsLemma, NamespacesLemma
<1>2. /\ a.dep \in Nat /\ a.sub \in Nat /\ b.dep \in Nat /\ b.sub \in Nat
      /\ a.stage \in Stages \ {"done"} /\ b.stage \in ObjectStages
  BY DEF Listed, CursorOK, Cursor
<1>3. Meta[c].kind \in Kinds
  BY MetaAssumption DEF MetaOK
<1>4. /\ b.stage \in {"hbasecfg", "hadoopcfg"} => b.sub \in 1 .. Len(ConfigNamespaces(c, g))
      /\ b.stage \in Deploying => b.dep \in 1 .. Len(Deployments(c, g))
      /\ b.stage = "podsvc" =>
           /\ b.sub \in 1 .. Dep(c, g, b.dep).size
           /\ Dep(c, g, b.dep).size \in Nat
           /\ Meta[c].kind = "cluster" /\ Dep(c, g, b.dep).podsvc
      /\ b.stage = "pdb" => Dep(c, g, b.dep).pdb # 0
  BY DeploymentsLemma DEF Listed, CursorOK, Deploying, DeploymentSpec
<1>5. \A i \in 1 .. Len(Deployments(c, g)) :
        /\ EnterDeployment(c, g, i).dep = i
        /\ \/ EnterDeployment(c, g, i).stage = "podsvc" /\ EnterDeployment(c, g, i).sub = 1
           \/ /\ EnterDeployment(c, g, i).stage = "ss"
              /\ ~(b.stage = "podsvc" /\ b.dep = i)
  BY <1>4 DEF EnterDeployment, At
<1>6. ASSUME NEW i \in 1 .. Len(Deployments(c, g)), b.stage \in Deploying,
             DeploymentBefore(b, EnterDeployment(c, g, i))
      PROVE  b.dep < i
  BY <1>2, <1>4, <1>5, <1>6 DEF DeploymentBefore, Deploying
<1>7. ASSUME x = EnterDeployment(c, g, 1) PROVE b.stage \notin Deploying /\ x.stage \in {"podsvc", "ss"}
  <2>1. 1 \in 1 .. Len(Deployments(c, g))
    BY <1>1
  <2>2. x.stage \in {"podsvc", "ss"}
    BY <1>5, <1>7, <2>1
  <2>3. ~(b.stage \in Deploying /\ DeploymentBefore(b, x))
    BY <1>2, <1>4, <1>6, <1>7, <2>1
  <2>4. QED
    BY <2>2, <2>3 DEF Passed, Deploying
<1>8. CASE a.stage = "svc"
  <2>1. x = AfterService(c, g)
    BY <1>8 DEF After
  <2>2. CASE Meta[c].kind = "tenant"
    BY <1>2, <1>7, <1>8, <2>1, <2>2
       DEF AfterService, Passed, ConfigBefore, SamePlace, ObjectStages, Deploying
  <2>3. CASE Meta[c].kind # "tenant"
    <3>1. x.stage = "validate"
      BY <2>1, <2>3 DEF AfterService, At
    <3>2. QED
      BY <1>2, <1>8, <2>3, <3>1
         DEF Passed, ServiceBehind, ConfigBefore, DeploymentBefore, SamePlace, ObjectStages, Deploying
  <2>4. QED
    BY <2>2, <2>3
<1>9. CASE a.stage = "validate"
  <2>1. x.stage = "hbasecfg" /\ x.sub = 1
    BY <1>9 DEF After, At
  <2>2. QED
    BY <1>2, <1>4, <1>9, <2>1
       DEF Passed, ServiceBehind, ConfigBefore, DeploymentBefore, ObjectStages, Deploying
<1>10. CASE a.stage = "hbasecfg"
  <2>1. x.stage = "hadoopcfg" /\ x.sub = a.sub
    BY <1>10 DEF After, At
  <2>2. QED
    BY <1>2, <1>4, <1>10, <2>1
       DEF Passed, ServiceBehind, ConfigBefore, DeploymentBefore, SamePlace, ObjectStages, Deploying
<1>11. CASE a.stage = "hadoopcfg"
  <2>1. a.sub \in 1 .. Len(ConfigNamespaces(c, g)) /\ x = AfterHadoopConfig(c, g, a.sub)
    BY <1>11 DEF After, CursorOK
  <2>2. b.stage = "svc" => (Passed(c, x, b) => Passed(c, a, b))
    <3>1. CASE Meta[c].kind # "tenant"
      BY <1>11, <3>1 DEF Passed, ServiceBehind
    <3>2. CASE Meta[c].kind = "tenant"
      <4>1. x.stage \in {"hbasecfg", "version"}
        BY <2>1, <3>2 DEF AfterHadoopConfig, AfterConfigs, At
      <4>2. QED
        BY <3>2, <4>1 DEF Passed, ServiceBehind, Deploying
    <3>3. QED
      BY <3>1, <3>2
  <2>3. CASE b.stage \in Deploying
    <3>1. x.stage \in {"hbasecfg", "version"} \/ x = EnterDeployment(c, g, 1)
      BY <2>1 DEF AfterHadoopConfig, AfterConfigs, At
    <3>2. QED
      BY <1>7, <2>3, <3>1 DEF Passed, DeploymentBefore, Deploying
  <2>4. CASE b.stage \in {"hbasecfg", "hadoopcfg"}
    <3>1. CASE a.sub < Len(ConfigNamespaces(c, g))
      <4>1. x.stage = "hbasecfg" /\ x.sub = a.sub + 1
        BY <2>1, <3>1 DEF AfterHadoopConfig, At
      <4>2. b.sub < a.sub + 1
        BY <2>4, <4>1 DEF Passed, ConfigBefore, Deploying
      <4>3. b.sub < a.sub \/ b.sub = a.sub
        BY <1>2, <4>2
      <4>4. QED
        BY <1>11, <2>4, <4>3 DEF Passed, ConfigBefore, SamePlace, Deploying
    <3>2. CASE ~(a.sub < Len(ConfigNamespaces(c, g)))
      <4>1. b.sub < a.sub \/ b.sub = a.sub
        BY <1>1, <1>4, <2>1, <2>4, <3>2
      <4>2. QED
        BY <1>11, <2>4, <4>1 DEF Passed, ConfigBefore, SamePlace, Deploying
    <3>3. QED
      BY <3>1, <3>2
  <2>5. QED
    BY <1>2, <2>2, <2>3, <2>4 DEF ObjectStages, Deploying
<1>12. CASE a.stage = "version"
  <2>1. x = AfterVersion(c, g)
    BY <1>12 DEF After
  <2>2. CASE Meta[c].kind = "tenant"
    <3>1. x.stage = "svc"
      BY <2>1, <2>2 DEF AfterVersion, At
    <3>2. QED
      BY <1>2, <1>12, <2>2, <3>1
         DEF Passed, ServiceBehind, ConfigBefore, DeploymentBefore, ObjectStages, Deploying
  <2>3. CASE Meta[c].kind # "tenant"
    BY <1>2, <1>7, <1>12, <2>1, <2>3
       DEF AfterVersion, Passed, ServiceBehind, ConfigBefore, ObjectStages, Deploying
  <2>4. QED
    BY <2>2, <2>3
<1>13. ASSUME a.stage \in Deploying, b.stage \notin Deploying PROVE Passed(c, a, b)
  BY <1>2, <1>13 DEF Passed, ServiceBehind, ConfigBefore, ObjectStages, Deploying
<1>14. CASE a.stage = "podsvc" /\ b.stage \in Deploying
  <2>1. /\ a.dep \in 1 .. Len(Deployments(c, g))
        /\ a.sub \in 1 .. Dep(c, g, a.dep).size
        /\ Dep(c, g, a.dep).size \in Nat
        /\ x = AfterPodService(c, g, a.dep, a.sub)
    BY <1>14, DeploymentsLemma DEF CursorOK, DeploymentSpec, After
  <2>2. CASE a.sub < Dep(c, g, a.dep).size
    <3>1. x.stage = "podsvc" /\ x.dep = a.dep /\ x.sub = a.sub + 1
      BY <2>1, <2>2 DEF AfterPodService, At
    <3>2. QED
      BY <1>2, <1>14, <3>1 DEF Passed, DeploymentBefore, SamePlace, Deploying
  <2>3. CASE ~(a.sub < Dep(c, g, a.dep).size)
    <3>1. x.stage = "ss" /\ x.dep = a.dep
      BY <2>1, <2>3 DEF AfterPodService, At
    <3>2. b.stage = "podsvc" /\ b.dep = a.dep => b.sub < a.sub \/ b.sub = a.sub
      BY <1>2, <1>4, <2>1, <2>3
    <3>3. QED
      BY <1>2, <1>14, <3>1, <3>2 DEF Passed, DeploymentBefore, SamePlace, Deploying
  <2>4. QED
    BY <2>2, <2>3
<1>15. ASSUME a.stage \in {"ss", "pdb"}, b.stage \in Deploying, x = NextDeployment(c, g, a.dep),
              a.stage = "ss" => ~(b.stage = "pdb" /\ b.dep = a.dep)
       PROVE  Passed(c, a, b) \/ SamePlace(a, b)
  <2>1. a.dep \in 1 .. Len(Deployments(c, g))
    BY <1>15 DEF CursorOK
  <2>2. b.dep <= a.dep
    <3>1. CASE a.dep < Len(Deployments(c, g))
      <4>1. a.dep + 1 \in 1 .. Len(Deployments(c, g))
        BY <1>1, <2>1, <3>1
      <4>2. x = EnterDeployment(c, g, a.dep + 1)
        BY <1>15, <3>1 DEF NextDeployment
      <4>3. DeploymentBefore(b, x)
        BY <1>5, <1>15, <4>1, <4>2 DEF Passed, Deploying
      <4>4. QED
        BY <1>2, <1>6, <1>15, <4>1, <4>2, <4>3
    <3>2. CASE ~(a.dep < Len(Deployments(c, g)))
      BY <1>1, <1>4, <1>15, <2>1, <3>2
    <3>3. QED
      BY <3>1, <3>2
  <2>3. QED
    BY <1>2, <1>15, <2>2 DEF Passed, DeploymentBefore, SamePlace, Deploying
<1>16. CASE a.stage = "ss" /\ b.stage \in Deploying
  <2>1. x = AfterStatefulSet(c, g, a.dep)
    BY <1>16 DEF After
  <2>2. CASE Dep(c, g, a.dep).pdb # 0
    <3>1. x.stage = "pdb" /\ x.dep = a.dep
      BY <2>1, <2>2 DEF AfterStatefulSet, At
    <3>2. QED
      BY <1>2, <1>16, <3>1 DEF Passed, DeploymentBefore, SamePlace, Deploying
  <2>3. CASE Dep(c, g, a.dep).pdb = 0
    BY <1>4, <1>15, <1>16, <2>1, <2>3 DEF AfterStatefulSet
  <2>4. QED
    BY <2>2, <2>3
<1>17. CASE a.stage = "pdb" /\ b.stage \in Deploying
  BY <1>15, <1>17 DEF After
<1>18. QED
  BY <1>2, <1>8, <1>9, <1>10, <1>11, <1>12, <1>13, <1>14, <1>16, <1>17
     DEF Stages, ObjectStages, Deploying

(***************************************************************************)
(* Cursors at one place handle one object.                                 *)
(***************************************************************************)
LEMMA SamePlaceLemma ==
  ASSUME NEW c, NEW g, NEW a, NEW b, SamePlace(a, b), b.stage \in ObjectStages
  PROVE  a.stage \in ObjectStages /\ KeyAt(c, g, a) = KeyAt(c, g, b)
  BY DEF SamePlace, KeyAt, ObjectStages, Deploying

(***************************************************************************)
(* The hash keys of one CR's objects are distinct: only the namespace is   *)
(* dropped, and all objects but its ConfigMaps are in its own.             *)
(***************************************************************************)
LEMMA HashKeyOwn ==
  ASSUME NEW c \in CRs, NEW k \in KeysOf(c), NEW l \in KeysOf(c), HashKey(k) = HashKey(l)
  PROVE  k = l
<1>1. ASSUME NEW x \in KeysOf(c)
      PROVE  /\ x = Key(x.kind, x.name, x.pod, x.ns)
             /\ x.kind # "cfg" => x.ns = Meta[c].ns
  <2> DEFINE PodKeys(g, e) == {Key("svc", e, n, Meta[c].ns) : n \in 1 .. Script[c][g].dep[e].size}
  <2>1. CASE \E g \in DOMAIN Script[c], e \in DepNames(c) : x \in PodKeys(g, e)
    BY <2>1 DEF Key
  <2>2. CASE ~ \E g \in DOMAIN Script[c], e \in DepNames(c) : x \in PodKeys(g, e)
    <3>1. x \notin UNION {PodKeys(g, e) : g \in DOMAIN Script[c], e \in DepNames(c)}
      BY <2>2
    <3> DEFINE Others ==
                 {Key("svc", Meta[c].name, 0, Meta[c].ns)}
                   \cup {Key("cfg", n, 0, ns) :
                           n  \in {Meta[c].hbaseCfg, Meta[c].hadoopCfg},
                           ns \in UNION {Range(ConfigNamespaces(c, g)) : g \in DOMAIN Script[c]}}
                   \cup {Key(kind, d, 0, Meta[c].ns) : kind \in {"ss", "pdb"}, d \in DepNames(c)}
    <3>2. x \in Others
      BY <1>1, <3>1 DEF KeysOf
    <3>3. QED
      BY <3>2 DEF Key
  <2>3. QED
    BY <2>1, <2>2
<1>2. \A x : /\ HashKey(x).kind = x.kind /\ HashKey(x).name = x.name
             /\ HashKey(x).pod = x.pod
             /\ x.kind = "cfg" => HashKey(x).ns = x.ns
  BY DEF HashKey, Key
<1>3. k.kind = l.kind /\ k.name = l.name /\ k.pod = l.pod /\ k.ns = l.ns
  BY <1>1, <1>2
<1>4. QED
  BY <1>1, <1>2, <1>3

(***************************************************************************)
(* What generation g of c asks the object k to contain, whichever stage    *)
(* handles it and version stamps apart.                                    *)
(***************************************************************************)
Plain(content) == [content EXCEPT !.ver = 0]

Prescribed(c, g, k) ==
  LET dep == SpecAt(c, g).dep[k.name]
      id == <<Meta[c].name, Meta[c].ns>>
  IN  CASE k.kind = "cfg" ->
             BuildConfigMap(IF k.name = Meta[c].hbaseCfg THEN SpecAt(c, g).hbase
                            ELSE SpecAt(c, g).hadoop)
        [] k.kind = "svc" /\ k.pod = 0 -> BuildService(c, ClusterPorts(c, g))
        [] k.kind = "svc" /\ k.pod # 0 -> BuildService(c, <<dep.ports>>)
        [] k.kind = "ss" -> [id |-> id, data |-> <<dep.tmpl>>, size |-> dep.size, ver |-> 0]
        [] OTHER -> [id |-> id, data |-> <<dep.pdb>>, size |-> 0, ver |-> 0]

(***************************************************************************)
(* The builders put in what is wanted, provided that the two ConfigMaps    *)
(* are not one.                                                            *)
(***************************************************************************)
LEMMA PrescribedLemma ==
  ASSUME NEW c \in CRs, NEW g \in DOMAIN Script[c], NEW a, CursorOK(c, g, a),
         a.stage \in ObjectStages, NEW ver, Meta[c].hbaseCfg # Meta[c].hadoopCfg
  PROVE  /\ Plain(Desired(c, g, a, ver)) = Prescribed(c, g, KeyAt(c, g, a))
         /\ Desired(c, g, a, 0) = Prescribed(c, g, KeyAt(c, g, a))
<1>1. CASE a.stage = "svc"
  BY <1>1 DEF Desired, KeyAt, Key, Prescribed, Plain, BuildService
<1>2. CASE a.stage \in {"hbasecfg", "hadoopcfg"}
  <2>1. CASE a.stage = "hbasecfg"
    <3>1. KeyAt(c, g, a).kind = "cfg" /\ KeyAt(c, g, a).name = Meta[c].hbaseCfg
      BY <2>1 DEF KeyAt, Key
    <3>2. QED
      BY <2>1, <3>1 DEF Desired, Prescribed, Plain, BuildConfigMap
  <2>2. CASE a.stage = "hadoopcfg"
    <3>1. KeyAt(c, g, a).kind = "cfg" /\ KeyAt(c, g, a).name = Meta[c].hadoopCfg
      BY <2>2 DEF KeyAt, Key
    <3>2. QED
      BY <2>2, <3>1 DEF Desired, Prescribed, Plain, BuildConfigMap
  <2>3. QED
    BY <1>2, <2>1, <2>2
<1>3. CASE a.stage = "podsvc"
  <2>1. a.sub # 0
    BY <1>3, DeploymentsLemma DEF CursorOK, DeploymentSpec
  <2>2. KeyAt(c, g, a) = Key("svc", Deployments(c, g)[a.dep], a.sub, Meta[c].ns)
    BY <1>3 DEF KeyAt
  <2>3. Prescribed(c, g, KeyAt(c, g, a)) = BuildService(c, <<Dep(c, g, a.dep).ports>>)
    BY <2>1, <2>2 DEF Prescribed, Key, Dep
  <2>4. QED
    BY <1>3, <2>3 DEF Desired, Plain, BuildService
<1>4. CASE a.stage \in {"ss", "pdb"}
  <2>1. CASE a.stage = "ss"
    <3>1. KeyAt(c, g, a).kind = "ss" /\ KeyAt(c, g, a).name = Deployments(c, g)[a.dep]
      BY <2>1 DEF KeyAt, StsKey, Key
    <3>2. QED
      BY <2>1, <3>1 DEF Desired, Prescribed, Plain, Dep, BuildStatefulSet, BuildPodTemplate
  <2>2. CASE a.stage = "pdb"
    <3>1. KeyAt(c, g, a).kind = "pdb" /\ KeyAt(c, g, a).name = Deployments(c, g)[a.dep]
      BY <2>2 DEF KeyAt, Key
    <3>2. QED
      BY <2>2, <3>1 DEF Desired, Prescribed, Plain, Dep, BuildPodDisruptionBudget
  <2>3. QED
    BY <1>4, <2>1, <2>2
<1>5. QED
  BY <1>1, <1>2, <1>3, <1>4 DEF ObjectStages
==============================================================================
