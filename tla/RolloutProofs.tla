----------------------------- MODULE RolloutProofs -----------------------------
(***************************************************************************)
(* What a Reconcile call has already done when it stands at a given stage, *)
(* proved for module Operator: which objects exist, and whether the        *)
(* configuration of its generation was found valid.  Then the order in     *)
(* which it takes StatefulSets to a generation, and that it implements the *)
(* abstract module Rollout.  Last, that it does not rest before everything *)
(* is applied, nor forget what it wrote, nor restart pods unasked.         *)
(***************************************************************************)
EXTENDS OperatorProofs, FiniteSetTheorems

------------------------------------------------------------------------------
(***************************************************************************)
(* How one step changes an object and a pass.                              *)
(***************************************************************************)

(***************************************************************************)
(* The StatefulSet a pass works on is the one of its cursor's deployment.  *)
(***************************************************************************)
LEMMA CurrentStsLemma ==
  ASSUME TypeOK, NEW c \in CRs, pass[c] # Nil, Stage(c) = "ss"
  PROVE  /\ pass[c].at.dep \in 1 .. Len(Deployments(c, pass[c].gen))
         /\ Deployments(c, pass[c].gen)[pass[c].at.dep] \in DepNames(c)
         /\ CurrentKey(c) = StsKey(c, Deployments(c, pass[c].gen)[pass[c].at.dep])
         /\ CurrentKey(c) \in StsKeys /\ CurrentKey(c) \in Keys
         /\ pass[c].gen \in Nat \ {0}
<1>1. /\ CursorOK(c, pass[c].gen, pass[c].at) /\ pass[c].gen \in DOMAIN Script[c]
      /\ pass[c].gen \in 1 .. gen[c] /\ gen[c] \in Nat
  BY PassLemma DEF TypeOK
<1>2. pass[c].at.dep \in 1 .. Len(Deployments(c, pass[c].gen))
  BY <1>1 DEF CursorOK, Stage
<1>3. Deployments(c, pass[c].gen)[pass[c].at.dep] \in DepNames(c)
  BY <1>1, <1>2, DeploymentsLemma
<1>4. CurrentKey(c) = StsKey(c, Deployments(c, pass[c].gen)[pass[c].at.dep])
  BY DEF CurrentKey, KeyAt, Stage
<1>5. QED
  BY <1>1, <1>2, <1>3, <1>4, StsKeyLemma

(***************************************************************************)
(* Nothing is cached that was never created.                               *)
(***************************************************************************)
CachedExists == \A k \in Keys : cache[k] # Nil => api[k] # Nil

(***************************************************************************)
(* A step leaves an object in place, and its content is either what it was *)
(* or what a pass at that object wants it to be.                           *)
(***************************************************************************)
ObjectStep(k) ==
  /\ api[k] # Nil => api'[k] # Nil
  /\ api'[k] # Nil =>
       \/ api[k] # Nil /\ api'[k].spec = api[k].spec
       \/ \E c \in CRs : /\ Running(c) /\ Stage(c) \in ObjectStages
                         /\ CurrentKey(c) = k /\ api'[k].spec = CurrentContent(c)

(***************************************************************************)
(* Every step treats every object so.                                      *)
(***************************************************************************)
LEMMA ObjectStepLemma ==
  ASSUME TypeOK, [Next]_vars, NEW k \in Keys
  PROVE  ObjectStep(k)
<1>1. ASSUME api' = api PROVE ObjectStep(k)
  BY <1>1 DEF ObjectStep
<1>2. ASSUME NEW c \in CRs, InPhase(c, "create"), CommitCreate(c) PROVE ObjectStep(k)
  <2>1. /\ CurrentKey(c) \in Keys /\ CurrentContent(c) \in Content
        /\ api' = [api EXCEPT ![CurrentKey(c)] = NewObject(CurrentContent(c))]
        /\ Running(c) /\ Stage(c) \in ObjectStages
    BY <1>2, PassLemma DEF CommitCreate, InPhase, Running
  <2>2. CASE k = CurrentKey(c)
    <3>1. api'[k] = NewObject(CurrentContent(c))
      BY <2>1, <2>2 DEF TypeOK
    <3>2. api'[k] # Nil /\ api'[k].spec = CurrentContent(c)
      BY <2>1, <3>1, ObjectLemma, NilAssumption DEF NewObject
    <3>3. QED
      BY <2>1, <2>2, <3>2 DEF ObjectStep
  <2>3. CASE k # CurrentKey(c)
    <3>1. api'[k] = api[k]
      BY <2>1, <2>3 DEF TypeOK
    <3>2. QED
      BY <3>1 DEF ObjectStep
  <2>4. QED
    BY <2>2, <2>3
<1>3. ASSUME NEW c \in CRs, InPhase(c, "update"), CommitUpdate(c) PROVE ObjectStep(k)
  <2> DEFINE o == Updated(api[CurrentKey(c)], CurrentContent(c), pass[c].v2)
  <2>1. /\ CurrentKey(c) \in Keys /\ CurrentContent(c) \in Content
        /\ pass[c].v2 \in BOOLEAN
        /\ api' = [api EXCEPT ![CurrentKey(c)] = o]
        /\ api[CurrentKey(c)] # Nil
        /\ Running(c) /\ Stage(c) \in ObjectStages
    BY <1>3, PassLemma DEF CommitUpdate, InPhase, Running, Pass
  <2>2. api[CurrentKey(c)] \in Object
    BY <2>1 DEF TypeOK
  <2>3. o # Nil
    BY <2>1, <2>2, ObjectLemma, NilAssumption
  <2>4. o.spec = CurrentContent(c)
    BY <2>2 DEF Updated, Object
  <2> HIDE DEF o
  <2>5. CASE k = CurrentKey(c)
    <3>1. api'[k] = o
      BY <2>1, <2>5 DEF TypeOK
    <3>2. QED
      BY <2>1, <2>3, <2>4, <2>5, <3>1 DEF ObjectStep
  <2>6. CASE k # CurrentKey(c)
    <3>1. api'[k] = api[k]
      BY <2>1, <2>6 DEF TypeOK
    <3>2. QED
      BY <3>1 DEF ObjectStep
  <2>7. QED
    BY <2>5, <2>6
<1>4. ASSUME NEW j \in StsKeys, StatefulSetController(j) \/ PodFailure(j) PROVE ObjectStep(k)
  <2>1. PICK status \in Status : SetStatus(j, status)
    BY <1>4, StatusStepLemma
  <2>2. j \in Keys /\ api[j] # Nil
    BY <1>4, StatusStepLemma DEF StsKeys
  <2>3. api[j] \in Object
    BY <2>2 DEF TypeOK
  <2> DEFINE o == [api[j] EXCEPT !.status = status]
  <2>4. api' = [api EXCEPT ![j] = o]
    BY <2>1 DEF SetStatus
  <2>5. o.spec = api[j].spec /\ o \in Object
    BY <2>3 DEF Object
  <2> HIDE DEF o
  <2>6. CASE k = j
    <3>1. api'[k] = o
      BY <2>2, <2>4, <2>6 DEF TypeOK
    <3>2. QED
      BY <2>2, <2>5, <2>6, <3>1, NilAssumption DEF ObjectStep
  <2>7. CASE k # j
    <3>1. api'[k] = api[k]
      BY <2>2, <2>4, <2>7 DEF TypeOK
    <3>2. QED
      BY <3>1 DEF ObjectStep
  <2>8. QED
    BY <2>6, <2>7
<1>5. ASSUME NEW c \in CRs, StartReconcile(c) \/ ReconcileStep(c) PROVE ObjectStep(k)
  <2>1. CASE Create(c)
    BY <1>2, <2>1 DEF Create
  <2>2. CASE Update(c)
    BY <1>3, <2>2 DEF Update
  <2>3. CASE ~Create(c) /\ ~Update(c)
    BY <1>1, <1>5, <2>3 DEF StartReconcile, ReconcileStep, ValidateConfiguration,
         GetConfigVersion, BuildError, GetUnwatched, GetMissing, GetDiffers, ReadBootstrapDone,
         GetNotReady, GetCurrent, CreateAlreadyExists, UpdateConflict, StoreHash
  <2>4. QED
    BY <2>1, <2>2, <2>3
<1>6. ASSUME NEW c \in CRs, LostReply(c) PROVE ObjectStep(k)
  BY <1>2, <1>3, <1>6 DEF LostReply
<1>7. ASSUME NEW c \in CRs, \/ RequeueTimer(c) \/ Resync(c) \/ UserEdit(c)
                            \/ ApiError(c) \/ ReadError(c)
      PROVE  ObjectStep(k)
  BY <1>1, <1>7 DEF RequeueTimer, Resync, UserEdit, ApiError, ReadError
<1>8. CASE Crash \/ UNCHANGED vars \/ \E kind \in ObjectKinds : InformerSync(kind)
  BY <1>1, <1>8 DEF Crash, vars, InformerSync
<1>9. QED
  BY <1>4, <1>5, <1>6, <1>7, <1>8 DEF Next

(***************************************************************************)
(* A stage that lets the pass go on: the configuration was valid, or the   *)
(* config version was looked up, or the stage's object exists.             *)
(***************************************************************************)
GoesOn(c) ==
  \/ Stage(c) = "validate" /\ SpecAt(c, pass[c].gen).valid
  \/ Stage(c) = "version"
  \/ Stage(c) \in ObjectStages /\ api'[CurrentKey(c)] # Nil

(***************************************************************************)
(* A step ends a pass, leaves it at its cursor, starts it for the current  *)
(* generation, or takes it to the next stage.                              *)
(***************************************************************************)
PassMove(c) ==
  \/ pass'[c] = Nil
  \/ /\ pass[c] # Nil
     /\ pass'[c].gen = pass[c].gen /\ pass'[c].at = pass[c].at
  \/ /\ pass[c] = Nil /\ StartReconcile(c)
     /\ pass'[c].gen = gen[c] /\ pass'[c].at = Start(c, gen[c])
  \/ /\ pass[c] # Nil /\ GoesOn(c)
     /\ pass'[c].gen = pass[c].gen
     /\ pass'[c].at = After(c, pass[c].gen, pass[c].at)
     /\ pass'[c].at.stage # "done"

(***************************************************************************)
(* Going on from a stage is such a move of every pass.                     *)
(***************************************************************************)
LEMMA ContinueMove ==
  ASSUME TypeOK, NEW c \in CRs, pass[c] # Nil, NEW ver, Continue(c, ver), GoesOn(c)
  PROVE  \A d \in CRs : PassMove(d)
<1> DEFINE next == After(c, pass[c].gen, pass[c].at)
<1>1. pass[c] \in Pass
  BY PassLemma
<1>2. \A d \in CRs \ {c} : pass'[d] = pass[d]
  BY DEF Continue, TypeOK
<1>3. \A d \in CRs \ {c} : PassMove(d)
  BY <1>2 DEF PassMove
<1>4. CASE next.stage = "done"
  <2>1. pass'[c] = Nil
    BY <1>4 DEF Continue, TypeOK
  <2>2. QED
    BY <1>3, <2>1 DEF PassMove
<1>5. CASE next.stage # "done"
  <2>1. pass'[c] = [pass[c] EXCEPT !.at = next, !.phase = "get", !.ver = ver]
    BY <1>5 DEF Continue, TypeOK
  <2>2. pass'[c].at = next /\ pass'[c].gen = pass[c].gen
    BY <1>1, <2>1 DEF Pass
  <2>3. PassMove(c)
    BY <1>5, <2>2 DEF PassMove
  <2>4. QED
    BY <1>3, <2>3
<1>6. QED
  BY <1>4, <1>5

(***************************************************************************)
(* Every step moves every pass so.                                         *)
(***************************************************************************)
LEMMA PassMoveLemma ==
  ASSUME TypeOK, CachedExists, [Next]_vars
  PROVE  \A d \in CRs : PassMove(d)
<1>1. ASSUME pass' = pass PROVE \A d \in CRs : PassMove(d)
  BY <1>1 DEF PassMove
<1>2. ASSUME NEW c \in CRs, RequeueAfter(c) \/ Fail(c) PROVE \A d \in CRs : PassMove(d)
  <2>1. \A d \in CRs : pass'[d] = Nil \/ pass'[d] = pass[d]
    BY <1>2 DEF RequeueAfter, Fail, TypeOK
  <2>2. QED
    BY <2>1 DEF PassMove
<1>3. ASSUME NEW c \in CRs, StartReconcile(c) PROVE \A d \in CRs : PassMove(d)
  <2>1. pass'[c].at = Start(c, gen[c]) /\ pass'[c].gen = gen[c] /\ pass[c] = Nil
    BY <1>3 DEF StartReconcile, TypeOK, Running
  <2>2. \A d \in CRs \ {c} : pass'[d] = pass[d]
    BY <1>3 DEF StartReconcile, TypeOK
  <2>3. QED
    BY <1>3, <2>1, <2>2 DEF PassMove
<1>4. ASSUME NEW c \in CRs, GetMissing(c) \/ GetDiffers(c) \/ ReadBootstrapDone(c) \/ Update(c)
      PROVE  \A d \in CRs : PassMove(d)
  <2>1. pass[c] # Nil
    BY <1>4 DEF Answered, GetMissing, GetDiffers, ReadBootstrapDone, Update, InPhase, Running
  <2>2. pass[c] \in Pass
    BY <2>1, PassLemma
  <2>3. pass'[c].at = pass[c].at /\ pass'[c].gen = pass[c].gen
    BY <1>4, <2>2 DEF Answered, GetMissing, GetDiffers, ReadBootstrapDone, Update, TypeOK, Pass
  <2>4. \A d \in CRs \ {c} : pass'[d] = pass[d]
    BY <1>4 DEF Answered, GetMissing, GetDiffers, ReadBootstrapDone, Update, TypeOK
  <2>5. QED
    BY <2>1, <2>3, <2>4 DEF PassMove
<1>5. ASSUME NEW c \in CRs, ValidateConfiguration(c) PROVE \A d \in CRs : PassMove(d)
  <2>1. CASE SpecAt(c, pass[c].gen).valid
    BY <1>5, <2>1, ContinueMove DEF ValidateConfiguration, Running, GoesOn
  <2>2. CASE ~SpecAt(c, pass[c].gen).valid
    BY <1>2, <1>5, <2>2 DEF ValidateConfiguration
  <2>3. QED
    BY <2>1, <2>2
<1>6. ASSUME NEW c \in CRs, GetConfigVersion(c) \/ ReadError(c)
      PROVE  \A d \in CRs : PassMove(d)
  BY <1>6, ContinueMove DEF GetConfigVersion, ReadError, Running, GoesOn
<1>7. ASSUME NEW c \in CRs, GetCurrent(c) PROVE \A d \in CRs : PassMove(d)
  <2>1. /\ pass[c] # Nil /\ Stage(c) \in ObjectStages /\ View(CurrentKey(c)) # Nil
        /\ api' = api
    BY <1>7 DEF GetCurrent, Answered, InPhase, Running, Missing
  <2>2. CurrentKey(c) \in Keys
    BY <2>1, PassLemma
  <2>3. GoesOn(c)
    BY <2>1, <2>2 DEF GoesOn, View, CachedExists
  <2>4. QED
    BY <1>7, <2>1, <2>3, ContinueMove DEF GetCurrent
<1>8. ASSUME NEW c \in CRs, Create(c) PROVE \A d \in CRs : PassMove(d)
  <2>1. pass[c] # Nil /\ Stage(c) \in ObjectStages /\ CommitCreate(c)
    BY <1>8 DEF Create, InPhase, Running
  <2>2. CurrentKey(c) \in Keys /\ CurrentContent(c) \in Content
    BY <2>1, PassLemma
  <2>3. api'[CurrentKey(c)] = NewObject(CurrentContent(c))
    BY <2>1, <2>2 DEF CommitCreate, TypeOK
  <2>4. GoesOn(c)
    BY <2>1, <2>2, <2>3, ObjectLemma, NilAssumption DEF GoesOn
  <2>5. QED
    BY <1>2, <1>8, <2>1, <2>4, ContinueMove DEF Create
<1>9. ASSUME NEW c \in CRs, \/ BuildError(c) \/ GetUnwatched(c) \/ GetNotReady(c)
                            \/ CreateAlreadyExists(c) \/ UpdateConflict(c) \/ StoreHash(c)
                            \/ ApiError(c) \/ LostReply(c)
      PROVE  \A d \in CRs : PassMove(d)
  BY <1>2, <1>9 DEF BuildError, GetUnwatched, GetNotReady, CreateAlreadyExists,
       UpdateConflict, StoreHash, ApiError, LostReply
<1>10. CASE Crash
  BY <1>10 DEF Crash, PassMove
<1>11. ASSUME NEW j \in StsKeys, StatefulSetController(j) \/ PodFailure(j) PROVE pass' = pass
  BY <1>11, StatusStepLemma DEF SetStatus
<1>12. ASSUME NEW c \in CRs, RequeueTimer(c) \/ Resync(c) \/ UserEdit(c) PROVE pass' = pass
  BY <1>12 DEF RequeueTimer, Resync, UserEdit
<1>13. ASSUME NEW kind \in ObjectKinds, InformerSync(kind) PROVE pass' = pass
  BY <1>13 DEF InformerSync
<1>14. QED
  BY <1>1, <1>3, <1>4, <1>5, <1>6, <1>7, <1>8, <1>9, <1>10, <1>11, <1>12, <1>13
     DEF Next, ReconcileStep, vars

------------------------------------------------------------------------------
(***************************************************************************)
(* What lies behind a cursor.                                              *)
(***************************************************************************)
ServiceKey(c) == Key("svc", Meta[c].name, 0, Meta[c].ns)
OwnConfigKey(c, n) == Key("cfg", n, 0, Meta[c].ns)

Configuring == {"validate", "hbasecfg", "hadoopcfg"}

(***************************************************************************)
(* For the kinds that always handle them, the ConfigMaps of the CR's own   *)
(* namespace, which comes last, have had their stage.                      *)
(***************************************************************************)
HbaseBehind(c, g, a) ==
  /\ Meta[c].kind # "tenant"
  /\ \/ a.stage \in Deploying \cup {"version"}
     \/ a.stage = "hadoopcfg" /\ a.sub = Len(ConfigNamespaces(c, g))

HadoopBehind(c, a) ==
  Meta[c].kind # "tenant" /\ a.stage \in Deploying \cup {"version"}

(***************************************************************************)
(* validateConfiguration, where the kind and label call for it, was passed *)
(***************************************************************************)
ValidationBehind(c, a) ==
  \/ a.stage \in Deploying \cup {"hbasecfg", "hadoopcfg", "version"}
  \/ Meta[c].kind = "tenant" /\ a.stage = "svc"

(***************************************************************************)
(* A stage gets behind the cursor only by being the stage that is left.    *)
(***************************************************************************)
LEMMA BehindLemma ==
  ASSUME NEW c \in CRs, NEW g \in DOMAIN Script[c], NEW a, CursorOK(c, g, a),
         NEW b, b = After(c, g, a), b.stage # "done"
  PROVE  /\ ServiceBehind(c, b) => ServiceBehind(c, a) \/ a.stage = "svc"
         /\ HbaseBehind(c, g, b) =>
              \/ HbaseBehind(c, g, a)
              \/ a.stage = "hbasecfg" /\ a.sub = Len(ConfigNamespaces(c, g))
         /\ HadoopBehind(c, b) =>
              \/ HadoopBehind(c, a)
              \/ a.stage = "hadoopcfg" /\ a.sub = Len(ConfigNamespaces(c, g))
         /\ ValidationBehind(c, b) => ValidationBehind(c, a) \/ a.stage = "validate"
         /\ b.stage \in Configuring => a.stage \in Configuring \/ Meta[c].kind # "tenant"
<1>1. /\ Len(Deployments(c, g)) \in Nat \ {0}
      /\ Len(ConfigNamespaces(c, g)) \in Nat \ {0}
  BY DeploymentsLemma, NamespacesLemma
<1>2. a.stage \in Stages \ {"done"}
  BY DEF CursorOK, Cursor
<1>3. Meta[c].kind \in Kinds
  BY MetaAssumption DEF MetaOK
<1>4. \A i \in 1 .. Len(Deployments(c, g)) : EnterDeployment(c, g, i).stage \in {"podsvc", "ss"}
  BY EnterLemma
<1>5. EnterDeployment(c, g, 1).stage \in {"podsvc", "ss"}
  BY <1>1, <1>4
<1> DEFINE Claim ==
      /\ ServiceBehind(c, b) => ServiceBehind(c, a) \/ a.stage = "svc"
      /\ HbaseBehind(c, g, b) =>
           \/ HbaseBehind(c, g, a)
           \/ a.stage = "hbasecfg" /\ a.sub = Len(ConfigNamespaces(c, g))
      /\ HadoopBehind(c, b) =>
           \/ HadoopBehind(c, a)
           \/ a.stage = "hadoopcfg" /\ a.sub = Len(ConfigNamespaces(c, g))
      /\ ValidationBehind(c, b) => ValidationBehind(c, a) \/ a.stage = "validate"
      /\ b.stage \in Configuring => a.stage \in Configuring \/ Meta[c].kind # "tenant"
<1>6. CASE a.stage = "svc"
  <2>1. \/ Meta[c].kind = "tenant" /\ b.stage \in {"podsvc", "ss"}
        \/ Meta[c].kind # "tenant" /\ b.stage = "validate"
    BY <1>5, <1>6 DEF After, AfterService, At
  <2>2. QED
    BY <1>6, <2>1 DEF ServiceBehind, HbaseBehind, HadoopBehind, ValidationBehind,
                      Deploying, Configuring
<1>7. CASE a.stage = "validate"
  <2>1. b.stage = "hbasecfg"
    BY <1>7 DEF After, At
  <2>2. QED
    BY <1>7, <2>1 DEF ServiceBehind, HbaseBehind, HadoopBehind, ValidationBehind,
                      Deploying, Configuring
<1>8. CASE a.stage = "hbasecfg"
  <2>1. b.stage = "hadoopcfg" /\ b.sub = a.sub
    BY <1>8 DEF After, At
  <2>2. QED
    BY <1>8, <2>1 DEF ServiceBehind, HbaseBehind, HadoopBehind, ValidationBehind,
                      Deploying, Configuring
<1>9. CASE a.stage = "hadoopcfg"
  <2>1. a.sub \in 1 .. Len(ConfigNamespaces(c, g))
    BY <1>9 DEF CursorOK
  <2>2. b = AfterHadoopConfig(c, g, a.sub)
    BY <1>9 DEF After
  <2>3. CASE a.sub < Len(ConfigNamespaces(c, g))
    <3>1. b.stage = "hbasecfg"
      BY <2>2, <2>3 DEF AfterHadoopConfig, At
    <3>2. QED
      BY <1>9, <3>1 DEF ServiceBehind, HbaseBehind, HadoopBehind, ValidationBehind,
                        Deploying, Configuring
  <2>4. CASE ~(a.sub < Len(ConfigNamespaces(c, g)))
    <3>1. a.sub = Len(ConfigNamespaces(c, g))
      BY <1>1, <2>1, <2>4
    <3>2. b = AfterConfigs(c, g)
      BY <2>2, <2>4 DEF AfterHadoopConfig
    <3>3. \/ b.stage = "version"
          \/ Meta[c].kind = "standalone" /\ b.stage \in {"podsvc", "ss"}
      BY <1>5, <3>2 DEF AfterConfigs, At
    <3>4. QED
      BY <1>9, <3>1, <3>3 DEF ServiceBehind, HbaseBehind, HadoopBehind, ValidationBehind,
                              Deploying, Configuring
  <2>5. QED
    BY <2>3, <2>4
<1>10. CASE a.stage = "version"
  <2>1. \/ Meta[c].kind = "tenant" /\ b.stage = "svc"
        \/ Meta[c].kind # "tenant" /\ b.stage \in {"podsvc", "ss"}
    BY <1>5, <1>10 DEF After, AfterVersion, At
  <2>2. QED
    BY <1>10, <2>1 DEF ServiceBehind, HbaseBehind, HadoopBehind, ValidationBehind,
                       Deploying, Configuring
<1>11. CASE a.stage \in Deploying
  <2>1. b.stage \in Deploying
    <3>1. a.dep \in 1 .. Len(Deployments(c, g))
      BY <1>11 DEF CursorOK, Deploying
    <3>2. NextDeployment(c, g, a.dep).stage \in {"podsvc", "ss", "done"}
      <4>1. CASE a.dep < Len(Deployments(c, g))
        <5>1. a.dep + 1 \in 1 .. Len(Deployments(c, g))
          BY <1>1, <3>1, <4>1
        <5>2. QED
          BY <1>4, <4>1, <5>1 DEF NextDeployment
      <4>2. CASE ~(a.dep < Len(Deployments(c, g)))
        BY <4>2 DEF NextDeployment, At
      <4>3. QED
        BY <4>1, <4>2
    <3>3. AfterStatefulSet(c, g, a.dep).stage \in {"podsvc", "ss", "pdb", "done"}
      BY <3>2 DEF AfterStatefulSet, At
    <3>4. AfterPodService(c, g, a.dep, a.sub).stage \in {"podsvc", "ss"}
      BY DEF AfterPodService, At
    <3>5. QED
      BY <1>11, <3>2, <3>3, <3>4 DEF After, Deploying
  <2>2. QED
    BY <1>11, <2>1 DEF ServiceBehind, HbaseBehind, HadoopBehind, ValidationBehind,
                       Deploying, Configuring
<1>12. QED
  BY <1>2, <1>6, <1>7, <1>8, <1>9, <1>10, <1>11 DEF Stages, ObjectStages, Deploying

------------------------------------------------------------------------------
(***************************************************************************)
(* The inductive invariant: what lies behind a running pass was done, and  *)
(* StatefulSets have what their pods mount.                                *)
(***************************************************************************)
DoneBehind(c) ==
  pass[c] # Nil =>
    LET g == pass[c].gen
        a == pass[c].at
    IN  /\ ServiceBehind(c, a) => api[ServiceKey(c)] # Nil
        /\ HbaseBehind(c, g, a) => api[OwnConfigKey(c, Meta[c].hbaseCfg)] # Nil
        /\ HadoopBehind(c, a) => api[OwnConfigKey(c, Meta[c].hadoopCfg)] # Nil
        /\ a.stage \in Configuring => ReconcilesConfig(c, g)
        /\ ValidationBehind(c, a) /\ ReconcilesConfig(c, g) => SpecAt(c, g).valid

PassInv ==
  /\ TypeOK /\ CachedExists
  /\ \A c \in CRs : DoneBehind(c)
  /\ DependenciesFirst

(***************************************************************************)
(* The Service and the two ConfigMaps of its own namespace are among a     *)
(* CR's objects, and are those of the stages that handle them.             *)
(***************************************************************************)
LEMMA OwnObjectsLemma ==
  ASSUME NEW c \in CRs
  PROVE  /\ ServiceKey(c) \in Keys
         /\ OwnConfigKey(c, Meta[c].hbaseCfg) \in Keys
         /\ OwnConfigKey(c, Meta[c].hadoopCfg) \in Keys
         /\ \A g, a : a.stage = "svc" => KeyAt(c, g, a) = ServiceKey(c)
         /\ \A g \in DOMAIN Script[c] : \A a :
              a.sub = Len(ConfigNamespaces(c, g)) =>
                /\ a.stage = "hbasecfg" => KeyAt(c, g, a) = OwnConfigKey(c, Meta[c].hbaseCfg)
                /\ a.stage = "hadoopcfg" => KeyAt(c, g, a) = OwnConfigKey(c, Meta[c].hadoopCfg)
<1>1. 1 \in DOMAIN Script[c] /\ Meta[c].ns \in STRING
  BY MetaAssumption DEF MetaOK
<1>2. Meta[c].ns \in UNION {Range(ConfigNamespaces(c, g)) : g \in DOMAIN Script[c]}
  BY <1>1, NamespacesLemma
<1>3. ServiceKey(c) \in KeysOf(c)
  BY DEF ServiceKey, KeysOf
<1>4. \A n \in {Meta[c].hbaseCfg, Meta[c].hadoopCfg} : OwnConfigKey(c, n) \in KeysOf(c)
  BY <1>2 DEF OwnConfigKey, KeysOf
<1>5. ASSUME NEW g \in DOMAIN Script[c]
      PROVE  ConfigNamespaces(c, g)[Len(ConfigNamespaces(c, g))] = Meta[c].ns
  <2>1. SpecAt(c, g).tns \in Seq(STRING)
    BY DeploymentsLemma DEF CRSpec
  <2>2. QED
    BY <1>1, <2>1 DEF ConfigNamespaces
<1>6. \A g, a : a.stage = "svc" => KeyAt(c, g, a) = ServiceKey(c)
  BY DEF KeyAt, ServiceKey
<1>7. ASSUME NEW g \in DOMAIN Script[c], NEW a, a.sub = Len(ConfigNamespaces(c, g))
      PROVE  /\ a.stage = "hbasecfg" => KeyAt(c, g, a) = OwnConfigKey(c, Meta[c].hbaseCfg)
             /\ a.stage = "hadoopcfg" => KeyAt(c, g, a) = OwnConfigKey(c, Meta[c].hadoopCfg)
  BY <1>5, <1>7 DEF KeyAt, OwnConfigKey
<1>8. QED
  BY <1>3, <1>4, <1>6, <1>7 DEF Keys

(***************************************************************************)
(* The invariant holds before anything is created.                         *)
(***************************************************************************)
LEMMA PassInvInit == Init => PassInv
<1> SUFFICES ASSUME Init PROVE PassInv
  OBVIOUS
<1>1. TypeOK
  BY TypeInit
<1>2. CachedExists
  BY DEF Init, CachedExists
<1>3. \A c \in CRs : DoneBehind(c)
  BY DEF Init, DoneBehind
<1>4. DependenciesFirst
  <2>1. \A c \in CRs : \A d \in DepNames(c) : api[StsKey(c, d)] = Nil
    BY StsKeyLemma DEF Init
  <2>2. QED
    BY <2>1 DEF DependenciesFirst
<1>5. QED
  BY <1>1, <1>2, <1>3, <1>4 DEF PassInv

(***************************************************************************)
(* Every step keeps what lies behind every pass done.                      *)
(***************************************************************************)
LEMMA DoneBehindNext ==
  ASSUME PassInv, [Next]_vars, NEW c \in CRs
  PROVE  DoneBehind(c)'
<1> SUFFICES ASSUME pass'[c] # Nil PROVE DoneBehind(c)'
  BY DEF DoneBehind
<1> DEFINE g == pass[c].gen
           a == pass[c].at
           b == pass'[c].at
<1>1. TypeOK /\ TypeOK' /\ PassMove(c) /\ DoneBehind(c)
  BY TypeNext, PassMoveLemma DEF PassInv
<1>2. /\ api[ServiceKey(c)] # Nil => api'[ServiceKey(c)] # Nil
      /\ \A n \in {Meta[c].hbaseCfg, Meta[c].hadoopCfg} :
           api[OwnConfigKey(c, n)] # Nil => api'[OwnConfigKey(c, n)] # Nil
  BY <1>1, OwnObjectsLemma, ObjectStepLemma DEF ObjectStep
<1>3. CASE pass[c] # Nil /\ pass'[c].gen = g /\ b = a
  BY <1>1, <1>2, <1>3 DEF DoneBehind
<1>4. CASE pass[c] = Nil /\ pass'[c].gen = gen[c] /\ b = Start(c, gen[c])
  <2>1. \/ Meta[c].kind # "tenant" /\ b.stage = "svc"
        \/ Meta[c].kind = "tenant" /\ ReconcilesConfig(c, gen[c]) /\ b.stage = "validate"
        \/ Meta[c].kind = "tenant" /\ ~ReconcilesConfig(c, gen[c]) /\ b.stage = "version"
    BY <1>4 DEF Start, At
  <2>2. /\ ~ServiceBehind(c, b) /\ ~HbaseBehind(c, gen[c], b) /\ ~HadoopBehind(c, b)
        /\ b.stage \in Configuring => ReconcilesConfig(c, gen[c])
        /\ ~(ValidationBehind(c, b) /\ ReconcilesConfig(c, gen[c]))
    BY <2>1 DEF ServiceBehind, HbaseBehind, HadoopBehind, ValidationBehind,
                Deploying, Configuring
  <2>3. QED
    BY <1>4, <2>2 DEF DoneBehind
<1>5. CASE pass[c] # Nil /\ GoesOn(c) /\ pass'[c].gen = g /\ b = After(c, g, a) /\ b.stage # "done"
  <2>1. /\ g \in DOMAIN Script[c] /\ CursorOK(c, g, a)
        /\ Stage(c) = a.stage /\ CurrentKey(c) = KeyAt(c, g, a)
    BY <1>1, <1>5, PassLemma DEF Stage, CurrentKey
  <2>2. ServiceBehind(c, b) => api'[ServiceKey(c)] # Nil
    <3>1. a.stage = "svc" => api'[ServiceKey(c)] # Nil
      BY <1>5, <2>1, OwnObjectsLemma DEF GoesOn
    <3>2. QED
      BY <1>1, <1>2, <1>5, <2>1, <3>1, BehindLemma DEF DoneBehind
  <2>3. HbaseBehind(c, g, b) => api'[OwnConfigKey(c, Meta[c].hbaseCfg)] # Nil
    <3>1. a.stage = "hbasecfg" /\ a.sub = Len(ConfigNamespaces(c, g))
            => api'[OwnConfigKey(c, Meta[c].hbaseCfg)] # Nil
      BY <1>5, <2>1, OwnObjectsLemma DEF GoesOn
    <3>2. QED
      BY <1>1, <1>2, <1>5, <2>1, <3>1, BehindLemma DEF DoneBehind
  <2>4. HadoopBehind(c, b) => api'[OwnConfigKey(c, Meta[c].hadoopCfg)] # Nil
    <3>1. a.stage = "hadoopcfg" /\ a.sub = Len(ConfigNamespaces(c, g))
            => api'[OwnConfigKey(c, Meta[c].hadoopCfg)] # Nil
      BY <1>5, <2>1, OwnObjectsLemma DEF GoesOn
    <3>2. QED
      BY <1>1, <1>2, <1>5, <2>1, <3>1, BehindLemma DEF DoneBehind
  <2>5. b.stage \in Configuring => ReconcilesConfig(c, g)
    <3>1. Meta[c].kind # "tenant" => ReconcilesConfig(c, g)
      BY DEF ReconcilesConfig
    <3>2. QED
      BY <1>1, <1>5, <2>1, <3>1, BehindLemma DEF DoneBehind
  <2>6. ValidationBehind(c, b) /\ ReconcilesConfig(c, g) => SpecAt(c, g).valid
    <3>1. a.stage = "validate" => SpecAt(c, g).valid
      BY <1>5, <2>1 DEF GoesOn, ObjectStages
    <3>2. QED
      BY <1>1, <1>5, <2>1, <3>1, BehindLemma DEF DoneBehind
  <2>7. QED
    BY <1>5, <2>2, <2>3, <2>4, <2>5, <2>6 DEF DoneBehind
<1>6. QED
  BY <1>1, <1>3, <1>4, <1>5 DEF PassMove

(***************************************************************************)
(* The inductive step.  A StatefulSet that appears is written by a pass of *)
(* its own CR, which has the Service and the ConfigMaps behind it.         *)
(***************************************************************************)
LEMMA PassInvNext == PassInv /\ [Next]_vars => PassInv'
<1> SUFFICES ASSUME PassInv, [Next]_vars PROVE PassInv'
  OBVIOUS
<1>1. TypeOK /\ TypeOK'
  BY TypeNext DEF PassInv
<1>2. \A k \in Keys : ObjectStep(k)
  BY <1>1, ObjectStepLemma
<1>3. CachedExists'
  <2> SUFFICES ASSUME NEW k \in Keys, cache'[k] # Nil PROVE api'[k] # Nil
    BY DEF CachedExists
  <2>1. cache'[k] \in {cache[k], api[k], Nil}
    BY <1>1, CacheStepLemma
  <2>2. QED
    BY <1>2, <2>1 DEF PassInv, CachedExists, ObjectStep
<1>4. \A c \in CRs : DoneBehind(c)'
  BY DoneBehindNext
<1>5. DependenciesFirst'
  <2> SUFFICES ASSUME NEW c \in CRs, NEW d \in DepNames(c), api'[StsKey(c, d)] # Nil
               PROVE  /\ api'[ServiceKey(c)] # Nil
                      /\ Meta[c].kind # "tenant" =>
                           \A n \in {Meta[c].hbaseCfg, Meta[c].hadoopCfg} :
                             api'[OwnConfigKey(c, n)] # Nil
    BY DEF DependenciesFirst, ServiceKey, OwnConfigKey
  <2> DEFINE k == StsKey(c, d)
  <2>1. k \in Keys
    BY StsKeyLemma
  <2>2. /\ api[ServiceKey(c)] # Nil => api'[ServiceKey(c)] # Nil
        /\ \A n \in {Meta[c].hbaseCfg, Meta[c].hadoopCfg} :
             api[OwnConfigKey(c, n)] # Nil => api'[OwnConfigKey(c, n)] # Nil
    BY <1>2, OwnObjectsLemma DEF ObjectStep
  <2>3. CASE api[k] # Nil
    BY <2>2, <2>3 DEF PassInv, DependenciesFirst, ServiceKey, OwnConfigKey
  <2>4. CASE api[k] = Nil
    <3>1. PICK e \in CRs : Running(e) /\ Stage(e) \in ObjectStages /\ CurrentKey(e) = k
      BY <1>2, <2>1, <2>4 DEF ObjectStep
    <3>2. pass[e] # Nil /\ Stage(e) = "ss"
      BY <1>1, <3>1, PassLemma DEF Running, StsKey, Key
    <3>3. e = c
      BY <1>1, <3>1, <3>2, CurrentStsLemma, StsKeyInjective
    <3>4. DoneBehind(c) /\ pass[c].at.stage = "ss"
      BY <3>2, <3>3 DEF PassInv, Stage
    <3>5. /\ ServiceBehind(c, pass[c].at)
          /\ Meta[c].kind # "tenant" => /\ HbaseBehind(c, pass[c].gen, pass[c].at)
                                        /\ HadoopBehind(c, pass[c].at)
      BY <3>4 DEF ServiceBehind, HbaseBehind, HadoopBehind, Deploying
    <3>6. QED
      BY <2>2, <3>2, <3>3, <3>4, <3>5 DEF DoneBehind
  <2>5. QED
    BY <2>3, <2>4
<1>6. QED
  BY <1>1, <1>3, <1>4, <1>5 DEF PassInv

(***************************************************************************)
(* Dependencies first, for every set of custom resources, edits, faults    *)
(* and stale caches: a StatefulSet exists only if the headless Service of  *)
(* its CR does and, unless the CR is a tenant, both ConfigMaps its pods    *)
(* mount.                                                                  *)
(***************************************************************************)
THEOREM DependenciesCorrect == Spec => []DependenciesFirst
<1>1. PassInv => DependenciesFirst
  BY DEF PassInv
<1>2. QED
  BY <1>1, PassInvInit, PassInvNext, PTL DEF Spec

------------------------------------------------------------------------------
(***************************************************************************)
(* The steps as a user of the rollout sees them.                           *)
(***************************************************************************)
SameSets(S) == \A k \in S : (api'[k] = Nil) <=> (api[k] = Nil)

(***************************************************************************)
(* A pass writes or accepts the StatefulSet at its cursor.                 *)
(***************************************************************************)
Marks(c) ==
  LET k == CurrentKey(c)
  IN  /\ pass[c] # Nil /\ Stage(c) = "ss"
      /\ applied' = [applied EXCEPT ![k] = pass[c].gen]
      /\ readySeen' = IF api[k] = Nil THEN [readySeen EXCEPT ![k] = @ \cup {0}] ELSE readySeen
      /\ api'[k] # Nil
      /\ SameSets(StsKeys \ {k})
      /\ gen' = gen

(***************************************************************************)
(* A StatefulSet that exists reports a number of ready replicas.           *)
(***************************************************************************)
Reports(k) ==
  /\ api[k] # Nil
  /\ \E n \in Nat : readySeen' = [readySeen EXCEPT ![k] = @ \cup {n}]
  /\ SameSets(StsKeys)
  /\ UNCHANGED <<gen, applied>>

Edits(c) ==
  /\ gen[c] < Len(Script[c])
  /\ gen' = [gen EXCEPT ![c] = @ + 1]
  /\ SameSets(StsKeys)
  /\ UNCHANGED <<applied, readySeen>>

Unseen == UNCHANGED <<gen, applied, readySeen>> /\ SameSets(StsKeys)

RolloutStep ==
  \/ \E c \in CRs : Marks(c) \/ Edits(c)
  \/ \E k \in StsKeys : Reports(k)
  \/ Unseen

(***************************************************************************)
(* A Create or an Update the API server carries out is seen only if it is  *)
(* of a StatefulSet.                                                       *)
(***************************************************************************)
LEMMA CommitRolloutStep ==
  ASSUME TypeOK, NEW c \in CRs, gen' = gen,
         \/ InPhase(c, "create") /\ CommitCreate(c)
         \/ InPhase(c, "update") /\ CommitUpdate(c) /\ readySeen' = readySeen
  PROVE  RolloutStep
<1> DEFINE k == CurrentKey(c)
<1>1. /\ pass[c] # Nil /\ Stage(c) \in ObjectStages
      /\ k \in Keys /\ CurrentContent(c) \in Content
      /\ (k.kind = "ss") <=> (Stage(c) = "ss")
      /\ k.kind = "ss" => k \in StsKeys
      /\ pass[c].v2 \in BOOLEAN
  BY PassLemma DEF InPhase, Running, Pass
<1>2. /\ \A j \in Keys \ {k} : api'[j] = api[j]
      /\ api'[k] # Nil
  <2>1. PICK o \in Object : api' = [api EXCEPT ![k] = o]
    <3>1. CASE InPhase(c, "create") /\ CommitCreate(c)
      <4>1. api' = [api EXCEPT ![k] = NewObject(CurrentContent(c))]
        BY <3>1 DEF CommitCreate
      <4>2. QED
        BY <1>1, <4>1, ObjectLemma
    <3>2. CASE InPhase(c, "update") /\ CommitUpdate(c)
      <4>1. /\ api' = [api EXCEPT ![k] = Updated(api[k], CurrentContent(c), pass[c].v2)]
            /\ api[k] # Nil
        BY <3>2 DEF CommitUpdate
      <4>2. api[k] \in Object
        BY <1>1, <4>1 DEF TypeOK
      <4>3. Updated(api[k], CurrentContent(c), pass[c].v2) \in Object
        BY <1>1, <4>2, ObjectLemma
      <4>4. QED
        BY <4>1, <4>3
    <3>3. QED
      BY <3>1, <3>2
  <2>2. QED
    BY <1>1, <2>1, NilAssumption DEF TypeOK
<1>3. SameSets(StsKeys \ {k})
  BY <1>2 DEF SameSets, StsKeys
<1>4. CASE Stage(c) = "ss"
  <2>1. applied' = [applied EXCEPT ![k] = pass[c].gen]
    BY <1>1, <1>4 DEF CommitCreate, CommitUpdate, MarkApplied
  <2>2. readySeen' = IF api[k] = Nil THEN [readySeen EXCEPT ![k] = @ \cup {0}] ELSE readySeen
    BY <1>1, <1>4 DEF CommitCreate, CommitUpdate
  <2>3. Marks(c)
    BY <1>1, <1>2, <1>3, <1>4, <2>1, <2>2 DEF Marks
  <2>4. QED
    BY <2>3 DEF RolloutStep
<1>5. CASE Stage(c) # "ss"
  <2>1. applied' = applied /\ readySeen' = readySeen
    BY <1>1, <1>5 DEF CommitCreate, CommitUpdate, MarkApplied
  <2>2. SameSets(StsKeys)
    BY <1>1, <1>2, <1>5 DEF SameSets, StsKeys
  <2>3. QED
    BY <2>1, <2>2 DEF RolloutStep, Unseen
<1>6. QED
  BY <1>4, <1>5

(***************************************************************************)
(* Every step is one of these.                                             *)
(***************************************************************************)
LEMMA RolloutStepLemma ==
  ASSUME TypeOK, CachedExists, [Next]_vars
  PROVE  RolloutStep
<1>1. ASSUME UNCHANGED <<gen, api, readySeen, applied>> PROVE RolloutStep
  BY <1>1 DEF RolloutStep, Unseen, SameSets
<1>2. ASSUME NEW c \in CRs, GetCurrent(c) PROVE RolloutStep
  <2>1. /\ pass[c] # Nil /\ Stage(c) \in ObjectStages /\ View(CurrentKey(c)) # Nil
        /\ UNCHANGED <<gen, api, readySeen>> /\ MarkApplied(c, CurrentKey(c))
    BY <1>2 DEF GetCurrent, Answered, InPhase, Running, Missing
  <2>2. /\ CurrentKey(c) \in Keys
        /\ (CurrentKey(c).kind = "ss") <=> (Stage(c) = "ss")
    BY <2>1, PassLemma
  <2>3. api[CurrentKey(c)] # Nil
    BY <2>1, <2>2 DEF View, CachedExists
  <2>4. CASE Stage(c) = "ss"
    <3>1. Marks(c)
      BY <2>1, <2>2, <2>3, <2>4 DEF Marks, MarkApplied, SameSets
    <3>2. QED
      BY <3>1 DEF RolloutStep
  <2>5. CASE Stage(c) # "ss"
    BY <1>1, <2>1, <2>2, <2>5 DEF MarkApplied
  <2>6. QED
    BY <2>4, <2>5
<1>3. ASSUME NEW c \in CRs, Create(c) \/ Update(c) \/ LostReply(c) PROVE RolloutStep
  BY <1>3, CommitRolloutStep DEF Create, Update, LostReply
<1>4. ASSUME NEW c \in CRs, UserEdit(c) PROVE RolloutStep
  BY <1>4 DEF UserEdit, history, RolloutStep, Edits, SameSets
<1>5. ASSUME NEW k \in StsKeys, StatefulSetController(k) \/ PodFailure(k) PROVE RolloutStep
  <2>1. PICK status \in Status : SetStatus(k, status)
    BY <1>5, StatusStepLemma
  <2>2. k \in Keys /\ api[k] # Nil /\ api[k] \in Object
    BY <1>5, StatusStepLemma DEF StsKeys, TypeOK
  <2>3. [api[k] EXCEPT !.status = status] \in Object
    BY <2>2 DEF Object
  <2>4. api'[k] # Nil /\ \A j \in Keys \ {k} : api'[j] = api[j]
    BY <2>1, <2>2, <2>3, NilAssumption DEF SetStatus, TypeOK
  <2>5. SameSets(StsKeys)
    BY <2>2, <2>4 DEF SameSets, StsKeys
  <2>6. status.ready \in Nat
    BY DEF Status
  <2>7. Reports(k)
    BY <2>1, <2>2, <2>5, <2>6 DEF Reports, SetStatus
  <2>8. QED
    BY <2>7 DEF RolloutStep
<1>6. ASSUME NEW c \in CRs,
             \/ StartReconcile(c) \/ ValidateConfiguration(c) \/ GetConfigVersion(c)
             \/ BuildError(c) \/ GetUnwatched(c) \/ GetMissing(c) \/ GetDiffers(c)
             \/ GetNotReady(c) \/ ReadBootstrapDone(c) \/ CreateAlreadyExists(c)
             \/ UpdateConflict(c) \/ StoreHash(c) \/ RequeueTimer(c) \/ Resync(c)
             \/ ApiError(c) \/ ReadError(c)
      PROVE  RolloutStep
  BY <1>1, <1>6 DEF StartReconcile, ValidateConfiguration, GetConfigVersion, BuildError,
       GetUnwatched, GetMissing, GetDiffers, GetNotReady, ReadBootstrapDone,
       CreateAlreadyExists, UpdateConflict, StoreHash, RequeueTimer, Resync, ApiError,
       ReadError, history
<1>7. CASE Crash \/ UNCHANGED vars \/ \E kind \in ObjectKinds : InformerSync(kind)
  BY <1>1, <1>7 DEF Crash, vars, InformerSync, history
<1>8. QED
  BY <1>2, <1>3, <1>4, <1>5, <1>6, <1>7 DEF Next, ReconcileStep

(***************************************************************************)
(* Only a pass of its own CR, standing at it, takes a StatefulSet to a     *)
(* generation: the pass's.                                                 *)
(***************************************************************************)
LEMMA AppliedStepLemma ==
  ASSUME TypeOK, CachedExists, [Next]_vars, NEW c \in CRs, NEW d \in DepNames(c)
  PROVE  \/ applied'[StsKey(c, d)] = applied[StsKey(c, d)]
         \/ /\ Marks(c) /\ CurrentKey(c) = StsKey(c, d)
            /\ applied'[StsKey(c, d)] = pass[c].gen
<1> DEFINE k == StsKey(c, d)
<1>1. k \in StsKeys
  BY StsKeyLemma
<1>2. ASSUME NEW e \in CRs, Marks(e), applied'[k] # applied[k]
      PROVE  Marks(c) /\ CurrentKey(c) = k /\ applied'[k] = pass[c].gen
  <2>1. pass[e] # Nil /\ Stage(e) = "ss" /\ applied' = [applied EXCEPT ![CurrentKey(e)] = pass[e].gen]
    BY <1>2 DEF Marks
  <2>2. CurrentKey(e) = k
    BY <1>1, <1>2, <2>1 DEF TypeOK
  <2>3. e = c
    BY <2>1, <2>2, CurrentStsLemma, StsKeyInjective
  <2>4. QED
    BY <1>1, <1>2, <2>1, <2>2, <2>3 DEF TypeOK
<1>3. (\E e \in CRs : Marks(e)) \/ applied' = applied
  BY RolloutStepLemma DEF RolloutStep, Edits, Reports, Unseen
<1>4. QED
  BY <1>2, <1>3

------------------------------------------------------------------------------
(***************************************************************************)
(* Upgrade order.                                                          *)
(***************************************************************************)

(***************************************************************************)
(* The index in a generation's list of a deployment every generation has:  *)
(* one less when Zookeeper is left out.                                    *)
(***************************************************************************)
Place(c, g, i) == IF Deployments(c, g) = Meta[c].deps THEN i ELSE i - 1

(***************************************************************************)
(* A generation lists no deployment twice.                                 *)
(***************************************************************************)
LEMMA DeploymentsDistinct ==
  ASSUME NEW c \in CRs, NEW g \in DOMAIN Script[c],
         NEW i \in 1 .. Len(Deployments(c, g)), NEW j \in 1 .. Len(Deployments(c, g)),
         Deployments(c, g)[i] = Deployments(c, g)[j]
  PROVE  i = j
<1> DEFINE s == Meta[c].deps
<1>1. /\ s \in Seq(STRING) /\ Len(s) >= 1
      /\ \A x, y \in 1 .. Len(s) : s[x] = s[y] => x = y
  BY MetaAssumption DEF MetaOK
<1>2. CASE Deployments(c, g) = s
  BY <1>1, <1>2
<1>3. CASE Deployments(c, g) = Tail(s)
  <2>1. s # << >>
    BY <1>1
  <2>2. Len(Tail(s)) = Len(s) - 1 /\ \A x \in 1 .. Len(s) - 1 : Tail(s)[x] = s[x + 1]
    BY <1>1, <2>1, HeadTailProperties
  <2> HIDE DEF s
  <2>3. i + 1 \in 1 .. Len(s) /\ j + 1 \in 1 .. Len(s) /\ s[i + 1] = s[j + 1]
    BY <1>1, <1>3, <2>2
  <2>4. i + 1 = j + 1
    BY <1>1, <2>3
  <2>5. QED
    BY <1>1, <1>3, <2>2, <2>4
<1>4. QED
  BY <1>2, <1>3 DEF Deployments

(***************************************************************************)
(* Where that deployment stands, and that the list keeps the order.        *)
(***************************************************************************)
LEMMA PlaceLemma ==
  ASSUME NEW c \in CRs, NEW g \in DOMAIN Script[c], NEW i \in Always(c)
  PROVE  /\ i \in Nat
         /\ Meta[c].deps[i] \in DepNames(c)
         /\ Place(c, g, i) \in 1 .. Len(Deployments(c, g))
         /\ Deployments(c, g)[Place(c, g, i)] = Meta[c].deps[i]
<1> DEFINE s == Meta[c].deps
<1>1. /\ s \in Seq(STRING) /\ Len(s) >= 1
      /\ \A x, y \in 1 .. Len(s) : s[x] = s[y] => x = y
  BY MetaAssumption DEF MetaOK
<1>2. i \in 1 .. Len(s) /\ s[i] \in Range(Deployments(c, g))
  BY <1>1 DEF Always
<1>3. s[i] \in DepNames(c)
  BY <1>1, <1>2 DEF DepNames, Range
<1>4. CASE Deployments(c, g) = s
  BY <1>1, <1>2, <1>3, <1>4 DEF Place
<1>5. CASE Deployments(c, g) = Tail(s) /\ Deployments(c, g) # s
  <2>1. s # << >>
    BY <1>1
  <2>2. /\ Tail(s) \in Seq(STRING)
        /\ Len(Tail(s)) = Len(s) - 1 /\ \A x \in 1 .. Len(s) - 1 : Tail(s)[x] = s[x + 1]
    BY <1>1, <2>1, HeadTailProperties
  <2> HIDE DEF s
  <2>3. PICK x \in 1 .. Len(s) - 1 : s[i] = s[x + 1]
    <3>1. s[i] \in Range(Tail(s))
      BY <1>2, <1>5
    <3>2. DOMAIN Tail(s) = 1 .. Len(s) - 1
      BY <2>2
    <3>3. PICK x \in DOMAIN Tail(s) : s[i] = Tail(s)[x]
      BY <3>1 DEF Range
    <3>4. QED
      BY <2>2, <3>2, <3>3
  <2>4. x + 1 \in 1 .. Len(s)
    BY <1>1, <2>3
  <2>5. i = x + 1
    BY <1>1, <1>2, <2>3, <2>4
  <2>6. QED
    BY <1>1, <1>2, <1>3, <1>5, <2>2, <2>3, <2>5 DEF Place, s
<1>6. QED
  BY <1>4, <1>5 DEF Deployments

(***************************************************************************)
(* No StatefulSet is ahead of its CR, nor of a pass of its CR that runs.   *)
(***************************************************************************)
AppliedBound ==
  \A c \in CRs : \A d \in DepNames(c) :
    /\ applied[StsKey(c, d)] <= gen[c]
    /\ pass[c] # Nil => applied[StsKey(c, d)] <= pass[c].gen

(***************************************************************************)
(* What a pass leaves behind is at the generation of the pass.             *)
(***************************************************************************)
BehindApplied ==
  \A c \in CRs : pass[c] # Nil =>
    \A i \in 1 .. Len(Deployments(c, pass[c].gen)) :
      Behind(pass[c].at, i) =>
        applied[StsKey(c, Deployments(c, pass[c].gen)[i])] = pass[c].gen

(***************************************************************************)
(* Exactly the StatefulSets that exist were ever written, and one that     *)
(* does not exist has had no ready replicas.                               *)
(***************************************************************************)
WrittenExist ==
  \A k \in StsKeys :
    /\ (api[k] = Nil) <=> (applied[k] = 0)
    /\ api[k] = Nil => readySeen[k] = {}

RolloutInv ==
  /\ BringUpInv /\ CachedExists
  /\ AppliedBound /\ BehindApplied /\ WrittenExist /\ RolloutOrder

(***************************************************************************)
(* The invariant holds at the start.                                       *)
(***************************************************************************)
LEMMA RolloutInvInit == Init => RolloutInv
<1> SUFFICES ASSUME Init PROVE RolloutInv
  OBVIOUS
<1>1. BringUpInv /\ CachedExists
  BY BringUpInit DEF Init, CachedExists
<1>2. \A c \in CRs : \A d \in DepNames(c) : applied[StsKey(c, d)] = 0
  BY StsKeyLemma DEF Init
<1>3. AppliedBound
  BY <1>2 DEF Init, AppliedBound
<1>4. BehindApplied /\ WrittenExist
  BY DEF Init, BehindApplied, WrittenExist, StsKeys
<1>5. RolloutOrder
  <2>1. \A c \in CRs : \A i \in Always(c) : Meta[c].deps[i] \in DepNames(c)
    BY MetaAssumption DEF Always, DepNames, Range, MetaOK
  <2>2. QED
    BY <1>2, <2>1 DEF RolloutOrder
<1>6. QED
  BY <1>1, <1>3, <1>4, <1>5 DEF RolloutInv

(***************************************************************************)
(* The inductive step.  Earlier deployments are behind the pass that takes *)
(* one to its generation, hence already there, and later ones are at most  *)
(* at that generation.                                                     *)
(***************************************************************************)
LEMMA RolloutInvNext == RolloutInv /\ [Next]_vars => RolloutInv'
<1> SUFFICES ASSUME RolloutInv, [Next]_vars PROVE RolloutInv'
  OBVIOUS
<1>1. TypeOK /\ TypeOK' /\ CachedExists /\ BringUpInv' /\ RolloutStep
  BY TypeNext, BringUpNext, RolloutStepLemma DEF RolloutInv, BringUpInv
<1>2. \A c \in CRs : PassMove(c) /\ PassStep(c)
  BY <1>1, PassMoveLemma, PassStepLemma
<1>3. \A c \in CRs : gen[c] \in Nat /\ gen'[c] \in Nat /\ gen[c] <= gen'[c]
  <2>1. gen' = gen \/ \E c \in CRs : gen' = [gen EXCEPT ![c] = @ + 1]
    BY <1>1 DEF RolloutStep, Marks, Edits, Reports, Unseen
  <2>2. QED
    BY <1>1, <2>1 DEF TypeOK
<1>4. CachedExists'
  <2> SUFFICES ASSUME NEW k \in Keys, cache'[k] # Nil PROVE api'[k] # Nil
    BY DEF CachedExists
  <2>1. cache'[k] \in {cache[k], api[k], Nil} /\ ObjectStep(k)
    BY <1>1, CacheStepLemma, ObjectStepLemma
  <2>2. QED
    BY <1>1, <2>1 DEF CachedExists, ObjectStep
<1>5. AppliedBound'
  <2> SUFFICES ASSUME NEW c \in CRs, NEW d \in DepNames(c)
               PROVE  /\ applied'[StsKey(c, d)] <= gen'[c]
                      /\ pass'[c] # Nil => applied'[StsKey(c, d)] <= pass'[c].gen
    BY DEF AppliedBound
  <2> DEFINE k == StsKey(c, d)
  <2>1. /\ k \in StsKeys /\ applied[k] \in Nat /\ applied'[k] \in Nat
        /\ applied[k] <= gen[c]
        /\ pass[c] # Nil => applied[k] <= pass[c].gen
    BY <1>1, StsKeyLemma DEF TypeOK, RolloutInv, AppliedBound
  <2>2. /\ pass[c] # Nil => pass[c].gen \in Nat /\ pass[c].gen <= gen[c]
        /\ pass'[c] # Nil => pass'[c].gen \in Nat
    BY <1>1, <1>3 DEF TypeOK, PassOK
  <2>3. \/ pass'[c] = Nil
        \/ pass[c] # Nil /\ pass'[c].gen = pass[c].gen
        \/ pass[c] = Nil /\ pass'[c].gen = gen[c]
    BY <1>2 DEF PassMove
  <2>4. \/ applied'[k] = applied[k]
        \/ pass[c] # Nil /\ applied'[k] = pass[c].gen
    BY <1>1, AppliedStepLemma DEF Marks
  <2>5. QED
    BY <1>3, <2>1, <2>2, <2>3, <2>4
<1>6. BehindApplied'
  <2> SUFFICES ASSUME NEW c \in CRs, pass'[c] # Nil,
                      NEW i \in 1 .. Len(Deployments(c, pass'[c].gen)),
                      Behind(pass'[c].at, i)
               PROVE  applied'[StsKey(c, Deployments(c, pass'[c].gen)[i])] = pass'[c].gen
    BY DEF BehindApplied
  <2> DEFINE g == pass[c].gen
             k == StsKey(c, Deployments(c, g)[i])
  <2>1. i \in Nat \ {0}
    BY <1>1, DeploymentsLemma DEF TypeOK
  <2>2. /\ pass[c] # Nil /\ pass'[c].gen = g
        /\ \/ Behind(pass[c].at, i)
           \/ GetCurrent(c) /\ Stage(c) = "ss" /\ i = pass[c].at.dep
    BY <1>2, <2>1 DEF PassStep
  <2>3. i \in 1 .. Len(Deployments(c, g)) /\ g \in DOMAIN Script[c]
    BY <1>1, <2>2, PassLemma
  <2>4. Deployments(c, g)[i] \in DepNames(c) /\ k \in StsKeys
    BY <2>3, DeploymentsLemma, StsKeyLemma
  <2>5. CASE Behind(pass[c].at, i)
    <3>1. applied[k] = g
      BY <2>2, <2>3, <2>5 DEF RolloutInv, BehindApplied
    <3>2. applied'[k] = applied[k] \/ applied'[k] = g
      BY <1>1, <2>4, AppliedStepLemma
    <3>3. QED
      BY <2>2, <3>1, <3>2
  <2>6. CASE GetCurrent(c) /\ Stage(c) = "ss" /\ i = pass[c].at.dep
    <3>1. CurrentKey(c) = k /\ k.kind = "ss"
      BY <1>1, <2>2, <2>4, <2>6, CurrentStsLemma DEF StsKeys
    <3>2. applied' = [applied EXCEPT ![k] = g]
      BY <2>6, <3>1 DEF GetCurrent, MarkApplied
    <3>3. QED
      BY <1>1, <2>2, <2>4, <3>2 DEF TypeOK
  <2>7. QED
    BY <2>2, <2>5, <2>6
<1>7. WrittenExist'
  <2> SUFFICES ASSUME NEW k \in StsKeys
               PROVE  /\ (api'[k] = Nil) <=> (applied'[k] = 0)
                      /\ api'[k] = Nil => readySeen'[k] = {}
    BY DEF WrittenExist
  <2>1. /\ (api[k] = Nil) <=> (applied[k] = 0)
        /\ api[k] = Nil => readySeen[k] = {}
    BY DEF RolloutInv, WrittenExist
  <2>2. ASSUME NEW c \in CRs, Marks(c)
        PROVE  /\ (api'[k] = Nil) <=> (applied'[k] = 0)
               /\ api'[k] = Nil => readySeen'[k] = {}
    <3>1. CurrentKey(c) \in StsKeys /\ pass[c].gen \in Nat \ {0}
      BY <1>1, <2>2, CurrentStsLemma DEF Marks
    <3>2. CASE k = CurrentKey(c)
      <4>1. applied'[k] = pass[c].gen /\ api'[k] # Nil
        BY <1>1, <2>2, <3>1, <3>2 DEF Marks, TypeOK
      <4>2. QED
        BY <3>1, <4>1
    <3>3. CASE k # CurrentKey(c)
      <4>1. applied'[k] = applied[k] /\ readySeen'[k] = readySeen[k]
        BY <1>1, <2>2, <3>1, <3>3 DEF Marks, TypeOK
      <4>2. (api'[k] = Nil) <=> (api[k] = Nil)
        BY <2>2, <3>3 DEF Marks, SameSets
      <4>3. QED
        BY <2>1, <4>1, <4>2
    <3>4. QED
      BY <3>2, <3>3
  <2>3. ASSUME NEW j \in StsKeys, Reports(j)
        PROVE  /\ (api'[k] = Nil) <=> (applied'[k] = 0)
               /\ api'[k] = Nil => readySeen'[k] = {}
    <3>1. /\ (api'[k] = Nil) <=> (api[k] = Nil)
          /\ applied'[k] = applied[k]
          /\ k # j => readySeen'[k] = readySeen[k]
          /\ api[j] # Nil
      BY <1>1, <2>3 DEF Reports, SameSets, TypeOK
    <3>2. QED
      BY <2>1, <3>1
  <2>4. CASE Unseen \/ \E c \in CRs : Edits(c)
    BY <2>1, <2>4 DEF Unseen, Edits, SameSets
  <2>5. QED
    BY <1>1, <2>2, <2>3, <2>4 DEF RolloutStep
<1>8. RolloutOrder'
  <2> SUFFICES ASSUME NEW c \in CRs, NEW i \in Always(c), NEW j \in Always(c), i < j
               PROVE  applied'[StsKey(c, Meta[c].deps[i])] >= applied'[StsKey(c, Meta[c].deps[j])]
    BY DEF RolloutOrder
  <2> DEFINE p == Meta[c].deps[i]
             q == Meta[c].deps[j]
             g == pass[c].gen
  <2>1. gen[c] \in DOMAIN Script[c]
    BY <1>1 DEF TypeOK
  <2>2. p \in DepNames(c) /\ q \in DepNames(c) /\ i \in Nat /\ j \in Nat
    BY <2>1, PlaceLemma
  <2>3. /\ applied[StsKey(c, p)] \in Nat /\ applied[StsKey(c, q)] \in Nat
        /\ applied[StsKey(c, p)] >= applied[StsKey(c, q)]
    BY <1>1, <2>2, StsKeyLemma DEF TypeOK, RolloutInv, RolloutOrder
  <2>4. /\ \/ applied'[StsKey(c, p)] = applied[StsKey(c, p)]
           \/ Marks(c) /\ CurrentKey(c) = StsKey(c, p) /\ applied'[StsKey(c, p)] = g
        /\ \/ applied'[StsKey(c, q)] = applied[StsKey(c, q)]
           \/ Marks(c) /\ CurrentKey(c) = StsKey(c, q) /\ applied'[StsKey(c, q)] = g
    BY <1>1, <2>2, AppliedStepLemma
  <2>5. ASSUME pass[c] # Nil
        PROVE  g \in Nat /\ applied[StsKey(c, p)] <= g /\ applied[StsKey(c, q)] <= g
    BY <1>1, <2>2, <2>5, PassLemma DEF RolloutInv, AppliedBound, Pass
  <2>6. CASE Marks(c) /\ CurrentKey(c) = StsKey(c, q)
    <3>1. pass[c] # Nil /\ Stage(c) = "ss"
      BY <2>6 DEF Marks
    <3>2. /\ pass[c].at.dep \in 1 .. Len(Deployments(c, g))
          /\ Deployments(c, g)[pass[c].at.dep] = q
          /\ g \in DOMAIN Script[c]
      BY <1>1, <2>2, <2>6, <3>1, CurrentStsLemma, StsKeyInjective, PassLemma
    <3>3. /\ Place(c, g, i) \in 1 .. Len(Deployments(c, g)) /\ Deployments(c, g)[Place(c, g, i)] = p
          /\ Place(c, g, j) \in 1 .. Len(Deployments(c, g)) /\ Deployments(c, g)[Place(c, g, j)] = q
      BY <3>2, PlaceLemma
    <3>4. Place(c, g, j) = pass[c].at.dep
      BY <3>2, <3>3, DeploymentsDistinct
    <3>5. Place(c, g, i) < Place(c, g, j)
      BY <2>2 DEF Place
    <3>6. Behind(pass[c].at, Place(c, g, i))
      BY <3>1, <3>4, <3>5 DEF Behind, Stage
    <3>7. applied[StsKey(c, p)] = g
      BY <3>1, <3>3, <3>6 DEF RolloutInv, BehindApplied
    <3>8. QED
      BY <2>3, <2>4, <2>5, <3>1, <3>7
  <2>7. CASE ~(Marks(c) /\ CurrentKey(c) = StsKey(c, q))
    <3>1. Marks(c) => pass[c] # Nil
      BY DEF Marks
    <3>2. QED
      BY <2>3, <2>4, <2>5, <2>7, <3>1
  <2>8. QED
    BY <2>6, <2>7
<1>9. QED
  BY <1>1, <1>4, <1>5, <1>6, <1>7, <1>8 DEF RolloutInv

(***************************************************************************)
(* Upgrade order, for every list of deployments, every edit script (one    *)
(* that scales Zookeeper to 0 and back included) and every fault: among    *)
(* the deployments every generation has, none is ever at a later           *)
(* generation than one listed before it.                                   *)
(***************************************************************************)
THEOREM UpgradeOrdered == Spec => []RolloutOrder
<1>1. RolloutInv => RolloutOrder
  BY DEF RolloutInv
<1>2. QED
  BY <1>1, RolloutInvInit, RolloutInvNext, PTL DEF Spec

------------------------------------------------------------------------------
(***************************************************************************)
(* Invalid configurations.                                                 *)
(***************************************************************************)

(***************************************************************************)
(* A pass at a ConfigMap wants it to hold a revision of a valid            *)
(* generation.                                                             *)
(***************************************************************************)
LEMMA WantsValidData ==
  ASSUME PassInv, NEW c \in CRs, pass[c] # Nil, Stage(c) \in ObjectStages,
         CurrentKey(c).kind = "cfg"
  PROVE  CurrentKey(c) \in KeysOf(c) /\ CurrentContent(c).data \in ValidData(c)
<1> DEFINE g == pass[c].gen
           a == pass[c].at
<1>1. TypeOK /\ DoneBehind(c)
  BY DEF PassInv
<1>2. g \in DOMAIN Script[c] /\ CursorOK(c, g, a)
  BY <1>1, PassLemma
<1>3. /\ a.stage \in {"hbasecfg", "hadoopcfg"}
      /\ CurrentKey(c) \in KeysOf(c)
  BY <1>2, KeyLemma DEF CurrentKey, Stage
<1>4. Script[c][g].valid
  BY <1>1, <1>3 DEF DoneBehind, ValidationBehind, Configuring, SpecAt
<1>5. CurrentContent(c).data \in {<<Script[c][g].hbase>>, <<Script[c][g].hadoop>>}
  BY <1>3 DEF CurrentContent, Desired, BuildConfigMap, SpecAt
<1>6. g \in {x \in DOMAIN Script[c] : Script[c][x].valid}
  BY <1>2, <1>4
<1> HIDE DEF g
<1>7. QED
  BY <1>3, <1>5, <1>6 DEF ValidData

(***************************************************************************)
(* The inductive step: what is written belongs to a validated generation,  *)
(* what is not written stays.                                              *)
(***************************************************************************)
LEMMA ValidNext == PassInv /\ InvalidNeverApplied /\ [Next]_vars => InvalidNeverApplied'
<1> SUFFICES ASSUME PassInv, InvalidNeverApplied, [Next]_vars PROVE InvalidNeverApplied'
  OBVIOUS
<1>1. TypeOK /\ CachedExists
  BY DEF PassInv
<1>2. ASSUME NEW k \in Keys, k.kind = "cfg", api'[k] # Nil
      PROVE  \E c \in CRs : k \in OwnKeys[c] /\ api'[k].spec.data \in ValidData(c)
  <2>1. ObjectStep(k)
    BY <1>1, ObjectStepLemma
  <2>2. CASE api[k] # Nil /\ api'[k].spec = api[k].spec
    BY <1>2, <2>2 DEF InvalidNeverApplied
  <2>3. ASSUME NEW c \in CRs, Running(c), Stage(c) \in ObjectStages,
               CurrentKey(c) = k, api'[k].spec = CurrentContent(c)
        PROVE  k \in OwnKeys[c] /\ api'[k].spec.data \in ValidData(c)
    BY <1>2, <2>3, WantsValidData DEF Running, OwnKeys
  <2>4. QED
    BY <1>2, <2>1, <2>2, <2>3 DEF ObjectStep
<1>3. ASSUME NEW c \in CRs, NEW d \in DepNames(c), applied'[StsKey(c, d)] # 0,
             ReconcilesConfig(c, applied'[StsKey(c, d)])
      PROVE  SpecAt(c, applied'[StsKey(c, d)]).valid
  <2>1. CASE applied'[StsKey(c, d)] = applied[StsKey(c, d)]
    BY <1>3, <2>1 DEF InvalidNeverApplied
  <2>2. CASE Marks(c) /\ applied'[StsKey(c, d)] = pass[c].gen
    <3>1. pass[c] # Nil /\ pass[c].at.stage = "ss" /\ DoneBehind(c)
      BY <2>2 DEF Marks, Stage, PassInv
    <3>2. QED
      BY <1>3, <2>2, <3>1 DEF DoneBehind, ValidationBehind, Deploying
  <2>3. QED
    BY <1>1, <2>1, <2>2, AppliedStepLemma
<1>4. QED
  BY <1>2, <1>3 DEF InvalidNeverApplied

(***************************************************************************)
(* Invalid configurations go nowhere, whichever custom resources share a   *)
(* ConfigMap and whatever is edited or fails meanwhile: every ConfigMap    *)
(* holds a revision that a CR managing it had in a generation it found     *)
(* valid, and no StatefulSet is ever at a generation found invalid.        *)
(***************************************************************************)
THEOREM InvalidStopped == Spec => []InvalidNeverApplied
<1>1. Init => InvalidNeverApplied
  <2> SUFFICES ASSUME Init PROVE InvalidNeverApplied
    OBVIOUS
  <2>1. \A c \in CRs : \A d \in DepNames(c) : applied[StsKey(c, d)] = 0
    BY StsKeyLemma DEF Init
  <2>2. QED
    BY <2>1 DEF Init, InvalidNeverApplied
<1>2. QED
  BY <1>1, PassInvInit, PassInvNext, ValidNext, PTL DEF Spec

------------------------------------------------------------------------------
(***************************************************************************)
(* The operator implements the ordered rollout.                            *)
(***************************************************************************)

(***************************************************************************)
(* The plan of a generation lists its deployments.                         *)
(***************************************************************************)
LEMMA PlanLemma ==
  ASSUME NEW c \in CRs, NEW g \in DOMAIN Script[c]
  PROVE  /\ Len(PlanOf(c, g)) = Len(Deployments(c, g))
         /\ \A i \in 1 .. Len(Deployments(c, g)) :
              /\ PlanOf(c, g)[i].set = StsKey(c, Deployments(c, g)[i])
              /\ PlanOf(c, g)[i].size = Dep(c, g, i).size
<1>1. Len(Deployments(c, g)) \in Nat
  BY DeploymentsLemma
<1>2. QED
  BY <1>1 DEF PlanOf

(***************************************************************************)
(* A pass that writes or accepts a StatefulSet offers it the generation of *)
(* the pass: everything before it is complete.                             *)
(***************************************************************************)
LEMMA MarksOffer ==
  ASSUME RolloutInv, NEW c \in CRs, Marks(c)
  PROVE  Abstract!Next
<1> DEFINE g == pass[c].gen
           j == pass[c].at.dep
           k == CurrentKey(c)
           plan == [e \in CRs |-> [h \in DOMAIN Script[e] |-> PlanOf(e, h)]]
<1>1. TypeOK /\ pass[c] # Nil /\ Stage(c) = "ss"
  BY DEF RolloutInv, BringUpInv, Marks
<1>2. /\ g \in DOMAIN Script[c] /\ g \in 1 .. gen[c] /\ g \in Nat \ {0}
      /\ j \in 1 .. Len(Deployments(c, g))
      /\ Deployments(c, g)[j] \in DepNames(c)
      /\ k = StsKey(c, Deployments(c, g)[j]) /\ k \in StsKeys
  BY <1>1, PassLemma, CurrentStsLemma
<1>3. plan[c][g] = PlanOf(c, g)
  BY <1>2
<1>4. /\ Len(PlanOf(c, g)) = Len(Deployments(c, g))
      /\ PlanOf(c, g)[j].set = k
  BY <1>2, PlanLemma
<1>5. ASSUME NEW i \in 1 .. (j - 1)
      PROVE  LET p == PlanOf(c, g)[i]
             IN  applied[p.set] = g /\ p.size \in readySeen[p.set]
  <2>1. i \in 1 .. Len(Deployments(c, g)) /\ i < j
    BY <1>2, DeploymentsLemma
  <2>2. Behind(pass[c].at, i)
    BY <1>1, <2>1 DEF Behind, Stage
  <2>3. applied[StsKey(c, Deployments(c, g)[i])] = g
    BY <1>1, <2>1, <2>2 DEF RolloutInv, BehindApplied
  <2>4. ReachedSize(c, g, i)
    BY <1>1, <2>1, <2>2 DEF RolloutInv, BringUpInv, BehindReached
  <2>5. QED
    BY <1>2, <2>1, <2>3, <2>4, PlanLemma DEF ReachedSize
<1>6. applied[k] <= g
  BY <1>1, <1>2 DEF RolloutInv, AppliedBound
<1>7. applied' = [applied EXCEPT ![k] = g] /\ gen' = gen
  BY DEF Marks
<1>8. readySeen' = IF applied[k] = 0 THEN [readySeen EXCEPT ![k] = {0}] ELSE readySeen
  <2>1. /\ (api[k] = Nil) <=> (applied[k] = 0)
        /\ api[k] = Nil => readySeen[k] = {}
    BY <1>2 DEF RolloutInv, WrittenExist
  <2>2. readySeen' = IF api[k] = Nil THEN [readySeen EXCEPT ![k] = @ \cup {0}] ELSE readySeen
    BY DEF Marks
  <2>3. api[k] = Nil => [readySeen EXCEPT ![k] = @ \cup {0}] = [readySeen EXCEPT ![k] = {0}]
    BY <1>1, <1>2, <2>1 DEF TypeOK
  <2>4. QED
    BY <2>1, <2>2, <2>3
<1> HIDE DEF g, j, k
<1>9. Abstract!Offer(c, g, j)
  BY <1>3, <1>4, <1>5, <1>6, <1>7, <1>8 DEF Abstract!Offer, Abstract!Complete
<1>10. QED
  BY <1>2, <1>3, <1>4, <1>9 DEF Abstract!Next

(***************************************************************************)
(* Every step of the operator is a step of the rollout or none.            *)
(***************************************************************************)
LEMMA RolloutSimulation == RolloutInv /\ [Next]_vars => [Abstract!Next]_(Abstract!vars)
<1> SUFFICES ASSUME RolloutInv, [Next]_vars PROVE [Abstract!Next]_(Abstract!vars)
  OBVIOUS
<1>1. TypeOK /\ CachedExists /\ RolloutStep
  BY RolloutStepLemma DEF RolloutInv, BringUpInv
<1>2. ASSUME NEW c \in CRs, Marks(c) PROVE Abstract!Next
  BY <1>2, MarksOffer
<1>3. ASSUME NEW c \in CRs, Edits(c) PROVE Abstract!Next
  <2> DEFINE plan == [g \in DOMAIN Script[c] |-> PlanOf(c, g)]
  <2>1. Script[c] \in Seq(CRSpec(c))
    BY MetaAssumption DEF MetaOK
  <2>2. DOMAIN Script[c] = 1 .. Len(Script[c]) /\ Len(Script[c]) \in Nat
    BY <2>1
  <2>3. Len(plan) = Len(Script[c])
    BY <2>2
  <2> HIDE DEF plan
  <2>4. Abstract!Edit(c)
    BY <1>3, <2>3 DEF Abstract!Edit, Edits, plan
  <2>5. QED
    BY <2>4 DEF Abstract!Next
<1>4. ASSUME NEW k \in StsKeys, Reports(k) PROVE Abstract!Next
  <2>1. applied[k] # 0
    BY <1>4 DEF Reports, RolloutInv, WrittenExist
  <2>2. PICK n \in Nat : readySeen' = [readySeen EXCEPT ![k] = @ \cup {n}]
    BY <1>4 DEF Reports
  <2>3. /\ readySeen'[k] = readySeen[k] \cup {n}
        /\ readySeen' = [readySeen EXCEPT ![k] = readySeen'[k]]
    BY <1>1, <2>2 DEF TypeOK
  <2>4. Abstract!Report(k)
    BY <1>4, <2>1, <2>3 DEF Abstract!Report, Reports
  <2>5. QED
    BY <2>4 DEF Abstract!Next
<1>5. CASE Unseen
  BY <1>5 DEF Unseen, Abstract!vars
<1>6. QED
  BY <1>1, <1>2, <1>3, <1>4, <1>5 DEF RolloutStep

(***************************************************************************)
(* Refinement, for every instance of the constants: seen through the       *)
(* generation last applied to each StatefulSet and the ready counts it has *)
(* had, the operator with its caches, hashes, retries, restarts and faults *)
(* does nothing but the ordered rollout of module Rollout.                 *)
(***************************************************************************)
THEOREM RolloutImplemented == Spec => ImplementsRollout
<1>1. Init => Abstract!Init
  BY DEF Init, Abstract!Init
<1>2. QED
  BY <1>1, RolloutInvInit, RolloutInvNext, RolloutSimulation, PTL
     DEF Spec, ImplementsRollout, Abstract!Spec
------------------------------------------------------------------------------
(***************************************************************************)
(* That the operator does not rest before everything is applied, although  *)
(* it compares what it wants with its memory of what it wrote and never    *)
(* with the objects.  The code needs two things for that.                  *)
(***************************************************************************)

(***************************************************************************)
(* Every hash key belongs to one CR, and its two ConfigMaps have different *)
(* names: no two CRs share a ConfigMap, or name objects alike in different *)
(* namespaces.                                                             *)
(***************************************************************************)
Exclusive ==
  /\ \A c \in CRs : Meta[c].hbaseCfg # Meta[c].hadoopCfg
  /\ \A c, e \in CRs : \A k \in KeysOf(c), l \in KeysOf(e) : HashKey(k) = HashKey(l) => c = e

(***************************************************************************)
(* No edit takes an object back to what an earlier generation wanted.      *)
(***************************************************************************)
NeverReverted ==
  \A c \in CRs : \A k \in KeysOf(c) : \A g, h, i \in DOMAIN Script[c] :
    g <= h /\ h <= i /\ Prescribed(c, g, k) = Prescribed(c, i, k) => Prescribed(c, h, k) = Prescribed(c, i, k)

(***************************************************************************)
(* An object holds what generation g wants; all of them do.                *)
(***************************************************************************)
Kept(c, g, k) == api[k] # Nil /\ Plain(api[k].spec) = Prescribed(c, g, k)

AllKept(c, g) == \A b \in Cursor : Listed(c, g, b) => Kept(c, g, KeyAt(c, g, b))

(***************************************************************************)
(* If all objects are as the last generation wants them, the CR's spec is  *)
(* applied.                                                                *)
(***************************************************************************)
LEMMA MatchesLemma ==
  ASSUME TypeOK, Exclusive, NEW c \in CRs, AllKept(c, gen[c])
  PROVE  Matches(c)
<1> DEFINE g == gen[c]
<1>1. g \in DOMAIN Script[c] /\ Meta[c].hbaseCfg # Meta[c].hadoopCfg
  BY DEF TypeOK, Exclusive
<1>2. ASSUME NEW b \in Cursor, Listed(c, g, b)
      PROVE  Holds(KeyAt(c, g, b), Desired(c, g, b, 0))
  <2>1. Kept(c, g, KeyAt(c, g, b))
    BY <1>2 DEF AllKept
  <2>2. Desired(c, g, b, 0) = Prescribed(c, g, KeyAt(c, g, b))
    BY <1>1, <1>2, PrescribedLemma DEF Listed
  <2>3. QED
    BY <2>1, <2>2 DEF Kept, Holds, Plain
<1>3. /\ Len(Deployments(c, g)) \in Nat /\ Len(ConfigNamespaces(c, g)) \in Nat
      /\ \A i \in 1 .. Len(Deployments(c, g)) : Dep(c, g, i).size \in Nat
  BY <1>1, DeploymentsLemma, NamespacesLemma DEF DeploymentSpec
<1>4. Listed(c, g, At("svc", 0, 0)) /\ At("svc", 0, 0) \in Cursor
  BY DEF Listed, CursorOK, Cursor, At, Stages, ObjectStages
<1>5. ConfigsMatch(c)
  <2> SUFFICES ASSUME ReconcilesConfig(c, g), NEW n \in 1 .. Len(ConfigNamespaces(c, g)),
                      NEW s \in {"hbasecfg", "hadoopcfg"}
               PROVE  Holds(KeyAt(c, g, At(s, 0, n)), Desired(c, g, At(s, 0, n), 0))
    BY DEF ConfigsMatch
  <2>1. Listed(c, g, At(s, 0, n)) /\ At(s, 0, n) \in Cursor
    BY <1>3 DEF Listed, CursorOK, Cursor, At, Stages, ObjectStages
  <2>2. QED
    BY <1>2, <2>1
<1>6. ASSUME NEW i \in 1 .. Len(Deployments(c, g)) PROVE DeploymentMatches(c, i)
  <2>1. Listed(c, g, At("ss", i, 0)) /\ At("ss", i, 0) \in Cursor
    BY <1>3 DEF Listed, CursorOK, Cursor, At, Stages, ObjectStages
  <2>2. Dep(c, g, i).pdb # 0 => Listed(c, g, At("pdb", i, 0)) /\ At("pdb", i, 0) \in Cursor
    BY <1>3 DEF Listed, CursorOK, Cursor, At, Stages, ObjectStages
  <2>3. ASSUME Meta[c].kind = "cluster", Dep(c, g, i).podsvc, NEW n \in 1 .. Dep(c, g, i).size
        PROVE  Listed(c, g, At("podsvc", i, n)) /\ At("podsvc", i, n) \in Cursor
    BY <1>3, <2>3 DEF Listed, CursorOK, Cursor, At, Stages, ObjectStages
  <2>4. QED
    BY <1>2, <2>1, <2>2, <2>3 DEF DeploymentMatches
<1>7. QED
  BY <1>2, <1>4, <1>5, <1>6 DEF Matches

------------------------------------------------------------------------------
(***************************************************************************)
(* The inductive invariant.                                                *)
(***************************************************************************)

(***************************************************************************)
(* The object and its hash: each is what some generation up to the pass's  *)
(* wanted, and the hash is not from a later one than the object, since an  *)
(* Update comes before the record of it and may be all that happens.       *)
(***************************************************************************)
Limit(c) == IF pass[c] # Nil THEN pass[c].gen ELSE gen[c]

Tracked(c, k) ==
  LET h == hashStore[HashKey(k)]
  IN  /\ h # Nil => api[k] # Nil
      /\ api[k] # Nil =>
           \E g \in 1 .. Limit(c) :
             /\ Plain(api[k].spec) = Prescribed(c, g, k)
             /\ h # Nil => \E f \in 1 .. g : Plain(h) = Prescribed(c, f, k)

(***************************************************************************)
(* Between Update and StoreHash nobody else writes the object.             *)
(***************************************************************************)
StoresWhatIsThere(c) ==
  InPhase(c, "store") =>
    api[CurrentKey(c)] # Nil /\ api[CurrentKey(c)].spec = CurrentContent(c)

(***************************************************************************)
(* An edit during a pass leaves the CR in the queue.                       *)
(***************************************************************************)
EditsWait(c) == pass[c] # Nil /\ pass[c].gen # gen[c] => c \in queued

(***************************************************************************)
(* What is behind a pass holds what its generation wants.                  *)
(***************************************************************************)
KeptBehind(c) ==
  pass[c] # Nil =>
    \A b \in Cursor :
      Listed(c, pass[c].gen, b) /\ Passed(c, pass[c].at, b)
        => Kept(c, pass[c].gen, KeyAt(c, pass[c].gen, b))

KeptAtRest(c) == ~Pending(c) => AllKept(c, gen[c])

RestOK(c) ==
  /\ \A k \in KeysOf(c) : Tracked(c, k)
  /\ StoresWhatIsThere(c) /\ EditsWait(c) /\ KeptBehind(c) /\ KeptAtRest(c)

RestInv == TypeOK /\ \A c \in CRs : RestOK(c)

------------------------------------------------------------------------------
(***************************************************************************)
(* How one step changes a CR's objects, hashes and pass.                   *)
(***************************************************************************)

(***************************************************************************)
(* Only its own pass writes an object of a CR.                             *)
(***************************************************************************)
WrittenBy(c, k) ==
  /\ pass[c] # Nil /\ Stage(c) \in ObjectStages /\ CurrentKey(c) = k
  /\ api'[k].spec = CurrentContent(c)

LEMMA OwnObjectLemma ==
  ASSUME TypeOK, Exclusive, [Next]_vars, NEW c \in CRs, NEW k \in KeysOf(c)
  PROVE  /\ k \in Keys
         /\ api[k] # Nil => api'[k] # Nil
         /\ api'[k] # Nil => (api[k] # Nil /\ api'[k].spec = api[k].spec) \/ WrittenBy(c, k)
<1>1. k \in Keys
  BY DEF Keys
<1>2. ObjectStep(k)
  BY <1>1, ObjectStepLemma
<1>3. ASSUME NEW e \in CRs, Running(e), Stage(e) \in ObjectStages, CurrentKey(e) = k
      PROVE  e = c
  <2>1. CurrentKey(e) \in KeysOf(e)
    BY <1>3, PassLemma, KeyLemma DEF Running, Stage, CurrentKey
  <2>2. QED
    BY <1>3, <2>1 DEF Exclusive
<1>4. QED
  BY <1>1, <1>2, <1>3 DEF ObjectStep, WrittenBy, Running

(***************************************************************************)
(* Only its own pass records a hash of a CR's object; a restart forgets it *)
(***************************************************************************)
Recorded(c, k) ==
  /\ InPhase(c, "store") /\ CurrentKey(c) = k
  /\ hashStore'[HashKey(k)] = CurrentContent(c)

LEMMA OwnHashLemma ==
  ASSUME TypeOK, Exclusive, [Next]_vars, NEW c \in CRs, NEW k \in KeysOf(c)
  PROVE  \/ hashStore'[HashKey(k)] \in {hashStore[HashKey(k)], Nil}
         \/ Recorded(c, k)
<1>1. HashKey(k) \in HashKeys
  BY DEF HashKeys, Keys
<1>2. ASSUME NEW e \in CRs, StoreHash(e)
      PROVE  hashStore'[HashKey(k)] = hashStore[HashKey(k)] \/ Recorded(c, k)
  <2>1. /\ InPhase(e, "store") /\ pass[e] # Nil /\ Stage(e) \in ObjectStages
        /\ hashStore' = [hashStore EXCEPT ![HashKey(CurrentKey(e))] = CurrentContent(e)]
    BY <1>2 DEF StoreHash, InPhase, Running
  <2>2. CurrentKey(e) \in KeysOf(e)
    BY <2>1, PassLemma, KeyLemma DEF Stage, CurrentKey
  <2>3. CASE HashKey(CurrentKey(e)) = HashKey(k)
    <3>1. e = c
      BY <2>2, <2>3 DEF Exclusive
    <3>2. CurrentKey(c) = k
      BY <2>2, <2>3, <3>1, HashKeyOwn
    <3>3. QED
      BY <1>1, <2>1, <3>1, <3>2 DEF Recorded, TypeOK
  <2>4. CASE HashKey(CurrentKey(e)) # HashKey(k)
    BY <1>1, <2>1, <2>4 DEF TypeOK
  <2>5. QED
    BY <2>3, <2>4
<1>3. CASE Crash
  BY <1>1, <1>3 DEF Crash
<1>4. ASSUME NEW e \in CRs, StartReconcile(e) \/ ReconcileStep(e), ~StoreHash(e)
      PROVE  hashStore' = hashStore
  BY <1>4 DEF StartReconcile, ReconcileStep, ValidateConfiguration,
       GetConfigVersion, BuildError, GetUnwatched, GetMissing, GetDiffers, ReadBootstrapDone,
       GetNotReady, GetCurrent, Create, CreateAlreadyExists, Update, UpdateConflict
<1>5. ASSUME NEW e \in CRs, \/ RequeueTimer(e) \/ Resync(e) \/ UserEdit(e)
                            \/ ApiError(e) \/ ReadError(e) \/ LostReply(e)
      PROVE  hashStore' = hashStore
  BY <1>5 DEF RequeueTimer, Resync, UserEdit, ApiError, ReadError, LostReply
<1>6. ASSUME NEW j \in StsKeys, StatefulSetController(j) \/ PodFailure(j)
      PROVE  hashStore' = hashStore
  BY <1>6, StatusStepLemma DEF SetStatus
<1>7. ASSUME \E kind \in ObjectKinds : InformerSync(kind) PROVE hashStore' = hashStore
  BY <1>7 DEF InformerSync
<1>8. QED
  BY <1>2, <1>3, <1>4, <1>5, <1>6, <1>7 DEF Next, vars

(***************************************************************************)
(* What a step does to the pass of a CR: the pass ends with another one    *)
(* due; there is none before and after; it stays at its stage, where it    *)
(* may have written the object whose hash it is about to record; it        *)
(* starts; or it goes on because the stage's object was created with, or   *)
(* its hash on record is that of, the content it wants.                    *)
(***************************************************************************)
Ends(c) == pass'[c] = Nil /\ c \in queued' \cup timer'

StillDue(c) == gen'[c] = gen[c] \/ c \in queued'

Idles(c) ==
  /\ pass[c] = Nil /\ pass'[c] = Nil /\ StillDue(c)
  /\ c \in queued \cup timer => c \in queued' \cup timer'

HasWritten(c) == api'[CurrentKey(c)] # Nil /\ api'[CurrentKey(c)].spec = CurrentContent(c)

Stays(c) ==
  /\ pass[c] # Nil /\ pass'[c] # Nil /\ StillDue(c)
  /\ pass'[c].gen = pass[c].gen /\ pass'[c].at = pass[c].at
  /\ c \in queued => c \in queued'
  /\ pass'[c].phase = "store" =>
       pass'[c] = pass[c] \/ (pass'[c].ver = pass[c].ver /\ HasWritten(c))

Starts(c) ==
  /\ pass[c] = Nil /\ pass'[c] # Nil /\ gen' = gen
  /\ pass'[c].gen = gen[c] /\ pass'[c].at = Start(c, gen[c]) /\ pass'[c].phase = "get"

Vouched(c) ==
  Stage(c) \in ObjectStages =>
    \/ HasWritten(c)
    \/ api' = api /\ hashStore[HashKey(CurrentKey(c))] = CurrentContent(c)

Advances(c) ==
  LET next == After(c, pass[c].gen, pass[c].at)
  IN  /\ pass[c] # Nil /\ gen' = gen /\ queued' = queued /\ Vouched(c)
      /\ \/ next.stage = "done" /\ pass'[c] = Nil
         \/ /\ next.stage # "done" /\ pass'[c] # Nil
            /\ pass'[c].gen = pass[c].gen /\ pass'[c].at = next /\ pass'[c].phase = "get"

Moves(c) == Ends(c) \/ Idles(c) \/ Stays(c) \/ Starts(c) \/ Advances(c)

(***************************************************************************)
(* Going on from a stage is a move.                                        *)
(***************************************************************************)
LEMMA ContinueAdvances ==
  ASSUME TypeOK, NEW c \in CRs, pass[c] # Nil, NEW ver \in Nat, Continue(c, ver), gen' = gen,
         Vouched(c)
  PROVE  Advances(c) /\ \A d \in CRs \ {c} : pass'[d] = pass[d]
<1> DEFINE next == After(c, pass[c].gen, pass[c].at)
<1>1. pass[c] \in Pass
  BY PassLemma
<1>2. \A d \in CRs \ {c} : pass'[d] = pass[d]
  BY DEF Continue, TypeOK
<1>3. queued' = queued
  BY DEF Continue
<1>4. CASE next.stage = "done"
  <2>1. pass'[c] = Nil
    BY <1>4 DEF Continue, TypeOK
  <2>2. QED
    BY <1>2, <1>3, <1>4, <2>1 DEF Advances
<1>5. CASE next.stage # "done"
  <2> DEFINE p == [pass[c] EXCEPT !.at = next, !.phase = "get", !.ver = ver]
  <2>1. pass'[c] = p
    BY <1>5 DEF Continue, TypeOK
  <2>2. p.at = next /\ p.gen = pass[c].gen /\ p.phase = "get"
    BY <1>1 DEF Pass
  <2>3. p # Nil
    <3>1. next \in Cursor
      BY <1>5, PassLemma, AfterLemma DEF CursorOK
    <3>2. p \in Pass
      BY <1>1, <3>1 DEF Pass, Phases
    <3>3. QED
      BY <3>2, NilAssumption
  <2> HIDE DEF p
  <2>4. QED
    BY <1>2, <1>3, <1>5, <2>1, <2>2, <2>3 DEF Advances
<1>6. QED
  BY <1>4, <1>5

(***************************************************************************)
(* Every step moves every pass in one of these ways.                       *)
(***************************************************************************)
LEMMA MovesLemma ==
  ASSUME TypeOK, [Next]_vars
  PROVE  \A d \in CRs : Moves(d)
<1>1. ASSUME pass' = pass, queued \subseteq queued',
             queued \cup timer \subseteq queued' \cup timer', \A d \in CRs : StillDue(d)
      PROVE  \A d \in CRs : Moves(d)
  BY <1>1 DEF Moves, Idles, Stays
<1>2. ASSUME NEW c \in CRs, gen' = gen, \A d \in CRs \ {c} : pass'[d] = pass[d],
             queued \ {c} \subseteq queued', timer \ {c} \subseteq timer', Moves(c)
      PROVE  \A d \in CRs : Moves(d)
  BY <1>2 DEF Moves, Idles, Stays, StillDue
<1>3. ASSUME NEW c \in CRs, gen' = gen, RequeueAfter(c) \/ Fail(c)
      PROVE  \A d \in CRs : Moves(d)
  <2>1. pass'[c] = Nil /\ \A d \in CRs \ {c} : pass'[d] = pass[d]
    BY <1>3 DEF RequeueAfter, Fail, TypeOK
  <2>2. c \in queued' \cup timer' /\ queued \subseteq queued' /\ timer \subseteq timer'
    BY <1>3 DEF RequeueAfter, Fail
  <2>3. QED
    BY <1>2, <1>3, <2>1, <2>2 DEF Moves, Ends
<1>4. ASSUME NEW c \in CRs, gen' = gen, pass[c] # Nil, NEW ver \in Nat, Continue(c, ver), Vouched(c)
      PROVE  \A d \in CRs : Moves(d)
  <2>1. Advances(c) /\ \A d \in CRs \ {c} : pass'[d] = pass[d]
    BY <1>4, ContinueAdvances
  <2>2. queued' = queued /\ timer' = timer
    BY <1>4 DEF Continue
  <2>3. QED
    BY <1>2, <1>4, <2>1, <2>2 DEF Moves
<1>5. ASSUME NEW c \in CRs, StartReconcile(c) PROVE \A d \in CRs : Moves(d)
  <2> DEFINE p == [gen |-> gen[c], at |-> Start(c, gen[c]),
                   phase |-> "get", ver |-> 0, v2 |-> FALSE, rv |-> 0]
  <2>1. /\ pass[c] = Nil /\ gen' = gen /\ pass' = [pass EXCEPT ![c] = p]
        /\ queued' = queued \ {c} /\ timer' = timer
    BY <1>5 DEF StartReconcile, Running
  <2>2. pass'[c] = p /\ \A d \in CRs \ {c} : pass'[d] = pass[d]
    BY <2>1 DEF TypeOK
  <2>3. p # Nil
    <3>1. Start(c, gen[c]) \in Cursor /\ gen[c] \in Nat
      BY StartLemma DEF TypeOK, CursorOK
    <3>2. p \in Pass
      BY <3>1 DEF Pass, Phases
    <3>3. QED
      BY <3>2, NilAssumption
  <2>4. Starts(c)
    BY <2>1, <2>2, <2>3 DEF Starts
  <2>5. QED
    BY <1>2, <2>1, <2>2, <2>4 DEF Moves
<1>6. ASSUME NEW c \in CRs, GetMissing(c) \/ GetDiffers(c) \/ ReadBootstrapDone(c) \/ Update(c)
      PROVE  \A d \in CRs : Moves(d)
  <2>1. pass[c] # Nil /\ Stage(c) \in ObjectStages
    BY <1>6 DEF Answered, GetMissing, GetDiffers, ReadBootstrapDone, Update, InPhase, Running
  <2>2. pass[c] \in Pass
    BY <2>1, PassLemma
  <2>3. gen' = gen /\ queued' = queued /\ timer' = timer
    BY <1>6 DEF GetMissing, GetDiffers, ReadBootstrapDone, Update
  <2>4. \A d \in CRs \ {c} : pass'[d] = pass[d]
    BY <1>6 DEF GetMissing, GetDiffers, ReadBootstrapDone, Update, TypeOK
  <2>5. /\ pass'[c].at = pass[c].at /\ pass'[c].gen = pass[c].gen /\ pass'[c].ver = pass[c].ver
        /\ pass'[c].phase = "store" => Update(c)
    BY <1>6, <2>2 DEF GetMissing, GetDiffers, ReadBootstrapDone, TypeOK, Pass, Update
  <2>6. pass'[c] # Nil
    <3>1. View(CurrentKey(c)) # Nil /\ GetDiffers(c) => Precondition(CurrentKey(c)) \in Nat
      BY <2>1, PassLemma, ViewLemma DEF Precondition, Object
    <3>2. pass'[c] \in Pass
      BY <1>6, <2>2, <3>1 DEF GetMissing, GetDiffers, ReadBootstrapDone, Update, TypeOK, Pass,
                              Phases, BootstrapDone, Missing
    <3>3. QED
      BY <3>2, NilAssumption
  <2>7. Update(c) => HasWritten(c)
    <3> SUFFICES ASSUME Update(c) PROVE HasWritten(c)
      OBVIOUS
    <3> DEFINE o == Updated(api[CurrentKey(c)], CurrentContent(c), pass[c].v2)
    <3>1. /\ CurrentKey(c) \in Keys /\ CurrentContent(c) \in Content
          /\ pass[c].v2 \in BOOLEAN
          /\ api' = [api EXCEPT ![CurrentKey(c)] = o]
          /\ api[CurrentKey(c)] # Nil
      BY <2>1, <2>2, PassLemma DEF Update, CommitUpdate, Pass
    <3>2. api[CurrentKey(c)] \in Object
      BY <3>1 DEF TypeOK
    <3>3. o # Nil
      BY <3>1, <3>2, ObjectLemma, NilAssumption
    <3>4. o.spec = CurrentContent(c)
      BY <3>2 DEF Updated, Object
    <3>5. api'[CurrentKey(c)] = o
      BY <3>1 DEF TypeOK
    <3>6. QED
      BY <3>3, <3>4, <3>5 DEF HasWritten
  <2>8. Stays(c)
    BY <2>1, <2>3, <2>5, <2>6, <2>7 DEF Stays, StillDue
  <2>9. QED
    BY <1>2, <2>3, <2>4, <2>8 DEF Moves
<1>7. ASSUME NEW c \in CRs, ValidateConfiguration(c) PROVE \A d \in CRs : Moves(d)
  <2>1. pass[c] # Nil /\ Stage(c) = "validate" /\ gen' = gen /\ pass[c].ver \in Nat
    BY <1>7, VersionLemma DEF ValidateConfiguration, Running
  <2>2. Vouched(c)
    BY <2>1 DEF Vouched, ObjectStages
  <2>3. QED
    BY <1>3, <1>4, <1>7, <2>1, <2>2 DEF ValidateConfiguration
<1>8. ASSUME NEW c \in CRs, GetConfigVersion(c) \/ ReadError(c) PROVE \A d \in CRs : Moves(d)
  <2>1. pass[c] # Nil /\ Stage(c) = "version" /\ gen' = gen
    BY <1>8 DEF GetConfigVersion, ReadError, Running
  <2>2. Vouched(c) /\ ConfigVersion(c) \in Nat
    BY <2>1, VersionLemma DEF Vouched, ObjectStages
  <2>3. QED
    BY <1>4, <1>8, <2>1, <2>2 DEF GetConfigVersion, ReadError
<1>9. ASSUME NEW c \in CRs, GetCurrent(c) PROVE \A d \in CRs : Moves(d)
  <2>1. /\ pass[c] # Nil /\ gen' = gen /\ api' = api
        /\ hashStore[HashKey(CurrentKey(c))] = CurrentContent(c)
    BY <1>9 DEF GetCurrent, Answered, InPhase, Running, HashDiffers
  <2>2. Vouched(c) /\ pass[c].ver \in Nat
    BY <2>1, VersionLemma DEF Vouched
  <2>3. QED
    BY <1>4, <1>9, <2>1, <2>2 DEF GetCurrent
<1>10. ASSUME NEW c \in CRs, Create(c) PROVE \A d \in CRs : Moves(d)
  <2>1. pass[c] # Nil /\ Stage(c) \in ObjectStages /\ CommitCreate(c) /\ gen' = gen
    BY <1>10 DEF Create, InPhase, Running
  <2>2. CurrentKey(c) \in Keys /\ CurrentContent(c) \in Content
    BY <2>1, PassLemma
  <2>3. api'[CurrentKey(c)] = NewObject(CurrentContent(c))
    BY <2>1, <2>2 DEF CommitCreate, TypeOK
  <2>4. Vouched(c) /\ VersionAfterCreate(c) \in Nat
    BY <2>1, <2>2, <2>3, ObjectLemma, VersionLemma, NilAssumption DEF Vouched, HasWritten, NewObject
  <2>5. QED
    BY <1>3, <1>4, <1>10, <2>1, <2>4 DEF Create
<1>11. ASSUME NEW c \in CRs, \/ BuildError(c) \/ GetUnwatched(c) \/ GetNotReady(c)
                             \/ CreateAlreadyExists(c) \/ UpdateConflict(c) \/ StoreHash(c)
                             \/ ApiError(c) \/ LostReply(c)
       PROVE  \A d \in CRs : Moves(d)
  BY <1>3, <1>11 DEF BuildError, GetUnwatched, GetNotReady, CreateAlreadyExists,
       UpdateConflict, StoreHash, ApiError, LostReply
<1>12. CASE Crash
  BY <1>12 DEF Crash, Moves, Ends
<1>13. ASSUME NEW j \in StsKeys, StatefulSetController(j) \/ PodFailure(j)
       PROVE  \A d \in CRs : Moves(d)
  BY <1>1, <1>13, StatusStepLemma DEF SetStatus, StillDue
<1>14. ASSUME NEW c \in CRs, RequeueTimer(c) \/ Resync(c) PROVE \A d \in CRs : Moves(d)
  BY <1>1, <1>14 DEF RequeueTimer, Resync, StillDue
<1>15. ASSUME NEW c \in CRs, UserEdit(c) PROVE \A d \in CRs : Moves(d)
  <2>1. \A d \in CRs : StillDue(d)
    BY <1>15 DEF UserEdit, StillDue, TypeOK
  <2>2. QED
    BY <1>1, <1>15, <2>1 DEF UserEdit
<1>16. ASSUME NEW kind \in ObjectKinds, InformerSync(kind) PROVE \A d \in CRs : Moves(d)
  BY <1>1, <1>16 DEF InformerSync, StillDue
<1>17. CASE UNCHANGED vars
  BY <1>1, <1>17 DEF vars, StillDue
<1>18. QED
  BY <1>5, <1>6, <1>7, <1>8, <1>9, <1>10, <1>11, <1>12, <1>13, <1>14, <1>15, <1>16, <1>17
     DEF Next, ReconcileStep

(***************************************************************************)
(* The generations a CR has reached only grow.                             *)
(***************************************************************************)
LEMMA LimitLemma ==
  ASSUME TypeOK, [Next]_vars, NEW c \in CRs
  PROVE  /\ Limit(c) \in Nat /\ Limit(c)' \in Nat /\ Limit(c) <= Limit(c)'
         /\ Limit(c)' \in DOMAIN Script[c] /\ DOMAIN Script[c] = 1 .. Len(Script[c])
         /\ Len(Script[c]) \in Nat
<1>1. TypeOK'
  BY TypeNext
<1>2. /\ DOMAIN Script[c] = 1 .. Len(Script[c]) /\ Len(Script[c]) \in Nat
      /\ gen[c] \in Nat /\ gen'[c] \in Nat
      /\ gen[c] \in DOMAIN Script[c] /\ gen'[c] \in DOMAIN Script[c]
  BY <1>1, MetaAssumption DEF TypeOK, MetaOK
<1>3. gen[c] <= gen'[c]
  <2>1. CASE \E e \in CRs : UserEdit(e)
    BY <1>2, <2>1 DEF UserEdit, TypeOK
  <2>2. CASE ~ \E e \in CRs : UserEdit(e)
    <3>1. ASSUME NEW j \in StsKeys, StatefulSetController(j) \/ PodFailure(j) PROVE gen' = gen
      BY <3>1, StatusStepLemma DEF SetStatus
    <3>2. ASSUME NEW e \in CRs, StartReconcile(e) \/ ReconcileStep(e) PROVE gen' = gen
      BY <3>2 DEF StartReconcile, ReconcileStep, ValidateConfiguration,
           GetConfigVersion, BuildError, GetUnwatched, GetMissing, GetDiffers, ReadBootstrapDone,
           GetNotReady, GetCurrent, Create, CreateAlreadyExists, Update, UpdateConflict, StoreHash
    <3>3. ASSUME NEW e \in CRs, \/ RequeueTimer(e) \/ Resync(e)
                                \/ ApiError(e) \/ ReadError(e) \/ LostReply(e)
          PROVE  gen' = gen
      BY <3>3 DEF RequeueTimer, Resync, ApiError, ReadError, LostReply
    <3>4. ASSUME \/ Crash \/ UNCHANGED vars \/ \E kind \in ObjectKinds : InformerSync(kind)
          PROVE  gen' = gen
      BY <3>4 DEF Crash, vars, InformerSync
    <3>5. gen' = gen
      BY <2>2, <3>1, <3>2, <3>3, <3>4 DEF Next
    <3>6. QED
      BY <1>2, <3>5
  <2>3. QED
    BY <2>1, <2>2
<1>4. pass[c] # Nil => pass[c].gen \in 1 .. gen[c]
  BY PassLemma
<1>5. pass'[c] # Nil => pass'[c].gen \in 1 .. gen'[c] /\ pass'[c].gen \in DOMAIN Script[c]
  BY <1>1, <1>2 DEF TypeOK, PassOK
<1>6. pass'[c] # Nil => pass'[c].gen \in {Limit(c), gen'[c]}
  BY MovesLemma DEF Moves, Ends, Idles, Stays, Starts, Advances, Limit
<1>7. QED
  BY <1>2, <1>3, <1>4, <1>5, <1>6 DEF Limit

(***************************************************************************)
(* What a pass writes is what its generation wants.                        *)
(***************************************************************************)
LEMMA ContentLemma ==
  ASSUME TypeOK, Exclusive, NEW c \in CRs, pass[c] # Nil, Stage(c) \in ObjectStages
  PROVE  /\ Plain(CurrentContent(c)) = Prescribed(c, pass[c].gen, CurrentKey(c))
         /\ CurrentKey(c) \in KeysOf(c)
         /\ CurrentContent(c) # Nil
         /\ pass[c].gen \in DOMAIN Script[c]
<1>1. pass[c].gen \in DOMAIN Script[c] /\ CursorOK(c, pass[c].gen, pass[c].at)
  BY PassLemma
<1>2. Meta[c].hbaseCfg # Meta[c].hadoopCfg
  BY DEF Exclusive
<1>3. Plain(CurrentContent(c)) = Prescribed(c, pass[c].gen, CurrentKey(c))
  BY <1>1, <1>2, PrescribedLemma DEF CurrentContent, CurrentKey, Stage
<1>4. CurrentKey(c) \in KeysOf(c)
  BY <1>1, KeyLemma DEF CurrentKey, Stage
<1>5. CurrentContent(c) # Nil
  BY PassLemma, NilAssumption
<1>6. QED
  BY <1>1, <1>3, <1>4, <1>5

(***************************************************************************)
(* Every step keeps track of every object.                                 *)
(***************************************************************************)
LEMMA TrackedNext ==
  ASSUME TypeOK, Exclusive, [Next]_vars, NEW c \in CRs, RestOK(c), NEW k \in KeysOf(c)
  PROVE  Tracked(c, k)'
<1> DEFINE h == hashStore[HashKey(k)]
           p == pass[c].gen
<1>1. Tracked(c, k)
  BY DEF RestOK
<1>2. /\ api[k] # Nil => api'[k] # Nil
      /\ api'[k] # Nil => (api[k] # Nil /\ api'[k].spec = api[k].spec) \/ WrittenBy(c, k)
  BY OwnObjectLemma
<1>3. h' \in {h, Nil} \/ Recorded(c, k)
  BY OwnHashLemma
<1>4. /\ Limit(c) \in Nat /\ Limit(c)' \in Nat /\ Limit(c) <= Limit(c)'
  BY LimitLemma
<1>5. ASSUME WrittenBy(c, k) \/ Recorded(c, k)
      PROVE  /\ Plain(CurrentContent(c)) = Prescribed(c, p, k)
             /\ p \in 1 .. Limit(c)' /\ Limit(c) = p /\ p \in Nat
  <2>1. pass[c] # Nil /\ Stage(c) \in ObjectStages /\ CurrentKey(c) = k
    BY <1>5 DEF WrittenBy, Recorded, InPhase, Running
  <2>2. p \in 1 .. gen[c] /\ Limit(c) = p /\ gen[c] \in Nat
    BY <2>1, PassLemma DEF Limit, TypeOK
  <2>3. QED
    BY <1>4, <2>1, <2>2, ContentLemma
<1>6. ASSUME Recorded(c, k)
      PROVE  /\ api[k] # Nil /\ api[k].spec = CurrentContent(c)
             /\ h' = CurrentContent(c)
  BY <1>6 DEF Recorded, RestOK, StoresWhatIsThere
<1>7. h' # Nil => api'[k] # Nil
  BY <1>1, <1>2, <1>3, <1>6 DEF Tracked
<1>8. ASSUME api'[k] # Nil
      PROVE  \E g \in 1 .. Limit(c)' :
               /\ Plain(api'[k].spec) = Prescribed(c, g, k)
               /\ h' # Nil => \E f \in 1 .. g : Plain(h') = Prescribed(c, f, k)
  <2>1. CASE Recorded(c, k)
    <3>1. api'[k].spec = CurrentContent(c)
      BY <1>2, <1>6, <1>8, <2>1 DEF WrittenBy
    <3>2. h' = CurrentContent(c) /\ p \in 1 .. p
      BY <1>5, <1>6, <2>1
    <3>3. QED
      BY <1>5, <2>1, <3>1, <3>2
  <2>2. CASE ~Recorded(c, k) /\ WrittenBy(c, k)
    <3>1. Plain(api'[k].spec) = Prescribed(c, p, k) /\ p \in 1 .. Limit(c)' /\ Limit(c) = p /\ p \in Nat
      BY <1>5, <2>2 DEF WrittenBy
    <3>2. ASSUME h' # Nil PROVE \E f \in 1 .. p : Plain(h') = Prescribed(c, f, k)
      <4>1. h' = h /\ h # Nil
        BY <1>3, <2>2, <3>2
      <4>2. PICK g \in 1 .. Limit(c) : \E f \in 1 .. g : Plain(h) = Prescribed(c, f, k)
        BY <1>1, <4>1 DEF Tracked
      <4>3. \A f \in 1 .. g : f \in 1 .. p
        BY <3>1
      <4>4. QED
        BY <4>1, <4>2, <4>3
    <3>3. QED
      BY <3>1, <3>2
  <2>3. CASE ~Recorded(c, k) /\ ~WrittenBy(c, k)
    <3>1. api[k] # Nil /\ api'[k].spec = api[k].spec /\ h' \in {h, Nil}
      BY <1>2, <1>3, <1>8, <2>3
    <3>2. PICK g \in 1 .. Limit(c) :
            /\ Plain(api[k].spec) = Prescribed(c, g, k)
            /\ h # Nil => \E f \in 1 .. g : Plain(h) = Prescribed(c, f, k)
      BY <1>1, <3>1 DEF Tracked
    <3>3. g \in 1 .. Limit(c)'
      BY <1>4
    <3>4. QED
      BY <3>1, <3>2, <3>3
  <2>4. QED
    BY <2>1, <2>2, <2>3
<1>9. QED
  BY <1>7, <1>8 DEF Tracked

(***************************************************************************)
(* A pass spoils nothing that holds what its generation wants, and without *)
(* a pass nothing changes.                                                 *)
(***************************************************************************)
KeptAfter(c, g, k) == api'[k] # Nil /\ Plain(api'[k].spec) = Prescribed(c, g, k)

LEMMA KeptNext ==
  ASSUME TypeOK, Exclusive, [Next]_vars, NEW c \in CRs, NEW k \in KeysOf(c), NEW g,
         Kept(c, g, k), pass[c] # Nil => pass[c].gen = g
  PROVE  KeptAfter(c, g, k)
<1>1. api'[k] # Nil /\ (api'[k].spec = api[k].spec \/ WrittenBy(c, k))
  BY OwnObjectLemma DEF Kept
<1>2. CASE WrittenBy(c, k)
  BY <1>1, <1>2, ContentLemma DEF WrittenBy, KeptAfter
<1>3. CASE api'[k].spec = api[k].spec
  BY <1>1, <1>3 DEF Kept, KeptAfter
<1>4. QED
  BY <1>1, <1>2, <1>3

(***************************************************************************)
(* The object of a stage that lets the pass go on holds what the pass      *)
(* wants: if its hash is that of the content wanted, the generation the    *)
(* object is from lies between two that want the same.                     *)
(***************************************************************************)
LEMMA VouchedLemma ==
  ASSUME TypeOK, Exclusive, NeverReverted, [Next]_vars, NEW c \in CRs, RestOK(c),
         pass[c] # Nil, Stage(c) \in ObjectStages, Vouched(c)
  PROVE  KeptAfter(c, pass[c].gen, CurrentKey(c))
<1> DEFINE k == CurrentKey(c)
           p == pass[c].gen
<1>1. /\ Plain(CurrentContent(c)) = Prescribed(c, p, k) /\ k \in KeysOf(c)
      /\ CurrentContent(c) # Nil /\ p \in DOMAIN Script[c]
  BY ContentLemma
<1> HIDE DEF k
<1>2. CASE HasWritten(c)
  <2>1. api'[k] # Nil /\ Plain(api'[k].spec) = Prescribed(c, p, k)
    BY <1>1, <1>2 DEF HasWritten, k
  <2>2. QED
    BY <2>1 DEF KeptAfter, k
<1>3. CASE api' = api /\ hashStore[HashKey(k)] = CurrentContent(c)
  <2>1. Tracked(c, k) /\ Limit(c) = p
    BY <1>1 DEF RestOK, Limit
  <2>2. api[k] # Nil
    BY <1>1, <1>3, <2>1 DEF Tracked
  <2>3. PICK g \in 1 .. p :
          /\ Plain(api[k].spec) = Prescribed(c, g, k)
          /\ \E f \in 1 .. g : Plain(CurrentContent(c)) = Prescribed(c, f, k)
    BY <1>1, <1>3, <2>1, <2>2 DEF Tracked
  <2>4. PICK f \in 1 .. g : Prescribed(c, p, k) = Prescribed(c, f, k)
    BY <1>1, <2>3
  <2>5. /\ f \in DOMAIN Script[c] /\ g \in DOMAIN Script[c] /\ f <= g /\ g <= p
    BY <1>1, LimitLemma
  <2>6. Prescribed(c, g, k) = Prescribed(c, p, k)
    BY <1>1, <2>4, <2>5 DEF NeverReverted
  <2>7. api'[k] # Nil /\ Plain(api'[k].spec) = Prescribed(c, p, k)
    BY <1>3, <2>2, <2>3, <2>6
  <2>8. QED
    BY <2>7 DEF KeptAfter, k
<1>4. QED
  BY <1>2, <1>3 DEF Vouched, k

(***************************************************************************)
(* Every step keeps the rest of the invariant.                             *)
(***************************************************************************)
LEMMA StoresNext ==
  ASSUME TypeOK, Exclusive, [Next]_vars, NEW c \in CRs, StoresWhatIsThere(c)
  PROVE  StoresWhatIsThere(c)'
<1> SUFFICES ASSUME InPhase(c, "store")'
             PROVE  (api[CurrentKey(c)] # Nil /\ api[CurrentKey(c)].spec = CurrentContent(c))'
  BY DEF StoresWhatIsThere
<1>1. pass'[c] # Nil /\ pass'[c].at.stage \in ObjectStages /\ pass'[c].phase = "store"
  BY DEF InPhase, Running, Stage
<1>2. Stays(c)
  BY <1>1, MovesLemma DEF Moves, Ends, Idles, Starts, Advances
<1>3. /\ pass[c] # Nil /\ Stage(c) \in ObjectStages
      /\ CurrentKey(c)' = CurrentKey(c)
      /\ pass'[c].ver = pass[c].ver => CurrentContent(c)' = CurrentContent(c)
  BY <1>1, <1>2 DEF Stays, Stage, CurrentKey, CurrentContent
<1>4. CASE pass'[c] = pass[c]
  <2>1. InPhase(c, "store")
    BY <1>1, <1>3, <1>4 DEF InPhase, Running
  <2>2. api[CurrentKey(c)] # Nil /\ api[CurrentKey(c)].spec = CurrentContent(c)
    BY <2>1 DEF StoresWhatIsThere
  <2>3. CurrentKey(c) \in KeysOf(c)
    BY <1>3, ContentLemma
  <2>4. api'[CurrentKey(c)] # Nil /\ api'[CurrentKey(c)].spec = CurrentContent(c)
    BY <2>2, <2>3, OwnObjectLemma DEF WrittenBy
  <2>5. QED
    BY <1>3, <1>4, <2>4
<1>5. CASE pass'[c].ver = pass[c].ver /\ HasWritten(c)
  BY <1>3, <1>5 DEF HasWritten
<1>6. QED
  BY <1>1, <1>2, <1>4, <1>5 DEF Stays

LEMMA EditsNext ==
  ASSUME TypeOK, [Next]_vars, NEW c \in CRs, RestOK(c)
  PROVE  EditsWait(c)'
<1> SUFFICES ASSUME pass'[c] # Nil, pass'[c].gen # gen'[c] PROVE c \in queued'
  BY DEF EditsWait
<1>1. Moves(c) /\ EditsWait(c)
  BY MovesLemma DEF RestOK
<1>2. QED
  BY <1>1 DEF Moves, Ends, Idles, Stays, Starts, Advances, StillDue, EditsWait

LEMMA BehindNext ==
  ASSUME TypeOK, Exclusive, NeverReverted, [Next]_vars, NEW c \in CRs, RestOK(c)
  PROVE  KeptBehind(c)'
<1> SUFFICES ASSUME pass'[c] # Nil, NEW b \in Cursor,
                    Listed(c, pass'[c].gen, b), Passed(c, pass'[c].at, b)
             PROVE  KeptAfter(c, pass'[c].gen, KeyAt(c, pass'[c].gen, b))
  BY DEF KeptBehind, Kept, KeptAfter
<1>1. Moves(c) /\ KeptBehind(c)
  BY MovesLemma DEF RestOK
<1>2. CASE Starts(c)
  <2>1. gen[c] \in DOMAIN Script[c]
    BY DEF TypeOK
  <2>2. QED
    BY <1>2, <2>1, NonePassed DEF Starts
<1>3. CASE Stays(c) \/ Advances(c)
  <2>1. pass[c] # Nil /\ pass'[c].gen = pass[c].gen
    BY <1>3 DEF Stays, Advances
  <2> DEFINE g == pass[c].gen
             k == KeyAt(c, g, b)
  <2>2. g \in DOMAIN Script[c] /\ CursorOK(c, g, pass[c].at) /\ Listed(c, g, b)
    BY <2>1, PassLemma
  <2>3. k \in KeysOf(c)
    BY <2>2, KeyLemma DEF Listed
  <2>4. ASSUME Passed(c, pass[c].at, b) PROVE KeptAfter(c, g, k)
    <3>1. Kept(c, g, k)
      BY <1>1, <2>1, <2>2, <2>4 DEF KeptBehind
    <3>2. QED
      BY <2>1, <2>3, <3>1, KeptNext
  <2>5. CASE Stays(c)
    BY <2>1, <2>4, <2>5 DEF Stays
  <2>6. CASE Advances(c)
    <3>1. pass'[c].at = After(c, g, pass[c].at) /\ Vouched(c)
      BY <2>6 DEF Advances
    <3>2. Passed(c, pass[c].at, b) \/ SamePlace(pass[c].at, b)
      BY <2>2, <3>1, PassedLemma
    <3>3. CASE SamePlace(pass[c].at, b)
      <4>1. Stage(c) \in ObjectStages /\ CurrentKey(c) = k
        BY <2>2, <3>3, SamePlaceLemma DEF Listed, Stage, CurrentKey
      <4>2. KeptAfter(c, g, CurrentKey(c))
        BY <2>1, <3>1, <4>1, VouchedLemma
      <4>3. QED
        BY <2>1, <4>1, <4>2
    <3>4. QED
      BY <2>1, <2>4, <3>2, <3>3
  <2>7. QED
    BY <1>3, <2>5, <2>6
<1>4. QED
  BY <1>1, <1>2, <1>3 DEF Moves, Ends, Idles

LEMMA RestsNext ==
  ASSUME TypeOK, Exclusive, NeverReverted, [Next]_vars, NEW c \in CRs, RestOK(c)
  PROVE  KeptAtRest(c)'
<1> SUFFICES ASSUME pass'[c] = Nil, c \notin queued', c \notin timer',
                    NEW b \in Cursor, Listed(c, gen'[c], b)
             PROVE  KeptAfter(c, gen'[c], KeyAt(c, gen'[c], b))
  BY DEF KeptAtRest, AllKept, Kept, KeptAfter, Pending, Running
<1>1. Moves(c) /\ KeptAtRest(c) /\ KeptBehind(c) /\ EditsWait(c)
  BY MovesLemma DEF RestOK
<1>2. gen[c] \in DOMAIN Script[c]
  BY DEF TypeOK
<1>3. CASE Idles(c)
  <2>1. gen'[c] = gen[c] /\ pass[c] = Nil /\ ~Pending(c)
    BY <1>3 DEF Idles, StillDue, Pending, Running
  <2>2. Kept(c, gen[c], KeyAt(c, gen[c], b)) /\ Listed(c, gen[c], b)
    BY <1>1, <2>1 DEF KeptAtRest, AllKept
  <2>3. KeyAt(c, gen[c], b) \in KeysOf(c)
    BY <1>2, <2>2, KeyLemma DEF Listed
  <2>4. KeptAfter(c, gen[c], KeyAt(c, gen[c], b))
    BY <2>1, <2>2, <2>3, KeptNext
  <2>5. QED
    BY <2>1, <2>4
<1>4. CASE Advances(c)
  <2>1. /\ pass[c] # Nil /\ gen'[c] = gen[c] /\ pass[c].gen = gen[c] /\ Vouched(c)
        /\ After(c, pass[c].gen, pass[c].at).stage = "done"
    BY <1>1, <1>4 DEF Advances, EditsWait
  <2> DEFINE g == pass[c].gen
             k == KeyAt(c, g, b)
  <2>2. g \in DOMAIN Script[c] /\ CursorOK(c, g, pass[c].at) /\ Listed(c, g, b)
    BY <2>1, PassLemma
  <2>3. k \in KeysOf(c)
    BY <2>2, KeyLemma DEF Listed
  <2>4. Passed(c, After(c, g, pass[c].at), b)
    BY <2>1 DEF Passed
  <2>5. Passed(c, pass[c].at, b) \/ SamePlace(pass[c].at, b)
    BY <2>2, <2>4, PassedLemma
  <2>6. CASE Passed(c, pass[c].at, b)
    <3>1. Kept(c, g, k)
      BY <1>1, <2>1, <2>2, <2>6 DEF KeptBehind
    <3>2. KeptAfter(c, g, k)
      BY <2>1, <2>3, <3>1, KeptNext
    <3>3. QED
      BY <2>1, <3>2
  <2>7. CASE SamePlace(pass[c].at, b)
    <3>1. Stage(c) \in ObjectStages /\ CurrentKey(c) = k
      BY <2>2, <2>7, SamePlaceLemma DEF Listed, Stage, CurrentKey
    <3>2. KeptAfter(c, g, CurrentKey(c))
      BY <2>1, <3>1, VouchedLemma
    <3>3. QED
      BY <2>1, <3>1, <3>2
  <2>8. QED
    BY <2>5, <2>6, <2>7
<1>5. QED
  BY <1>1, <1>3, <1>4 DEF Moves, Ends, Stays, Starts

(***************************************************************************)
(* Nothing is written and every CR is in the queue.                        *)
(***************************************************************************)
LEMMA RestInit == Init => RestInv
<1> SUFFICES ASSUME Init PROVE RestInv
  OBVIOUS
<1>1. TypeOK
  BY TypeInit
<1>2. ASSUME NEW c \in CRs PROVE RestOK(c)
  <2>1. pass[c] = Nil /\ c \in queued
    BY DEF Init
  <2>2. ASSUME NEW k \in KeysOf(c) PROVE Tracked(c, k)
    <3>1. k \in Keys /\ HashKey(k) \in HashKeys
      BY DEF Keys, HashKeys
    <3>2. QED
      BY <3>1 DEF Init, Tracked
  <2>3. QED
    BY <2>1, <2>2 DEF RestOK, StoresWhatIsThere, EditsWait, KeptBehind, KeptAtRest,
                      Pending, InPhase, Running
<1>3. QED
  BY <1>1, <1>2 DEF RestInv

(***************************************************************************)
(* The operator never rests too early: for CRs that share no hash keys and *)
(* whose edits are never taken back, whenever no pass of a CR is running   *)
(* or due, all its objects hold what its last spec asks for, whatever was  *)
(* lost, failed, conflicted or read stale on the way (reconcileService,    *)
(* reconcileConfigMap, reconcileStatefulSet and                            *)
(* reconcilePodDisruptionBudget skip a write when the hash is on record).  *)
(***************************************************************************)
THEOREM RestsWhenApplied ==
  ASSUME Exclusive, NeverReverted
  PROVE  Spec => []IdleMeansApplied
<1>1. RestInv /\ [Next]_vars => RestInv'
  <2> SUFFICES ASSUME RestInv, [Next]_vars PROVE RestInv'
    OBVIOUS
  <2>1. TypeOK /\ TypeOK'
    BY TypeNext DEF RestInv
  <2>2. ASSUME NEW c \in CRs PROVE RestOK(c)'
    <3>1. RestOK(c)
      BY DEF RestInv
    <3>2. \A k \in KeysOf(c) : Tracked(c, k)'
      BY <2>1, <3>1, TrackedNext
    <3>3. /\ StoresWhatIsThere(c)' /\ EditsWait(c)'
          /\ KeptBehind(c)' /\ KeptAtRest(c)'
      BY <2>1, <3>1, StoresNext, EditsNext, BehindNext, RestsNext DEF RestOK
    <3>4. QED
      BY <3>2, <3>3 DEF RestOK
  <2>3. QED
    BY <2>1, <2>2 DEF RestInv
<1>2. RestInv => IdleMeansApplied
  BY MatchesLemma DEF RestInv, RestOK, KeptAtRest, IdleMeansApplied
<1>3. QED
  BY <1>1, <1>2, RestInit, PTL DEF Spec

------------------------------------------------------------------------------
(***************************************************************************)
(* That a hash and its object part only for the time between an Update and *)
(* the StoreHash of the same pass, as long as no answer is lost.           *)
(***************************************************************************)
Storing(c, k) == InPhase(c, "store") /\ CurrentKey(c) = k

Faithful(c, k) ==
  LET h == hashStore[HashKey(k)]
  IN  h # Nil => api[k] # Nil /\ (api[k].spec = h \/ Storing(c, k))

FaithfulInv ==
  /\ TypeOK
  /\ \A c \in CRs : StoresWhatIsThere(c) /\ \A k \in KeysOf(c) : Faithful(c, k)

(***************************************************************************)
(* An object changes by an Update of its CR's pass, and a pass leaves its  *)
(* store phase by recording the hash or by a restart.                      *)
(***************************************************************************)
LEMMA UpdateStep ==
  ASSUME TypeOK, Exclusive, "lostReply" \notin Env, [Next]_vars,
         NEW c \in CRs, NEW k \in KeysOf(c), api[k] # Nil
  PROVE  \/ api'[k].spec = api[k].spec /\ (InPhase(c, "store") => pass'[c] = pass[c])
         \/ Update(c) /\ CurrentKey(c) = k
         \/ StoreHash(c)
         \/ Crash
<1> DEFINE Quiet == api'[k].spec = api[k].spec /\ (InPhase(c, "store") => pass'[c] = pass[c])
<1>1. k \in Keys
  BY DEF Keys
<1>2. ASSUME NEW e \in CRs, Running(e), Stage(e) \in ObjectStages, CurrentKey(e) = k
      PROVE  e = c
  <2>1. CurrentKey(e) \in KeysOf(e)
    BY <1>2, PassLemma, KeyLemma DEF Running, Stage, CurrentKey
  <2>2. QED
    BY <1>2, <2>1 DEF Exclusive
<1>3. ASSUME NEW e \in CRs, Update(e) PROVE Quiet \/ (Update(c) /\ CurrentKey(c) = k)
  <2>1. /\ Running(e) /\ Stage(e) \in ObjectStages /\ pass[e].phase = "update"
        /\ CurrentKey(e) \in Keys
    BY <1>3, PassLemma DEF Update, InPhase, Running
  <2>2. CASE CurrentKey(e) = k
    BY <1>2, <1>3, <2>1, <2>2
  <2>3. CASE CurrentKey(e) # k
    <3>1. api'[k] = api[k]
      BY <1>1, <1>3, <2>1, <2>3 DEF Update, CommitUpdate, TypeOK
    <3>2. InPhase(c, "store") => pass'[c] = pass[c]
      BY <1>3, <2>1 DEF Update, InPhase, TypeOK
    <3>3. QED
      BY <3>1, <3>2
  <2>4. QED
    BY <2>2, <2>3
<1>4. ASSUME NEW e \in CRs, Create(e) PROVE Quiet
  <2>1. /\ Running(e) /\ Stage(e) \in ObjectStages /\ pass[e].phase = "create"
        /\ CurrentKey(e) \in Keys /\ api[CurrentKey(e)] = Nil
    BY <1>4, PassLemma DEF Create, CommitCreate, InPhase, Running
  <2>2. api'[k] = api[k]
    BY <1>1, <1>4, <2>1 DEF Create, CommitCreate, TypeOK
  <2>3. \A d \in CRs \ {e} : pass'[d] = pass[d]
    BY <1>4 DEF Create, RequeueAfter, Continue, TypeOK
  <2>4. QED
    BY <2>1, <2>2, <2>3 DEF InPhase
<1>5. ASSUME NEW e \in CRs, \/ ValidateConfiguration(e) \/ GetConfigVersion(e) \/ ReadError(e)
      PROVE  Quiet
  <2>1. Stage(e) \notin ObjectStages /\ api' = api
    BY <1>5 DEF ValidateConfiguration, GetConfigVersion, ReadError, ObjectStages
  <2>2. \A d \in CRs \ {e} : pass'[d] = pass[d]
    BY <1>5 DEF ValidateConfiguration, GetConfigVersion, ReadError, Continue, Fail, TypeOK
  <2>3. QED
    BY <2>1, <2>2 DEF InPhase
<1>6. ASSUME NEW e \in CRs, \/ BuildError(e) \/ GetUnwatched(e) \/ GetMissing(e) \/ GetDiffers(e)
                            \/ GetNotReady(e) \/ GetCurrent(e) \/ ReadBootstrapDone(e)
                            \/ CreateAlreadyExists(e) \/ UpdateConflict(e) \/ ApiError(e)
      PROVE  Quiet
  <2>1. pass[e].phase # "store" /\ api' = api
    BY <1>6 DEF BuildError, GetUnwatched, GetMissing, GetDiffers, GetNotReady, GetCurrent,
         ReadBootstrapDone, CreateAlreadyExists, UpdateConflict, ApiError, Answered, InPhase
  <2>2. \A d \in CRs \ {e} : pass'[d] = pass[d]
    BY <1>6 DEF BuildError, GetUnwatched, GetMissing, GetDiffers, GetNotReady, GetCurrent,
         ReadBootstrapDone, CreateAlreadyExists, UpdateConflict, ApiError,
         RequeueAfter, Continue, Fail, TypeOK
  <2>3. QED
    BY <2>1, <2>2 DEF InPhase
<1>7. ASSUME NEW e \in CRs, StartReconcile(e) PROVE Quiet
  <2>1. pass[e] = Nil /\ api' = api /\ \A d \in CRs \ {e} : pass'[d] = pass[d]
    BY <1>7 DEF StartReconcile, Running, TypeOK
  <2>2. QED
    BY <2>1 DEF InPhase, Running
<1>8. ASSUME NEW e \in CRs, StoreHash(e) PROVE Quiet \/ StoreHash(c)
  <2>1. api' = api /\ \A d \in CRs \ {e} : pass'[d] = pass[d]
    BY <1>8 DEF StoreHash, RequeueAfter, TypeOK
  <2>2. QED
    BY <1>8, <2>1
<1>9. ASSUME NEW e \in CRs, RequeueTimer(e) \/ Resync(e) \/ UserEdit(e) PROVE Quiet
  BY <1>9 DEF RequeueTimer, Resync, UserEdit
<1>10. ASSUME \/ UNCHANGED vars \/ \E kind \in ObjectKinds : InformerSync(kind) PROVE Quiet
  BY <1>10 DEF vars, InformerSync
<1>11. ASSUME NEW j \in StsKeys, StatefulSetController(j) \/ PodFailure(j) PROVE Quiet
  <2>1. PICK status \in Status : SetStatus(j, status)
    BY <1>11, StatusStepLemma
  <2>2. j \in Keys /\ api[j] \in Object /\ pass' = pass
    BY <1>11, <2>1, StatusStepLemma DEF StsKeys, SetStatus, TypeOK
  <2>3. api'[k].spec = api[k].spec
    BY <1>1, <2>1, <2>2 DEF SetStatus, TypeOK, Object
  <2>4. QED
    BY <2>2, <2>3
<1>12. \A e \in CRs : ~LostReply(e)
  BY DEF LostReply, Fault
<1> HIDE DEF Quiet
<1>13. QED
  <2>1. Quiet \/ (Update(c) /\ CurrentKey(c) = k) \/ StoreHash(c) \/ Crash
    BY <1>3, <1>4, <1>5, <1>6, <1>7, <1>8, <1>9, <1>10, <1>11, <1>12 DEF Next, ReconcileStep
  <2>2. QED
    BY <2>1 DEF Quiet

(***************************************************************************)
(* Every step keeps hashes and objects together.                           *)
(***************************************************************************)
LEMMA FaithfulNext ==
  ASSUME FaithfulInv, Exclusive, "lostReply" \notin Env, [Next]_vars,
         NEW c \in CRs, NEW k \in KeysOf(c)
  PROVE  Faithful(c, k)'
<1> DEFINE h == hashStore[HashKey(k)]
<1>1. TypeOK /\ StoresWhatIsThere(c) /\ Faithful(c, k)
  BY DEF FaithfulInv
<1> SUFFICES ASSUME h' # Nil PROVE api'[k] # Nil /\ (api'[k].spec = h' \/ Storing(c, k)')
  BY DEF Faithful
<1>2. /\ api[k] # Nil => api'[k] # Nil
      /\ api'[k] # Nil => (api[k] # Nil /\ api'[k].spec = api[k].spec) \/ WrittenBy(c, k)
  BY <1>1, OwnObjectLemma
<1>3. CASE Recorded(c, k)
  <2>1. api[k] # Nil /\ api[k].spec = CurrentContent(c) /\ h' = CurrentContent(c)
    BY <1>1, <1>3 DEF Recorded, StoresWhatIsThere
  <2>2. QED
    BY <1>2, <2>1 DEF WrittenBy
<1>4. CASE ~Recorded(c, k)
  <2>1. h' = h /\ h # Nil
    BY <1>1, <1>4, OwnHashLemma
  <2>2. api[k] # Nil /\ api'[k] # Nil /\ (api[k].spec = h \/ Storing(c, k))
    BY <1>1, <1>2, <2>1 DEF Faithful
  <2>3. CASE api'[k].spec = api[k].spec /\ (InPhase(c, "store") => pass'[c] = pass[c])
    BY <2>1, <2>2, <2>3 DEF Storing, InPhase, Running, Stage, CurrentKey
  <2>4. CASE Update(c) /\ CurrentKey(c) = k
    <3>1. pass[c] # Nil /\ Stage(c) \in ObjectStages
      BY <2>4 DEF Update, InPhase, Running
    <3>2. pass[c] \in Pass
      BY <1>1, <3>1, PassLemma
    <3>3. pass'[c] = [pass[c] EXCEPT !.phase = "store"]
      BY <1>1, <2>4 DEF Update, TypeOK
    <3>4. pass'[c] \in Pass
      BY <3>2, <3>3 DEF Pass, Phases
    <3>5. /\ pass'[c] # Nil /\ pass'[c].phase = "store"
          /\ pass'[c].at = pass[c].at /\ pass'[c].gen = pass[c].gen
      BY <3>2, <3>3, <3>4, NilAssumption DEF Pass
    <3>6. Storing(c, k)'
      BY <2>4, <3>1, <3>5 DEF Storing, InPhase, Running, Stage, CurrentKey
    <3>7. QED
      BY <2>2, <3>6
  <2>5. CASE StoreHash(c)
    <3>1. /\ api' = api
          /\ hashStore' = [hashStore EXCEPT ![HashKey(CurrentKey(c))] = CurrentContent(c)]
      BY <2>5 DEF StoreHash
    <3>2. HashKey(k) \in HashKeys
      BY DEF HashKeys, Keys
    <3>3. ~Storing(c, k)
      BY <1>1, <1>4, <2>5, <3>1, <3>2 DEF Storing, Recorded, StoreHash, TypeOK
    <3>4. QED
      BY <2>1, <2>2, <3>1, <3>3
  <2>6. ~Crash
    <3>1. HashKey(k) \in HashKeys
      BY DEF HashKeys, Keys
    <3>2. QED
      BY <3>1 DEF Crash
  <2>7. QED
    BY <1>1, <2>2, <2>3, <2>4, <2>5, <2>6, UpdateStep
<1>5. QED
  BY <1>3, <1>4

(***************************************************************************)
(* No write is forgotten: for CRs that share no hash keys, and as long as  *)
(* no answer of the API server is lost, hashStore differs from what an     *)
(* object holds only while the pass that wrote it is about to record it    *)
(* (the Update and the assignment to hashStore that follows it in each     *)
(* reconcile function), whatever crashes, conflicts and errors come in     *)
(* between.                                                                *)
(***************************************************************************)
THEOREM NothingForgotten ==
  ASSUME Exclusive, "lostReply" \notin Env
  PROVE  Spec => []NoForgottenWrite
<1>1. Init => FaithfulInv
  <2> SUFFICES ASSUME Init PROVE FaithfulInv
    OBVIOUS
  <2>1. \A c \in CRs : pass[c] = Nil
    BY DEF Init
  <2>2. \A c \in CRs : \A k \in KeysOf(c) : hashStore[HashKey(k)] = Nil
    BY DEF Init, HashKeys, Keys
  <2>3. QED
    BY <2>1, <2>2, TypeInit DEF FaithfulInv, Faithful, StoresWhatIsThere, InPhase, Running
<1>2. FaithfulInv /\ [Next]_vars => FaithfulInv'
  <2> SUFFICES ASSUME FaithfulInv, [Next]_vars PROVE FaithfulInv'
    OBVIOUS
  <2>1. TypeOK /\ TypeOK' /\ \A c \in CRs : StoresWhatIsThere(c)
    BY TypeNext DEF FaithfulInv
  <2>2. \A c \in CRs : StoresWhatIsThere(c)'
    BY <2>1, StoresNext
  <2>3. \A c \in CRs : \A k \in KeysOf(c) : Faithful(c, k)'
    BY FaithfulNext
  <2>4. QED
    BY <2>1, <2>2, <2>3 DEF FaithfulInv
<1>3. FaithfulInv => NoForgottenWrite
  BY DEF FaithfulInv, Faithful, Storing, InPhase, NoForgottenWrite, OwnKeys, Pending
<1>4. QED
  BY <1>1, <1>2, <1>3, PTL DEF Spec

------------------------------------------------------------------------------
(***************************************************************************)
(* That pods restart only when an edit asks for it, where no pods follow   *)
(* the configuration: the label of a cluster or a tenant never asks for    *)
(* it, and a standalone has no such label.  Operator restarts are allowed; *)
(* for pods that do follow, they are what breaks the property.             *)
(***************************************************************************)
NoneFollows ==
  \A c \in CRs : Meta[c].kind # "standalone" =>
    \A g \in DOMAIN Script[c] : SpecAt(c, g).label # "true"

Template(c, d, g) == SpecAt(c, g).dep[d].tmpl

Asked(c, d, g) == {h \in 2 .. g : AsksRestart(c, d, h)}

(***************************************************************************)
(* Clusters and tenants: no pass and no StatefulSet carries a version.     *)
(* The cache matters: the version of a pass is read back from the          *)
(* Datanode's StatefulSet.  Standalones: a pass has a version only before  *)
(* there is a StatefulSet, since it has just created the ConfigMap.        *)
(***************************************************************************)
NoStamp(c) ==
  /\ pass[c] # Nil => pass[c].ver = 0
  /\ \A d \in DepNames(c) :
       /\ api[StsKey(c, d)] # Nil => api[StsKey(c, d)].spec.ver = 0
       /\ cache[StsKey(c, d)] # Nil => cache[StsKey(c, d)].spec.ver = 0

FirstStampOnly(c) ==
  pass[c] # Nil =>
    /\ Stage(c) # "version"
    /\ pass[c].ver # 0 => \A d \in DepNames(c) : api[StsKey(c, d)] = Nil

StampOK(c) == IF Meta[c].kind = "standalone" THEN FirstStampOnly(c) ELSE NoStamp(c)

(***************************************************************************)
(* Between two generations with different templates an edit asks for a     *)
(* restart.  It is about the script alone, and is shown edit by edit.      *)
(***************************************************************************)
Traced(c, d) ==
  \A a, b \in 1 .. gen[c] :
    a <= b /\ Template(c, d, a) # Template(c, d, b) =>
      \E h \in (a + 1) .. b : AsksRestart(c, d, h)

(***************************************************************************)
(* A StatefulSet has the template of a generation it was taken to, and the *)
(* edits up to that one account for its restarts, except for the one that  *)
(* removes the stamp of a standalone.                                      *)
(***************************************************************************)
Unstamped(c, k) == IF Meta[c].kind = "standalone" /\ api[k].spec.ver = 0 THEN 1 ELSE 0

Paid(c, d) ==
  LET k == StsKey(c, d)
  IN  /\ api[k] = Nil => restarts[k] = 0
      /\ api[k] # Nil =>
           \E a \in 1 .. applied[k] :
             /\ api[k].spec.data = <<Template(c, d, a)>>
             /\ restarts[k] <= Cardinality(Asked(c, d, a)) + Unstamped(c, k)

RestartInv ==
  /\ PassInv /\ RolloutInv
  /\ \A c \in CRs : StampOK(c) /\ \A d \in DepNames(c) : Traced(c, d) /\ Paid(c, d)

(***************************************************************************)
(* More edits ask for no fewer restarts.                                   *)
(***************************************************************************)
LEMMA AskedLemma ==
  ASSUME NEW c, NEW d, NEW a \in Nat, NEW b \in Nat, a <= b
  PROVE  /\ IsFiniteSet(Asked(c, d, a)) /\ IsFiniteSet(Asked(c, d, b))
         /\ Cardinality(Asked(c, d, a)) \in Nat /\ Cardinality(Asked(c, d, b)) \in Nat
         /\ Cardinality(Asked(c, d, a)) <= Cardinality(Asked(c, d, b))
         /\ a >= 1 /\ (\E h \in (a + 1) .. b : AsksRestart(c, d, h))
              => Cardinality(Asked(c, d, a)) + 1 <= Cardinality(Asked(c, d, b))
<1>1. \A g \in Nat : IsFiniteSet(Asked(c, d, g))
  <2> TAKE g \in Nat
  <2>1. IsFiniteSet(2 .. g)
    BY FS_Interval
  <2>2. Asked(c, d, g) \subseteq 2 .. g
    BY DEF Asked
  <2>3. QED
    BY <2>1, <2>2, FS_Subset
<1>2. Asked(c, d, a) \subseteq Asked(c, d, b)
  BY DEF Asked
<1>3. /\ Cardinality(Asked(c, d, a)) \in Nat /\ Cardinality(Asked(c, d, b)) \in Nat
      /\ Cardinality(Asked(c, d, a)) <= Cardinality(Asked(c, d, b))
  BY <1>1, <1>2, FS_CardinalityType, FS_Subset
<1>4. ASSUME a >= 1, NEW h \in (a + 1) .. b, AsksRestart(c, d, h)
      PROVE  Cardinality(Asked(c, d, a)) + 1 <= Cardinality(Asked(c, d, b))
  <2>1. h \in Asked(c, d, b) /\ h \notin Asked(c, d, a)
    BY <1>4 DEF Asked
  <2>2. Cardinality(Asked(c, d, a)) # Cardinality(Asked(c, d, b))
    BY <1>1, <1>2, <2>1, FS_Subset
  <2>3. QED
    BY <1>3, <2>2
<1>5. QED
  BY <1>1, <1>3, <1>4

(***************************************************************************)
(* What a step does to a StatefulSet and the count of its restarts:        *)
(* nothing, or a pass at it creates it and ends, or updates it, and the    *)
(* restart is counted exactly if the pod template changes.                 *)
(***************************************************************************)
Written(c, k) ==
  /\ pass[c] # Nil /\ Stage(c) = "ss" /\ CurrentKey(c) = k
  /\ api'[k] # Nil /\ api'[k].spec = CurrentContent(c)
  /\ applied'[k] = pass[c].gen
  /\ api[k] = Nil => restarts'[k] = restarts[k] /\ pass'[c] = Nil
  /\ api[k] # Nil => \/ restarts'[k] = restarts[k]
                     \/ /\ restarts'[k] = restarts[k] + 1
                        /\ RevisionOf(api'[k]) # RevisionOf(api[k])

Untouched(k) ==
  /\ restarts'[k] = restarts[k]
  /\ (api'[k] = Nil) <=> (api[k] = Nil)
  /\ api[k] # Nil => api'[k].spec = api[k].spec

RestartStep(k) == Untouched(k) \/ \E c \in CRs : Written(c, k)

(***************************************************************************)
(* A Create or an Update the API server carries out.                       *)
(***************************************************************************)
LEMMA CommitRestartStep ==
  ASSUME TypeOK, NEW c \in CRs, NEW k \in StsKeys,
         \/ /\ InPhase(c, "create") /\ CommitCreate(c) /\ restarts' = restarts
            /\ Stage(c) = "ss" => pass'[c] = Nil
         \/ InPhase(c, "update") /\ CommitUpdate(c)
  PROVE  RestartStep(k)
<1> DEFINE l == CurrentKey(c)
<1>1. /\ pass[c] # Nil /\ Stage(c) \in ObjectStages
      /\ l \in Keys /\ CurrentContent(c) \in Content
      /\ (l.kind = "ss") <=> (Stage(c) = "ss")
      /\ pass[c].v2 \in BOOLEAN
  BY PassLemma DEF InPhase, Running, Pass
<1>2. k \in Keys /\ k.kind = "ss"
  BY DEF StsKeys
<1>3. ASSUME l # k PROVE RestartStep(k)
  <2>1. api'[k] = api[k]
    BY <1>1, <1>2, <1>3 DEF CommitCreate, CommitUpdate, TypeOK
  <2>2. restarts'[k] = restarts[k]
    BY <1>3 DEF CommitUpdate, TypeOK
  <2>3. QED
    BY <2>1, <2>2 DEF RestartStep, Untouched
<1>4. ASSUME l = k PROVE RestartStep(k)
  <2>1. applied'[k] = pass[c].gen
    BY <1>2, <1>4 DEF CommitCreate, CommitUpdate, MarkApplied, TypeOK
  <2>2. CASE /\ InPhase(c, "create") /\ CommitCreate(c) /\ restarts' = restarts
             /\ Stage(c) = "ss" => pass'[c] = Nil
    <3>1. api[k] = Nil /\ api'[k] = NewObject(CurrentContent(c))
      BY <1>2, <1>4, <2>2 DEF CommitCreate, TypeOK
    <3>2. api'[k] # Nil /\ api'[k].spec = CurrentContent(c)
      BY <1>1, <3>1, ObjectLemma, NilAssumption DEF NewObject
    <3>3. Written(c, k)
      BY <1>1, <1>2, <1>4, <2>1, <2>2, <3>1, <3>2 DEF Written
    <3>4. QED
      BY <3>3 DEF RestartStep
  <2>3. CASE InPhase(c, "update") /\ CommitUpdate(c)
    <3> DEFINE o == Updated(api[k], CurrentContent(c), pass[c].v2)
    <3>1. /\ api[k] # Nil /\ api'[k] = o
          /\ restarts' = IF RevisionOf(o) # RevisionOf(api[k])
                         THEN [restarts EXCEPT ![k] = @ + 1] ELSE restarts
      BY <1>2, <1>4, <2>3 DEF CommitUpdate, TypeOK
    <3>2. api[k] \in Object
      BY <1>2, <3>1 DEF TypeOK
    <3>3. o \in Object /\ o.spec = CurrentContent(c)
      <4>1. o \in Object
        BY <1>1, <3>2, ObjectLemma
      <4>2. o.spec = CurrentContent(c)
        BY <3>2 DEF Updated, Object
      <4>3. QED
        BY <4>1, <4>2
    <3> HIDE DEF o
    <3>4. \/ restarts'[k] = restarts[k]
          \/ restarts'[k] = restarts[k] + 1 /\ RevisionOf(api'[k]) # RevisionOf(api[k])
      BY <3>1 DEF TypeOK
    <3>5. Written(c, k)
      BY <1>1, <1>2, <1>4, <2>1, <3>1, <3>3, <3>4, NilAssumption DEF Written
    <3>6. QED
      BY <3>5 DEF RestartStep
  <2>4. QED
    BY <2>2, <2>3
<1>5. QED
  BY <1>3, <1>4

(***************************************************************************)
(* Every step is such a step for every StatefulSet.                        *)
(***************************************************************************)
LEMMA RestartStepLemma ==
  ASSUME TypeOK, [Next]_vars, NEW k \in StsKeys
  PROVE  RestartStep(k)
<1>1. ASSUME UNCHANGED <<api, restarts>> PROVE RestartStep(k)
  BY <1>1 DEF RestartStep, Untouched
<1>2. ASSUME NEW c \in CRs, Create(c) \/ Update(c) \/ LostReply(c) PROVE RestartStep(k)
  <2>1. Create(c) /\ Stage(c) = "ss" => pass'[c] = Nil
    BY DEF Create, RequeueAfter, TypeOK
  <2>2. LostReply(c) => pass'[c] = Nil
    BY DEF LostReply, Fail, TypeOK
  <2>3. QED
    BY <1>2, <2>1, <2>2, CommitRestartStep DEF Create, Update, LostReply
<1>3. ASSUME NEW j \in StsKeys, StatefulSetController(j) \/ PodFailure(j) PROVE RestartStep(k)
  <2>1. PICK status \in Status : SetStatus(j, status)
    BY <1>3, StatusStepLemma
  <2>2. j \in Keys /\ k \in Keys /\ api[j] # Nil /\ api[j] \in Object
    BY <1>3, StatusStepLemma DEF StsKeys, TypeOK
  <2>3. /\ [api[j] EXCEPT !.status = status] \in Object
        /\ [api[j] EXCEPT !.status = status].spec = api[j].spec
    BY <2>2 DEF Object
  <2>4. /\ (api'[k] = Nil) <=> (api[k] = Nil)
        /\ api[k] # Nil => api'[k].spec = api[k].spec
    BY <2>1, <2>2, <2>3, NilAssumption DEF SetStatus, TypeOK
  <2>5. restarts' = restarts
    BY <2>1 DEF SetStatus
  <2>6. QED
    BY <2>4, <2>5 DEF RestartStep, Untouched
<1>4. ASSUME NEW c \in CRs,
             \/ StartReconcile(c) \/ ValidateConfiguration(c) \/ GetConfigVersion(c)
             \/ BuildError(c) \/ GetUnwatched(c) \/ GetMissing(c) \/ GetDiffers(c)
             \/ GetNotReady(c) \/ GetCurrent(c) \/ ReadBootstrapDone(c)
             \/ CreateAlreadyExists(c) \/ UpdateConflict(c) \/ StoreHash(c)
             \/ RequeueTimer(c) \/ Resync(c) \/ UserEdit(c) \/ ApiError(c) \/ ReadError(c)
      PROVE  RestartStep(k)
  BY <1>1, <1>4 DEF StartReconcile, ValidateConfiguration, GetConfigVersion, BuildError,
       GetUnwatched, GetMissing, GetDiffers, GetNotReady, GetCurrent, ReadBootstrapDone,
       CreateAlreadyExists, UpdateConflict, StoreHash, RequeueTimer, Resync, UserEdit,
       ApiError, ReadError, history
<1>5. CASE Crash \/ UNCHANGED vars \/ \E kind \in ObjectKinds : InformerSync(kind)
  BY <1>1, <1>5 DEF Crash, vars, InformerSync, history
<1>6. QED
  BY <1>2, <1>3, <1>4, <1>5 DEF Next, ReconcileStep

(***************************************************************************)
(* The version a pass has after a step: none, the one it had, the one it   *)
(* chose, or the one its Create of a ConfigMap returned.                   *)
(***************************************************************************)
VersionStep(c) ==
  \/ pass'[c].ver = 0
  \/ pass[c] # Nil /\ pass'[c].ver = pass[c].ver
  \/ pass[c] # Nil /\ Stage(c) = "version" /\ pass'[c].ver = ConfigVersion(c)
  \/ Create(c) /\ Meta[c].kind = "standalone" /\ Stage(c) = "hadoopcfg"

(***************************************************************************)
(* Every step gives every pass its version so.                             *)
(***************************************************************************)
LEMMA VersionStepLemma ==
  ASSUME TypeOK, [Next]_vars, NEW c \in CRs, pass'[c] # Nil
  PROVE  VersionStep(c)
<1>1. ASSUME NEW e \in CRs, pass[e] # Nil, NEW v, Continue(e, v)
      PROVE  pass'[c] = pass[c] \/ (c = e /\ pass'[c].ver = v)
  <2>1. pass[e] \in Pass
    BY <1>1, PassLemma
  <2>2. QED
    BY <1>1, <2>1 DEF Continue, TypeOK, Pass
<1>2. ASSUME pass'[c] = pass[c] PROVE VersionStep(c)
  BY <1>2 DEF VersionStep
<1>3. ASSUME NEW e \in CRs, RequeueAfter(e) \/ Fail(e) PROVE VersionStep(c)
  BY <1>2, <1>3 DEF RequeueAfter, Fail, TypeOK
<1>4. ASSUME NEW e \in CRs, StartReconcile(e) PROVE VersionStep(c)
  <2>1. (c = e /\ pass'[c].ver = 0) \/ pass'[c] = pass[c]
    BY <1>4 DEF StartReconcile, TypeOK
  <2>2. QED
    BY <1>2, <2>1 DEF VersionStep
<1>5. ASSUME NEW e \in CRs, GetMissing(e) \/ GetDiffers(e) \/ ReadBootstrapDone(e) \/ Update(e)
      PROVE  VersionStep(c)
  <2>1. pass[e] # Nil /\ pass[e] \in Pass
    BY <1>5, PassLemma DEF GetMissing, GetDiffers, ReadBootstrapDone, Update, Answered,
         InPhase, Running
  <2>2. pass'[c] = pass[c] \/ (c = e /\ pass'[c].ver = pass[c].ver)
    BY <1>5, <2>1 DEF GetMissing, GetDiffers, ReadBootstrapDone, Update, TypeOK, Pass
  <2>3. QED
    BY <1>2, <2>1, <2>2 DEF VersionStep
<1>6. ASSUME NEW e \in CRs, ValidateConfiguration(e) \/ GetCurrent(e) PROVE VersionStep(c)
  <2>1. pass[e] # Nil /\ (Continue(e, pass[e].ver) \/ Fail(e))
    BY <1>6 DEF ValidateConfiguration, GetCurrent, Answered, InPhase, Running
  <2>2. CASE Fail(e)
    BY <1>3, <2>2
  <2>3. CASE Continue(e, pass[e].ver)
    <3>1. pass'[c] = pass[c] \/ (c = e /\ pass'[c].ver = pass[e].ver)
      BY <1>1, <2>1, <2>3
    <3>2. QED
      BY <1>2, <2>1, <3>1 DEF VersionStep
  <2>4. QED
    BY <2>1, <2>2, <2>3
<1>7. ASSUME NEW e \in CRs, GetConfigVersion(e) \/ ReadError(e) PROVE VersionStep(c)
  <2>1. /\ pass[e] # Nil /\ Stage(e) = "version"
        /\ Continue(e, ConfigVersion(e)) \/ Continue(e, 0)
    BY <1>7 DEF GetConfigVersion, ReadError, Running
  <2>2. pass'[c] = pass[c] \/ (c = e /\ pass'[c].ver \in {ConfigVersion(e), 0})
    BY <1>1, <2>1
  <2>3. QED
    BY <1>2, <2>1, <2>2 DEF VersionStep
<1>8. ASSUME NEW e \in CRs, Create(e) PROVE VersionStep(c)
  <2>1. pass[e] # Nil /\ (Continue(e, VersionAfterCreate(e)) \/ RequeueAfter(e))
    BY <1>8 DEF Create, InPhase, Running
  <2>2. CASE RequeueAfter(e)
    BY <1>3, <2>2
  <2>3. CASE Continue(e, VersionAfterCreate(e))
    <3>1. pass'[c] = pass[c] \/ (c = e /\ pass'[c].ver = VersionAfterCreate(e))
      BY <1>1, <2>1, <2>3
    <3>2. QED
      BY <1>2, <1>8, <2>1, <3>1 DEF VersionStep, VersionAfterCreate
  <2>4. QED
    BY <2>1, <2>2, <2>3
<1>9. ASSUME NEW e \in CRs, \/ BuildError(e) \/ GetUnwatched(e) \/ GetNotReady(e)
                            \/ CreateAlreadyExists(e) \/ UpdateConflict(e) \/ StoreHash(e)
                            \/ ApiError(e) \/ LostReply(e)
      PROVE  VersionStep(c)
  BY <1>3, <1>9 DEF BuildError, GetUnwatched, GetNotReady, CreateAlreadyExists,
       UpdateConflict, StoreHash, ApiError, LostReply
<1>10. ASSUME NEW e \in CRs, RequeueTimer(e) \/ Resync(e) \/ UserEdit(e) PROVE VersionStep(c)
  BY <1>2, <1>10 DEF RequeueTimer, Resync, UserEdit
<1>11. ASSUME NEW j \in StsKeys, StatefulSetController(j) \/ PodFailure(j) PROVE VersionStep(c)
  <2>1. PICK status \in Status : SetStatus(j, status)
    BY <1>11, StatusStepLemma
  <2>2. QED
    BY <1>2, <2>1 DEF SetStatus
<1>12. CASE UNCHANGED vars \/ \E kind \in ObjectKinds : InformerSync(kind)
  BY <1>2, <1>12 DEF vars, InformerSync
<1>13. CASE Crash
  BY <1>13 DEF Crash
<1>14. QED
  BY <1>4, <1>5, <1>6, <1>7, <1>8, <1>9, <1>10, <1>11, <1>12, <1>13 DEF Next, ReconcileStep

(***************************************************************************)
(* A StatefulSet is written by a pass of its own CR.                       *)
(***************************************************************************)
LEMMA WriterLemma ==
  ASSUME TypeOK, [Next]_vars, NEW c \in CRs, NEW d \in DepNames(c)
  PROVE  Untouched(StsKey(c, d)) \/ Written(c, StsKey(c, d))
<1>1. StsKey(c, d) \in StsKeys
  BY StsKeyLemma
<1>2. ASSUME NEW e \in CRs, Written(e, StsKey(c, d)) PROVE e = c
  BY <1>2, CurrentStsLemma, StsKeyInjective DEF Written
<1>3. QED
  BY <1>1, <1>2, RestartStepLemma DEF RestartStep

(***************************************************************************)
(* Clusters and tenants stay without stamps.                               *)
(***************************************************************************)
LEMMA NoStampNext ==
  ASSUME TypeOK, NoneFollows, [Next]_vars, NEW c \in CRs, Meta[c].kind # "standalone", NoStamp(c)
  PROVE  NoStamp(c)'
<1>1. ASSUME pass[c] # Nil PROVE ConfigVersion(c) = 0
  <2>1. SpecAt(c, pass[c].gen).label # "true"
    BY <1>1, PassLemma DEF NoneFollows
  <2>2. Meta[c].datanode \in DepNames(c)
    BY MetaAssumption DEF MetaOK
  <2>3. ExistingAnnotation(c) = 0
    BY <2>2 DEF ExistingAnnotation, View, NoStamp
  <2>4. QED
    BY <2>1, <2>3 DEF ConfigVersion
<1>2. pass'[c] # Nil => pass'[c].ver = 0
  BY <1>1, VersionStepLemma DEF VersionStep, NoStamp
<1>3. ASSUME NEW d \in DepNames(c), api'[StsKey(c, d)] # Nil PROVE api'[StsKey(c, d)].spec.ver = 0
  <2>1. CASE Untouched(StsKey(c, d))
    BY <1>3, <2>1 DEF Untouched, NoStamp
  <2>2. CASE Written(c, StsKey(c, d))
    BY <2>2 DEF Written, CurrentContent, Desired, BuildStatefulSet, Stage, NoStamp
  <2>3. QED
    BY <2>1, <2>2, WriterLemma
<1>4. ASSUME NEW d \in DepNames(c), cache'[StsKey(c, d)] # Nil PROVE cache'[StsKey(c, d)].spec.ver = 0
  <2>1. cache'[StsKey(c, d)] \in {cache[StsKey(c, d)], api[StsKey(c, d)], Nil}
    BY CacheStepLemma, StsKeyLemma
  <2>2. QED
    BY <1>4, <2>1 DEF NoStamp
<1>5. QED
  BY <1>2, <1>3, <1>4 DEF NoStamp

(***************************************************************************)
(* The standalone's Reconcile has no stage that looks for a version.       *)
(***************************************************************************)
LEMMA StandaloneStages ==
  ASSUME NEW c \in CRs, Meta[c].kind = "standalone", NEW g \in DOMAIN Script[c]
  PROVE  /\ Start(c, g).stage # "version"
         /\ \A a : CursorOK(c, g, a) => After(c, g, a).stage # "version"
<1>1. Start(c, g).stage # "version"
  BY DEF Start, At
<1>2. ASSUME NEW a, CursorOK(c, g, a) PROVE After(c, g, a).stage # "version"
  <2>1. \A i \in 1 .. Len(Deployments(c, g)) : EnterDeployment(c, g, i).stage # "version"
    BY DEF EnterDeployment, At
  <2>2. Len(Deployments(c, g)) \in Nat \ {0} /\ a.dep \in Nat
    BY <1>2, DeploymentsLemma DEF CursorOK, Cursor
  <2>3. EnterDeployment(c, g, 1).stage # "version"
    BY <2>1, <2>2
  <2>4. a.stage \in {"podsvc", "ss", "pdb"} => NextDeployment(c, g, a.dep).stage # "version"
    <3>1. CASE a.dep < Len(Deployments(c, g))
      <4>1. a.dep + 1 \in 1 .. Len(Deployments(c, g))
        BY <2>2, <3>1
      <4>2. QED
        BY <2>1, <3>1, <4>1 DEF NextDeployment
    <3>2. CASE ~(a.dep < Len(Deployments(c, g)))
      BY <3>2 DEF NextDeployment, At
    <3>3. QED
      BY <3>1, <3>2
  <2>5. CASE a.stage \in {"svc", "validate", "hbasecfg"}
    BY <2>5 DEF After, AfterService, At
  <2>6. CASE a.stage = "hadoopcfg"
    BY <2>3, <2>6 DEF After, AfterHadoopConfig, AfterConfigs, At
  <2>7. CASE a.stage = "version"
    BY <2>3, <2>7 DEF After, AfterVersion
  <2>8. CASE a.stage = "podsvc"
    BY <2>8 DEF After, AfterPodService, At
  <2>9. CASE a.stage = "ss"
    BY <2>4, <2>9 DEF After, AfterStatefulSet, At
  <2>10. CASE a.stage = "pdb"
    BY <2>4, <2>10 DEF After
  <2>11. a.stage \in Stages /\ a.stage # "done"
    BY <1>2 DEF CursorOK, Cursor
  <2>12. QED
    BY <2>5, <2>6, <2>7, <2>8, <2>9, <2>10, <2>11 DEF Stages, ObjectStages
<1>3. QED
  BY <1>1, <1>2

(***************************************************************************)
(* A standalone's pass has a version only until it creates a StatefulSet:  *)
(* if its ConfigMap was not there, no StatefulSet was.                     *)
(***************************************************************************)
LEMMA FirstStampNext ==
  ASSUME PassInv, [Next]_vars, NEW c \in CRs, Meta[c].kind = "standalone", FirstStampOnly(c)
  PROVE  FirstStampOnly(c)'
<1>1. TypeOK /\ TypeOK' /\ CachedExists /\ DependenciesFirst
  BY TypeNext DEF PassInv
<1> SUFFICES ASSUME pass'[c] # Nil
             PROVE  /\ pass'[c].at.stage # "version"
                    /\ pass'[c].ver # 0 => \A d \in DepNames(c) : api'[StsKey(c, d)] = Nil
  BY DEF FirstStampOnly, Stage
<1>2. pass'[c].at.stage # "version"
  <2>1. PassMove(c)
    BY <1>1, PassMoveLemma
  <2>2. CASE pass[c] = Nil
    <3>1. pass'[c].at = Start(c, gen[c]) /\ gen[c] \in DOMAIN Script[c]
      BY <1>1, <2>1, <2>2 DEF PassMove, TypeOK
    <3>2. QED
      BY <3>1, StandaloneStages
  <2>3. CASE pass[c] # Nil
    <3>1. pass[c].gen \in DOMAIN Script[c] /\ CursorOK(c, pass[c].gen, pass[c].at)
      BY <1>1, <2>3, PassLemma
    <3>2. pass'[c].at = pass[c].at \/ pass'[c].at = After(c, pass[c].gen, pass[c].at)
      BY <2>1, <2>3 DEF PassMove
    <3>3. pass[c].at.stage # "version"
      BY <2>3 DEF FirstStampOnly, Stage
    <3>4. QED
      BY <3>1, <3>2, <3>3, StandaloneStages
  <2>4. QED
    BY <2>2, <2>3
<1>3. ASSUME pass'[c].ver # 0, NEW d \in DepNames(c) PROVE api'[StsKey(c, d)] = Nil
  <2> DEFINE k == StsKey(c, d)
  <2>1. \/ pass[c] # Nil /\ pass'[c].ver = pass[c].ver
        \/ Create(c) /\ Stage(c) = "hadoopcfg"
    BY <1>1, <1>3, VersionStepLemma DEF VersionStep, FirstStampOnly
  <2>2. api[k] = Nil
    <3>1. CASE pass[c] # Nil /\ pass'[c].ver = pass[c].ver
      BY <1>3, <3>1 DEF FirstStampOnly
    <3>2. CASE Create(c) /\ Stage(c) = "hadoopcfg"
      <4>1. pass[c] # Nil /\ api[CurrentKey(c)] = Nil
        BY <3>2 DEF Create, CommitCreate, InPhase, Running
      <4>2. /\ pass[c].gen \in DOMAIN Script[c]
            /\ pass[c].at.sub \in 1 .. Len(ConfigNamespaces(c, pass[c].gen))
        BY <1>1, <3>2, <4>1, PassLemma DEF CursorOK, Stage
      <4>3. SpecAt(c, pass[c].gen).tns = <<>>
        BY <4>2, MetaAssumption DEF MetaOK, SpecAt
      <4>4. ConfigNamespaces(c, pass[c].gen) = <<Meta[c].ns>>
        BY <4>3 DEF ConfigNamespaces
      <4>5. pass[c].at.sub = 1
        BY <4>2, <4>4
      <4>6. CurrentKey(c) = Key("cfg", Meta[c].hadoopCfg, 0, Meta[c].ns)
        BY <3>2, <4>4, <4>5 DEF CurrentKey, KeyAt, Stage
      <4>7. QED
        BY <1>1, <4>1, <4>6 DEF DependenciesFirst
    <3>3. QED
      BY <2>1, <3>1, <3>2
  <2>3. Untouched(k) \/ Written(c, k)
    BY <1>1, WriterLemma
  <2>4. ~Written(c, k)
    BY <2>2 DEF Written
  <2>5. QED
    BY <2>2, <2>3, <2>4 DEF Untouched
<1>4. QED
  BY <1>2, <1>3

(***************************************************************************)
(* An edit that brings another template asks for a restart itself.         *)
(***************************************************************************)
LEMMA TracedNext ==
  ASSUME TypeOK, CachedExists, [Next]_vars, NEW c \in CRs, NEW d \in DepNames(c), Traced(c, d)
  PROVE  Traced(c, d)'
<1>1. gen[c] \in Nat
  BY DEF TypeOK
<1>2. gen'[c] = gen[c] \/ gen'[c] = gen[c] + 1
  <2>1. gen' = gen \/ \E e \in CRs : gen' = [gen EXCEPT ![e] = @ + 1]
    BY RolloutStepLemma DEF RolloutStep, Marks, Edits, Reports, Unseen
  <2>2. QED
    BY <2>1 DEF TypeOK
<1> SUFFICES ASSUME NEW a \in 1 .. gen'[c], NEW b \in 1 .. gen'[c],
                    a <= b, Template(c, d, a) # Template(c, d, b)
             PROVE  \E h \in (a + 1) .. b : AsksRestart(c, d, h)
  BY DEF Traced
<1>3. CASE b <= gen[c]
  BY <1>1, <1>2, <1>3 DEF Traced
<1>4. CASE b > gen[c]
  <2>1. b = gen[c] + 1 /\ a \in 1 .. gen[c] /\ b - 1 = gen[c]
    BY <1>1, <1>2, <1>4
  <2>2. CASE Template(c, d, gen[c]) = Template(c, d, b)
    <3>1. PICK h \in (a + 1) .. gen[c] : AsksRestart(c, d, h)
      BY <1>1, <2>1, <2>2 DEF Traced
    <3>2. h \in (a + 1) .. b
      BY <1>1, <2>1
    <3>3. QED
      BY <3>1, <3>2
  <2>3. CASE Template(c, d, gen[c]) # Template(c, d, b)
    <3>1. AsksRestart(c, d, b)
      BY <2>1, <2>3 DEF AsksRestart, Template
    <3>2. b \in (a + 1) .. b
      BY <1>1, <2>1
    <3>3. QED
      BY <3>1, <3>2
  <2>4. QED
    BY <2>2, <2>3
<1>5. QED
  BY <1>1, <1>2, <1>3, <1>4

(***************************************************************************)
(* A write takes a StatefulSet to a later generation or leaves it at its   *)
(* own; if that changes the template, an edit in between asked for it, and *)
(* if not, it takes away the stamp.                                        *)
(***************************************************************************)
LEMMA PaidNext ==
  ASSUME RestartInv, NoneFollows, [Next]_vars, NEW c \in CRs, NEW d \in DepNames(c)
  PROVE  Paid(c, d)'
<1> DEFINE k == StsKey(c, d)
<1>1. TypeOK /\ TypeOK' /\ CachedExists /\ StampOK(c) /\ Traced(c, d) /\ Paid(c, d)
  BY TypeNext DEF RestartInv, RolloutInv, BringUpInv
<1>2. /\ k \in StsKeys /\ k \in Keys
      /\ applied[k] \in Nat /\ applied'[k] \in Nat /\ restarts[k] \in Nat /\ restarts'[k] \in Nat
  BY <1>1, StsKeyLemma DEF TypeOK
<1>3. pass[c] # Nil => /\ applied[k] <= pass[c].gen /\ pass[c].gen \in 1 .. gen[c]
                       /\ gen[c] \in Nat
  BY <1>1, PassLemma DEF RestartInv, RolloutInv, AppliedBound, TypeOK
<1>4. applied[k] <= applied'[k]
  <2>1. \/ applied'[k] = applied[k]
        \/ Marks(c) /\ applied'[k] = pass[c].gen
    BY <1>1, AppliedStepLemma
  <2>2. Marks(c) => pass[c] # Nil
    BY DEF Marks
  <2>3. QED
    BY <1>2, <1>3, <2>1, <2>2
<1>5. CASE Untouched(k)
  <2>1. CASE api[k] = Nil
    BY <1>1, <1>5, <2>1 DEF Untouched, Paid
  <2>2. CASE api[k] # Nil
    <3>1. PICK a \in 1 .. applied[k] :
                 /\ api[k].spec.data = <<Template(c, d, a)>>
                 /\ restarts[k] <= Cardinality(Asked(c, d, a)) + Unstamped(c, k)
      BY <1>1, <2>2 DEF Paid
    <3>2. a \in 1 .. applied'[k]
      BY <1>2, <1>4
    <3>3. Unstamped(c, k)' = Unstamped(c, k)
      BY <1>5, <2>2 DEF Untouched, Unstamped
    <3>4. QED
      BY <1>5, <2>2, <3>1, <3>2, <3>3 DEF Untouched, Paid
  <2>3. QED
    BY <2>1, <2>2
<1>6. CASE Written(c, k)
  <2> DEFINE g == pass[c].gen
  <2>1. /\ pass[c] # Nil /\ Stage(c) = "ss" /\ CurrentKey(c) = k
        /\ g \in 1 .. gen[c] /\ gen[c] \in Nat /\ g \in Nat /\ applied[k] <= g
        /\ api'[k] # Nil /\ api'[k].spec = CurrentContent(c) /\ applied'[k] = g
    BY <1>3, <1>6 DEF Written
  <2>2. Deployments(c, g)[pass[c].at.dep] = d
    BY <1>1, <2>1, CurrentStsLemma, StsKeyInjective
  <2>3. api'[k].spec.data = <<Template(c, d, g)>> /\ api'[k].spec.ver = pass[c].ver
    BY <2>1, <2>2 DEF CurrentContent, Desired, BuildStatefulSet, BuildPodTemplate, Dep, Template, Stage
  <2>4. g \in 1 .. applied'[k]
    BY <2>1
  <2>5. Unstamped(c, k) \in {0, 1} /\ Unstamped(c, k)' \in {0, 1}
    BY DEF Unstamped
  <2>6. restarts'[k] <= Cardinality(Asked(c, d, g)) + Unstamped(c, k)'
    <3>1. CASE api[k] = Nil
      <4>1. restarts'[k] = 0
        BY <1>1, <1>6, <3>1 DEF Written, Paid
      <4>2. Cardinality(Asked(c, d, g)) \in Nat
        BY <2>1, AskedLemma
      <4>3. QED
        BY <2>5, <4>1, <4>2
    <3>2. CASE api[k] # Nil
      <4>1. PICK a \in 1 .. applied[k] :
                   /\ api[k].spec.data = <<Template(c, d, a)>>
                   /\ restarts[k] <= Cardinality(Asked(c, d, a)) + Unstamped(c, k)
        BY <1>1, <3>2 DEF Paid
      <4>2. a \in Nat /\ a >= 1 /\ a <= g /\ a \in 1 .. gen[c]
        BY <1>2, <2>1, <4>1
      <4>3. /\ Cardinality(Asked(c, d, a)) \in Nat /\ Cardinality(Asked(c, d, g)) \in Nat
            /\ Cardinality(Asked(c, d, a)) <= Cardinality(Asked(c, d, g))
            /\ (\E h \in (a + 1) .. g : AsksRestart(c, d, h))
                 => Cardinality(Asked(c, d, a)) + 1 <= Cardinality(Asked(c, d, g))
        BY <2>1, <4>2, AskedLemma
      <4>4. /\ pass[c].ver = 0
            /\ Meta[c].kind # "standalone" => api[k].spec.ver = 0
        BY <1>1, <2>1, <3>2 DEF StampOK, NoStamp, FirstStampOnly
      <4>5. Unstamped(c, k)' = IF Meta[c].kind = "standalone" THEN 1 ELSE 0
        BY <2>3, <4>4 DEF Unstamped
      <4>6. Unstamped(c, k) <= Unstamped(c, k)'
        BY <4>5 DEF Unstamped
      <4>7. CASE restarts'[k] = restarts[k]
        BY <1>2, <2>5, <4>1, <4>3, <4>6, <4>7
      <4>8. CASE /\ restarts'[k] = restarts[k] + 1
                 /\ RevisionOf(api'[k]) # RevisionOf(api[k])
        <5>1. CASE api[k].spec.ver = 0
          <6>1. Template(c, d, a) # Template(c, d, g)
            BY <2>3, <4>1, <4>4, <4>8, <5>1 DEF RevisionOf
          <6>2. \E h \in (a + 1) .. g : AsksRestart(c, d, h)
            BY <1>1, <2>1, <4>2, <6>1 DEF Traced
          <6>3. QED
            BY <1>2, <2>5, <4>1, <4>3, <4>6, <4>8, <6>2
        <5>2. CASE api[k].spec.ver # 0
          <6>1. Unstamped(c, k) = 0 /\ Unstamped(c, k)' = 1
            BY <4>4, <4>5, <5>2 DEF Unstamped
          <6>2. QED
            BY <1>2, <4>1, <4>3, <4>8, <6>1
        <5>3. QED
          BY <5>1, <5>2
      <4>9. QED
        BY <1>6, <3>2, <4>7, <4>8 DEF Written
    <3>3. QED
      BY <3>1, <3>2
  <2>7. QED
    BY <2>1, <2>3, <2>4, <2>6 DEF Paid
<1>7. QED
  BY <1>1, <1>5, <1>6, WriterLemma

(***************************************************************************)
(* Pods restart for a reason: for any CRs whose pods do not follow the     *)
(* configuration, the pod template of a StatefulSet changes no more often  *)
(* than edits ask for it, plus once for a standalone, whatever passes are  *)
(* retried, read stale or cut short, and however often the operator        *)
(* restarts with an empty hashStore and writes everything again            *)
(* (reconcileStatefulSet).                                                 *)
(***************************************************************************)
THEOREM RestartsCorrect ==
  ASSUME NoneFollows, IsFiniteSet(CRs)
  PROVE  Spec => []RestartsAccountedFor
<1>1. Init => RestartInv
  <2> SUFFICES ASSUME Init PROVE RestartInv
    OBVIOUS
  <2>1. \A c \in CRs : StampOK(c)
    BY StsKeyLemma DEF Init, StampOK, NoStamp, FirstStampOnly
  <2>2. ASSUME NEW c \in CRs, NEW d \in DepNames(c) PROVE Traced(c, d) /\ Paid(c, d)
    <3>1. gen[c] = 1 /\ api[StsKey(c, d)] = Nil /\ restarts[StsKey(c, d)] = 0
      BY StsKeyLemma DEF Init
    <3>2. Traced(c, d)
      BY <3>1 DEF Traced
    <3>3. QED
      BY <3>1, <3>2 DEF Paid
  <2>3. QED
    BY <2>1, <2>2, PassInvInit, RolloutInvInit DEF RestartInv
<1>2. RestartInv /\ [Next]_vars => RestartInv'
  <2> SUFFICES ASSUME RestartInv, [Next]_vars PROVE RestartInv'
    OBVIOUS
  <2>1. TypeOK /\ CachedExists /\ PassInv
    BY DEF RestartInv, PassInv
  <2>2. PassInv' /\ RolloutInv'
    BY PassInvNext, RolloutInvNext DEF RestartInv
  <2>3. \A c \in CRs : StampOK(c)'
    BY <2>1, NoStampNext, FirstStampNext DEF RestartInv, StampOK
  <2>4. \A c \in CRs : \A d \in DepNames(c) : Traced(c, d)' /\ Paid(c, d)'
    BY <2>1, TracedNext, PaidNext DEF RestartInv
  <2>5. QED
    BY <2>2, <2>3, <2>4 DEF RestartInv
<1>3. RestartInv => RestartsAccountedFor
  <2> SUFFICES ASSUME RestartInv, NEW c \in CRs, NEW d \in DepNames(c)
               PROVE  restarts[StsKey(c, d)] <=
                        Cardinality(Asked(c, d, gen[c]))
                          + (IF Meta[c].kind = "standalone" THEN 1 ELSE Cardinality(Sharers(c)))
    BY DEF RestartsAccountedFor, Asked
  <2> DEFINE k == StsKey(c, d)
             extra == IF Meta[c].kind = "standalone" THEN 1 ELSE Cardinality(Sharers(c))
  <2>1. /\ TypeOK /\ Paid(c, d)
        /\ k \in StsKeys /\ gen[c] \in Nat /\ restarts[k] \in Nat /\ applied[k] \in Nat
        /\ applied[k] <= gen[c]
    BY StsKeyLemma DEF RestartInv, RolloutInv, BringUpInv, AppliedBound, TypeOK
  <2>2. Cardinality(Sharers(c)) \in Nat
    <3>1. Sharers(c) \subseteq CRs
      BY DEF Sharers
    <3>2. QED
      BY <3>1, FS_Subset, FS_CardinalityType
  <2>3. extra \in Nat /\ Unstamped(c, k) \in Nat /\ Unstamped(c, k) <= extra
    BY <2>2 DEF Unstamped
  <2>4. Cardinality(Asked(c, d, gen[c])) \in Nat
    BY <2>1, AskedLemma
  <2> HIDE DEF extra
  <2>5. CASE api[k] = Nil
    <3>1. restarts[k] = 0
      BY <2>1, <2>5 DEF Paid
    <3>2. restarts[k] <= Cardinality(Asked(c, d, gen[c])) + extra
      BY <2>3, <2>4, <3>1
    <3>3. QED
      BY <3>2 DEF extra
  <2>6. CASE api[k] # Nil
    <3>1. PICK a \in 1 .. applied[k] :
                 restarts[k] <= Cardinality(Asked(c, d, a)) + Unstamped(c, k)
      BY <2>1, <2>6 DEF Paid
    <3>2. a \in Nat /\ a <= gen[c]
      BY <2>1
    <3>3. /\ Cardinality(Asked(c, d, a)) \in Nat
          /\ Cardinality(Asked(c, d, a)) <= Cardinality(Asked(c, d, gen[c]))
      BY <2>1, <3>2, AskedLemma
    <3>4. restarts[k] <= Cardinality(Asked(c, d, gen[c])) + extra
      BY <2>1, <2>3, <2>4, <3>1, <3>3
    <3>5. QED
      BY <3>4 DEF extra
  <2>7. QED
    BY <2>5, <2>6
<1>4. QED
  BY <1>1, <1>2, <1>3, PTL DEF Spec
==============================================================================
