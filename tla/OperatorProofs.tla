---------------------------- MODULE OperatorProofs ----------------------------
(***************************************************************************)
(* Proofs about module Operator, for every set of custom resources, every  *)
(* edit script, every choice of lagging informers and allowed faults.      *)
(***************************************************************************)
EXTENDS OperatorProperties, ResourcesProofs

------------------------------------------------------------------------------
(***************************************************************************)
(* Type correctness.                                                       *)
(***************************************************************************)

(***************************************************************************)
(* What TypeOK says of a running pass: its generation is one of the        *)
(* script, its cursor is valid, and in an object stage its key and content *)
(* are well-formed.                                                        *)
(***************************************************************************)
LEMMA PassLemma ==
  ASSUME TypeOK, NEW c \in CRs, pass[c] # Nil
  PROVE  /\ pass[c] \in Pass
         /\ pass[c].gen \in 1 .. gen[c]
         /\ pass[c].gen \in DOMAIN Script[c]
         /\ CursorOK(c, pass[c].gen, pass[c].at)
         /\ Stage(c) \in Stages
         /\ Stage(c) \in ObjectStages =>
              /\ CurrentKey(c) \in Keys
              /\ HashKey(CurrentKey(c)) \in HashKeys
              /\ CurrentContent(c) \in Content
              /\ (CurrentKey(c).kind = "ss") <=> (Stage(c) = "ss")
              /\ CurrentKey(c).kind = "ss" => CurrentKey(c) \in StsKeys
<1>1. /\ pass[c] \in Pass
      /\ pass[c].gen \in 1 .. gen[c]
      /\ CursorOK(c, pass[c].gen, pass[c].at)
  BY DEF TypeOK, PassOK
<1>2. pass[c].gen \in DOMAIN Script[c]
  <2>1. Script[c] \in Seq(CRSpec(c)) /\ gen[c] \in DOMAIN Script[c]
    BY MetaAssumption DEF MetaOK, TypeOK
  <2>2. QED
    BY <2>1, <1>1
<1>3. Stage(c) \in Stages
  BY <1>1 DEF Stage, CursorOK, Cursor
<1>4. pass[c].ver \in Nat
  BY <1>1 DEF Pass
<1>5. ASSUME Stage(c) \in ObjectStages
      PROVE  /\ CurrentKey(c) \in Keys
             /\ HashKey(CurrentKey(c)) \in HashKeys
             /\ CurrentContent(c) \in Content
             /\ (CurrentKey(c).kind = "ss") <=> (Stage(c) = "ss")
             /\ CurrentKey(c).kind = "ss" => CurrentKey(c) \in StsKeys
  BY <1>1, <1>2, <1>4, <1>5, KeyLemma, DesiredLemma
     DEF CurrentKey, CurrentContent, Stage
<1>6. QED
  BY <1>1, <1>2, <1>3, <1>5

PassesOK == pass \in [CRs -> Pass \cup {Nil}] /\ \A c \in CRs : PassOK(c)
QueuesOK == queued \subseteq CRs /\ timer \subseteq CRs

(***************************************************************************)
(* Going on to the next stage keeps the passes well-formed.                *)
(***************************************************************************)
LEMMA ContinueLemma ==
  ASSUME TypeOK, NEW c \in CRs, pass[c] # Nil, NEW ver \in Nat,
         Continue(c, ver), gen' = gen
  PROVE  PassesOK' /\ QueuesOK'
<1> DEFINE g == pass[c].gen
           next == After(c, g, pass[c].at)
<1>1. /\ pass[c] \in Pass
      /\ g \in 1 .. gen[c] /\ g \in DOMAIN Script[c]
      /\ CursorOK(c, g, pass[c].at)
  BY PassLemma
<1>2. QueuesOK'
  BY DEF TypeOK, QueuesOK, Continue
<1>3. CASE next.stage = "done"
  <2>1. pass' = [pass EXCEPT ![c] = Nil]
    BY <1>3 DEF Continue
  <2>2. QED
    BY <2>1, <1>2 DEF TypeOK, PassesOK, PassOK
<1>4. CASE next.stage # "done"
  <2>1. CursorOK(c, g, next)
    BY <1>1, <1>4, AfterLemma
  <2>2. next \in Cursor
    BY <2>1 DEF CursorOK
  <2> DEFINE p == [pass[c] EXCEPT !.at = next, !.phase = "get", !.ver = ver]
  <2>3. pass' = [pass EXCEPT ![c] = p]
    BY <1>4 DEF Continue
  <2>4. p \in Pass /\ p.gen = g /\ p.at = next
    BY <1>1, <2>2 DEF Pass, Phases
  <2> HIDE DEF p, next
  <2>5. \A d \in CRs : PassOK(d)'
    <3> TAKE d \in CRs
    <3>1. CASE d = c
      BY <3>1, <2>1, <2>3, <2>4, <1>1 DEF TypeOK, PassOK
    <3>2. CASE d # c
      BY <3>2, <2>3 DEF TypeOK, PassOK
    <3>3. QED
      BY <3>1, <3>2
  <2>6. QED
    BY <2>3, <2>4, <2>5, <1>2 DEF TypeOK, PassesOK
<1>5. QED
  BY <1>3, <1>4

(***************************************************************************)
(* Ending a pass keeps the passes and the queues well-formed.              *)
(***************************************************************************)
LEMMA EndLemma ==
  ASSUME TypeOK, NEW c \in CRs, RequeueAfter(c) \/ Fail(c), gen' = gen
  PROVE  PassesOK' /\ QueuesOK'
<1>1. pass' = [pass EXCEPT ![c] = Nil]
  BY DEF RequeueAfter, Fail
<1>2. QueuesOK'
  BY DEF TypeOK, QueuesOK, RequeueAfter, Fail
<1>3. QED
  BY <1>1, <1>2 DEF TypeOK, PassesOK, PassOK

(***************************************************************************)
(* A new object and an updated one are well-formed.                        *)
(***************************************************************************)
LEMMA ObjectLemma ==
  ASSUME NEW content \in Content
  PROVE  /\ NewObject(content) \in Object
         /\ \A o \in Object, v2 \in BOOLEAN : Updated(o, content, v2) \in Object
<1>1. NewObject(content) \in Object
  BY DEF NewObject, NoStatus, Object, Status
<1>2. ASSUME NEW o \in Object, NEW v2 \in BOOLEAN
      PROVE  Updated(o, content, v2) \in Object
  <2>1. o.rv + 1 \in Nat
    BY DEF Object
  <2>2. [o EXCEPT !.spec = content, !.v2 = v2, !.rv = @ + 1] \in Object
    BY <2>1 DEF Object
  <2>3. QED
    BY <2>2 DEF Updated
<1>3. QED
  BY <1>1, <1>2

(***************************************************************************)
(* Writing a StatefulSet, or accepting it, leaves a generation in applied. *)
(***************************************************************************)
LEMMA AppliedLemma ==
  ASSUME TypeOK, NEW c \in CRs, pass[c] # Nil, NEW k, MarkApplied(c, k)
  PROVE  applied' \in [StsKeys -> Nat]
<1>1. pass[c].gen \in Nat
  BY PassLemma DEF Pass
<1>2. QED
  BY <1>1 DEF TypeOK, MarkApplied

(***************************************************************************)
(* A Create the API server carries out keeps the objects well-formed.      *)
(***************************************************************************)
LEMMA CommitCreateLemma ==
  ASSUME TypeOK, NEW c \in CRs, InPhase(c, "create"), CommitCreate(c)
  PROVE  /\ api' \in [Keys -> Object \cup {Nil}]
         /\ readySeen' \in [StsKeys -> SUBSET Nat]
         /\ applied' \in [StsKeys -> Nat]
<1>1. /\ CurrentKey(c) \in Keys
      /\ CurrentContent(c) \in Content
      /\ CurrentKey(c).kind = "ss" => CurrentKey(c) \in StsKeys
      /\ pass[c] # Nil
  BY PassLemma DEF InPhase, Running
<1>2. NewObject(CurrentContent(c)) \in Object
  BY <1>1, ObjectLemma
<1>3. api' \in [Keys -> Object \cup {Nil}]
  BY <1>1, <1>2 DEF CommitCreate, TypeOK
<1>4. readySeen' \in [StsKeys -> SUBSET Nat]
  BY <1>1 DEF CommitCreate, TypeOK
<1>5. applied' \in [StsKeys -> Nat]
  BY <1>1, AppliedLemma DEF CommitCreate
<1>6. QED
  BY <1>3, <1>4, <1>5

(***************************************************************************)
(* So does an Update.                                                      *)
(***************************************************************************)
LEMMA CommitUpdateLemma ==
  ASSUME TypeOK, NEW c \in CRs, InPhase(c, "update"), CommitUpdate(c)
  PROVE  /\ api' \in [Keys -> Object \cup {Nil}]
         /\ restarts' \in [StsKeys -> Nat]
         /\ applied' \in [StsKeys -> Nat]
<1> DEFINE o == Updated(api[CurrentKey(c)], CurrentContent(c), pass[c].v2)
<1>1. /\ CurrentKey(c) \in Keys
      /\ CurrentContent(c) \in Content
      /\ CurrentKey(c).kind = "ss" => CurrentKey(c) \in StsKeys
      /\ pass[c] # Nil
      /\ pass[c].v2 \in BOOLEAN
  BY PassLemma DEF InPhase, Running, Pass
<1>2. api[CurrentKey(c)] \in Object
  BY <1>1 DEF CommitUpdate, TypeOK
<1>3. o \in Object
  BY <1>1, <1>2, ObjectLemma
<1>4. api' = [api EXCEPT ![CurrentKey(c)] = o]
  BY DEF CommitUpdate
<1>5. api' \in [Keys -> Object \cup {Nil}]
  BY <1>1, <1>3, <1>4 DEF TypeOK
<1>6. restarts' \in [StsKeys -> Nat]
  BY <1>1 DEF CommitUpdate, TypeOK
<1>7. applied' \in [StsKeys -> Nat]
  BY <1>1, AppliedLemma DEF CommitUpdate
<1>8. QED
  BY <1>5, <1>6, <1>7

(***************************************************************************)
(* A status the StatefulSet controller writes keeps the types.             *)
(***************************************************************************)
LEMMA StatusLemma ==
  ASSUME TypeOK, NEW k \in StsKeys, api[k] # Nil, NEW status \in Status,
         SetStatus(k, status), faults' \in 0 .. MaxFaults
  PROVE  TypeOK'
<1>1. k \in Keys
  BY DEF StsKeys
<1>2. api[k] \in Object
  BY <1>1 DEF TypeOK
<1>3. [api[k] EXCEPT !.status = status] \in Object
  BY <1>2 DEF Object
<1>4. api' \in [Keys -> Object \cup {Nil}]
  BY <1>1, <1>3 DEF SetStatus, TypeOK
<1>5. readySeen' \in [StsKeys -> SUBSET Nat]
  BY DEF SetStatus, TypeOK, Status
<1>6. QED
  BY <1>4, <1>5 DEF SetStatus, TypeOK, PassOK

(***************************************************************************)
(* The StatefulSet controller and failing pods only ever write a           *)
(* well-formed status of an existing StatefulSet.                          *)
(***************************************************************************)
LEMMA StatusStepLemma ==
  ASSUME TypeOK, NEW k \in StsKeys, StatefulSetController(k) \/ PodFailure(k)
  PROVE  /\ api[k] # Nil
         /\ faults' \in 0 .. MaxFaults
         /\ \E s \in Status : SetStatus(k, s)
<1> DEFINE st == api[k].status
<1>1. /\ api[k] # Nil
      /\ faults' \in 0 .. MaxFaults
  BY OperatorAssumption DEF StatefulSetController, StsObserve, StsPodReady, StsPodRemoved,
       StsReplacePod, StsRolloutDone, PodFailure, Observed, Fault, TypeOK
<1>2. api[k] \in Object
  BY <1>1 DEF TypeOK, StsKeys
<1>3. /\ st \in Status
      /\ api[k].spec.size \in Nat
      /\ RevisionOf(api[k]) \in Revision
  BY <1>2 DEF Object, Content, RevisionOf, Revision
<1>4. \E s \in Status : SetStatus(k, s)
  <2>1. CASE StsObserve(k)
    <3> DEFINE s == [st EXCEPT !.update = RevisionOf(api[k]), !.replaced = 0,
                               !.current = IF @ = Nil THEN RevisionOf(api[k]) ELSE @]
    <3>1. s \in Status
      BY <1>3 DEF Status
    <3>2. SetStatus(k, s)
      BY <2>1 DEF StsObserve
    <3>3. QED
      BY <3>1, <3>2
  <2>2. CASE StsPodReady(k)
    <3>1. [st EXCEPT !.ready = @ + 1] \in Status
      BY <1>3 DEF Status
    <3>2. QED
      BY <3>1, <2>2 DEF StsPodReady
  <2>3. CASE StsPodRemoved(k)
    <3>1. [st EXCEPT !.ready = @ - 1] \in Status
      BY <1>3, <2>3 DEF Status, StsPodRemoved
    <3>2. QED
      BY <3>1, <2>3 DEF StsPodRemoved
  <2>4. CASE StsReplacePod(k)
    <3>1. st.ready = api[k].spec.size /\ st.replaced < api[k].spec.size
      BY <2>4 DEF StsReplacePod
    <3>2. st.ready - 1 \in Nat /\ st.replaced + 1 \in Nat
      BY <1>3, <3>1 DEF Status
    <3>3. [st EXCEPT !.ready = @ - 1, !.replaced = @ + 1] \in Status
      BY <1>3, <3>2 DEF Status
    <3>4. QED
      BY <3>3, <2>4 DEF StsReplacePod
  <2>5. CASE StsRolloutDone(k)
    <3>1. [st EXCEPT !.current = st.update, !.replaced = 0] \in Status
      BY <1>3 DEF Status
    <3>2. QED
      BY <3>1, <2>5 DEF StsRolloutDone
  <2>6. CASE PodFailure(k)
    <3>1. [st EXCEPT !.ready = @ - 1] \in Status
      BY <1>3, <2>6 DEF Status, PodFailure
    <3>2. QED
      BY <3>1, <2>6 DEF PodFailure
  <2>7. QED
    BY <2>1, <2>2, <2>3, <2>4, <2>5, <2>6 DEF StatefulSetController
<1>5. QED
  BY <1>1, <1>4

(***************************************************************************)
(* So they keep the types.                                                 *)
(***************************************************************************)
LEMMA StatefulSetTypeOK ==
  ASSUME TypeOK, NEW k \in StsKeys, StatefulSetController(k) \/ PodFailure(k)
  PROVE  TypeOK'
  BY StatusStepLemma, StatusLemma

(***************************************************************************)
(* What a Get returns is an object or nothing.                             *)
(***************************************************************************)
LEMMA ViewLemma ==
  ASSUME TypeOK, NEW k \in Keys
  PROVE  View(k) \in Object \cup {Nil}
  BY DEF TypeOK, View

(***************************************************************************)
(* The config version a pass goes on with is a number.                     *)
(***************************************************************************)
LEMMA VersionLemma ==
  ASSUME TypeOK, NEW c \in CRs, pass[c] # Nil
  PROVE  ConfigVersion(c) \in Nat /\ pass[c].ver \in Nat /\ VersionAfterCreate(c) \in Nat
<1> DEFINE k == Key("cfg", Meta[c].hbaseCfg, 0, Meta[c].ns)
           s == StsKey(c, Meta[c].datanode)
<1>1. k \in Keys
  <2>1. pass[c].gen \in DOMAIN Script[c]
    BY PassLemma
  <2>2. Meta[c].ns \in UNION {Range(ConfigNamespaces(c, g)) : g \in DOMAIN Script[c]}
    BY <2>1, NamespacesLemma
  <2>3. k \in KeysOf(c)
    BY <2>2 DEF KeysOf
  <2>4. QED
    BY <2>3 DEF Keys
<1>2. s \in Keys
  BY MetaAssumption, StsKeyLemma DEF MetaOK
<1>3. CfgResourceVersionIfV2(c) \in Nat
  BY <1>1, ViewLemma DEF CfgResourceVersionIfV2, Object
<1>4. ExistingAnnotation(c) \in Nat
  BY <1>2, ViewLemma DEF ExistingAnnotation, Object, Content
<1>5. pass[c].ver \in Nat
  BY PassLemma DEF Pass
<1>6. QED
  BY <1>3, <1>4, <1>5 DEF ConfigVersion, VersionAfterCreate

(***************************************************************************)
(* Moving a pass to another phase of its stage keeps it well-formed.       *)
(***************************************************************************)
LEMMA PhaseLemma ==
  ASSUME TypeOK, NEW c \in CRs, pass[c] # Nil, NEW p \in Pass,
         p.gen = pass[c].gen, p.at = pass[c].at,
         pass' = [pass EXCEPT ![c] = p], UNCHANGED <<gen, queued, timer>>
  PROVE  PassesOK' /\ QueuesOK'
<1>1. \A d \in CRs : PassOK(d)'
  <2> TAKE d \in CRs
  <2>1. CASE d = c
    BY <2>1 DEF TypeOK, PassOK
  <2>2. CASE d # c
    BY <2>2 DEF TypeOK, PassOK
  <2>3. QED
    BY <2>1, <2>2
<1>2. QED
  BY <1>1 DEF TypeOK, PassesOK, QueuesOK

(***************************************************************************)
(* Every step of a Reconcile call keeps the types.                         *)
(***************************************************************************)
LEMMA ReconcileTypeOK ==
  ASSUME TypeOK, NEW c \in CRs, StartReconcile(c) \/ ReconcileStep(c)
  PROVE  TypeOK'
<1>1. CASE StartReconcile(c)
  <2> DEFINE p == [gen |-> gen[c], at |-> Start(c, gen[c]),
                   phase |-> "get", ver |-> 0, v2 |-> FALSE, rv |-> 0]
  <2>1. /\ gen[c] \in DOMAIN Script[c] /\ gen[c] \in Nat
        /\ Script[c] \in Seq(CRSpec(c))
    BY MetaAssumption DEF MetaOK, TypeOK
  <2>2. gen[c] \in 1 .. gen[c]
    BY <2>1
  <2>3. CursorOK(c, gen[c], Start(c, gen[c]))
    BY <2>1, StartLemma
  <2>4. p \in Pass
    BY <2>1, <2>3 DEF Pass, Phases, CursorOK
  <2>5. pass' = [pass EXCEPT ![c] = p]
    BY <1>1 DEF StartReconcile
  <2>6. p.gen = gen[c] /\ p.at = Start(c, gen[c])
    OBVIOUS
  <2>7. gen' = gen
    BY <1>1 DEF StartReconcile
  <2> HIDE DEF p
  <2>8. \A d \in CRs : PassOK(d)'
    <3> TAKE d \in CRs
    <3>1. CASE d = c
      BY <3>1, <2>2, <2>3, <2>5, <2>6, <2>7 DEF TypeOK, PassOK
    <3>2. CASE d # c
      BY <3>2, <2>5, <2>7 DEF TypeOK, PassOK
    <3>3. QED
      BY <3>1, <3>2
  <2>9. pass' \in [CRs -> Pass \cup {Nil}]
    BY <2>4, <2>5 DEF TypeOK
  <2>10. QED
    BY <1>1, <2>8, <2>9 DEF StartReconcile, history, TypeOK
<1>2. CASE ReconcileStep(c)
  <2>1. pass[c] # Nil
    BY <1>2 DEF ReconcileStep, ValidateConfiguration, GetConfigVersion, BuildError, GetUnwatched, Answered, GetMissing,
         GetDiffers, ReadBootstrapDone, GetNotReady, GetCurrent, Create, CreateAlreadyExists, Update,
         UpdateConflict, StoreHash, InPhase, Running
  <2>2. /\ pass[c] \in Pass
        /\ ConfigVersion(c) \in Nat /\ pass[c].ver \in Nat /\ VersionAfterCreate(c) \in Nat
    BY <2>1, PassLemma, VersionLemma
  <2>3. CASE ValidateConfiguration(c)
    <3>1. PassesOK' /\ QueuesOK'
      BY <2>1, <2>2, <2>3, ContinueLemma, EndLemma DEF ValidateConfiguration
    <3>2. QED
      BY <3>1, <2>3 DEF ValidateConfiguration, history, TypeOK, PassesOK, QueuesOK
  <2>4. CASE GetConfigVersion(c)
    <3>1. PassesOK' /\ QueuesOK'
      BY <2>1, <2>2, <2>4, ContinueLemma DEF GetConfigVersion
    <3>2. QED
      BY <3>1, <2>4 DEF GetConfigVersion, history, TypeOK, PassesOK, QueuesOK
  <2>5. CASE BuildError(c) \/ GetUnwatched(c) \/ GetNotReady(c) \/ CreateAlreadyExists(c) \/ UpdateConflict(c)
    <3>1. /\ RequeueAfter(c) \/ Fail(c)
          /\ UNCHANGED <<gen, api, cache, hashStore, faults, readySeen, applied, restarts>>
      BY <2>5 DEF BuildError, GetUnwatched, GetNotReady, CreateAlreadyExists, UpdateConflict, history
    <3>2. PassesOK' /\ QueuesOK'
      BY <3>1, EndLemma
    <3>3. QED
      BY <3>1, <3>2 DEF TypeOK, PassesOK, QueuesOK
  <2>6. CASE GetMissing(c)
    <3> DEFINE p == [pass[c] EXCEPT !.phase = "create"]
    <3>1. p \in Pass /\ p.gen = pass[c].gen /\ p.at = pass[c].at
      BY <2>2 DEF Pass, Phases
    <3>2. pass' = [pass EXCEPT ![c] = p]
      BY <2>6 DEF Answered, GetMissing
    <3> HIDE DEF p
    <3>3. PassesOK' /\ QueuesOK'
      BY <3>1, <3>2, <2>1, <2>6, PhaseLemma DEF Answered, GetMissing
    <3>4. QED
      BY <3>3, <2>6 DEF Answered, GetMissing, history, TypeOK, PassesOK, QueuesOK
  <2>7. CASE GetDiffers(c)
    <3> DEFINE k == CurrentKey(c)
               ph == IF k.kind = "cfg" THEN "bootstrap" ELSE "update"
               p == [pass[c] EXCEPT !.phase = ph, !.v2 = FALSE, !.rv = Precondition(k)]
    <3>1. k \in Keys
      BY <2>1, <2>7, PassLemma DEF Answered, GetDiffers, InPhase
    <3>2. View(k) \in Object
      BY <3>1, <2>7, ViewLemma DEF GetDiffers, Missing
    <3>3. Precondition(k) \in Nat
      BY <3>2 DEF Precondition, Object
    <3>4. ph \in Phases
      BY DEF Phases
    <3>5. p \in Pass /\ p.gen = pass[c].gen /\ p.at = pass[c].at
      BY <2>2, <3>3, <3>4 DEF Pass, Phases
    <3>6. pass' = [pass EXCEPT ![c] = p]
      BY <2>7 DEF GetDiffers
    <3> HIDE DEF p
    <3>7. PassesOK' /\ QueuesOK'
      BY <3>5, <3>6, <2>1, <2>7, PhaseLemma DEF GetDiffers
    <3>8. QED
      BY <3>7, <2>7 DEF GetDiffers, history, TypeOK, PassesOK, QueuesOK
  <2>8. CASE ReadBootstrapDone(c)
    <3> DEFINE b == BootstrapDone(CurrentKey(c))
               p == [pass[c] EXCEPT !.phase = "update", !.v2 = b]
    <3>1. b \in BOOLEAN
      BY DEF BootstrapDone
    <3>2. p \in Pass /\ p.gen = pass[c].gen /\ p.at = pass[c].at
      BY <2>2, <3>1 DEF Pass, Phases
    <3>3. pass' = [pass EXCEPT ![c] = p]
      BY <2>8 DEF ReadBootstrapDone
    <3> HIDE DEF p
    <3>4. PassesOK' /\ QueuesOK'
      BY <3>2, <3>3, <2>1, <2>8, PhaseLemma DEF ReadBootstrapDone
    <3>5. QED
      BY <3>4, <2>8 DEF ReadBootstrapDone, history, TypeOK, PassesOK, QueuesOK
  <2>9. CASE GetCurrent(c)
    <3>1. PassesOK' /\ QueuesOK'
      BY <2>1, <2>2, <2>9, ContinueLemma DEF GetCurrent
    <3>2. applied' \in [StsKeys -> Nat]
      BY <2>1, <2>9, AppliedLemma DEF GetCurrent
    <3>3. QED
      BY <3>1, <3>2, <2>9 DEF GetCurrent, TypeOK, PassesOK, QueuesOK
  <2>10. CASE Create(c)
    <3>1. PassesOK' /\ QueuesOK'
      BY <2>1, <2>2, <2>10, ContinueLemma, EndLemma DEF Create
    <3>2. /\ api' \in [Keys -> Object \cup {Nil}]
          /\ readySeen' \in [StsKeys -> SUBSET Nat]
          /\ applied' \in [StsKeys -> Nat]
      BY <2>10, CommitCreateLemma DEF Create
    <3>3. QED
      BY <3>1, <3>2, <2>10 DEF Create, TypeOK, PassesOK, QueuesOK
  <2>11. CASE Update(c)
    <3> DEFINE p == [pass[c] EXCEPT !.phase = "store"]
    <3>1. p \in Pass /\ p.gen = pass[c].gen /\ p.at = pass[c].at
      BY <2>2 DEF Pass, Phases
    <3>2. pass' = [pass EXCEPT ![c] = p]
      BY <2>11 DEF Update
    <3> HIDE DEF p
    <3>3. PassesOK' /\ QueuesOK'
      BY <3>1, <3>2, <2>1, <2>11, PhaseLemma DEF Update
    <3>4. /\ api' \in [Keys -> Object \cup {Nil}]
          /\ restarts' \in [StsKeys -> Nat]
          /\ applied' \in [StsKeys -> Nat]
      BY <2>11, CommitUpdateLemma DEF Update
    <3>5. QED
      BY <3>3, <3>4, <2>11 DEF Update, TypeOK, PassesOK, QueuesOK
  <2>12. CASE StoreHash(c)
    <3>1. PassesOK' /\ QueuesOK'
      BY <2>12, EndLemma DEF StoreHash
    <3>2. HashKey(CurrentKey(c)) \in HashKeys /\ CurrentContent(c) \in Content
      BY <2>1, <2>12, PassLemma DEF StoreHash, InPhase
    <3>3. hashStore' \in [HashKeys -> Content \cup {Nil}]
      BY <3>2, <2>12 DEF StoreHash, TypeOK
    <3>4. QED
      BY <3>1, <3>3, <2>12 DEF StoreHash, history, TypeOK, PassesOK, QueuesOK
  <2>13. QED
    BY <1>2, <2>3, <2>4, <2>5, <2>6, <2>7, <2>8, <2>9, <2>10, <2>11, <2>12 DEF ReconcileStep
<1>3. QED
  BY <1>1, <1>2

(***************************************************************************)
(* So do events, edits and faults.                                         *)
(***************************************************************************)
LEMMA EventTypeOK ==
  ASSUME TypeOK, NEW c \in CRs, RequeueTimer(c) \/ Resync(c) \/ UserEdit(c)
  PROVE  TypeOK'
<1>1. CASE RequeueTimer(c)
  BY <1>1 DEF RequeueTimer, history, TypeOK, PassOK
<1>2. CASE Resync(c)
  BY <1>2 DEF Resync, history, TypeOK, PassOK
<1>3. CASE UserEdit(c)
  <2>1. /\ gen[c] \in Nat /\ gen[c] + 1 \in DOMAIN Script[c]
    <3>1. Script[c] \in Seq(CRSpec(c)) /\ gen[c] \in DOMAIN Script[c] /\ gen[c] < Len(Script[c])
      BY <1>3, MetaAssumption DEF MetaOK, TypeOK, UserEdit
    <3>2. QED
      BY <3>1
  <2>2. gen' = [gen EXCEPT ![c] = @ + 1] /\ pass' = pass
    BY <1>3 DEF UserEdit
  <2>3. \A d \in CRs : gen'[d] \in DOMAIN Script[d] /\ gen'[d] >= gen[d] /\ gen'[d] \in Nat
    BY <2>1, <2>2 DEF TypeOK
  <2>4. \A d \in CRs : PassOK(d)'
    BY <2>2, <2>3 DEF TypeOK, PassOK
  <2>5. QED
    BY <1>3, <2>2, <2>3, <2>4 DEF UserEdit, history, TypeOK
<1>4. QED
  BY <1>1, <1>2, <1>3

(***************************************************************************)
(* Faults keep the types.                                                  *)
(***************************************************************************)
LEMMA FaultTypeOK ==
  ASSUME TypeOK, Crash \/ \E c \in CRs : ApiError(c) \/ ReadError(c) \/ LostReply(c)
  PROVE  TypeOK'
<1>1. faults' \in 0 .. MaxFaults
  BY OperatorAssumption DEF TypeOK, Crash, ApiError, ReadError, LostReply, Fault
<1>2. CASE Crash
  <2>1. \A c \in CRs : pass'[c] = Nil
    BY <1>2 DEF Crash
  <2>2. \A c \in CRs : PassOK(c)'
    BY <2>1 DEF PassOK
  <2>3. cache' \in [Keys -> Object \cup {Nil}]
    BY <1>2 DEF Crash, TypeOK
  <2>4. QED
    BY <1>1, <1>2, <2>2, <2>3 DEF Crash, history, TypeOK
<1>3. ASSUME NEW c \in CRs, ApiError(c) PROVE TypeOK'
  <2>1. PassesOK' /\ QueuesOK'
    BY <1>3, EndLemma DEF ApiError
  <2>2. QED
    BY <1>1, <1>3, <2>1 DEF ApiError, history, TypeOK, PassesOK, QueuesOK
<1>4. ASSUME NEW c \in CRs, ReadError(c) PROVE TypeOK'
  <2>1. PassesOK' /\ QueuesOK'
    BY <1>4, ContinueLemma DEF ReadError, Running
  <2>2. QED
    BY <1>1, <1>4, <2>1 DEF ReadError, history, TypeOK, PassesOK, QueuesOK
<1>5. ASSUME NEW c \in CRs, LostReply(c) PROVE TypeOK'
  <2>1. PassesOK' /\ QueuesOK'
    BY <1>5, EndLemma DEF LostReply
  <2>2. /\ api' \in [Keys -> Object \cup {Nil}]
        /\ readySeen' \in [StsKeys -> SUBSET Nat]
        /\ applied' \in [StsKeys -> Nat]
        /\ restarts' \in [StsKeys -> Nat]
    <3>1. CASE InPhase(c, "create") /\ CommitCreate(c) /\ UNCHANGED restarts
      BY <3>1, CommitCreateLemma DEF TypeOK
    <3>2. CASE InPhase(c, "update") /\ CommitUpdate(c) /\ UNCHANGED readySeen
      BY <3>2, CommitUpdateLemma DEF TypeOK
    <3>3. QED
      BY <1>5, <3>1, <3>2 DEF LostReply
  <2>3. QED
    BY <1>1, <1>5, <2>1, <2>2 DEF LostReply, TypeOK, PassesOK, QueuesOK
<1>6. QED
  BY <1>2, <1>3, <1>4, <1>5

(***************************************************************************)
(* An informer that catches up keeps the types.                            *)
(***************************************************************************)
LEMMA InformerTypeOK ==
  ASSUME TypeOK, NEW kind \in ObjectKinds, InformerSync(kind)
  PROVE  TypeOK'
<1>1. cache' \in [Keys -> Object \cup {Nil}]
  BY DEF InformerSync, TypeOK
<1>2. QED
  BY <1>1 DEF InformerSync, history, TypeOK, PassOK

(***************************************************************************)
(* The initial state is well-typed.                                        *)
(***************************************************************************)
LEMMA TypeInit == Init => TypeOK
<1> SUFFICES ASSUME Init PROVE TypeOK
  OBVIOUS
<1>1. \A c \in CRs : 1 \in DOMAIN Script[c]
  BY MetaAssumption DEF MetaOK
<1>2. \A c \in CRs : PassOK(c)
  BY DEF Init, PassOK
<1>3. QED
  BY <1>1, <1>2, OperatorAssumption DEF Init, TypeOK

(***************************************************************************)
(* Every step keeps the types.                                             *)
(***************************************************************************)
LEMMA TypeNext == TypeOK /\ [Next]_vars => TypeOK'
<1> SUFFICES ASSUME TypeOK, [Next]_vars PROVE TypeOK'
  OBVIOUS
<1>1. CASE UNCHANGED vars
  BY <1>1 DEF vars, TypeOK, PassOK
<1>2. CASE Next
  BY <1>2, ReconcileTypeOK, EventTypeOK, FaultTypeOK, InformerTypeOK, StatefulSetTypeOK DEF Next
<1>3. QED
  BY <1>1, <1>2

(***************************************************************************)
(* Type correctness for every set of custom resources and every script of  *)
(* edits: in particular no Reconcile call ever stands at a deployment,     *)
(* namespace or pod that the spec it read does not list, and no generation *)
(* it works for lies ahead of the one the user has reached.                *)
(***************************************************************************)
THEOREM TypeCorrect == Spec => []TypeOK
  BY TypeInit, TypeNext, PTL DEF Spec

------------------------------------------------------------------------------
(***************************************************************************)
(* Bring-up order.                                                         *)
(***************************************************************************)

(***************************************************************************)
(* Every ready count that can be read, in the API server or in the cache,  *)
(* is one the StatefulSet really had, and nothing is cached that was never *)
(* created.                                                                *)
(***************************************************************************)
StatusSeen ==
  \A k \in StsKeys :
    /\ api[k] # Nil => api[k].status.ready \in readySeen[k]
    /\ cache[k] # Nil => api[k] # Nil /\ cache[k].status.ready \in readySeen[k]

(***************************************************************************)
(* A pass leaves behind only deployments that have reached their size.     *)
(***************************************************************************)
BehindReached ==
  \A c \in CRs : pass[c] # Nil =>
    \A i \in 1 .. Len(Deployments(c, pass[c].gen)) :
      Behind(pass[c].at, i) => ReachedSize(c, pass[c].gen, i)

BringUpInv == TypeOK /\ StatusSeen /\ BehindReached

(***************************************************************************)
(* How a step changes the StatefulSets: none disappears, the observed      *)
(* ready counts only grow and include the new one, and only a Create makes *)
(* a StatefulSet appear.                                                   *)
(***************************************************************************)
ApiStep(k) ==
  /\ readySeen[k] \subseteq readySeen'[k]
  /\ api[k] # Nil => api'[k] # Nil
  /\ api'[k] # Nil => \/ api'[k].status.ready \in readySeen'[k]
                      \/ api[k] # Nil /\ api'[k].status = api[k].status
  /\ api[k] = Nil /\ api'[k] # Nil =>
       \E c \in CRs : InPhase(c, "create") /\ CurrentKey(c) = k

(***************************************************************************)
(* A step that touches no object, and the three ways to touch one.         *)
(***************************************************************************)
LEMMA ApiStepLemma ==
  ASSUME TypeOK, [Next]_vars, NEW k \in StsKeys
  PROVE  ApiStep(k)
<1>1. k \in Keys
  BY DEF StsKeys
<1>2. ASSUME api' = api, readySeen' = readySeen PROVE ApiStep(k)
  BY <1>2 DEF ApiStep
<1>3. ASSUME NEW c \in CRs, InPhase(c, "create"), CommitCreate(c) PROVE ApiStep(k)
  <2>1. /\ CurrentKey(c) \in Keys /\ CurrentContent(c) \in Content
        /\ api' = [api EXCEPT ![CurrentKey(c)] = NewObject(CurrentContent(c))]
        /\ CurrentKey(c).kind = "ss" => CurrentKey(c) \in StsKeys
    BY <1>3, PassLemma DEF CommitCreate, InPhase, Running
  <2>2. CASE k = CurrentKey(c)
    <3>1. k.kind = "ss"
      BY DEF StsKeys
    <3>2. readySeen' = [readySeen EXCEPT ![k] = @ \cup {0}]
      BY <1>3, <2>2, <3>1 DEF CommitCreate
    <3>3. 0 \in readySeen'[k] /\ readySeen[k] \subseteq readySeen'[k]
      BY <3>2 DEF TypeOK
    <3>4. api'[k] = NewObject(CurrentContent(c))
      BY <1>1, <2>1, <2>2 DEF TypeOK
    <3>5. api'[k].status.ready = 0
      BY <3>4 DEF NewObject, NoStatus
    <3>6. api[k] = Nil
      BY <1>3, <2>2 DEF CommitCreate
    <3>7. QED
      BY <1>3, <2>2, <3>3, <3>5, <3>6 DEF ApiStep
  <2>3. CASE k # CurrentKey(c)
    <3>1. api'[k] = api[k]
      BY <1>1, <2>1, <2>3 DEF TypeOK
    <3>2. readySeen'[k] = readySeen[k]
      BY <1>3, <2>1, <2>3 DEF CommitCreate, TypeOK
    <3>3. QED
      BY <3>1, <3>2 DEF ApiStep
  <2>4. QED
    BY <2>2, <2>3
<1>4. ASSUME NEW c \in CRs, InPhase(c, "update"), CommitUpdate(c), readySeen' = readySeen
      PROVE  ApiStep(k)
  <2> DEFINE o == Updated(api[CurrentKey(c)], CurrentContent(c), pass[c].v2)
  <2>1. /\ CurrentKey(c) \in Keys /\ CurrentContent(c) \in Content
        /\ pass[c].v2 \in BOOLEAN
        /\ api' = [api EXCEPT ![CurrentKey(c)] = o]
        /\ api[CurrentKey(c)] # Nil
    BY <1>4, PassLemma DEF CommitUpdate, InPhase, Running, Pass
  <2>2. api[CurrentKey(c)] \in Object
    BY <2>1 DEF TypeOK
  <2>3. o \in Object
    BY <2>1, <2>2, ObjectLemma
  <2>4. o # Nil
    BY <2>3, NilAssumption
  <2>5. o.status = api[CurrentKey(c)].status
    BY <2>2 DEF Updated, Object
  <2> HIDE DEF o
  <2>6. CASE k = CurrentKey(c)
    <3>1. api'[k] = o
      BY <1>1, <2>1, <2>6 DEF TypeOK
    <3>2. QED
      BY <1>4, <2>1, <2>4, <2>5, <2>6, <3>1 DEF ApiStep
  <2>7. CASE k # CurrentKey(c)
    <3>1. api'[k] = api[k]
      BY <1>1, <2>1, <2>7 DEF TypeOK
    <3>2. QED
      BY <1>4, <3>1 DEF ApiStep
  <2>8. QED
    BY <2>6, <2>7
<1>5. ASSUME NEW j \in StsKeys, NEW status \in Status, SetStatus(j, status), api[j] # Nil
      PROVE  ApiStep(k)
  <2>1. j \in Keys
    BY DEF StsKeys
  <2>2. api[j] \in Object
    BY <1>5, <2>1 DEF TypeOK
  <2> DEFINE o == [api[j] EXCEPT !.status = status]
  <2>3. api' = [api EXCEPT ![j] = o] /\ readySeen' = [readySeen EXCEPT ![j] = @ \cup {status.ready}]
    BY <1>5 DEF SetStatus
  <2>4. o.status = status /\ o \in Object
    BY <2>2 DEF Object
  <2> HIDE DEF o
  <2>5. CASE k = j
    <3>1. api'[k] = o
      BY <1>1, <2>3, <2>5 DEF TypeOK
    <3>2. readySeen'[k] = readySeen[k] \cup {status.ready}
      BY <2>3, <2>5 DEF TypeOK
    <3>3. api'[k].status.ready \in readySeen'[k] /\ readySeen[k] \subseteq readySeen'[k]
      BY <2>4, <3>1, <3>2
    <3>4. api'[k] # Nil
      BY <2>4, <3>1, NilAssumption
    <3>5. QED
      BY <1>5, <2>5, <3>3, <3>4 DEF ApiStep
  <2>6. CASE k # j
    <3>1. api'[k] = api[k] /\ readySeen'[k] = readySeen[k]
      BY <1>1, <2>1, <2>3, <2>6 DEF TypeOK
    <3>2. QED
      BY <3>1 DEF ApiStep
  <2>7. QED
    BY <2>5, <2>6
<1>6. CASE UNCHANGED vars
  BY <1>2, <1>6 DEF vars
<1>7. ASSUME NEW c \in CRs, StartReconcile(c) \/ ReconcileStep(c) PROVE ApiStep(k)
  <2>1. CASE Create(c)
    BY <1>3, <2>1 DEF Create
  <2>2. CASE Update(c)
    BY <1>4, <2>2 DEF Update
  <2>3. CASE ~Create(c) /\ ~Update(c)
    BY <1>2, <1>7, <2>3 DEF StartReconcile, ReconcileStep, ValidateConfiguration,
         GetConfigVersion, BuildError, GetUnwatched, GetMissing, GetDiffers, ReadBootstrapDone,
         GetNotReady, GetCurrent,
         CreateAlreadyExists, UpdateConflict, StoreHash, history
  <2>4. QED
    BY <2>1, <2>2, <2>3
<1>8. ASSUME NEW c \in CRs, RequeueTimer(c) \/ Resync(c) \/ UserEdit(c) PROVE ApiStep(k)
  BY <1>2, <1>8 DEF RequeueTimer, Resync, UserEdit, history
<1>9. ASSUME NEW c \in CRs, ApiError(c) \/ ReadError(c) \/ LostReply(c) PROVE ApiStep(k)
  <2>1. CASE ApiError(c) \/ ReadError(c)
    BY <1>2, <2>1 DEF ApiError, ReadError, history
  <2>2. CASE LostReply(c)
    BY <1>3, <1>4, <2>2 DEF LostReply
  <2>3. QED
    BY <1>9, <2>1, <2>2
<1>10. ASSUME NEW kind \in ObjectKinds, InformerSync(kind) PROVE ApiStep(k)
  BY <1>2, <1>10 DEF InformerSync, history
<1>11. ASSUME NEW j \in StsKeys, StatefulSetController(j) \/ PodFailure(j) PROVE ApiStep(k)
  BY <1>5, <1>11, StatusStepLemma
<1>12. CASE Crash
  BY <1>2, <1>12 DEF Crash, history
<1>13. QED
  BY <1>6, <1>7, <1>8, <1>9, <1>10, <1>11, <1>12 DEF Next

(***************************************************************************)
(* The cache keeps an object, takes it from the API server or drops it.    *)
(***************************************************************************)
LEMMA CacheStepLemma ==
  ASSUME TypeOK, [Next]_vars, NEW k \in Keys
  PROVE  cache'[k] \in {cache[k], api[k], Nil}
<1>1. CASE cache' = cache
  BY <1>1
<1>2. ASSUME NEW kind \in ObjectKinds, InformerSync(kind)
      PROVE  cache'[k] \in {cache[k], api[k], Nil}
  BY <1>2 DEF InformerSync
<1>3. CASE Crash
  BY <1>3 DEF Crash
<1>4. ASSUME NEW c \in CRs, StartReconcile(c) \/ ReconcileStep(c) PROVE cache' = cache
  BY <1>4 DEF StartReconcile, ReconcileStep, ValidateConfiguration,
       GetConfigVersion, BuildError, GetUnwatched, GetMissing, GetDiffers, ReadBootstrapDone,
         GetNotReady, GetCurrent,
       Create, CreateAlreadyExists, Update, UpdateConflict, StoreHash
<1>5. ASSUME NEW c \in CRs, \/ RequeueTimer(c) \/ Resync(c) \/ UserEdit(c)
                            \/ ApiError(c) \/ ReadError(c) \/ LostReply(c)
      PROVE  cache' = cache
  BY <1>5 DEF RequeueTimer, Resync, UserEdit, ApiError, ReadError, LostReply
<1>6. ASSUME NEW j \in StsKeys, StatefulSetController(j) \/ PodFailure(j) PROVE cache' = cache
  BY <1>6, StatusStepLemma DEF SetStatus
<1>7. QED
  BY <1>1, <1>2, <1>3, <1>4, <1>5, <1>6 DEF Next, vars

(***************************************************************************)
(* How a step moves the pass of c: deployments get behind its cursor only  *)
(* when GetCurrent leaves their StatefulSet stage.                         *)
(***************************************************************************)
PassStep(c) ==
  \A i \in Nat \ {0} :
    pass'[c] # Nil /\ Behind(pass'[c].at, i) =>
      /\ pass[c] # Nil /\ pass'[c].gen = pass[c].gen
      /\ \/ Behind(pass[c].at, i)
         \/ GetCurrent(c) /\ Stage(c) = "ss" /\ i = pass[c].at.dep

(***************************************************************************)
(* Going on from stage to stage is such a move.                            *)
(***************************************************************************)
LEMMA ContinuePassStep ==
  ASSUME TypeOK, NEW c \in CRs, pass[c] # Nil, NEW ver, Continue(c, ver),
         Stage(c) = "ss" => GetCurrent(c)
  PROVE  \A d \in CRs : PassStep(d)
<1> DEFINE g == pass[c].gen
           next == After(c, g, pass[c].at)
<1>1. /\ g \in DOMAIN Script[c] /\ CursorOK(c, g, pass[c].at)
      /\ pass[c] \in Pass
  BY PassLemma
<1>2. \A d \in CRs \ {c} : PassStep(d)
  BY DEF Continue, PassStep, TypeOK
<1>3. CASE next.stage = "done"
  <2>1. pass'[c] = Nil
    BY <1>3 DEF Continue, TypeOK
  <2>2. QED
    BY <1>2, <2>1 DEF PassStep
<1>4. CASE next.stage # "done"
  <2>1. \A i \in Nat : Behind(next, i)
          => Behind(pass[c].at, i) \/ (Stage(c) = "ss" /\ pass[c].at.dep = i) \/ i = 0
    BY <1>1, <1>4, AfterLemma DEF Stage
  <2>2. pass'[c] = [pass[c] EXCEPT !.at = next, !.phase = "get", !.ver = ver]
    BY <1>4 DEF Continue, TypeOK
  <2>3. pass'[c].at = next /\ pass'[c].gen = g
    BY <1>1, <2>2 DEF Pass
  <2>4. PassStep(c)
    BY <2>1, <2>3 DEF PassStep
  <2>5. QED
    BY <1>2, <2>4
<1>5. QED
  BY <1>3, <1>4

(***************************************************************************)
(* Every step moves every pass that way.                                   *)
(***************************************************************************)
LEMMA PassStepLemma ==
  ASSUME TypeOK, [Next]_vars
  PROVE  \A d \in CRs : PassStep(d)
<1>1. ASSUME pass' = pass PROVE \A d \in CRs : PassStep(d)
  BY <1>1 DEF PassStep
<1>2. ASSUME NEW c \in CRs, RequeueAfter(c) \/ Fail(c) PROVE \A d \in CRs : PassStep(d)
  <2>1. \A d \in CRs : pass'[d] = Nil \/ pass'[d] = pass[d]
    BY <1>2 DEF RequeueAfter, Fail, TypeOK
  <2>2. QED
    BY <2>1 DEF PassStep
<1>3. ASSUME NEW c \in CRs, StartReconcile(c) PROVE \A d \in CRs : PassStep(d)
  <2>1. gen[c] \in DOMAIN Script[c]
    BY DEF TypeOK
  <2>2. pass'[c].at = Start(c, gen[c])
    BY <1>3 DEF StartReconcile, TypeOK
  <2>3. \A i : ~Behind(pass'[c].at, i)
    BY <2>1, <2>2, StartLemma DEF Behind
  <2>4. \A d \in CRs \ {c} : pass'[d] = pass[d]
    BY <1>3 DEF StartReconcile, TypeOK
  <2>5. QED
    BY <2>3, <2>4 DEF PassStep
<1>4. ASSUME NEW c \in CRs, GetMissing(c) \/ GetDiffers(c) \/ ReadBootstrapDone(c) \/ Update(c)
      PROVE  \A d \in CRs : PassStep(d)
  <2>1. pass[c] # Nil
    BY <1>4 DEF Answered, GetMissing, GetDiffers, ReadBootstrapDone, Update, InPhase, Running
  <2>2. pass[c] \in Pass
    BY <2>1, PassLemma
  <2>3. pass'[c].at = pass[c].at /\ pass'[c].gen = pass[c].gen
    BY <1>4, <2>2 DEF Answered, GetMissing, GetDiffers, ReadBootstrapDone, Update, TypeOK, Pass
  <2>4. \A d \in CRs \ {c} : pass'[d] = pass[d]
    BY <1>4 DEF Answered, GetMissing, GetDiffers, ReadBootstrapDone, Update, TypeOK
  <2>5. QED
    BY <2>1, <2>3, <2>4 DEF PassStep
<1>5. ASSUME NEW c \in CRs, ReconcileStep(c) PROVE \A d \in CRs : PassStep(d)
  <2>1. CASE ValidateConfiguration(c) \/ GetConfigVersion(c)
    BY <1>2, <2>1, ContinuePassStep DEF ValidateConfiguration, GetConfigVersion, Running
  <2>2. CASE \/ BuildError(c) \/ GetUnwatched(c) \/ GetNotReady(c) \/ CreateAlreadyExists(c)
             \/ UpdateConflict(c) \/ StoreHash(c)
    BY <1>2, <2>2 DEF BuildError, GetUnwatched, GetNotReady, CreateAlreadyExists, UpdateConflict, StoreHash
  <2>3. CASE GetCurrent(c)
    BY <2>3, ContinuePassStep DEF Answered, GetCurrent, InPhase, Running
  <2>4. CASE Create(c)
    BY <1>2, <2>4, ContinuePassStep DEF Create, InPhase, Running
  <2>5. QED
    BY <1>4, <1>5, <2>1, <2>2, <2>3, <2>4 DEF ReconcileStep
<1>6. ASSUME NEW c \in CRs, ApiError(c) \/ ReadError(c) \/ LostReply(c)
      PROVE  \A d \in CRs : PassStep(d)
  <2>1. CASE ApiError(c) \/ LostReply(c)
    BY <1>2, <2>1 DEF ApiError, LostReply
  <2>2. CASE ReadError(c)
    BY <2>2, ContinuePassStep DEF ReadError, Running
  <2>3. QED
    BY <1>6, <2>1, <2>2
<1>7. CASE Crash
  BY <1>7 DEF Crash, PassStep
<1>8. ASSUME NEW j \in StsKeys, StatefulSetController(j) \/ PodFailure(j) PROVE pass' = pass
  BY <1>8, StatusStepLemma DEF SetStatus
<1>9. ASSUME NEW c \in CRs, RequeueTimer(c) \/ Resync(c) \/ UserEdit(c) PROVE pass' = pass
  BY <1>9 DEF RequeueTimer, Resync, UserEdit
<1>10. ASSUME NEW kind \in ObjectKinds, InformerSync(kind) PROVE pass' = pass
  BY <1>10 DEF InformerSync
<1>11. QED
  BY <1>1, <1>3, <1>5, <1>6, <1>7, <1>8, <1>9, <1>10 DEF Next, vars

(***************************************************************************)
(* Bring-up holds trivially at the start.                                  *)
(***************************************************************************)
LEMMA BringUpInit == Init => BringUpInv
<1> SUFFICES ASSUME Init PROVE BringUpInv
  OBVIOUS
<1>1. TypeOK
  BY TypeInit
<1>2. StatusSeen
  BY DEF Init, StatusSeen, StsKeys
<1>3. BehindReached
  BY DEF Init, BehindReached
<1>4. QED
  BY <1>1, <1>2, <1>3 DEF BringUpInv

(***************************************************************************)
(* The inductive step: a count read from the cache was once the real one,  *)
(* so what GetCurrent leaves behind has reached its size, and sizes        *)
(* reached stay reached.                                                   *)
(***************************************************************************)
LEMMA BringUpNext == BringUpInv /\ [Next]_vars => BringUpInv'
<1> SUFFICES ASSUME BringUpInv, [Next]_vars PROVE BringUpInv'
  OBVIOUS
<1>1. TypeOK /\ TypeOK'
  BY TypeNext DEF BringUpInv
<1>2. StatusSeen'
  <2> SUFFICES ASSUME NEW k \in StsKeys
               PROVE  /\ api'[k] # Nil => api'[k].status.ready \in readySeen'[k]
                      /\ cache'[k] # Nil => api'[k] # Nil /\ cache'[k].status.ready \in readySeen'[k]
    BY DEF StatusSeen
  <2>1. ApiStep(k)
    BY <1>1, ApiStepLemma
  <2>2. cache'[k] \in {cache[k], api[k], Nil}
    BY <1>1, CacheStepLemma DEF StsKeys
  <2>3. /\ api[k] # Nil => api[k].status.ready \in readySeen[k]
        /\ cache[k] # Nil => api[k] # Nil /\ cache[k].status.ready \in readySeen[k]
    BY DEF BringUpInv, StatusSeen
  <2>4. QED
    BY <2>1, <2>2, <2>3 DEF ApiStep
<1>3. BehindReached'
  <2> SUFFICES ASSUME NEW c \in CRs, pass'[c] # Nil,
                      NEW i \in 1 .. Len(Deployments(c, pass'[c].gen)),
                      Behind(pass'[c].at, i)
               PROVE  ReachedSize(c, pass[c].gen, i)'
    BY DEF BehindReached
  <2> DEFINE g == pass[c].gen
             d == Deployments(c, g)[i]
             k == StsKey(c, d)
  <2>1. PassStep(c)
    BY <1>1, PassStepLemma
  <2>2. i \in Nat \ {0}
    BY DeploymentsLemma, <1>1 DEF TypeOK
  <2>3. /\ pass[c] # Nil /\ pass'[c].gen = g
        /\ \/ Behind(pass[c].at, i)
           \/ GetCurrent(c) /\ Stage(c) = "ss" /\ i = pass[c].at.dep
    BY <2>1, <2>2 DEF PassStep
  <2>4. i \in 1 .. Len(Deployments(c, g)) /\ g \in DOMAIN Script[c]
    BY <1>1, <2>3, PassLemma
  <2>5. k \in StsKeys /\ k \in Keys
    BY <2>4, DeploymentsLemma, StsKeyLemma
  <2>6. ReachedSize(c, g, i)
    <3>1. CASE Behind(pass[c].at, i)
      BY <2>3, <2>4, <3>1 DEF BringUpInv, BehindReached
    <3>2. CASE GetCurrent(c) /\ Stage(c) = "ss" /\ i = pass[c].at.dep
      <4>1. CurrentKey(c) = k
        BY <3>2 DEF CurrentKey, KeyAt, Stage
      <4>2. View(k) # Nil /\ View(k).status.ready = Dep(c, g, i).size
        BY <3>2, <4>1 DEF GetCurrent, Missing, StatusReady
      <4>3. api[k] # Nil /\ View(k).status.ready \in readySeen[k]
        BY <2>5, <4>2 DEF BringUpInv, StatusSeen, View
      <4>4. QED
        BY <4>2, <4>3 DEF ReachedSize
    <3>3. QED
      BY <2>3, <3>1, <3>2
  <2>7. ApiStep(k)
    BY <1>1, <2>5, ApiStepLemma
  <2>8. QED
    BY <2>3, <2>6, <2>7 DEF ReachedSize, ApiStep
<1>4. QED
  BY <1>1, <1>2, <1>3 DEF BringUpInv

(***************************************************************************)
(* A StatefulSet that appears is the current one of a pass, and all before *)
(* it are behind that pass.                                                *)
(***************************************************************************)
LEMMA BringUpAction == BringUpInv /\ [Next]_vars => BringUpStep
<1> SUFFICES ASSUME BringUpInv, [Next]_vars,
                    NEW k \in StsKeys, api[k] = Nil, api'[k] # Nil
             PROVE  \E c \in CRs : Running(c) /\ ItsTurn(c, pass[c].gen, k)
  BY DEF BringUpStep
<1>1. TypeOK
  BY DEF BringUpInv
<1>2. PICK c \in CRs : InPhase(c, "create") /\ CurrentKey(c) = k
  BY <1>1, ApiStepLemma DEF ApiStep
<1> DEFINE g == pass[c].gen
           j == pass[c].at.dep
<1>3. Running(c) /\ pass[c] # Nil /\ Stage(c) \in ObjectStages
  BY <1>2 DEF InPhase, Running
<1>4. /\ g \in DOMAIN Script[c] /\ CursorOK(c, g, pass[c].at)
      /\ Stage(c) = "ss"
  BY <1>1, <1>2, <1>3, PassLemma DEF StsKeys
<1>5. j \in 1 .. Len(Deployments(c, g))
  BY <1>4 DEF CursorOK, Stage
<1>6. k = StsKey(c, Deployments(c, g)[j])
  BY <1>2, <1>4 DEF CurrentKey, KeyAt, Stage
<1>7. ASSUME NEW i \in 1 .. (j - 1) PROVE ReachedSize(c, g, i)
  <2>1. i \in 1 .. Len(Deployments(c, g)) /\ i < j
    BY <1>4, <1>5, DeploymentsLemma
  <2>2. Behind(pass[c].at, i)
    BY <1>4, <2>1 DEF Behind, Stage
  <2>3. QED
    BY <1>3, <2>1, <2>2 DEF BringUpInv, BehindReached
<1>8. QED
  BY <1>3, <1>5, <1>6, <1>7 DEF ItsTurn

(***************************************************************************)
(* Ordered bring-up, for any number of deployments, custom resources,      *)
(* edits and faults, and however far the informers lag: the operator       *)
(* creates a StatefulSet only after each one listed before it has at some  *)
(* time had as many ready replicas as the spec being applied asks for.     *)
(***************************************************************************)
THEOREM BringUpOrdered == Spec => OrderedBringUp
<1>1. BringUpInv /\ [Next]_vars => [BringUpStep]_vars
  BY BringUpAction
<1>2. QED
  BY <1>1, BringUpInit, BringUpNext, PTL DEF Spec, OrderedBringUp
==============================================================================
