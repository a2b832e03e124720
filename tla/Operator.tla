------------------------------- MODULE Operator -------------------------------
(***************************************************************************)
(* The HBase operator at work: its three controllers reconciling custom    *)
(* resources against an API server, reading through an informer cache and  *)
(* remembering in a process-wide map (hashStore) the hash of what they     *)
(* last wrote; next to it the StatefulSet controller that turns            *)
(* StatefulSets into ready pods, a user who edits the custom resources,    *)
(* and the faults of a real cluster.                                       *)
(*                                                                         *)
(* A Reconcile call is a pass: a cursor (module Resources) and a phase.    *)
(* Every stage reads the cache and hashStore, may call the API server, and *)
(* after a successful Update records the hash; these are separate steps,   *)
(* so anything may happen between them.                                    *)
(***************************************************************************)
EXTENDS Resources

CONSTANTS
  AdditionalNamespaces, \* the elements of ADDITIONAL_WATCH_NAMESPACES
  WatchNamespace,       \* WATCH_NAMESPACE, "" if it is not set
  Workers,    \* per kind, MaxConcurrentReconciles of its controller
  Lagging,    \* kinds of object whose informer may lag behind the API server
  Env,        \* the environment's behaviours that are allowed, from EnvKinds
  MaxFaults   \* how many faults may happen in a behaviour

ObjectKinds == {"svc", "cfg", "ss", "pdb"}
EnvKinds == {"crash", "apiError", "readError", "lostReply", "podFailure",
             "resync", "slowInformer"}

(***************************************************************************)
(* getWatchNamespaces: the namespaces whose objects the manager caches.    *)
(* The cache takes an empty list, or an empty name on it (a trailing comma *)
(* in the list leaves one), for all namespaces.                            *)
(***************************************************************************)
WatchNamespaces ==
  IF WatchNamespace = "" THEN AdditionalNamespaces
  ELSE Append(AdditionalNamespaces, WatchNamespace)

Watches(ns) ==
  \/ WatchNamespaces = <<>>
  \/ "" \in Range(WatchNamespaces)
  \/ ns \in Range(WatchNamespaces)

ASSUME OperatorAssumption ==
  /\ AdditionalNamespaces \in Seq(STRING) /\ WatchNamespace \in STRING
  /\ \A c \in CRs : Watches(Meta[c].ns)
  /\ Workers \in [Kinds -> Nat \ {0}]
  /\ Lagging \subseteq ObjectKinds
  /\ Env \subseteq EnvKinds
  /\ MaxFaults \in Nat

VARIABLES
  gen,        \* per CR, the generation of its spec the operator's cache holds
  api,        \* the objects in the API server
  cache,      \* the operator's informer cache of the Lagging kinds
  hashStore,  \* hash of the content last written, per HashKey
  queued,     \* CRs in a controller's work queue
  timer,      \* CRs with a RequeueAfter pending
  pass,       \* per CR, the Reconcile call in progress, or Nil
  faults,     \* faults so far
  readySeen,  \* history: the readyReplicas values each StatefulSet has had
  applied,    \* history: generation that last wrote or accepted a StatefulSet
  restarts    \* history: changes of each StatefulSet's pod template

vars == <<gen, api, cache, hashStore, queued, timer, pass, faults,
          readySeen, applied, restarts>>
history == <<readySeen, applied, restarts>>

------------------------------------------------------------------------------
(***************************************************************************)
(* API objects.  v2 is the CFG_V2_ANNOTATION of a ConfigMap, rv the        *)
(* resourceVersion, status the status of a StatefulSet: ready pods, pods   *)
(* already replaced by the current rollout, current and update revision.   *)
(* resourceVersions count the writes of one object; only their equality    *)
(* matters to the code.                                                    *)
(***************************************************************************)
Revision == [data : Seq(Nat), ver : Nat]
Status == [ready : Nat, replaced : Nat,
           current : Revision \cup {Nil}, update : Revision \cup {Nil}]
Object == [spec : Content, v2 : BOOLEAN, rv : Nat, status : Status]

NoStatus == [ready |-> 0, replaced |-> 0, current |-> Nil, update |-> Nil]

NewObject(content) == [spec |-> content, v2 |-> FALSE, rv |-> 1, status |-> NoStatus]

RevisionOf(o) == [data |-> o.spec.data, ver |-> o.spec.ver]

(***************************************************************************)
(* The API server's Update: a write that changes nothing leaves the        *)
(* resourceVersion alone.  The annotation is a timestamp, so a write that  *)
(* carries it always changes the object.                                   *)
(***************************************************************************)
Updated(o, content, v2) ==
  IF o.spec = content /\ ~o.v2 /\ ~v2
  THEN o
  ELSE [o EXCEPT !.spec = content, !.v2 = v2, !.rv = @ + 1]

Phases == {"get", "create", "bootstrap", "update", "store"}
Pass == [gen : Nat, at : Cursor, phase : Phases, ver : Nat, v2 : BOOLEAN, rv : Nat]

ASSUME NilAssumption == Nil \notin Object \cup Content \cup Pass

(***************************************************************************)
(* What a Get returns.                                                     *)
(***************************************************************************)
View(k) == IF k.kind \in Lagging THEN cache[k] ELSE api[k]

Running(c) == pass[c] # Nil
Stage(c) == pass[c].at.stage
CurrentKey(c) == KeyAt(c, pass[c].gen, pass[c].at)
CurrentContent(c) == Desired(c, pass[c].gen, pass[c].at, pass[c].ver)

InPhase(c, phase) == /\ Running(c)
                     /\ Stage(c) \in ObjectStages
                     /\ pass[c].phase = phase

------------------------------------------------------------------------------
Init ==
  /\ gen = [c \in CRs |-> 1]
  /\ api = [k \in Keys |-> Nil]
  /\ cache = [k \in Keys |-> Nil]
  /\ hashStore = [h \in HashKeys |-> Nil]
  /\ queued = CRs
  /\ timer = {}
  /\ pass = [c \in CRs |-> Nil]
  /\ faults = 0
  /\ readySeen = [k \in StsKeys |-> {}]
  /\ applied = [k \in StsKeys |-> 0]
  /\ restarts = [k \in StsKeys |-> 0]

------------------------------------------------------------------------------
(***************************************************************************)
(* How a pass goes on or ends.                                             *)
(***************************************************************************)

(***************************************************************************)
(* The stage returned an empty Result and no error: the next stage, or the *)
(* end of Reconcile.                                                       *)
(***************************************************************************)
Continue(c, ver) ==
  LET next == After(c, pass[c].gen, pass[c].at)
  IN  /\ pass' = [pass EXCEPT ![c] =
                    IF next.stage = "done" THEN Nil
                    ELSE [@ EXCEPT !.at = next, !.phase = "get", !.ver = ver]]
      /\ UNCHANGED <<queued, timer>>

\* Mutant: the stage's RequeueAfter does not reach the caller.
RequeueForgotten(c) ==
  /\ pass' = [pass EXCEPT ![c] = Nil]
  /\ UNCHANGED <<queued, timer>>

(***************************************************************************)
(* Reconcile returned RequeueAfter.                                        *)
(***************************************************************************)
RequeueAfter(c) ==
  /\ pass' = [pass EXCEPT ![c] = Nil]
  /\ timer' = timer \cup {c}
  /\ UNCHANGED queued

\* Mutant: Reconcile logs the error and returns nil.
FailSwallowed(c) ==
  /\ pass' = [pass EXCEPT ![c] = Nil]
  /\ UNCHANGED <<queued, timer>>

(***************************************************************************)
(* Reconcile returned an error: the work queue retries it.                 *)
(***************************************************************************)
Fail(c) ==
  /\ pass' = [pass EXCEPT ![c] = Nil]
  /\ queued' = queued \cup {c}
  /\ UNCHANGED timer

(***************************************************************************)
(* History: the pass of c wrote or accepted the StatefulSet k.             *)
(***************************************************************************)
MarkApplied(c, k) ==
  applied' = IF k.kind = "ss" THEN [applied EXCEPT ![k] = pass[c].gen] ELSE applied

------------------------------------------------------------------------------
(***************************************************************************)
(* The Reconcile calls.                                                    *)
(***************************************************************************)

(***************************************************************************)
(* A worker of c's controller takes c from the queue and reads its spec.   *)
(* The queue never hands one CR to two workers.                            *)
(***************************************************************************)
StartReconcile(c) ==
  /\ c \in queued
  /\ ~Running(c)
  /\ Cardinality({d \in CRs : Meta[d].kind = Meta[c].kind /\ Running(d)})
       < Workers[Meta[c].kind]
  /\ queued' = queued \ {c}
  /\ pass' = [pass EXCEPT ![c] = [gen |-> gen[c], at |-> Start(c, gen[c]),
                                  phase |-> "get", ver |-> 0, v2 |-> FALSE, rv |-> 0]]
  /\ UNCHANGED <<gen, api, cache, hashStore, timer, faults, history>>

\* Mutant: the verdict is not looked at.
ValidationIgnored(c) ==
  /\ Running(c) /\ Stage(c) = "validate"
  /\ Continue(c, pass[c].ver)
  /\ UNCHANGED <<gen, api, cache, hashStore, faults, history>>

(***************************************************************************)
(* validateConfiguration: an invalid configuration ends the call.          *)
(***************************************************************************)
ValidateConfiguration(c) ==
  /\ Running(c) /\ Stage(c) = "validate"
  /\ IF SpecAt(c, pass[c].gen).valid THEN Continue(c, pass[c].ver) ELSE Fail(c)
  /\ UNCHANGED <<gen, api, cache, hashStore, faults, history>>

(***************************************************************************)
(* getCfgResourceVersionIfV2OrNil: of the CR's own hbase ConfigMap.        *)
(***************************************************************************)
CfgResourceVersionIfV2(c) ==
  LET cfg == View(Key("cfg", Meta[c].hbaseCfg, 0, Meta[c].ns))
  IN  IF cfg # Nil /\ cfg.v2 THEN cfg.rv ELSE 0

(***************************************************************************)
(* getStatefulSetAnnotation of the Datanode's StatefulSet.                 *)
(***************************************************************************)
ExistingAnnotation(c) ==
  LET ss == View(StsKey(c, Meta[c].datanode))
  IN  IF ss # Nil THEN ss.spec.ver ELSE 0

\* Mutant: the ConfigMap's version, whatever the label and the annotation say.
ConfigVersionUnconditional(c) ==
  LET cfg == View(Key("cfg", Meta[c].hbaseCfg, 0, Meta[c].ns))
  IN  IF cfg = Nil THEN 0 ELSE cfg.rv

(***************************************************************************)
(* The config version every StatefulSet of this pass is stamped with.      *)
(***************************************************************************)
ConfigVersion(c) ==
  IF SpecAt(c, pass[c].gen).label = "true"
  THEN CfgResourceVersionIfV2(c)
  ELSE ExistingAnnotation(c)

GetConfigVersion(c) ==
  /\ Running(c) /\ Stage(c) = "version"
  /\ Continue(c, ConfigVersion(c))
  /\ UNCHANGED <<gen, api, cache, hashStore, faults, history>>

(***************************************************************************)
(* buildStatefulSet rejects the deployment's volumes.                      *)
(***************************************************************************)
BuildFails(c) == Stage(c) = "ss" /\ Dep(c, pass[c].gen, pass[c].at.dep).tmpl = 0

BuildError(c) ==
  /\ InPhase(c, "get")
  /\ BuildFails(c)
  /\ Fail(c)
  /\ UNCHANGED <<gen, api, cache, hashStore, faults, history>>

(***************************************************************************)
(* The Get of a stage, answered by the cache.                              *)
(***************************************************************************)
Missing(c) == View(CurrentKey(c)) = Nil
\* Mutant: an object without a recorded hash counts as current.
HashDiffersIfKnown(c) ==
  LET h == HashKey(CurrentKey(c))
  IN  hashStore[h] # Nil /\ hashStore[h] # CurrentContent(c)

HashDiffers(c) == hashStore[HashKey(CurrentKey(c))] # CurrentContent(c)

\* Mutant: the ready replicas are not compared.
StatusReadyRevisionOnly(c) ==
  LET status == View(CurrentKey(c)).status
  IN  Stage(c) = "ss" => status.current = status.update

(***************************************************************************)
(* What reconcileStatefulSet requires of the status before it lets the     *)
(* pass go on; other kinds of object have no such condition.               *)
(***************************************************************************)
StatusReady(c) ==
  LET status == View(CurrentKey(c)).status
  IN  Stage(c) = "ss" =>
        /\ status.ready = Dep(c, pass[c].gen, pass[c].at.dep).size
        /\ status.current = status.update

(***************************************************************************)
(* The cache holds no objects of a namespace that is not watched: a Get    *)
(* there is an error, not a NotFound.                                      *)
(***************************************************************************)
GetUnwatched(c) ==
  /\ InPhase(c, "get") /\ ~Watches(CurrentKey(c).ns)
  /\ Fail(c)
  /\ UNCHANGED <<gen, api, cache, hashStore, faults, history>>

Answered(c) == InPhase(c, "get") /\ ~BuildFails(c) /\ Watches(CurrentKey(c).ns)

GetMissing(c) ==
  /\ Answered(c)
  /\ Missing(c)
  /\ pass' = [pass EXCEPT ![c].phase = "create"]
  /\ UNCHANGED <<gen, api, cache, hashStore, queued, timer, faults, history>>

(***************************************************************************)
(* The resourceVersion an Update is conditional on; 0 for none.            *)
(***************************************************************************)
Precondition(k) == IF k.kind \in {"svc", "pdb"} THEN View(k).rv ELSE 0

GetDiffers(c) ==
  /\ Answered(c)
  /\ ~Missing(c) /\ HashDiffers(c)
  /\ pass' = [pass EXCEPT
       ![c].phase = IF CurrentKey(c).kind = "cfg" THEN "bootstrap" ELSE "update",
       ![c].v2 = FALSE,
       ![c].rv = Precondition(CurrentKey(c))]
  /\ UNCHANGED <<gen, api, cache, hashStore, queued, timer, faults, history>>

\* Mutant: every Update of a ConfigMap injects the annotation.
BootstrapAssumed(k) == TRUE

(***************************************************************************)
(* bootstrapDone: a ConfigMap gets the annotation only if hashStore        *)
(* already knows it.  This is a second read of hashStore: another worker   *)
(* may have recorded a hash since the first.                               *)
(***************************************************************************)
BootstrapDone(k) == hashStore[HashKey(k)] # Nil

ReadBootstrapDone(c) ==
  /\ InPhase(c, "bootstrap")
  /\ pass' = [pass EXCEPT ![c].phase = "update", ![c].v2 = BootstrapDone(CurrentKey(c))]
  /\ UNCHANGED <<gen, api, cache, hashStore, queued, timer, faults, history>>

GetNotReady(c) ==
  /\ Answered(c)
  /\ ~Missing(c) /\ ~HashDiffers(c) /\ ~StatusReady(c)
  /\ RequeueAfter(c)
  /\ UNCHANGED <<gen, api, cache, hashStore, faults, history>>

GetCurrent(c) ==
  /\ Answered(c)
  /\ ~Missing(c) /\ ~HashDiffers(c) /\ StatusReady(c)
  /\ Continue(c, pass[c].ver)
  /\ MarkApplied(c, CurrentKey(c))
  /\ UNCHANGED <<gen, api, cache, hashStore, faults, readySeen, restarts>>

(***************************************************************************)
(* The API server creates the object.                                      *)
(***************************************************************************)
CommitCreate(c) ==
  LET k == CurrentKey(c)
  IN  /\ api[k] = Nil
      /\ api' = [api EXCEPT ![k] = NewObject(CurrentContent(c))]
      /\ readySeen' = IF k.kind = "ss" THEN [readySeen EXCEPT ![k] = @ \cup {0}] ELSE readySeen
      /\ MarkApplied(c, k)

(***************************************************************************)
(* The HbaseStandalone controller passes on the resourceVersion that       *)
(* Create filled into its hadoop ConfigMap; in every other case that field *)
(* is empty.                                                               *)
(***************************************************************************)
VersionAfterCreate(c) ==
  IF Meta[c].kind = "standalone" /\ Stage(c) = "hadoopcfg" THEN 1 ELSE pass[c].ver

\* Mutant: the pass goes on after every kind of Create.
CreateGoesOn(c) ==
  /\ InPhase(c, "create")
  /\ CommitCreate(c)
  /\ Continue(c, VersionAfterCreate(c))
  /\ UNCHANGED <<gen, cache, hashStore, faults, restarts>>

(***************************************************************************)
(* A Create that succeeds records no hash.  After a Service or a ConfigMap *)
(* the pass goes on, after a StatefulSet or a PodDisruptionBudget it is    *)
(* requeued.                                                               *)
(***************************************************************************)
Create(c) ==
  /\ InPhase(c, "create")
  /\ CommitCreate(c)
  /\ IF Stage(c) \in {"ss", "pdb"} THEN RequeueAfter(c) ELSE Continue(c, VersionAfterCreate(c))
  /\ UNCHANGED <<gen, cache, hashStore, faults, restarts>>

(***************************************************************************)
(* The cache had not seen the object yet.                                  *)
(***************************************************************************)
CreateAlreadyExists(c) ==
  /\ InPhase(c, "create")
  /\ api[CurrentKey(c)] # Nil
  /\ Fail(c)
  /\ UNCHANGED <<gen, api, cache, hashStore, faults, history>>

Conflict(c) == pass[c].rv # 0 /\ api[CurrentKey(c)].rv # pass[c].rv

CommitUpdate(c) ==
  LET k == CurrentKey(c)
      o == Updated(api[k], CurrentContent(c), pass[c].v2)
  IN  /\ api[k] # Nil /\ ~Conflict(c)
      /\ api' = [api EXCEPT ![k] = o]
      /\ restarts' = IF k.kind = "ss" /\ RevisionOf(o) # RevisionOf(api[k])
                     THEN [restarts EXCEPT ![k] = @ + 1] ELSE restarts
      /\ MarkApplied(c, k)

Update(c) ==
  /\ InPhase(c, "update")
  /\ CommitUpdate(c)
  /\ pass' = [pass EXCEPT ![c].phase = "store"]
  /\ UNCHANGED <<gen, cache, hashStore, queued, timer, faults, readySeen>>

UpdateConflict(c) ==
  /\ InPhase(c, "update")
  /\ api[CurrentKey(c)] # Nil /\ Conflict(c)
  /\ Fail(c)
  /\ UNCHANGED <<gen, api, cache, hashStore, faults, history>>

(***************************************************************************)
(* After a successful Update the hash is recorded and the pass requeued.   *)
(***************************************************************************)
StoreHash(c) ==
  /\ InPhase(c, "store")
  /\ hashStore' = [hashStore EXCEPT ![HashKey(CurrentKey(c))] = CurrentContent(c)]
  /\ RequeueAfter(c)
  /\ UNCHANGED <<gen, api, cache, faults, history>>

ReconcileStep(c) ==
  \/ ValidateConfiguration(c) \/ GetConfigVersion(c)
  \/ BuildError(c) \/ GetUnwatched(c)
  \/ GetMissing(c) \/ GetDiffers(c) \/ GetNotReady(c) \/ GetCurrent(c)
  \/ ReadBootstrapDone(c)
  \/ Create(c) \/ CreateAlreadyExists(c)
  \/ Update(c) \/ UpdateConflict(c) \/ StoreHash(c)

------------------------------------------------------------------------------
(***************************************************************************)
(* Events.  There is one informer per kind of object, fed by one ordered   *)
(* watch stream; it catches up with the API server.  A StatefulSet event   *)
(* enqueues its owner in the controllers that declare Owns(StatefulSet).   *)
(***************************************************************************)
OwnsStatefulSets(c) == Meta[c].kind \in {"cluster", "tenant"}

Owns(c, k) == /\ k.kind = "ss" /\ k.ns = Meta[c].ns /\ k.name \in DepNames(c)
              /\ OwnsStatefulSets(c)

InformerSync(kind) ==
  LET behind == {k \in Keys : k.kind = kind /\ cache[k] # api[k]}
  IN  /\ kind \in Lagging
      /\ behind # {}
      /\ cache' = [k \in Keys |-> IF k.kind = kind THEN api[k] ELSE cache[k]]
      /\ queued' = queued \cup {c \in CRs : \E k \in behind : Owns(c, k)}
      /\ UNCHANGED <<gen, api, hashStore, timer, pass, faults, history>>

(***************************************************************************)
(* RequeueAfter is 5s or 10s.  Unless "slowInformer" is allowed, that is   *)
(* taken to be longer than the informer needs to deliver what is pending.  *)
(***************************************************************************)
RequeueTimer(c) ==
  /\ c \in timer
  /\ "slowInformer" \in Env \/ \A k \in Keys : View(k) = api[k]
  /\ timer' = timer \ {c}
  /\ queued' = queued \cup {c}
  /\ UNCHANGED <<gen, api, cache, hashStore, pass, faults, history>>

(***************************************************************************)
(* The informers' periodic resync of the custom resources.                 *)
(***************************************************************************)
Resync(c) ==
  /\ "resync" \in Env
  /\ c \notin queued /\ ~Running(c)
  /\ queued' = queued \cup {c}
  /\ UNCHANGED <<gen, api, cache, hashStore, timer, pass, faults, history>>

(***************************************************************************)
(* The user's next edit of the custom resource reaches the operator.       *)
(***************************************************************************)
UserEdit(c) ==
  /\ gen[c] < Len(Script[c])
  /\ gen' = [gen EXCEPT ![c] = @ + 1]
  /\ queued' = queued \cup {c}
  /\ UNCHANGED <<api, cache, hashStore, timer, pass, faults, history>>

------------------------------------------------------------------------------
(***************************************************************************)
(* The StatefulSet controller of Kubernetes.  It is not part of the        *)
(* repository: it is modelled by the status fields the operator reads.     *)
(***************************************************************************)
SetStatus(k, status) ==
  /\ api' = [api EXCEPT ![k].status = status]
  /\ readySeen' = [readySeen EXCEPT ![k] = @ \cup {status.ready}]
  /\ UNCHANGED <<gen, cache, hashStore, queued, timer, pass, applied, restarts>>

Observed(k) == api[k] # Nil /\ api[k].status.update = RevisionOf(api[k])
Rolling(k) == api[k].status.current # api[k].status.update

StsObserve(k) ==
  /\ api[k] # Nil /\ ~Observed(k)
  /\ LET st == api[k].status
         rev == RevisionOf(api[k])
     IN SetStatus(k, [st EXCEPT !.update = rev, !.replaced = 0,
                                !.current = IF @ = Nil THEN rev ELSE @])
  /\ UNCHANGED faults

StsPodReady(k) ==
  /\ Observed(k) /\ api[k].status.ready < api[k].spec.size
  /\ SetStatus(k, [api[k].status EXCEPT !.ready = @ + 1])
  /\ UNCHANGED faults

StsPodRemoved(k) ==
  /\ Observed(k) /\ api[k].status.ready > api[k].spec.size
  /\ SetStatus(k, [api[k].status EXCEPT !.ready = @ - 1])
  /\ UNCHANGED faults

StsReplacePod(k) ==
  /\ Observed(k) /\ Rolling(k)
  /\ api[k].status.ready = api[k].spec.size
  /\ api[k].status.replaced < api[k].spec.size
  /\ SetStatus(k, [api[k].status EXCEPT !.ready = @ - 1, !.replaced = @ + 1])
  /\ UNCHANGED faults

StsRolloutDone(k) ==
  /\ Observed(k) /\ Rolling(k)
  /\ api[k].status.ready = api[k].spec.size
  /\ api[k].status.replaced >= api[k].spec.size
  /\ SetStatus(k, [api[k].status EXCEPT !.current = api[k].status.update, !.replaced = 0])
  /\ UNCHANGED faults

StatefulSetController(k) ==
  \/ StsObserve(k) \/ StsPodReady(k) \/ StsPodRemoved(k)
  \/ StsReplacePod(k) \/ StsRolloutDone(k)

------------------------------------------------------------------------------
(***************************************************************************)
(* Faults.                                                                 *)
(***************************************************************************)
Fault(kind) ==
  /\ kind \in Env
  /\ faults < MaxFaults
  /\ faults' = faults + 1

(***************************************************************************)
(* The operator process dies and restarts: its memory is lost, the         *)
(* informers list everything and every CR is enqueued.                     *)
(***************************************************************************)
Crash ==
  /\ Fault("crash")
  /\ hashStore' = [h \in HashKeys |-> Nil]
  /\ pass' = [c \in CRs |-> Nil]
  /\ cache' = [k \in Keys |-> IF k.kind \in Lagging THEN api[k] ELSE Nil]
  /\ queued' = CRs
  /\ timer' = {}
  /\ UNCHANGED <<gen, api, history>>

(***************************************************************************)
(* A Get, Create or Update of a stage fails without effect.                *)
(***************************************************************************)
ApiError(c) ==
  /\ Fault("apiError")
  /\ \E phase \in {"get", "create", "update"} : InPhase(c, phase)
  /\ Fail(c)
  /\ UNCHANGED <<gen, api, cache, hashStore, history>>

(***************************************************************************)
(* The Get that looks for the config version fails: the error is logged,   *)
(* and the pass goes on with no version.                                   *)
(***************************************************************************)
ReadError(c) ==
  /\ Fault("readError")
  /\ Running(c) /\ Stage(c) = "version"
  /\ Continue(c, 0)
  /\ UNCHANGED <<gen, api, cache, hashStore, history>>

(***************************************************************************)
(* An API call takes effect, but its answer is lost: the code sees an      *)
(* error.                                                                  *)
(***************************************************************************)
LostReply(c) ==
  /\ Fault("lostReply")
  /\ \/ InPhase(c, "create") /\ CommitCreate(c) /\ UNCHANGED restarts
     \/ InPhase(c, "update") /\ CommitUpdate(c) /\ UNCHANGED readySeen
  /\ Fail(c)
  /\ UNCHANGED <<gen, cache, hashStore>>

PodFailure(k) ==
  /\ Fault("podFailure")
  /\ api[k] # Nil /\ api[k].status.ready > 0
  /\ SetStatus(k, [api[k].status EXCEPT !.ready = @ - 1])

------------------------------------------------------------------------------
Next ==
  \/ \E c \in CRs : StartReconcile(c) \/ ReconcileStep(c)
  \/ \E c \in CRs : RequeueTimer(c) \/ Resync(c) \/ UserEdit(c)
  \/ \E c \in CRs : ApiError(c) \/ ReadError(c) \/ LostReply(c)
  \/ \E kind \in ObjectKinds : InformerSync(kind)
  \/ \E k \in StsKeys : StatefulSetController(k) \/ PodFailure(k)
  \/ Crash

(***************************************************************************)
(* Workers, timers, informers and the StatefulSet controller keep running. *)
(* Starting a pass is strongly fair: the work queue is first in first out, *)
(* so a CR cannot be overtaken for ever when workers are scarce.  Nothing  *)
(* obliges the user to edit or a fault to happen.                          *)
(***************************************************************************)
Fairness ==
  /\ \A c \in CRs : /\ SF_vars(StartReconcile(c))
                    /\ WF_vars(ReconcileStep(c))
                    /\ WF_vars(RequeueTimer(c))
                    /\ WF_vars(Resync(c))
  /\ \A kind \in ObjectKinds : WF_vars(InformerSync(kind))
  /\ \A k \in StsKeys : WF_vars(StatefulSetController(k))

Spec == Init /\ [][Next]_vars /\ Fairness
==============================================================================
