# The HBase operator in TLA+

This directory is a verification project for the HBase Kubernetes operator of
this repository: TLA+ modules that model its controllers, TLC configurations that
check them on small instances, and TLAPS proofs of what holds for every instance.

    tlc -workers 2 -config ClusterUpgrade.cfg MCCluster     # one of the runs below
    tlapm RolloutProofs.tla                                 # the proofs of one module
    for m in *Proofs.tla; do tlapm $m; done                 # all of them

`PROJECT.json` is the index: components, runs, the source lines behind every
definition, mutants, findings, hazards and theorems.

## 1. The system

The operator (`operator/`) is one process with three controllers built on
controller-runtime. Each turns one kind of custom resource (CR) into a Service,
two ConfigMaps, StatefulSets and PodDisruptionBudgets.

| Component | State it keeps | Operations | Correct if |
|---|---|---|---|
| HbaseCluster controller (`hbasecluster_controller.go`) | none of its own | `Reconcile`: Service, validation, ConfigMaps of every tenant namespace and its own, config version, then per deployment (Zookeeper, Journalnode, Namenode, Datanode, Hmaster) pod Services, StatefulSet, budget; `SetupWithManager` | components come up and are upgraded in order, whatever interrupts a pass |
| HbaseTenant controller (`hbasetenant_controller.go`) | none; several workers | the same for one Datanode deployment; ConfigMaps only under a label; Service after them | an invalid configuration is not applied; a valid one is in the end, whatever fails on the way |
| HbaseStandalone controller (`hbasestandalone_controller.go`) | none | the same for one deployment; no `Owns`, so no StatefulSet events | requeues alone complete every change |
| Object reconcilers (`utils.go` 718-980) | `hashStore` | Get from the cache; Create, Update or go on; record the hash; wait for readiness | the hash on record and the object never part for good |
| `hashStore` (`hbasecluster_controller.go` 48) | process-wide Go map, lost at a restart | read and written by all workers | no interference |
| Config version (`utils.go` 72-124, annotations) | `update-time` of the ConfigMap, `hbase-config-version` of the pod template | choose the version all pods of a pass are stamped with | pods follow the configuration when asked to and restart for no other reason |
| Validation and ConfigMap builder (`utils.go` 451, 631) | none | `validateConfiguration`, `buildConfigMap` | verdict independent of map order; overrides per namespace |
| Object builders (`utils.go` 126-629, 855-941) | none | volumes, containers, labels, budgets | equal specs give equal hashes; selectors find their own pods |
| Events (`utils.go` 667-716) | event counts in the API server, shared by all workers | `publishEvent` | no written occurrence of a living Event lost, none invented, first occurrence kept |
| Set-up (`main.go`, `controller_options.go`) | flags | namespaces to watch, number of workers | an unwatched namespace does no lasting harm |
| Pod scripts, rack utility, charts (`helm-charts/`, `utilities/`) | files in `/lifecycle`, the balancer switch, znodes | start and stop of the daemons in a pod | regions are moved before the datanode of the pod stops; the balancer is off while they are and not left off; no script waits for ever |

Interactions. The controllers never call each other. They share the API server,
the informer cache through which every `Get` is answered, and `hashStore`. They
are driven by their work queues: an event of a CR, an event of an owned
StatefulSet (cluster and tenant), an elapsed `RequeueAfter`, or the retry of an
error. The StatefulSet controller of Kubernetes works concurrently on what they
write and answers through the status.

What is hard here: a Reconcile call is a long sequence of reads and writes that
may end at any stage and always starts again from the first; reads are stale;
the decision to write compares with the process's memory of its own writes and
not with the object; that memory is lost at a restart and shared between
workers; an update and the recording of its hash are not atomic; and readiness is
read from a status that may describe the previous template. The list under
`hazards` in `PROJECT.json` names the line of each.

## 2. Modules

| Module | Models |
|---|---|
| `Resources` | the CRs, the objects they stand for, the stages of the three `Reconcile` functions and their order, the builders, the hash keys; `CursorOK`: where a Reconcile call can stand. Constant-level: no variables |
| `Operator` | the controllers at work: queue, passes, cache, API server, `hashStore`, StatefulSet controller, edits, faults |
| `OperatorProperties` | what the operator should guarantee, and the mapping of `Operator` to `Rollout` |
| `Rollout` | abstract specification: a component is offered a generation only when all before it are complete in it |
| `Deletion` | deletion and re-creation of CRs: owner references, garbage collection, passes of a dead incarnation; the stages are those of `Resources` |
| `ConfigMaps` | `validateConfiguration` and `buildConfigMap` in detail |
| `Labels` | the label and selector builders |
| `Events` | `publishEvent` |
| `PodScripts` | the scripts of the datanode and region server containers |
| `MCCluster`, `MCShared`, `MCSharedConfig`, `MCDeletion`, `MCLabels` | instances: one HbaseCluster; a tenant, a standalone; a cluster and a tenant that share ConfigMaps; a cluster that dies and comes back; a cluster and a tenant in one namespace |
| `ResourcesProofs` | lemmas about `Resources` that the proofs share: cursors, keys, contents, what lies behind a cursor |
| `OperatorProofs`, `RolloutProofs` | theorems about `Operator`, and that it implements `Rollout` |
| `DeletionProofs`, `LabelsProofs`, `ConfigMapsProofs`, `EventsProofs`, `PodScriptsProofs` | theorems about the module of that name |

### How the state corresponds to the code

- `pass[c]` is the Reconcile call running for `c`: the generation it read, a cursor
  `at` (stage, deployment index, namespace or pod index), a `phase`, and the
  local variables that outlive a call: `ver` (`resourceVersionOfHbaseConfigMap`), `v2`
  (`bootstrapDone`) and `rv` (the resourceVersion copied into the object to update).
- One stage of the cursor is one call of `reconcileService`, `reconcileConfigMap`,
  `reconcileStatefulSet` or `reconcilePodDisruptionBudget`; the phases are its steps.
  `get` reads the cache and `hashStore` (`GetMissing`, `GetDiffers`, `GetNotReady`,
  `GetCurrent`), `create` and `update` call the API server (`Create`,
  `CreateAlreadyExists`, `Update`, `UpdateConflict`), `store` records the hash
  (`StoreHash`). Anything else may happen between two of them.
- `Continue`, `RequeueAfter` and `Fail` are the three ways a stage returns: an empty
  Result, `Result{RequeueAfter}`, an error. `After` says what follows each stage; it
  is where the three controllers differ.
- `api` is the API server, `cache` what the informers of the kinds in `Lagging` have
  seen of it; other kinds are read as they are. `InformerSync` brings one kind up to
  date and enqueues the owners.
- `timer` holds pending requeues, `queued` the work queues; `Workers` is
  `MaxConcurrentReconciles`. A queue never gives one CR to two workers.
- `gen[c]` is the generation of `c` in the operator's cache; `Script[c]` the specs
  the user writes one after the other (`UserEdit`).
- `Sts...` actions are the StatefulSet controller: observe a new template, make a
  pod ready, remove one, replace one, finish a rollout.
- `Crash`, `ApiError`, `ReadError`, `LostReply`, `PodFailure` are faults, at most
  `MaxFaults` of them, each kind only if `Env` allows it.
- `WatchNamespaces` is `getWatchNamespaces`: the additional namespaces, then
  `WATCH_NAMESPACE`, trimmed; `Watches` adds that an empty entry, or an empty list, means all.
  A Get in an unwatched namespace is an error (`GetUnwatched`).
- `readySeen`, `applied` and `restarts` are history variables: no action's guard
  reads them.

`Deletion` has the same passes with less in them: `uid` numbers the incarnations of a CR,
`Script[c][u]` is the spec of incarnation `u`, an object carries the incarnation in its
controller reference (0 where `SetControllerReference` refused it), and a hash covers the
owner exactly for the kinds whose whole object is marshalled. A StatefulSet is ready or not
and the label is off. `Collect` is the garbage collector, `Resync` the periodic resync.

`Events` has one step per API call of `publishEvent`; the time is the number of calls made. An Update with the
`resourceVersion` of another version is a conflict; one that finds no Event creates it, as the API server does for
Events (an Update that is refused instead is a `LogError`). `written` counts the writes per first occurrence.
`Labels` starts from every combination of user labels and lets the builders of each CR run in
the order of its pass; `labels` is the map in the memory of the pass, which `buildStatefulSet`
writes in place and `buildPodDisruptionBudget` reads.

`PodScripts` follows each script command by command. SIGTERM before the trap is set is either
ignored (bash as process 1) or fatal. `KillDn` and `KillRs` are the end of the grace period,
which has no length: sleeps are not modelled, and the kubelet may kill at any time after the signal.
`/lifecycle` survives a container restart and not the pod. A crash of the region server goes unnoticed
by its script, since `wait` also waits for the `tail` jobs. The exit status of `hbase shell` and of RegionMover is
not looked at: `SwitchFails` and `MoveFails` go on as if they had succeeded, and `failed` remembers it. `blind` pods
got an empty answer from `hdfs getconf`, with which the loop that waits for the socket ends at once. `tenants` says which
pods run the tenant variants.

### Abstractions

- Payloads are revision numbers. `Content` is what a hash covers; SHA-256 is taken
  to be collision-free, so `hashStore` holds contents. Template revision 0 stands for
  volumes `buildVolumes` rejects.
- A resourceVersion counts the content-changing writes of one object; the code only
  copies it and compares it for equality. An Update that changes nothing leaves it alone, as
  the API server does. Status writes do not count: of the kinds updated with a
  resourceVersion a Service has no status that changes here, and the conflict a budget's
  status could cause is a retry like any other.
- The concatenations `"cfg-"+name+namespace` and `name+"-"+index` are taken to be
  injective.
- An informer catches up with the whole of its kind at once, skipping intermediate
  states of an object; it never goes backwards.
- A failed `Get` of the CR itself is left out: it retries without any effect. A Get
  that fails in the code always fails before any effect of its stage.
- `publishEvent` is left out of the failing stages of `Operator`: nothing reads the events.
  Module `Events` models it with its concurrent callers.
- In `Operator` CRs and objects are not deleted, and CRs exist from the start; `Deletion` is
  about the rest. Objects that a smaller spec no longer lists stay, as in the code, which never
  deletes anything.
- One Event name, since different names do not interact; one namespace in `Labels`, since selectors
  do not cross namespaces.

### Bounds, timing, fairness

- `Script` bounds the edits, `MaxFaults` the faults; everything else is finite by
  itself. Crashes are bounded because each one makes the operator rewrite everything.
- `RequeueTimer` waits until the informers have delivered what is pending, i.e. 5s or
  10s are longer than a watch event needs. `slowInformer` removes that assumption;
  `ClusterUpgrade` runs without it.
- Weak fairness of the workers' steps, timers, informers, resync and the StatefulSet
  controller: they run on. Starting a pass is strongly fair: the work queue is first
  in first out, so a CR waiting for a worker gets one although the action is disabled
  whenever all workers are busy. Edits and faults have no fairness.
- `Deletion`: weak fairness of passes, informer, garbage collector, StatefulSet controller and
  resync (controller-runtime's `SyncPeriod`); none of users and crashes.
- `PodScripts`: weak fairness of the scripts, of the kubelet's signals and restarts. Killing
  at the end of the grace period has no fairness, so `ShutsDown` cannot be owed to it.
- Deadlock is not checked: when nothing is left to do the operator is idle.

## 3. Runs

Passing:

| Run | Instance | Shows |
|---|---|---|
| `cluster_upgrade` | one cluster of two deployments, sizes 2 to 1, new templates, pod Services and a budget; stale StatefulSet and ConfigMap reads; any one of crash, error, lost answer or pod failure; slow informers and resync | `TypeOK`; `DependenciesFirst`; `RolloutOrder`: a later component is never offered a newer generation than an earlier one; `RestartsAccountedFor`: at most one template change per edit; `NoForgottenWrite`: a hash that differs from the object implies a pass is due; `IdleMeansApplied`: the operator does not rest before all objects hold what the spec says; `OrderedBringUp`; `ImplementsRollout`: all of it refines `Rollout` |
| `cluster_config` | pods follow the configuration; Zookeeper is added with a new configuration and a tenant namespace, first one that is not watched; then `buildStatefulSet` rejects the Datanode, so the new stamp stays half way; then the repair, with the label off | `Converges`, with one stamp for all components, and `RestartsAccountedFor` |
| `tenant` | label from `config-only` to `true`, a configuration that is invalid in between; crash, failing calls and reads, lost answers, resync | `InvalidNeverApplied`, `Converges` |
| `standalone` | all four informers lag, one fault, scaled and changed spec and budget | `DependenciesFirst`; `RestartsAccountedFor` with the one restart this kind causes itself; `Converges` although no StatefulSet event ever arrives |
| `config_maps` | three files, two texts, two namespaces, up to two overriding elements | `VerdictExact`, `BuiltAsSpecified`, `MalformedExplained`: a malformed file is deployed only by an override or behind a Hadoop file of its name |
| `shared_config` | a cluster and the tenant of one of its tenantNamespaces, both following the configuration, late ConfigMap informer, one lost answer | `RestartsAccountedFor`: at most one restart of the tenant per CR that shares its ConfigMap; `IdleMeansApplied` |
| `deletion` | a cluster with a tenant namespace, deleted at any time, created again with the same Datanode and another configuration, or not; late StatefulSet informer, one operator restart | `AdoptedBeforeAccepted`: a StatefulSet relied on by the living incarnation is owned by it; `Collected`; `BecomesComplete` |
| `pod_scripts` | two pods, of the cluster or one of a tenant; deletion, one failing probe, crash, `hbase shell`, RegionMover or `hdfs getconf`; kills and restarts | `RegionsMovedFirst`, `SocketFirst`; `BalancerOffExplained`: the balancer is off only while a region server is between its switches, or was cut short there and none has switched it on since; `OffWhileUnloading`: a lone region server unloads with the balancer off, whatever tenants do; `ShutsDown`, also when commands fail |
| `events` | three workers, four calls, two expiries | `CountsEveryWrite`, `FirstOccurrenceKept`, `TimesInOrder` |
| `labels` | a cluster of two deployments and a tenant in one namespace; user labels over `app`, the StatefulSet-name label and one of the user's own | `SetsSelectOwnPods`, `BudgetsSelectOwnPods`, `ServicesSelectOwnPods` |

Two deployments are enough for an order between an earlier and a later one, two replicas
for a quorum that is partly ready, one fault for each place a pass can be interrupted at;
two generations for a change and three for a change and its repair; two incarnations for every
mixture of an old and a new one; two pods for the balancer; three workers for one that is overtaken by a
pair. Larger instances multiply states but add no new pair of stages.

Violations, each a disagreement between the code and something the repository says
(quoted under `findings`):

| Run | What happens |
|---|---|
| `rolling_together` | `RolloutOneByOne`: the readiness check does not look at `observedGeneration`; if the StatefulSet controller is slower than the requeue, the next component's template is changed before the previous one has begun to roll |
| `restart_loses_version` | `RestartsAccountedFor`: an operator restart empties `hashStore`, the first ConfigMap Update drops the annotation, the version stamp becomes empty and every pod of a labelled cluster restarts |

### What the runs need, and known limits of the code

The bounds of the runs leave these out on purpose: the properties do not hold there, by the
code as it is, and nothing in the repository says that they should.

- `Converges` of `tenant` depends on `resync` when reads may fail: `getStatefulSetAnnotation` and
  `getCfgResourceVersionIfV2OrNil` swallow errors, the pass goes on without a version, may
  find the old hash and end without a requeue, and only a later event makes the pods follow
  the configuration.
- `RestartsAccountedFor` holds with restarts of the operator only where pods do not follow
  the configuration (`restart_loses_version`).
- Hash keys of Services, StatefulSets and budgets lack the namespace (`HashKey`): two tenants whose
  Datanodes have one name overwrite each other's hash and update for ever.
- An Update takes effect, its answer is lost, the user reverts the edit: the hash on record matches and
  the object never does.
- `hashStore` is a plain Go map that the workers access without a lock; the runtime may stop the
  process, which is a `Crash` here.
- A standalone's first StatefulSet is stamped with `cfg.ResourceVersion`, which only the pass that
  created the ConfigMap knows; the next pass removes the stamp and all pods restart once.
- Two CRs that share a ConfigMap with different contents overwrite each other's for ever; with equal
  contents the idle one keeps an older stamp until a resync.
- After a deletion, the Service and ConfigMaps of the old incarnation may be taken for current (their
  hashes do not cover the owner) and be collected afterwards; no event tells the operator, and only resync
  restores them. ConfigMaps in other namespaces have no owner and stay for ever.
- `publishEvent` takes the time before it reads: `LastTimestamp` may precede `FirstTimestamp` when calls
  overtake each other. The `resourceVersion` that its TODO questions is required: without it writes are lost
  from the count (the mutant of `CountsEveryWrite`). It does not protect an Event that expired: an Update from a stale
  cache brings it back with its old `FirstTimestamp` and a count that may lack later occurrences.
- A deployment without labels has a budget that selects every pod of the namespace: the map
  `buildStatefulSet` makes is its own.
- `rs-terminated` is written before the region server is stopped. The stop may take 20s (`HBASE_STOP_TIMEOUT`), the
  datanode pauses for 5s: it may stop under a server that still runs. Which of the two happens is a matter of times, which
  the model does not have, so no property speaks of it.
- SIGTERM before the region server has set its trap leaves the datanode waiting for `rs-terminated` until it
  is killed. After a restart of one container the files in `/lifecycle` are those of its predecessor. A region
  server that is killed between its two switches, or cannot reach the master, leaves the balancer off until
  the next shutdown. Of several region servers that shut down at once, the first to finish switches the balancer on
  while the others still unload. When RegionMover fails, the server and the datanode stop with the regions not moved. With
  an empty answer of `hdfs getconf` the region server starts without the socket.
- StatefulSet events reach the work queue through their informer: `shared_config`, where that informer does not lag,
  leaves these wake-ups out. They only add passes; `cluster_upgrade`, `cluster_config` and `tenant` have them.

## 4. Proofs

Every invariant and every action property that a passing run checks is also the statement of
a theorem, for every value of the constants; three of them under hypotheses, which are named in the theorem and
explained below. The runs show the properties on small instances, with mutants that break them; the theorems show
that the size of the instances does not matter.

No theorem uses fairness, or the timing assumption of `RequeueTimer`.

### `Operator`

For any set of CRs of any kinds, any scripts of edits, numbers of workers, lagging informers, faults and bounds:

| Theorem | States | Inductive invariant |
|---|---|---|
| `OperatorProofs!TypeCorrect` | `[]TypeOK` | itself |
| `OperatorProofs!BringUpOrdered` | `OrderedBringUp` | `BringUpInv` |
| `RolloutProofs!DependenciesCorrect` | `[]DependenciesFirst` | `PassInv` |
| `RolloutProofs!UpgradeOrdered` | `[]RolloutOrder` | `RolloutInv` |
| `RolloutProofs!RolloutImplemented` | `ImplementsRollout` | `RolloutInv` |
| `RolloutProofs!InvalidStopped` | `[]InvalidNeverApplied` | `PassInv` and itself |
| `RolloutProofs!RestsWhenApplied` | `[]IdleMeansApplied`, under `Exclusive` and `NeverReverted` | `RestInv` |
| `RolloutProofs!NothingForgotten` | `[]NoForgottenWrite`, under `Exclusive`, without lost answers | `FaithfulInv` |
| `RolloutProofs!RestartsCorrect` | `[]RestartsAccountedFor`, under `NoneFollows`, for finitely many CRs | `RestartInv` |

- `TypeCorrect`. The substance is `PassOK`: a running pass stands at a deployment, namespace and pod that its own
  generation has. It rests on lemmas about the cursor (`DeploymentsLemma`, `EnterLemma`, `StartLemma`, `AfterLemma`), on
  `KeyLemma` (the object of every such cursor is one of `Keys`) and `DesiredLemma`, and then on one lemma per group of
  actions.
- `BringUpOrdered` is about a step; the invariant that carries it is

      BringUpInv == TypeOK /\ StatusSeen /\ BehindReached

  `StatusSeen`: every ready count in the API server, and every one in the cache, is in `readySeen`; without the cache a
  stale read could let a pass go on. `BehindReached`: every deployment the cursor has passed has its StatefulSet and
  has reached the size the pass's generation asks for. It is preserved because the cursor leaves a deployment's `ss` stage
  only by `GetCurrent`, and because `readySeen` only grows and nothing is deleted. `ApiStepLemma`, `CacheStepLemma` and
  `PassStepLemma` say once what any step can do to the API server, the cache and the passes.
- `DependenciesCorrect` and `InvalidStopped`. `DoneBehind`, in `PassInv`: the stages behind a cursor have their objects
  in the API server, and a pass beyond `validate` is of a valid generation. `ObjectStepLemma` and `PassMoveLemma` say what a
  step can do to one object and one pass.
- `UpgradeOrdered`. `RolloutInv` adds to `BringUpInv`: `AppliedBound` (no StatefulSet is at a later generation than a pass
  of its CR that runs), `BehindApplied` (what a pass has gone past is at the pass's own generation) and `WrittenExist`.
  A pass that takes a deployment to its generation has therefore taken all earlier ones there, and none is beyond.
- `RolloutImplemented`. `RolloutStepLemma`: each step marks a StatefulSet, edits, reports a ready count, or is not seen.
  `RolloutSimulation` maps these to the steps of `Rollout` or to a stutter, with `RolloutInv` for their guards.
- `RestsWhenApplied`. The code compares what it wants with `hashStore` and never with the object, so it has to be
  shown that the comparison is safe. `RestInv` says of each CR: `Tracked` (a hash on record is of a generation no later
  than the one the object comes from, and the object holds the content of some generation), `StoresWhatIsThere` (a pass
  about to record a hash has just written that content), `KeptBehind` (what a running pass has gone past is as its generation
  wants it), `EditsWait` (an edit not yet read has its CR in the queue) and `KeptAtRest`. If the hash
  equals what the pass wants, the object is between two generations that want the same, hence wants the same itself: this
  is where `NeverReverted` enters.
- `NothingForgotten`. `Faithful`: a hash and its object differ only while the pass that wrote the object is in its `store`
  phase.
- `RestartsCorrect`. `Paid`: a StatefulSet has the template of some generation `a` it was taken to, and has had no more
  restarts than edits up to `a` ask for, and for a standalone the one that takes its stamp away (`Unstamped`). `Traced`: between two generations with different templates some edit asks for a restart.
  That is a fact about the script, by induction over data, which the prover cannot do; as an invariant it is shown edit by edit,
  along `UserEdit`. `StampOK`: no pass and no StatefulSet of a cluster or a tenant, in the API server or in the cache, carries a
  config version (`NoStamp`); a pass of a standalone carries one only before there is a StatefulSet (`FirstStampOnly`), since
  it gets it when it creates the ConfigMap, and by `PassInv` no StatefulSet is there without its ConfigMaps.

The hypotheses are limits of the code and not of the proofs; `Exclusive`, `NeverReverted` and `NoneFollows` hold on the
instance of `cluster_upgrade`, where TLC also finds `RestInv` and `RestartInv` to be invariants (and `RestartInv` on that of
`standalone`):

- `Exclusive`: hash keys belong to one CR, whose two ConfigMaps have different names. CRs that share a ConfigMap, or name
  objects alike in different namespaces, overwrite each other's hashes.
- `NeverReverted`: no edit returns an object to an earlier content. After a lost answer and a reverting edit the
  hash on record matches and the object does not.
- `"lostReply" \notin Env`, for `NothingForgotten`: with a lost answer a differing hash is noticed by the retry, as TLC checks
  in `cluster_upgrade`, unless an edit drops the object before (a budget that is taken out of the spec: its hash stays wrong, which
  does no harm). For the objects the last spec lists, `RestsWhenApplied` allows lost answers.
- `NoneFollows`: no cluster or tenant has the label that makes pods follow the configuration. With that label, an operator restart
  rolls all pods (`restart_loses_version`). Operator restarts are allowed in the theorem, and so are standalones.

### The other modules

| Theorem | States | Inductive invariant |
|---|---|---|
| `DeletionProofs!TypeCorrect` | `[]TypeOK` | itself |
| `DeletionProofs!AdoptionCorrect` | `[]AdoptedBeforeAccepted` | `AdoptionInv` |
| `LabelsProofs!SetsCorrect`, `BudgetsCorrect`, `ServicesCorrect` | `SetsSelectOwnPods`, `BudgetsSelectOwnPods`, `ServicesSelectOwnPods` | `LabelsInv` |
| `ConfigMapsProofs!VerdictCorrect` | `[]VerdictExact` | `LoopInv` |
| `ConfigMapsProofs!BuiltCorrect`, `MalformedCorrect` | `[]BuiltAsSpecified`, `[]MalformedExplained` | `CollectInv` |
| `EventsProofs!TypeCorrect`, `CountsCorrect`, `FirstCorrect` | `[]TypeOK`, `[]CountsEveryWrite`, `FirstOccurrenceKept` | `EventInv` |
| `EventsProofs!TimesCorrect` | `[]TimesInOrder` | `TimesInv` |
| `PodScriptsProofs!TypeCorrect`, `RegionsCorrect`, `SocketCorrect` | `[]TypeOK`, `[]RegionsMovedFirst`, `[]SocketFirst` | `PodInv` |
| `PodScriptsProofs!BalancerCorrect`, `UnloadingCorrect` | `[]BalancerOffExplained`, `[]OffWhileUnloading` | `PodInv` |

- `AdoptionInv`: an incarnation `Claims` a StatefulSet when it was accepted for it, when `hashStore` holds its hash with
  this owner, or when the pass has written it and is about to record the hash. A claim of the last incarnation implies that the
  running pass is of that incarnation (`PassIsCurrent`: none of a dead one is left to write over it) and that the object has
  it as owner (`Owned`). `NoneFromTheFuture` keeps claims of incarnations to come out.
- `LabelsInv`: what is built comes from what the user gave (`DeploymentBuilt`), and the label map of a deployment carries the
  builder's labels as soon as its StatefulSet is built, unless the user left the map out, in which case the budget's is empty.
- `LoopInv`: the files the loop has gone past are not malformed, and it leaves only with a malformed one or when it has
  visited all. `CollectInv`: `tenantCfg` holds for each file what the last element so far that names it says (`FilesUpTo`).
- `EventInv`: `Known(o)` for the Event, the cache and what each worker has read: `o` got its version in the past, and if
  the API server still has that version it is the same Event. So an Update whose version matches goes on from what is there;
  the count alone is not inductive. What `o` counts was written, and its history has expired or is that of the Event that is
  there, so an Update that finds no Event can only bring back an expired one. `Unwritten`: a running call has a time of
  its own, at which nothing has first occurred yet. `TimesInv`: as long as no call was overtaken, no history that was written,
  expired ones included, began later than a call that is still running.
- `PodInv`: the files in `/lifecycle` tell the truth while their writer was not restarted, a region server is past its
  unloading only if RegionMover has moved the regions or failed (`PodOk`), tenants never touch the balancer, an owner of the
  switch that is off has its own switch-on ahead (`OffHasOwner`), and two region servers of the cluster between their switches
  are on record as overlapping (`AloneUnlessMet`), so that nobody undoes the switch-off of a lone one (`OffWhileAlone`).

### Assumptions

TLC evaluates all of them on each instance. `MetaAssumption` (CRs are well-formed, their deployments have distinct
names and only clusters list tenant namespaces) and `DistinctAssumption` (no two CRs of a namespace name a deployment alike) of `Resources`; `OperatorAssumption`,
`EventsAssumption`, `ConfigAssumption` and `PodAssumption` (ranges of the parameters); `DeletionAssumption` (what `Deletion` leaves out: no
standalone, label off, valid configurations); `LabelsAssumption` (deployment names are unique, as are the names of CRs of
whatever kind, which `Labels` identifies CRs by; a tenant has one deployment; users do
not set the label Kubernetes itself puts on the pods of a StatefulSet); and the `NilAssumption` of each module (`Nil` is not an
object, a hash or a pass).

### Only model-checked

- `Converges`, `Collected`, `BecomesComplete` and `ShutsDown`: liveness under fairness is outside the prover.
- `IdleMeansApplied` for CRs that share ConfigMaps with equal contents (`shared_config`), `NoForgottenWrite` with lost answers
  (`cluster_upgrade`), `RestartsAccountedFor` for pods that follow the configuration (`cluster_config`, `shared_config`): these
  lie outside the hypotheses above.

## 5. Plan

Next, in this order:

1. `RestartsAccountedFor` for labelled CRs whose ConfigMaps are read as they are, without restarts of the operator and lost answers:
   the version of a pass is that of the last annotated write of the ConfigMap, and such a write needs an edit of the configuration.
   (With a lost answer and a late informer two versions may be stamped for one edit.)
2. The safety that the liveness properties rest on: a pass of an accepted generation does not end without a requeue while
   a StatefulSet it read was not ready, and a region server's script can always go on once it has its signal.

## 6. Not modelled

- Generated deep copies and chart templates: no behaviour of their own.
- The contents of containers, probes and volumes: functions of the spec that enter the hash as one
  revision. HDFS, HBase and ZooKeeper themselves.
- The namenode, zkfc, ZooKeeper and init scripts: whether a failover or an election succeeds, and what a second
  format does, is decided outside the repository.
- The rack topology utility: nothing in the repository reads its file.
- Flags, metrics, health checks and leader election of `main.go`: start-up code; one operator process is assumed.
- Deletion of an HbaseStandalone: its template depends on which pass created the ConfigMap, which
  `Deletion` leaves out.
