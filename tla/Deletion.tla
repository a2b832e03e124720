------------------------------- MODULE Deletion -------------------------------
(***************************************************************************)
(* The life and death of custom resources: a CR is deleted and may be      *)
(* created again under its name, while a Reconcile call of an earlier      *)
(* incarnation is still running, while the garbage collector removes what  *)
(* that incarnation owned, and while hashStore remembers what it wrote.    *)
(*                                                                         *)
(* The stages, keys and contents are those of module Resources; index u of *)
(* Script[c] is here the spec of incarnation u.  Module Operator treats    *)
(* edits, readiness and the config version in detail, for CRs that live    *)
(* for ever; here a StatefulSet is ready or not, and no pod follows its    *)
(* configuration.                                                          *)
(***************************************************************************)
EXTENDS Resources

CONSTANTS
  Lagging,     \* kinds of object whose informer may lag behind the API server
  MaxCrashes   \* how often the operator may restart

ASSUME DeletionAssumption ==
  /\ Lagging \subseteq {"cfg", "ss"}
  /\ MaxCrashes \in Nat
  /\ \A c \in CRs : Meta[c].kind # "standalone"
  /\ \A c \in CRs : \A u \in DOMAIN Script[c] : Script[c][u].label = "off" /\ Script[c][u].valid

VARIABLES
  uid,        \* per CR, the number of its last incarnation
  alive,      \* whether that incarnation exists
  api,        \* the objects in the API server
  cache,      \* what the informers of the Lagging kinds have seen of them
  hashStore,  \* per HashKey, the hash last recorded
  queued,     \* CR names in the work queue
  pass,       \* per CR name, the Reconcile call in progress, or Nil
  crashes,    \* restarts so far
  accepted    \* history: incarnation that last went past each StatefulSet

vars == <<uid, alive, api, cache, hashStore, queued, pass, crashes, accepted>>
crs == <<uid, alive>>

\* Mutant: no object gets a controller reference.
OwnerNone(c, u, k) == 0

(***************************************************************************)
(* owner is the incarnation in the controller reference of an object, 0    *)
(* for none: SetControllerReference refuses a namespace that is not the    *)
(* CR's, and its error is dropped.  An object's CR is fixed by its key.    *)
(***************************************************************************)
Owner(c, u, k) == IF k.ns = Meta[c].ns THEN u ELSE 0

Object == [spec : Content, owner : Nat, ready : BOOLEAN]
Hash == [spec : Content, owner : Nat]

ASSUME NilAssumption == Nil \notin Object \cup Hash

Phases == {"get", "create", "update", "store"}
Pass == [uid : Nat, at : Cursor, phase : Phases]

View(k) == IF k.kind \in Lagging THEN cache[k] ELSE api[k]

Running(c) == pass[c] # Nil
Stage(c) == pass[c].at.stage
CurrentKey(c) == KeyAt(c, pass[c].uid, pass[c].at)
CurrentContent(c) == Desired(c, pass[c].uid, pass[c].at, 0)
InPhase(c, phase) == Running(c) /\ Stage(c) \in ObjectStages /\ pass[c].phase = phase

\* Mutant: only the spec of a StatefulSet or budget is hashed.
HashOfSpec(c) == [spec |-> CurrentContent(c), owner |-> 0]

\* Mutant: the hash is recorded without the owner it covers.
HashWithoutOwner(c) == [spec |-> CurrentContent(c)]

(***************************************************************************)
(* What is hashed: the spec of a Service, the data of a ConfigMap, but the *)
(* whole object, owner included, for the other kinds.                      *)
(***************************************************************************)
CurrentHash(c) ==
  [spec |-> CurrentContent(c),
   owner |-> IF Stage(c) \in {"ss", "pdb"} THEN pass[c].uid ELSE 0]

Init ==
  /\ uid = [c \in CRs |-> 1]
  /\ alive = [c \in CRs |-> TRUE]
  /\ api = [k \in Keys |-> Nil]
  /\ cache = [k \in Keys |-> Nil]
  /\ hashStore = [h \in HashKeys |-> Nil]
  /\ queued = CRs
  /\ pass = [c \in CRs |-> Nil]
  /\ crashes = 0
  /\ accepted = [k \in StsKeys |-> 0]

------------------------------------------------------------------------------
(***************************************************************************)
(* How a pass goes on or ends, as in module Operator.                      *)
(***************************************************************************)
Continue(c) ==
  LET next == After(c, pass[c].uid, pass[c].at)
  IN  /\ pass' = [pass EXCEPT ![c] =
                    IF next.stage = "done" THEN Nil ELSE [@ EXCEPT !.at = next, !.phase = "get"]]
      /\ UNCHANGED queued

(***************************************************************************)
(* Reconcile returned RequeueAfter or an error: the request comes back; as *)
(* a worker may take it at any later time, the delay needs no state.       *)
(***************************************************************************)
Retry(c) ==
  /\ pass' = [pass EXCEPT ![c] = Nil]
  /\ queued' = queued \cup {c}

(***************************************************************************)
(* A worker takes a request; a CR that no longer exists is ignored.        *)
(***************************************************************************)
StartReconcile(c) ==
  /\ c \in queued /\ ~Running(c)
  /\ queued' = queued \ {c}
  /\ pass' = IF alive[c]
             THEN [pass EXCEPT ![c] = [uid |-> uid[c], at |-> Start(c, uid[c]), phase |-> "get"]]
             ELSE pass
  /\ UNCHANGED <<crs, api, cache, hashStore, crashes, accepted>>

(***************************************************************************)
(* Validation and the choice of a config version change nothing here.      *)
(***************************************************************************)
PassBy(c) ==
  /\ Running(c) /\ Stage(c) \notin ObjectStages
  /\ Continue(c)
  /\ UNCHANGED <<crs, api, cache, hashStore, crashes, accepted>>

GetMissing(c) ==
  /\ InPhase(c, "get")
  /\ View(CurrentKey(c)) = Nil
  /\ pass' = [pass EXCEPT ![c].phase = "create"]
  /\ UNCHANGED <<crs, api, cache, hashStore, queued, crashes, accepted>>

\* Mutant: an object with no hash on record is taken for current.
HashDiffersIfKnown(c) ==
  hashStore[HashKey(CurrentKey(c))] \notin {Nil, CurrentHash(c)}

HashDiffers(c) == hashStore[HashKey(CurrentKey(c))] # CurrentHash(c)

GetDiffers(c) ==
  /\ InPhase(c, "get")
  /\ View(CurrentKey(c)) # Nil /\ HashDiffers(c)
  /\ pass' = [pass EXCEPT ![c].phase = "update"]
  /\ UNCHANGED <<crs, api, cache, hashStore, queued, crashes, accepted>>

Ready(c) == Stage(c) = "ss" => View(CurrentKey(c)).ready

GetNotReady(c) ==
  /\ InPhase(c, "get")
  /\ View(CurrentKey(c)) # Nil /\ ~HashDiffers(c) /\ ~Ready(c)
  /\ Retry(c)
  /\ UNCHANGED <<crs, api, cache, hashStore, crashes, accepted>>

GetCurrent(c) ==
  /\ InPhase(c, "get")
  /\ View(CurrentKey(c)) # Nil /\ ~HashDiffers(c) /\ Ready(c)
  /\ Continue(c)
  /\ accepted' = IF Stage(c) = "ss"
                 THEN [accepted EXCEPT ![CurrentKey(c)] = pass[c].uid] ELSE accepted
  /\ UNCHANGED <<crs, api, cache, hashStore, crashes>>

Create(c) ==
  LET k == CurrentKey(c)
  IN  /\ InPhase(c, "create")
      /\ api[k] = Nil
      /\ api' = [api EXCEPT ![k] = [spec |-> CurrentContent(c),
                                    owner |-> Owner(c, pass[c].uid, k), ready |-> FALSE]]
      /\ IF Stage(c) \in {"ss", "pdb"} THEN Retry(c) ELSE Continue(c)
      /\ UNCHANGED <<crs, cache, hashStore, crashes, accepted>>

CreateAlreadyExists(c) ==
  /\ InPhase(c, "create")
  /\ api[CurrentKey(c)] # Nil
  /\ Retry(c)
  /\ UNCHANGED <<crs, api, cache, hashStore, crashes, accepted>>

(***************************************************************************)
(* An Update replaces the references too: the object is adopted.           *)
(***************************************************************************)
Update(c) ==
  LET k == CurrentKey(c)
  IN  /\ InPhase(c, "update")
      /\ api[k] # Nil
      /\ api' = [api EXCEPT ![k] = [spec |-> CurrentContent(c),
                                    owner |-> Owner(c, pass[c].uid, k),
                                    ready |-> @.ready /\ @.spec = CurrentContent(c)]]
      /\ pass' = [pass EXCEPT ![c].phase = "store"]
      /\ UNCHANGED <<crs, cache, hashStore, queued, crashes, accepted>>

(***************************************************************************)
(* The garbage collector was faster than the Update.                       *)
(***************************************************************************)
UpdateNotFound(c) ==
  /\ InPhase(c, "update")
  /\ api[CurrentKey(c)] = Nil
  /\ Retry(c)
  /\ UNCHANGED <<crs, api, cache, hashStore, crashes, accepted>>

StoreHash(c) ==
  /\ InPhase(c, "store")
  /\ hashStore' = [hashStore EXCEPT ![HashKey(CurrentKey(c))] = CurrentHash(c)]
  /\ Retry(c)
  /\ UNCHANGED <<crs, api, cache, crashes, accepted>>

ReconcileStep(c) ==
  \/ PassBy(c) \/ GetMissing(c) \/ GetDiffers(c) \/ GetNotReady(c) \/ GetCurrent(c)
  \/ Create(c) \/ CreateAlreadyExists(c) \/ Update(c) \/ UpdateNotFound(c) \/ StoreHash(c)

------------------------------------------------------------------------------
(***************************************************************************)
(* Users, informers, garbage collector and StatefulSet controller.         *)
(***************************************************************************)
DeleteCR(c) ==
  /\ alive[c]
  /\ alive' = [alive EXCEPT ![c] = FALSE]
  /\ queued' = queued \cup {c}
  /\ UNCHANGED <<uid, api, cache, hashStore, pass, crashes, accepted>>

RecreateCR(c) ==
  /\ ~alive[c] /\ uid[c] < Len(Script[c])
  /\ uid' = [uid EXCEPT ![c] = @ + 1]
  /\ alive' = [alive EXCEPT ![c] = TRUE]
  /\ queued' = queued \cup {c}
  /\ UNCHANGED <<api, cache, hashStore, pass, crashes, accepted>>

(***************************************************************************)
(* The CR that objects of key k belong to: the requests that StatefulSet   *)
(* events cause name it, whichever incarnation the object refers to.       *)
(***************************************************************************)
CROf == [k \in Keys |-> CHOOSE c \in CRs : k \in KeysOf(c)]

(***************************************************************************)
(* An object is collected when the incarnation it refers to is gone.       *)
(***************************************************************************)
Orphaned(k) ==
  /\ api[k] # Nil /\ api[k].owner # 0
  /\ ~(alive[CROf[k]] /\ uid[CROf[k]] = api[k].owner)

SetObject(k, o) ==
  /\ api' = [api EXCEPT ![k] = o]
  /\ queued' = IF k.kind = "ss" /\ k.kind \notin Lagging THEN queued \cup {CROf[k]} ELSE queued
  /\ UNCHANGED <<crs, cache, hashStore, pass, crashes, accepted>>

Collect(k) == Orphaned(k) /\ SetObject(k, Nil)

StatefulSetReady(k) ==
  /\ api[k] # Nil /\ ~api[k].ready
  /\ SetObject(k, [api[k] EXCEPT !.ready = TRUE])

InformerSync(kind) ==
  LET behind == {k \in Keys : k.kind = kind /\ cache[k] # api[k]}
  IN  /\ kind \in Lagging /\ behind # {}
      /\ cache' = [k \in Keys |-> IF k.kind = kind THEN api[k] ELSE cache[k]]
      /\ queued' = IF kind = "ss" THEN queued \cup {CROf[k] : k \in behind} ELSE queued
      /\ UNCHANGED <<crs, api, hashStore, pass, crashes, accepted>>

Resync(c) ==
  /\ alive[c] /\ c \notin queued /\ ~Running(c)
  /\ queued' = queued \cup {c}
  /\ UNCHANGED <<crs, api, cache, hashStore, pass, crashes, accepted>>

Crash ==
  /\ crashes < MaxCrashes
  /\ crashes' = crashes + 1
  /\ hashStore' = [h \in HashKeys |-> Nil]
  /\ pass' = [c \in CRs |-> Nil]
  /\ cache' = [k \in Keys |-> IF k.kind \in Lagging THEN api[k] ELSE Nil]
  /\ queued' = {c \in CRs : alive[c]}
  /\ UNCHANGED <<crs, api, accepted>>

Next ==
  \/ \E c \in CRs : StartReconcile(c) \/ ReconcileStep(c)
  \/ \E c \in CRs : DeleteCR(c) \/ RecreateCR(c) \/ Resync(c)
  \/ \E k \in Keys : Collect(k)
  \/ \E k \in StsKeys : StatefulSetReady(k)
  \/ \E kind \in Lagging : InformerSync(kind)
  \/ Crash

(***************************************************************************)
(* The operator, the garbage collector, the StatefulSet controller and     *)
(* resync keep running; users and crashes are not obliged to anything.     *)
(***************************************************************************)
Fairness ==
  /\ \A c \in CRs : /\ WF_vars(StartReconcile(c)) /\ WF_vars(ReconcileStep(c))
                    /\ WF_vars(Resync(c))
  /\ WF_vars(\E k \in Keys : Collect(k))
  /\ WF_vars(\E k \in StsKeys : StatefulSetReady(k))
  /\ \A kind \in Lagging : WF_vars(InformerSync(kind))

Spec == Init /\ [][Next]_vars /\ Fairness

------------------------------------------------------------------------------
(***************************************************************************)
(* Type invariant; a running pass belongs to an incarnation there was and  *)
(* stands where that incarnation's spec can take it.                       *)
(***************************************************************************)
PassOK(c) ==
  pass[c] # Nil => pass[c].uid \in 1 .. uid[c] /\ CursorOK(c, pass[c].uid, pass[c].at)

TypeOK ==
  /\ uid \in [CRs -> Nat \ {0}] /\ \A c \in CRs : uid[c] \in DOMAIN Script[c]
  /\ alive \in [CRs -> BOOLEAN]
  /\ api \in [Keys -> Object \cup {Nil}] /\ cache \in [Keys -> Object \cup {Nil}]
  /\ hashStore \in [HashKeys -> Hash \cup {Nil}]
  /\ queued \subseteq CRs
  /\ pass \in [CRs -> Pass \cup {Nil}]
  /\ \A c \in CRs : PassOK(c)
  /\ crashes \in 0 .. MaxCrashes
  /\ accepted \in [StsKeys -> Nat]

(***************************************************************************)
(* A recreated CR does not lose its pods: once a pass of the living        *)
(* incarnation has gone past a StatefulSet, that StatefulSet exists and    *)
(* refers to this incarnation, so the garbage collection of the previous   *)
(* one cannot take it away, whatever pass of the previous one was still    *)
(* running (reconcileStatefulSet hashes the owner reference too).          *)
(***************************************************************************)
AdoptedBeforeAccepted ==
  \A c \in CRs : \A d \in DepNames(c) :
    LET k == StsKey(c, d)
    IN  alive[c] /\ accepted[k] = uid[c] => api[k] # Nil /\ api[k].owner = uid[c]

(***************************************************************************)
(* A deleted CR is cleaned up: if it stays deleted, every object goes      *)
(* except the ConfigMaps in other namespaces, which have no owner; a pass  *)
(* that was running when the CR was deleted and creates objects again does *)
(* not change that ("Owned objects are automatically garbage collected").  *)
(***************************************************************************)
CleanedUp(c) ==
  \A k \in Keys : CROf[k] = c /\ api[k] # Nil => k.kind = "cfg" /\ k.ns # Meta[c].ns

Collected == \A c \in CRs : <>[](~alive[c] => CleanedUp(c))

(***************************************************************************)
(* A recreated CR becomes complete: every object of its spec exists, holds *)
(* what the spec says, and has the living incarnation as its owner if it   *)
(* has one.  Services and ConfigMaps of the previous incarnation may be    *)
(* taken for current and be collected afterwards, without any event; only  *)
(* the periodic resync brings them back.                                   *)
(***************************************************************************)
Wanted(c) ==
  {At("svc", 0, 0)}
    \cup {At(s, 0, n) : s \in {"hbasecfg", "hadoopcfg"}, n \in 1 .. Len(ConfigNamespaces(c, uid[c]))}
    \cup {At("ss", i, 0) : i \in 1 .. Len(Deployments(c, uid[c]))}
    \cup UNION {{At("podsvc", i, n) : n \in 1 .. Dep(c, uid[c], i).size} :
                  i \in {j \in 1 .. Len(Deployments(c, uid[c])) :
                           Meta[c].kind = "cluster" /\ Dep(c, uid[c], j).podsvc}}
    \cup {At("pdb", i, 0) : i \in {j \in 1 .. Len(Deployments(c, uid[c])) : Dep(c, uid[c], j).pdb # 0}}

Complete(c) ==
  \A a \in Wanted(c) :
    LET k == KeyAt(c, uid[c], a)
    IN  /\ api[k] # Nil
        /\ api[k].spec = Desired(c, uid[c], a, 0)
        /\ api[k].owner = Owner(c, uid[c], k)

BecomesComplete == \A c \in CRs : <>[](alive[c] => Complete(c))
==============================================================================
