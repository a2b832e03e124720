---------------------------- MODULE DeletionProofs ----------------------------
(***************************************************************************)
(* Proofs about module Deletion, for any custom resources, incarnations,   *)
(* lagging informers and number of operator restarts.                      *)
(***************************************************************************)
EXTENDS Deletion, ResourcesProofs

------------------------------------------------------------------------------
(***************************************************************************)
(* Type correctness.                                                       *)
(***************************************************************************)

(***************************************************************************)
(* What TypeOK says of a running pass.                                     *)
(***************************************************************************)
LEMMA PassLemma ==
  ASSUME TypeOK, NEW c \in CRs, pass[c] # Nil
  PROVE  /\ pass[c] \in Pass /\ pass[c].uid \in 1 .. uid[c] /\ uid[c] \in Nat
         /\ pass[c].uid \in DOMAIN Script[c]
         /\ CursorOK(c, pass[c].uid, pass[c].at)
<1>1. /\ pass[c] \in Pass /\ pass[c].uid \in 1 .. uid[c] /\ uid[c] \in Nat
      /\ CursorOK(c, pass[c].uid, pass[c].at)
  BY DEF TypeOK, PassOK
<1>2. Script[c] \in Seq(CRSpec(c)) /\ uid[c] \in DOMAIN Script[c]
  BY MetaAssumption DEF MetaOK, TypeOK
<1>3. QED
  BY <1>1, <1>2

(***************************************************************************)
(* The object such a pass works on.                                        *)
(***************************************************************************)
LEMMA CurrentLemma ==
  ASSUME TypeOK, NEW c \in CRs, pass[c] # Nil, Stage(c) \in ObjectStages
  PROVE  /\ CurrentKey(c) \in Keys
         /\ HashKey(CurrentKey(c)) \in HashKeys
         /\ CurrentContent(c) \in Content
         /\ CurrentHash(c) \in Hash
         /\ Stage(c) = "ss" => CurrentKey(c) \in StsKeys
<1>1. /\ pass[c].uid \in Nat /\ pass[c].uid \in DOMAIN Script[c]
      /\ CursorOK(c, pass[c].uid, pass[c].at)
  BY PassLemma
<1>2. /\ CurrentKey(c) \in Keys /\ HashKey(CurrentKey(c)) \in HashKeys
      /\ Stage(c) = "ss" => CurrentKey(c) \in StsKeys
  BY <1>1, KeyLemma DEF CurrentKey, Stage
<1>3. CurrentContent(c) \in Content
  BY <1>1, DesiredLemma DEF CurrentContent, Stage
<1>4. CurrentHash(c) \in Hash
  BY <1>1, <1>3 DEF CurrentHash, Hash
<1>5. QED
  BY <1>2, <1>3, <1>4

PassesOK ==
  /\ pass \in [CRs -> Pass \cup {Nil}] /\ \A c \in CRs : PassOK(c)
  /\ queued \subseteq CRs

(***************************************************************************)
(* Going on to the next stage, or ending a pass, keeps the passes and the  *)
(* queue well-formed.                                                      *)
(***************************************************************************)
LEMMA ContinueLemma ==
  ASSUME TypeOK, NEW c \in CRs, pass[c] # Nil, Continue(c) \/ Retry(c), uid' = uid
  PROVE  PassesOK'
<1> DEFINE u == pass[c].uid
           next == After(c, u, pass[c].at)
<1>1. /\ pass[c] \in Pass /\ u \in 1 .. uid[c] /\ u \in DOMAIN Script[c]
      /\ CursorOK(c, u, pass[c].at)
  BY PassLemma
<1>2. queued' \subseteq CRs
  BY DEF TypeOK, Continue, Retry
<1>3. CASE pass' = [pass EXCEPT ![c] = Nil]
  BY <1>2, <1>3 DEF TypeOK, PassesOK, PassOK
<1>4. CASE next.stage # "done" /\ Continue(c)
  <2>1. CursorOK(c, u, next)
    BY <1>1, <1>4, AfterLemma
  <2>2. next \in Cursor
    BY <2>1 DEF CursorOK
  <2> DEFINE p == [pass[c] EXCEPT !.at = next, !.phase = "get"]
  <2>3. pass' = [pass EXCEPT ![c] = p]
    BY <1>4 DEF Continue
  <2>4. p \in Pass /\ p.uid = u /\ p.at = next
    BY <1>1, <2>2 DEF Pass, Phases
  <2> HIDE DEF p, next
  <2>5. ASSUME NEW e \in CRs PROVE PassOK(e)'
    <3>1. CASE e = c
      BY <3>1, <2>1, <2>3, <2>4, <1>1 DEF TypeOK, PassOK
    <3>2. CASE e # c
      BY <3>2, <2>3 DEF TypeOK, PassOK
    <3>3. QED
      BY <3>1, <3>2
  <2>6. QED
    BY <2>3, <2>4, <2>5, <1>2 DEF TypeOK, PassesOK
<1>5. QED
  BY <1>3, <1>4 DEF Continue, Retry

(***************************************************************************)
(* So does going on to another phase of the stage.                         *)
(***************************************************************************)
LEMMA PhaseLemma ==
  ASSUME TypeOK, NEW c \in CRs, pass[c] # Nil, NEW phase \in Phases,
         pass' = [pass EXCEPT ![c].phase = phase], queued' = queued, uid' = uid
  PROVE  PassesOK'
<1> DEFINE p == [pass[c] EXCEPT !.phase = phase]
<1>1. pass[c] \in Pass
  BY PassLemma
<1>2. pass' = [pass EXCEPT ![c] = p] /\ p \in Pass /\ p.uid = pass[c].uid /\ p.at = pass[c].at
  BY <1>1 DEF Pass
<1> HIDE DEF p
<1>3. QED
  BY <1>2 DEF TypeOK, PassesOK, PassOK

(***************************************************************************)
(* A step that leaves the objects alone.                                   *)
(***************************************************************************)
LEMMA QuietTypeOK ==
  ASSUME TypeOK, PassesOK', UNCHANGED <<crs, api, cache, hashStore, crashes, accepted>>
  PROVE  TypeOK'
BY DEF TypeOK, PassesOK, crs

(***************************************************************************)
(* Every step of a Reconcile call keeps the types.                         *)
(***************************************************************************)
LEMMA ReconcileTypeOK ==
  ASSUME TypeOK, NEW c \in CRs, StartReconcile(c) \/ ReconcileStep(c)
  PROVE  TypeOK'
<1>1. CASE StartReconcile(c)
  <2>1. queued' \subseteq CRs /\ uid' = uid
    BY <1>1 DEF StartReconcile, TypeOK, crs
  <2>2. CASE pass' = pass
    <3>1. PassesOK'
      BY <2>1, <2>2 DEF TypeOK, PassesOK, PassOK
    <3>2. QED
      BY <1>1, <3>1, QuietTypeOK DEF StartReconcile
  <2>3. CASE alive[c]
    <3> DEFINE p == [uid |-> uid[c], at |-> Start(c, uid[c]), phase |-> "get"]
    <3>1. pass' = [pass EXCEPT ![c] = p]
      BY <1>1, <2>3 DEF StartReconcile
    <3>2. uid[c] \in Nat \ {0} /\ uid[c] \in DOMAIN Script[c]
      BY DEF TypeOK
    <3>3. CursorOK(c, uid[c], Start(c, uid[c]))
      BY <3>2, StartLemma
    <3>4. p \in Pass /\ p.uid = uid[c] /\ p.at = Start(c, uid[c])
      BY <3>2, <3>3 DEF Pass, Phases, CursorOK
    <3> HIDE DEF p
    <3>5. PassesOK'
      BY <2>1, <3>1, <3>2, <3>3, <3>4 DEF TypeOK, PassesOK, PassOK
    <3>6. QED
      BY <1>1, <3>5, QuietTypeOK DEF StartReconcile
  <2>4. QED
    BY <1>1, <2>2, <2>3 DEF StartReconcile
<1>2. ASSUME pass[c] # Nil, Continue(c) \/ Retry(c),
             UNCHANGED <<crs, api, cache, hashStore, crashes, accepted>>
      PROVE  TypeOK'
  BY <1>2, ContinueLemma, QuietTypeOK DEF crs
<1>3. ASSUME pass[c] # Nil, NEW phase \in Phases, pass' = [pass EXCEPT ![c].phase = phase],
             UNCHANGED <<crs, api, cache, hashStore, queued, crashes, accepted>>
      PROVE  TypeOK'
  BY <1>3, PhaseLemma, QuietTypeOK DEF crs
<1>4. CASE PassBy(c) \/ GetNotReady(c) \/ CreateAlreadyExists(c) \/ UpdateNotFound(c)
  BY <1>2, <1>4
     DEF PassBy, GetNotReady, CreateAlreadyExists, UpdateNotFound, InPhase, Running
<1>5. CASE GetMissing(c) \/ GetDiffers(c)
  BY <1>3, <1>5 DEF GetMissing, GetDiffers, InPhase, Running, Phases
<1>6. CASE GetCurrent(c)
  <2>1. pass[c] # Nil /\ Stage(c) \in ObjectStages /\ Continue(c)
        /\ UNCHANGED <<crs, api, cache, hashStore, crashes>>
    BY <1>6 DEF GetCurrent, InPhase, Running
  <2>2. PassesOK'
    BY <2>1, ContinueLemma DEF crs
  <2>3. accepted' \in [StsKeys -> Nat]
    <3>1. accepted \in [StsKeys -> Nat] /\ pass[c].uid \in Nat
      BY <2>1, PassLemma DEF TypeOK
    <3>2. Stage(c) = "ss" => CurrentKey(c) \in StsKeys
      BY <2>1, CurrentLemma
    <3>3. QED
      BY <1>6, <3>1, <3>2 DEF GetCurrent
  <2>4. QED
    BY <2>1, <2>2, <2>3 DEF TypeOK, PassesOK, crs
<1>7. CASE Create(c)
  <2>1. /\ pass[c] # Nil /\ Stage(c) \in ObjectStages /\ (Continue(c) \/ Retry(c))
        /\ UNCHANGED <<crs, cache, hashStore, crashes, accepted>>
        /\ api' = [api EXCEPT ![CurrentKey(c)] =
                     [spec |-> CurrentContent(c), owner |-> Owner(c, pass[c].uid, CurrentKey(c)),
                      ready |-> FALSE]]
    BY <1>7 DEF Create, InPhase, Running
  <2>2. PassesOK'
    BY <2>1, ContinueLemma DEF crs
  <2>3. CurrentContent(c) \in Content /\ pass[c].uid \in Nat
    BY <2>1, CurrentLemma, PassLemma
  <2>4. api' \in [Keys -> Object \cup {Nil}]
    BY <2>1, <2>3 DEF TypeOK, Object, Owner
  <2>5. QED
    BY <2>1, <2>2, <2>4 DEF TypeOK, PassesOK, crs
<1>8. CASE Update(c)
  <2> DEFINE k == CurrentKey(c)
             r == api[k].ready /\ api[k].spec = CurrentContent(c)
             o == [spec |-> CurrentContent(c), owner |-> Owner(c, pass[c].uid, k), ready |-> r]
  <2>1. /\ pass[c] # Nil /\ Stage(c) \in ObjectStages /\ api[k] # Nil
        /\ pass' = [pass EXCEPT ![c].phase = "store"] /\ queued' = queued
        /\ UNCHANGED <<crs, cache, hashStore, crashes, accepted>>
    BY <1>8 DEF Update, InPhase, Running
  <2>2. PassesOK'
    BY <2>1, PhaseLemma DEF crs, Phases
  <2>3. CurrentContent(c) \in Content /\ pass[c].uid \in Nat /\ k \in Keys
    BY <2>1, CurrentLemma, PassLemma
  <2>4. api \in [Keys -> Object \cup {Nil}] /\ api' = [api EXCEPT ![k] = o]
    BY <1>8 DEF Update, TypeOK
  <2>5. o \in Object
    <3>1. Owner(c, pass[c].uid, k) \in Nat
      BY <2>3 DEF Owner
    <3>2. r \in BOOLEAN
      OBVIOUS
    <3>3. QED
      BY <2>3, <3>1, <3>2 DEF Object
  <2> HIDE DEF o, k
  <2>6. api' \in [Keys -> Object \cup {Nil}]
    BY <2>3, <2>4, <2>5
  <2>7. QED
    BY <2>1, <2>2, <2>6 DEF TypeOK, PassesOK, crs
<1>9. CASE StoreHash(c)
  <2>1. /\ pass[c] # Nil /\ Stage(c) \in ObjectStages /\ Retry(c)
        /\ hashStore' = [hashStore EXCEPT ![HashKey(CurrentKey(c))] = CurrentHash(c)]
        /\ UNCHANGED <<crs, api, cache, crashes, accepted>>
    BY <1>9 DEF StoreHash, InPhase, Running
  <2>2. PassesOK'
    BY <2>1, ContinueLemma DEF crs
  <2>3. hashStore' \in [HashKeys -> Hash \cup {Nil}]
    BY <2>1, CurrentLemma DEF TypeOK
  <2>4. QED
    BY <2>1, <2>2, <2>3 DEF TypeOK, PassesOK, crs
<1>10. QED
  BY <1>1, <1>4, <1>5, <1>6, <1>7, <1>8, <1>9 DEF ReconcileStep

(***************************************************************************)
(* The requests that events cause name custom resources.                   *)
(***************************************************************************)
LEMMA CROfLemma ==
  ASSUME NEW k \in Keys
  PROVE  CROf[k] \in CRs /\ k \in KeysOf(CROf[k])
<1>1. \E c \in CRs : k \in KeysOf(c)
  BY DEF Keys
<1>2. CROf[k] = CHOOSE c \in CRs : k \in KeysOf(c)
  BY DEF CROf
<1>3. QED
  BY <1>1, <1>2

(***************************************************************************)
(* The other steps keep the types.                                         *)
(***************************************************************************)
LEMMA EnvironmentTypeOK ==
  ASSUME TypeOK, [Next]_vars, ~\E c \in CRs : StartReconcile(c) \/ ReconcileStep(c)
  PROVE  TypeOK'
<1>1. CASE UNCHANGED vars
  BY <1>1 DEF vars, TypeOK, PassOK
<1>2. ASSUME NEW c \in CRs, DeleteCR(c) \/ Resync(c) PROVE TypeOK'
  BY <1>2 DEF DeleteCR, Resync, TypeOK, PassOK, crs
<1>3. ASSUME NEW c \in CRs, RecreateCR(c) PROVE TypeOK'
  <2>1. /\ uid' = [uid EXCEPT ![c] = uid[c] + 1] /\ uid[c] < Len(Script[c])
        /\ UNCHANGED <<api, cache, hashStore, pass, crashes, accepted>>
        /\ alive' \in [CRs -> BOOLEAN] /\ queued' \subseteq CRs
    BY <1>3 DEF RecreateCR, TypeOK
  <2>2. Script[c] \in Seq(CRSpec(c))
    BY MetaAssumption DEF MetaOK
  <2>3. uid \in [CRs -> Nat \ {0}] /\ uid[c] + 1 \in DOMAIN Script[c] /\ uid[c] + 1 \in Nat \ {0}
    BY <2>1, <2>2 DEF TypeOK
  <2>4. uid' \in [CRs -> Nat \ {0}] /\ \A e \in CRs : uid'[e] \in DOMAIN Script[e]
    BY <2>1, <2>3 DEF TypeOK
  <2>5. \A e \in CRs : uid[e] \in Nat /\ uid'[e] \in Nat /\ uid[e] <= uid'[e]
    BY <2>1, <2>3
  <2>6. \A e \in CRs : PassOK(e)'
    BY <2>1, <2>5 DEF TypeOK, PassOK
  <2>7. QED
    BY <2>1, <2>4, <2>6 DEF TypeOK
<1>4. ASSUME NEW k \in Keys, NEW o \in Object \cup {Nil}, SetObject(k, o) PROVE TypeOK'
  BY <1>4, CROfLemma DEF SetObject, TypeOK, PassOK, crs
<1>5. ASSUME NEW k \in Keys, Collect(k) PROVE TypeOK'
  BY <1>4, <1>5 DEF Collect
<1>6. ASSUME NEW k \in StsKeys, StatefulSetReady(k) PROVE TypeOK'
  <2>1. k \in Keys /\ api[k] \in Object
    BY <1>6 DEF StsKeys, StatefulSetReady, TypeOK
  <2>2. [api[k] EXCEPT !.ready = TRUE] \in Object
    BY <2>1 DEF Object
  <2>3. QED
    BY <1>4, <1>6, <2>1, <2>2 DEF StatefulSetReady
<1>7. ASSUME NEW kind \in Lagging, InformerSync(kind) PROVE TypeOK'
  <2>1. cache' \in [Keys -> Object \cup {Nil}]
    BY <1>7 DEF InformerSync, TypeOK
  <2>2. queued' \subseteq CRs
    BY <1>7, CROfLemma DEF InformerSync, TypeOK
  <2>3. QED
    BY <1>7, <2>1, <2>2 DEF InformerSync, TypeOK, PassOK, crs
<1>8. CASE Crash
  <2>1. cache' \in [Keys -> Object \cup {Nil}]
    BY <1>8 DEF Crash, TypeOK
  <2>2. crashes' \in 0 .. MaxCrashes
    BY <1>8, DeletionAssumption DEF Crash, TypeOK
  <2>3. QED
    BY <1>8, <2>1, <2>2 DEF Crash, TypeOK, PassOK, crs
<1>9. QED
  BY <1>1, <1>2, <1>3, <1>5, <1>6, <1>7, <1>8 DEF Next

(***************************************************************************)
(* At first nothing runs and nothing exists.                               *)
(***************************************************************************)
LEMMA TypeInit == Init => TypeOK
<1> SUFFICES ASSUME Init PROVE TypeOK
  OBVIOUS
<1>1. \A c \in CRs : 1 \in DOMAIN Script[c]
  BY MetaAssumption DEF MetaOK
<1>2. QED
  BY <1>1, DeletionAssumption DEF Init, TypeOK, PassOK

(***************************************************************************)
(* Every step keeps the types.                                             *)
(***************************************************************************)
LEMMA TypeNext == TypeOK /\ [Next]_vars => TypeOK'
  BY ReconcileTypeOK, EnvironmentTypeOK

(***************************************************************************)
(* A pass never leaves what its own incarnation's spec describes, even if  *)
(* that incarnation is gone.                                               *)
(***************************************************************************)
THEOREM TypeCorrect == Spec => []TypeOK
  BY TypeInit, TypeNext, PTL DEF Spec

------------------------------------------------------------------------------
(***************************************************************************)
(* The inductive invariant of adoption.  The living incarnation has a      *)
(* claim on a StatefulSet when it has gone past it, when hashStore holds   *)
(* the hash of that incarnation's object, or when its pass has written the *)
(* object and is about to record the hash.  A claim is good: the object is *)
(* there and refers to this incarnation, and no pass of an earlier one is  *)
(* left to write over it.                                                  *)
(***************************************************************************)
Recorded(c, d, u) ==
  LET h == hashStore[HashKey(StsKey(c, d))]
  IN  h # Nil /\ h.spec.id = <<Meta[c].name, Meta[c].ns>> /\ h.owner = u

Storing(c, d) == InPhase(c, "store") /\ Stage(c) = "ss" /\ CurrentKey(c) = StsKey(c, d)

Claims(c, d) ==
  \/ accepted[StsKey(c, d)] = uid[c]
  \/ Recorded(c, d, uid[c])
  \/ Storing(c, d) /\ pass[c].uid = uid[c]

Owned(c, d) == api[StsKey(c, d)] # Nil /\ api[StsKey(c, d)].owner = uid[c]

PassIsCurrent(c) == pass[c] # Nil => pass[c].uid = uid[c]

NoneFromTheFuture(c, d) ==
  /\ accepted[StsKey(c, d)] <= uid[c]
  /\ \A u \in Nat : Recorded(c, d, u) => u <= uid[c]

AdoptionOK(c, d) ==
  /\ NoneFromTheFuture(c, d)
  /\ Claims(c, d) => PassIsCurrent(c) /\ (alive[c] => Owned(c, d))

AdoptionInv ==
  /\ TypeOK
  /\ \A c \in CRs : \A d \in DepNames(c) : AdoptionOK(c, d)

(***************************************************************************)
(* A hash key keeps the kind and the name of the object.                   *)
(***************************************************************************)
LEMMA HashKeyLemma ==
  ASSUME NEW k
  PROVE  HashKey(k).kind = k.kind /\ HashKey(k).name = k.name
<1>1. CASE k.kind = "cfg"
  BY <1>1 DEF HashKey
<1>2. CASE k.kind # "cfg"
  BY <1>2 DEF HashKey, Key
<1>3. QED
  BY <1>1, <1>2

(***************************************************************************)
(* The key and the hash key of a StatefulSet lead back to its custom       *)
(* resource, the hash key together with the namespace that is hashed.      *)
(***************************************************************************)
LEMMA StsStageLemma ==
  ASSUME TypeOK, NEW e \in CRs, pass[e] # Nil, Stage(e) \in ObjectStages,
         NEW c \in CRs, NEW d \in DepNames(c)
  PROVE  /\ CurrentKey(e) = StsKey(c, d) => e = c /\ Stage(e) = "ss"
         /\ HashKey(CurrentKey(e)) = HashKey(StsKey(c, d)) =>
              /\ Stage(e) = "ss"
              /\ Meta[e].ns = Meta[c].ns => e = c /\ CurrentKey(e) = StsKey(c, d)
<1> DEFINE u == pass[e].uid
           a == pass[e].at
           f == Deployments(e, u)[a.dep]
<1>1. u \in DOMAIN Script[e] /\ CursorOK(e, u, a)
  BY PassLemma
<1>2. /\ (CurrentKey(e).kind = "ss") <=> (Stage(e) = "ss")
      /\ Stage(e) = "ss" => CurrentKey(e) = StsKey(e, f)
  BY <1>1, KeyLemma DEF CurrentKey, Stage
<1>3. Stage(e) = "ss" => f \in DepNames(e)
  BY <1>1, DeploymentsLemma DEF CursorOK, Stage
<1> HIDE DEF f
<1>4. ASSUME CurrentKey(e) = StsKey(c, d) PROVE e = c /\ Stage(e) = "ss"
  <2>1. Stage(e) = "ss"
    BY <1>2, <1>4 DEF StsKey, Key
  <2>2. QED
    BY <1>2, <1>3, <1>4, <2>1, StsKeyInjective
<1>5. ASSUME HashKey(CurrentKey(e)) = HashKey(StsKey(c, d))
      PROVE  /\ Stage(e) = "ss"
             /\ Meta[e].ns = Meta[c].ns => e = c /\ CurrentKey(e) = StsKey(c, d)
  <2>1. /\ StsKey(c, d).kind = "ss" /\ StsKey(c, d).name = d
        /\ StsKey(e, f).name = f
    BY DEF StsKey, Key
  <2>2. CurrentKey(e).kind = StsKey(c, d).kind /\ CurrentKey(e).name = StsKey(c, d).name
    BY <1>5, HashKeyLemma
  <2>3. Stage(e) = "ss"
    BY <1>2, <2>1, <2>2
  <2>4. f = d
    BY <1>2, <2>1, <2>2, <2>3
  <2>5. ASSUME Meta[e].ns = Meta[c].ns PROVE CurrentKey(e) = StsKey(c, d)
    BY <1>2, <2>3, <2>4, <2>5 DEF StsKey
  <2>6. QED
    BY <1>4, <2>3, <2>5
<1>6. QED
  BY <1>4, <1>5

(***************************************************************************)
(* A StatefulSet's hash tells the custom resource and the incarnation.     *)
(***************************************************************************)
LEMMA StsHashLemma ==
  ASSUME NEW e, Stage(e) = "ss"
  PROVE  /\ CurrentHash(e).spec.id = <<Meta[e].name, Meta[e].ns>>
         /\ CurrentHash(e).owner = pass[e].uid
<1>1. CurrentContent(e).id = <<Meta[e].name, Meta[e].ns>>
  BY DEF CurrentContent, Desired, BuildStatefulSet, Stage
<1>2. QED
  BY <1>1 DEF CurrentHash

(***************************************************************************)
(* Events about a StatefulSet, and its garbage collection, concern the     *)
(* custom resource it is from.                                             *)
(***************************************************************************)
LEMMA StsOwnerLemma ==
  ASSUME NEW c \in CRs, NEW d \in DepNames(c)
  PROVE  CROf[StsKey(c, d)] = c
<1> DEFINE k == StsKey(c, d)
           e == CROf[k]
<1>1. k \in Keys
  BY StsKeyLemma
<1>2. e \in CRs /\ k \in KeysOf(e)
  BY <1>1, CROfLemma
<1>3. k.kind = "ss"
  BY DEF StsKey, Key
<1> HIDE DEF e, k
<1>4. k \in {Key(kind, f, 0, Meta[e].ns) : kind \in {"ss", "pdb"}, f \in DepNames(e)}
  BY <1>2, <1>3 DEF KeysOf, Key
<1>5. PICK f \in DepNames(e) : k = StsKey(e, f)
  BY <1>3, <1>4 DEF StsKey, Key
<1>6. e = c
  BY <1>2, <1>5, StsKeyInjective DEF k
<1>7. QED
  BY <1>6 DEF e, k

------------------------------------------------------------------------------
(***************************************************************************)
(* What one step does to the parts of the invariant.                       *)
(***************************************************************************)

(***************************************************************************)
(* Only the user's re-creation starts another incarnation, and it touches  *)
(* nothing else.                                                           *)
(***************************************************************************)
LEMMA IncarnationStep ==
  ASSUME TypeOK, [Next]_vars, NEW c \in CRs
  PROVE  \/ uid'[c] = uid[c] /\ (alive'[c] => alive[c])
         \/ ~alive[c] /\ uid'[c] = uid[c] + 1 /\ UNCHANGED <<hashStore, pass, accepted>>
<1>1. CASE UNCHANGED crs
  BY <1>1 DEF crs
<1>2. ASSUME NEW e \in CRs, DeleteCR(e)
      PROVE  uid'[c] = uid[c] /\ (alive'[c] => alive[c])
  BY <1>2 DEF DeleteCR, TypeOK
<1>3. ASSUME NEW e \in CRs, RecreateCR(e)
      PROVE  \/ uid'[c] = uid[c] /\ (alive'[c] => alive[c])
             \/ ~alive[c] /\ uid'[c] = uid[c] + 1 /\ UNCHANGED <<hashStore, pass, accepted>>
  BY <1>3 DEF RecreateCR, TypeOK
<1>4. ASSUME NEW e \in CRs, StartReconcile(e) \/ ReconcileStep(e) PROVE UNCHANGED crs
  BY <1>4 DEF StartReconcile, ReconcileStep, PassBy, GetMissing, GetDiffers, GetNotReady,
              GetCurrent, Create, CreateAlreadyExists, Update, UpdateNotFound, StoreHash
<1>5. QED
  BY <1>1, <1>2, <1>3, <1>4
     DEF Next, vars, crs, Resync, Collect, StatefulSetReady, SetObject, InformerSync, Crash

(***************************************************************************)
(* A pass begins with the incarnation of the moment, keeps it, and gets to *)
(* recording a hash only by an Update.                                     *)
(***************************************************************************)
LEMMA PassStep ==
  ASSUME TypeOK, [Next]_vars, NEW c \in CRs, pass'[c] # Nil
  PROVE  \/ pass'[c] = pass[c]
         \/ pass'[c].uid = uid[c] /\ pass'[c].phase # "store"
         \/ /\ pass[c] # Nil /\ pass'[c].uid = pass[c].uid
            /\ pass'[c].phase = "store" => Update(c) /\ pass'[c].at = pass[c].at
<1> DEFINE Goal == \/ pass'[c] = pass[c]
                   \/ pass'[c].uid = uid[c] /\ pass'[c].phase # "store"
                   \/ /\ pass[c] # Nil /\ pass'[c].uid = pass[c].uid
                      /\ pass'[c].phase = "store" => Update(c) /\ pass'[c].at = pass[c].at
<1>1. DOMAIN pass = CRs /\ (pass[c] # Nil => pass[c] \in Pass)
  BY DEF TypeOK
<1>2. CASE UNCHANGED pass
  BY <1>2
<1>3. ASSUME NEW e \in CRs, StartReconcile(e) PROVE Goal
  BY <1>1, <1>3 DEF StartReconcile
<1>4. ASSUME NEW e \in CRs, pass[e] # Nil, Continue(e) \/ Retry(e) PROVE Goal
  <2>1. CASE e # c
    BY <1>1, <1>4, <2>1 DEF Continue, Retry
  <2>2. CASE e = c /\ pass' = [pass EXCEPT ![c] = Nil]
    BY <1>1, <2>2
  <2>3. CASE e = c /\ pass' # [pass EXCEPT ![c] = Nil]
    <3> DEFINE next == After(c, pass[c].uid, pass[c].at)
               p == [pass[c] EXCEPT !.at = next, !.phase = "get"]
    <3>1. pass' = [pass EXCEPT ![c] = p]
      BY <1>4, <2>3 DEF Continue, Retry
    <3>2. p.uid = pass[c].uid /\ p.phase = "get"
      BY <1>1, <1>4, <2>3 DEF Pass
    <3> HIDE DEF p
    <3>3. pass'[c] = p
      BY <1>1, <3>1
    <3>4. QED
      BY <1>4, <2>3, <3>2, <3>3
  <2>4. QED
    BY <2>1, <2>2, <2>3
<1>5. ASSUME NEW e \in CRs, pass[e] # Nil, NEW phase \in {"create", "update"},
             pass' = [pass EXCEPT ![e].phase = phase]
      PROVE  Goal
  <2>1. CASE e # c
    BY <1>1, <1>5, <2>1
  <2>2. CASE e = c
    BY <1>1, <1>5, <2>2 DEF Pass
  <2>3. QED
    BY <2>1, <2>2
<1>6. ASSUME NEW e \in CRs, Update(e) PROVE Goal
  <2>1. pass[e] # Nil /\ pass' = [pass EXCEPT ![e].phase = "store"]
    BY <1>6 DEF Update, InPhase, Running
  <2>2. CASE e # c
    BY <1>1, <2>1, <2>2
  <2>3. CASE e = c
    BY <1>1, <1>6, <2>1, <2>3 DEF Pass
  <2>4. QED
    BY <2>2, <2>3
<1>7. ASSUME NEW e \in CRs, ReconcileStep(e) PROVE Goal
  <2>1. CASE GetMissing(e) \/ GetDiffers(e)
    BY <1>5, <2>1 DEF GetMissing, GetDiffers, InPhase, Running
  <2>2. CASE PassBy(e) \/ GetNotReady(e) \/ GetCurrent(e) \/ CreateAlreadyExists(e)
             \/ UpdateNotFound(e) \/ StoreHash(e)
    BY <1>4, <2>2 DEF PassBy, GetNotReady, GetCurrent, CreateAlreadyExists, UpdateNotFound,
                      StoreHash, InPhase, Running
  <2>3. CASE Create(e)
    BY <1>4, <2>3 DEF Create, InPhase, Running
  <2>4. QED
    BY <1>6, <1>7, <2>1, <2>2, <2>3 DEF ReconcileStep
<1>8. CASE Crash
  BY <1>8 DEF Crash
<1>9. QED
  BY <1>2, <1>3, <1>7, <1>8
     DEF Next, vars, DeleteCR, RecreateCR, Resync, Collect, StatefulSetReady, SetObject,
         InformerSync

(***************************************************************************)
(* A pass goes past a StatefulSet only if the hash of its incarnation is   *)
(* recorded.                                                               *)
(***************************************************************************)
LEMMA AcceptedStep ==
  ASSUME TypeOK, [Next]_vars, NEW c \in CRs, NEW d \in DepNames(c)
  PROVE  \/ accepted'[StsKey(c, d)] = accepted[StsKey(c, d)]
         \/ /\ pass[c] # Nil /\ accepted'[StsKey(c, d)] = pass[c].uid
            /\ Recorded(c, d, pass[c].uid)
<1>1. CASE UNCHANGED accepted
  BY <1>1
<1>2. ASSUME NEW e \in CRs, GetCurrent(e)
      PROVE  \/ accepted'[StsKey(c, d)] = accepted[StsKey(c, d)]
             \/ /\ pass[c] # Nil /\ accepted'[StsKey(c, d)] = pass[c].uid
                /\ Recorded(c, d, pass[c].uid)
  <2>1. /\ pass[e] # Nil /\ Stage(e) \in ObjectStages
        /\ hashStore[HashKey(CurrentKey(e))] = CurrentHash(e)
        /\ accepted' = IF Stage(e) = "ss"
                       THEN [accepted EXCEPT ![CurrentKey(e)] = pass[e].uid] ELSE accepted
    BY <1>2 DEF GetCurrent, HashDiffers, InPhase, Running
  <2>2. DOMAIN accepted = StsKeys /\ StsKey(c, d) \in StsKeys
    BY StsKeyLemma DEF TypeOK
  <2>3. CASE CurrentKey(e) = StsKey(c, d)
    <3>1. e = c /\ Stage(c) = "ss"
      BY <2>1, <2>3, StsStageLemma
    <3>2. /\ CurrentHash(c).spec.id = <<Meta[c].name, Meta[c].ns>>
          /\ CurrentHash(c).owner = pass[c].uid
      BY <3>1, StsHashLemma
    <3>3. CurrentHash(c) # Nil
      BY <2>1, <3>1, NilAssumption, CurrentLemma
    <3>4. Recorded(c, d, pass[c].uid)
      BY <2>1, <2>3, <3>1, <3>2, <3>3 DEF Recorded
    <3>5. QED
      BY <2>1, <2>2, <2>3, <3>1, <3>4
  <2>4. CASE CurrentKey(e) # StsKey(c, d)
    BY <2>1, <2>2, <2>4
  <2>5. QED
    BY <2>3, <2>4
<1>3. ASSUME NEW e \in CRs, ReconcileStep(e), ~GetCurrent(e) PROVE UNCHANGED accepted
  BY <1>3 DEF ReconcileStep, PassBy, GetMissing, GetDiffers, GetNotReady, Create,
              CreateAlreadyExists, Update, UpdateNotFound, StoreHash
<1>4. QED
  BY <1>1, <1>2, <1>3
     DEF Next, vars, StartReconcile, DeleteCR, RecreateCR, Resync, Collect, StatefulSetReady,
         SetObject, InformerSync, Crash

(***************************************************************************)
(* The hash of an incarnation gets on record only by the step that follows *)
(* its Update.                                                             *)
(***************************************************************************)
LEMMA RecordedStep ==
  ASSUME TypeOK, [Next]_vars, NEW c \in CRs, NEW d \in DepNames(c), NEW u,
         Recorded(c, d, u)'
  PROVE  Recorded(c, d, u) \/ (Storing(c, d) /\ u = pass[c].uid)
<1> DEFINE hk == HashKey(StsKey(c, d))
<1>1. hk \in HashKeys /\ DOMAIN hashStore = HashKeys
  BY StsKeyLemma DEF HashKeys, TypeOK
<1>2. ASSUME hashStore'[hk] = hashStore[hk] PROVE Recorded(c, d, u)
  BY <1>2 DEF Recorded
<1>3. ASSUME NEW e \in CRs, StoreHash(e)
      PROVE  Recorded(c, d, u) \/ (Storing(c, d) /\ u = pass[c].uid)
  <2>1. /\ pass[e] # Nil /\ Stage(e) \in ObjectStages /\ InPhase(e, "store")
        /\ hashStore' = [hashStore EXCEPT ![HashKey(CurrentKey(e))] = CurrentHash(e)]
    BY <1>3 DEF StoreHash, InPhase, Running
  <2>2. CASE HashKey(CurrentKey(e)) # hk
    BY <1>1, <1>2, <2>1, <2>2
  <2>3. CASE HashKey(CurrentKey(e)) = hk
    <3>1. Stage(e) = "ss"
      BY <2>1, <2>3, StsStageLemma
    <3>2. hashStore'[hk] = CurrentHash(e)
      BY <1>1, <2>1, <2>3
    <3>3. <<Meta[e].name, Meta[e].ns>> = <<Meta[c].name, Meta[c].ns>> /\ u = pass[e].uid
      BY <3>1, <3>2, StsHashLemma DEF Recorded
    <3>4. Meta[e].ns = Meta[c].ns
      BY <3>3
    <3>5. e = c /\ CurrentKey(e) = StsKey(c, d)
      BY <2>1, <2>3, <3>4, StsStageLemma
    <3>6. QED
      BY <2>1, <3>1, <3>3, <3>5 DEF Storing
  <2>4. QED
    BY <2>2, <2>3
<1>4. CASE Crash
  BY <1>1, <1>4 DEF Crash, Recorded
<1>5. ASSUME NEW e \in CRs, ReconcileStep(e), ~StoreHash(e) PROVE UNCHANGED hashStore
  BY <1>5 DEF ReconcileStep, PassBy, GetMissing, GetDiffers, GetNotReady, GetCurrent, Create,
              CreateAlreadyExists, Update, UpdateNotFound
<1>6. CASE UNCHANGED hashStore
  BY <1>2, <1>6
<1>7. QED
  BY <1>3, <1>4, <1>5, <1>6
     DEF Next, vars, StartReconcile, DeleteCR, RecreateCR, Resync, Collect, StatefulSetReady,
         SetObject, InformerSync

(***************************************************************************)
(* After an Update of a StatefulSet it refers to the pass's incarnation.   *)
(***************************************************************************)
LEMMA UpdateAdopts ==
  ASSUME TypeOK, NEW c \in CRs, NEW d \in DepNames(c), Update(c), CurrentKey(c) = StsKey(c, d)
  PROVE  api'[StsKey(c, d)] # Nil /\ api'[StsKey(c, d)].owner = pass[c].uid
<1> DEFINE k == StsKey(c, d)
           o == [spec |-> CurrentContent(c), owner |-> Owner(c, pass[c].uid, k),
                 ready |-> api[k].ready /\ api[k].spec = CurrentContent(c)]
<1>1. pass[c] # Nil /\ Stage(c) \in ObjectStages /\ api' = [api EXCEPT ![k] = o]
  BY DEF Update, InPhase, Running
<1>2. k \in Keys /\ DOMAIN api = Keys /\ DOMAIN api' = Keys /\ TypeOK'
  <2>1. TypeOK'
    BY ReconcileTypeOK DEF ReconcileStep
  <2>2. QED
    BY <2>1, StsKeyLemma DEF TypeOK
<1>3. api'[k] = o
  BY <1>1, <1>2
<1>4. Owner(c, pass[c].uid, k) = pass[c].uid
  BY DEF Owner, StsKey, Key
<1>5. o \in Object
  <2>1. CurrentContent(c) \in Content /\ pass[c].uid \in Nat
    BY <1>1, CurrentLemma, PassLemma
  <2>2. QED
    BY <1>4, <2>1 DEF Object
<1>6. o.owner = pass[c].uid
  BY <1>4
<1> HIDE DEF o
<1>7. QED
  BY <1>3, <1>5, <1>6, NilAssumption

(***************************************************************************)
(* What the living incarnation owns it keeps, unless a pass of an earlier  *)
(* one runs: the garbage collector leaves it alone, and the incarnation's  *)
(* own passes only write it again.                                         *)
(***************************************************************************)
LEMMA OwnedStays ==
  ASSUME TypeOK, [Next]_vars, NEW c \in CRs, NEW d \in DepNames(c),
         alive[c], Owned(c, d), PassIsCurrent(c)
  PROVE  Owned(c, d)'
<1> DEFINE k == StsKey(c, d)
<1>1. uid'[c] = uid[c]
  BY IncarnationStep
<1>2. k \in Keys /\ DOMAIN api = Keys /\ api[k] # Nil /\ api[k].owner = uid[c] /\ api[k] \in Object
  BY StsKeyLemma DEF TypeOK, Owned
<1>3. ASSUME api'[k] = api[k] PROVE Owned(c, d)'
  BY <1>1, <1>2, <1>3 DEF Owned
<1>4. ASSUME NEW e \in CRs, Create(e) PROVE Owned(c, d)'
  <2>1. CurrentKey(e) # k
    BY <1>2, <1>4 DEF Create
  <2>2. api'[k] = api[k]
    BY <1>2, <1>4, <2>1 DEF Create
  <2>3. QED
    BY <1>3, <2>2
<1>5. ASSUME NEW e \in CRs, Update(e) PROVE Owned(c, d)'
  <2>1. pass[e] # Nil /\ Stage(e) \in ObjectStages
    BY <1>5 DEF Update, InPhase, Running
  <2>2. CASE CurrentKey(e) = k
    <3>1. e = c
      BY <2>1, <2>2, StsStageLemma
    <3>2. pass[c].uid = uid[c]
      BY <2>1, <3>1 DEF PassIsCurrent
    <3>3. QED
      BY <1>1, <1>5, <2>2, <3>1, <3>2, UpdateAdopts DEF Owned
  <2>3. CASE CurrentKey(e) # k
    BY <1>2, <1>3, <1>5, <2>3 DEF Update
  <2>4. QED
    BY <2>2, <2>3
<1>6. ASSUME NEW e \in CRs, ReconcileStep(e), ~Create(e), ~Update(e) PROVE UNCHANGED api
  BY <1>6 DEF ReconcileStep, PassBy, GetMissing, GetDiffers, GetNotReady, GetCurrent,
              CreateAlreadyExists, UpdateNotFound, StoreHash
<1>7. ASSUME NEW j \in Keys, Collect(j) PROVE Owned(c, d)'
  <2>1. j # k
    <3>1. CROf[k] = c
      BY StsOwnerLemma
    <3>2. ~Orphaned(k)
      BY <1>2, <3>1 DEF Orphaned
    <3>3. QED
      BY <1>7, <3>2 DEF Collect
  <2>2. QED
    BY <1>2, <1>3, <1>7, <2>1 DEF Collect, SetObject
<1>8. ASSUME NEW j \in StsKeys, StatefulSetReady(j) PROVE Owned(c, d)'
  <2>1. CASE j # k
    BY <1>2, <1>3, <1>8, <2>1 DEF StatefulSetReady, SetObject
  <2>2. CASE j = k
    <3> DEFINE o == [api[k] EXCEPT !.ready = TRUE]
    <3>1. api' = [api EXCEPT ![k] = o]
      BY <1>8, <2>2 DEF StatefulSetReady, SetObject
    <3>2. o \in Object /\ o.owner = uid[c]
      BY <1>2 DEF Object
    <3> HIDE DEF o
    <3>3. api'[k] = o
      BY <1>2, <3>1
    <3>4. QED
      BY <1>1, <3>2, <3>3, NilAssumption DEF Owned
  <2>3. QED
    BY <2>1, <2>2
<1>9. CASE UNCHANGED api
  BY <1>3, <1>9
<1>10. QED
  BY <1>4, <1>5, <1>6, <1>7, <1>8, <1>9
     DEF Next, vars, StartReconcile, DeleteCR, RecreateCR, Resync, InformerSync, Crash

(***************************************************************************)
(* Where a claim of the same incarnation comes from: an earlier claim, or  *)
(* the Update that adopts the StatefulSet.                                 *)
(***************************************************************************)
LEMMA ClaimStep ==
  ASSUME TypeOK, [Next]_vars, NEW c \in CRs, NEW d \in DepNames(c),
         uid'[c] = uid[c], Claims(c, d)'
  PROVE  Claims(c, d) \/ (Owned(c, d)' /\ PassIsCurrent(c))
<1>1. CASE accepted'[StsKey(c, d)] = uid[c]
  BY <1>1, AcceptedStep DEF Claims
<1>2. CASE Recorded(c, d, uid[c])'
  <2>1. PICK u : u = uid[c]
    OBVIOUS
  <2>2. Recorded(c, d, u)'
    BY <1>2, <2>1 DEF Recorded
  <2>3. Recorded(c, d, u) \/ (Storing(c, d) /\ u = pass[c].uid)
    BY <2>2, RecordedStep
  <2>4. QED
    BY <2>1, <2>3 DEF Claims
<1>3. CASE Storing(c, d)' /\ pass'[c].uid = uid[c]
  <2>1. /\ pass'[c] # Nil /\ pass'[c].phase = "store" /\ pass'[c].at.stage = "ss"
        /\ KeyAt(c, pass'[c].uid, pass'[c].at) = StsKey(c, d)
    BY <1>3 DEF Storing, InPhase, Running, Stage, CurrentKey
  <2>2. CASE pass'[c] = pass[c]
    <3>1. Storing(c, d)
      BY <2>1, <2>2 DEF Storing, InPhase, Running, Stage, CurrentKey, ObjectStages
    <3>2. QED
      BY <1>3, <2>2, <3>1 DEF Claims
  <2>3. CASE Update(c) /\ pass'[c].uid = pass[c].uid /\ pass'[c].at = pass[c].at
    <3>1. CurrentKey(c) = StsKey(c, d)
      BY <2>1, <2>3 DEF CurrentKey
    <3>2. QED
      BY <1>3, <2>3, <3>1, UpdateAdopts DEF Owned, PassIsCurrent
  <2>4. QED
    BY <2>1, <2>2, <2>3, PassStep
<1>4. QED
  BY <1>1, <1>2, <1>3 DEF Claims

(***************************************************************************)
(* Every step keeps the invariant.                                         *)
(***************************************************************************)
LEMMA AdoptionStep ==
  ASSUME TypeOK, [Next]_vars, NEW c \in CRs, NEW d \in DepNames(c), AdoptionOK(c, d)
  PROVE  AdoptionOK(c, d)'
<1> DEFINE k == StsKey(c, d)
<1>1. /\ uid[c] \in Nat \ {0} /\ uid'[c] \in Nat \ {0}
      /\ accepted[k] \in Nat /\ accepted'[k] \in Nat
      /\ pass[c] # Nil => pass[c].uid \in 1 .. uid[c]
      /\ hashStore'[HashKey(k)] \in Hash \cup {Nil}
  BY TypeNext, StsKeyLemma DEF TypeOK, PassOK, HashKeys
<1>2. /\ accepted[k] <= uid[c]
      /\ \A u \in Nat : Recorded(c, d, u) => u <= uid[c]
  BY DEF AdoptionOK, NoneFromTheFuture
<1>3. /\ accepted'[k] <= uid[c]
      /\ \A u \in Nat : Recorded(c, d, u)' => u <= uid[c]
  <2>1. accepted'[k] <= uid[c]
    BY <1>1, <1>2, AcceptedStep
  <2>2. ASSUME NEW u \in Nat, Recorded(c, d, u)' PROVE u <= uid[c]
    <3>1. CASE Recorded(c, d, u)
      BY <1>2, <3>1
    <3>2. CASE Storing(c, d) /\ u = pass[c].uid
      <4>1. pass[c] # Nil
        BY <3>2 DEF Storing, InPhase, Running
      <4>2. QED
        BY <1>1, <3>2, <4>1
    <3>3. QED
      BY <2>2, <3>1, <3>2, RecordedStep
  <2>3. QED
    BY <2>1, <2>2
<1>4. uid'[c] = uid[c] \/ uid'[c] = uid[c] + 1
  BY IncarnationStep
<1>5. NoneFromTheFuture(c, d)'
  BY <1>1, <1>3, <1>4 DEF NoneFromTheFuture
<1>6. ASSUME Claims(c, d)', uid'[c] = uid[c], alive'[c] => alive[c]
      PROVE  PassIsCurrent(c)' /\ (alive'[c] => Owned(c, d)')
  <2>1. Claims(c, d) \/ (Owned(c, d)' /\ PassIsCurrent(c))
    BY <1>6, ClaimStep
  <2>2. PassIsCurrent(c)
    BY <2>1 DEF AdoptionOK
  <2>3. PassIsCurrent(c)'
    BY <1>6, <2>2, PassStep DEF PassIsCurrent
  <2>4. ASSUME alive'[c] PROVE Owned(c, d)'
    <3>1. CASE Claims(c, d)
      <4>1. alive[c] /\ Owned(c, d)
        BY <1>6, <2>4, <3>1 DEF AdoptionOK
      <4>2. QED
        BY <2>2, <4>1, OwnedStays
    <3>2. QED
      BY <2>1, <3>1
  <2>5. QED
    BY <2>3, <2>4
<1>7. ASSUME uid'[c] = uid[c] + 1, UNCHANGED <<hashStore, pass, accepted>>
      PROVE  ~Claims(c, d)'
  <2>1. accepted'[k] # uid'[c]
    BY <1>1, <1>2, <1>7
  <2>2. ~Recorded(c, d, uid[c])'
    <3>1. PICK u \in Nat : u = uid'[c]
      BY <1>1
    <3>2. ~Recorded(c, d, u)'
      BY <1>1, <1>3, <1>7, <3>1
    <3>3. QED
      BY <3>1, <3>2 DEF Recorded
  <2>3. ~(Storing(c, d)' /\ pass'[c].uid = uid'[c])
    BY <1>1, <1>7 DEF Storing, InPhase, Running
  <2>4. QED
    BY <2>1, <2>2, <2>3 DEF Claims
<1>8. Claims(c, d)' => PassIsCurrent(c)' /\ (alive'[c] => Owned(c, d)')
  <2>1. CASE uid'[c] = uid[c] /\ (alive'[c] => alive[c])
    BY <1>6, <2>1
  <2>2. CASE uid'[c] = uid[c] + 1 /\ UNCHANGED <<hashStore, pass, accepted>>
    BY <1>7, <2>2
  <2>3. QED
    BY <2>1, <2>2, IncarnationStep
<1>9. QED
  BY <1>5, <1>8 DEF AdoptionOK

(***************************************************************************)
(* A StatefulSet that a pass of the living incarnation has gone past is    *)
(* there and is that incarnation's own: no late write of an earlier        *)
(* incarnation's pass and no garbage collection takes it away.             *)
(***************************************************************************)
THEOREM AdoptionCorrect == Spec => []AdoptedBeforeAccepted
<1>1. Init => AdoptionInv
  <2> SUFFICES ASSUME Init PROVE AdoptionInv
    OBVIOUS
  <2>1. ASSUME NEW c \in CRs, NEW d \in DepNames(c) PROVE AdoptionOK(c, d)
    <3>1. /\ accepted[StsKey(c, d)] = 0 /\ uid[c] = 1 /\ pass[c] = Nil
          /\ hashStore[HashKey(StsKey(c, d))] = Nil
      BY StsKeyLemma DEF Init, HashKeys
    <3>2. QED
      BY <3>1 DEF AdoptionOK, NoneFromTheFuture, Claims, Recorded, Storing, InPhase, Running
  <2>2. QED
    BY <2>1, TypeInit DEF AdoptionInv
<1>2. AdoptionInv /\ [Next]_vars => AdoptionInv'
  <2> SUFFICES ASSUME AdoptionInv, [Next]_vars PROVE AdoptionInv'
    OBVIOUS
  <2>1. TypeOK'
    BY TypeNext DEF AdoptionInv
  <2>2. \A c \in CRs : \A d \in DepNames(c) : AdoptionOK(c, d)'
    BY AdoptionStep DEF AdoptionInv
  <2>3. QED
    BY <2>1, <2>2 DEF AdoptionInv
<1>3. AdoptionInv => AdoptedBeforeAccepted
  BY DEF AdoptionInv, AdoptionOK, Claims, Owned, AdoptedBeforeAccepted
<1>4. QED
  BY <1>1, <1>2, <1>3, PTL DEF Spec
==============================================================================
