--------------------------- MODULE ConfigMapsProofs ---------------------------
(***************************************************************************)
(* What module ConfigMaps promises, for any files, contents, namespaces    *)
(* and tenant configurations.                                              *)
(***************************************************************************)
EXTENDS ConfigMaps, TLAPS

(***************************************************************************)
(* The inductive invariant of the validation loop: the files it has        *)
(* visited and gone past are not malformed, and it leaves only when it has *)
(* found one that is, or has visited them all.                             *)
(***************************************************************************)
Visited == DOMAIN AllConfig \ unchecked

LoopInv ==
  /\ phase \in {"validate", "rejected", "collect", "built"}
  /\ unchecked \subseteq DOMAIN AllConfig
  /\ phase # "rejected" => \A f \in Visited : ~Invalid(f)
  /\ phase = "rejected" => \E f \in DOMAIN AllConfig : Invalid(f)
  /\ phase \in {"collect", "built"} => unchecked = {}

(***************************************************************************)
(* The loop keeps its invariant, whichever file a Go map yields next.      *)
(***************************************************************************)
LEMMA LoopInvStep == LoopInv /\ [Next]_vars => LoopInv'
<1> SUFFICES ASSUME LoopInv, [Next]_vars PROVE LoopInv'
  OBVIOUS
<1>1. AllConfig' = AllConfig /\ \A f : Invalid(f)' = Invalid(f)
  <2>1. hbase' = hbase /\ hadoop' = hadoop
    BY DEF Next, vars, input, CheckFile, Accept, CollectOverride, Build
  <2> QED BY <2>1 DEF AllConfig, Invalid
<1>2. ASSUME NEW f \in Files, CheckFile(f) PROVE LoopInv'
  <2>1. /\ phase = "validate" /\ f \in unchecked /\ unchecked' = unchecked \ {f}
        /\ phase' = IF Invalid(f) THEN "rejected" ELSE "validate"
    BY <1>2 DEF CheckFile
  <2>2. Visited' = Visited \cup {f}
    BY <1>1, <2>1 DEF Visited, LoopInv
  <2> QED BY <1>1, <2>1, <2>2 DEF LoopInv
<1>3. CASE Accept
  BY <1>1, <1>3 DEF Accept, LoopInv, Visited
<1>4. CASE CollectOverride
  BY <1>1, <1>4 DEF CollectOverride, LoopInv, Visited
<1>5. CASE Build
  BY <1>1, <1>5 DEF Build, LoopInv, Visited
<1>6. CASE UNCHANGED vars
  BY <1>1, <1>6 DEF vars, LoopInv, Visited
<1> QED BY <1>2, <1>3, <1>4, <1>5, <1>6 DEF Next

(***************************************************************************)
(* The verdict of validateConfiguration is exact, in whatever order the    *)
(* loop visits the files.                                                  *)
(***************************************************************************)
THEOREM VerdictCorrect == Spec => []VerdictExact
<1>1. Init => LoopInv
  BY DEF Init, LoopInv, Visited
<1>2. LoopInv => VerdictExact
  BY DEF LoopInv, Visited, VerdictExact, HasMalformed, Invalid, AllConfig
<1> QED BY <1>1, <1>2, LoopInvStep, PTL DEF Spec

------------------------------------------------------------------------------
(***************************************************************************)
(* The inductive invariant of the collecting loop: tenantCfg is what the   *)
(* elements collected so far ask for, in each file the last of them.       *)
(***************************************************************************)
NamedUpTo(m, n, f) == {i \in Naming(n, f) : i <= m}

FilesUpTo(m, n, files) ==
  /\ \A f : f \in DOMAIN files <=> NamedUpTo(m, n, f) # {}
  /\ \A f \in DOMAIN files :
       \E i \in NamedUpTo(m, n, f) :
         /\ \A j \in NamedUpTo(m, n, f) : j <= i
         /\ files[f] = overrides[i].files[f]

AnyElement == [ns : Namespaces, files : FileMaps]

CollectInv ==
  /\ DOMAIN hbase \subseteq Files
  /\ overrides \in Seq(AnyElement)
  /\ collected \in 0 .. Len(overrides)
  /\ DOMAIN tenantCfg = Namespaces
  /\ \A n \in Namespaces : FilesUpTo(collected, n, tenantCfg[n])
  /\ phase = "built" =>
       /\ collected = Len(overrides)
       /\ data = [n \in Namespaces |-> Merged(hbase, tenantCfg[n])]

(***************************************************************************)
(* Go maps of files name files.                                            *)
(***************************************************************************)
LEMMA FileMapLemma ==
  ASSUME NEW m \in FileMaps
  PROVE  DOMAIN m \subseteq Files
  BY DEF FileMaps

(***************************************************************************)
(* The functions that Init chooses from are sequences, and an element of a *)
(* sequence is at a natural number.                                        *)
(***************************************************************************)
LEMMA SequenceLemma ==
  ASSUME NEW S, NEW k \in Nat, NEW s \in [1 .. k -> S]
  PROVE  s \in Seq(S)
  OBVIOUS

(***************************************************************************)
(* An element has a namespace and a map of files.                          *)
(***************************************************************************)
LEMMA ElementLemma ==
  ASSUME overrides \in Seq(AnyElement), NEW i \in DOMAIN overrides
  PROVE  /\ i \in Nat /\ 1 <= i /\ i <= Len(overrides)
         /\ overrides[i].ns \in Namespaces
         /\ overrides[i].files \in FileMaps
<1>1. i \in Nat /\ 1 <= i /\ i <= Len(overrides) /\ overrides[i] \in AnyElement
  OBVIOUS
<1>2. QED
  BY <1>1 DEF AnyElement

(***************************************************************************)
(* Nothing is collected at first.                                          *)
(***************************************************************************)
LEMMA CollectInvInit == Init => CollectInv
<1> SUFFICES ASSUME Init PROVE CollectInv
  OBVIOUS
<1>1. DOMAIN hbase \subseteq Files
  BY FileMapLemma DEF Init
<1>2. overrides \in Seq(AnyElement)
  <2>1. PICK k \in 0 .. MaxOverrides : overrides \in [1 .. k -> Elements]
    BY DEF Init
  <2>2. k \in Nat
    BY ConfigAssumption
  <2>3. Elements \subseteq AnyElement
    BY DEF Elements, AnyElement
  <2>4. overrides \in [1 .. k -> AnyElement]
    BY <2>1, <2>3
  <2>5. QED
    BY <2>2, <2>4, SequenceLemma
<1>3. \A n \in Namespaces : FilesUpTo(collected, n, tenantCfg[n])
  <2> SUFFICES ASSUME NEW n \in Namespaces PROVE FilesUpTo(collected, n, tenantCfg[n])
    OBVIOUS
  <2>1. DOMAIN tenantCfg[n] = {}
    BY DEF Init, NoFiles
  <2>2. \A f : NamedUpTo(collected, n, f) = {}
    BY <1>2 DEF NamedUpTo, Naming, Init
  <2>3. QED
    BY <2>1, <2>2 DEF FilesUpTo
<1>4. QED
  BY <1>1, <1>2, <1>3 DEF CollectInv, Init

(***************************************************************************)
(* Element k is the last one so far to name a file, if it names it.        *)
(***************************************************************************)
LEMMA NamedLemma ==
  ASSUME overrides \in Seq(AnyElement), NEW m \in Nat, NEW k \in DOMAIN overrides, k = m + 1,
         NEW n, NEW f
  PROVE  /\ k \in Naming(n, f) <=> (overrides[k].ns = n /\ f \in DOMAIN overrides[k].files)
         /\ k \in Naming(n, f) => NamedUpTo(k, n, f) = NamedUpTo(m, n, f) \cup {k}
         /\ k \notin Naming(n, f) => NamedUpTo(k, n, f) = NamedUpTo(m, n, f)
         /\ \A j \in NamedUpTo(k, n, f) : j <= k
<1>1. k \in Naming(n, f) <=> (overrides[k].ns = n /\ f \in DOMAIN overrides[k].files)
  BY DEF Naming
<1>2. \A i \in Naming(n, f) : i <= k <=> (i <= m \/ i = k)
  BY ElementLemma DEF Naming
<1>3. k <= k
  BY ElementLemma
<1>4. QED
  BY <1>1, <1>2, <1>3 DEF NamedUpTo

(***************************************************************************)
(* Collecting an element puts its files in place of earlier ones of the    *)
(* same name for the same namespace, and leaves the other namespaces.      *)
(***************************************************************************)
LEMMA CollectLemma ==
  ASSUME overrides \in Seq(AnyElement), NEW m \in Nat, NEW k \in DOMAIN overrides, k = m + 1,
         NEW n, NEW old, FilesUpTo(m, n, old)
  PROVE  /\ overrides[k].ns = n => FilesUpTo(k, n, Merged(old, overrides[k].files))
         /\ overrides[k].ns # n => FilesUpTo(k, n, old)
<1>1. CASE overrides[k].ns = n
  <2> DEFINE o == overrides[k].files
             new == Merged(old, o)
  <2>1. /\ DOMAIN new = DOMAIN old \cup DOMAIN o
        /\ \A f \in DOMAIN o : new[f] = o[f]
        /\ \A f \in DOMAIN old \ DOMAIN o : new[f] = old[f]
    BY DEF Merged
  <2> HIDE DEF new
  <2>2. ASSUME NEW f PROVE f \in DOMAIN new <=> NamedUpTo(k, n, f) # {}
    <3>1. /\ k \in Naming(n, f) <=> f \in DOMAIN o
          /\ k \in Naming(n, f) => NamedUpTo(k, n, f) = NamedUpTo(m, n, f) \cup {k}
          /\ k \notin Naming(n, f) => NamedUpTo(k, n, f) = NamedUpTo(m, n, f)
      BY <1>1, NamedLemma
    <3>2. f \in DOMAIN old <=> NamedUpTo(m, n, f) # {}
      BY DEF FilesUpTo
    <3>3. QED
      BY <2>1, <3>1, <3>2
  <2>3. ASSUME NEW f \in DOMAIN new
        PROVE  \E i \in NamedUpTo(k, n, f) :
                 /\ \A j \in NamedUpTo(k, n, f) : j <= i
                 /\ new[f] = overrides[i].files[f]
    <3>1. CASE f \in DOMAIN o
      <4>1. k \in NamedUpTo(k, n, f) /\ \A j \in NamedUpTo(k, n, f) : j <= k
        <5>1. k \in Naming(n, f)
          BY <1>1, <3>1 DEF Naming
        <5>2. k \in Naming(n, f) => NamedUpTo(k, n, f) = NamedUpTo(m, n, f) \cup {k}
          BY NamedLemma
        <5>3. \A j \in NamedUpTo(k, n, f) : j <= k
          BY NamedLemma
        <5>4. QED
          BY <5>1, <5>2, <5>3
      <4>2. new[f] = overrides[k].files[f]
        BY <2>1, <3>1
      <4>3. QED
        BY <4>1, <4>2
    <3>2. CASE f \notin DOMAIN o
      <4>1. NamedUpTo(k, n, f) = NamedUpTo(m, n, f)
        BY <3>2, NamedLemma
      <4>2. f \in DOMAIN old /\ new[f] = old[f]
        BY <2>1, <3>2
      <4>3. QED
        BY <4>1, <4>2 DEF FilesUpTo
    <3>3. QED
      BY <3>1, <3>2
  <2>4. FilesUpTo(k, n, new)
    BY <2>2, <2>3 DEF FilesUpTo
  <2>5. QED
    BY <1>1, <2>4 DEF new
<1>2. CASE overrides[k].ns # n
  <2>1. \A f : NamedUpTo(k, n, f) = NamedUpTo(m, n, f)
    BY <1>2, NamedLemma
  <2>2. QED
    BY <1>2, <2>1 DEF FilesUpTo
<1>3. QED
  BY <1>1, <1>2

(***************************************************************************)
(* So does the step of the loop.                                           *)
(***************************************************************************)
LEMMA CollectStep ==
  ASSUME CollectInv, CollectOverride, NEW n \in Namespaces
  PROVE  FilesUpTo(collected', n, tenantCfg'[n])
<1> DEFINE k == collected + 1
           o == overrides[k]
<1>1. /\ overrides \in Seq(AnyElement) /\ collected \in Nat
      /\ k \in DOMAIN overrides /\ collected' = k
  BY DEF CollectInv, CollectOverride
<1>2. /\ tenantCfg' = [tenantCfg EXCEPT ![o.ns] = Merged(tenantCfg[o.ns], o.files)]
      /\ DOMAIN tenantCfg = Namespaces /\ FilesUpTo(collected, n, tenantCfg[n])
  BY DEF CollectInv, CollectOverride, Added
<1>3. /\ o.ns = n => tenantCfg'[n] = Merged(tenantCfg[n], o.files)
      /\ o.ns # n => tenantCfg'[n] = tenantCfg[n]
  BY <1>2
<1>4. QED
  BY <1>1, <1>2, <1>3, CollectLemma

(***************************************************************************)
(* The steps of the builder keep the invariant.                            *)
(***************************************************************************)
LEMMA CollectInvNext == CollectInv /\ [Next]_vars => CollectInv'
<1> SUFFICES ASSUME CollectInv, [Next]_vars PROVE CollectInv'
  OBVIOUS
<1>1. input' = input /\ hbase' = hbase /\ overrides' = overrides
  BY DEF Next, vars, input, CheckFile, Accept, CollectOverride, Build
<1>2. ASSUME \A n \in Namespaces : FilesUpTo(collected', n, tenantCfg'[n])
      PROVE  \A n \in Namespaces : FilesUpTo(collected, n, tenantCfg[n])'
  BY <1>1, <1>2 DEF FilesUpTo, NamedUpTo, Naming
<1>3. ASSUME UNCHANGED <<collected, tenantCfg, data>>, phase' = "built" => phase = "built"
      PROVE  CollectInv'
  BY <1>1, <1>2, <1>3 DEF CollectInv
<1>4. ASSUME NEW f \in Files, CheckFile(f) PROVE CollectInv'
  BY <1>3, <1>4 DEF CheckFile
<1>5. CASE Accept
  BY <1>3, <1>5 DEF Accept
<1>6. CASE CollectOverride
  <2>1. /\ phase' # "built" /\ collected' \in 0 .. Len(overrides)
        /\ DOMAIN tenantCfg' = Namespaces
    BY <1>6 DEF CollectOverride, CollectInv
  <2>2. \A n \in Namespaces : FilesUpTo(collected', n, tenantCfg'[n])
    BY <1>6, CollectStep
  <2>3. QED
    BY <1>1, <1>2, <2>1, <2>2 DEF CollectInv
<1>7. CASE Build
  <2>1. /\ collected' = Len(overrides) /\ UNCHANGED <<collected, tenantCfg>>
        /\ data' = [n \in Namespaces |-> Merged(hbase, tenantCfg[n])]
    BY <1>7 DEF Build
  <2>2. QED
    BY <1>1, <1>2, <2>1 DEF CollectInv
<1>8. CASE UNCHANGED vars
  BY <1>3, <1>8 DEF vars
<1>9. QED
  BY <1>4, <1>5, <1>6, <1>7, <1>8 DEF Next

(***************************************************************************)
(* What a finished ConfigMap holds.                                        *)
(***************************************************************************)
LEMMA BuiltLemma ==
  ASSUME CollectInv, phase = "built", NEW n \in Namespaces
  PROVE  /\ DOMAIN data[n] = DOMAIN hbase \cup DOMAIN tenantCfg[n]
         /\ \A f \in DOMAIN tenantCfg[n] : data[n][f] = tenantCfg[n][f]
         /\ \A f \in DOMAIN hbase \ DOMAIN tenantCfg[n] : data[n][f] = hbase[f]
         /\ \A f : NamedUpTo(collected, n, f) = Naming(n, f)
<1>1. data[n] = Merged(hbase, tenantCfg[n])
  BY DEF CollectInv
<1>2. \A f : \A i \in Naming(n, f) : i <= collected
  BY DEF CollectInv, Naming
<1>3. QED
  BY <1>1, <1>2 DEF Merged, NamedUpTo

(***************************************************************************)
(* buildConfigMap gives every namespace the common configuration with the  *)
(* last of its tenant overrides, for tenant configurations of any length.  *)
(***************************************************************************)
THEOREM BuiltCorrect == Spec => []BuiltAsSpecified
<1>1. CollectInv => BuiltAsSpecified
  <2> SUFFICES ASSUME CollectInv, phase = "built", NEW n \in Namespaces
               PROVE  /\ DOMAIN data[n] = {f \in Files : f \in DOMAIN hbase \/ Naming(n, f) # {}}
                      /\ \A f \in DOMAIN data[n] :
                           \/ Naming(n, f) = {} /\ data[n][f] = hbase[f]
                           \/ \E i \in Naming(n, f) :
                                /\ \A j \in Naming(n, f) : j <= i
                                /\ data[n][f] = overrides[i].files[f]
    BY DEF BuiltAsSpecified
  <2>1. \A f : f \in DOMAIN tenantCfg[n] <=> Naming(n, f) # {}
    BY BuiltLemma DEF CollectInv, FilesUpTo
  <2>2. \A f : Naming(n, f) # {} => f \in Files
    <3> SUFFICES ASSUME NEW f, NEW i \in Naming(n, f) PROVE f \in Files
      OBVIOUS
    <3>1. overrides[i].files \in FileMaps /\ f \in DOMAIN overrides[i].files
      BY ElementLemma DEF CollectInv, Naming
    <3>2. QED
      BY <3>1, FileMapLemma
  <2>3. DOMAIN data[n] = {f \in Files : f \in DOMAIN hbase \/ Naming(n, f) # {}}
    BY <2>1, <2>2, BuiltLemma DEF CollectInv
  <2>4. ASSUME NEW f \in DOMAIN data[n], Naming(n, f) # {}
        PROVE  \E i \in Naming(n, f) : /\ \A j \in Naming(n, f) : j <= i
                                      /\ data[n][f] = overrides[i].files[f]
    BY <2>1, <2>4, BuiltLemma DEF CollectInv, FilesUpTo
  <2>5. ASSUME NEW f \in DOMAIN data[n], Naming(n, f) = {}
        PROVE  data[n][f] = hbase[f]
    BY <2>1, <2>5, BuiltLemma
  <2>6. QED
    BY <2>3, <2>4, <2>5
<1>2. QED
  BY <1>1, CollectInvInit, CollectInvNext, PTL DEF Spec

(***************************************************************************)
(* A malformed file in a ConfigMap comes from a tenant override, or was    *)
(* hidden from the validation by a Hadoop file of its name.                *)
(***************************************************************************)
THEOREM MalformedCorrect == Spec => []MalformedExplained
<1>1. LoopInv /\ CollectInv => MalformedExplained
  <2> SUFFICES ASSUME LoopInv, CollectInv, phase = "built", NEW n \in Namespaces,
                      NEW f \in DOMAIN data[n] \cap XmlFiles,
                      Naming(n, f) = {}, f \notin DOMAIN hadoop
               PROVE  data[n][f] \notin Malformed
    BY DEF MalformedExplained
  <2>1. f \notin DOMAIN tenantCfg[n]
    BY BuiltLemma DEF CollectInv, FilesUpTo
  <2>2. f \in DOMAIN hbase /\ data[n][f] = hbase[f]
    BY <2>1, BuiltLemma
  <2>3. f \in Visited /\ AllConfig[f] = hbase[f]
    BY <2>2 DEF Visited, AllConfig, Merged, LoopInv
  <2>4. QED
    BY <2>2, <2>3 DEF LoopInv, Invalid
<1>2. Init => LoopInv
  BY DEF Init, LoopInv, Visited
<1>3. QED
  BY <1>1, <1>2, LoopInvStep, CollectInvInit, CollectInvNext, PTL DEF Spec
==============================================================================
