------------------------------ MODULE ConfigMaps ------------------------------
(***************************************************************************)
(* What goes into a ConfigMap: validateConfiguration, which looks at the   *)
(* files of a configuration in the arbitrary order of a Go map and stops   *)
(* at the first malformed one, and buildConfigMap, which merges the        *)
(* per-namespace tenant configuration into the common one.  Module         *)
(* Operator keeps of all this a flag and a revision number.                *)
(***************************************************************************)
EXTENDS Integers, Sequences, FiniteSets

CONSTANTS
  XmlFiles,      \* file names that allowedConfigs lists as XML
  OtherFiles,    \* every other file name, known or unknown
  Texts,         \* file contents
  Malformed,     \* the contents encoding/xml does not accept
  Namespaces,    \* namespaces that receive a ConfigMap
  MaxOverrides,  \* bound on the length of the tenant configuration
  MaxElement     \* bound on the number of files in each of its elements

ASSUME ConfigAssumption ==
  /\ XmlFiles \cap OtherFiles = {}
  /\ Malformed \subseteq Texts
  /\ MaxOverrides \in Nat /\ MaxElement \in Nat

Files == XmlFiles \cup OtherFiles

(***************************************************************************)
(* A Go map from file names to contents.                                   *)
(***************************************************************************)
FileMaps == UNION {[names -> Texts] : names \in SUBSET Files}
NoFiles == [f \in {} |-> {}]

(***************************************************************************)
(* An element of the tenant configuration: the value of its "namespace"    *)
(* entry and its other entries.                                            *)
(***************************************************************************)
Elements == [ns : Namespaces, files : {m \in FileMaps : Cardinality(DOMAIN m) <= MaxElement}]

(***************************************************************************)
(* Copying the entries of map over into map base.                          *)
(***************************************************************************)
Merged(base, over) ==
  [f \in DOMAIN base \cup DOMAIN over |-> IF f \in DOMAIN over THEN over[f] ELSE base[f]]

VARIABLES
  hbase, hadoop,  \* HbaseConfig and HadoopConfig of the custom resource
  overrides,      \* HbaseTenantConfig: namespace and files of each element
  phase,          \* "validate", "rejected", "collect" or "built"
  unchecked,      \* files the validation loop has still to visit
  collected,      \* elements of overrides already in tenantCfg
  tenantCfg,      \* per namespace, the overriding files
  data            \* per namespace, the Data of its hbase ConfigMap

input == <<hbase, hadoop, overrides>>
vars == <<hbase, hadoop, overrides, phase, unchecked, collected, tenantCfg, data>>

\* Mutant: only the HbaseConfig is collected.
HbaseOnly == hbase

\* Mutant: only the HadoopConfig is collected.
HadoopOnly == hadoop

(***************************************************************************)
(* allConfig of validateConfiguration: a file of the HadoopConfig takes    *)
(* the place of one of the same name in the HbaseConfig.                   *)
(***************************************************************************)
AllConfig == Merged(hbase, hadoop)

Init ==
  /\ hbase \in FileMaps /\ hadoop \in FileMaps
  /\ overrides \in UNION {[1 .. n -> Elements] : n \in 0 .. MaxOverrides}
  /\ phase = "validate"
  /\ unchecked = DOMAIN AllConfig
  /\ collected = 0
  /\ tenantCfg = [n \in Namespaces |-> NoFiles]
  /\ data = [n \in Namespaces |-> NoFiles]

(***************************************************************************)
(* Only the content of an XML file is looked at (isValidXML).              *)
(***************************************************************************)
Invalid(f) == f \in XmlFiles /\ AllConfig[f] \in Malformed

(***************************************************************************)
(* The validation loop visits some file it has not visited.                *)
(***************************************************************************)
CheckFile(f) ==
  /\ phase = "validate" /\ f \in unchecked
  /\ unchecked' = unchecked \ {f}
  /\ phase' = IF Invalid(f) THEN "rejected" ELSE "validate"
  /\ UNCHANGED <<input, collected, tenantCfg, data>>

Accept ==
  /\ phase = "validate" /\ unchecked = {}
  /\ phase' = "collect"
  /\ UNCHANGED <<input, unchecked, collected, tenantCfg, data>>

\* Mutant: the map of a namespace is made anew for every element.
AddedAfresh(files, o) == o.files

(***************************************************************************)
(* Later elements for a namespace are added to the earlier ones.           *)
(***************************************************************************)
Added(files, o) == Merged(files, o.files)

CollectOverride ==
  LET o == overrides[collected + 1]
  IN  /\ phase = "collect" /\ collected < Len(overrides)
      /\ tenantCfg' = [tenantCfg EXCEPT ![o.ns] = Added(@, o)]
      /\ collected' = collected + 1
      /\ UNCHANGED <<input, phase, unchecked, data>>

Build ==
  /\ phase = "collect" /\ collected = Len(overrides)
  /\ data' = [n \in Namespaces |-> Merged(hbase, tenantCfg[n])]
  /\ phase' = "built"
  /\ UNCHANGED <<input, unchecked, collected, tenantCfg>>

Next == (\E f \in Files : CheckFile(f)) \/ Accept \/ CollectOverride \/ Build

Spec == Init /\ [][Next]_vars

------------------------------------------------------------------------------
(***************************************************************************)
(* The verdict does not depend on the order of the loop: a configuration   *)
(* is rejected only if one of its merged files is malformed XML, and goes  *)
(* on to the ConfigMaps only if none is (validateConfiguration).           *)
(***************************************************************************)
HasMalformed(files) == \E f \in DOMAIN files \cap XmlFiles : files[f] \in Malformed

VerdictExact ==
  /\ phase = "rejected" => HasMalformed(Merged(hbase, hadoop))
  /\ phase \in {"collect", "built"} => ~HasMalformed(Merged(hbase, hadoop))

(***************************************************************************)
(* buildConfigMap against its reference: in the ConfigMap of namespace n a *)
(* file has the content of the last tenant element for n that names it,    *)
(* else that of the common configuration, and no other file is there.      *)
(***************************************************************************)
Naming(n, f) == {i \in DOMAIN overrides : overrides[i].ns = n /\ f \in DOMAIN overrides[i].files}

BuiltAsSpecified ==
  phase = "built" =>
    \A n \in Namespaces :
      /\ DOMAIN data[n] = {f \in Files : f \in DOMAIN hbase \/ Naming(n, f) # {}}
      /\ \A f \in DOMAIN data[n] :
           \/ Naming(n, f) = {} /\ data[n][f] = hbase[f]
           \/ \E i \in Naming(n, f) :
                /\ \A j \in Naming(n, f) : j <= i
                /\ data[n][f] = overrides[i].files[f]

(***************************************************************************)
(* A malformed XML file reaches a ConfigMap in two ways only: a tenant     *)
(* element names it (overrides are never validated), or a Hadoop file of   *)
(* the same name hid it from validateConfiguration.                        *)
(***************************************************************************)
MalformedExplained ==
  phase = "built" =>
    \A n \in Namespaces : \A f \in DOMAIN data[n] \cap XmlFiles :
      data[n][f] \in Malformed => Naming(n, f) # {} \/ f \in DOMAIN hadoop
==============================================================================
