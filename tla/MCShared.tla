------------------------------- MODULE MCShared -------------------------------
(***************************************************************************)
(* An HbaseTenant and an HbaseStandalone of one operator process.          *)
(***************************************************************************)
EXTENDS OperatorProperties

CONSTANTS a, b

M(kind, name, ns, dep) ==
  [kind |-> kind, name |-> name, ns |-> ns, hbaseCfg |-> "hbase-config",
   hadoopCfg |-> "hadoop-config", deps |-> <<dep>>, datanode |-> dep]

S(dep, hbase, valid, label, size, tmpl, pdb) ==
  [hbase |-> hbase, hadoop |-> 1, valid |-> valid, label |-> label, tns |-> <<>>,
   dep |-> [d \in {dep} |-> [size |-> size, tmpl |-> tmpl, ports |-> 1,
                             podsvc |-> FALSE, pdb |-> pdb]]]

Pair(x, y) == [c \in CRs |-> IF c = a THEN x ELSE y]

(* A tenant and a standalone, each with names of its own. *)
MixedMeta == Pair(M("tenant", "t", "n1", "dn"), M("standalone", "s", "n2", "all"))

(* The tenant's pods do not follow its configuration at first; then they    *)
(* should, but the configuration is invalid; then it is repaired, with a    *)
(* new template.  The standalone is scaled, with a new configuration and    *)
(* a new budget.                                                            *)
MixedScript ==
  Pair(<<S("dn", 1, TRUE,  "config-only", 1, 1, 1),
         S("dn", 2, FALSE, "true", 1, 1, 1),
         S("dn", 3, TRUE,  "true", 1, 2, 1)>>,
       <<S("all", 1, TRUE, "off", 1, 1, 1),
         S("all", 2, TRUE, "off", 2, 1, 2)>>)

(* ADDITIONAL_WATCH_NAMESPACES next to WATCH_NAMESPACE "n1". *)
Additional == <<"n2">>

TwoWorkers == [kind \in Kinds |-> IF kind = "tenant" THEN 2 ELSE 1]
==============================================================================
