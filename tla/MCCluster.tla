------------------------------ MODULE MCCluster ------------------------------
(***************************************************************************)
(* One HbaseCluster with two deployments: "zk" in the place of Zookeeper,  *)
(* which a spec may drop by size 0, and "dn" in the place of the Datanode. *)
(***************************************************************************)
EXTENDS OperatorProperties

MCMeta ==
  [c \in CRs |-> [kind |-> "cluster", name |-> "hb", ns |-> "main",
                  hbaseCfg |-> "hbase-config", hadoopCfg |-> "hadoop-config",
                  deps |-> <<"zk", "dn">>, datanode |-> "dn"]]

D(size, tmpl, podsvc, pdb) ==
  [size |-> size, tmpl |-> tmpl, ports |-> 1, podsvc |-> podsvc, pdb |-> pdb]

S(hbase, valid, label, tns, zk, dn) ==
  [hbase |-> hbase, hadoop |-> 1, valid |-> valid, label |-> label, tns |-> tns,
   dep |-> [x \in {"zk", "dn"} |-> IF x = "zk" THEN zk ELSE dn]]

(* New templates everywhere while the first quorum shrinks from 2 to 1. *)
UpgradeScript ==
  [c \in CRs |-> <<S(1, TRUE, "off", <<>>, D(2, 1, FALSE, 0), D(1, 1, TRUE, 1)),
                   S(1, TRUE, "off", <<>>, D(1, 2, FALSE, 0), D(1, 2, TRUE, 1))>>]

(* A cluster without Zookeeper gets one, with a new configuration, in one   *)
(* more namespace, which is one the operator does not watch; then in one it *)
(* watches, but with volumes of the Datanode that are rejected, so that the *)
(* new stamp stays half way; then the volumes are repaired and the label is *)
(* taken off.                                                               *)
ConfigScript ==
  [c \in CRs |-> <<S(1, TRUE, "true", <<>>,       D(0, 1, FALSE, 0), D(1, 1, FALSE, 0)),
                   S(2, TRUE, "true", <<"away">>, D(1, 1, FALSE, 0), D(1, 1, FALSE, 0)),
                   S(2, TRUE, "true", <<"team">>, D(1, 1, FALSE, 0), D(1, 0, FALSE, 0)),
                   S(2, TRUE, "off",  <<"team">>, D(1, 1, FALSE, 0), D(1, 1, FALSE, 0))>>]

(* Every template changes at once: a new base image. *)
TemplateScript ==
  [c \in CRs |-> <<S(1, TRUE, "off", <<>>, D(1, 1, FALSE, 0), D(1, 1, FALSE, 0)),
                   S(1, TRUE, "off", <<>>, D(1, 2, FALSE, 0), D(1, 2, FALSE, 0))>>]

(* One configuration change of a cluster whose pods follow it. *)
LabelledScript ==
  [c \in CRs |-> <<S(1, TRUE, "true", <<>>, D(1, 1, FALSE, 0), D(1, 1, FALSE, 0)),
                   S(2, TRUE, "true", <<>>, D(1, 1, FALSE, 0), D(1, 1, FALSE, 0))>>]

(* ADDITIONAL_WATCH_NAMESPACES next to WATCH_NAMESPACE "main". *)
Additional == <<"team">>

OneWorker == [kind \in Kinds |-> 1]
==============================================================================
