------------------------------ MODULE MCDeletion ------------------------------
(***************************************************************************)
(* One HbaseCluster with a tenant namespace, deleted and created again     *)
(* with a new configuration but the same Datanode, so that only the owner  *)
(* tells the old StatefulSet from the new.                                 *)
(***************************************************************************)
EXTENDS Deletion

MCMeta ==
  [c \in CRs |-> [kind |-> "cluster", name |-> "hb", ns |-> "main",
                  hbaseCfg |-> "hbase-config", hadoopCfg |-> "hadoop-config",
                  deps |-> <<"zk", "dn">>, datanode |-> "dn"]]

D(size, tmpl, pdb) == [size |-> size, tmpl |-> tmpl, ports |-> 1, podsvc |-> FALSE, pdb |-> pdb]

S(hbase) ==
  [hbase |-> hbase, hadoop |-> 1, valid |-> TRUE, label |-> "off", tns |-> <<"team">>,
   dep |-> [x \in {"zk", "dn"} |-> IF x = "zk" THEN D(0, 1, 0) ELSE D(1, 1, 0)]]

MCScript == [c \in CRs |-> <<S(1), S(2)>>]
==============================================================================
