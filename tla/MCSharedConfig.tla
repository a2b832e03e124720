---------------------------- MODULE MCSharedConfig ----------------------------
(***************************************************************************)
(* An HbaseCluster that lists the namespace of an HbaseTenant among its    *)
(* tenantNamespaces: both manage the ConfigMaps there, in parallel.        *)
(***************************************************************************)
EXTENDS OperatorProperties

CONSTANTS hb, t

Deps(c) == IF c = hb THEN <<"zk", "dn">> ELSE <<"tdn">>

SharedMeta ==
  [c \in CRs |->
     [kind |-> IF c = hb THEN "cluster" ELSE "tenant",
      name |-> IF c = hb THEN "hb" ELSE "t", ns |-> IF c = hb THEN "main" ELSE "team",
      hbaseCfg |-> "hbase-config", hadoopCfg |-> "hadoop-config",
      deps |-> Deps(c), datanode |-> IF c = hb THEN "dn" ELSE "tdn"]]

S(c, hbase, tns, tmpl) ==
  [hbase |-> hbase, hadoop |-> 1, valid |-> TRUE, label |-> "true", tns |-> tns,
   dep |-> [d \in Range(Deps(c)) |->
              [size |-> IF d = "zk" THEN 0 ELSE 1, tmpl |-> tmpl, ports |-> 1, podsvc |-> FALSE, pdb |-> 0]]]

SharedScript ==
  [c \in CRs |-> IF c = hb THEN <<S(hb, 1, <<"team">>, 1)>> ELSE <<S(t, 1, <<>>, 1)>>]

Additional == <<"team">>

OneWorker == [kind \in Kinds |-> 1]
==============================================================================
