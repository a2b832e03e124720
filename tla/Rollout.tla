------------------------------- MODULE Rollout -------------------------------
(***************************************************************************)
(* What a user may rely on while the operator brings up or upgrades the    *)
(* components of his custom resources, without the passes, caches, hashes, *)
(* retries and faults by which it comes about.  A component is offered a   *)
(* generation only when every component listed before it in that           *)
(* generation runs the same generation and has had all its replicas ready, *)
(* and is never offered an older generation than it has.                   *)
(***************************************************************************)
EXTENDS Integers, Sequences

CONSTANTS
  Clusters,    \* custom resources
  Components,  \* the StatefulSets that realise their deployments
  Plan         \* per custom resource and generation, its components in order:
               \* a sequence of records [set, size]

VARIABLES
  gen,      \* the generation of each custom resource
  offered,  \* the generation each component was last offered, 0 for none
  reached   \* the numbers of ready replicas each component has had

vars == <<gen, offered, reached>>

Init ==
  /\ gen = [c \in Clusters |-> 1]
  /\ offered = [k \in Components |-> 0]
  /\ reached = [k \in Components |-> {}]

(***************************************************************************)
(* The user edits a custom resource.                                       *)
(***************************************************************************)
Edit(c) ==
  /\ gen[c] < Len(Plan[c])
  /\ gen' = [gen EXCEPT ![c] = @ + 1]
  /\ UNCHANGED <<offered, reached>>

(***************************************************************************)
(* A component that exists reports a number of ready replicas.             *)
(***************************************************************************)
Report(k) ==
  /\ offered[k] # 0
  /\ reached[k] \subseteq reached'[k]
  /\ reached' = [reached EXCEPT ![k] = reached'[k]]
  /\ UNCHANGED <<gen, offered>>

Complete(c, g, i) ==
  LET p == Plan[c][g][i]
  IN  offered[p.set] = g /\ p.size \in reached[p.set]

(***************************************************************************)
(* The j-th component of c is offered generation g; a component that is    *)
(* new starts with no ready replica.                                       *)
(***************************************************************************)
Offer(c, g, j) ==
  LET k == Plan[c][g][j].set
  IN  /\ \A i \in 1 .. (j - 1) : Complete(c, g, i)
      /\ offered[k] <= g
      /\ offered' = [offered EXCEPT ![k] = g]
      /\ reached' = IF offered[k] = 0 THEN [reached EXCEPT ![k] = {0}] ELSE reached
      /\ UNCHANGED gen

Next ==
  \/ \E c \in Clusters : Edit(c)
  \/ \E k \in Components : Report(k)
  \/ \E c \in Clusters : \E g \in 1 .. gen[c] : \E j \in 1 .. Len(Plan[c][g]) : Offer(c, g, j)

Spec == Init /\ [][Next]_vars
==============================================================================
