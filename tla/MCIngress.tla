------------------------------ MODULE MCIngress ------------------------------
(* Ingress deliveries on small instances; one cfg per question. Instances   *)
(* i1 and i2 are of two plugins and share their instanceId, so that their   *)
(* deliveries meet in one lane.                                             *)
EXTENDS IngressDelivery, TLC

CONSTANTS d1, d2, d3, d4, i1, i2, k1, x1, x2, x3

OneConversation == [d \in Deliveries |-> k1]

\* The third delivery is the second instance's, under the first one's id.
InstanceOf == [d \in Deliveries |-> IF d = d3 THEN i2 ELSE i1]

SharedId ==
  [d \in Deliveries |-> CASE d \in {d1, d3} -> x1 [] d = d2 -> x2 [] d = d4 -> x3]

Symmetry == Permutations(Calls)

=============================================================================
