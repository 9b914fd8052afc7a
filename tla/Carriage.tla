------------------------------ MODULE Carriage ------------------------------
(* What a carrier of deliveries promises: it carries only what it took, and  *)
(* each thing it took it hands over or gives up at a place that can be named. *)
CONSTANT Deliveries

VARIABLES
  taken,      \* deliveries the carrier has accepted
  delivered,  \* those the other side has received
  given       \* those given up, each at a place that can be named

vars == <<taken, delivered, given>>

Init == taken = {} /\ delivered = {} /\ given = {}

Take(S) ==
  /\ taken' = taken \cup S
  /\ UNCHANGED <<delivered, given>>

Deliver(d) ==
  /\ d \in taken
  /\ delivered' = delivered \cup {d}
  /\ UNCHANGED <<taken, given>>

\* A crash gives up several at once, a failing lookup what it had just taken.
GiveUp(S) ==
  /\ S \subseteq taken'
  /\ taken \subseteq taken' /\ taken' \subseteq Deliveries
  /\ given' = given \cup S
  /\ UNCHANGED delivered

Next == \E S \in SUBSET Deliveries : Take(S) \/ GiveUp(S) \/ \E d \in S : Deliver(d)

Safe == Init /\ [][Next]_vars

Settled(d) == d \in delivered \cup given

\* What is taken is settled in the end.
Spec == Safe /\ \A d \in Deliveries : d \in taken ~> Settled(d)

=============================================================================
