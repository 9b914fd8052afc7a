----------------------------- MODULE StartLock ------------------------------
(***************************************************************************)
(* What the reservation of start() promises: one lock per session, taken   *)
(* only when free, given back by the call that took it, and all free again *)
(* after the process exits.                                                *)
(***************************************************************************)
CONSTANTS Sessions, Calls, None

VARIABLE holder   \* for each session, the start() call that reserved it, if any

TypeOK == holder \in [Sessions -> Calls \cup {None}]

Init == holder = [s \in Sessions |-> None]

Acquire(c, s) ==
  /\ holder[s] = None
  /\ \A r \in Sessions : holder[r] # c
  /\ holder' = [holder EXCEPT ![s] = c]

Release(c, s) ==
  /\ holder[s] = c
  /\ holder' = [holder EXCEPT ![s] = None]

Exit == holder' = [s \in Sessions |-> None]

Next ==
  \/ \E c \in Calls, s \in Sessions : Acquire(c, s) \/ Release(c, s)
  \/ Exit

Spec == Init /\ [][Next]_holder
=============================================================================
