------------------------------- MODULE MCChat --------------------------------
(* One chat of the dashboard on a small instance.                           *)
EXTENDS ChatThread

=============================================================================
