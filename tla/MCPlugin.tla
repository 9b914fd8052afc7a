------------------------------- MODULE MCPlugin -------------------------------
(* A plugin, two operators and the workers they start.                        *)
EXTENDS PluginHost

=============================================================================
