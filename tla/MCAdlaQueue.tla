---------------------------- MODULE MCAdlaQueue ----------------------------
(* Instances of AdlaQueue for TLC.                                         *)
EXTENDS AdlaQueueProps

\* Two tasks of default priority in different contexts, a high and a low one.
MCPrio == [t \in Task |-> CASE t = <<0, 1>> -> 2 [] t = <<1, 1>> -> 1 [] OTHER -> 0]
=============================================================================
