------------------------------ MODULE MCWlanCmd ------------------------------
(* Values of the constants of WlanCmd for model checking.                  *)
EXTENDS WlanCmdProps, TLC

CONSTANTS b1, b2, n1, n2

\* Two blocking commands with the same confirmation, and two that do not block.
MCReqId == [c \in Cmd |-> IF c \in ReqCfm THEN 1 ELSE 0]

\* The blocking commands are alike.
Symmetric == Permutations({b1, b2})

=============================================================================
