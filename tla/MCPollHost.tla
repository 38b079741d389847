----------------------------- MODULE MCPollHost -----------------------------
(* The poll host on small instances: three or four connections, pool of the *)
(* size host.h gives it.                                                    *)
EXTENDS PollHost, TLC

ConnSymmetry == Permutations(Conns)
=============================================================================
