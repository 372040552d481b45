---------------------------- MODULE MCAgentProxy ----------------------------
(* Instances of AgentProxy for TLC. *)
EXTENDS AgentProxy

CONSTANTS r1, r2, v1, v2
MCReq == {r1, r2}
MCVolume == {v1, v2}
\* No volume, a volume after another mount, and two volumes.
MCMounts == {<<"other">>, <<"other", v1>>, <<v1, "other", v2>>}
=============================================================================
