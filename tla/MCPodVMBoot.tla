----------------------------- MODULE MCPodVMBoot -----------------------------
(* The bounds of the retrieval are those of the code: 10 attempts, and 36    *)
(* delays of 5 seconds in the timeout of 180 seconds.                       *)
EXTENDS PodVMBoot

AllConfigs == CloudConfigs
Bare == {c \in AllConfigs : Len(c) = 1}

\* The adaptor's process; one in a pod VM that fails and is stopped, with the least
\* user data; and one that is left alone, with all kinds of user data.
SomeCases ==
  {[kinds |-> Adaptor, restarts |-> 2, faults |-> 3, signals |-> 2,
    sources |-> {"none"}, configs |-> Bare],
   [kinds |-> PodVM, restarts |-> 1, faults |-> 2, signals |-> 2,
    sources |-> {"azure"}, configs |-> Bare],
   [kinds |-> PodVM, restarts |-> 0, faults |-> 0, signals |-> 0,
    sources |-> {"file", "aws", "gcp", "none"}, configs |-> AllConfigs]}
=============================================================================
