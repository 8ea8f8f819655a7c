--------------------------- MODULE MCAgentService ---------------------------
(* The service with a tool that TOOL_CLASSIFICATIONS names, the terraform  *)
(* group's destroy, and one that it does not, trigger_jenkins_build.       *)
EXTENDS AgentService, TLC

CONSTANTS destroy, build

MCTools == {destroy, build}
MCClass == destroy :> "DELETE"
MCLists == {{}}

Symmetry == Permutations(Requests) \cup Permutations(Sessions)
=============================================================================
