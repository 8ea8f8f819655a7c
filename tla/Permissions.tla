---------------------------- MODULE Permissions ----------------------------
(***************************************************************************)
(* The permission state of agent/permissions.py: one global object, which  *)
(* the /permissions endpoints change and the tool wrapper consults before  *)
(* every tool run.  AgentService composes it with the query path.          *)
(***************************************************************************)
CONSTANTS
  Tools,   \* the tools the agent has loaded
  Class    \* TOOL_CLASSIFICATIONS, for those of the tools it names

Modes == {"read_only", "read_write", "safe_mode"}
OperationTypes == {"READ", "WRITE", "DELETE", "EXECUTE"}

ASSUME PermissionAssumption ==
  /\ DOMAIN Class \subseteq Tools
  /\ \A t \in DOMAIN Class : Class[t] \in OperationTypes

VARIABLES
  mode,          \* mode
  denied,        \* denied_tools
  safeAllowed,   \* safe_mode_allowed_tools
  readAllowed    \* read_only_allowed_tools

permissions == <<mode, denied, safeAllowed, readAllowed>>

PermissionTypes ==
  /\ mode \in Modes
  /\ {denied, safeAllowed, readAllowed} \subseteq SUBSET Tools

(* A fresh PermissionConfig; the DEFAULT_OPERATION_MODE of agent/config.py *)
(* is not read here.                                                       *)
FreshPermissions ==
  [mode |-> "read_write", denied |-> {}, safeAllowed |-> {}, readAllowed |-> {}]

InitPermissions ==
  /\ mode = FreshPermissions.mode
  /\ denied = FreshPermissions.denied
  /\ safeAllowed = FreshPermissions.safeAllowed
  /\ readAllowed = FreshPermissions.readAllowed

ResetPermissions ==
  /\ mode' = FreshPermissions.mode
  /\ denied' = FreshPermissions.denied
  /\ safeAllowed' = FreshPermissions.safeAllowed
  /\ readAllowed' = FreshPermissions.readAllowed
-----------------------------------------------------------------------------
OperationType(t) == IF t \in DOMAIN Class THEN Class[t] ELSE "READ"

(* is_allowed: the deny list first, then the mode.                         *)
IsAllowed(t) ==
  /\ t \notin denied
  /\ \/ mode = "read_write"
     \/ mode = "read_only" /\ OperationType(t) = "READ"
     \/ /\ mode = "safe_mode"
        /\ OperationType(t) \notin {"DELETE", "EXECUTE"}
        /\ safeAllowed # {} => t \in safeAllowed

(* set_operation_mode; set_mode_from_string refuses a name that is no mode *)
(* and changes nothing.                                                    *)
SetMode(m) ==
  /\ mode' = m
  /\ UNCHANGED <<denied, safeAllowed, readAllowed>>

AddDenyTool(t) ==
  /\ denied' = denied \cup {t}
  /\ UNCHANGED <<mode, safeAllowed, readAllowed>>

RemoveDenyTool(t) ==
  /\ denied' = denied \ {t}
  /\ UNCHANGED <<mode, safeAllowed, readAllowed>>

(* set_allowed_tools, whose other mode names are accepted and ignored.     *)
SetAllowedTools(m, allowed) ==
  /\ readAllowed' = IF m = "read_only" THEN allowed ELSE readAllowed
  /\ safeAllowed' = IF m = "safe_mode" THEN allowed ELSE safeAllowed
  /\ UNCHANGED <<mode, denied>>
=============================================================================
