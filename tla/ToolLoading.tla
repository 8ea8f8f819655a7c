---------------------------- MODULE ToolLoading ----------------------------
(***************************************************************************)
(* How the agent gets its tools: _load_tools of agent/orchestrator.py      *)
(* imports one module of the package agent/tools after another, each in a  *)
(* try of its own.  The first import runs the package's __init__.py, the   *)
(* tool registry, which imports every module in an order of its own.  When *)
(* that fails, Python forgets the package but keeps the modules that were  *)
(* imported by then, and the next import runs __init__.py again.           *)
(***************************************************************************)
EXTENDS Integers, Sequences, FiniteSets, SequencesExt

CONSTANT MaxBroken   \* bound: modules of the package that cannot be imported

(* The imports of __init__.py and those of _load_tools, in their order.    *)
Registry ==
  <<"nginx_tool", "kibana_tool", "jenkins_tool", "artifactory_tool",
    "kubernetes_tool", "prometheus_tools", "grafana_tool", "aws_tool",
    "cloudwatch_tool", "database_tool", "docker_tool", "github_tool",
    "pagerduty_tool", "ssl_tool", "terraform_tool", "llm_tools",
    "knowledge_base_tool">>

Wanted ==
  <<"k8s_tool", "jenkins_tool", "kibana_tool", "artifactory_tool", "nginx_tool",
    "prometheus_tools", "grafana_tool", "llm_tools", "aws_tool",
    "cloudwatch_tool", "database_tool", "docker_tool", "github_tool",
    "pagerduty_tool", "ssl_tool", "terraform_tool", "knowledge_base_tool">>

Modules == ToSet(Registry)   \* the files; there is no k8s_tool.py

(* The modules that bind the name that __init__.py imports from them; that *)
(* of kubernetes_tool, k8s_tools, it does not bind.                        *)
BindsItsName == Modules \ {"kubernetes_tool"}

VARIABLES
  broken,    \* modules that raise when they are run: a library is missing
  modules,   \* modules in sys.modules
  package,   \* whether sys.modules has the package
  entry,     \* the import of __init__.py that is next, or 0
  group,     \* the import of _load_tools that is next
  tools      \* the modules whose tools the agent has

vars == <<broken, modules, package, entry, group, tools>>

TypeOK ==
  /\ broken \subseteq Modules
  /\ modules \subseteq Modules \ broken
  /\ package \in BOOLEAN
  /\ entry \in 0..Len(Registry)
  /\ group \in 1..Len(Wanted) + 1
  /\ tools \subseteq modules

Init ==
  /\ broken \in {b \in SUBSET Modules : Cardinality(b) <= MaxBroken}
  /\ modules = {} /\ package = FALSE /\ entry = 0
  /\ group = 1 /\ tools = {}

Wants(m) == entry = 0 /\ group <= Len(Wanted) /\ Wanted[group] = m

(* A module that sys.modules has is taken from there, without its package. *)
Extend(m) ==
  /\ Wants(m) /\ m \in modules
  /\ tools' = tools \cup {m}
  /\ group' = group + 1
  /\ UNCHANGED <<broken, modules, package, entry>>

(* Any other needs its package first.                                      *)
RunRegistry(m) ==
  /\ Wants(m) /\ m \notin modules /\ ~package
  /\ entry' = 1
  /\ UNCHANGED <<broken, modules, package, group, tools>>

ImportNext ==
  /\ entry # 0 /\ Registry[entry] \in BindsItsName \ broken
  /\ modules' = modules \cup {Registry[entry]}
  /\ IF entry = Len(Registry)
       THEN entry' = 0 /\ package' = TRUE
       ELSE entry' = entry + 1 /\ UNCHANGED package
  /\ UNCHANGED <<broken, group, tools>>

(* An import of the registry fails: the group that wanted the package goes *)
(* without its tools, which is logged as a warning.                        *)
RegistryFails ==
  /\ entry # 0 /\ Registry[entry] \notin BindsItsName \ broken
  /\ modules' = modules \cup ({Registry[entry]} \ broken)
  /\ entry' = 0
  /\ group' = group + 1
  /\ UNCHANGED <<broken, package, tools>>

(* The package is there, but not the module.                               *)
ModuleFails(m) ==
  /\ Wants(m) /\ m \notin modules /\ package
  /\ group' = group + 1
  /\ UNCHANGED <<broken, modules, package, entry, tools>>

Next ==
  \/ \E m \in ToSet(Wanted) : Extend(m) \/ RunRegistry(m) \/ ModuleFails(m)
  \/ ImportNext
  \/ RegistryFails

Spec == Init /\ [][Next]_vars
-----------------------------------------------------------------------------
(* tools/__init__.py: "import all tools so orchestrator can discover them":*)
(* once all groups have been tried, the agent has the tools of every module*)
(* that can be imported.                                                   *)
EverySoundGroupLoads ==
  group > Len(Wanted) => (ToSet(Wanted) \cap Modules) \ broken \subseteq tools
=============================================================================
