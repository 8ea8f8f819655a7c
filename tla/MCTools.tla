------------------------------ MODULE MCTools ------------------------------
(* The runner with the scripts of all the tools that agent/tools defines,  *)
(* and with those that the agent gets loaded (ToolLoading).                *)
EXTENDS ToolScripts, ToolRunner

(* Tools of one script and one class behave alike: one of each kind stands *)
(* for the others.                                                         *)
MCTools ==
  {"list_jenkins_jobs", "get_jenkins_build_log", "trigger_jenkins_build",
   "jenkins_list_jobs", "jenkins_trigger_build",
   "jenkins_get_console_output", "jenkins_list_failed_builds",
   "search_artifact", "get_build_info", "search_error_logs",
   "get_nginx_5xx_errors", "get_nginx_error_log", "prometheus_query_range",
   "grafana_list_dashboards", "grafana_get_dashboard", "grafana_query_panel",
   "llm_summarise", "ec2_list_instances", "elb_list_load_balancers",
   "elb_get_target_health", "postgres_list_databases", "mysql_status",
   "mysql_processlist", "redis_info", "redis_get_keys",
   "docker_list_containers", "docker_system_info",
   "github_list_workflow_runs", "github_get_workflow_run_status",
   "github_list_pr_checks", "pd_list_incidents", "pd_get_incident_details",
   "pd_manage_incident", "ssl_check_host", "ssl_batch_check",
   "ssl_get_cert_chain", "dns_lookup", "terraform_validate",
   "terraform_plan", "terraform_apply", "terraform_destroy",
   "terraform_state_list", "list_pods", "get_pod_logs", "describe_pod",
   "get_deployments"}

DefaultedClass(t) ==
  IF t \in DOMAIN TOOL_CLASSIFICATIONS THEN TOOL_CLASSIFICATIONS[t] ELSE "READ"
Alike(t, u) == ALL_TOOLS[t] = ALL_TOOLS[u] /\ DefaultedClass(t) = DefaultedClass(u)
ASSUME EveryToolIsRepresented ==
  \A t \in DOMAIN ALL_TOOLS : \E u \in MCTools : Alike(t, u)

ClassOf(tools) ==
  [t \in tools \cap DOMAIN TOOL_CLASSIFICATIONS |-> TOOL_CLASSIFICATIONS[t]]
MCClass == ClassOf(MCTools)

LoadedTools ==
  DOMAIN jenkins_tools \cup DOMAIN kibana_tools \cup DOMAIN artifactory_tools
    \cup DOMAIN get_nginx_tools
LoadedClass == ClassOf(LoadedTools)

ASSUME ScriptsQualify ==
  OneRequestPerChange /\ NoFailureHidden /\ ReadersChangeNothing /\ StatusBeforeNote
=============================================================================
