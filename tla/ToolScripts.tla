---------------------------- MODULE ToolScripts ----------------------------
(***************************************************************************)
(* What each tool of agent/tools asks of the systems it talks to, as data  *)
(* that ToolRunner interprets: what it checks first, the requests and      *)
(* commands it issues in order, which of them change a system, and what    *)
(* the LLM gets to read when one of them fails.  The wording of answers is *)
(* left out.  The tools of the knowledge base are in KnowledgeBase.        *)
(***************************************************************************)
EXTENDS ToolSteps, Integers, Sequences, TLC

(* The endings of a tool that lacks a setting or an argument, and its steps*)
Tool(refusals, steps) == [refusals |-> refusals, steps |-> steps]

Ask(on) == [change |-> "none", on |-> on, then |-> "more", timed |-> TRUE,
            optional |-> FALSE, repeated |-> FALSE, partial |-> FALSE]
Do(change, on) == [Ask(on) EXCEPT !.change = change]
Then(s, how) == [s EXCEPT !.then = how]
Maybe(s) == [s EXCEPT !.optional = TRUE]
Each(s) == [s EXCEPT !.optional = TRUE, !.repeated = TRUE]
Untimed(s) == [s EXCEPT !.timed = FALSE]    \* no timeout on the call

Always(response) == [f \in Faults |-> {response}]
Told == Always("problem")                   \* except Exception around it all

(* A body without the keys the tool looks for is one without entries, by   *)
(* .get(key, default).                                                     *)
Defaulted(on) == [on EXCEPT !["garbled"] = @ \cup {"report"}]
Shrugged(on) == [on EXCEPT !["garbled"] = @ \cup {"ignored"}]   \* and it goes on
-----------------------------------------------------------------------------
(* Jenkins.  requests' JSON error is a ValueError too, and is reported as a*)
(* configuration error; any other RequestException falls through to None.  *)
JenkinsErrors == [Always("blank") EXCEPT !["garbled"] = {"problem", "raised"}]
Text(on) == [on EXCEPT !["garbled"] = {}]   \* the body is not parsed

JenkinsAuth(steps) == Tool({"problem"}, steps)
JenkinsGet == JenkinsAuth(<<Ask(Defaulted(JenkinsErrors))>>)
JenkinsPost ==
  <<Ask([f \in Faults |-> IF f \in {"refused", "lost"} THEN {"handled"}
                          ELSE {"handled", "raised"}]),
    Do("build", Text(JenkinsErrors))>>

list_jenkins_jobs == JenkinsGet
get_jenkins_build_status == JenkinsGet
get_jenkins_build_log == JenkinsAuth(<<Ask(Text(JenkinsErrors))>>)
trigger_jenkins_build == Tool({"problem", "raised"}, JenkinsPost)
get_jenkins_pipeline_stages == JenkinsGet

jenkins_tools ==
  [list_jenkins_jobs |-> list_jenkins_jobs,
   get_jenkins_build_status |-> get_jenkins_build_status,
   get_jenkins_build_log |-> get_jenkins_build_log,
   trigger_jenkins_build |-> trigger_jenkins_build,
   get_jenkins_pipeline_stages |-> get_jenkins_pipeline_stages]

(* Only RequestException is caught, and it is dropped.                     *)
RequestErrors == [Always("blank") EXCEPT !["garbled"] = {"blank", "raised"}]

(* The other Jenkins module, whose tools no registry lists: a missing      *)
(* secret raises, and so does a list of failed builds that is not served.  *)
jenkins_client(on) == Tool({"raised"}, <<on>>)
jenkins_list_jobs == jenkins_client(Ask(Defaulted(RequestErrors)))
jenkins_get_build_status == jenkins_client(Ask(Defaulted(RequestErrors)))
jenkins_trigger_build == jenkins_client(Do("build", Text(RequestErrors)))
jenkins_get_console_output == jenkins_client(Ask(Text(RequestErrors)))
jenkins_list_failed_builds == jenkins_client(Ask(Defaulted(Always("raised"))))

JENKINS_TOOLS ==
  [jenkins_list_jobs |-> jenkins_list_jobs,
   jenkins_get_build_status |-> jenkins_get_build_status,
   jenkins_trigger_build |-> jenkins_trigger_build,
   jenkins_get_console_output |-> jenkins_get_console_output,
   jenkins_list_failed_builds |-> jenkins_list_failed_builds]
-----------------------------------------------------------------------------
(* Artifactory: URL and credentials are checked, every exception is told.  *)
ArtifactorySession(steps) == Tool({"problem"}, steps)
ArtifactoryGet == ArtifactorySession(<<Ask(Defaulted(Told))>>)

search_artifact == ArtifactoryGet
get_artifact_info == ArtifactoryGet
list_repositories == ArtifactoryGet
get_latest_artifact_version == ArtifactoryGet
get_build_info ==
  ArtifactorySession(
    <<Maybe(Then(Ask(Defaulted(Told)), "any")), Ask(Defaulted(Told))>>)

artifactory_tools ==
  [search_artifact |-> search_artifact,
   get_artifact_info |-> get_artifact_info,
   list_repositories |-> list_repositories,
   get_latest_artifact_version |-> get_latest_artifact_version,
   get_build_info |-> get_build_info]

(* Elasticsearch and Kibana: a missing URL and every exception are told,   *)
(* a body without hits is one.                                             *)
ElasticsearchSearch == Tool({"problem"}, <<Ask(Told)>>)
KibanaGet == Tool({"problem"}, <<Ask(Defaulted(Told))>>)

search_error_logs == ElasticsearchSearch
search_logs_by_query == ElasticsearchSearch
get_kibana_dashboards == KibanaGet
get_log_count_by_level == ElasticsearchSearch

kibana_tools ==
  [search_error_logs |-> search_error_logs,
   search_logs_by_query |-> search_logs_by_query,
   get_kibana_dashboards |-> get_kibana_dashboards,
   get_log_count_by_level |-> get_log_count_by_level]

(* Nginx: a log that cannot be read is an empty one.  Of the four only the *)
(* error log's tool says that there may be no log at all.                  *)
ReadLastLines(response) ==
  Ask([f \in Faults |-> IF f = "refused" THEN {response} ELSE {}])

get_nginx_5xx_errors == Tool({}, <<ReadLastLines("ignored")>>)
get_nginx_top_endpoints == Tool({}, <<ReadLastLines("ignored")>>)
get_nginx_status_summary == Tool({}, <<ReadLastLines("ignored")>>)
get_nginx_error_log == Tool({}, <<ReadLastLines("handled")>>)

get_nginx_tools ==
  [get_nginx_5xx_errors |-> get_nginx_5xx_errors,
   get_nginx_top_endpoints |-> get_nginx_top_endpoints,
   get_nginx_status_summary |-> get_nginx_status_summary,
   get_nginx_error_log |-> get_nginx_error_log]
-----------------------------------------------------------------------------
(* Prometheus and Grafana: RequestException is dropped; Grafana checks no  *)
(* setting, and only its list of dashboards must be a list.  A panel's     *)
(* query answers a 400 with the panel's configuration.                     *)
_get_prometheus_url(on) == Tool({"raised"}, <<Ask(on)>>)
PrometheusErrors ==
  [RequestErrors EXCEPT !["garbled"] = {"problem", "blank", "raised"}]

prometheus_query_range == _get_prometheus_url(PrometheusErrors)
prometheus_query_instant == _get_prometheus_url(PrometheusErrors)
prometheus_get_series == _get_prometheus_url(PrometheusErrors)
prometheus_get_label_values == _get_prometheus_url(PrometheusErrors)
prometheus_alerts == _get_prometheus_url(PrometheusErrors)

PROMETHEUS_TOOLS ==
  [prometheus_query_range |-> prometheus_query_range,
   prometheus_query_instant |-> prometheus_query_instant,
   prometheus_get_series |-> prometheus_get_series,
   prometheus_get_label_values |-> prometheus_get_label_values,
   prometheus_alerts |-> prometheus_alerts]

GrafanaGet == Tool({}, <<Ask(Defaulted(RequestErrors))>>)

grafana_list_dashboards == Tool({}, <<Ask(RequestErrors)>>)
grafana_get_dashboard == GrafanaGet
grafana_query_panel ==
  Tool({}, <<Then(Ask(Defaulted(RequestErrors)), "any"),
             Ask([Defaulted(RequestErrors) EXCEPT !["status"] = {"blank", "problem"}])>>)
grafana_list_alerts == GrafanaGet
grafana_alert_groups == GrafanaGet
grafana_get_annotation == GrafanaGet

GRAFANA_TOOLS ==
  [grafana_list_dashboards |-> grafana_list_dashboards,
   grafana_get_dashboard |-> grafana_get_dashboard,
   grafana_query_panel |-> grafana_query_panel,
   grafana_list_alerts |-> grafana_list_alerts,
   grafana_alert_groups |-> grafana_alert_groups,
   grafana_get_annotation |-> grafana_get_annotation]
-----------------------------------------------------------------------------
(* The large language model's tools hide every exception in an empty text. *)
LLMChat == Tool({}, <<Ask(Always("blank"))>>)

llm_summarise == LLMChat
llm_root_cause_analysis == LLMChat
llm_generate_runbook == LLMChat
llm_explain_k8s_error == LLMChat
llm_compare_configs == LLMChat

LLM_TOOLS ==
  [llm_summarise |-> llm_summarise,
   llm_root_cause_analysis |-> llm_root_cause_analysis,
   llm_generate_runbook |-> llm_generate_runbook,
   llm_explain_k8s_error |-> llm_explain_k8s_error,
   llm_compare_configs |-> llm_compare_configs]

(* AWS: boto3 has timeouts of its own, every exception is told.  The       *)
(* balancers' tags are read one balancer at a time; a target group's name  *)
(* is looked up first, and one that is not found is used as it is.         *)
AwsCall == Tool({}, <<Ask(Defaulted(Told))>>)

ec2_list_instances == AwsCall
ec2_get_instance_status == AwsCall
ec2_get_asg_status == AwsCall
elb_list_load_balancers ==
  Tool({}, <<Then(Ask(Defaulted(Told)), "any"), Each(Ask(Told))>>)
elb_get_target_health ==
  Tool({"problem"}, <<Maybe(Ask(Shrugged(Told))), Ask(Defaulted(Told))>>)

AWS_TOOLS ==
  [ec2_list_instances |-> ec2_list_instances,
   ec2_get_instance_status |-> ec2_get_instance_status,
   ec2_get_asg_status |-> ec2_get_asg_status,
   elb_list_load_balancers |-> elb_list_load_balancers,
   elb_get_target_health |-> elb_get_target_health]

cloudwatch_logs == AwsCall
cloudwatch_metrics == AwsCall
cloudwatch_dashboards == AwsCall
cloudtrail_events == AwsCall
cloudwatch_alarms == AwsCall

CLOUDWATCH_TOOLS ==
  [cloudwatch_logs |-> cloudwatch_logs,
   cloudwatch_metrics |-> cloudwatch_metrics,
   cloudwatch_dashboards |-> cloudwatch_dashboards,
   cloudtrail_events |-> cloudtrail_events,
   cloudwatch_alarms |-> cloudwatch_alarms]
-----------------------------------------------------------------------------
(* Databases: every exception is told, but neither libpq nor redis-py has a*)
(* timeout unless it is asked for one, and PyMySQL has one to connect only.*)
Query == Untimed(Ask(Told))
_get_postgres_conn == Untimed(Ask(Told))
_get_mysql_conn == Ask(Told)
Queries(connection, n) == Tool({}, <<connection>> \o [i \in 1..n |-> Query])

postgres_list_databases == Queries(_get_postgres_conn, 1)
postgres_get_activity == Queries(_get_postgres_conn, 1)
postgres_table_sizes == Queries(_get_postgres_conn, 1)
postgres_replication_status == Queries(_get_postgres_conn, 1)
mysql_status == Queries(_get_mysql_conn, 4)
mysql_processlist == Queries(_get_mysql_conn, 1)
redis_info == Tool({}, <<Query>>)
redis_get_keys == Tool({}, <<Then(Query, "any"), Query, Each(Query)>>)
redis_slowlog == Tool({}, <<Query>>)

DATABASE_TOOLS ==
  [postgres_list_databases |-> postgres_list_databases,
   postgres_get_activity |-> postgres_get_activity,
   postgres_table_sizes |-> postgres_table_sizes,
   postgres_replication_status |-> postgres_replication_status,
   mysql_status |-> mysql_status,
   mysql_processlist |-> mysql_processlist,
   redis_info |-> redis_info,
   redis_get_keys |-> redis_get_keys,
   redis_slowlog |-> redis_slowlog]

(* Docker: a command that fails has an exit code, which all of them read   *)
(* but the one that asks for the server's version at the end.              *)
_run_docker_command(response) == Ask(Text(Always(response)))
DockerCommand == Tool({}, <<_run_docker_command("problem")>>)

docker_list_containers == DockerCommand
docker_container_logs == DockerCommand
docker_container_stats == DockerCommand
docker_image_list == DockerCommand
docker_swarm_services == DockerCommand
docker_swarm_nodes == DockerCommand
docker_system_info ==
  Tool({}, <<_run_docker_command("problem"), _run_docker_command("ignored")>>)

DOCKER_TOOLS ==
  [docker_list_containers |-> docker_list_containers,
   docker_container_logs |-> docker_container_logs,
   docker_container_stats |-> docker_container_stats,
   docker_image_list |-> docker_image_list,
   docker_swarm_services |-> docker_swarm_services,
   docker_swarm_nodes |-> docker_swarm_nodes,
   docker_system_info |-> docker_system_info]
-----------------------------------------------------------------------------
(* GitHub and GitLab: a missing repository and every exception are told.   *)
(* The status of the requests that follow a first one is not looked at, but*)
(* for a workflow's runs: an error's body is read as a list without entries*)
(* or cannot be read.                                                      *)
Repository(steps) == Tool({"problem"}, steps)
Unchecked == Shrugged([Told EXCEPT !["status"] = {"ignored", "problem"}])

github_list_workflow_runs ==
  Repository(
    <<Maybe(Then(
        Ask([Defaulted(Told) EXCEPT !["status"] = {"report", "problem"}]), "any")),
      Ask(Defaulted(Told))>>)
github_get_workflow_run_status == Repository(<<Ask(Told), Ask(Unchecked)>>)
github_list_pr_checks == Repository(<<Ask(Told), Ask(Unchecked), Ask(Unchecked)>>)
github_get_repo_info == Repository(<<Ask(Told)>>)
gitlab_list_pipelines == Repository(<<Ask(Defaulted(Told))>>)
gitlab_get_pipeline_status == Repository(<<Ask(Told), Ask(Unchecked)>>)

GITHUB_TOOLS ==
  [github_list_workflow_runs |-> github_list_workflow_runs,
   github_get_workflow_run_status |-> github_get_workflow_run_status,
   github_list_pr_checks |-> github_list_pr_checks,
   github_get_repo_info |-> github_get_repo_info,
   gitlab_list_pipelines |-> gitlab_list_pipelines,
   gitlab_get_pipeline_status |-> gitlab_get_pipeline_status]
-----------------------------------------------------------------------------
(* PagerDuty: a missing token, an unknown action and every exception are   *)
(* told.  A list that is refused is asked for in another format, an        *)
(* incident without its timeline is reported as it is, and a note that is  *)
(* not accepted is left out of the message that the incident has changed.  *)
PagerDuty(steps) == Tool({"problem"}, steps)

pd_list_incidents ==
  PagerDuty(
    <<Then(Ask([Defaulted(Told) EXCEPT !["status"] = {"handled", "problem"}]), "done"),
      Ask(Defaulted(Told))>>)
pd_get_incident_details ==
  PagerDuty(
    <<Ask(Told), Ask(Shrugged([Told EXCEPT !["status"] = {"ignored"}]))>>)
pd_manage_incident ==
  PagerDuty(
    <<Do("incident", Text(Told)),
      Maybe(Do("note", Text([Told EXCEPT !["status"] = {"handled"}])))>>)
pd_list_alert_groups == PagerDuty(<<Ask(Defaulted(Told))>>)
pd_get_oncall == PagerDuty(<<Ask(Defaulted(Told))>>)

PAGERDUTY_TOOLS ==
  [pd_list_incidents |-> pd_list_incidents,
   pd_get_incident_details |-> pd_get_incident_details,
   pd_manage_incident |-> pd_manage_incident,
   pd_list_alert_groups |-> pd_list_alert_groups,
   pd_get_oncall |-> pd_get_oncall]
-----------------------------------------------------------------------------
(* Certificates: the dates of a certificate end in Z, which the format that*)
(* parses them does not allow, and nothing catches the ValueError.  The    *)
(* chain is read over a second connection, which has no timeout.           *)
_fetch_cert(response) ==
  Then(Ask([Always(response) EXCEPT !["garbled"] = {"raised"}]), "raised")

ssl_check_host == Tool({}, <<_fetch_cert("problem")>>)
ssl_batch_check == Tool({}, <<_fetch_cert("handled"), Each(_fetch_cert("handled"))>>)
ssl_get_cert_chain ==
  Tool({}, <<Ask(Text(Told)), Untimed(_fetch_cert("problem"))>>)
dns_lookup == Tool({}, <<Ask(Told)>>)
http_headers_check == Tool({}, <<Ask(Text(Told))>>)

SSL_TOOLS ==
  [ssl_check_host |-> ssl_check_host,
   ssl_batch_check |-> ssl_batch_check,
   ssl_get_cert_chain |-> ssl_get_cert_chain,
   dns_lookup |-> dns_lookup,
   http_headers_check |-> http_headers_check]
-----------------------------------------------------------------------------
(* Terraform: a command that fails or takes two minutes is told; it may    *)
(* have made its changes, or a part of them, before that.                  *)
_run_terraform(change) == [Do(change, Text(Told)) EXCEPT !.partial = TRUE]
Terraform(change) == Tool({}, <<_run_terraform(change)>>)

terraform_validate == Terraform("none")
terraform_plan == Terraform("plan")
terraform_apply == Terraform("apply")
terraform_destroy == Terraform("destroy")
terraform_state_list == Terraform("none")
terraform_output == Terraform("none")
terraform_show == Terraform("none")

TERRAFORM_TOOLS ==
  [terraform_validate |-> terraform_validate,
   terraform_plan |-> terraform_plan,
   terraform_apply |-> terraform_apply,
   terraform_destroy |-> terraform_destroy,
   terraform_state_list |-> terraform_state_list,
   terraform_output |-> terraform_output,
   terraform_show |-> terraform_show]
-----------------------------------------------------------------------------
(* Kubernetes: outside a cluster the kubeconfig is never tried, as the     *)
(* exception of the first attempt is no OSError; the API client is given no*)
(* timeout; three of the five tools tell an API error.                     *)
_get_k8s_client(steps) == Tool({"blank"}, steps)
ApiException == [Always("blank") EXCEPT !["status"] = {"problem"}]
K8sRead(on) == Untimed(Ask(on))

list_pods == _get_k8s_client(<<K8sRead(ApiException)>>)
get_pod_logs == _get_k8s_client(<<K8sRead(Text(ApiException))>>)
describe_pod == _get_k8s_client(<<K8sRead(ApiException), K8sRead(ApiException)>>)
get_deployments == _get_k8s_client(<<K8sRead(Always("blank"))>>)
get_high_restart_pods == _get_k8s_client(<<K8sRead(Always("blank"))>>)

get_kubernetes_tools ==
  [list_pods |-> list_pods, get_pod_logs |-> get_pod_logs,
   describe_pod |-> describe_pod, get_deployments |-> get_deployments,
   get_high_restart_pods |-> get_high_restart_pods]
-----------------------------------------------------------------------------
ALL_TOOLS ==
  get_kubernetes_tools @@ jenkins_tools @@ kibana_tools @@ artifactory_tools
    @@ get_nginx_tools @@ PROMETHEUS_TOOLS @@ GRAFANA_TOOLS @@ AWS_TOOLS
    @@ CLOUDWATCH_TOOLS @@ DATABASE_TOOLS @@ DOCKER_TOOLS @@ GITHUB_TOOLS
    @@ PAGERDUTY_TOOLS @@ SSL_TOOLS @@ TERRAFORM_TOOLS @@ LLM_TOOLS
    @@ JENKINS_TOOLS

(* The names of TOOL_CLASSIFICATIONS that some tool bears.  Its others, and*)
(* trigger_jenkins_build and pd_manage_incident, do not meet.              *)
TOOL_CLASSIFICATIONS ==
  [t \in {"list_pods", "get_pod_logs", "describe_pod", "jenkins_list_jobs",
          "jenkins_get_build_status", "jenkins_get_console_output",
          "postgres_list_databases", "postgres_get_activity",
          "prometheus_query_range", "grafana_get_dashboard",
          "github_list_workflow_runs", "gitlab_list_pipelines",
          "terraform_show", "llm_compare_configs", "llm_generate_runbook"}
      |-> "READ"]
    @@ [t \in {"terraform_apply", "jenkins_trigger_build"} |-> "WRITE"]
    @@ [terraform_destroy |-> "DELETE"]
    @@ [t \in {"terraform_plan", "terraform_validate"} |-> "EXECUTE"]
=============================================================================
