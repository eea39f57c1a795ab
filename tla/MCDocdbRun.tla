----------------------------- MODULE MCDocdbRun ------------------------------
(***************************************************************************)
(* One deployment and one client, whose driver sends no name; instances    *)
(* and users are interchangeable in the safety run.                        *)
(***************************************************************************)
EXTENDS DocdbRun, TLC

OneClient == {[host |-> "10.0.0.1", port |-> 50000, app |-> None]}

\* The endpoint is the metrics URL itself, and addresses are shown.
MetricsEndpoint ==
  [cluster |-> {"c"}, secret |-> {"arn"}, table |-> {"t"}, grafana |-> {"arn"},
   endpoint |-> {[scheme |-> "https", host |-> "otlp", path |-> <<"otlp", "v1", "metrics">>]},
   tenant |-> {}, backfill |-> {}, ttl |-> {"2"}, address |-> {"true"}, group |-> {""}]

OwnUser == [form |-> "object", username |-> "attributor", password |-> "p"]
FirstStart == [present |-> FALSE, scheme |-> "https", body |-> "certificates"]

\* Every user has two roles, one of them in no database.
AllUsers ==
  {[user |-> u, roles |-> {[role |-> "read", db |-> "app"], [role |-> "root", db |-> None]}] :
   u \in Users}

Symm == Permutations(Instances) \cup Permutations(Users)
=============================================================================
