----------------------------- MODULE MCAuditRun -----------------------------
(***************************************************************************)
(* Two processes and two runs in all, one after the other or side by side; *)
(* configs that are good, empty, malformed, or name their boundary in a    *)
(* way that selects nothing; an environment that disagrees with them all.  *)
(***************************************************************************)
EXTENDS AuditRun

MCConfigs ==
  {[readable |-> TRUE, selectors |-> {"vpc_ids", "cidrs"}, region |-> "us-east-1", profile |-> "audit"],
   [readable |-> TRUE, selectors |-> {"cidrs"}, region |-> "us-east-1", profile |-> "default"],
   [readable |-> TRUE, selectors |-> {}, region |-> "us-east-1", profile |-> "default"],
   [readable |-> TRUE, selectors |-> {"vpc_ids"}, region |-> "", profile |-> "default"],
   [readable |-> FALSE, selectors |-> {}, region |-> "", profile |-> "default"]}
MCRegions == {"us-east-1", "eu-west-1"}
MCEnv == [AWS_REGION |-> "eu-west-1", AWS_DEFAULT_REGION |-> "", profile_region |-> "eu-west-1"]
MCAccountOf == [default |-> "a1", audit |-> "a2"]

\* One code of each kind that STS sends, and one that EC2 does.
MCCodes ==
  [expired |-> {"ExpiredToken", "RequestExpired"}, denied |-> {"AccessDenied", "UnauthorizedOperation"},
   throttled |-> {"Throttling", "RequestLimitExceeded"}]
=============================================================================
