----------------------------- MODULE AwsFailure -----------------------------
(***************************************************************************)
(* aws_error.rs: the class of failure that an operator is told of, found   *)
(* by a walk down the chain of causes of an error.  A cause is what the    *)
(* walk tells apart: the type it downcasts to, which one of it (variant or *)
(* operation), and the code the SDK reads from it.                         *)
(***************************************************************************)
EXTENDS FiniteSetsExt, Integers, Sequences

CONSTANT AWS_PROFILE   \* the environment variable, or "default" without one

None == "none"

Cause(type, of, code) == [type |-> type, of |-> of, code |-> code]
Class(name, detail) == [class |-> name, detail |-> detail]
Other == Class("Other", None)

DescribeOperations ==
  {"DescribeSecurityGroups", "DescribeNetworkAcls", "DescribeRouteTables",
   "DescribeNetworkInterfaces", "DescribeVpcPeeringConnections"}

iam_action_for(operation) ==
  CASE operation \in DescribeOperations -> <<"ec2", operation>>
    [] operation = "GetCallerIdentity" -> <<"sts", operation>>
    [] OTHER -> <<"ec2", "the required read permission">>

\* None where the code is not one that is told apart.
classify_code(operation, code) ==
  CASE code \in {"ExpiredToken", "RequestExpired", "ExpiredTokenException"} ->
         Class("ExpiredCredentials", None)
    [] code \in {"UnauthorizedOperation", "AccessDenied", "AccessDeniedException", "AuthFailure"} ->
         Class("AccessDenied", iam_action_for(operation))
    [] code \in {"RequestLimitExceeded", "Throttling", "ThrottlingException"} ->
         Class("Throttled", None)
    [] OTHER -> Other

classify_credentials_error(variant) ==
  CASE variant = "CredentialsNotLoaded" -> Class("CredentialsNotConfigured", None)
    [] variant = "InvalidConfiguration" -> Class("ProfileNotFound", AWS_PROFILE)
    [] OTHER -> Other

\* Mutant: the collector of network interfaces came later, and has no arm.
classify_describe_error_Stale(operation, cause) ==
  IF /\ operation \in DescribeOperations \ {"DescribeNetworkInterfaces"}
     /\ cause.type = "SdkError" /\ cause.of = operation
  THEN classify_code(operation, cause.code) ELSE Other

\* Only the error type of the operation that failed is tried.
classify_describe_error(operation, cause) ==
  IF operation \in DescribeOperations /\ cause.type = "SdkError" /\ cause.of = operation
  THEN classify_code(operation, cause.code) ELSE Other

Recognised(operation, cause) ==
  IF cause.type = "CredentialsError" THEN classify_credentials_error(cause.of)
  ELSE IF cause.type = "SdkError" /\ cause.of = "GetCallerIdentity"
  THEN classify_code(operation, cause.code)
  ELSE classify_describe_error(operation, cause)

\* The first cause, from the outside in, that has a class.
classify(operation, chain) ==
  LET found == {i \in DOMAIN chain : Recognised(operation, chain[i]) # Other} IN
  IF found = {} THEN Other ELSE Recognised(operation, chain[Min(found)])
=============================================================================
