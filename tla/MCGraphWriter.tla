--------------------------- MODULE MCGraphWriter ---------------------------
(***************************************************************************)
(* Four batches of one small account.  Statements take two rows, so that   *)
(* three memberships and three network ACL rules need a second, shorter    *)
(* chunk.  "first" has every kind of edge and, as every ACL that AWS       *)
(* creates does, an ingress and an egress rule with one number; "second"   *)
(* is the account later, a rule and a route changed; "dangling" has a      *)
(* membership in a group that was not mapped; "torn" a route whose flag    *)
(* disagrees with its target.                                              *)
(***************************************************************************)
EXTENDS GraphWriter

MCKeyOrder == <<"acl-1", "rtb-1", "sg-1", "sg-2">>

Node(id, props) == [id |-> id, props |-> props]
MCNodes(name) ==
  [ENI |-> <<Node("eni-1", "v1")>>,
   SecurityGroup |-> <<Node("sg-1", name), Node("sg-2", "v1")>>,
   NetworkACL |-> <<Node("acl-1", "v1")>>,
   Subnet |-> <<Node("subnet-1", "v1")>>,
   VPC |-> <<Node("vpc-1", "v1")>>,
   RouteTable |-> <<Node("rtb-1", "v1")>>]

Topology(type, from, to) == [type |-> type, from |-> from, to |-> to]
Route(cidr, to, resolved) ==
  [type |-> "ROUTES_TO", from |-> "rtb-1", cidr |-> cidr, to |-> to, resolved |-> resolved]
Rule(type, from, kind, to, resolved) ==
  [type |-> type, from |-> from, match |-> "tcp 443", kind |-> kind, to |-> to,
   resolved |-> resolved]
AclRule(number, direction, rule) ==
  [type |-> "HAS_RULE", from |-> "acl-1", rule_number |-> number,
   direction |-> direction, rule |-> rule]

First ==
  [nodes |-> MCNodes("v1"),
   edges |-> << Topology("HAS_SG", "eni-1", "sg-1"), Topology("HAS_SG", "eni-1", "sg-2"),
                Topology("IN_SUBNET", "eni-1", "subnet-1"),
                Topology("PROTECTED_BY", "subnet-1", "acl-1"),
                Topology("USES_ROUTE_TABLE", "subnet-1", "rtb-1"),
                Route("10/8", "vpc-1", TRUE), Route("0/0", None, FALSE),
                Rule("ALLOWS_INGRESS", "sg-2", "security_group_ref", "sg-1", TRUE),
                Rule("ALLOWS_INGRESS", "sg-1", "security_group_ref", "sg-9", FALSE),
                Rule("ALLOWS_INGRESS", "sg-1", "cidr", "10/8", TRUE),
                Rule("ALLOWS_EGRESS", "sg-1", "cidr", "0/0", TRUE),
                AclRule(100, "ingress", "allow"), AclRule(100, "egress", "allow"),
                AclRule(32767, "ingress", "deny") >>]

Second ==
  [nodes |-> MCNodes("v2"),
   edges |-> << Topology("HAS_SG", "eni-1", "sg-1"), Topology("HAS_SG", "eni-1", "sg-2"),
                Topology("PROTECTED_BY", "subnet-1", "acl-1"),
                Route("10/8", None, FALSE),
                Rule("ALLOWS_EGRESS", "sg-1", "security_group_ref", "sg-2", TRUE),
                Rule("ALLOWS_EGRESS", "sg-2", "security_group_ref", "sg-8", FALSE),
                AclRule(100, "ingress", "deny") >>]

Dangling ==
  [nodes |-> MCNodes("v1"),
   edges |-> << Topology("HAS_SG", "eni-1", "sg-1"), Topology("HAS_SG", "eni-1", "sg-3"),
                Rule("ALLOWS_EGRESS", "sg-1", "cidr", "0/0", TRUE) >>]

Torn ==
  [nodes |-> MCNodes("v1"),
   edges |-> << Topology("HAS_SG", "eni-1", "sg-1"), Route("10/8", "vpc-1", FALSE) >>]

MCBatch == {"first", "second", "dangling", "torn"}
MCContent == [first |-> First, second |-> Second, dangling |-> Dangling, torn |-> Torn]
=============================================================================
