---------------------------- MODULE MCCandidates ----------------------------
(***************************************************************************)
(* eni-1 in vpc-1 outside the boundary, eni-2 in vpc-2 inside it, eni-3    *)
(* outside, in a subnet without a table or an ACL and without a group.     *)
(* "peered" connects the two VPCs; in "moved", the same account later, the *)
(* subnet of eni-1 has another table and another ACL, one rule is gone and *)
(* another has come; "oneway" lacks the route back; "hub" has each VPC     *)
(* peered with a third and not with the other, and in "apart" that third   *)
(* one is not of this account.                                             *)
(***************************************************************************)
EXTENDS Candidates

MCKeyOrder ==
  <<"acl-1", "acl-2", "acl-3", "rtb-1", "rtb-2", "rtb-3", "sg-1", "sg-2", "subnet-1", "subnet-2", "subnet-3",
    "vpc-1", "vpc-2", "vpc-3">>

Permission(port, ranges, groups) ==
  [protocol |-> "tcp", from_port |-> port, to_port |-> port, ranges |-> ranges,
   pairs |-> [i \in DOMAIN groups |-> [group |-> groups[i], owner |-> None]]]
Sg(id, vpc, ingress, egress) == [id |-> id, vpc |-> vpc, name |-> id, ingress |-> ingress, egress |-> egress]
Eni(id, vpc, subnet, groups) ==
  [id |-> id, vpc |-> vpc, subnet |-> subnet, private_ip |-> "10.0.0.1", groups |-> groups]
Acl(id, vpc, subnets, action) ==
  [id |-> id, vpc |-> vpc, is_default |-> FALSE, associations |-> subnets,
   entries |-> <<[rule_number |-> 100, egress |-> TRUE, action |-> action, protocol |-> "-1",
                  from_port |-> None, to_port |-> None, cidr |-> "0/0"],
                 [rule_number |-> 110, egress |-> FALSE, action |-> "allow", protocol |-> "-1",
                  from_port |-> None, to_port |-> None, cidr |-> "0/0"]>>]
Local == [cidr |-> "local", gateway |-> "local", pcx |-> None]
Via(pcx) == [cidr |-> "far", gateway |-> None, pcx |-> pcx]
Table(id, vpc, subnets, routes) ==
  [id |-> id, vpc |-> vpc, routes |-> routes,
   associations |-> [i \in DOMAIN subnets |-> [subnet |-> subnets[i], main |-> FALSE]]]
Peering(id, v, w) ==
  [id |-> id, requester |-> [vpc |-> v, owner |-> AccountId], accepter |-> [vpc |-> w, owner |-> AccountId]]

Interfaces ==
  <<Eni("eni-1", "vpc-1", "subnet-1", <<"sg-1">>), Eni("eni-2", "vpc-2", "subnet-2", <<"sg-2">>),
    Eni("eni-3", "vpc-1", "subnet-3", <<>>)>>
Inside == Sg("sg-2", "vpc-2", <<Permission(443, <<>>, <<"sg-1">>)>>, <<Permission(53, <<"10/8">>, <<>>)>>)

Peered1 ==
  [NetworkInterface |-> Interfaces,
   SecurityGroup |-> <<Sg("sg-1", "vpc-1", <<Permission(22, <<"10/8">>, <<>>)>>, <<Permission(443, <<"0/0">>, <<>>)>>), Inside>>,
   NetworkAcl |-> <<Acl("acl-1", "vpc-1", <<"subnet-1">>, "allow"), Acl("acl-2", "vpc-2", <<"subnet-2">>, "allow")>>,
   RouteTable |-> <<Table("rtb-1", "vpc-1", <<"subnet-1">>, <<Local, Via("pcx-1")>>),
                    Table("rtb-2", "vpc-2", <<"subnet-2">>, <<Local, Via("pcx-1")>>)>>,
   VpcPeeringConnection |-> <<Peering("pcx-1", "vpc-1", "vpc-2")>>]
Moved ==
  [Peered1 EXCEPT
     !["SecurityGroup"] = <<Sg("sg-1", "vpc-1", <<>>, <<Permission(80, <<>>, <<"sg-2">>)>>), Inside>>,
     !["NetworkAcl"] = <<Acl("acl-1", "vpc-1", <<>>, "allow"), Acl("acl-2", "vpc-2", <<"subnet-2">>, "allow"),
                         Acl("acl-3", "vpc-1", <<"subnet-1">>, "deny")>>,
     !["RouteTable"] = <<Table("rtb-1", "vpc-1", <<>>, <<Local>>),
                         Table("rtb-2", "vpc-2", <<"subnet-2">>, <<Local, Via("pcx-1")>>),
                         Table("rtb-3", "vpc-1", <<"subnet-1">>, <<Local, Via("pcx-1")>>)>>]
Hub ==
  [Peered1 EXCEPT
     !["RouteTable"] = <<Table("rtb-1", "vpc-1", <<"subnet-1">>, <<Local, Via("pcx-2")>>),
                         Table("rtb-2", "vpc-2", <<"subnet-2">>, <<Local, Via("pcx-3")>>)>>,
     !["VpcPeeringConnection"] = <<Peering("pcx-2", "vpc-1", "vpc-3"), Peering("pcx-3", "vpc-2", "vpc-3")>>]

Theirs(id, v) ==
  [id |-> id, requester |-> [vpc |-> v, owner |-> AccountId], accepter |-> [vpc |-> "vpc-3", owner |-> "other"]]
Apart == [Hub EXCEPT !["VpcPeeringConnection"] = <<Theirs("pcx-2", "vpc-1"), Theirs("pcx-3", "vpc-2")>>]

OneWay ==
  [Peered1 EXCEPT
     !["RouteTable"] = <<Table("rtb-1", "vpc-1", <<"subnet-1">>, <<Local, Via("pcx-1")>>),
                         Table("rtb-2", "vpc-2", <<"subnet-2">>, <<Local>>)>>]

MCAccount == {"peered", "moved", "oneway", "hub", "apart"}
MCListed == [peered |-> Peered1, moved |-> Moved, oneway |-> OneWay, hub |-> Hub, apart |-> Apart]
MCVpcIds == {"vpc-2"}
MCAddress == {"10.0.0.1"}
=============================================================================
