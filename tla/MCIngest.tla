------------------------------ MODULE MCIngest ------------------------------
(***************************************************************************)
(* A small account with its security groups on two pages, in the states it *)
(* may be found in: "grown" has one more group with a member and a rule,   *)
(* and a peering that resolves a route; "base" may become "grown", at any  *)
(* moment.  "unnamed" has a group without a name and without members,      *)
(* "manned" gives it a member, and "broken" has a rule with an inverted    *)
(* port range.  Statements take every row there is.                        *)
(***************************************************************************)
EXTENDS Ingest

MCKeyOrder == <<"acl-1", "rtb-1", "sg-1", "sg-2", "subnet-1", "vpc-1", "vpc-2">>

Permission(from, to, ranges, pairs) ==
  [protocol |-> "tcp", from_port |-> from, to_port |-> to, ranges |-> ranges, pairs |-> pairs]
Refer(group, owner) == <<[group |-> group, owner |-> owner]>>
Sg(id, name, ingress) == [id |-> id, vpc |-> "vpc-1", name |-> name, ingress |-> ingress, egress |-> <<>>]
Eni(groups) ==
  [id |-> "eni-1", vpc |-> "vpc-1", subnet |-> "subnet-1", private_ip |-> "10.0.0.1", groups |-> groups]
Acl ==
  [id |-> "acl-1", vpc |-> "vpc-1", is_default |-> TRUE, associations |-> <<"subnet-1">>,
   entries |-> <<[rule_number |-> 100, egress |-> FALSE, action |-> "allow", protocol |-> "-1",
                  from_port |-> None, to_port |-> None, cidr |-> "0/0"]>>]
Table ==
  [id |-> "rtb-1", vpc |-> "vpc-1", associations |-> <<[subnet |-> "subnet-1", main |-> FALSE]>>,
   routes |-> <<[cidr |-> "10.2/16", gateway |-> None, pcx |-> "pcx-1"]>>]
Peering ==
  [id |-> "pcx-1", requester |-> [vpc |-> "vpc-1", owner |-> AccountId],
   accepter |-> [vpc |-> "vpc-2", owner |-> AccountId]]

State(first, second, groups, peerings) ==
  [SecurityGroup |-> <<first, second>>, NetworkAcl |-> <<<<Acl>>>>, RouteTable |-> <<<<Table>>>>,
   NetworkInterface |-> <<<<Eni(groups)>>>>, VpcPeeringConnection |-> <<peerings>>]

Web == Sg("sg-1", "web", <<Permission(443, 443, <<"10/8">>, Refer("sg-9", "other"))>>)
MCListing ==
  [base    |-> State(<<Web>>, <<>>, <<"sg-1">>, <<>>),
   grown   |-> State(<<Sg("sg-1", "web", <<Permission(443, 443, <<>>, Refer("sg-2", None))>>)>>,
                     <<Sg("sg-2", "db", <<>>)>>, <<"sg-1", "sg-2">>, <<Peering>>),
   unnamed |-> State(<<Web>>, <<Sg("sg-2", None, <<>>)>>, <<"sg-1">>, <<>>),
   manned  |-> State(<<Web>>, <<Sg("sg-2", None, <<>>)>>, <<"sg-1", "sg-2">>, <<>>),
   broken  |-> State(<<Web>>, <<Sg("sg-2", "db", <<Permission(443, 80, <<"10/8">>, <<>>)>>)>>, <<"sg-1">>, <<>>)]

MCAccount == {"base", "grown", "unnamed", "manned", "broken"}
MCSucc == [base |-> {"grown"}, grown |-> {}, unnamed |-> {}, manned |-> {}, broken |-> {}]

MCBatch ==
  {raw \in {Collected(read) : read \in UNION {Reads(Later[state]) : state \in Account}} : BatchMaps(raw)}
MCContent == << >> @@ [raw \in MCBatch |-> build_graph_batch(raw)]
=============================================================================
