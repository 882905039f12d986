---------------------------- MODULE MappingProofs ----------------------------
(***************************************************************************)
(* From what EC2 lists to the rows that the writer sends, for any account: *)
(* the edges and nodes that every builder makes, the statements they       *)
(* become, and the theorems about them that the writer, the pipeline and   *)
(* the queries rest on.                                                    *)
(***************************************************************************)
EXTENDS Mapping, SequenceTheorems, WellFoundedInduction, TLAPS

\* A bounded set of positions that is not empty has a greatest member, and
\* Max is it.
LEMMA MaxIsGreatest ==
  ASSUME NEW n \in Nat, NEW S, S \subseteq 1..n, S # {}
  PROVE  Max(S) \in S /\ \A y \in S : Max(S) >= y
<1> DEFINE Above == {m \in Nat : \A x \in S : x <= m}
<1>1. n \in Above /\ Above \subseteq Nat
  OBVIOUS
<1>2. PICK m \in Above : \A k \in Above : ~ (<<k, m>> \in OpToRel(<, Nat))
  <2> HIDE DEF Above
  <2> QED BY <1>1, WFMin, NatLessThanWellFounded
<1>3. \A k \in Above : ~ (k < m)
  BY <1>2 DEF OpToRel
<1>4. m \in S
  <2>1. SUFFICES ASSUME m \notin S PROVE FALSE
    OBVIOUS
  <2>2. PICK y \in S : TRUE
    OBVIOUS
  <2>3. \A x \in S : x \in Nat /\ x <= m /\ x # m
    BY <2>1
  <2>4. m \in Nat /\ y \in 1..n /\ y <= m
    BY <2>2
  <2>5. m - 1 \in Nat /\ \A x \in S : x <= m - 1
    <3> HIDE DEF Above
    <3> QED BY <2>3, <2>4
  <2>6. m - 1 \in Above /\ m - 1 < m
    BY <2>4, <2>5
  <2> QED BY <1>3, <2>6
<1> QED BY <1>2, <1>4 DEF Max

\* Max of a set of positions is any member that none exceeds.
LEMMA MaxIs ==
  ASSUME NEW S, S \subseteq Nat, NEW i \in S, \A j \in S : j <= i
  PROVE  Max(S) = i
<1>1. \E x \in S : \A y \in S : x >= y
  OBVIOUS
<1>2. Max(S) \in S /\ \A y \in S : Max(S) >= y
  BY <1>1 DEF Max
<1>3. Max(S) >= i /\ Max(S) <= i /\ Max(S) \in Nat
  BY <1>2
<1> QED BY <1>3

-----------------------------------------------------------------------------
(* Lists *)

\* Induction over positions, for a set of those that are good.
LEMMA Positions ==
  ASSUME NEW n \in Nat, NEW Good, n > 0 => 1 \in Good,
         \A m \in 1..n : m < n /\ m \in Good => m + 1 \in Good
  PROVE  1..n \subseteq Good
<1> DEFINE Bad == {m \in Nat : m \in 1..n /\ m \notin Good}
<1>1. SUFFICES ASSUME Bad # {} PROVE FALSE
  OBVIOUS
<1>2. PICK m \in Bad : \A k \in Bad : ~ (<<k, m>> \in OpToRel(<, Nat))
  <2>1. Bad \subseteq Nat
    OBVIOUS
  <2> HIDE DEF Bad
  <2> QED BY <1>1, <2>1, WFMin, NatLessThanWellFounded
<1>3. \A k \in Bad : ~ (k < m)
  BY <1>2 DEF OpToRel
<1>4. m # 1
  OBVIOUS
<1>5. m - 1 \in 1..n /\ m - 1 < n /\ m - 1 < m /\ m - 1 \in Nat
  BY <1>4
<1>6. m - 1 \in Good
  BY <1>3, <1>5
<1>7. (m - 1) + 1 \in Good
  BY <1>5, <1>6
<1>8. (m - 1) + 1 = m
  OBVIOUS
<1> QED BY <1>7, <1>8

\* The function that FlattenSeq is defined by exists.
LEMMA FlattenExists ==
  ASSUME NEW seqs, Len(seqs) \in Nat, Len(seqs) # 0
  PROVE  \E f : /\ f = [i \in 1..Len(seqs) |-> IF i = 1 THEN seqs[i] ELSE f[i - 1] \o seqs[i]]
                /\ FlattenSeq(seqs) = f[Len(seqs)]
<1> DEFINE n == Len(seqs)
           Is(f, m) == f = [i \in 1..m |-> IF i = 1 THEN seqs[i] ELSE f[i - 1] \o seqs[i]]
           Good == {m \in 1..n : \E f : Is(f, m)}
<1>1. 1 \in Good
  <2> DEFINE f == [i \in 1..1 |-> seqs[1]]
  <2>1. Is(f, 1)
    OBVIOUS
  <2>2. 1 \in 1..n
    OBVIOUS
  <2> QED BY <2>1, <2>2
<1>2. ASSUME NEW m \in 1..n, m < n, m \in Good PROVE m + 1 \in Good
  <2>1. PICK f : Is(f, m)
    BY <1>2
  <2> DEFINE g == [i \in 1..(m + 1) |-> IF i <= m THEN f[i] ELSE f[m] \o seqs[m + 1]]
  <2>2. ASSUME NEW i \in 1..(m + 1)
        PROVE  g[i] = IF i = 1 THEN seqs[i] ELSE g[i - 1] \o seqs[i]
    <3>1. CASE i <= m
      <4>0. i \in 1..m
        BY <3>1
      <4>1. g[i] = f[i] /\ f[i] = IF i = 1 THEN seqs[i] ELSE f[i - 1] \o seqs[i]
        <5>1. g[i] = f[i]
          BY <4>0
        <5> HIDE DEF g
        <5>2. f[i] = IF i = 1 THEN seqs[i] ELSE f[i - 1] \o seqs[i]
          BY <2>1, <4>0
        <5> QED BY <5>1, <5>2
      <4>2. i # 1 => g[i - 1] = f[i - 1]
        BY <3>1
      <4> QED BY <4>1, <4>2
    <3>2. CASE i = m + 1
      <4>1. i # 1 /\ i - 1 = m /\ m \in 1..(m + 1) /\ ~ (i <= m)
        BY <3>2
      <4>2. g[i] = f[m] \o seqs[m + 1]
        BY <3>2, <4>1
      <4>3. g[m] = f[m]
        BY <4>1
      <4> HIDE DEF g
      <4> QED BY <3>2, <4>1, <4>2, <4>3
    <3> QED BY <3>1, <3>2
  <2>3. DOMAIN g = 1..(m + 1) /\ g = [i \in 1..(m + 1) |-> g[i]]
    OBVIOUS
  <2> HIDE DEF g
  <2>4. Is(g, m + 1)
    BY <2>2, <2>3
  <2>5. m + 1 \in 1..n
    BY <1>2
  <2> QED BY <2>4, <2>5
<1>3. n \in Nat /\ n > 0
  OBVIOUS
<1> HIDE DEF n, Good
<1>4. 1..n \subseteq Good
  BY <1>1, <1>2, <1>3, Positions
<1>5. n \in Good
  BY <1>3, <1>4
<1>6. PICK f : Is(f, n)
  BY <1>5 DEF Good
<1>7. FlattenSeq(seqs) = (CHOOSE g : Is(g, n))[n]
  BY DEF FlattenSeq, n
<1>8. Is(CHOOSE g : Is(g, n), n)
  BY <1>6
<1> QED BY <1>7, <1>8 DEF n

\* What a concatenation of lists is made of.
LEMMA ConcatMembers ==
  ASSUME NEW T, NEW s \in Seq(T), NEW t \in Seq(T)
  PROVE  /\ s \o t \in Seq(T)
         /\ ToSet(s \o t) = ToSet(s) \cup ToSet(t)
<1>1. /\ s \o t \in Seq(T) /\ Len(s \o t) = Len(s) + Len(t)
      /\ \A i \in 1..Len(s) + Len(t) : (s \o t)[i] = IF i <= Len(s) THEN s[i] ELSE t[i - Len(s)]
  BY ConcatProperties
<1>2. Len(s) \in Nat /\ Len(t) \in Nat /\ DOMAIN s = 1..Len(s) /\ DOMAIN t = 1..Len(t)
      /\ DOMAIN (s \o t) = 1..Len(s) + Len(t)
  BY <1>1, LenProperties
<1>3. ASSUME NEW i \in 1..Len(s) + Len(t) PROVE (s \o t)[i] \in ToSet(s) \cup ToSet(t)
  <2>1. CASE i <= Len(s)
    <3>1. i \in DOMAIN s /\ (s \o t)[i] = s[i]
      BY <1>1, <1>2, <2>1
    <3> QED BY <3>1 DEF ToSet
  <2>2. CASE ~ (i <= Len(s))
    <3>1. i - Len(s) \in DOMAIN t /\ (s \o t)[i] = t[i - Len(s)]
      BY <1>1, <1>2, <2>2
    <3> QED BY <3>1 DEF ToSet
  <2> QED BY <2>1, <2>2
<1>4. ASSUME NEW i \in DOMAIN s PROVE s[i] \in ToSet(s \o t)
  <2>1. i \in 1..Len(s) + Len(t) /\ i <= Len(s)
    BY <1>2
  <2> QED BY <1>1, <1>2, <2>1 DEF ToSet
<1>5. ASSUME NEW i \in DOMAIN t PROVE t[i] \in ToSet(s \o t)
  <2>1. i + Len(s) \in 1..Len(s) + Len(t) /\ ~ (i + Len(s) <= Len(s)) /\ (i + Len(s)) - Len(s) = i
    BY <1>2
  <2>2. (s \o t)[i + Len(s)] = t[i]
    BY <1>1, <2>1
  <2> QED BY <1>2, <2>1, <2>2 DEF ToSet
<1>6. ToSet(s \o t) \subseteq ToSet(s) \cup ToSet(t)
  BY <1>2, <1>3 DEF ToSet
<1>7. ToSet(s) \subseteq ToSet(s \o t) /\ ToSet(t) \subseteq ToSet(s \o t)
  BY <1>4, <1>5 DEF ToSet
<1> QED BY <1>1, <1>6, <1>7

LEMMA FlattenMembers ==
  ASSUME NEW T, NEW seqs \in Seq(Seq(T))
  PROVE  /\ FlattenSeq(seqs) \in Seq(T)
         /\ ToSet(FlattenSeq(seqs)) = UNION {ToSet(seqs[i]) : i \in DOMAIN seqs}
<1> DEFINE n == Len(seqs)
<1>1. n \in Nat /\ DOMAIN seqs = 1..n /\ \A i \in 1..n : seqs[i] \in Seq(T)
  BY LenProperties
<1>2. CASE n = 0
  <2>1. seqs = <<>> /\ FlattenSeq(seqs) = seqs
    BY <1>2 DEF FlattenSeq
  <2>2. DOMAIN seqs = {} /\ <<>> \in Seq(T)
    BY <2>1
  <2> QED BY <2>1, <2>2 DEF ToSet
<1>3. CASE n # 0
  <2>1. PICK f : /\ f = [i \in 1..n |-> IF i = 1 THEN seqs[i] ELSE f[i - 1] \o seqs[i]]
                 /\ FlattenSeq(seqs) = f[n]
    BY <1>1, <1>3, FlattenExists
  <2> DEFINE Good == {m \in 1..n : /\ f[m] \in Seq(T)
                                   /\ ToSet(f[m]) = UNION {ToSet(seqs[i]) : i \in 1..m}}
  <2>2. 1 \in Good
    <3>1. 1 \in 1..n /\ f[1] = seqs[1] /\ 1..1 = {1}
      BY <1>1, <1>3, <2>1
    <3> QED BY <1>1, <3>1
  <2>3. ASSUME NEW m \in 1..n, m < n, m \in Good PROVE m + 1 \in Good
    <3>1. m + 1 \in 1..n /\ m + 1 # 1 /\ (m + 1) - 1 = m
      BY <1>1, <2>3
    <3>2. f[m + 1] = f[m] \o seqs[m + 1]
      BY <2>1, <3>1
    <3>3. f[m] \in Seq(T) /\ seqs[m + 1] \in Seq(T)
      BY <1>1, <2>3, <3>1
    <3>4. f[m + 1] \in Seq(T) /\ ToSet(f[m + 1]) = ToSet(f[m]) \cup ToSet(seqs[m + 1])
      BY <3>2, <3>3, ConcatMembers
    <3>5. 1..(m + 1) = 1..m \cup {m + 1}
      BY <3>1
    <3>6. ToSet(f[m]) = UNION {ToSet(seqs[i]) : i \in 1..m}
      BY <2>3
    <3>7. UNION {ToSet(seqs[i]) : i \in 1..(m + 1)} = (UNION {ToSet(seqs[i]) : i \in 1..m}) \cup ToSet(seqs[m + 1])
      BY <3>5
    <3> QED BY <3>1, <3>4, <3>6, <3>7
  <2>4. n > 0
    BY <1>1, <1>3
  <2> HIDE DEF n, Good
  <2>5. 1..n \subseteq Good
    BY <1>1, <2>2, <2>3, <2>4, Positions
  <2>6. n \in Good
    BY <1>1, <2>4, <2>5
  <2> QED BY <1>1, <2>1, <2>6 DEF Good
<1> QED BY <1>2, <1>3

\* A list given by its members.
LEMMA ListOf ==
  ASSUME NEW T, NEW n \in Nat, NEW s, s = [i \in 1..n |-> s[i]], \A i \in 1..n : s[i] \in T
  PROVE  s \in Seq(T) /\ Len(s) = n /\ DOMAIN s = 1..n
OBVIOUS

\* Only keeps the members that the set has, each as often as it was there.
LEMMA OnlyMembers ==
  ASSUME NEW T, NEW list \in Seq(T), NEW S
  PROVE  /\ Only(list, S) \in Seq(T)
         /\ ToSet(Only(list, S)) = ToSet(list) \cap S
<1> DEFINE parts == [i \in DOMAIN list |-> IF list[i] \in S THEN <<list[i]>> ELSE <<>>]
<1>1. Len(list) \in Nat /\ DOMAIN list = 1..Len(list) /\ \A i \in 1..Len(list) : list[i] \in T
  BY LenProperties
<1>2. ASSUME NEW i \in 1..Len(list)
      PROVE  parts[i] \in Seq(T) /\ ToSet(parts[i]) = {list[i]} \cap S
  <2>1. CASE list[i] \in S
    <3>1. parts[i] = <<list[i]>>
      BY <1>1, <2>1
    <3>2. <<list[i]>> \in Seq(T) /\ ToSet(<<list[i]>>) = {list[i]}
      BY <1>1 DEF ToSet
    <3> QED BY <2>1, <3>1, <3>2
  <2>2. CASE list[i] \notin S
    <3>1. parts[i] = <<>>
      BY <1>1, <2>2
    <3>2. <<>> \in Seq(T) /\ ToSet(<<>>) = {}
      BY DEF ToSet
    <3> QED BY <2>2, <3>1, <3>2
  <2> QED BY <2>1, <2>2
<1>3. DOMAIN parts = 1..Len(list) /\ parts = [i \in 1..Len(list) |-> parts[i]]
  BY <1>1
<1>4. Only(list, S) = FlattenSeq(parts)
  BY DEF Only
<1> HIDE DEF parts
<1>5. parts \in Seq(Seq(T)) /\ DOMAIN parts = 1..Len(list)
  BY <1>1, <1>2, <1>3, ListOf
<1>6. /\ FlattenSeq(parts) \in Seq(T)
      /\ ToSet(FlattenSeq(parts)) = UNION {ToSet(parts[i]) : i \in 1..Len(list)}
  BY <1>5, FlattenMembers
<1>7. UNION {ToSet(parts[i]) : i \in 1..Len(list)} = ToSet(list) \cap S
  BY <1>1, <1>2 DEF ToSet
<1> QED BY <1>4, <1>6, <1>7

-----------------------------------------------------------------------------
(* Rows: the lists that a well-formed batch becomes *)

\* A function over 1..n is a list.
LEMMA FunctionIsList ==
  ASSUME NEW n \in Nat, NEW s, s = [i \in 1..n |-> s[i]]
  PROVE  IsList(s) /\ Len(s) = n /\ DOMAIN s = 1..n
<1>1. \A i \in 1..n : s[i] \in ToSet(s)
  BY DEF ToSet
<1> QED BY <1>1, ListOf DEF IsList

LEMMA ListDomain ==
  ASSUME NEW s, IsList(s)
  PROVE  Len(s) \in Nat /\ DOMAIN s = 1..Len(s) /\ s = [i \in 1..Len(s) |-> s[i]]
BY LenProperties DEF IsList

LEMMA SeqIsList ==
  ASSUME NEW T, NEW s \in Seq(T)
  PROVE  IsList(s)
<1>1. Len(s) \in Nat /\ s = [i \in 1..Len(s) |-> s[i]]
  BY LenProperties
<1> QED BY <1>1, FunctionIsList

LEMMA OnlyOf ==
  ASSUME NEW list, IsList(list), NEW S
  PROVE  IsList(Only(list, S)) /\ ToSet(Only(list, S)) = ToSet(list) \cap S
BY OnlyMembers, SeqIsList DEF IsList

LEMMA EdgesOfType ==
  ASSUME NEW batch, WellFormed(batch), NEW type
  PROVE  /\ IsList(EdgesOf(batch, type))
         /\ ToSet(EdgesOf(batch, type)) = {e \in ToSet(batch.edges) : e.type = type}
<1>1. IsList(batch.edges)
  BY DEF WellFormed
<1>2. /\ IsList(Only(batch.edges, {e \in ToSet(batch.edges) : e.type = type}))
      /\ ToSet(Only(batch.edges, {e \in ToSet(batch.edges) : e.type = type})) =
           ToSet(batch.edges) \cap {e \in ToSet(batch.edges) : e.type = type}
  BY <1>1, OnlyOf
<1> QED BY <1>2 DEF EdgesOf

LEMMA GroupedEdges ==
  ASSUME NEW edges, IsList(edges)
  PROVE  /\ IsList(group_by(edges))
         /\ ToSet(group_by(edges)) = {e \in ToSet(edges) : e.from \in ToSet(KeyOrder)}
<1> DEFINE T == ToSet(edges)
           parts == [i \in DOMAIN KeyOrder |-> Only(edges, {e \in ToSet(edges) : e.from = KeyOrder[i]})]
<1>1. Len(KeyOrder) \in Nat /\ DOMAIN KeyOrder = 1..Len(KeyOrder)
  BY KeyOrderAssumption, ListDomain
<1>2. ASSUME NEW i \in 1..Len(KeyOrder)
      PROVE  parts[i] \in Seq(T) /\ ToSet(parts[i]) = {e \in T : e.from = KeyOrder[i]}
  <2>1. /\ Only(edges, {e \in ToSet(edges) : e.from = KeyOrder[i]}) \in Seq(T)
        /\ ToSet(Only(edges, {e \in ToSet(edges) : e.from = KeyOrder[i]})) =
             T \cap {e \in ToSet(edges) : e.from = KeyOrder[i]}
    BY OnlyMembers DEF IsList
  <2> QED BY <1>1, <2>1
<1>3. parts = [i \in 1..Len(KeyOrder) |-> parts[i]]
  BY <1>1
<1>4. group_by(edges) = FlattenSeq(parts)
  BY DEF group_by
<1> HIDE DEF T, parts
<1>5. parts \in Seq(Seq(T)) /\ DOMAIN parts = 1..Len(KeyOrder)
  BY <1>1, <1>2, <1>3, ListOf
<1>6. FlattenSeq(parts) \in Seq(T) /\ ToSet(FlattenSeq(parts)) = UNION {ToSet(parts[i]) : i \in 1..Len(KeyOrder)}
  BY <1>5, FlattenMembers
<1>7. UNION {ToSet(parts[i]) : i \in 1..Len(KeyOrder)} = {e \in T : e.from \in ToSet(KeyOrder)}
  BY <1>1, <1>2 DEF ToSet
<1> QED BY <1>4, <1>6, <1>7, SeqIsList DEF T

\* Keys of relationships, between nodes that have labels.
IsEdgeKey(key, type) ==
  \E m, n \in ToSet(Labels) : \E x, y, z : key = EdgeKey(type, NodeKey(m, x), NodeKey(n, y), z)
EdgeRows(rows, type) == IsList(rows) /\ \A i \in DOMAIN rows : IsEdgeKey(rows[i].key, type)

LEMMA LabelSet == ToSet(Labels) = {"ENI", "SecurityGroup", "NetworkACL", "Subnet", "VPC", "RouteTable"}
                  /\ Len(Labels) = 6 /\ DOMAIN Labels = 1..6
BY DEF Labels, ToSet

LEMMA EdgeKeyParts ==
  ASSUME NEW type, NEW key, IsEdgeKey(key, type)
  PROVE  /\ IsEdge(key) /\ key[1] = type /\ EndNodes(key) = {key[2], key[3]}
         /\ \A end \in EndNodes(key) : end[1] \in ToSet(Labels) /\ end = NodeKey(end[1], end[2])
<1>1. PICK m, n \in ToSet(Labels) : \E x, y, z : key = EdgeKey(type, NodeKey(m, x), NodeKey(n, y), z)
  BY DEF IsEdgeKey
<1>2. PICK x, y, z : key = EdgeKey(type, NodeKey(m, x), NodeKey(n, y), z)
  BY <1>1
<1>3. Len(key) = 4 /\ key[1] = type /\ key[2] = NodeKey(m, x) /\ key[3] = NodeKey(n, y)
  BY <1>2 DEF EdgeKey
<1>4. EndNodes(key) = {NodeKey(m, x), NodeKey(n, y)}
  BY <1>3 DEF EndNodes, IsEdge
<1>5. NodeKey(m, x)[1] = m /\ NodeKey(m, x)[2] = x /\ NodeKey(n, y)[1] = n /\ NodeKey(n, y)[2] = y
  BY DEF NodeKey
<1> QED BY <1>1, <1>3, <1>4, <1>5 DEF IsEdge

LEMMA NodeRows ==
  ASSUME NEW batch, WellFormed(batch), NEW label \in ToSet(Labels)
  PROVE  /\ IsList(node_rows(batch, label)) /\ IsList(batch.nodes[label])
         /\ DOMAIN node_rows(batch, label) = DOMAIN batch.nodes[label]
         /\ \A i \in DOMAIN batch.nodes[label] :
              node_rows(batch, label)[i] =
                [key |-> NodeKey(label, batch.nodes[label][i].id), props |-> batch.nodes[label][i].props]
<1> DEFINE n == Len(batch.nodes[label])
           rows == node_rows(batch, label)
<1>1. IsList(batch.nodes[label]) /\ n \in Nat /\ DOMAIN batch.nodes[label] = 1..n
  BY ListDomain DEF WellFormed
<1>2. rows = [i \in 1..n |-> [key |-> NodeKey(label, batch.nodes[label][i].id),
                              props |-> batch.nodes[label][i].props]]
  BY <1>1 DEF node_rows
<1> HIDE DEF n, rows
<1>3. rows = [i \in 1..n |-> rows[i]]
  BY <1>2
<1>4. IsList(rows) /\ DOMAIN rows = 1..n
  BY <1>1, <1>3, FunctionIsList
<1> QED BY <1>1, <1>2, <1>4 DEF rows

\* Rows that are built one for each edge of a list.
LEMMA RowsOfEdges ==
  ASSUME NEW edges, IsList(edges), NEW rows, rows = [i \in DOMAIN edges |-> rows[i]], NEW type,
         \A i \in DOMAIN edges : IsEdgeKey(rows[i].key, type)
  PROVE  EdgeRows(rows, type) /\ DOMAIN rows = DOMAIN edges
<1>1. Len(edges) \in Nat /\ DOMAIN edges = 1..Len(edges)
  BY ListDomain
<1>2. IsList(rows) /\ DOMAIN rows = 1..Len(edges)
  BY <1>1, FunctionIsList
<1> QED BY <1>1, <1>2 DEF EdgeRows

TopologyTypes == {"HAS_SG", "IN_SUBNET", "PROTECTED_BY", "USES_ROUTE_TABLE"}
TopologyKey(e) ==
  EdgeKey(e.type, NodeKey(Ends[e.type][1], e.from), NodeKey(Ends[e.type][2], e.to), <<>>)

LEMMA TopologyRows ==
  ASSUME NEW batch, WellFormed(batch), NEW type \in TopologyTypes
  PROVE  /\ EdgeRows(topology_rows(batch, type), type)
         /\ \A i \in DOMAIN topology_rows(batch, type) : \E e \in ToSet(batch.edges) :
              e.type = type /\ topology_rows(batch, type)[i].key = TopologyKey(e)
         /\ \A e \in ToSet(batch.edges) : e.type = type =>
              \E i \in DOMAIN topology_rows(batch, type) : topology_rows(batch, type)[i].key = TopologyKey(e)
<1> DEFINE edges == EdgesOf(batch, type)
           Key(e) == EdgeKey(type, NodeKey(Ends[type][1], e.from), NodeKey(Ends[type][2], e.to), <<>>)
           rows == topology_rows(batch, type)
<1>1. IsList(edges) /\ ToSet(edges) = {e \in ToSet(batch.edges) : e.type = type}
  BY EdgesOfType
<1>2. rows = [i \in DOMAIN edges |-> [key |-> Key(edges[i]), props |-> "none"]]
  BY DEF topology_rows
<1>3. Ends[type][1] \in ToSet(Labels) /\ Ends[type][2] \in ToSet(Labels)
  BY LabelSet DEF Ends, TopologyTypes
<1>4. \A e : IsEdgeKey(Key(e), type)
  BY <1>3 DEF IsEdgeKey
<1>5. \A e : e.type = type => Key(e) = TopologyKey(e)
  BY DEF TopologyKey
<1> HIDE DEF edges, rows, Key
<1>6. \A i \in DOMAIN edges : rows[i].key = Key(edges[i])
  BY <1>2
<1>7. rows = [i \in DOMAIN edges |-> rows[i]]
  BY <1>2
<1>8. EdgeRows(rows, type) /\ DOMAIN rows = DOMAIN edges
  BY <1>1, <1>4, <1>6, <1>7, RowsOfEdges
<1>9. \A i \in DOMAIN rows : \E e \in ToSet(batch.edges) : e.type = type /\ rows[i].key = TopologyKey(e)
  BY <1>1, <1>5, <1>6, <1>8 DEF ToSet
<1>10. \A e \in ToSet(batch.edges) : e.type = type => \E i \in DOMAIN rows : rows[i].key = TopologyKey(e)
  <2>1. \A e \in ToSet(edges) : \E i \in DOMAIN edges : edges[i] = e
    BY DEF ToSet
  <2> QED BY <1>1, <1>5, <1>6, <1>8, <2>1
<1> QED BY <1>8, <1>9, <1>10 DEF rows

RouteKey(e) ==
  EdgeKey("ROUTES_TO", NodeKey("RouteTable", e.from),
          IF e.resolved THEN NodeKey("VPC", e.to) ELSE NodeKey("RouteTable", e.from), <<e.cidr>>)

LEMMA RoutesToRows ==
  ASSUME NEW batch, WellFormed(batch), NEW resolved \in BOOLEAN
  PROVE  /\ EdgeRows(routes_to_rows(batch, resolved), "ROUTES_TO")
         /\ \A i \in DOMAIN routes_to_rows(batch, resolved) : \E e \in ToSet(batch.edges) :
              /\ e.type = "ROUTES_TO" /\ e.resolved = resolved
              /\ routes_to_rows(batch, resolved)[i].key = RouteKey(e)
              /\ routes_to_rows(batch, resolved)[i].props = resolved
         /\ \A e \in ToSet(batch.edges) : e.type = "ROUTES_TO" /\ e.resolved = resolved =>
              \E i \in DOMAIN routes_to_rows(batch, resolved) : routes_to_rows(batch, resolved)[i].key = RouteKey(e)
<1> DEFINE routes == EdgesOf(batch, "ROUTES_TO")
           edges == Only(routes, {e \in ToSet(routes) : e.resolved = resolved})
           Table(e) == NodeKey("RouteTable", e.from)
           Key(e) == EdgeKey("ROUTES_TO", Table(e), IF resolved THEN NodeKey("VPC", e.to) ELSE Table(e), <<e.cidr>>)
           rows == routes_to_rows(batch, resolved)
<1>1. IsList(routes) /\ ToSet(routes) = {e \in ToSet(batch.edges) : e.type = "ROUTES_TO"}
  BY EdgesOfType
<1>2. IsList(edges) /\ ToSet(edges) = ToSet(routes) \cap {e \in ToSet(routes) : e.resolved = resolved}
  <2> HIDE DEF routes
  <2> QED BY <1>1, OnlyOf
<1>3. rows = [i \in DOMAIN edges |-> [key |-> Key(edges[i]), props |-> resolved]]
  BY DEF routes_to_rows
<1>4. \A e : IsEdgeKey(Key(e), "ROUTES_TO")
  BY LabelSet DEF IsEdgeKey
<1>5. \A e : e.resolved = resolved => Key(e) = RouteKey(e)
  BY DEF RouteKey
<1> HIDE DEF edges, rows, Key, routes
<1>6. \A i \in DOMAIN edges : rows[i].key = Key(edges[i]) /\ rows[i].props = resolved
  BY <1>3
<1>7. rows = [i \in DOMAIN edges |-> rows[i]]
  BY <1>3
<1>8. EdgeRows(rows, "ROUTES_TO") /\ DOMAIN rows = DOMAIN edges
  BY <1>2, <1>4, <1>6, <1>7, RowsOfEdges
<1>9. \A i \in DOMAIN edges : edges[i] \in ToSet(batch.edges) /\ edges[i].type = "ROUTES_TO" /\ edges[i].resolved = resolved
  <2>1. \A i \in DOMAIN edges : edges[i] \in ToSet(edges)
    BY DEF ToSet
  <2> QED BY <1>1, <1>2, <2>1
<1>10. \A e \in ToSet(batch.edges) : e.type = "ROUTES_TO" /\ e.resolved = resolved =>
         \E i \in DOMAIN rows : rows[i].key = RouteKey(e)
  <2>1. \A e \in ToSet(edges) : \E i \in DOMAIN edges : edges[i] = e
    BY DEF ToSet
  <2>2. \A e \in ToSet(batch.edges) : e.type = "ROUTES_TO" /\ e.resolved = resolved => e \in ToSet(edges)
    BY <1>1, <1>2
  <2> QED BY <1>5, <1>6, <1>8, <2>1, <2>2
<1> QED BY <1>5, <1>6, <1>8, <1>9, <1>10 DEF rows

SgKey(id) == NodeKey("SecurityGroup", id)
SgRowKey(e, list) ==
  EdgeKey(e.type, SgKey(e.from), IF list = "sg_ref_resolved" THEN SgKey(e.to) ELSE SgKey(e.from),
          <<e.match, e.kind, e.to>>)

RulesTaken(batch, type, list) == {e \in ToSet(batch.edges) : e.type = type /\ split_sg_rule_rows(e) = list}

LEMMA SgRuleRows ==
  ASSUME NEW batch, WellFormed(batch), NEW type \in {"ALLOWS_INGRESS", "ALLOWS_EGRESS"}, NEW list
  PROVE  /\ EdgeRows(sg_rule_rows(batch, type, list), type)
         /\ \A i \in DOMAIN sg_rule_rows(batch, type, list) : \E e \in RulesTaken(batch, type, list) :
              /\ sg_rule_rows(batch, type, list)[i].key = SgRowKey(e, list)
              /\ sg_rule_rows(batch, type, list)[i].props = e.resolved
         /\ \A e \in RulesTaken(batch, type, list) : \E i \in DOMAIN sg_rule_rows(batch, type, list) :
              sg_rule_rows(batch, type, list)[i].key = SgRowKey(e, list)
<1> DEFINE rules == group_by(EdgesOf(batch, type))
           edges == Only(rules, {e \in ToSet(rules) : split_sg_rule_rows(e) = list})
           Key(e) == EdgeKey(type, SgKey(e.from), IF list = "sg_ref_resolved" THEN SgKey(e.to) ELSE SgKey(e.from),
                             <<e.match, e.kind, e.to>>)
           rows == sg_rule_rows(batch, type, list)
           taken == RulesTaken(batch, type, list)
<1>1. IsList(rules) /\ ToSet(rules) = {e \in ToSet(batch.edges) : e.type = type}
  <2>1. /\ IsList(EdgesOf(batch, type))
        /\ ToSet(EdgesOf(batch, type)) = {e \in ToSet(batch.edges) : e.type = type}
    BY EdgesOfType
  <2>2. /\ IsList(rules)
        /\ ToSet(rules) = {e \in ToSet(EdgesOf(batch, type)) : e.from \in ToSet(KeyOrder)}
    BY <2>1, GroupedEdges
  <2>3. \A e \in ToSet(batch.edges) : e.type = type => e.from \in ToSet(KeyOrder)
    BY DEF WellFormed, IsSgRule
  <2> QED BY <2>1, <2>2, <2>3
<1>2. IsList(edges) /\ ToSet(edges) = taken
  <2>1. IsList(edges) /\ ToSet(edges) = ToSet(rules) \cap {e \in ToSet(rules) : split_sg_rule_rows(e) = list}
    <3> HIDE DEF rules
    <3> QED BY <1>1, OnlyOf
  <2> QED BY <1>1, <2>1 DEF RulesTaken
<1>3. rows = [i \in DOMAIN edges |-> [key |-> Key(edges[i]), props |-> edges[i].resolved]]
  BY DEF sg_rule_rows, SgKey
<1>4. \A e : IsEdgeKey(Key(e), type)
  BY LabelSet DEF IsEdgeKey, SgKey
<1>5. \A e \in taken : Key(e) = SgRowKey(e, list)
  BY DEF SgRowKey, RulesTaken
<1>6. \A i \in DOMAIN edges : edges[i] \in taken
  BY <1>2 DEF ToSet
<1>7. \A e \in taken : \E i \in DOMAIN edges : edges[i] = e
  BY <1>2 DEF ToSet
<1> HIDE DEF edges, rows, Key, taken
<1>8. \A i \in DOMAIN edges : rows[i].key = Key(edges[i]) /\ rows[i].props = edges[i].resolved
  BY <1>3
<1>9. rows = [i \in DOMAIN edges |-> rows[i]]
  BY <1>3
<1>10. EdgeRows(rows, type) /\ DOMAIN rows = DOMAIN edges
  BY <1>2, <1>4, <1>8, <1>9, RowsOfEdges
<1>11. \A i \in DOMAIN rows : \E e \in taken : rows[i].key = SgRowKey(e, list) /\ rows[i].props = e.resolved
  BY <1>5, <1>6, <1>8, <1>10
<1>12. \A e \in taken : \E i \in DOMAIN rows : rows[i].key = SgRowKey(e, list)
  BY <1>5, <1>7, <1>8, <1>10
<1> QED BY <1>10, <1>11, <1>12 DEF rows, taken

NaclRuleKey(e) ==
  EdgeKey("HAS_RULE", NodeKey("NetworkACL", e.from), NodeKey("NetworkACL", e.from), <<e.rule_number>>)

LEMMA NaclRuleRows ==
  ASSUME NEW batch, WellFormed(batch)
  PROVE  /\ EdgeRows(nacl_rule_rows(batch), "HAS_RULE")
         /\ \A i \in DOMAIN nacl_rule_rows(batch) : \E e \in ToSet(batch.edges) :
              /\ e.type = "HAS_RULE" /\ nacl_rule_rows(batch)[i].key = NaclRuleKey(e)
              /\ nacl_rule_rows(batch)[i].props = <<e.direction, e.rule>>
         /\ \A e \in ToSet(batch.edges) : e.type = "HAS_RULE" /\ e.from \in ToSet(KeyOrder) =>
              \E i \in DOMAIN nacl_rule_rows(batch) : nacl_rule_rows(batch)[i].key = NaclRuleKey(e)
<1> DEFINE rules == EdgesOf(batch, "HAS_RULE")
           edges == group_by(rules)
           rows == nacl_rule_rows(batch)
<1>1. /\ IsList(rules) /\ ToSet(rules) = {e \in ToSet(batch.edges) : e.type = "HAS_RULE"}
      /\ IsList(edges) /\ ToSet(edges) = {e \in ToSet(rules) : e.from \in ToSet(KeyOrder)}
  BY EdgesOfType, GroupedEdges
<1>2. rows = [i \in DOMAIN edges |->
                [key |-> NaclRuleKey(edges[i]), props |-> <<edges[i].direction, edges[i].rule>>]]
  BY DEF nacl_rule_rows, NaclRuleKey
<1>3. \A e : IsEdgeKey(NaclRuleKey(e), "HAS_RULE")
  BY LabelSet DEF IsEdgeKey, NaclRuleKey
<1> HIDE DEF edges, rows
<1>4. \A i \in DOMAIN edges :
        rows[i].key = NaclRuleKey(edges[i]) /\ rows[i].props = <<edges[i].direction, edges[i].rule>>
  BY <1>2
<1>5. rows = [i \in DOMAIN edges |-> rows[i]]
  BY <1>2
<1>6. EdgeRows(rows, "HAS_RULE") /\ DOMAIN rows = DOMAIN edges
  BY <1>1, <1>3, <1>4, <1>5, RowsOfEdges
<1>7. \A i \in DOMAIN edges : edges[i] \in ToSet(batch.edges) /\ edges[i].type = "HAS_RULE"
  <2>1. \A i \in DOMAIN edges : edges[i] \in ToSet(edges)
    BY DEF ToSet
  <2> QED BY <1>1, <2>1
<1>8. \A e \in ToSet(batch.edges) : e.type = "HAS_RULE" /\ e.from \in ToSet(KeyOrder) =>
        \E i \in DOMAIN rows : rows[i].key = NaclRuleKey(e)
  <2>1. \A e \in ToSet(edges) : \E i \in DOMAIN edges : edges[i] = e
    BY DEF ToSet
  <2> QED BY <1>1, <1>4, <1>6, <2>1
<1> QED BY <1>4, <1>6, <1>7, <1>8 DEF rows

\* What an upsert of relationships is about, and which list of rules it takes.
EdgeTypes ==
  <<"HAS_SG", "IN_SUBNET", "PROTECTED_BY", "USES_ROUTE_TABLE", "ROUTES_TO", "ROUTES_TO",
    "ALLOWS_INGRESS", "ALLOWS_INGRESS", "ALLOWS_INGRESS",
    "ALLOWS_EGRESS", "ALLOWS_EGRESS", "ALLOWS_EGRESS", "HAS_RULE">>
RuleLists == <<"cidr", "sg_ref_resolved", "sg_ref_unresolved">>

EdgeUpserts(batch) ==
  << topology_rows(batch, "HAS_SG"),
     topology_rows(batch, "IN_SUBNET"),
     topology_rows(batch, "PROTECTED_BY"),
     topology_rows(batch, "USES_ROUTE_TABLE"),
     routes_to_rows(batch, TRUE),
     routes_to_rows(batch, FALSE),
     sg_rule_rows(batch, "ALLOWS_INGRESS", "cidr"),
     sg_rule_rows(batch, "ALLOWS_INGRESS", "sg_ref_resolved"),
     sg_rule_rows(batch, "ALLOWS_INGRESS", "sg_ref_unresolved"),
     sg_rule_rows(batch, "ALLOWS_EGRESS", "cidr"),
     sg_rule_rows(batch, "ALLOWS_EGRESS", "sg_ref_resolved"),
     sg_rule_rows(batch, "ALLOWS_EGRESS", "sg_ref_unresolved"),
     nacl_rule_rows(batch) >>

\* The upserts of a batch: six of nodes, then thirteen of relationships.
LEMMA WriteUpserts ==
  ASSUME NEW batch
  PROVE  /\ Len(write_batch(batch)) = 19 /\ DOMAIN write_batch(batch) = 1..19
         /\ \A u \in 1..6 : write_batch(batch)[u] = node_rows(batch, Labels[u])
         /\ \A u \in 7..19 : write_batch(batch)[u] = EdgeUpserts(batch)[u - 6]
<1> DEFINE heads == [i \in DOMAIN Labels |-> node_rows(batch, Labels[i])]
           tail == EdgeUpserts(batch)
           S == {heads[i] : i \in 1..6} \cup {tail[i] : i \in 1..13}
<1>1. write_batch(batch) = heads \o tail
  BY DEF write_batch, EdgeUpserts
<1>2. DOMAIN heads = 1..6 /\ heads = [i \in 1..6 |-> heads[i]] /\ \A i \in 1..6 : heads[i] \in S
  BY LabelSet
<1>3. \A i \in 1..6 : heads[i] = node_rows(batch, Labels[i])
  BY LabelSet
<1>4. Len(tail) = 13 /\ DOMAIN tail = 1..13 /\ tail = [i \in 1..13 |-> tail[i]]
  BY DEF EdgeUpserts
<1>5. \A i \in 1..13 : tail[i] \in S
  OBVIOUS
<1> HIDE DEF heads, tail, S
<1>6. heads \in Seq(S) /\ Len(heads) = 6 /\ tail \in Seq(S)
  BY <1>2, <1>4, <1>5, ListOf
<1>7. /\ heads \o tail \in Seq(S) /\ Len(heads \o tail) = Len(heads) + Len(tail)
      /\ \A i \in 1..Len(heads) + Len(tail) :
           (heads \o tail)[i] = IF i <= Len(heads) THEN heads[i] ELSE tail[i - Len(heads)]
  BY <1>6, ConcatProperties
<1>8. Len(heads \o tail) = 19 /\ DOMAIN (heads \o tail) = 1..19
  BY <1>4, <1>6, <1>7, LenProperties
<1>9. \A i \in 1..19 : (heads \o tail)[i] = IF i <= 6 THEN heads[i] ELSE tail[i - 6]
  BY <1>4, <1>6, <1>7
<1>10. Len(write_batch(batch)) = 19 /\ DOMAIN write_batch(batch) = 1..19
  BY <1>1, <1>8
<1>11. ASSUME NEW u \in 1..6 PROVE write_batch(batch)[u] = node_rows(batch, Labels[u])
  <2>1. u \in 1..19 /\ u <= 6
    OBVIOUS
  <2>2. (heads \o tail)[u] = heads[u]
    BY <1>9, <2>1
  <2> QED BY <1>1, <1>3, <2>2
<1>12. ASSUME NEW u \in 7..19 PROVE write_batch(batch)[u] = tail[u - 6]
  <2>1. u \in 1..19 /\ ~ (u <= 6)
    OBVIOUS
  <2>2. (heads \o tail)[u] = tail[u - 6]
    BY <1>9, <2>1
  <2> QED BY <1>1, <2>2
<1> QED BY <1>10, <1>11, <1>12 DEF tail

\* The rows of the upserts, and the shapes of their keys.
LEMMA WriteRows ==
  ASSUME NEW batch, WellFormed(batch)
  PROVE  /\ \A u \in 1..6 :
              /\ IsList(write_batch(batch)[u]) /\ DOMAIN write_batch(batch)[u] = DOMAIN batch.nodes[Labels[u]]
              /\ \A i \in DOMAIN write_batch(batch)[u] :
                   write_batch(batch)[u][i].key = NodeKey(Labels[u], batch.nodes[Labels[u]][i].id)
         /\ \A u \in 7..19 : EdgeRows(write_batch(batch)[u], EdgeTypes[u - 6])
<1>1. WellFormed(batch)
  OBVIOUS
<1>2. ASSUME NEW u \in 1..6
      PROVE  /\ IsList(write_batch(batch)[u]) /\ DOMAIN write_batch(batch)[u] = DOMAIN batch.nodes[Labels[u]]
             /\ \A i \in DOMAIN write_batch(batch)[u] :
                  write_batch(batch)[u][i].key = NodeKey(Labels[u], batch.nodes[Labels[u]][i].id)
  <2>1. write_batch(batch)[u] = node_rows(batch, Labels[u]) /\ Labels[u] \in ToSet(Labels)
    BY WriteUpserts, LabelSet DEF ToSet
  <2> DEFINE label == Labels[u]
  <2>2. /\ IsList(node_rows(batch, label))
        /\ DOMAIN node_rows(batch, label) = DOMAIN batch.nodes[label]
        /\ \A i \in DOMAIN batch.nodes[label] :
             node_rows(batch, label)[i] =
               [key |-> NodeKey(label, batch.nodes[label][i].id), props |-> batch.nodes[label][i].props]
    BY <1>1, <2>1, NodeRows
  <2>3. write_batch(batch)[u] = node_rows(batch, label)
    BY <2>1
  <2> HIDE DEF label
  <2>4. ASSUME NEW i \in DOMAIN write_batch(batch)[u]
        PROVE  write_batch(batch)[u][i].key = NodeKey(label, batch.nodes[label][i].id)
    <3>1. write_batch(batch)[u][i] = [key |-> NodeKey(label, batch.nodes[label][i].id), props |-> batch.nodes[label][i].props]
      BY <2>2, <2>3
    <3> QED BY <3>1
  <2>5. IsList(write_batch(batch)[u]) /\ DOMAIN write_batch(batch)[u] = DOMAIN batch.nodes[label]
    BY <2>2, <2>3
  <2> QED BY <2>4, <2>5 DEF label
<1>3. ASSUME NEW v \in 1..13 PROVE EdgeRows(EdgeUpserts(batch)[v], EdgeTypes[v])
  <2>1. \A u \in 1..4 : EdgeRows(EdgeUpserts(batch)[u], EdgeTypes[u])
    BY <1>1, TopologyRows DEF EdgeUpserts, EdgeTypes, TopologyTypes
  <2>2. \A u \in 5..6 : EdgeRows(EdgeUpserts(batch)[u], EdgeTypes[u])
    <3>1. /\ EdgeRows(routes_to_rows(batch, TRUE), "ROUTES_TO")
          /\ EdgeRows(routes_to_rows(batch, FALSE), "ROUTES_TO")
      BY <1>1, RoutesToRows
    <3>2. /\ EdgeUpserts(batch)[5] = routes_to_rows(batch, TRUE)
          /\ EdgeUpserts(batch)[6] = routes_to_rows(batch, FALSE)
          /\ EdgeTypes[5] = "ROUTES_TO" /\ EdgeTypes[6] = "ROUTES_TO"
      BY DEF EdgeUpserts, EdgeTypes
    <3>3. /\ EdgeRows(EdgeUpserts(batch)[5], EdgeTypes[5])
          /\ EdgeRows(EdgeUpserts(batch)[6], EdgeTypes[6])
      BY <3>1, <3>2
    <3>4. \A u \in 5..6 : u = 5 \/ u = 6
      OBVIOUS
    <3> QED BY <3>3, <3>4, Zenon
  <2>3. \A u \in 7..12 : EdgeRows(EdgeUpserts(batch)[u], EdgeTypes[u])
    BY <1>1, SgRuleRows DEF EdgeUpserts, EdgeTypes
  <2>4. EdgeRows(EdgeUpserts(batch)[13], EdgeTypes[13])
    BY <1>1, NaclRuleRows DEF EdgeUpserts, EdgeTypes
  <2> QED BY <2>1, <2>2, <2>3, <2>4
<1>4. ASSUME NEW u \in 7..19 PROVE EdgeRows(write_batch(batch)[u], EdgeTypes[u - 6])
  <2>1. u - 6 \in 1..13
    OBVIOUS
  <2> QED BY <1>3, <2>1, WriteUpserts
<1> QED BY <1>2, <1>4

\* Every row of a relationship is one edge's.
RowOf(row, e) ==
  \/ e.type \in TopologyTypes /\ row.key = TopologyKey(e)
  \/ e.type = "ROUTES_TO" /\ row.key = RouteKey(e) /\ row.props = e.resolved
  \/ IsSgRule(e) /\ row.key = RuleEdge(e) /\ row.props = e.resolved
  \/ e.type = "HAS_RULE" /\ row.key = NaclRuleKey(e) /\ row.props = <<e.direction, e.rule>>

LEMMA RuleEdgeIsItsRow ==
  ASSUME NEW e, e.kind \in {"cidr", "security_group_ref"}, e.resolved \in BOOLEAN
  PROVE  /\ split_sg_rule_rows(e) \in {"cidr", "sg_ref_resolved", "sg_ref_unresolved"}
         /\ RuleEdge(e) = SgRowKey(e, split_sg_rule_rows(e))
BY DEF split_sg_rule_rows, RuleEdge, SgRowKey, SgKey

LEMMA RowsAreOfEdges ==
  ASSUME NEW batch, WellFormed(batch), NEW u \in 7..19, NEW i \in DOMAIN write_batch(batch)[u]
  PROVE  \E e \in ToSet(batch.edges) : RowOf(write_batch(batch)[u][i], e)
<1> DEFINE rows == EdgeUpserts(batch)
<1>1. WellFormed(batch) /\ write_batch(batch)[u] = rows[u - 6]
  BY WriteUpserts
<1>2. u - 6 \in {1, 2, 3, 4, 5, 6, 7, 8, 9, 10, 11, 12, 13}
  OBVIOUS
<1>3. /\ \A v \in {1, 2, 3, 4} : \E type \in TopologyTypes : rows[v] = topology_rows(batch, type)
      /\ \A v \in {5, 6} : \E resolved \in BOOLEAN : rows[v] = routes_to_rows(batch, resolved)
      /\ \A v \in {7, 8, 9} : \E list : rows[v] = sg_rule_rows(batch, "ALLOWS_INGRESS", list)
      /\ \A v \in {10, 11, 12} : \E list : rows[v] = sg_rule_rows(batch, "ALLOWS_EGRESS", list)
      /\ rows[13] = nacl_rule_rows(batch)
  <2>1. /\ rows[1] = topology_rows(batch, "HAS_SG") /\ rows[2] = topology_rows(batch, "IN_SUBNET")
        /\ rows[3] = topology_rows(batch, "PROTECTED_BY") /\ rows[4] = topology_rows(batch, "USES_ROUTE_TABLE")
        /\ rows[5] = routes_to_rows(batch, TRUE) /\ rows[6] = routes_to_rows(batch, FALSE)
        /\ rows[7] = sg_rule_rows(batch, "ALLOWS_INGRESS", "cidr")
        /\ rows[8] = sg_rule_rows(batch, "ALLOWS_INGRESS", "sg_ref_resolved")
        /\ rows[9] = sg_rule_rows(batch, "ALLOWS_INGRESS", "sg_ref_unresolved")
        /\ rows[10] = sg_rule_rows(batch, "ALLOWS_EGRESS", "cidr")
        /\ rows[11] = sg_rule_rows(batch, "ALLOWS_EGRESS", "sg_ref_resolved")
        /\ rows[12] = sg_rule_rows(batch, "ALLOWS_EGRESS", "sg_ref_unresolved")
        /\ rows[13] = nacl_rule_rows(batch)
    BY DEF EdgeUpserts
  <2> HIDE DEF rows
  <2> QED BY <2>1, Zenon DEF TopologyTypes
<1>4. \/ \E type \in TopologyTypes : write_batch(batch)[u] = topology_rows(batch, type)
      \/ \E resolved \in BOOLEAN : write_batch(batch)[u] = routes_to_rows(batch, resolved)
      \/ \E type \in {"ALLOWS_INGRESS", "ALLOWS_EGRESS"} : \E list : write_batch(batch)[u] = sg_rule_rows(batch, type, list)
      \/ write_batch(batch)[u] = nacl_rule_rows(batch)
  <2> HIDE DEF rows
  <2>1. \/ u - 6 \in {1, 2, 3, 4} \/ u - 6 \in {5, 6} \/ u - 6 \in {7, 8, 9}
        \/ u - 6 \in {10, 11, 12} \/ u - 6 = 13
    BY <1>2, Zenon
  <2> QED BY <1>1, <1>3, <2>1, Zenon
<1> HIDE DEF rows
<1>5. CASE \E type \in TopologyTypes : write_batch(batch)[u] = topology_rows(batch, type)
  <2>1. PICK type \in TopologyTypes : write_batch(batch)[u] = topology_rows(batch, type)
    BY <1>5
  <2>2. \E e \in ToSet(batch.edges) : e.type = type /\ topology_rows(batch, type)[i].key = TopologyKey(e)
    BY <1>1, <2>1, TopologyRows
  <2> QED BY <2>1, <2>2 DEF RowOf
<1>6. CASE \E resolved \in BOOLEAN : write_batch(batch)[u] = routes_to_rows(batch, resolved)
  <2>1. PICK resolved \in BOOLEAN : write_batch(batch)[u] = routes_to_rows(batch, resolved)
    BY <1>6
  <2>2. \E e \in ToSet(batch.edges) :
          /\ e.type = "ROUTES_TO" /\ e.resolved = resolved
          /\ routes_to_rows(batch, resolved)[i].key = RouteKey(e)
          /\ routes_to_rows(batch, resolved)[i].props = resolved
    BY <1>1, <2>1, RoutesToRows
  <2> QED BY <2>1, <2>2 DEF RowOf
<1>7. CASE \E type \in {"ALLOWS_INGRESS", "ALLOWS_EGRESS"} : \E list : write_batch(batch)[u] = sg_rule_rows(batch, type, list)
  <2>1. PICK type \in {"ALLOWS_INGRESS", "ALLOWS_EGRESS"} : \E list : write_batch(batch)[u] = sg_rule_rows(batch, type, list)
    BY <1>7
  <2>2. PICK list : write_batch(batch)[u] = sg_rule_rows(batch, type, list)
    BY <2>1
  <2>3. PICK e \in RulesTaken(batch, type, list) :
          /\ sg_rule_rows(batch, type, list)[i].key = SgRowKey(e, list)
          /\ sg_rule_rows(batch, type, list)[i].props = e.resolved
    BY <1>1, <2>1, <2>2, SgRuleRows
  <2>4. e \in ToSet(batch.edges) /\ IsSgRule(e) /\ list = split_sg_rule_rows(e)
    BY <2>1, <2>3 DEF RulesTaken, IsSgRule
  <2>5. RuleEdge(e) = SgRowKey(e, list)
    BY <1>1, <2>4, RuleEdgeIsItsRow DEF WellFormed
  <2> QED BY <2>2, <2>3, <2>4, <2>5 DEF RowOf
<1>8. CASE write_batch(batch)[u] = nacl_rule_rows(batch)
  <2>1. \E e \in ToSet(batch.edges) :
          /\ e.type = "HAS_RULE" /\ nacl_rule_rows(batch)[i].key = NaclRuleKey(e)
          /\ nacl_rule_rows(batch)[i].props = <<e.direction, e.rule>>
    BY <1>1, <1>8, NaclRuleRows
  <2> QED BY <1>8, <2>1 DEF RowOf
<1> QED BY <1>4, <1>5, <1>6, <1>7, <1>8

-----------------------------------------------------------------------------
(* Lists *)

\* A list made from another, member by member.
LEMMA MapList ==
  ASSUME NEW list, IsList(list), NEW f, f = [i \in DOMAIN list |-> f[i]]
  PROVE  IsList(f) /\ DOMAIN f = DOMAIN list /\ Len(f) = Len(list)
<1>1. Len(list) \in Nat /\ DOMAIN list = 1..Len(list)
  BY ListDomain
<1> QED BY <1>1, FunctionIsList

\* One after the other, the lists made from the members of a list.
LEMMA FlatMap ==
  ASSUME NEW list, IsList(list), NEW f, f = [i \in DOMAIN list |-> f[i]],
         \A i \in DOMAIN list : IsList(f[i])
  PROVE  /\ IsList(FlattenSeq(f))
         /\ \A e : e \in ToSet(FlattenSeq(f)) <=> \E i \in DOMAIN list : e \in ToSet(f[i])
<1> DEFINE T == UNION {ToSet(f[i]) : i \in DOMAIN list}
<1>1. Len(list) \in Nat /\ DOMAIN list = 1..Len(list)
  BY ListDomain
<1>2. \A i \in DOMAIN list : f[i] \in Seq(T)
  <2> SUFFICES ASSUME NEW i \in DOMAIN list PROVE f[i] \in Seq(T)
    OBVIOUS
  <2>1. Len(f[i]) \in Nat /\ DOMAIN f[i] = 1..Len(f[i]) /\ f[i] = [j \in 1..Len(f[i]) |-> f[i][j]]
    BY ListDomain
  <2>2. \A j \in 1..Len(f[i]) : f[i][j] \in T
    BY <2>1 DEF ToSet
  <2> HIDE DEF T
  <2> QED BY <2>1, <2>2, ListOf
<1> HIDE DEF T
<1>3. f \in Seq(Seq(T)) /\ DOMAIN f = DOMAIN list
  BY <1>1, <1>2, ListOf
<1>4. /\ FlattenSeq(f) \in Seq(T)
      /\ ToSet(FlattenSeq(f)) = UNION {ToSet(f[i]) : i \in DOMAIN f}
  BY <1>3, FlattenMembers
<1>5. IsList(FlattenSeq(f))
  BY <1>4, SeqIsList
<1> QED BY <1>3, <1>4, <1>5

LEMMA ConcatLists ==
  ASSUME NEW s, IsList(s), NEW t, IsList(t)
  PROVE  IsList(s \o t) /\ ToSet(s \o t) = ToSet(s) \cup ToSet(t)
<1> DEFINE T == ToSet(s) \cup ToSet(t)
<1>1. s \in Seq(T) /\ t \in Seq(T)
  <2>1. /\ Len(s) \in Nat /\ DOMAIN s = 1..Len(s) /\ s = [i \in 1..Len(s) |-> s[i]]
        /\ Len(t) \in Nat /\ DOMAIN t = 1..Len(t) /\ t = [i \in 1..Len(t) |-> t[i]]
    BY ListDomain
  <2>2. (\A i \in 1..Len(s) : s[i] \in T) /\ (\A i \in 1..Len(t) : t[i] \in T)
    BY <2>1 DEF ToSet
  <2> HIDE DEF T
  <2> QED BY <2>1, <2>2, ListOf
<1> HIDE DEF T
<1>2. s \o t \in Seq(T) /\ ToSet(s \o t) = ToSet(s) \cup ToSet(t)
  BY <1>1, ConcatMembers
<1> QED BY <1>2, SeqIsList

-----------------------------------------------------------------------------
(* What the mapping makes of the collections *)

\* Only what its required fields allow is mapped, and it is mapped as it is.
LEMMA MappedItems ==
  ASSUME NEW raw, IsRaw(raw), NEW kind \in Kinds
  PROVE  /\ IsList(Mapped(raw)[kind])
         /\ ToSet(Mapped(raw)[kind]) = {item \in ToSet(raw[kind]) : kind \in DOMAIN Required => Maps(kind, item)}
         /\ \A item \in ToSet(Mapped(raw)[kind]) : ItemFits(kind, item)
<1> DEFINE S == {item \in ToSet(raw[kind]) : Maps(kind, item)}
<1>1. IsList(raw[kind]) /\ \A item \in ToSet(raw[kind]) : ItemFits(kind, item)
  BY DEF IsRaw
<1>2. Mapped(raw)[kind] = IF kind \in DOMAIN Required THEN Only(raw[kind], S) ELSE raw[kind]
  BY DEF Mapped, map_nodes
<1> HIDE DEF S
<1>3. IsList(Only(raw[kind], S)) /\ ToSet(Only(raw[kind], S)) = ToSet(raw[kind]) \cap S
  BY <1>1, OnlyOf
<1>4. ToSet(raw[kind]) \cap S = {item \in ToSet(raw[kind]) : Maps(kind, item)}
  BY DEF S
<1>5. CASE kind \in DOMAIN Required
  <2>1. ToSet(Mapped(raw)[kind]) = {item \in ToSet(raw[kind]) : Maps(kind, item)}
    BY <1>2, <1>3, <1>4, <1>5
  <2> QED BY <1>1, <1>2, <1>3, <1>5, <2>1
<1>6. CASE kind \notin DOMAIN Required
  BY <1>1, <1>2, <1>6
<1> QED BY <1>5, <1>6

LEMMA HasSgEdges ==
  ASSUME NEW enis, IsList(enis), \A eni \in ToSet(enis) : IsList(eni.groups)
  PROVE  /\ IsList(has_sg_edges(enis))
         /\ \A e : e \in ToSet(has_sg_edges(enis)) <=>
              \E eni \in ToSet(enis) : \E g \in ToSet(eni.groups) : e = Edge("HAS_SG", eni.id, g)
<1> DEFINE f == [i \in DOMAIN enis |->
                   [j \in DOMAIN enis[i].groups |-> Edge("HAS_SG", enis[i].id, enis[i].groups[j])]]
<1>1. has_sg_edges(enis) = FlattenSeq(f)
  BY DEF has_sg_edges
<1>2. ASSUME NEW i \in DOMAIN enis
      PROVE  /\ IsList(f[i])
             /\ \A e : e \in ToSet(f[i]) <=> \E g \in ToSet(enis[i].groups) : e = Edge("HAS_SG", enis[i].id, g)
  <2>1. IsList(enis[i].groups)
    BY DEF ToSet
  <2>2. f[i] = [j \in DOMAIN enis[i].groups |-> Edge("HAS_SG", enis[i].id, enis[i].groups[j])]
    OBVIOUS
  <2> HIDE DEF f
  <2>3. f[i] = [j \in DOMAIN enis[i].groups |-> f[i][j]]
        /\ \A j \in DOMAIN enis[i].groups : f[i][j] = Edge("HAS_SG", enis[i].id, enis[i].groups[j])
    BY <2>2
  <2>4. IsList(f[i]) /\ DOMAIN f[i] = DOMAIN enis[i].groups
    BY <2>1, <2>3, MapList
  <2> QED BY <2>3, <2>4 DEF ToSet
<1>3. f = [i \in DOMAIN enis |-> f[i]]
  OBVIOUS
<1> HIDE DEF f
<1>4. /\ IsList(FlattenSeq(f))
      /\ \A e : e \in ToSet(FlattenSeq(f)) <=> \E i \in DOMAIN enis : e \in ToSet(f[i])
  BY <1>2, <1>3, FlatMap
<1>5. (\A i \in DOMAIN enis : enis[i] \in ToSet(enis)) /\ \A item \in ToSet(enis) : \E i \in DOMAIN enis : item = enis[i]
  BY DEF ToSet
<1>6. ASSUME NEW e
      PROVE  (\E i \in DOMAIN enis : e \in ToSet(f[i])) <=>
               \E eni \in ToSet(enis) : \E g \in ToSet(eni.groups) : e = Edge("HAS_SG", eni.id, g)
  <2>1. \A i \in DOMAIN enis :
          e \in ToSet(f[i]) <=> \E g \in ToSet(enis[i].groups) : e = Edge("HAS_SG", enis[i].id, g)
    BY <1>2
  <2> QED BY <1>5, <2>1
<1> QED BY <1>1, <1>4, <1>6

LEMMA InSubnetEdges ==
  ASSUME NEW enis, IsList(enis)
  PROVE  /\ IsList(in_subnet_edges(enis))
         /\ \A e : e \in ToSet(in_subnet_edges(enis)) <=>
              \E eni \in ToSet(enis) : e = Edge("IN_SUBNET", eni.id, eni.subnet)
<1> DEFINE f == in_subnet_edges(enis)
<1>1. f = [i \in DOMAIN enis |-> Edge("IN_SUBNET", enis[i].id, enis[i].subnet)]
  BY DEF in_subnet_edges
<1> HIDE DEF f
<1>2. f = [i \in DOMAIN enis |-> f[i]] /\ \A i \in DOMAIN enis : f[i] = Edge("IN_SUBNET", enis[i].id, enis[i].subnet)
  BY <1>1
<1>3. IsList(f) /\ DOMAIN f = DOMAIN enis
  BY <1>2, MapList
<1>4. \A e : e \in ToSet(f) <=> \E eni \in ToSet(enis) : e = Edge("IN_SUBNET", eni.id, eni.subnet)
  BY <1>2, <1>3 DEF ToSet
<1> QED BY <1>3, <1>4 DEF f

LEMMA PresentOptions ==
  ASSUME NEW options, IsList(options)
  PROVE  IsList(Present(options)) /\ ToSet(Present(options)) = ToSet(options) \ {None}
<1>1. /\ IsList(Only(options, ToSet(options) \ {None}))
      /\ ToSet(Only(options, ToSet(options) \ {None})) = ToSet(options) \cap (ToSet(options) \ {None})
  BY OnlyOf
<1> QED BY <1>1 DEF Present

LEMMA ProtectedByEdges ==
  ASSUME NEW acls, IsList(acls), \A acl \in ToSet(acls) : IsList(acl.associations)
  PROVE  /\ IsList(protected_by_edges(acls))
         /\ \A e : e \in ToSet(protected_by_edges(acls)) <=>
              \E acl \in ToSet(acls) : \E s \in ToSet(acl.associations) \ {None} : e = Edge("PROTECTED_BY", s, acl.id)
<1> DEFINE subnets(i) == Present(acls[i].associations)
           f == [i \in DOMAIN acls |->
                   [j \in DOMAIN subnets(i) |-> Edge("PROTECTED_BY", subnets(i)[j], acls[i].id)]]
<1>1. protected_by_edges(acls) = FlattenSeq(f)
  BY DEF protected_by_edges
<1>2. ASSUME NEW i \in DOMAIN acls
      PROVE  /\ IsList(f[i])
             /\ \A e : e \in ToSet(f[i]) <=> \E s \in ToSet(acls[i].associations) \ {None} : e = Edge("PROTECTED_BY", s, acls[i].id)
  <2>1. IsList(subnets(i)) /\ ToSet(subnets(i)) = ToSet(acls[i].associations) \ {None}
    BY PresentOptions DEF ToSet
  <2>2. f[i] = [j \in DOMAIN subnets(i) |-> Edge("PROTECTED_BY", subnets(i)[j], acls[i].id)]
    OBVIOUS
  <2> HIDE DEF f, subnets
  <2>3. f[i] = [j \in DOMAIN subnets(i) |-> f[i][j]]
        /\ \A j \in DOMAIN subnets(i) : f[i][j] = Edge("PROTECTED_BY", subnets(i)[j], acls[i].id)
    BY <2>2
  <2>4. IsList(f[i]) /\ DOMAIN f[i] = DOMAIN subnets(i)
    BY <2>1, <2>3, MapList
  <2>5. \A s : s \in ToSet(acls[i].associations) \ {None} <=> \E j \in DOMAIN subnets(i) : s = subnets(i)[j]
    BY <2>1 DEF ToSet
  <2>6. \A e : e \in ToSet(f[i]) <=> \E j \in DOMAIN subnets(i) : e = f[i][j]
    BY <2>4 DEF ToSet
  <2> QED BY <2>3, <2>4, <2>5, <2>6
<1>3. f = [i \in DOMAIN acls |-> f[i]]
  OBVIOUS
<1> HIDE DEF f
<1>4. /\ IsList(FlattenSeq(f))
      /\ \A e : e \in ToSet(FlattenSeq(f)) <=> \E i \in DOMAIN acls : e \in ToSet(f[i])
  BY <1>2, <1>3, FlatMap
<1>5. (\A i \in DOMAIN acls : acls[i] \in ToSet(acls)) /\ \A item \in ToSet(acls) : \E i \in DOMAIN acls : item = acls[i]
  BY DEF ToSet
<1>6. ASSUME NEW e
      PROVE  (\E i \in DOMAIN acls : e \in ToSet(f[i]))
             <=> \E acl \in ToSet(acls) : \E s \in ToSet(acl.associations) \ {None} : e = Edge("PROTECTED_BY", s, acl.id)
  <2> DEFINE Is(acl) == \E s \in ToSet(acl.associations) \ {None} : e = Edge("PROTECTED_BY", s, acl.id)
  <2>1. \A i \in DOMAIN acls : e \in ToSet(f[i]) <=> Is(acls[i])
    BY <1>2
  <2> HIDE DEF Is
  <2>2. (\E i \in DOMAIN acls : e \in ToSet(f[i])) <=> \E acl \in ToSet(acls) : Is(acl)
    BY <1>5, <2>1
  <2> QED BY <2>2 DEF Is
<1> QED BY <1>1, <1>4, <1>6

LEMMA UsesRouteTableEdges ==
  ASSUME NEW tables, IsList(tables), \A table \in ToSet(tables) : IsList(table.associations)
  PROVE  /\ IsList(uses_route_table_edges(tables))
         /\ \A e : e \in ToSet(uses_route_table_edges(tables)) <=>
              \E table \in ToSet(tables) : \E a \in ToSet(table.associations) :
                 a.subnet # None /\ e = Edge("USES_ROUTE_TABLE", a.subnet, table.id)
<1> DEFINE explicit(i) == Explicit(tables[i].associations)
           f == [i \in DOMAIN tables |->
                   [j \in DOMAIN explicit(i) |-> Edge("USES_ROUTE_TABLE", explicit(i)[j].subnet, tables[i].id)]]
<1>1. uses_route_table_edges(tables) = FlattenSeq(f)
  BY DEF uses_route_table_edges
<1>2. ASSUME NEW i \in DOMAIN tables
      PROVE  /\ IsList(f[i])
             /\ \A e : e \in ToSet(f[i]) <=> \E a \in ToSet(tables[i].associations) :
                  a.subnet # None /\ e = Edge("USES_ROUTE_TABLE", a.subnet, tables[i].id)
  <2> DEFINE all == tables[i].associations
             S == {a \in ToSet(all) : a.subnet # None}
  <2>1. IsList(explicit(i)) /\ ToSet(explicit(i)) = ToSet(all) \cap S
    <3>1. IsList(all) /\ explicit(i) = Only(all, S)
      BY DEF Explicit, ToSet
    <3> HIDE DEF all, S, explicit
    <3> QED BY <3>1, OnlyOf
  <2>2. f[i] = [j \in DOMAIN explicit(i) |-> Edge("USES_ROUTE_TABLE", explicit(i)[j].subnet, tables[i].id)]
    OBVIOUS
  <2> HIDE DEF f, explicit, all
  <2>3. f[i] = [j \in DOMAIN explicit(i) |-> f[i][j]]
        /\ \A j \in DOMAIN explicit(i) : f[i][j] = Edge("USES_ROUTE_TABLE", explicit(i)[j].subnet, tables[i].id)
    BY <2>2
  <2>4. IsList(f[i]) /\ DOMAIN f[i] = DOMAIN explicit(i)
    BY <2>1, <2>3, MapList
  <2>5. \A a : a \in ToSet(all) /\ a.subnet # None <=> \E j \in DOMAIN explicit(i) : a = explicit(i)[j]
    <3>1. \A a : a \in ToSet(explicit(i)) <=> \E j \in DOMAIN explicit(i) : a = explicit(i)[j]
      BY DEF ToSet
    <3> QED BY <2>1, <3>1
  <2>6. \A e : e \in ToSet(f[i]) <=> \E j \in DOMAIN explicit(i) : e = f[i][j]
    BY <2>4 DEF ToSet
  <2> QED BY <2>3, <2>4, <2>5, <2>6 DEF all
<1>3. f = [i \in DOMAIN tables |-> f[i]]
  OBVIOUS
<1> HIDE DEF f
<1>4. /\ IsList(FlattenSeq(f))
      /\ \A e : e \in ToSet(FlattenSeq(f)) <=> \E i \in DOMAIN tables : e \in ToSet(f[i])
  BY <1>2, <1>3, FlatMap
<1>5. (\A i \in DOMAIN tables : tables[i] \in ToSet(tables)) /\ \A item \in ToSet(tables) : \E i \in DOMAIN tables : item = tables[i]
  BY DEF ToSet
<1> QED BY <1>1, <1>2, <1>4, <1>5

RouteEdge(table, route, peerings) ==
  [type |-> "ROUTES_TO", from |-> table.id, cidr |-> route.cidr,
   to |-> resolve_route_target(table.vpc, route, peerings).to,
   resolved |-> resolve_route_target(table.vpc, route, peerings).resolved]

LEMMA RoutesToEdges ==
  ASSUME NEW tables, IsList(tables), \A table \in ToSet(tables) : IsList(table.routes), NEW peerings
  PROVE  /\ IsList(routes_to_edges(tables, peerings))
         /\ \A e : e \in ToSet(routes_to_edges(tables, peerings)) <=>
              \E table \in ToSet(tables) : \E route \in ToSet(table.routes) :
                 route.cidr # None /\ e = RouteEdge(table, route, peerings)
<1> DEFINE routes(i) == HasCidr(tables[i].routes)
           f == [i \in DOMAIN tables |->
                   [j \in DOMAIN routes(i) |-> RouteEdge(tables[i], routes(i)[j], peerings)]]
<1>1. routes_to_edges(tables, peerings) = FlattenSeq(f)
  BY DEF routes_to_edges, RouteEdge
<1>2. ASSUME NEW i \in DOMAIN tables
      PROVE  /\ IsList(f[i])
             /\ \A e : e \in ToSet(f[i]) <=> \E route \in ToSet(tables[i].routes) :
                  route.cidr # None /\ e = RouteEdge(tables[i], route, peerings)
  <2> DEFINE all == tables[i].routes
             S == {r \in ToSet(all) : r.cidr # None}
  <2>1. IsList(routes(i)) /\ ToSet(routes(i)) = ToSet(all) \cap S
    <3>1. IsList(all) /\ routes(i) = Only(all, S)
      BY DEF HasCidr, ToSet
    <3> HIDE DEF all, S, routes
    <3> QED BY <3>1, OnlyOf
  <2>2. f[i] = [j \in DOMAIN routes(i) |-> RouteEdge(tables[i], routes(i)[j], peerings)]
    OBVIOUS
  <2> HIDE DEF f, routes, all
  <2>3. f[i] = [j \in DOMAIN routes(i) |-> f[i][j]]
        /\ \A j \in DOMAIN routes(i) : f[i][j] = RouteEdge(tables[i], routes(i)[j], peerings)
    BY <2>2
  <2>4. IsList(f[i]) /\ DOMAIN f[i] = DOMAIN routes(i)
    BY <2>1, <2>3, MapList
  <2>5. \A r : r \in ToSet(all) /\ r.cidr # None <=> \E j \in DOMAIN routes(i) : r = routes(i)[j]
    <3>1. \A r : r \in ToSet(routes(i)) <=> \E j \in DOMAIN routes(i) : r = routes(i)[j]
      BY DEF ToSet
    <3> QED BY <2>1, <3>1
  <2>6. \A e : e \in ToSet(f[i]) <=> \E j \in DOMAIN routes(i) : e = f[i][j]
    BY <2>4 DEF ToSet
  <2> QED BY <2>3, <2>4, <2>5, <2>6 DEF all
<1>3. f = [i \in DOMAIN tables |-> f[i]]
  OBVIOUS
<1> HIDE DEF f
<1>4. /\ IsList(FlattenSeq(f))
      /\ \A e : e \in ToSet(FlattenSeq(f)) <=> \E i \in DOMAIN tables : e \in ToSet(f[i])
  BY <1>2, <1>3, FlatMap
<1>5. (\A i \in DOMAIN tables : tables[i] \in ToSet(tables)) /\ \A item \in ToSet(tables) : \E i \in DOMAIN tables : item = tables[i]
  BY DEF ToSet
<1> QED BY <1>1, <1>2, <1>4, <1>5
\* The rules a permission becomes: one for every range and for every group.
PermissionRule(p, type, id, kind, to, resolved) ==
  [type |-> type, from |-> id,
   match |-> <<OrAll(p.protocol), build_port_range(OrAll(p.protocol), p.from_port, p.to_port)>>,
   kind |-> kind, to |-> to, resolved |-> resolved]
IsRuleOf(e, p, type, id) ==
  \/ \E r \in ToSet(p.ranges) : e = PermissionRule(p, type, id, "cidr", r, TRUE)
  \/ \E pair \in ToSet(p.pairs) :
       e = PermissionRule(p, type, id, "security_group_ref", pair.group, OwnGroup(pair))

LEMMA PermissionRules ==
  ASSUME NEW p, IsList(p.ranges), IsList(p.pairs), NEW type, NEW id
  PROVE  /\ IsList(map_permission(p, type, id))
         /\ \A e : e \in ToSet(map_permission(p, type, id)) <=> IsRuleOf(e, p, type, id)
<1> DEFINE A == [i \in DOMAIN p.ranges |-> PermissionRule(p, type, id, "cidr", p.ranges[i], TRUE)]
           B == [i \in DOMAIN p.pairs |->
                   PermissionRule(p, type, id, "security_group_ref", p.pairs[i].group, OwnGroup(p.pairs[i]))]
<1>1. map_permission(p, type, id) = A \o B
  BY DEF map_permission, PermissionRule
<1>2. /\ A = [i \in DOMAIN p.ranges |-> A[i]]
      /\ \A i \in DOMAIN p.ranges : A[i] = PermissionRule(p, type, id, "cidr", p.ranges[i], TRUE)
      /\ B = [i \in DOMAIN p.pairs |-> B[i]]
      /\ \A i \in DOMAIN p.pairs :
           B[i] = PermissionRule(p, type, id, "security_group_ref", p.pairs[i].group, OwnGroup(p.pairs[i]))
  OBVIOUS
<1> HIDE DEF A, B
<1>3. IsList(A) /\ DOMAIN A = DOMAIN p.ranges /\ IsList(B) /\ DOMAIN B = DOMAIN p.pairs
  BY <1>2, MapList
<1>4. IsList(A \o B) /\ ToSet(A \o B) = ToSet(A) \cup ToSet(B)
  BY <1>3, ConcatLists
<1>5. ASSUME NEW e
      PROVE  e \in ToSet(A) <=> \E r \in ToSet(p.ranges) : e = PermissionRule(p, type, id, "cidr", r, TRUE)
  <2>1. ASSUME e \in ToSet(A) PROVE \E r \in ToSet(p.ranges) : e = PermissionRule(p, type, id, "cidr", r, TRUE)
    <3>1. PICK i \in DOMAIN p.ranges : e = A[i]
      BY <1>3, <2>1 DEF ToSet
    <3>2. A[i] = PermissionRule(p, type, id, "cidr", p.ranges[i], TRUE)
      BY <1>2
    <3>3. p.ranges[i] \in ToSet(p.ranges)
      BY DEF ToSet
    <3> QED BY <3>1, <3>2, <3>3, Zenon
  <2>2. ASSUME NEW r \in ToSet(p.ranges), e = PermissionRule(p, type, id, "cidr", r, TRUE) PROVE e \in ToSet(A)
    <3>1. PICK i \in DOMAIN p.ranges : r = p.ranges[i]
      BY DEF ToSet
    <3>2. A[i] = PermissionRule(p, type, id, "cidr", p.ranges[i], TRUE)
      BY <1>2
    <3>3. A[i] \in ToSet(A)
      BY <1>3 DEF ToSet
    <3> QED BY <2>2, <3>1, <3>2, <3>3, Zenon
  <2> QED BY <2>1, <2>2, Zenon
<1>6. ASSUME NEW e
      PROVE  e \in ToSet(B) <=> \E pair \in ToSet(p.pairs) : e = PermissionRule(p, type, id, "security_group_ref", pair.group, OwnGroup(pair))
  <2>1. ASSUME e \in ToSet(B) PROVE \E pair \in ToSet(p.pairs) : e = PermissionRule(p, type, id, "security_group_ref", pair.group, OwnGroup(pair))
    <3>1. PICK i \in DOMAIN p.pairs : e = B[i]
      BY <1>3, <2>1 DEF ToSet
    <3>2. B[i] = PermissionRule(p, type, id, "security_group_ref", p.pairs[i].group, OwnGroup(p.pairs[i]))
      BY <1>2
    <3>3. p.pairs[i] \in ToSet(p.pairs)
      BY DEF ToSet
    <3> QED BY <3>1, <3>2, <3>3, Zenon
  <2>2. ASSUME NEW pair \in ToSet(p.pairs), e = PermissionRule(p, type, id, "security_group_ref", pair.group, OwnGroup(pair)) PROVE e \in ToSet(B)
    <3>1. PICK i \in DOMAIN p.pairs : pair = p.pairs[i]
      BY DEF ToSet
    <3>2. B[i] = PermissionRule(p, type, id, "security_group_ref", p.pairs[i].group, OwnGroup(p.pairs[i]))
      BY <1>2
    <3>3. B[i] \in ToSet(B)
      BY <1>3 DEF ToSet
    <3> QED BY <2>2, <3>1, <3>2, <3>3, Zenon
  <2> QED BY <2>1, <2>2, Zenon
<1> QED BY <1>1, <1>4, <1>5, <1>6 DEF IsRuleOf

LEMMA PermissionsRules ==
  ASSUME NEW ps, IsList(ps), \A p \in ToSet(ps) : IsList(p.ranges) /\ IsList(p.pairs), NEW type, NEW id
  PROVE  /\ IsList(FlattenSeq([i \in DOMAIN ps |-> map_permission(ps[i], type, id)]))
         /\ \A e : e \in ToSet(FlattenSeq([i \in DOMAIN ps |-> map_permission(ps[i], type, id)]))
                   <=> \E p \in ToSet(ps) : IsRuleOf(e, p, type, id)
<1> DEFINE f == [i \in DOMAIN ps |-> map_permission(ps[i], type, id)]
<1>1. f = [i \in DOMAIN ps |-> f[i]] /\ \A i \in DOMAIN ps : f[i] = map_permission(ps[i], type, id)
  OBVIOUS
<1>2. (\A i \in DOMAIN ps : ps[i] \in ToSet(ps)) /\ \A p \in ToSet(ps) : \E i \in DOMAIN ps : p = ps[i]
  BY DEF ToSet
<1>3. ASSUME NEW i \in DOMAIN ps
      PROVE  IsList(f[i]) /\ \A e : e \in ToSet(f[i]) <=> IsRuleOf(e, ps[i], type, id)
  <2>1. IsList(ps[i].ranges) /\ IsList(ps[i].pairs)
    BY <1>2
  <2>2. /\ IsList(map_permission(ps[i], type, id))
        /\ \A e : e \in ToSet(map_permission(ps[i], type, id)) <=> IsRuleOf(e, ps[i], type, id)
    BY <2>1, PermissionRules
  <2>3. f[i] = map_permission(ps[i], type, id)
    BY <1>1
  <2> HIDE DEF f
  <2> QED BY <2>2, <2>3
<1> HIDE DEF f
<1>4. /\ IsList(FlattenSeq(f))
      /\ \A e : e \in ToSet(FlattenSeq(f)) <=> \E i \in DOMAIN ps : e \in ToSet(f[i])
  BY <1>1, <1>3, FlatMap
<1>5. ASSUME NEW e
      PROVE  (\E i \in DOMAIN ps : e \in ToSet(f[i])) <=> \E p \in ToSet(ps) : IsRuleOf(e, p, type, id)
  BY <1>2, <1>3
<1>6. IsList(FlattenSeq(f)) /\ \A e : e \in ToSet(FlattenSeq(f)) <=> \E p \in ToSet(ps) : IsRuleOf(e, p, type, id)
  BY <1>4, <1>5
<1> QED BY <1>6 DEF f

IsRuleOfGroup(e, g) ==
  \/ \E p \in ToSet(g.ingress) : IsRuleOf(e, p, "ALLOWS_INGRESS", g.id)
  \/ \E p \in ToSet(g.egress) : IsRuleOf(e, p, "ALLOWS_EGRESS", g.id)

LEMMA GroupRules ==
  ASSUME NEW g, ItemFits("SecurityGroup", g)
  PROVE  /\ IsList(map_security_group_rules(g))
         /\ \A e : e \in ToSet(map_security_group_rules(g)) <=> IsRuleOfGroup(e, g)
<1> DEFINE A == FlattenSeq([i \in DOMAIN g.ingress |-> map_permission(g.ingress[i], "ALLOWS_INGRESS", g.id)])
           B == FlattenSeq([i \in DOMAIN g.egress |-> map_permission(g.egress[i], "ALLOWS_EGRESS", g.id)])
<1>1. /\ IsList(g.ingress) /\ IsList(g.egress)
      /\ \A p \in ToSet(g.ingress) \cup ToSet(g.egress) : IsList(p.ranges) /\ IsList(p.pairs)
  BY DEF ItemFits, ItemIsLists
<1>2. IsList(A) /\ \A e : e \in ToSet(A) <=> \E p \in ToSet(g.ingress) : IsRuleOf(e, p, "ALLOWS_INGRESS", g.id)
  BY <1>1, PermissionsRules
<1>3. IsList(B) /\ \A e : e \in ToSet(B) <=> \E p \in ToSet(g.egress) : IsRuleOf(e, p, "ALLOWS_EGRESS", g.id)
  BY <1>1, PermissionsRules
<1>4. map_security_group_rules(g) = A \o B
  BY DEF map_security_group_rules
<1> HIDE DEF A, B
<1>5. IsList(A \o B) /\ ToSet(A \o B) = ToSet(A) \cup ToSet(B)
  BY <1>2, <1>3, ConcatLists
<1> QED BY <1>2, <1>3, <1>4, <1>5 DEF IsRuleOfGroup

LEMMA AllowsEdges ==
  ASSUME NEW groups, IsList(groups), \A g \in ToSet(groups) : ItemFits("SecurityGroup", g)
  PROVE  /\ IsList(allows_edges(groups))
         /\ \A e : e \in ToSet(allows_edges(groups)) <=> \E g \in ToSet(groups) : IsRuleOfGroup(e, g)
<1> DEFINE f == [i \in DOMAIN groups |-> map_security_group_rules(groups[i])]
<1>1. allows_edges(groups) = FlattenSeq(f)
  BY DEF allows_edges
<1>2. f = [i \in DOMAIN groups |-> f[i]] /\ \A i \in DOMAIN groups : f[i] = map_security_group_rules(groups[i])
  OBVIOUS
<1> HIDE DEF f
<1>3. (\A i \in DOMAIN groups : groups[i] \in ToSet(groups))
      /\ \A g \in ToSet(groups) : \E i \in DOMAIN groups : g = groups[i]
  BY DEF ToSet
<1>4. \A i \in DOMAIN groups : IsList(f[i]) /\ \A e : e \in ToSet(f[i]) <=> IsRuleOfGroup(e, groups[i])
  BY <1>2, <1>3, GroupRules
<1>5. /\ IsList(FlattenSeq(f))
      /\ \A e : e \in ToSet(FlattenSeq(f)) <=> \E i \in DOMAIN groups : e \in ToSet(f[i])
  BY <1>2, <1>4, FlatMap
<1>6. ASSUME NEW e
      PROVE  (\E i \in DOMAIN groups : e \in ToSet(f[i])) <=> \E g \in ToSet(groups) : IsRuleOfGroup(e, g)
  BY <1>3, <1>4
<1> QED BY <1>1, <1>5, <1>6

LEMMA AclRuleShape ==
  ASSUME NEW acl, NEW e \in ToSet(map_network_acl_rules(acl))
  PROVE  e.type = "HAS_RULE" /\ e.from = acl.id
<1>1. PICK k \in DOMAIN map_network_acl_rules(acl) : e = map_network_acl_rules(acl)[k]
  BY DEF ToSet
<1> QED BY <1>1 DEF map_network_acl_rules

LEMMA HasRuleEdges ==
  ASSUME NEW acls, IsList(acls), \A acl \in ToSet(acls) : IsList(acl.entries)
  PROVE  /\ IsList(has_rule_edges(acls))
         /\ \A e : e \in ToSet(has_rule_edges(acls)) <=> \E acl \in ToSet(acls) : e \in ToSet(map_network_acl_rules(acl))
<1> DEFINE f == [i \in DOMAIN acls |-> map_network_acl_rules(acls[i])]
<1>1. has_rule_edges(acls) = FlattenSeq(f)
  BY DEF has_rule_edges
<1>2. f = [i \in DOMAIN acls |-> f[i]] /\ \A i \in DOMAIN acls : f[i] = map_network_acl_rules(acls[i])
  OBVIOUS
<1> HIDE DEF f
<1>3. (\A i \in DOMAIN acls : acls[i] \in ToSet(acls)) /\ \A acl \in ToSet(acls) : \E i \in DOMAIN acls : acl = acls[i]
  BY DEF ToSet
<1>4. ASSUME NEW i \in DOMAIN acls PROVE IsList(f[i])
  <2>1. IsList(acls[i].entries)
    BY <1>3
  <2>2. f[i] = [k \in DOMAIN acls[i].entries |-> f[i][k]]
    BY <1>2 DEF map_network_acl_rules
  <2> QED BY <2>1, <2>2, MapList
<1>5. /\ IsList(FlattenSeq(f))
      /\ \A e : e \in ToSet(FlattenSeq(f)) <=> \E i \in DOMAIN acls : e \in ToSet(f[i])
  BY <1>2, <1>4, FlatMap
<1> QED BY <1>1, <1>2, <1>3, <1>5

\* The stubs that are made are those of the ids asked for.
LEMMA StubIds ==
  ASSUME NEW ids, ids \subseteq ToSet(KeyOrder), NEW Stub, \A id \in ids : Stub[id].id = id
  PROVE  IsList(InKeyOrder(ids, Stub)) /\ \A id \in ids : \E s \in ToSet(InKeyOrder(ids, Stub)) : s.id = id
<1> DEFINE f == [k \in DOMAIN KeyOrder |-> IF KeyOrder[k] \in ids THEN <<Stub[KeyOrder[k]]>> ELSE <<>>]
<1>1. InKeyOrder(ids, Stub) = FlattenSeq(f)
  BY DEF InKeyOrder
<1>2. /\ f = [k \in DOMAIN KeyOrder |-> f[k]]
      /\ \A k \in DOMAIN KeyOrder : f[k] = IF KeyOrder[k] \in ids THEN <<Stub[KeyOrder[k]]>> ELSE <<>>
  OBVIOUS
<1> HIDE DEF f
<1>3. \A x : IsList(<<x>>) /\ ToSet(<<x>>) = {x}
  BY DEF IsList, ToSet
<1>4. IsList(<<>>)
  BY DEF IsList, ToSet
<1>5. \A k \in DOMAIN KeyOrder : IsList(f[k])
  BY <1>2, <1>3, <1>4
<1>6. /\ IsList(FlattenSeq(f))
      /\ \A e : e \in ToSet(FlattenSeq(f)) <=> \E k \in DOMAIN KeyOrder : e \in ToSet(f[k])
  BY <1>2, <1>5, FlatMap, KeyOrderAssumption
<1>7. ASSUME NEW id \in ids PROVE \E s \in ToSet(FlattenSeq(f)) : s.id = id
  <2>1. PICK k \in DOMAIN KeyOrder : KeyOrder[k] = id
    BY DEF ToSet
  <2>2. Stub[id] \in ToSet(f[k])
    BY <1>2, <1>3, <2>1
  <2> QED BY <1>6, <2>1, <2>2
<1> QED BY <1>1, <1>6, <1>7

\* The nodes of a kind are those of its items.
LEMMA RecordIds ==
  ASSUME NEW kind, NEW items, IsList(items)
  PROVE  /\ IsList(Records(kind, items)) /\ Len(Records(kind, items)) = Len(items)
         /\ {Records(kind, items)[i].id : i \in DOMAIN Records(kind, items)} = {item.id : item \in ToSet(items)}
         /\ \A i \in DOMAIN Records(kind, items) : \E item \in ToSet(items) :
              Records(kind, items)[i].id = item.id /\ Records(kind, items)[i].props = NodeProps(kind, item)
<1> DEFINE f == Records(kind, items)
<1>1. f = [i \in DOMAIN items |-> [id |-> items[i].id, props |-> NodeProps(kind, items[i])]]
  BY DEF Records
<1> HIDE DEF f
<1>2. /\ f = [i \in DOMAIN items |-> f[i]]
      /\ \A i \in DOMAIN items : f[i].id = items[i].id /\ f[i].props = NodeProps(kind, items[i])
  BY <1>1
<1>3. IsList(f) /\ DOMAIN f = DOMAIN items /\ Len(f) = Len(items)
  BY <1>2, MapList
<1>4. {f[i].id : i \in DOMAIN f} = {item.id : item \in ToSet(items)}
  BY <1>2, <1>3 DEF ToSet
<1>5. \A i \in DOMAIN f : \E item \in ToSet(items) : f[i].id = item.id /\ f[i].props = NodeProps(kind, item)
  BY <1>2, <1>3 DEF ToSet
<1> QED BY <1>3, <1>4, <1>5 DEF f
-----------------------------------------------------------------------------
(* The batch *)

LEMMA RawLists ==
  ASSUME NEW raw, IsRaw(raw)
  PROVE  /\ IsList(Enis(raw)) /\ IsList(Groups(raw)) /\ IsList(Acls(raw)) /\ IsList(Tables(raw)) /\ IsList(Peerings(raw))
         /\ \A eni \in ToSet(Enis(raw)) :
              IsList(eni.groups) /\ {eni.vpc, eni.subnet} \subseteq ToSet(KeyOrder)
         /\ \A g \in ToSet(Groups(raw)) : ItemFits("SecurityGroup", g) /\ {g.id, g.vpc} \subseteq ToSet(KeyOrder)
         /\ \A acl \in ToSet(Acls(raw)) :
              /\ IsList(acl.associations) /\ IsList(acl.entries) /\ {acl.id, acl.vpc} \subseteq ToSet(KeyOrder)
              /\ ToSet(acl.associations) \subseteq ToSet(KeyOrder) \cup {None}
         /\ \A table \in ToSet(Tables(raw)) :
              /\ IsList(table.associations) /\ IsList(table.routes) /\ table.vpc \in ToSet(KeyOrder)
              /\ \A a \in ToSet(table.associations) : a.subnet \in ToSet(KeyOrder) \cup {None}
         /\ \A p \in ToSet(Peerings(raw)) : \A side \in ToSet(Sides(p)) : side.vpc \in ToSet(KeyOrder) \cup {None}
<1>1. DOMAIN Required = {"NetworkInterface", "SecurityGroup", "NetworkAcl", "RouteTable"}
      /\ Required["NetworkInterface"] = {"id", "vpc", "subnet", "private_ip"}
      /\ Required["SecurityGroup"] = {"id", "vpc", "name"}
      /\ Required["NetworkAcl"] = {"id", "vpc", "is_default"}
      /\ Required["RouteTable"] = {"id", "vpc"}
  BY DEF Required
<1>2. ASSUME NEW kind \in Kinds
      PROVE  IsList(Mapped(raw)[kind]) /\ \A item \in ToSet(Mapped(raw)[kind]) :
               ItemFits(kind, item) /\ (kind \in DOMAIN Required => Maps(kind, item))
  BY MappedItems
<1>3. /\ IsList(Enis(raw)) /\ IsList(Groups(raw)) /\ IsList(Acls(raw)) /\ IsList(Tables(raw)) /\ IsList(Peerings(raw))
      /\ \A eni \in ToSet(Enis(raw)) : ItemFits("NetworkInterface", eni) /\ Maps("NetworkInterface", eni)
      /\ \A g \in ToSet(Groups(raw)) : ItemFits("SecurityGroup", g) /\ Maps("SecurityGroup", g)
      /\ \A acl \in ToSet(Acls(raw)) : ItemFits("NetworkAcl", acl) /\ Maps("NetworkAcl", acl)
      /\ \A table \in ToSet(Tables(raw)) : ItemFits("RouteTable", table) /\ Maps("RouteTable", table)
      /\ \A p \in ToSet(Peerings(raw)) : ItemFits("VpcPeeringConnection", p)
  <2>1. "NetworkInterface" \in Kinds /\ "SecurityGroup" \in Kinds /\ "NetworkAcl" \in Kinds
        /\ "RouteTable" \in Kinds /\ "VpcPeeringConnection" \in Kinds
    BY DEF Kinds
  <2> QED BY <1>1, <1>2, <2>1 DEF Enis, Groups, Acls, Tables, Peerings
<1>4. \A eni \in ToSet(Enis(raw)) : IsList(eni.groups) /\ {eni.vpc, eni.subnet} \subseteq ToSet(KeyOrder)
  BY <1>1, <1>3 DEF ItemFits, ItemIsLists, KeysNamed, Maps
<1>5. \A g \in ToSet(Groups(raw)) : {g.id, g.vpc} \subseteq ToSet(KeyOrder)
  BY <1>1, <1>3 DEF ItemFits, KeysNamed, Maps
<1>6. \A acl \in ToSet(Acls(raw)) :
        /\ IsList(acl.associations) /\ IsList(acl.entries) /\ {acl.id, acl.vpc} \subseteq ToSet(KeyOrder)
        /\ ToSet(acl.associations) \subseteq ToSet(KeyOrder) \cup {None}
  BY <1>1, <1>3 DEF ItemFits, ItemIsLists, KeysNamed, Maps
<1>7. \A table \in ToSet(Tables(raw)) :
        /\ IsList(table.associations) /\ IsList(table.routes) /\ table.vpc \in ToSet(KeyOrder)
        /\ \A a \in ToSet(table.associations) : a.subnet \in ToSet(KeyOrder) \cup {None}
  BY <1>1, <1>3 DEF ItemFits, ItemIsLists, KeysNamed, Maps
<1>8. \A p \in ToSet(Peerings(raw)) : \A side \in ToSet(Sides(p)) : side.vpc \in ToSet(KeyOrder) \cup {None}
  BY <1>3 DEF ItemFits, KeysNamed
<1> QED BY <1>3, <1>4, <1>5, <1>6, <1>7, <1>8

LEMMA BatchEdges ==
  ASSUME NEW raw, IsRaw(raw)
  PROVE  /\ IsList(build_graph_batch(raw).edges)
         /\ ToSet(build_graph_batch(raw).edges) =
              UNION {ToSet(has_sg_edges(Enis(raw))), ToSet(in_subnet_edges(Enis(raw))),
                     ToSet(protected_by_edges(Acls(raw))), ToSet(uses_route_table_edges(Tables(raw))),
                     ToSet(routes_to_edges(Tables(raw), Peerings(raw))), ToSet(allows_edges(Groups(raw))),
                     ToSet(has_rule_edges(Acls(raw)))}
<1> DEFINE e1 == has_sg_edges(Enis(raw))
           e2 == in_subnet_edges(Enis(raw))
           e3 == protected_by_edges(Acls(raw))
           e4 == uses_route_table_edges(Tables(raw))
           e5 == routes_to_edges(Tables(raw), Peerings(raw))
           e6 == allows_edges(Groups(raw))
           e7 == has_rule_edges(Acls(raw))
<1>1. /\ IsList(e1) /\ IsList(e2) /\ IsList(e3) /\ IsList(e4) /\ IsList(e5) /\ IsList(e6) /\ IsList(e7)
  BY RawLists, HasSgEdges, InSubnetEdges, ProtectedByEdges, UsesRouteTableEdges, RoutesToEdges, AllowsEdges, HasRuleEdges
<1>2. build_graph_batch(raw).edges = e1 \o e2 \o e3 \o e4 \o e5 \o e6 \o e7
  BY DEF build_graph_batch, Enis, Groups, Acls, Tables, Peerings
<1> HIDE DEF e1, e2, e3, e4, e5, e6, e7
<1>3. IsList(e1 \o e2) /\ ToSet(e1 \o e2) = ToSet(e1) \cup ToSet(e2)
  BY <1>1, ConcatLists
<1>4. IsList(e1 \o e2 \o e3) /\ ToSet(e1 \o e2 \o e3) = ToSet(e1 \o e2) \cup ToSet(e3)
  BY <1>1, <1>3, ConcatLists
<1>5. IsList(e1 \o e2 \o e3 \o e4) /\ ToSet(e1 \o e2 \o e3 \o e4) = ToSet(e1 \o e2 \o e3) \cup ToSet(e4)
  BY <1>1, <1>4, ConcatLists
<1>6. IsList(e1 \o e2 \o e3 \o e4 \o e5)
      /\ ToSet(e1 \o e2 \o e3 \o e4 \o e5) = ToSet(e1 \o e2 \o e3 \o e4) \cup ToSet(e5)
  BY <1>1, <1>5, ConcatLists
<1>7. IsList(e1 \o e2 \o e3 \o e4 \o e5 \o e6)
      /\ ToSet(e1 \o e2 \o e3 \o e4 \o e5 \o e6) = ToSet(e1 \o e2 \o e3 \o e4 \o e5) \cup ToSet(e6)
  BY <1>1, <1>6, ConcatLists
<1>8. IsList(e1 \o e2 \o e3 \o e4 \o e5 \o e6 \o e7)
      /\ ToSet(e1 \o e2 \o e3 \o e4 \o e5 \o e6 \o e7) = ToSet(e1 \o e2 \o e3 \o e4 \o e5 \o e6) \cup ToSet(e7)
  BY <1>1, <1>7, ConcatLists
<1>9. ToSet(e1 \o e2 \o e3 \o e4 \o e5 \o e6 \o e7)
        = UNION {ToSet(e1), ToSet(e2), ToSet(e3), ToSet(e4), ToSet(e5), ToSet(e6), ToSet(e7)}
  BY <1>3, <1>4, <1>5, <1>6, <1>7, <1>8
<1> QED BY <1>2, <1>8, <1>9 DEF e1, e2, e3, e4, e5, e6, e7

\* Where an edge of the batch comes from.
FromEni(e, raw) ==
  \E eni \in ToSet(Enis(raw)) : \/ \E g \in ToSet(eni.groups) : e = Edge("HAS_SG", eni.id, g)
                                \/ e = Edge("IN_SUBNET", eni.id, eni.subnet)
FromAcl(e, raw) ==
  \E acl \in ToSet(Acls(raw)) : \/ \E s \in ToSet(acl.associations) \ {None} : e = Edge("PROTECTED_BY", s, acl.id)
                                \/ e \in ToSet(map_network_acl_rules(acl))
FromTable(e, raw) ==
  \E table \in ToSet(Tables(raw)) :
     \/ \E a \in ToSet(table.associations) : a.subnet # None /\ e = Edge("USES_ROUTE_TABLE", a.subnet, table.id)
     \/ \E route \in ToSet(table.routes) : route.cidr # None /\ e = RouteEdge(table, route, Peerings(raw))
FromGroup(e, raw) == \E g \in ToSet(Groups(raw)) : IsRuleOfGroup(e, g)

LEMMA EdgeOrigins ==
  ASSUME NEW raw, IsRaw(raw), NEW e
  PROVE  e \in ToSet(build_graph_batch(raw).edges)
         <=> FromEni(e, raw) \/ FromAcl(e, raw) \/ FromTable(e, raw) \/ FromGroup(e, raw)
<1>1. e \in ToSet(build_graph_batch(raw).edges)
      <=>
      \/ e \in ToSet(has_sg_edges(Enis(raw))) \/ e \in ToSet(in_subnet_edges(Enis(raw)))
      \/ e \in ToSet(protected_by_edges(Acls(raw))) \/ e \in ToSet(uses_route_table_edges(Tables(raw)))
      \/ e \in ToSet(routes_to_edges(Tables(raw), Peerings(raw))) \/ e \in ToSet(allows_edges(Groups(raw)))
      \/ e \in ToSet(has_rule_edges(Acls(raw)))
  BY BatchEdges
<1>2. e \in ToSet(has_sg_edges(Enis(raw))) \/ e \in ToSet(in_subnet_edges(Enis(raw))) <=> FromEni(e, raw)
  <2>1. /\ IsList(Enis(raw)) /\ \A eni \in ToSet(Enis(raw)) : IsList(eni.groups)
    BY RawLists
  <2>2. e \in ToSet(has_sg_edges(Enis(raw))) <=>
          \E eni \in ToSet(Enis(raw)) : \E g \in ToSet(eni.groups) : e = Edge("HAS_SG", eni.id, g)
    BY <2>1, HasSgEdges
  <2>3. e \in ToSet(in_subnet_edges(Enis(raw))) <=>
          \E eni \in ToSet(Enis(raw)) : e = Edge("IN_SUBNET", eni.id, eni.subnet)
    BY <2>1, InSubnetEdges
  <2> QED BY <2>2, <2>3 DEF FromEni
<1>3. e \in ToSet(protected_by_edges(Acls(raw))) \/ e \in ToSet(has_rule_edges(Acls(raw))) <=> FromAcl(e, raw)
  BY RawLists, ProtectedByEdges, HasRuleEdges DEF FromAcl
<1>4. e \in ToSet(uses_route_table_edges(Tables(raw))) \/ e \in ToSet(routes_to_edges(Tables(raw), Peerings(raw)))
      <=> FromTable(e, raw)
  BY RawLists, UsesRouteTableEdges, RoutesToEdges DEF FromTable
<1>5. e \in ToSet(allows_edges(Groups(raw))) <=> FromGroup(e, raw)
  BY RawLists, AllowsEdges DEF FromGroup
<1> QED BY <1>1, <1>2, <1>3, <1>4, <1>5

\* The types of the edges of one origin.
LEMMA OriginTypes ==
  ASSUME NEW e, NEW raw
  PROVE  /\ FromEni(e, raw) => e.type \in {"HAS_SG", "IN_SUBNET"}
         /\ FromAcl(e, raw) => e.type \in {"PROTECTED_BY", "HAS_RULE"}
         /\ FromTable(e, raw) => e.type \in {"USES_ROUTE_TABLE", "ROUTES_TO"}
         /\ FromGroup(e, raw) => e.type \in {"ALLOWS_INGRESS", "ALLOWS_EGRESS"}
<1>1. \A type, from, to : Edge(type, from, to).type = type
  BY DEF Edge
<1>2. FromEni(e, raw) => e.type \in {"HAS_SG", "IN_SUBNET"}
  BY <1>1 DEF FromEni
<1>3. FromAcl(e, raw) => e.type \in {"PROTECTED_BY", "HAS_RULE"}
  BY <1>1, AclRuleShape DEF FromAcl
<1>4. FromTable(e, raw) => e.type \in {"USES_ROUTE_TABLE", "ROUTES_TO"}
  BY <1>1 DEF FromTable, RouteEdge
<1>5. FromGroup(e, raw) => e.type \in {"ALLOWS_INGRESS", "ALLOWS_EGRESS"}
  BY DEF FromGroup, IsRuleOfGroup, IsRuleOf, PermissionRule
<1> QED BY <1>2, <1>3, <1>4, <1>5
\* Stubs of VPCs: of every one that an item is in, and of the account's own
\* ends of peerings.
LEMMA VpcStubs ==
  ASSUME NEW raw, IsRaw(raw)
  PROVE  /\ IsList(collect_vpc_stubs(Mapped(raw)))
         /\ \A table \in ToSet(Tables(raw)) : \E s \in ToSet(collect_vpc_stubs(Mapped(raw))) : s.id = table.vpc
         /\ \A p \in ToSet(Peerings(raw)) : \A side \in ToSet(Sides(p)) : OwnSide(side) =>
              \E s \in ToSet(collect_vpc_stubs(Mapped(raw))) : s.id = side.vpc
<1> DEFINE mapped == Mapped(raw)
           named == UNION {{mapped[kind][i].vpc : i \in DOMAIN mapped[kind]} : kind \in DOMAIN Required}
           owned == PeeringVpcs(Peerings(raw))
           ids == named \cup owned
           Stub == [id \in ids |-> [id |-> id, props |-> "stub"]]
<1>1. collect_vpc_stubs(mapped) = InKeyOrder(ids, Stub)
  BY DEF collect_vpc_stubs, Peerings
<1>2. named \subseteq ToSet(KeyOrder)
  <2> SUFFICES ASSUME NEW kind \in DOMAIN Required, NEW i \in DOMAIN mapped[kind]
               PROVE  mapped[kind][i].vpc \in ToSet(KeyOrder)
    OBVIOUS
  <2>1. mapped[kind][i] \in ToSet(mapped[kind])
    BY DEF ToSet
  <2>2. kind = "NetworkInterface" \/ kind = "SecurityGroup" \/ kind = "NetworkAcl" \/ kind = "RouteTable"
    BY DEF Required
  <2> HIDE DEF mapped
  <2>3. CASE kind = "NetworkInterface"
    BY <2>1, <2>3, RawLists DEF Enis, mapped
  <2>4. CASE kind = "SecurityGroup"
    BY <2>1, <2>4, RawLists DEF Groups, mapped
  <2>5. CASE kind = "NetworkAcl"
    BY <2>1, <2>5, RawLists DEF Acls, mapped
  <2>6. CASE kind = "RouteTable"
    BY <2>1, <2>6, RawLists DEF Tables, mapped
  <2> QED BY <2>2, <2>3, <2>4, <2>5, <2>6
<1>3. \A vpc : vpc \in owned <=>
         \E p \in ToSet(Peerings(raw)) : \E side \in ToSet(Sides(p)) : OwnSide(side) /\ vpc = side.vpc
  BY DEF PeeringVpcs, ToSet
<1>4. owned \subseteq ToSet(KeyOrder)
  BY <1>3, RawLists DEF OwnSide
<1>5. \A table \in ToSet(Tables(raw)) : table.vpc \in named
  <2> SUFFICES ASSUME NEW table \in ToSet(Tables(raw)) PROVE table.vpc \in named
    OBVIOUS
  <2>1. PICK i \in DOMAIN mapped["RouteTable"] : table = mapped["RouteTable"][i]
    BY DEF Tables, ToSet
  <2>2. "RouteTable" \in DOMAIN Required
    BY DEF Required
  <2> HIDE DEF mapped
  <2> QED BY <2>1, <2>2
<1>6. \A id \in ids : Stub[id].id = id
  OBVIOUS
<1> HIDE DEF named, owned, Stub, mapped
<1>7. IsList(InKeyOrder(ids, Stub)) /\ \A id \in ids : \E s \in ToSet(InKeyOrder(ids, Stub)) : s.id = id
  BY <1>2, <1>4, <1>6, StubIds
<1> QED BY <1>1, <1>3, <1>5, <1>7 DEF mapped

\* Who names which subnets: the local Of of SubnetSightings.
Sightings(items) ==
  FlattenSeq([i \in DOMAIN items |->
    LET subnets == Present(items[i].subnets) IN
    [j \in DOMAIN subnets |-> <<subnets[j], items[i].vpc>>]])

LEMMA SightingsAre ==
  ASSUME NEW items, IsList(items), \A item \in ToSet(items) : IsList(item.subnets)
  PROVE  /\ IsList(Sightings(items))
         /\ \A id : (\E s \in ToSet(Sightings(items)) : s[1] = id)
                    <=> \E item \in ToSet(items) : id \in ToSet(item.subnets) \ {None}
<1> DEFINE subnets(i) == Present(items[i].subnets)
           f == [i \in DOMAIN items |-> [j \in DOMAIN subnets(i) |-> <<subnets(i)[j], items[i].vpc>>]]
<1>1. Sightings(items) = FlattenSeq(f)
  BY DEF Sightings
<1>2. (\A i \in DOMAIN items : items[i] \in ToSet(items))
      /\ \A item \in ToSet(items) : \E i \in DOMAIN items : item = items[i]
  BY DEF ToSet
<1>3. ASSUME NEW i \in DOMAIN items
      PROVE  /\ IsList(f[i])
             /\ \A id : (\E s \in ToSet(f[i]) : s[1] = id) <=> id \in ToSet(items[i].subnets) \ {None}
  <2>1. IsList(subnets(i)) /\ ToSet(subnets(i)) = ToSet(items[i].subnets) \ {None}
    BY <1>2, PresentOptions
  <2>2. f[i] = [j \in DOMAIN subnets(i) |-> <<subnets(i)[j], items[i].vpc>>]
    OBVIOUS
  <2> HIDE DEF f, subnets
  <2>3. f[i] = [j \in DOMAIN subnets(i) |-> f[i][j]] /\ \A j \in DOMAIN subnets(i) : f[i][j][1] = subnets(i)[j]
    BY <2>2
  <2>4. IsList(f[i]) /\ DOMAIN f[i] = DOMAIN subnets(i)
    BY <2>1, <2>3, MapList
  <2>5. \A id : (\E s \in ToSet(f[i]) : s[1] = id) <=> id \in ToSet(subnets(i))
    BY <2>3, <2>4 DEF ToSet
  <2> QED BY <2>1, <2>4, <2>5
<1>4. f = [i \in DOMAIN items |-> f[i]]
  OBVIOUS
<1> HIDE DEF f
<1>5. /\ IsList(FlattenSeq(f))
      /\ \A e : e \in ToSet(FlattenSeq(f)) <=> \E i \in DOMAIN items : e \in ToSet(f[i])
  BY <1>3, <1>4, FlatMap
<1>6. ASSUME NEW id
      PROVE  (\E s \in ToSet(FlattenSeq(f)) : s[1] = id)
             <=> \E item \in ToSet(items) : id \in ToSet(item.subnets) \ {None}
  BY <1>2, <1>3, <1>5
<1> QED BY <1>1, <1>5, <1>6

\* Stubs of subnets: of every one that an interface is in or that an ACL or a
\* route table is associated with.
LEMMA SubnetStubs ==
  ASSUME NEW raw, IsRaw(raw)
  PROVE  /\ IsList(collect_subnet_stubs(Mapped(raw)))
         /\ \A eni \in ToSet(Enis(raw)) : \E s \in ToSet(collect_subnet_stubs(Mapped(raw))) : s.id = eni.subnet
         /\ \A acl \in ToSet(Acls(raw)) : \A subnet \in ToSet(acl.associations) \ {None} :
              \E s \in ToSet(collect_subnet_stubs(Mapped(raw))) : s.id = subnet
         /\ \A table \in ToSet(Tables(raw)) : \A a \in ToSet(table.associations) : a.subnet # None =>
              \E s \in ToSet(collect_subnet_stubs(Mapped(raw))) : s.id = a.subnet
<1> DEFINE enis == Enis(raw)
           acls == Acls(raw)
           tables == Tables(raw)
           first == [i \in DOMAIN enis |-> <<enis[i].subnet, enis[i].vpc>>]
           ofAcls == [i \in DOMAIN acls |-> [vpc |-> acls[i].vpc, subnets |-> acls[i].associations]]
           subnets(i) == [j \in DOMAIN tables[i].associations |-> tables[i].associations[j].subnet]
           named == [i \in DOMAIN tables |-> [vpc |-> tables[i].vpc, subnets |-> subnets(i)]]
           seen == SubnetSightings(Mapped(raw))
           ids == {seen[i][1] : i \in DOMAIN seen}
           First(id) == Only(seen, {s \in ToSet(seen) : s[1] = id})[1]
           Stub == [id \in ids |-> [id |-> id, props |-> First(id)[2]]]
<1>1. collect_subnet_stubs(Mapped(raw)) = InKeyOrder(ids, Stub)
  BY DEF collect_subnet_stubs
<1>2. seen = first \o Sightings(ofAcls) \o Sightings(named)
  BY DEF SubnetSightings, Sightings, Enis, Acls, Tables
<1>3. IsList(first) /\ \A id : (\E s \in ToSet(first) : s[1] = id) <=> \E eni \in ToSet(enis) : id = eni.subnet
  <2>1. first = [i \in DOMAIN enis |-> first[i]] /\ \A i \in DOMAIN enis : first[i][1] = enis[i].subnet
    OBVIOUS
  <2> HIDE DEF first, enis
  <2>2. IsList(first) /\ DOMAIN first = DOMAIN enis
    BY <2>1, MapList, RawLists DEF enis
  <2>3. \A id : (\E s \in ToSet(first) : s[1] = id) <=> \E eni \in ToSet(enis) : id = eni.subnet
    BY <2>1, <2>2 DEF ToSet
  <2> QED BY <2>2, <2>3
<1>4. /\ IsList(Sightings(ofAcls))
      /\ \A id : (\E s \in ToSet(Sightings(ofAcls)) : s[1] = id)
                 <=> \E acl \in ToSet(acls) : id \in ToSet(acl.associations) \ {None}
  <2>1. ofAcls = [i \in DOMAIN acls |-> ofAcls[i]] /\ \A i \in DOMAIN acls : ofAcls[i].subnets = acls[i].associations
    OBVIOUS
  <2> HIDE DEF ofAcls, acls
  <2>2. IsList(ofAcls) /\ DOMAIN ofAcls = DOMAIN acls
    BY <2>1, MapList, RawLists DEF acls
  <2>3. \A acl \in ToSet(acls) : IsList(acl.associations)
    BY RawLists DEF acls
  <2>4. /\ \A item \in ToSet(ofAcls) : \E acl \in ToSet(acls) : item.subnets = acl.associations
        /\ \A acl \in ToSet(acls) : \E item \in ToSet(ofAcls) : item.subnets = acl.associations
    BY <2>1, <2>2 DEF ToSet
  <2>5. /\ IsList(Sightings(ofAcls))
        /\ \A id : (\E s \in ToSet(Sightings(ofAcls)) : s[1] = id)
                   <=> \E item \in ToSet(ofAcls) : id \in ToSet(item.subnets) \ {None}
    <3>1. \A item \in ToSet(ofAcls) : IsList(item.subnets)
      BY <2>3, <2>4
    <3> QED BY <2>2, <3>1, SightingsAre
  <2> QED BY <2>4, <2>5
<1>5. /\ IsList(Sightings(named))
      /\ \A id : (\E s \in ToSet(Sightings(named)) : s[1] = id)
                 <=> \E table \in ToSet(tables) : \E a \in ToSet(table.associations) : id = a.subnet /\ id # None
  <2>1. named = [i \in DOMAIN tables |-> named[i]] /\ \A i \in DOMAIN tables : named[i].subnets = subnets(i)
    OBVIOUS
  <2> HIDE DEF named, tables
  <2>2. IsList(named) /\ DOMAIN named = DOMAIN tables
    BY <2>1, MapList, RawLists DEF tables
  <2>3. ASSUME NEW i \in DOMAIN tables
        PROVE  /\ IsList(subnets(i))
               /\ \A id : id \in ToSet(subnets(i)) <=> \E a \in ToSet(tables[i].associations) : id = a.subnet
    <3> DEFINE all == tables[i].associations
    <3>1. IsList(all)
      <4>1. tables[i] \in ToSet(tables)
        BY DEF ToSet
      <4> QED BY <4>1, RawLists DEF tables
    <3>2. subnets(i) = [j \in DOMAIN all |-> subnets(i)[j]] /\ \A j \in DOMAIN all : subnets(i)[j] = all[j].subnet
      OBVIOUS
    <3> HIDE DEF subnets, all
    <3>3. IsList(subnets(i)) /\ DOMAIN subnets(i) = DOMAIN all
      BY <3>1, <3>2, MapList
    <3>4. \A id : id \in ToSet(subnets(i)) <=> \E a \in ToSet(all) : id = a.subnet
      BY <3>2, <3>3 DEF ToSet
    <3> QED BY <3>3, <3>4 DEF all
  <2> HIDE DEF subnets
  <2>4. /\ \A item \in ToSet(named) : \E i \in DOMAIN tables : item.subnets = subnets(i) /\ tables[i] \in ToSet(tables)
        /\ \A table \in ToSet(tables) : \E i \in DOMAIN tables : table = tables[i]
        /\ \A i \in DOMAIN tables : \E item \in ToSet(named) : item.subnets = subnets(i)
    BY <2>1, <2>2 DEF ToSet
  <2>5. /\ IsList(Sightings(named))
        /\ \A id : (\E s \in ToSet(Sightings(named)) : s[1] = id)
                   <=> \E item \in ToSet(named) : id \in ToSet(item.subnets) \ {None}
    <3>1. \A item \in ToSet(named) : IsList(item.subnets)
      BY <2>3, <2>4
    <3> QED BY <2>2, <3>1, SightingsAre
  <2>6. ASSUME NEW id
        PROVE  (\E item \in ToSet(named) : id \in ToSet(item.subnets) \ {None})
               <=> \E table \in ToSet(tables) : \E a \in ToSet(table.associations) : id = a.subnet /\ id # None
    BY <2>3, <2>4
  <2> QED BY <2>5, <2>6
<1> HIDE DEF first, ofAcls, named, enis, acls, tables, seen
<1>6. IsList(seen) /\ ToSet(seen) = ToSet(first) \cup ToSet(Sightings(ofAcls)) \cup ToSet(Sightings(named))
  <2>1. /\ IsList(first \o Sightings(ofAcls))
        /\ ToSet(first \o Sightings(ofAcls)) = ToSet(first) \cup ToSet(Sightings(ofAcls))
    BY <1>3, <1>4, ConcatLists
  <2>2. /\ IsList(first \o Sightings(ofAcls) \o Sightings(named))
        /\ ToSet(first \o Sightings(ofAcls) \o Sightings(named)) =
             ToSet(first \o Sightings(ofAcls)) \cup ToSet(Sightings(named))
    BY <1>5, <2>1, ConcatLists
  <2> QED BY <1>2, <2>1, <2>2
<1>7. \A id : id \in ids <=> \E s \in ToSet(seen) : s[1] = id
  BY DEF ToSet
<1>8. \A id \in ids : Stub[id].id = id
  OBVIOUS
<1> HIDE DEF ids, Stub
<1>9. \A id : id \in ids <=>
         \/ \E eni \in ToSet(enis) : id = eni.subnet
         \/ \E acl \in ToSet(acls) : id \in ToSet(acl.associations) \ {None}
         \/ \E table \in ToSet(tables) : \E a \in ToSet(table.associations) : id = a.subnet /\ id # None
  <2> SUFFICES ASSUME NEW id
               PROVE  id \in ids <=>
                        \/ \E eni \in ToSet(enis) : id = eni.subnet
                        \/ \E acl \in ToSet(acls) : id \in ToSet(acl.associations) \ {None}
                        \/ \E table \in ToSet(tables) : \E a \in ToSet(table.associations) : id = a.subnet /\ id # None
    OBVIOUS
  <2>1. id \in ids <=> \/ \E s \in ToSet(first) : s[1] = id
                       \/ \E s \in ToSet(Sightings(ofAcls)) : s[1] = id
                       \/ \E s \in ToSet(Sightings(named)) : s[1] = id
    BY <1>6, <1>7
  <2> QED BY <1>3, <1>4, <1>5, <2>1
<1>10. ids \subseteq ToSet(KeyOrder)
  BY <1>9, RawLists DEF enis, acls, tables
<1>11. IsList(InKeyOrder(ids, Stub)) /\ \A id \in ids : \E s \in ToSet(InKeyOrder(ids, Stub)) : s.id = id
  BY <1>8, <1>10, StubIds
<1> QED BY <1>1, <1>9, <1>11 DEF enis, acls, tables
\* A rule of the batch is one of its group's permissions, and with its own
\* group it is resolved.
LEMMA RuleShape ==
  ASSUME NEW g, ItemFits("SecurityGroup", g), NEW e, IsRuleOfGroup(e, g)
  PROVE  /\ IsSgRule(e) /\ e.from = g.id /\ e.kind \in {"cidr", "security_group_ref"} /\ e.resolved \in BOOLEAN
         /\ e.kind = "cidr" => e.resolved
         /\ e.kind = "security_group_ref" =>
              /\ e.to = g.id => e.resolved
              /\ \E p \in ToSet(g.ingress) \cup ToSet(g.egress) : \E pair \in ToSet(p.pairs) :
                   e.to = pair.group /\ (e.resolved <=> OwnGroup(pair))
<1>1. PICK p \in ToSet(g.ingress) \cup ToSet(g.egress), type \in {"ALLOWS_INGRESS", "ALLOWS_EGRESS"} :
        IsRuleOf(e, p, type, g.id)
  BY DEF IsRuleOfGroup
<1>2. \A pair \in ToSet(p.pairs) : pair.group = g.id => OwnGroup(pair)
  BY <1>1 DEF ItemFits, ItemIsLists
<1>3. CASE \E r \in ToSet(p.ranges) : e = PermissionRule(p, type, g.id, "cidr", r, TRUE)
  BY <1>1, <1>3 DEF PermissionRule, IsSgRule
<1>4. CASE \E pair \in ToSet(p.pairs) :
             e = PermissionRule(p, type, g.id, "security_group_ref", pair.group, OwnGroup(pair))
  <2>1. PICK pair \in ToSet(p.pairs) :
          e = PermissionRule(p, type, g.id, "security_group_ref", pair.group, OwnGroup(pair))
    BY <1>4
  <2>2. /\ e.type = type /\ e.from = g.id /\ e.kind = "security_group_ref" /\ e.to = pair.group
        /\ e.resolved = OwnGroup(pair)
    BY <2>1 DEF PermissionRule
  <2>3. OwnGroup(pair) \in BOOLEAN
    BY DEF OwnGroup
  <2>4. e.kind # "cidr" /\ e.kind \in {"cidr", "security_group_ref"} /\ IsSgRule(e)
    BY <1>1, <2>2 DEF IsSgRule
  <2> QED BY <1>1, <1>2, <2>2, <2>3, <2>4
<1> QED BY <1>1, <1>3, <1>4 DEF IsRuleOf

\* Nothing is added to the permissions of the groups that have a node, and
\* nothing is lost of them: the rules of the batch are, for every range and
\* for every group that a permission names, one (sg.rs).
THEOREM RulesAreThePermissions ==
  ASSUME NEW raw, IsRaw(raw), NEW e
  PROVE  e \in ToSet(build_graph_batch(raw).edges) /\ IsSgRule(e)
         <=> \E g \in ToSet(Groups(raw)) : IsRuleOfGroup(e, g)
<1>1. ASSUME e \in ToSet(build_graph_batch(raw).edges), IsSgRule(e)
      PROVE  \E g \in ToSet(Groups(raw)) : IsRuleOfGroup(e, g)
  <2>1. FromEni(e, raw) \/ FromAcl(e, raw) \/ FromTable(e, raw) \/ FromGroup(e, raw)
    BY <1>1, EdgeOrigins
  <2>2. FromGroup(e, raw)
    BY <1>1, <2>1, OriginTypes DEF IsSgRule
  <2> QED BY <2>2 DEF FromGroup
<1>2. ASSUME NEW g \in ToSet(Groups(raw)), IsRuleOfGroup(e, g)
      PROVE  e \in ToSet(build_graph_batch(raw).edges) /\ IsSgRule(e)
  <2>1. e \in ToSet(allows_edges(Groups(raw)))
    BY <1>2, RawLists, AllowsEdges
  <2>2. e \in ToSet(build_graph_batch(raw).edges)
    BY <2>1, BatchEdges
  <2>3. IsSgRule(e)
    BY <1>2, RawLists, RuleShape
  <2> QED BY <2>2, <2>3
<1> QED BY <1>1, <1>2

LEMMA BatchNodes ==
  ASSUME NEW raw
  PROVE  /\ build_graph_batch(raw).nodes["ENI"] = Records("NetworkInterface", Enis(raw))
         /\ build_graph_batch(raw).nodes["SecurityGroup"] = Records("SecurityGroup", Groups(raw))
         /\ build_graph_batch(raw).nodes["NetworkACL"] = Records("NetworkAcl", Acls(raw))
         /\ build_graph_batch(raw).nodes["Subnet"] = collect_subnet_stubs(Mapped(raw))
         /\ build_graph_batch(raw).nodes["VPC"] = collect_vpc_stubs(Mapped(raw))
         /\ build_graph_batch(raw).nodes["RouteTable"] = Records("RouteTable", Tables(raw))
BY DEF build_graph_batch, Enis, Groups, Acls, Tables

\* What is mapped is a batch that the writer can write: GraphWriter's
\* assumption about batches holds of every one that EC2's answers become.
THEOREM MappedIsWellFormed ==
  ASSUME NEW raw, IsRaw(raw)
  PROVE  WellFormed(build_graph_batch(raw))
<1> DEFINE batch == build_graph_batch(raw)
<1>1. \A label \in ToSet(Labels) : IsList(batch.nodes[label])
  <2>1. /\ IsList(Records("NetworkInterface", Enis(raw))) /\ IsList(Records("SecurityGroup", Groups(raw)))
        /\ IsList(Records("NetworkAcl", Acls(raw))) /\ IsList(Records("RouteTable", Tables(raw)))
    BY RawLists, RecordIds
  <2>2. IsList(collect_subnet_stubs(Mapped(raw))) /\ IsList(collect_vpc_stubs(Mapped(raw)))
    BY SubnetStubs, VpcStubs
  <2> QED BY <2>1, <2>2, BatchNodes, LabelSet
<1>2. IsList(batch.edges)
  BY BatchEdges
<1>3. ASSUME NEW e \in ToSet(batch.edges), IsSgRule(e)
      PROVE  /\ e.from \in ToSet(KeyOrder) /\ e.kind \in {"cidr", "security_group_ref"} /\ e.resolved \in BOOLEAN
             /\ e.kind = "cidr" \/ e.to = e.from => e.resolved
  <2>1. PICK g \in ToSet(Groups(raw)) : IsRuleOfGroup(e, g)
    BY <1>3, RulesAreThePermissions
  <2>2. ItemFits("SecurityGroup", g) /\ g.id \in ToSet(KeyOrder)
    BY RawLists
  <2>3. /\ e.from = g.id /\ e.kind \in {"cidr", "security_group_ref"} /\ e.resolved \in BOOLEAN
        /\ e.kind = "cidr" => e.resolved
        /\ e.kind = "security_group_ref" /\ e.to = g.id => e.resolved
    BY <2>1, <2>2, RuleShape
  <2> QED BY <2>2, <2>3
<1> QED BY <1>1, <1>2, <1>3 DEF WellFormed

\* The mark and the target of a route agree branch by branch: a local route has
\* the table's VPC, the far end of a peering counts only with a VPC, and every
\* other route has neither.
LEMMA TargetAndMark ==
  ASSUME NEW vpc, NEW route, NEW peerings
  PROVE  LET target == resolve_route_target(vpc, route, peerings) IN
         /\ target.resolved \in BOOLEAN
         /\ target.to # None => target.resolved
         /\ vpc # None /\ target.resolved => target.to # None
<1> DEFINE target == resolve_route_target(vpc, route, peerings)
<1>1. target \in {Into(vpc), Nowhere} \/ \E side : OwnSide(side) /\ target = Into(side.vpc)
  BY DEF resolve_route_target
<1>2. \A to : Into(to).to = to /\ Into(to).resolved = TRUE
  BY DEF Into
<1>3. Nowhere.to = None /\ Nowhere.resolved = FALSE
  BY DEF Nowhere
<1>4. \A side : OwnSide(side) => side.vpc # None
  BY DEF OwnSide
<1> HIDE DEF target
<1>5. /\ target.resolved \in BOOLEAN
      /\ target.to # None => target.resolved
      /\ vpc # None /\ target.resolved => target.to # None
  BY <1>1, <1>2, <1>3, <1>4
<1> QED BY <1>5 DEF target

LEMMA MappedFields ==
  ASSUME NEW raw, IsRaw(raw)
  PROVE  /\ \A eni \in ToSet(Enis(raw)) : eni.subnet # None
         /\ \A table \in ToSet(Tables(raw)) : table.vpc # None
<1>1. /\ ToSet(Enis(raw)) \subseteq {item \in ToSet(raw["NetworkInterface"]) : Maps("NetworkInterface", item)}
      /\ ToSet(Tables(raw)) \subseteq {item \in ToSet(raw["RouteTable"]) : Maps("RouteTable", item)}
  BY MappedItems DEF Enis, Tables, Kinds, Required
<1>2. "subnet" \in Required["NetworkInterface"] /\ "vpc" \in Required["RouteTable"]
  BY DEF Required
<1> QED BY <1>1, <1>2 DEF Maps

\* A route has the table's own VPC for its target, or the far end of the
\* peering it names, when that is the account's own.
LEMMA RouteTarget ==
  ASSUME NEW vpc, NEW route, NEW peerings, IsList(peerings),
         resolve_route_target(vpc, route, peerings).to # None \/ resolve_route_target(vpc, route, peerings).resolved
  PROVE  \/ route.gateway = "local" /\ resolve_route_target(vpc, route, peerings).to = vpc
         \/ \E p \in ToSet(peerings) : \E side \in ToSet(Sides(p)) :
              /\ p.id = route.pcx /\ OwnSide(side) /\ side.vpc # vpc
              /\ resolve_route_target(vpc, route, peerings).to = side.vpc
<1> DEFINE N == {p \in ToSet(peerings) : p.id = route.pcx}
           named == Only(peerings, N)
           F == {side \in ToSet(Sides(named[1])) : side.vpc # vpc}
           far == Only(Sides(named[1]), F)
<1>1. CASE route.gateway = "local"
  BY <1>1 DEF resolve_route_target, Into
<1>2. CASE route.gateway # "local"
  <2>1. /\ route.pcx # None /\ named # <<>> /\ far # <<>> /\ OwnSide(Head(far))
        /\ resolve_route_target(vpc, route, peerings).to = Head(far).vpc
    BY <1>2 DEF resolve_route_target, Into, Nowhere
  <2>2. \A list : IsList(list) /\ list # <<>> => list[1] \in ToSet(list) /\ Head(list) = list[1]
    <3> SUFFICES ASSUME NEW list, IsList(list), list # <<>> PROVE list[1] \in ToSet(list) /\ Head(list) = list[1]
      OBVIOUS
    <3>1. Len(list) \in Nat /\ DOMAIN list = 1..Len(list) /\ list \in Seq(ToSet(list))
      BY ListDomain DEF IsList
    <3>2. Len(list) # 0
      BY <3>1, EmptySeq
    <3>3. 1 \in DOMAIN list
      BY <3>1, <3>2
    <3> QED BY <3>1, <3>3 DEF ToSet
  <2> HIDE DEF N, F
  <2>3. IsList(named) /\ ToSet(named) = ToSet(peerings) \cap N
    BY OnlyOf
  <2>4. named[1] \in ToSet(peerings) /\ named[1].id = route.pcx
    BY <2>1, <2>2, <2>3 DEF N
  <2> HIDE DEF named
  <2>5. IsList(Sides(named[1]))
    <3>1. IsList(<<named[1].requester, named[1].accepter>>)
      BY DEF IsList, ToSet
    <3> QED BY <3>1, PresentOptions DEF Sides
  <2>6. IsList(far) /\ ToSet(far) = ToSet(Sides(named[1])) \cap F
    BY <2>5, OnlyOf
  <2> HIDE DEF far
  <2>7. Head(far) \in ToSet(Sides(named[1])) /\ Head(far).vpc # vpc
    BY <2>1, <2>2, <2>6 DEF F
  <2> QED BY <2>1, <2>4, <2>7
<1> QED BY <1>1, <1>2

\* A resolved route of the batch is a route of its table, and leads to the
\* table's own VPC or over the peering that the route names to a VPC that this
\* account has on the other side: never into another account and never back
\* (topology.rs, resolve_route_target).
THEOREM RoutesLeadHome ==
  ASSUME NEW raw, IsRaw(raw), NEW e \in ToSet(build_graph_batch(raw).edges), e.type = "ROUTES_TO", e.resolved
  PROVE  \E table \in ToSet(Tables(raw)) : \E route \in ToSet(table.routes) :
           /\ e.from = table.id /\ e.cidr = route.cidr
           /\ \/ route.gateway = "local" /\ e.to = table.vpc
              \/ \E p \in ToSet(Peerings(raw)) : \E side \in ToSet(Sides(p)) :
                   /\ p.id = route.pcx /\ side.owner = AccountId
                   /\ e.to = side.vpc /\ side.vpc # table.vpc
<1>1. FromEni(e, raw) \/ FromAcl(e, raw) \/ FromTable(e, raw) \/ FromGroup(e, raw)
  BY EdgeOrigins
<1>2. FromTable(e, raw)
  BY <1>1, OriginTypes
<1>3. PICK table \in ToSet(Tables(raw)) :
        \/ \E a \in ToSet(table.associations) : a.subnet # None /\ e = Edge("USES_ROUTE_TABLE", a.subnet, table.id)
        \/ \E route \in ToSet(table.routes) : e = RouteEdge(table, route, Peerings(raw))
  BY <1>2 DEF FromTable
<1>4. \A a \in ToSet(table.associations) : e # Edge("USES_ROUTE_TABLE", a.subnet, table.id)
  BY DEF Edge
<1>5. PICK route \in ToSet(table.routes) : e = RouteEdge(table, route, Peerings(raw))
  BY <1>3, <1>4
<1>6. /\ e.from = table.id /\ e.cidr = route.cidr
      /\ e.to = resolve_route_target(table.vpc, route, Peerings(raw)).to
      /\ resolve_route_target(table.vpc, route, Peerings(raw)).resolved
  BY <1>5 DEF RouteEdge
<1>7. IsList(Peerings(raw))
  BY RawLists
<1>8. \/ route.gateway = "local" /\ e.to = table.vpc
      \/ \E p \in ToSet(Peerings(raw)) : \E side \in ToSet(Sides(p)) :
           p.id = route.pcx /\ OwnSide(side) /\ side.vpc # table.vpc /\ e.to = side.vpc
  BY <1>6, <1>7, RouteTarget
<1>9. \A side : OwnSide(side) => side.owner = AccountId
  BY DEF OwnSide
<1> QED BY <1>5, <1>6, <1>8, <1>9

-----------------------------------------------------------------------------
(* The ends of the batch's relationships *)

HasSubnet(raw, id) == \E s \in ToSet(collect_subnet_stubs(Mapped(raw))) : s.id = id
HasVpc(raw, id) == \E s \in ToSet(collect_vpc_stubs(Mapped(raw))) : s.id = id

LEMMA BatchIds ==
  ASSUME NEW raw, IsRaw(raw), NEW id
  PROVE  /\ id \in Ids(build_graph_batch(raw), "ENI") <=> HasId(Enis(raw), id)
         /\ id \in Ids(build_graph_batch(raw), "SecurityGroup") <=> HasId(Groups(raw), id)
         /\ id \in Ids(build_graph_batch(raw), "NetworkACL") <=> HasId(Acls(raw), id)
         /\ id \in Ids(build_graph_batch(raw), "RouteTable") <=> HasId(Tables(raw), id)
         /\ id \in Ids(build_graph_batch(raw), "Subnet") <=> HasSubnet(raw, id)
         /\ id \in Ids(build_graph_batch(raw), "VPC") <=> HasVpc(raw, id)
<1>1. \A label : id \in Ids(build_graph_batch(raw), label) <=>
        \E i \in DOMAIN build_graph_batch(raw).nodes[label] : build_graph_batch(raw).nodes[label][i].id = id
  BY DEF Ids
<1>2. /\ id \in Ids(build_graph_batch(raw), "ENI") <=> HasId(Enis(raw), id)
      /\ id \in Ids(build_graph_batch(raw), "SecurityGroup") <=> HasId(Groups(raw), id)
      /\ id \in Ids(build_graph_batch(raw), "NetworkACL") <=> HasId(Acls(raw), id)
      /\ id \in Ids(build_graph_batch(raw), "RouteTable") <=> HasId(Tables(raw), id)
  <2>1. IsList(Enis(raw)) /\ IsList(Groups(raw)) /\ IsList(Acls(raw)) /\ IsList(Tables(raw))
    BY RawLists
  <2>2. \A kind, items : IsList(items) =>
          {Records(kind, items)[i].id : i \in DOMAIN Records(kind, items)} = {item.id : item \in ToSet(items)}
    BY RecordIds
  <2>3. id \in Ids(build_graph_batch(raw), "ENI") <=> HasId(Enis(raw), id)
    <3>1. build_graph_batch(raw).nodes["ENI"] = Records("NetworkInterface", Enis(raw))
      BY BatchNodes
    <3>2. {Records("NetworkInterface", Enis(raw))[i].id : i \in DOMAIN Records("NetworkInterface", Enis(raw))} =
             {item.id : item \in ToSet(Enis(raw))}
      BY <2>1, <2>2
    <3>3. Ids(build_graph_batch(raw), "ENI") = {item.id : item \in ToSet(Enis(raw))}
      BY <3>1, <3>2 DEF Ids
    <3> QED BY <3>3 DEF HasId
  <2>4. id \in Ids(build_graph_batch(raw), "SecurityGroup") <=> HasId(Groups(raw), id)
    <3>1. build_graph_batch(raw).nodes["SecurityGroup"] = Records("SecurityGroup", Groups(raw))
      BY BatchNodes
    <3>2. {Records("SecurityGroup", Groups(raw))[i].id : i \in DOMAIN Records("SecurityGroup", Groups(raw))} =
             {item.id : item \in ToSet(Groups(raw))}
      BY <2>1, <2>2
    <3>3. Ids(build_graph_batch(raw), "SecurityGroup") = {item.id : item \in ToSet(Groups(raw))}
      BY <3>1, <3>2 DEF Ids
    <3> QED BY <3>3 DEF HasId
  <2>5. id \in Ids(build_graph_batch(raw), "NetworkACL") <=> HasId(Acls(raw), id)
    <3>1. build_graph_batch(raw).nodes["NetworkACL"] = Records("NetworkAcl", Acls(raw))
      BY BatchNodes
    <3>2. {Records("NetworkAcl", Acls(raw))[i].id : i \in DOMAIN Records("NetworkAcl", Acls(raw))} =
             {item.id : item \in ToSet(Acls(raw))}
      BY <2>1, <2>2
    <3>3. Ids(build_graph_batch(raw), "NetworkACL") = {item.id : item \in ToSet(Acls(raw))}
      BY <3>1, <3>2 DEF Ids
    <3> QED BY <3>3 DEF HasId
  <2>6. id \in Ids(build_graph_batch(raw), "RouteTable") <=> HasId(Tables(raw), id)
    <3>1. build_graph_batch(raw).nodes["RouteTable"] = Records("RouteTable", Tables(raw))
      BY BatchNodes
    <3>2. {Records("RouteTable", Tables(raw))[i].id : i \in DOMAIN Records("RouteTable", Tables(raw))} =
             {item.id : item \in ToSet(Tables(raw))}
      BY <2>1, <2>2
    <3>3. Ids(build_graph_batch(raw), "RouteTable") = {item.id : item \in ToSet(Tables(raw))}
      BY <3>1, <3>2 DEF Ids
    <3> QED BY <3>3 DEF HasId
  <2> QED BY <2>3, <2>4, <2>5, <2>6
<1>3. /\ id \in Ids(build_graph_batch(raw), "Subnet") <=> HasSubnet(raw, id)
      /\ id \in Ids(build_graph_batch(raw), "VPC") <=> HasVpc(raw, id)
  BY <1>1, BatchNodes DEF HasSubnet, HasVpc, ToSet
<1> QED BY <1>2, <1>3

LEMMA KeyEnds ==
  ASSUME NEW type, NEW l, NEW x, NEW m, NEW y, NEW merged
  PROVE  \A end \in EndNodes(EdgeKey(type, NodeKey(l, x), NodeKey(m, y), merged)) :
           (end[1] = l /\ end[2] = x) \/ (end[1] = m /\ end[2] = y)
<1> DEFINE key == EdgeKey(type, NodeKey(l, x), NodeKey(m, y), merged)
<1>1. Len(key) = 4 /\ key[2] = NodeKey(l, x) /\ key[3] = NodeKey(m, y)
  BY DEF EdgeKey
<1>2. EndNodes(key) = {NodeKey(l, x), NodeKey(m, y)}
  BY <1>1 DEF EndNodes, IsEdge
<1>3. NodeKey(l, x)[1] = l /\ NodeKey(l, x)[2] = x /\ NodeKey(m, y)[1] = m /\ NodeKey(m, y)[2] = y
  BY DEF NodeKey
<1> HIDE DEF key
<1>4. ASSUME NEW end \in EndNodes(key) PROVE (end[1] = l /\ end[2] = x) \/ (end[1] = m /\ end[2] = y)
  <2>1. end = NodeKey(l, x) \/ end = NodeKey(m, y)
    BY <1>2
  <2> QED BY <1>3, <2>1
<1> QED BY <1>4 DEF key

\* Interfaces, ACLs, tables, subnets and VPCs are always there, for the stubs
\* are made of what the edges name.
LEMMA EndsAreThere ==
  ASSUME NEW raw, IsRaw(raw), GroupsThere(raw), NEW e \in ToSet(build_graph_batch(raw).edges),
         NEW row, RowOf(row, e), NEW end \in EndNodes(row.key)
  PROVE  end[2] \in Ids(build_graph_batch(raw), end[1])
<1> DEFINE batch == build_graph_batch(raw)
<1> SUFFICES end[2] \in Ids(batch, end[1])
  OBVIOUS
<1>1. FromEni(e, raw) \/ FromAcl(e, raw) \/ FromTable(e, raw) \/ FromGroup(e, raw)
  BY EdgeOrigins
<1>2. \A id : /\ HasId(Enis(raw), id) => id \in Ids(batch, "ENI")
              /\ HasId(Groups(raw), id) => id \in Ids(batch, "SecurityGroup")
              /\ HasId(Acls(raw), id) => id \in Ids(batch, "NetworkACL")
              /\ HasId(Tables(raw), id) => id \in Ids(batch, "RouteTable")
              /\ HasSubnet(raw, id) => id \in Ids(batch, "Subnet")
              /\ HasVpc(raw, id) => id \in Ids(batch, "VPC")
  BY BatchIds
<1>3. \A type, from, to : /\ Edge(type, from, to).type = type
                          /\ Edge(type, from, to).from = from /\ Edge(type, from, to).to = to
  BY DEF Edge
<1>4. ASSUME NEW l, NEW m, NEW from, NEW to, NEW merged, row.key = EdgeKey(e.type, NodeKey(l, from), NodeKey(m, to), merged),
             from \in Ids(batch, l), to \in Ids(batch, m)
      PROVE  end[2] \in Ids(batch, end[1])
  <2> HIDE DEF batch
  <2>1. (end[1] = l /\ end[2] = from) \/ (end[1] = m /\ end[2] = to)
    BY <1>4, KeyEnds
  <2> QED BY <1>4, <2>1
<1> HIDE DEF batch
<1>5. e.type \in TopologyTypes => row.key = TopologyKey(e)
  BY DEF RowOf, TopologyTypes, IsSgRule
<1>6. ASSUME NEW l, NEW m, e.type \in TopologyTypes, Ends[e.type] = <<l, m>>, e.from \in Ids(batch, l), e.to \in Ids(batch, m)
      PROVE  end[2] \in Ids(batch, end[1])
  <2>1. row.key = EdgeKey(e.type, NodeKey(l, e.from), NodeKey(m, e.to), <<>>)
    BY <1>5, <1>6 DEF TopologyKey
  <2> QED BY <1>4, <1>6, <2>1
<1>7. /\ Ends["HAS_SG"] = <<"ENI", "SecurityGroup">> /\ Ends["IN_SUBNET"] = <<"ENI", "Subnet">>
      /\ Ends["PROTECTED_BY"] = <<"Subnet", "NetworkACL">> /\ Ends["USES_ROUTE_TABLE"] = <<"Subnet", "RouteTable">>
  BY DEF Ends
<1>8. CASE FromEni(e, raw)
  <2>1. PICK eni \in ToSet(Enis(raw)) : \/ \E g \in ToSet(eni.groups) : e = Edge("HAS_SG", eni.id, g)
                                        \/ e = Edge("IN_SUBNET", eni.id, eni.subnet)
    BY <1>8 DEF FromEni
  <2>2. eni.id \in Ids(batch, "ENI")
    BY <1>2 DEF HasId
  <2>3. CASE \E g \in ToSet(eni.groups) : e = Edge("HAS_SG", eni.id, g)
    <3>1. PICK g \in ToSet(eni.groups) : e = Edge("HAS_SG", eni.id, g)
      BY <2>3
    <3>2. e.type = "HAS_SG" /\ e.from = eni.id /\ e.to = g
      BY <1>3, <3>1
    <3>3. g \in Ids(batch, "SecurityGroup")
      BY <1>2 DEF GroupsThere
    <3> QED BY <1>6, <1>7, <2>2, <3>2, <3>3 DEF TopologyTypes
  <2>4. CASE e = Edge("IN_SUBNET", eni.id, eni.subnet)
    <3>1. e.type = "IN_SUBNET" /\ e.from = eni.id /\ e.to = eni.subnet
      BY <1>3, <2>4
    <3>2. eni.subnet \in Ids(batch, "Subnet")
      BY <1>2, SubnetStubs DEF HasSubnet
    <3> QED BY <1>6, <1>7, <2>2, <3>1, <3>2 DEF TopologyTypes
  <2> QED BY <2>1, <2>3, <2>4
<1>9. CASE FromAcl(e, raw)
  <2>1. PICK acl \in ToSet(Acls(raw)) :
          \/ \E s \in ToSet(acl.associations) \ {None} : e = Edge("PROTECTED_BY", s, acl.id)
          \/ e.type = "HAS_RULE" /\ e.from = acl.id
    BY <1>9, AclRuleShape DEF FromAcl
  <2>2. acl.id \in Ids(batch, "NetworkACL")
    BY <1>2 DEF HasId
  <2>3. CASE \E s \in ToSet(acl.associations) \ {None} : e = Edge("PROTECTED_BY", s, acl.id)
    <3>1. PICK s \in ToSet(acl.associations) \ {None} : e = Edge("PROTECTED_BY", s, acl.id)
      BY <2>3
    <3>2. e.type = "PROTECTED_BY" /\ e.from = s /\ e.to = acl.id
      BY <1>3, <3>1
    <3>3. s \in Ids(batch, "Subnet")
      BY <1>2, SubnetStubs DEF HasSubnet
    <3> QED BY <1>6, <1>7, <2>2, <3>2, <3>3 DEF TopologyTypes
  <2>4. CASE e.type = "HAS_RULE" /\ e.from = acl.id
    <3>1. row.key = EdgeKey(e.type, NodeKey("NetworkACL", acl.id), NodeKey("NetworkACL", acl.id), <<e.rule_number>>)
      BY <2>4 DEF RowOf, TopologyTypes, IsSgRule, NaclRuleKey
    <3> QED BY <1>4, <2>2, <3>1
  <2> QED BY <2>1, <2>3, <2>4
<1>10. CASE FromTable(e, raw)
  <2>1. PICK table \in ToSet(Tables(raw)) :
          \/ \E a \in ToSet(table.associations) : a.subnet # None /\ e = Edge("USES_ROUTE_TABLE", a.subnet, table.id)
          \/ \E route \in ToSet(table.routes) : e = RouteEdge(table, route, Peerings(raw))
    BY <1>10 DEF FromTable
  <2>2. table.id \in Ids(batch, "RouteTable")
    BY <1>2 DEF HasId
  <2>3. CASE \E a \in ToSet(table.associations) : a.subnet # None /\ e = Edge("USES_ROUTE_TABLE", a.subnet, table.id)
    <3>1. PICK a \in ToSet(table.associations) : a.subnet # None /\ e = Edge("USES_ROUTE_TABLE", a.subnet, table.id)
      BY <2>3
    <3>2. e.type = "USES_ROUTE_TABLE" /\ e.from = a.subnet /\ e.to = table.id
      BY <1>3, <3>1
    <3>3. a.subnet \in Ids(batch, "Subnet")
      BY <1>2, <3>1, SubnetStubs DEF HasSubnet
    <3> QED BY <1>6, <1>7, <2>2, <3>2, <3>3 DEF TopologyTypes
  <2>4. CASE \E route \in ToSet(table.routes) : e = RouteEdge(table, route, Peerings(raw))
    <3>1. PICK route \in ToSet(table.routes) : e = RouteEdge(table, route, Peerings(raw))
      BY <2>4
    <3>2. /\ e.type = "ROUTES_TO" /\ e.from = table.id
          /\ e.to = resolve_route_target(table.vpc, route, Peerings(raw)).to
          /\ e.resolved = resolve_route_target(table.vpc, route, Peerings(raw)).resolved
      BY <3>1 DEF RouteEdge
    <3>3. row.key = RouteKey(e)
      BY <3>2 DEF RowOf, TopologyTypes, IsSgRule
    <3>4. CASE ~e.resolved
      <4>1. row.key = EdgeKey(e.type, NodeKey("RouteTable", e.from), NodeKey("RouteTable", e.from), <<e.cidr>>)
        BY <3>2, <3>3, <3>4 DEF RouteKey
      <4> QED BY <1>4, <2>2, <3>2, <4>1
    <3>5. CASE e.resolved
      <4>1. row.key = EdgeKey(e.type, NodeKey("RouteTable", e.from), NodeKey("VPC", e.to), <<e.cidr>>)
        BY <3>2, <3>3, <3>5 DEF RouteKey
      <4>2. \/ e.to = table.vpc
            \/ \E p \in ToSet(Peerings(raw)) : \E side \in ToSet(Sides(p)) : OwnSide(side) /\ e.to = side.vpc
        <5>1. IsList(Peerings(raw)) /\ resolve_route_target(table.vpc, route, Peerings(raw)).resolved
          BY <3>2, <3>5, RawLists
        <5>2. LET to == resolve_route_target(table.vpc, route, Peerings(raw)).to IN
              \/ to = table.vpc
              \/ \E p \in ToSet(Peerings(raw)) : \E side \in ToSet(Sides(p)) : OwnSide(side) /\ to = side.vpc
          BY <5>1, RouteTarget
        <5> QED BY <3>2, <5>2
      <4>3. HasVpc(raw, e.to)
        BY <4>2, VpcStubs DEF HasVpc
      <4> QED BY <1>2, <1>4, <2>2, <3>2, <4>1, <4>3
    <3> QED BY <3>4, <3>5
  <2> QED BY <2>1, <2>3, <2>4
<1>11. CASE FromGroup(e, raw)
  <2>1. PICK g \in ToSet(Groups(raw)) : IsRuleOfGroup(e, g)
    BY <1>11 DEF FromGroup
  <2>2. g.id \in Ids(batch, "SecurityGroup")
    BY <1>2 DEF HasId
  <2>3. /\ IsSgRule(e) /\ e.from = g.id
        /\ e.kind = "security_group_ref" =>
             \E p \in ToSet(g.ingress) \cup ToSet(g.egress) : \E pair \in ToSet(p.pairs) :
               e.to = pair.group /\ (e.resolved <=> OwnGroup(pair))
    BY <2>1, RawLists, RuleShape
  <2>4. row.key = RuleEdge(e)
    BY <2>3 DEF RowOf, TopologyTypes, IsSgRule
  <2>5. CASE e.kind = "security_group_ref" /\ e.resolved
    <3>1. row.key = EdgeKey(e.type, NodeKey("SecurityGroup", e.from), NodeKey("SecurityGroup", e.to), <<e.match, e.kind, e.to>>)
      BY <2>4, <2>5 DEF RuleEdge
    <3>2. HasId(Groups(raw), e.to)
      BY <2>3, <2>5 DEF GroupsThere
    <3> QED BY <1>2, <1>4, <2>2, <2>3, <3>1, <3>2
  <2>6. CASE ~(e.kind = "security_group_ref" /\ e.resolved)
    <3>1. row.key = EdgeKey(e.type, NodeKey("SecurityGroup", e.from), NodeKey("SecurityGroup", e.from), <<e.match, e.kind, e.to>>)
      BY <2>4, <2>6 DEF RuleEdge
    <3> QED BY <1>4, <2>2, <2>3, <3>1
  <2> QED BY <2>5, <2>6
<1> QED BY <1>1, <1>8, <1>9, <1>10, <1>11

\* A route has a target exactly when it is marked as resolved, in every branch of
\* resolve_route_target, because a table without a VPC has no node: what the
\* mapping makes is never refused as inconsistent (topology.rs; neo4j.rs:
\* upsert_routes_to_edges).
THEOREM NeverRefused ==
  ASSUME NEW raw, IsRaw(raw)
  PROVE  ~Inconsistent(build_graph_batch(raw))
<1> SUFFICES ASSUME NEW e \in ToSet(build_graph_batch(raw).edges), e.type = "ROUTES_TO"
             PROVE  ~((e.to # None) # e.resolved)
  BY DEF Inconsistent, ToSet
<1>1. FromTable(e, raw)
  BY EdgeOrigins, OriginTypes
<1>2. PICK table \in ToSet(Tables(raw)) : \E route \in ToSet(table.routes) : e = RouteEdge(table, route, Peerings(raw))
  <2>1. \A a, b : Edge("USES_ROUTE_TABLE", a, b).type = "USES_ROUTE_TABLE"
    BY DEF Edge
  <2> QED BY <1>1, <2>1 DEF FromTable
<1>3. PICK route \in ToSet(table.routes) : e = RouteEdge(table, route, Peerings(raw))
  BY <1>2
<1>4. table.vpc # None
  BY MappedFields
<1>5. /\ e.to = resolve_route_target(table.vpc, route, Peerings(raw)).to
      /\ e.resolved = resolve_route_target(table.vpc, route, Peerings(raw)).resolved
  BY <1>3 DEF RouteEdge
<1>6. e.resolved \in BOOLEAN /\ (e.to # None <=> e.resolved)
  BY <1>4, <1>5, TargetAndMark
<1> QED BY <1>6
=============================================================================
