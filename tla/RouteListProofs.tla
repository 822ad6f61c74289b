---------------------------- MODULE RouteListProofs ----------------------------
(***************************************************************************)
(* The routing table is right for every list of entries an operator can    *)
(* publish: the first match in it is the one with the longest prefix, and  *)
(* the longest of the prefixes of one path is the most specific of them.   *)
(***************************************************************************)
EXTENDS RouteList, GatewayConfigProofs

TypeOK == entries \in Seq(Entries)

-----------------------------------------------------------------------------
(* The theorem                                                              *)

\* Whatever is published, the list is one of entries of the pool.
THEOREM TypeCorrect == Spec => []TypeOK
<1>1. Init => TypeOK
  BY DEF Init, TypeOK
<1>2. TypeOK /\ [Next]_entries => TypeOK'
  <2> SUFFICES ASSUME TypeOK, [Next]_entries
               PROVE  TypeOK'
    OBVIOUS
  <2>1. CASE AddEntry
    BY <2>1, AppendProperties DEF AddEntry, TypeOK
  <2>2. CASE DeleteEntry
    <3>1. PICK i \in DOMAIN entries :
             entries' = SubSeq(entries, 1, i - 1) \o SubSeq(entries, i + 1, Len(entries))
      BY <2>2 DEF DeleteEntry, Seqs!RemoveAt
    <3>2. entries \in Seq(Entries) /\ i \in 1 .. Len(entries) /\ Len(entries) \in Nat
      BY <3>1, LenProperties DEF TypeOK
    <3>3. /\ SubSeq(entries, 1, i - 1) \in Seq(Entries)
          /\ SubSeq(entries, i + 1, Len(entries)) \in Seq(Entries)
      BY <3>2, SubSeqProperties
    <3> QED
      BY <3>1, <3>3, ConcatProperties DEF TypeOK
  <2>3. CASE UNCHANGED entries
    BY <2>3 DEF TypeOK
  <2> QED
    BY <2>1, <2>2, <2>3 DEF Next
<1> QED
  BY <1>1, <1>2, PTL DEF Spec

\* What the lemmas about the table ask for.
LEMMA EntriesAreList == TypeOK => IsEntryList(entries)
BY EntryAssumption, LenProperties, ElementOfSeq DEF TypeOK, IsEntryList

\* One path in one list.
LEMMA MostSpecificMatch ==
    ASSUME TypeOK, NEW p \in Seq(STRING)
    PROVE  LET found == FirstMatch(ParseGatewayRoutes(entries), p)
           IN  IF Matching(p) = {} THEN found = NoRoute
               ELSE \E i \in Matching(p) :
                       /\ found = ParseRoute(entries[i])
                       /\ \A j \in Matching(p) : Under(entries[i].prefix, entries[j].prefix)
<1> DEFINE table == ParseGatewayRoutes(entries)
           found == FirstMatch(table, p)
           At(i) == Position(entries, i)
<1>1. /\ DOMAIN table = 1 .. Cardinality(EnabledIn(entries))
      /\ \A k \in DOMAIN table : \E i \in EnabledIn(entries) :
            At(i) = k /\ table[k] = ParseRoute(entries[i])
      /\ \A i \in EnabledIn(entries) : At(i) \in DOMAIN table /\ table[At(i)] = ParseRoute(entries[i])
  BY EntriesAreList, TableHoldsEnabled
<1>2. ASSUME NEW i \in EnabledIn(entries)
      PROVE  /\ ParseRoute(entries[i]).prefix = entries[i].prefix
             /\ entries[i].prefix \in Paths
             /\ entries[i].prefix \in Seq(STRING)
             /\ Length(entries[i].prefix) \in Nat
  <2>1. entries[i] \in Entries
    BY <1>2, EntriesAreList, EnabledFinite, ElementOfSeq DEF TypeOK
  <2> QED
    BY <2>1, ParseKeepsPrefix, EntryAssumption, LengthAssumption
<1>3. \A i \in Matching(p) : At(i) \in Hits(table, p)
  BY <1>1, <1>2 DEF Matching, Hits
<1>4. \A k \in Hits(table, p) : \E i \in Matching(p) : At(i) = k /\ table[k] = ParseRoute(entries[i])
  BY <1>1, <1>2 DEF Matching, Hits
<1>5. CASE Matching(p) = {}
  BY <1>4, <1>5 DEF FirstMatch
<1>6. CASE Matching(p) # {}
  <2>1. Hits(table, p) # {} /\ Hits(table, p) \subseteq Nat
    BY <1>1, <1>3, <1>6 DEF Hits
  <2>2. PICK m \in Hits(table, p) : found = table[m] /\ \A k \in Hits(table, p) : m <= k
    BY <2>1, FirstMatchIsFirst
  <2>3. PICK i \in Matching(p) : At(i) = m /\ table[m] = ParseRoute(entries[i])
    BY <2>2, <1>4
  <2>4. ASSUME NEW j \in Matching(p)
        PROVE  Under(entries[i].prefix, entries[j].prefix)
    <3>1. i \in EnabledIn(entries) /\ j \in EnabledIn(entries)
      BY DEF Matching
    <3>2. At(i) <= At(j)
      BY <1>3, <2>2, <2>3, <2>4
    <3>3. At(i) \in Int /\ At(j) \in Int
      BY <3>1, EntriesAreList, PositionType
    <3>4. ~ GoesBefore(entries, j, i)
      BY <3>1, <3>2, <3>3, EntriesAreList, PositionMonotone
    <3>5. Length(entries[j].prefix) <= Length(entries[i].prefix)
      BY <3>1, <3>4, <1>2 DEF GoesBefore
    <3>6. \/ Under(entries[i].prefix, entries[j].prefix)
          \/ Under(entries[j].prefix, entries[i].prefix)
      <4>1. Under(p, entries[i].prefix) /\ Under(p, entries[j].prefix)
        BY DEF Matching
      <4> QED
        BY <4>1, <3>1, <1>2, PrefixesComparable
    <3>7. CASE entries[i].prefix = entries[j].prefix
      BY <3>6, <3>7
    <3>8. CASE entries[i].prefix # entries[j].prefix
      <4>1. Under(entries[j].prefix, entries[i].prefix)
              => Length(entries[i].prefix) < Length(entries[j].prefix)
        BY <3>8, <3>1, <1>2, LengthAssumption DEF Under, Seqs!IsStrictPrefix
      <4> QED
        BY <4>1, <3>1, <3>5, <3>6, <1>2
    <3> QED
      BY <3>7, <3>8
  <2> QED
    BY <1>6, <2>2, <2>3, <2>4
<1> QED
  BY <1>5, <1>6

\* parseGatewayRoutes and findRoute give a path the most specific of the enabled
\* routes it matches, whatever list is published and in whatever order.
THEOREM MostSpecificRoute == Spec => []MostSpecificRouteWins
<1>1. TypeOK => MostSpecificRouteWins
  BY MostSpecificMatch, LengthAssumption DEF MostSpecificRouteWins
<1> QED
  BY <1>1, TypeCorrect, PTL

\* The first public route of a service keeps its place in the aggregation.
LEMMA FirstPublicIsListed ==
    ASSUME NEW table, NEW n \in Nat, DOMAIN table = 1 .. n,
           NEW i \in DOMAIN table, table[i].prefix[1] = "api"
    PROVE  \E m \in DOMAIN table : KeepsPlace(table, m) /\ table[m].serviceName = table[i].serviceName
<1> DEFINE S == {j \in DOMAIN table : table[j].prefix[1] = "api"
                                       /\ table[j].serviceName = table[i].serviceName}
<1>1. S \subseteq Nat /\ i \in S
  OBVIOUS
<1>2. PICK m \in S : \A j \in S : m <= j
  BY <1>1, FirstPlace
<1>3. \A j \in 1 .. m - 1 : j \in DOMAIN table /\ j \notin S
  BY <1>1, <1>2
<1>4. KeepsPlace(table, m)
  BY <1>2, <1>3 DEF KeepsPlace
<1> QED
  BY <1>2, <1>4

\* The documents of one table.
LEMMA DocumentsOfTable ==
    ASSUME NEW table, NEW n \in Nat, DOMAIN table = 1 .. n
    PROVE  /\ \A d, e \in Knife4jDocuments(table) : d.name = e.name => d = e
           /\ \A i \in DOMAIN table : table[i].prefix[1] = "api" =>
                 \E d \in Knife4jDocuments(table) : d.name = table[i].serviceName
<1>1. ASSUME NEW d \in Knife4jDocuments(table), NEW e \in Knife4jDocuments(table), d.name = e.name
      PROVE  d = e
  <2>1. PICK i \in DOMAIN table : /\ KeepsPlace(table, i)
                                  /\ d = [name |-> table[i].serviceName,
                                         url |-> table[i].prefix \o <<"api", "swagger-json">>]
    BY DEF Knife4jDocuments
  <2>2. PICK j \in DOMAIN table : /\ KeepsPlace(table, j)
                                  /\ e = [name |-> table[j].serviceName,
                                         url |-> table[j].prefix \o <<"api", "swagger-json">>]
    BY DEF Knife4jDocuments
  <2>3. table[i].serviceName = table[j].serviceName
    BY <1>1, <2>1, <2>2
  <2>4. i \in 1 .. n /\ j \in 1 .. n
    OBVIOUS
  <2>5. i \notin 1 .. j - 1 /\ j \notin 1 .. i - 1
    BY <2>1, <2>2, <2>3, Zenon DEF KeepsPlace
  <2>6. i = j
    BY <2>4, <2>5
  <2> QED
    BY <2>1, <2>2, <2>6
<1>2. ASSUME NEW i \in DOMAIN table, table[i].prefix[1] = "api"
      PROVE  \E d \in Knife4jDocuments(table) : d.name = table[i].serviceName
  <2>1. PICK m \in DOMAIN table : KeepsPlace(table, m) /\ table[m].serviceName = table[i].serviceName
    BY <1>2, FirstPublicIsListed
  <2> DEFINE d == [name |-> table[m].serviceName,
                   url |-> table[m].prefix \o <<"api", "swagger-json">>]
  <2>2. d \in Knife4jDocuments(table) /\ d.name = table[i].serviceName
    BY <2>1 DEF Knife4jDocuments
  <2> QED
    BY <2>2
<1> QED
  BY <1>1, <1>2

\* createKnife4jServices lists every public service, and none twice, of whatever
\* list is published.
THEOREM OneDocument == Spec => []OneDocumentPerService
<1>1. TypeOK => OneDocumentPerService
  <2> SUFFICES ASSUME TypeOK PROVE OneDocumentPerService
    OBVIOUS
  <2>1. /\ DOMAIN ParseGatewayRoutes(entries) = 1 .. Cardinality(EnabledIn(entries))
        /\ Cardinality(EnabledIn(entries)) \in Nat
    BY EntriesAreList, TableHoldsEnabled, EnabledFinite, FS_CardinalityType
  <2> QED
    BY <2>1, DocumentsOfTable DEF OneDocumentPerService
<1> QED
  BY <1>1, TypeCorrect, PTL

\* A path under a prefix, and what is left of it without the prefix.
LEMMA JoinAndStrip ==
    ASSUME NEW prefix \in Seq(STRING), NEW p \in Seq(STRING)
    PROVE  /\ prefix \o p \in Seq(STRING)
           /\ Under(prefix \o p, prefix)
           /\ SubSeq(prefix \o p, Len(prefix) + 1, Len(prefix \o p)) = p
<1> DEFINE joined == prefix \o p
<1>1. /\ joined \in Seq(STRING) /\ Len(joined) = Len(prefix) + Len(p)
      /\ \A i \in 1 .. Len(prefix) : joined[i] = prefix[i]
      /\ \A i \in 1 .. Len(p) : joined[Len(prefix) + i] = p[i]
  BY ConcatProperties
<1>2. Len(prefix) \in Nat /\ Len(p) \in Nat
  BY LenProperties
<1>3. SubSeq(joined, 1, Len(prefix)) = prefix
  OBVIOUS
<1>4. SubSeq(joined, Len(prefix) + 1, Len(joined)) = p
  OBVIOUS
<1> QED
  BY <1>1, <1>2, <1>3, <1>4 DEF Under, Seqs!IsPrefix

\* Two operations share a published path only if one is the other with the prefix.
LEMMA PublishedApart ==
    ASSUME NEW prefix \in Seq(STRING), NEW p \in Seq(STRING), NEW q \in Seq(STRING), p # q,
           RewriteGatewaySwaggerPath(p, prefix) = RewriteGatewaySwaggerPath(q, prefix)
    PROVE  q = prefix \o p \/ p = prefix \o q
<1>1. /\ RewriteGatewaySwaggerPath(p, prefix) \in {p, prefix \o p}
      /\ RewriteGatewaySwaggerPath(q, prefix) \in {q, prefix \o q}
  BY DEF RewriteGatewaySwaggerPath
<1>2. prefix \o p # prefix \o q
  <2>1. /\ SubSeq(prefix \o p, Len(prefix) + 1, Len(prefix \o p)) = p
        /\ SubSeq(prefix \o q, Len(prefix) + 1, Len(prefix \o q)) = q
    BY JoinAndStrip
  <2> QED
    BY <2>1, Zenon
<1> QED
  BY <1>1, <1>2

\* Rewriting a document loses no operation, whatever its paths are.
THEOREM OperationsApart == Spec => []OperationsStayApart
<1>1. TypeOK => OperationsStayApart
  <2> SUFFICES ASSUME TypeOK, NEW i \in DOMAIN entries, NEW p \in Operations, NEW q \in Operations,
                      p # q,
                      RewriteGatewaySwaggerPath(p, entries[i].prefix)
                        = RewriteGatewaySwaggerPath(q, entries[i].prefix)
               PROVE  q = entries[i].prefix \o p \/ p = entries[i].prefix \o q
    BY DEF OperationsStayApart
  <2>1. entries[i].prefix \in Seq(STRING) /\ p \in Seq(STRING) /\ q \in Seq(STRING)
    BY EntriesAreList, EntryAssumption, LengthAssumption DEF IsEntryList
  <2> QED
    BY <2>1, PublishedApart
<1> QED
  BY <1>1, TypeCorrect, PTL

\* One operation of the service of one public route.
LEMMA DocumentedPathLeadsBack ==
    ASSUME TypeOK, IsRouteList(entries), NEW p \in Seq(STRING),
           NEW k \in DOMAIN ParseGatewayRoutes(entries),
           LET route == ParseGatewayRoutes(entries)[k]
           IN  route.stripPrefix <=> ~ Under(p, route.prefix)
    PROVE  LET table == ParseGatewayRoutes(entries)
               published == RewriteGatewaySwaggerPath(p, table[k].prefix)
               found == FirstMatch(table, published)
           IN  \/ found = table[k] /\ GetDownstreamPath(found, published) = p
               \/ \E j \in DOMAIN table :
                     found = table[j] /\ Seqs!IsStrictPrefix(table[k].prefix, table[j].prefix)
               \/ p # <<>> /\ p[1] \in {"feign", "internal"} /\ published = p
<1> DEFINE table == ParseGatewayRoutes(entries)
           published == RewriteGatewaySwaggerPath(p, table[k].prefix)
           found == FirstMatch(table, published)
<1>1. PICK i \in EnabledIn(entries) : table[k] = ParseRoute(entries[i])
  BY EntriesAreList, TableHoldsEnabled
<1>2. \A j \in EnabledIn(entries) :
         /\ j \in DOMAIN entries
         /\ ParseRoute(entries[j]).prefix = entries[j].prefix
         /\ entries[j].prefix \in Seq(STRING)
  <2>1. \A j \in EnabledIn(entries) : j \in DOMAIN entries
    BY DEF EnabledIn
  <2> QED
    BY <2>1, EntriesAreList, ParseKeepsPrefix, LengthAssumption DEF IsEntryList
<1> DEFINE prefix == entries[i].prefix
<1>3. CASE published = p /\ ~ Under(p, prefix)
  <2>1. p # prefix \o p
    BY <1>2, <1>3, JoinAndStrip
  <2>2. Len(p) >= 2 /\ p[1] \in {"feign", "internal"}
    BY <1>1, <1>2, <1>3, <2>1 DEF RewriteGatewaySwaggerPath
  <2>3. p # <<>>
    BY <2>2
  <2> QED
    BY <1>3, <2>2, <2>3
<1>4. CASE published # p \/ Under(p, prefix)
  <2>1. published \in Seq(STRING) /\ Under(published, prefix)
    BY <1>1, <1>2, <1>4, JoinAndStrip DEF RewriteGatewaySwaggerPath
  <2>2. i \in Matching(published)
    BY <2>1 DEF Matching
  <2>3. PICK m \in Matching(published) :
           found = ParseRoute(entries[m]) /\ Under(entries[m].prefix, prefix)
    BY <2>1, <2>2, MostSpecificMatch
  <2>4. m \in EnabledIn(entries)
    BY DEF Matching
  <2>5. CASE m = i
    <3>1. found = table[k]
      BY <1>1, <2>3, <2>5
    <3>2. GetDownstreamPath(table[k], published) = p
      <4>1. CASE Under(p, prefix)
        <5>1. published = p
          BY <1>1, <1>2, <4>1 DEF RewriteGatewaySwaggerPath
        <5>2. table[k].prefix = prefix
          BY <1>1, <1>2
        <5>3. GetDownstreamPath(table[k], published) = published
          BY <4>1, <5>2, Zenon DEF GetDownstreamPath
        <5> QED
          BY <5>1, <5>3
      <4>2. CASE ~ Under(p, prefix)
        <5>1. published = prefix \o p
          BY <1>1, <1>2, <1>4, <4>2 DEF RewriteGatewaySwaggerPath
        <5>2. table[k].prefix = prefix
          BY <1>1, <1>2
        <5>3. GetDownstreamPath(table[k], published)
                = SubSeq(published, Len(table[k].prefix) + 1, Len(published))
          BY <1>1, <1>2, <4>2, <5>2, Zenon DEF GetDownstreamPath
        <5>4. SubSeq(prefix \o p, Len(prefix) + 1, Len(prefix \o p)) = p
          BY <1>2, JoinAndStrip
        <5> QED
          BY <5>1, <5>2, <5>3, <5>4, Zenon
      <4> QED
        BY <4>1, <4>2
    <3> QED
      BY <3>1, <3>2
  <2>6. CASE m # i
    <3>1. entries[m].prefix # prefix
      BY <1>2, <2>4, <2>6 DEF IsRouteList
    <3>2. Seqs!IsStrictPrefix(prefix, entries[m].prefix)
      BY <2>3, <3>1 DEF Under, Seqs!IsStrictPrefix
    <3>3. PICK j \in DOMAIN table : table[j] = ParseRoute(entries[m])
      BY <2>4, EntriesAreList, TableHoldsEnabled
    <3>4. found = table[j] /\ table[j].prefix = entries[m].prefix /\ table[k].prefix = prefix
      BY <1>1, <1>2, <2>3, <2>4, <3>3
    <3> QED
      BY <3>2, <3>4
  <2> QED
    BY <2>5, <2>6
<1> QED
  BY <1>3, <1>4

\* What the aggregated documents publish leads back to the operation, for every
\* list, every prefix and every operation.
THEOREM DocumentsLeadBack == Spec => []DocumentedPathsLeadBack
<1>1. TypeOK => DocumentedPathsLeadBack
  BY DocumentedPathLeadsBack, EntryAssumption DEF DocumentedPathsLeadBack
<1> QED
  BY <1>1, TypeCorrect, PTL
=============================================================================
