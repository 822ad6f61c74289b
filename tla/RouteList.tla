------------------------------- MODULE RouteList -------------------------------
(***************************************************************************)
(* gateway.routes as an operator edits it in Nacos, entry by entry, and    *)
(* what the gateway makes of every list on the way: the routing table, the *)
(* aggregated documents and the paths published in them.                   *)
(***************************************************************************)
EXTENDS GatewayConfig

CONSTANTS
    Entries,        \* entries an operator may write
    Operations,     \* paths in the downstream services' own documents
    MaxEntries      \* bound on the length of the list

ASSUME EntryAssumption ==
    /\ \A e \in Entries :
          /\ {"prefix", "fallbackEnabled", "enabled", "stripPrefix"} \subseteq DOMAIN e
          /\ e.prefix \in Paths
    /\ Operations \subseteq Seq(STRING)
    /\ MaxEntries \in Nat

VARIABLE entries        \* gateway.routes as published

Init == entries = <<>>

AddEntry == Len(entries) < MaxEntries /\ \E e \in Entries : entries' = Append(entries, e)

DeleteEntry == \E i \in DOMAIN entries : entries' = Seqs!RemoveAt(entries, i)

Next == AddEntry \/ DeleteEntry

Spec == Init /\ [][Next]_entries

-----------------------------------------------------------------------------
(* Properties                                                               *)

\* The enabled entries a path matches.
Matching(path) == {i \in EnabledIn(entries) : Under(path, entries[i].prefix)}

\* Of a list that parses, a path gets the enabled route with the most specific
\* matching prefix, wherever in the list it stands, and no route if none matches
\* (parseGatewayRoutes and findRoute).
MostSpecificRouteWins ==
    IsRouteList(entries) =>
        \A p \in Paths :
            LET found == FirstMatch(ParseGatewayRoutes(entries), p)
            IN  IF Matching(p) = {} THEN found = NoRoute
                ELSE \E i \in Matching(p) :
                        /\ found = ParseRoute(entries[i])
                        /\ \A j \in Matching(p) : Under(entries[i].prefix, entries[j].prefix)

\* "Try it out" in the aggregated documents: the path the gateway publishes for
\* an operation of a service's own document leads, through the routing table and
\* prefix stripping, back to that operation, unless a more specific route takes
\* the path over or the operation is none of the public ones
\* (rewriteGatewaySwaggerPath against findRoute and getDownstreamPath).  A service
\* whose prefix is not stripped documents its paths with the prefix, the others
\* without.
DocumentedPathsLeadBack ==
    IsRouteList(entries) =>
        LET table == ParseGatewayRoutes(entries)
        IN  \A i \in DOMAIN table : \A p \in Operations :
                LET published == RewriteGatewaySwaggerPath(p, table[i].prefix)
                    found == FirstMatch(table, published)
                    documented == table[i].stripPrefix <=> ~ Under(p, table[i].prefix)
                IN  table[i].prefix[1] = "api" /\ documented
                       => \/ found = table[i] /\ GetDownstreamPath(found, published) = p
                          \/ \E j \in DOMAIN table :
                                /\ found = table[j]
                                /\ Seqs!IsStrictPrefix(table[i].prefix, table[j].prefix)
                          \/ p # <<>> /\ p[1] \in {"feign", "internal"} /\ published = p

\* Rewriting a document loses no operation: two of its paths are published as
\* one only if the document names the same operation with the prefix and without
\* (rewriteGatewaySwaggerDocument keeps the later of them), or with the leading
\* slash OpenAPI requires and without it.
OperationsStayApart ==
    \A i \in DOMAIN entries : \A p, q \in Operations :
        LET prefix == entries[i].prefix
            published(o) == RewriteGatewaySwaggerPath(o, prefix)
        IN  prefix # <<>> /\ prefix[1] = "api" /\ p # q /\ published(p) = published(q)
               => q = prefix \o p \/ p = prefix \o q

\* The aggregation lists each service once, and every public service
\* (createKnife4jServices).
OneDocumentPerService ==
    IsRouteList(entries) =>
        LET table == ParseGatewayRoutes(entries)
            docs == Knife4jDocuments(table)
        IN  /\ \A d, e \in docs : d.name = e.name => d = e
            /\ \A i \in DOMAIN table : table[i].prefix[1] = "api" =>
                  \E d \in docs : d.name = table[i].serviceName
================================================================================
