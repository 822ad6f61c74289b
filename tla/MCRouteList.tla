------------------------------ MODULE MCRouteList ------------------------------
(***************************************************************************)
(* A small instance of RouteList for TLC.                                  *)
(***************************************************************************)
EXTENDS RouteList, FiniteSetsExt

MCLength(p) == FoldSet(LAMBDA i, n : n + 1 + Len(p[i]), 0, DOMAIN p)

Entry(id, prefix, service, enabled) ==
    [id |-> id, prefix |-> prefix, serviceName |-> service,
     fallbackEnabled |-> Unset, enabled |-> enabled,
     stripPrefix |-> IF service = "B" THEN FALSE ELSE Unset]

FlatPrefixes == {<<"api", "auth">>, <<"api", "crm">>, <<"feign", "auth">>}
NestedPrefixes == FlatPrefixes \cup {<<"api", "auth", "user">>, <<"api", "auth", "user", "sheet">>}

\* A trailing slash and a prefix outside /api and /feign make a list invalid.
PrefixPool == NestedPrefixes \cup {<<"api", "auth", "">>, <<"web", "auth">>}

MCOperations == {<<>>, <<"user">>, <<"user", "sheet">>, <<"user", "sheet", "column">>,
                 <<"health">>, <<"api", "swagger-json">>, <<"feign", "auth", "user">>,
                 <<"internal", "jobs">>, <<"api", "auth", "user">>, <<"api", "crm", "user">>}

MCPaths == PrefixPool \cup {p \o q : p \in NestedPrefixes, q \in MCOperations}

MCEntries ==
    { Entry(id, prefix, IF id = "crm" THEN "B" ELSE "A", enabled) :
      id \in {"auth", "user", "crm"}, prefix \in PrefixPool, enabled \in {Unset, FALSE} }
================================================================================
