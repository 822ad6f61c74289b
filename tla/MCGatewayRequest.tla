--------------------------- MODULE MCGatewayRequest ---------------------------
(***************************************************************************)
(* Small instances of GatewayRequest for TLC.                              *)
(***************************************************************************)
EXTENDS GatewayRequest, FiniteSetsExt, TLC

CONSTANTS i1, r1, r2

MCLength(p) == FoldSet(LAMBDA i, n : n + 1 + Len(p[i]), 0, DOMAIN p)

User == <<"api", "auth", "user">>
Document == <<"api", "auth", "api", "swagger-json">>
Feign == <<"feign", "auth", "user">>

MCPaths == {User, Document, Feign, <<"api", "auth">>, <<"feign", "auth">>}

Entry(id, prefix, service, fallback, enabled, strip) ==
    [id |-> id, prefix |-> prefix, serviceName |-> service,
     fallbackEnabled |-> fallback, enabled |-> enabled, stripPrefix |-> strip]

YAML(routes, enabled, token, secret) ==
    [routes |-> routes, secret |-> secret,
     auth |-> [enabled |-> enabled, token |-> token, publicPaths |-> Unset]]

AuthEntry == Entry("auth", <<"api", "auth">>, "A", Unset, Unset, Unset)
FeignEntry == Entry("feign-auth", <<"feign", "auth">>, "A", Unset, Unset, Unset)

Base == YAML(<<AuthEntry, FeignEntry>>, Unset, TRUE, TRUE)

\* /api/auth/user moves to its own service, which may fall back.
Split ==
    YAML(<<AuthEntry, Entry("user", User, "B", TRUE, Unset, FALSE)>>, TRUE, TRUE, TRUE)

Open == YAML(<<AuthEntry, FeignEntry>>, FALSE, FALSE, TRUE)
Keyless == YAML(<<AuthEntry>>, Unset, TRUE, FALSE)
Clash == YAML(<<AuthEntry, [FeignEntry EXCEPT !.prefix = AuthEntry.prefix]>>, Unset, TRUE, TRUE)

Http(path, bearer, claims) == [path |-> path, bearer |-> bearer, claims |-> claims]

SafetyShapes == { Http(User, TRUE, TRUE), Http(Document, FALSE, FALSE), Http(Feign, FALSE, TRUE) }

RaceConfigs == {Base, Split, Open, Keyless, Clash}

Up == [healthy |-> Unset, enabled |-> TRUE, weight |-> Unset]
Disabled == [healthy |-> TRUE, enabled |-> FALSE, weight |-> 1]
Weightless == [healthy |-> TRUE, enabled |-> TRUE, weight |-> 0]
WeightListings == {Up, Weightless}
EnabledListings == {Up, Disabled}
MCServiceOf == (i1 :> "A")
Symmetric == Permutations(Requests)
==============================================================================
