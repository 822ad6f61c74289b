---------------------------- MODULE GatewayConfig ----------------------------
(***************************************************************************)
(* What the gateway derives from the contents of its Nacos YAML each time  *)
(* it reads them: the routing table, the entry-authentication options and  *)
(* the route of a path.  ServiceConfigService (config.service.ts) caches   *)
(* nothing, so every operator here is a function of one configuration.     *)
(*                                                                         *)
(* A path is the sequence of its segments: "/api/auth/token" is            *)
(* <<"api", "auth", "token">>.  A route prefix never ends in "/", so the   *)
(* test "equal, or starts with prefix + '/'" is the prefix order on        *)
(* sequences.                                                              *)
(*                                                                         *)
(* A configuration c is a record                                           *)
(*   routes : sequence of route entries, or Unset when the key is missing  *)
(*   auth   : [enabled, token, publicPaths], token = gateway.feign.service_token present *)
(*   secret : the principal signing key is present                         *)
(***************************************************************************)
EXTENDS Integers, Sequences, FiniteSets

Seqs == INSTANCE SequencesExt

CONSTANTS
    Paths,          \* request paths and route prefixes
    Length(_),      \* Length(p): characters of path p
    Unset,          \* an optional key that is missing
    NoRoute         \* what find() returns when nothing matches

\* "/a/b" is longer than "/a": all that the sort of the table relies on.
ASSUME LengthAssumption ==
    /\ Paths \subseteq Seq(STRING)
    /\ \A p, q \in Paths :
           /\ Length(p) \in Nat
           /\ Seqs!IsStrictPrefix(p, q) => Length(p) < Length(q)

-----------------------------------------------------------------------------
(* Routing table                                                            *)

Flag(value, default) == IF value = Unset THEN default ELSE value

\* /^\/(api|feign)\/[a-z0-9].../, no trailing slash.
IsRoutePrefix(prefix) ==
    /\ Len(prefix) >= 2
    /\ prefix[1] \in {"api", "feign"}
    /\ prefix[2] # ""
    /\ prefix[Len(prefix)] # ""

\* What a list of route entries must be for the operators below to apply.
IsEntryList(entries) ==
    /\ Len(entries) \in Nat /\ DOMAIN entries = 1 .. Len(entries)
    /\ \A i \in DOMAIN entries :
          /\ {"prefix", "fallbackEnabled", "enabled", "stripPrefix"} \subseteq DOMAIN entries[i]
          /\ entries[i].prefix \in Paths

ParseRoute(entry) ==
    [entry EXCEPT !.fallbackEnabled = Flag(@, FALSE),
                  !.enabled = Flag(@, TRUE),
                  !.stripPrefix = Flag(@, entry.prefix[1] # "feign")]

\* Uniqueness counts the disabled entries too.
IsRouteList(entries) ==
    /\ \A i \in DOMAIN entries : IsRoutePrefix(entries[i].prefix)
    /\ \A i, j \in DOMAIN entries :
          i # j => /\ entries[i].id # entries[j].id
                   /\ entries[i].prefix # entries[j].prefix

EnabledIn(entries) == {i \in DOMAIN entries : Flag(entries[i].enabled, TRUE)}

\* Mutant: the table keeps the order of the YAML.
GoesBeforeAsListed(entries, i, j) == i < j

\* The comparator of the table: longest prefix first, the sort being stable.
GoesBefore(entries, i, j) ==
    \/ Length(entries[i].prefix) > Length(entries[j].prefix)
    \/ Length(entries[i].prefix) = Length(entries[j].prefix) /\ i < j

Position(entries, i) == Cardinality({j \in EnabledIn(entries) : GoesBefore(entries, j, i)}) + 1

\* The enabled routes, sorted.
ParseGatewayRoutes(entries) ==
    [k \in 1 .. Cardinality(EnabledIn(entries)) |->
        ParseRoute(entries[CHOOSE i \in EnabledIn(entries) : Position(entries, i) = k])]

FallbackRoute(id, service) ==
    [id |-> id, prefix |-> <<"api", id>>, serviceName |-> service,
     fallbackEnabled |-> FALSE, enabled |-> TRUE, stripPrefix |-> TRUE]

\* Used while gateway.routes is missing; already in table form.
FallbackGatewayRoutes ==
    << FallbackRoute("auth", "chat-web-auth-service"),
       FallbackRoute("skyline", "chat-web-skyline-service"),
       FallbackRoute("finance", "chat-web-finance-service") >>

\* getGatewayRoutes returns a table only for these; it throws for the others.
HasGatewayRoutes(c) == c.routes = Unset \/ IsRouteList(c.routes)

GetGatewayRoutes(c) ==
    IF c.routes = Unset THEN FallbackGatewayRoutes ELSE ParseGatewayRoutes(c.routes)

-----------------------------------------------------------------------------
(* Looking a path up                                                        *)

\* pathname === prefix || pathname.startsWith(prefix + '/')
Under(path, prefix) == Seqs!IsPrefix(prefix, path)

Hits(table, path) == {i \in DOMAIN table : Under(path, table[i].prefix)}

\* Array.prototype.find: the first entry that matches.
FirstMatch(table, path) ==
    IF Hits(table, path) = {} THEN NoRoute
    ELSE table[CHOOSE i \in Hits(table, path) : \A j \in Hits(table, path) : i <= j]

FindRoute(c, path) == FirstMatch(GetGatewayRoutes(c), path)

\* The empty sequence is "/".
GetDownstreamPath(route, path) ==
    IF route.stripPrefix THEN SubSeq(path, Len(route.prefix) + 1, Len(path)) ELSE path

\* The OpenAPI document of a public route, which the gateway rewrites itself.
IsGatewayOpenApiJsonPath(path, prefix) == path = prefix \o <<"api", "swagger-json">>

-----------------------------------------------------------------------------
(* Entry authentication                                                     *)

DefaultPublicPaths ==
    { <<"health">>, <<"health", "live">>, <<"health", "ready">>, <<"doc.html">>,
      <<"services.json">>, <<"api", "swagger">>, <<"api", "swagger-json">>,
      <<"api", "auth", "codex", "write">>, <<"api", "auth", "token", "login">> }

PublicPaths(c) ==
    IF c.auth.publicPaths = Unset THEN DefaultPublicPaths ELSE c.auth.publicPaths

AuthEnabled(c) == Flag(c.auth.enabled, TRUE)

\* getGatewayAuthOptions returns; it throws for the other configurations.
HasGatewayAuthOptions(c) ==
    /\ HasGatewayRoutes(c)
    /\ AuthEnabled(c) =>
          /\ \E i \in DOMAIN GetGatewayRoutes(c) : GetGatewayRoutes(c)[i].id = "auth"
          /\ c.auth.token

IsHealthPath(path) == Len(path) >= 3 /\ path[1] = "api" /\ path[2] # "" /\ path[3] = "health"

IsSwaggerPath(path) ==
    /\ Len(path) = 4
    /\ path[1] = "api" /\ path[2] # "" /\ path[3] = "api"
    /\ path[4] \in {"swagger", "swagger-json"}

ShouldAuthenticate(c, path) ==
    /\ Len(path) >= 2 /\ path[1] = "api"
    /\ Hits(GetGatewayRoutes(c), path) # {}
    /\ ~ \E public \in PublicPaths(c) : Under(path, public)
    /\ ~ IsHealthPath(path)
    /\ ~ IsSwaggerPath(path)

\* authenticate() goes on to ask for a bearer token.
NeedsToken(c, path) == AuthEnabled(c) /\ ShouldAuthenticate(c, path)

-----------------------------------------------------------------------------
(* Instances, logs and documents                                            *)

\* A Nacos instance: enabled, healthy flags (Unset counts as true), weight.
IsRoutableNacosInstance(instance) ==
    /\ Flag(instance.healthy, TRUE)
    /\ Flag(instance.enabled, TRUE)
    /\ Flag(instance.weight, 1) > 0

EndsWith(path, suffix) == Seqs!IsSuffix(suffix, path)

\* Health checks, documents and attachments stay out of the log.  (Suffix
\* tests on the last characters of a file name are left out: no path of the
\* model has one.)
ShouldLogGatewayRequestPath(path) ==
    /\ ~ \E quiet \in {<<"health">>, <<"health", "live">>, <<"health", "ready">>,
                       <<"api", "swagger-json">>, <<"api", "swagger">>, <<"doc.html">>,
                       <<"favicon.ico">>} : EndsWith(path, quiet)
    /\ ~ \E i \in 1 .. Len(path) - 2 : path[i] = "api" /\ path[i + 1] = "swagger"
    /\ ~ \E i \in 1 .. Len(path) - 1 :
          path[i] \in {"attachment", "attachments", "upload", "uploads",
                      "download", "downloads", "file", "files"}

\* Mutant: a service with two public routes is listed twice.
ListsEveryRoute(table, i) == table[i].prefix[1] = "api"

\* The aggregated document list: one entry per service, the first public
\* route of each, in table order.
KeepsPlace(table, i) ==
    /\ table[i].prefix[1] = "api"
    /\ \A j \in 1 .. i - 1 :
          table[j].prefix[1] = "api" => table[j].serviceName # table[i].serviceName

Knife4jDocuments(table) ==
    { [name |-> table[i].serviceName,
       url  |-> table[i].prefix \o <<"api", "swagger-json">>] :
      i \in {k \in DOMAIN table : KeepsPlace(table, k)} }

\* Mutant: every /api path of a downstream document is taken for a gateway path.
KeepsAnyApiPath(path, apiPrefix) ==
    IF Len(path) >= 2 /\ path[1] \in {"feign", "internal", "api"} THEN path
    ELSE apiPrefix \o path

\* Mutant: a first segment the prefix already ends with is not repeated.
JoinsOverlap(path, apiPrefix) ==
    IF \/ Len(path) >= 2 /\ path[1] \in {"feign", "internal"}
       \/ Under(path, apiPrefix)
    THEN path
    ELSE IF path # <<>> /\ path[1] = apiPrefix[Len(apiPrefix)] THEN apiPrefix \o Tail(path)
    ELSE apiPrefix \o path

\* OpenAPI paths of a downstream document as the gateway publishes them.  A path
\* is its segments here: OpenAPI requires the leading slash, and the code adds it
\* where a document leaves it out, so both spellings are one path.
RewriteGatewaySwaggerPath(path, apiPrefix) ==
    IF \/ Len(path) >= 2 /\ path[1] \in {"feign", "internal"}
       \/ Under(path, apiPrefix)
    THEN path
    ELSE apiPrefix \o path
=============================================================================
