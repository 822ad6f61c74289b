---------------------------- MODULE GatewayRequest ----------------------------
(***************************************************************************)
(* Concurrent HTTP requests on their way through the gateway: stripping of *)
(* client identities (main.ts), entry authentication (gateway-auth.        *)
(* service.ts), OpenAPI rewriting, routing, service discovery and the      *)
(* proxy's event handlers (gateway-proxy.service.ts), as main.ts wires     *)
(* them together.  WebSocket upgrades take another way, past Express: they *)
(* are in GatewayUpgrade, and appear here as a fall of the process only.   *)
(*                                                                         *)
(* Node runs one callback at a time, so an action is what runs between two *)
(* awaits (microtasks included).  At every await the Nacos configuration,  *)
(* the instance registry and the local instance cache may change: the code *)
(* reads the configuration again each time it needs it, and pins the       *)
(* matched route of a request in matchedRoutes.                            *)
(*                                                                         *)
(* The CORS middleware answers every OPTIONS request before authentication *)
(* and an upgrade is a GET, so the OPTIONS exemption of authenticate()     *)
(* never applies and preflights are not part of the model.  The logging    *)
(* middleware parses every request target before routing does, so each     *)
(* target that gets here is one that new URL() accepts.                    *)
(***************************************************************************)
EXTENDS GatewayConfig

CONSTANTS
    Requests,       \* HTTP requests the clients make
    Shapes,         \* what they may look like: [path, bearer, claims]
    Configs,        \* contents the YAML may have
    Instances,      \* downstream service instances
    ServiceOf,      \* [Instances -> service names]
    Listings,       \* [healthy, enabled, weight] an instance may be listed with
    NoShape, NoTarget, FallbackTarget, DeadTarget

\* The four sentinels differ from each other and from what they stand beside.
ASSUME RequestAssumption ==
    /\ ServiceOf \in [Instances -> {ServiceOf[i] : i \in Instances}]
    /\ {NoTarget, FallbackTarget, DeadTarget} \cap Instances = {}
    /\ NoTarget # FallbackTarget /\ NoTarget # DeadTarget /\ FallbackTarget # DeadTarget
    /\ NoShape \notin Shapes
    /\ Shapes \subseteq [path : Paths,
                         bearer : BOOLEAN,     \* carries a bearer token
                         claims : BOOLEAN]     \* carries a principal header of its own
    /\ \A s \in Shapes : s.path # <<>> /\ s.path[1] \in {"api", "feign"}

\* The operators of GatewayConfig apply to every configuration.
ASSUME ConfigAssumption ==
    \A c \in Configs : c.routes = Unset \/ IsEntryList(c.routes)

VARIABLES
    alive,          \* the gateway process is up
    config,         \* current contents of the YAML
    registry,       \* what Nacos lists for each instance
    cached,         \* routable instances in the gateway's subscription cache
    stage,          \* where each request is
    shape,          \* what each request looks like after the stripping
    route,          \* its pinned route (matchedRoutes)
    vouched,        \* introspection approved its token
    listed,         \* routable instances its getAllInstances returned
    target,         \* where the router sends it
    unavailable,    \* requests whose resolution failed (unavailableRequests)
    wire,           \* what the proxy puts on the downstream request
    answer,         \* what the client got, and why
    logged,         \* requests the proxy logged as downstream failures
    reports         \* access-log lines proxyRes wrote for each request

env == <<config, registry, cached>>
request == <<stage, shape, route, vouched, listed, target, unavailable, wire, answer, logged,
             reports>>
vars == <<alive, env, request>>

Stages == {"idle", "introspecting", "verdict", "swaggerResolve", "swaggerFetch", "listing",
           "resolving", "connecting", "awaiting", "relaying", "hanging", "done", "left", "lost"}
Over == {"done", "left", "lost"}
InFlight == Stages \ ({"idle"} \cup Over)
Proxying == {"listing", "resolving", "connecting", "awaiting", "relaying", "hanging"}

Codes == {"none", "local", "401", "429", "502", "503", "relayed", "document"}
Causes == {"none", "unrouted", "rateLimit", "authConfig", "noToken", "authDown", "authDeadline",
           "denied", "authBroken", "noInstance", "fault", "downstream", "document"}
Identities == {"none", "claimed", "signed"}
NoAnswer == [code |-> "none", cause |-> "none"]
NoWire == [service |-> "none", path |-> <<>>, prefix |-> <<>>, principal |-> "none"]

Init ==
    /\ alive = TRUE
    /\ config \in {c \in Configs : HasGatewayAuthOptions(c)}   \* onApplicationBootstrap
    /\ registry \in [Instances -> Listings]
    /\ cached = {i \in Instances : IsRoutableNacosInstance(registry[i])}
    /\ stage = [r \in Requests |-> "idle"]
    /\ shape = [r \in Requests |-> NoShape]
    /\ route = [r \in Requests |-> NoRoute]
    /\ vouched = [r \in Requests |-> FALSE]
    /\ listed = [r \in Requests |-> {}]
    /\ target = [r \in Requests |-> NoTarget]
    /\ unavailable = {}
    /\ wire = [r \in Requests |-> NoWire]
    /\ answer = [r \in Requests |-> NoAnswer]
    /\ logged = {}
    /\ reports = [r \in Requests |-> 0]

-----------------------------------------------------------------------------
(* Endings                                                                  *)

Answer(r, code, cause) ==
    /\ answer' = [answer EXCEPT ![r] = [code |-> code, cause |-> cause]]
    /\ stage' = [stage EXCEPT ![r] = "done"]

\* All connections end with the process.
GoDown(lost) ==
    /\ alive' = FALSE
    /\ stage' = [q \in Requests |->
                    IF q \in lost \/ stage[q] \in InFlight THEN "lost" ELSE stage[q]]
    /\ unavailable' = {}
    /\ UNCHANGED <<answer, logged>>

\* An exception nobody catches ends the process.
Crash(r) == GoDown({r})

-----------------------------------------------------------------------------
(* Routing                                                                  *)

\* router() starts with the instance list unless the route may fall back.
RouterStage(x) == IF x.fallbackEnabled THEN "resolving" ELSE "listing"

\* findRoute throws when the table cannot be read; pathFilter's caller takes
\* that for no match.
RouteOf(c, s) == IF HasGatewayRoutes(c) THEN FindRoute(c, s.path) ELSE NoRoute

\* Mutant: a lookup without a match throws, as getMatchedRoute does.
DispatchThrowsUnrouted(r, s) ==
    LET found == RouteOf(config, s)
    IN  IF found = NoRoute
        THEN Crash(r) /\ UNCHANGED route
        ELSE /\ route' = [route EXCEPT ![r] = found]
             /\ stage' = [stage EXCEPT ![r] = RouterStage(found)]
             /\ UNCHANGED <<alive, unavailable, answer, logged>>

\* One synchronous run through tryServeRewrittenSwagger (for /api), the proxy
\* handler and pathFilter.  When findRoute throws inside the voided swagger
\* promise nobody catches it.
Dispatch(r, s) ==
    LET found == RouteOf(config, s)
        api == s.path[1] = "api"
    IN  \/ /\ api /\ ~ HasGatewayRoutes(config)
           /\ Crash(r)
           /\ UNCHANGED route
        \/ /\ (api => HasGatewayRoutes(config)) /\ found = NoRoute
           /\ Answer(r, "local", "unrouted")
           /\ UNCHANGED <<alive, route, unavailable, logged>>
        \/ /\ found # NoRoute
           /\ route' = [route EXCEPT ![r] = found]
           /\ stage' = [stage EXCEPT ![r] =
                 IF api /\ IsGatewayOpenApiJsonPath(s.path, found.prefix)
                    THEN "swaggerResolve" ELSE RouterStage(found)]
           /\ UNCHANGED <<alive, unavailable, answer, logged>>

\* authenticate() up to its first await.
Authenticate(r, s) ==
    \/ /\ ~ HasGatewayAuthOptions(config)
       /\ Answer(r, "503", "authConfig")
       /\ UNCHANGED <<alive, route, unavailable, logged>>
    \/ /\ HasGatewayAuthOptions(config) /\ ~ NeedsToken(config, s.path)
       /\ Dispatch(r, s)
    \/ /\ HasGatewayAuthOptions(config) /\ NeedsToken(config, s.path) /\ ~ s.bearer
       /\ Answer(r, "401", "noToken")
       /\ UNCHANGED <<alive, route, unavailable, logged>>
    \/ /\ HasGatewayAuthOptions(config) /\ NeedsToken(config, s.path) /\ s.bearer
       /\ stage' = [stage EXCEPT ![r] = "introspecting"]
       /\ UNCHANGED <<alive, route, unavailable, answer, logged>>

\* Mutant: the headers of the client go on as they came.
KeepIdentity(s) == s

\* The first middleware of all deletes the identity headers of the client.
StripIdentity(s) == [s EXCEPT !.claims = FALSE]

\* An HTTP request reaches the middleware; only /api is authenticated.
ReceiveHttp(r, s) ==
    /\ alive /\ stage[r] = "idle"
    /\ shape' = [shape EXCEPT ![r] = StripIdentity(s)]
    /\ IF s.path[1] = "api" THEN Authenticate(r, StripIdentity(s))
                            ELSE Dispatch(r, StripIdentity(s))
    /\ UNCHANGED <<env, vouched, listed, target, wire, reports>>

\* The limiter runs before authentication.
RateLimited(r, s) ==
    /\ alive /\ stage[r] = "idle"
    /\ shape' = [shape EXCEPT ![r] = StripIdentity(s)]
    /\ Answer(r, "429", "rateLimit")
    /\ UNCHANGED <<alive, env, route, vouched, listed, target, unavailable, wire, logged, reports>>

-----------------------------------------------------------------------------
(* Introspection                                                            *)

\* resolveService or fetch fails.
IntrospectionFails(r) ==
    /\ stage[r] = "introspecting"
    /\ Answer(r, "503", "authDown")
    /\ UNCHANGED <<alive, env, shape, route, vouched, listed, target, unavailable, wire,
                   logged, reports>>

\* Mutant: a timeout of the authentication service lets the request pass.
DeadlineFailsOpen(r) ==
    /\ stage[r] \in {"introspecting", "verdict"}
    /\ Dispatch(r, shape[r])
    /\ UNCHANGED <<env, shape, vouched, listed, target, wire, reports>>

\* AbortSignal.timeout fires, before the response or while its body is read.
IntrospectionDeadline(r) ==
    /\ stage[r] \in {"introspecting", "verdict"}
    /\ Answer(r, IF stage[r] = "verdict" THEN "502" ELSE "503", "authDeadline")
    /\ UNCHANGED <<alive, env, shape, route, vouched, listed, target, unavailable, wire,
                   logged, reports>>

IntrospectionResponds(r) ==
    /\ stage[r] = "introspecting"
    /\ stage' = [stage EXCEPT ![r] = "verdict"]
    /\ UNCHANGED <<alive, env, shape, route, vouched, listed, target, unavailable, wire,
                   answer, logged, reports>>

\* 401/403, or anything else that is not code 200 with a usable principal.
IntrospectionRejects(r) ==
    /\ stage[r] = "verdict"
    /\ Answer(r, "401", "denied") \/ Answer(r, "502", "authBroken")
    /\ UNCHANGED <<alive, env, shape, route, vouched, listed, target, unavailable, wire,
                   logged, reports>>

\* next() and all it runs follow in the same turn, under today's config.
IntrospectionApproves(r) ==
    /\ stage[r] = "verdict"
    /\ vouched' = [vouched EXCEPT ![r] = TRUE]
    /\ Dispatch(r, shape[r])
    /\ UNCHANGED <<env, shape, listed, target, wire, reports>>

-----------------------------------------------------------------------------
(* Service discovery                                                        *)

\* Mutant: the route is looked up again at every use.
LookUpAgain(r) ==
    IF HasGatewayRoutes(config) /\ FindRoute(config, shape[r].path) # NoRoute
    THEN FindRoute(config, shape[r].path) ELSE route[r]

\* The pinned route, or a fresh lookup for a request that has none.
GetMatchedRoute(r) ==
    IF route[r] # NoRoute THEN route[r] ELSE FindRoute(config, shape[r].path)

\* Mutant: keeps the listed records, not the instances they describe.
RoutableListings(service) ==
    {registry[i] : i \in {j \in Instances :
        ServiceOf[j] = service /\ IsRoutableNacosInstance(registry[j])}}

RoutableInstances(service) ==
    {i \in Instances : ServiceOf[i] = service /\ IsRoutableNacosInstance(registry[i])}

\* NacosService.resolveService: a cached instance, else the fallback given.
\* No target means that it rejects.
ResolveService(service, mayFallBack) ==
    LET known == {i \in cached : ServiceOf[i] = service}
    IN  IF known # {} THEN known ELSE IF mayFallBack THEN {FallbackTarget} ELSE {}

\* router() has its answer; pathRewrite follows.
SendTo(r, t) ==
    /\ target' = [target EXCEPT ![r] = t]
    /\ wire' = [wire EXCEPT ![r] =
          [service |-> GetMatchedRoute(r).serviceName,
           path |-> GetDownstreamPath(GetMatchedRoute(r), shape[r].path),
           prefix |-> <<>>, principal |-> "none"]]
    /\ stage' = [stage EXCEPT ![r] = "connecting"]

MarkUnavailable(r) ==
    /\ unavailable' = unavailable \cup {r}
    /\ SendTo(r, DeadTarget)

\* Mutant: the emptiness of the list is not looked at.
ListWithoutCheck(r) ==
    /\ stage[r] = "listing"
    /\ listed' = [listed EXCEPT ![r] = RoutableInstances(GetMatchedRoute(r).serviceName)]
    /\ stage' = [stage EXCEPT ![r] = "resolving"]
    /\ UNCHANGED <<alive, env, shape, route, vouched, target, unavailable, wire, answer,
                   logged, reports>>

\* getAllInstances answers or throws.
ListInstances(r) ==
    /\ stage[r] = "listing"
    /\ LET up == RoutableInstances(GetMatchedRoute(r).serviceName)
       IN  /\ listed' = [listed EXCEPT ![r] = up]
           /\ IF up = {} THEN MarkUnavailable(r)
              ELSE /\ stage' = [stage EXCEPT ![r] = "resolving"]
                   /\ UNCHANGED <<target, unavailable, wire>>
    /\ UNCHANGED <<alive, env, shape, route, vouched, answer, logged, reports>>

\* Mutant: a failed read of the list is not flagged.
ListingFailsUnflagged(r) ==
    /\ stage[r] = "listing"
    /\ SendTo(r, DeadTarget)
    /\ UNCHANGED <<alive, env, shape, route, vouched, listed, unavailable, answer, logged, reports>>

ListingFails(r) ==
    /\ stage[r] = "listing"
    /\ MarkUnavailable(r)
    /\ UNCHANGED <<alive, env, shape, route, vouched, listed, answer, logged, reports>>

Resolve(r) ==
    /\ stage[r] = "resolving"
    /\ \E t \in ResolveService(GetMatchedRoute(r).serviceName, GetMatchedRoute(r).fallbackEnabled) :
          SendTo(r, t)
    /\ UNCHANGED <<alive, env, shape, route, vouched, listed, unavailable, answer, logged, reports>>

\* No instance and no fallback, or Nacos itself fails.
ResolutionFails(r) ==
    /\ stage[r] = "resolving"
    /\ MarkUnavailable(r)
    /\ UNCHANGED <<alive, env, shape, route, vouched, listed, answer, logged, reports>>

-----------------------------------------------------------------------------
(* The exchange with the downstream service                                 *)

\* What is left of the principal header the client sent.
Carried(r) == IF shape[r].claims THEN "claimed" ELSE "none"

\* Mutant: without a key the principal is silently left out.
HeadersWithoutKey(r) ==
    /\ stage[r] = "connecting"
    /\ wire' = [wire EXCEPT ![r].prefix = GetMatchedRoute(r).prefix,
                           ![r].principal = IF vouched[r] /\ config.secret THEN "signed"
                                            ELSE Carried(r)]
    /\ stage' = [stage EXCEPT ![r] = "awaiting"]
    /\ UNCHANGED <<alive, env, shape, route, vouched, listed, target, unavailable, answer,
                   logged, reports>>

\* proxyReq: the headers of the request are copied and the principal is set
\* over them; signPrincipal throws inside the event listener when the signing
\* key is missing.
SetProxyHeaders(r) ==
    /\ stage[r] = "connecting"
    /\ \/ /\ vouched[r] /\ ~ config.secret
          /\ wire' = wire
          /\ Crash(r)
       \/ /\ vouched[r] => config.secret
          /\ wire' = [wire EXCEPT ![r].prefix = GetMatchedRoute(r).prefix,
                                 ![r].principal = IF vouched[r] THEN "signed" ELSE Carried(r)]
          /\ stage' = [stage EXCEPT ![r] = "awaiting"]
          /\ UNCHANGED <<alive, unavailable, answer, logged>>
    /\ UNCHANGED <<env, shape, route, vouched, listed, target, reports>>

\* Mutant: finish() does not look whether a code was reported before.
ObserveAgain(r) ==
    reports' = IF ShouldLogGatewayRequestPath(shape[r].path)
               THEN [reports EXCEPT ![r] = @ + 1] ELSE reports

\* The observer of the business code has one: it reports the first it gets,
\* on paths that are logged at all.
Observe(r) ==
    reports' = IF ShouldLogGatewayRequestPath(shape[r].path) /\ reports[r] = 0
               THEN [reports EXCEPT ![r] = 1] ELSE reports

\* The response head is there, but nothing of it goes out before the first part
\* of its body or its end.  The observer has its code at once if a header or a
\* status other than 2xx gives it.
DownstreamResponds(r) ==
    /\ stage[r] = "awaiting" /\ target[r] # DeadTarget
    /\ stage' = [stage EXCEPT ![r] = "relaying"]
    /\ Observe(r) \/ UNCHANGED reports
    /\ UNCHANGED <<alive, env, shape, route, vouched, listed, target, unavailable, wire, answer,
                   logged>>

Relayed == [code |-> "relayed", cause |-> "downstream"]

\* A data event: headers and data go out; what has arrived of the body may
\* parse and name a code.
BodyArrives(r) ==
    /\ stage[r] = "relaying"
    /\ answer' = [answer EXCEPT ![r] = Relayed]
    /\ Observe(r) \/ UNCHANGED reports
    /\ UNCHANGED <<alive, env, shape, route, vouched, listed, target, unavailable, wire,
                   stage, logged>>

\* The end event, with or without a code in the body.
RelayEnds(r) ==
    /\ stage[r] = "relaying"
    /\ answer' = [answer EXCEPT ![r] = Relayed]
    /\ stage' = [stage EXCEPT ![r] = "done"]
    /\ Observe(r)
    /\ UNCHANGED <<alive, env, shape, route, vouched, listed, target, unavailable, wire, logged>>

\* The downstream connection closes early or proxyTimeout aborts it: only the
\* response hears of it, and so its observer; nobody ends what goes to the client.
BreaksOff(r) ==
    /\ stage[r] = "relaying"
    /\ stage' = [stage EXCEPT ![r] = "hanging"]
    /\ Observe(r)
    /\ UNCHANGED <<alive, env, shape, route, vouched, listed, target, unavailable, wire,
                   answer, logged>>

\* Mutant: headersSent is not consulted.
ErrorAlwaysAnswers(r) ==
    /\ stage[r] \in {"awaiting", "relaying"}
    /\ unavailable' = unavailable \ {r}
    /\ Answer(r, "503", "fault")
    /\ UNCHANGED <<alive, env, shape, route, vouched, listed, target, wire, logged, reports>>

\* The proxy's error event: the connection is refused, proxyTimeout fires before
\* the response, or the connection is reset, which an observed response hears
\* as well.  Once headers are out the response is only ended.
ErrorHandler(r) ==
    /\ stage[r] \in {"awaiting", "relaying"}
    /\ unavailable' = unavailable \ {r}
    /\ logged' = IF ShouldLogGatewayRequestPath(shape[r].path) /\ r \notin unavailable
                 THEN logged \cup {r} ELSE logged
    /\ IF answer[r] # NoAnswer
       THEN /\ stage' = [stage EXCEPT ![r] = "done"]
            /\ answer' = answer
       ELSE Answer(r, "503", IF r \in unavailable THEN "noInstance" ELSE "fault")
    /\ IF stage[r] = "relaying" THEN Observe(r) ELSE UNCHANGED reports
    /\ UNCHANGED <<alive, env, shape, route, vouched, listed, target, wire>>

\* Mutant: the connection to the client has no idle timeout.
ConnectionClosesEarlyOnly(r) ==
    /\ stage[r] \in {"awaiting", "relaying"}
    /\ stage' = [stage EXCEPT ![r] = "left"]
    /\ IF stage[r] = "relaying" THEN Observe(r) ELSE UNCHANGED reports
    /\ UNCHANGED <<alive, env, shape, route, vouched, listed, target, unavailable, wire,
                   answer, logged>>

\* The client's connection ends, by itself or by the idle timeout the proxy sets
\* on it.  The proxy aborts the downstream request and emits econnreset, which
\* has no handler here, or destroys the response, which its observer hears.  A
\* client that leaves earlier is not noticed before the request is sent.
ConnectionCloses(r) ==
    /\ stage[r] \in {"awaiting", "relaying", "hanging"}
    /\ stage' = [stage EXCEPT ![r] = "left"]
    /\ IF stage[r] = "relaying" THEN Observe(r) ELSE UNCHANGED reports
    /\ UNCHANGED <<alive, env, shape, route, vouched, listed, target, unavailable, wire,
                   answer, logged>>

-----------------------------------------------------------------------------
(* The OpenAPI document of a service, fetched and rewritten by the gateway  *)

SwaggerResolve(r) ==
    /\ stage[r] = "swaggerResolve"
    /\ \E t \in ResolveService(route[r].serviceName, route[r].fallbackEnabled) :
          target' = [target EXCEPT ![r] = t]
    /\ stage' = [stage EXCEPT ![r] = "swaggerFetch"]
    /\ UNCHANGED <<alive, env, shape, route, vouched, listed, unavailable, wire, answer,
                   logged, reports>>

SwaggerServed(r) ==
    /\ stage[r] = "swaggerFetch"
    /\ Answer(r, "document", "downstream")
    /\ UNCHANGED <<alive, env, shape, route, vouched, listed, target, unavailable, wire,
                   logged, reports>>

SwaggerFails(r) ==
    /\ stage[r] \in {"swaggerResolve", "swaggerFetch"}
    /\ Answer(r, "502", "document")
    /\ UNCHANGED <<alive, env, shape, route, vouched, listed, target, unavailable, wire,
                   logged, reports>>

-----------------------------------------------------------------------------
(* The world around                                                         *)

\* Somebody publishes another configuration; the next read sees it.
ChangeConfig ==
    /\ config' \in Configs \ {config}
    /\ UNCHANGED <<alive, registry, cached, request>>

ChangeListing(i) ==
    /\ \E l \in Listings \ {registry[i]} : registry' = [registry EXCEPT ![i] = l]
    /\ UNCHANGED <<alive, config, cached, request>>

\* Nacos pushes the instances of one service to the subscription cache.
PushInstances(i) ==
    /\ alive
    /\ cached' = {j \in cached : ServiceOf[j] # ServiceOf[i]}
                    \cup RoutableInstances(ServiceOf[i])
    /\ UNCHANGED <<alive, config, registry, request>>

\* restart: unless-stopped; a start with unusable options fails again.
Restart ==
    /\ ~ alive /\ HasGatewayAuthOptions(config)
    /\ alive' = TRUE
    /\ cached' = {i \in Instances : IsRoutableNacosInstance(registry[i])}
    /\ UNCHANGED <<config, registry, request>>

\* What else ends the process: an upgrade (GatewayUpgrade), or a signal.
Fall ==
    /\ alive
    /\ GoDown({})
    /\ UNCHANGED <<env, shape, route, vouched, listed, target, wire, reports>>

Receive(r) == \E s \in Shapes : ReceiveHttp(r, s) \/ RateLimited(r, s)

\* Whatever an in-flight request waits for settles.
Progress(r) ==
    \/ IntrospectionFails(r) \/ IntrospectionDeadline(r) \/ IntrospectionResponds(r)
    \/ IntrospectionRejects(r) \/ IntrospectionApproves(r)
    \/ ListInstances(r) \/ ListingFails(r) \/ Resolve(r) \/ ResolutionFails(r)
    \/ SetProxyHeaders(r) \/ DownstreamResponds(r) \/ BodyArrives(r)
    \/ RelayEnds(r) \/ BreaksOff(r) \/ ErrorHandler(r) \/ ConnectionCloses(r)
    \/ SwaggerResolve(r) \/ SwaggerServed(r) \/ SwaggerFails(r)

Surroundings ==
    \/ ChangeConfig \/ Restart
    \/ \E i \in Instances : ChangeListing(i) \/ PushInstances(i)

Next == Surroundings \/ Fall \/ \E r \in Requests : Receive(r) \/ Progress(r)

Spec == Init /\ [][Next]_vars

\* The response is on its way to the client: for as long as the service likes.
Streaming(r) == stage[r] = "relaying" /\ answer[r] # NoAnswer

-----------------------------------------------------------------------------
(* Properties                                                               *)

\* The routes a lookup may ever find.
Lookups ==
    {FindRoute(c, s.path) : c \in {d \in Configs : HasGatewayRoutes(d)}, s \in Shapes} \ {NoRoute}

Wires ==
    [service : {"none"} \cup {x.serviceName : x \in Lookups},
     path : {<<>>} \cup {GetDownstreamPath(x, s.path) : x \in Lookups, s \in Shapes},
     prefix : {<<>>} \cup {x.prefix : x \in Lookups},
     principal : Identities]

\* Requests as they are once their identity headers are gone.
Stripped == {StripIdentity(s) : s \in Shapes}

\* The types of everything but the log counters.
Typed ==
    /\ alive \in BOOLEAN
    /\ config \in Configs
    /\ registry \in [Instances -> Listings]
    /\ cached \subseteq Instances
    /\ stage \in [Requests -> Stages]
    /\ shape \in [Requests -> Stripped \cup {NoShape}]
    /\ route \in [Requests -> Lookups \cup {NoRoute}]
    /\ vouched \in [Requests -> BOOLEAN]
    /\ listed \in [Requests -> SUBSET Instances]
    /\ target \in [Requests -> Instances \cup {NoTarget, FallbackTarget, DeadTarget}]
    /\ unavailable \subseteq Requests
    /\ wire \in [Requests -> Wires]
    /\ answer \in [Requests -> [code : Codes, cause : Causes]]
    /\ logged \subseteq Requests

\* Every variable keeps its type: whatever a request is pinned to and puts on the
\* wire comes from some route of the configurations.
TypeOK == Typed /\ reports \in [Requests -> Nat]

\* The proxy has sent the request head downstream.
Sent(r) == wire[r].prefix # <<>>

\* However often the YAML changes while a request is in flight, the service it
\* is sent to, the rewritten path, the x-forwarded-prefix header, the chosen
\* instance and the permission to fall back all come from one route: the one
\* the routing table of a single configuration gives its path.
OneRouteDecides ==
    \A r \in Requests : Sent(r) =>
        \E c \in Configs :
            /\ HasGatewayRoutes(c)
            /\ LET x == FindRoute(c, shape[r].path)
               IN  /\ x # NoRoute
                   /\ wire[r].service = x.serviceName
                   /\ wire[r].path = GetDownstreamPath(x, shape[r].path)
                   /\ wire[r].prefix = x.prefix
                   /\ target[r] \in Instances => ServiceOf[target[r]] = x.serviceName
                   /\ target[r] = FallbackTarget => x.fallbackEnabled

\* A path that needs a token under the configuration in force when its route is
\* pinned is only forwarded (or its document fetched) once introspection has
\* approved the token, whatever the configuration was when it arrived.
ForwardedAreVouched ==
    [][\A r \in Requests :
         /\ stage[r] \in {"idle", "introspecting", "verdict"}
         /\ stage'[r] \in Proxying \cup {"swaggerResolve"}
         /\ NeedsToken(config, shape'[r].path)
         => vouched'[r]]_vars

\* A client gets one answer: the error handler, which may run before the response
\* headers have gone out and after it, never answers a request a second time.
AnsweredOnce ==
    [][\A r \in Requests : answer[r] # NoAnswer => answer'[r] = answer[r]]_vars

\* A route without fallback reaches an instance only if the list Nacos returned
\* for this very request had a routable one; the subscription cache, which may
\* still hold an instance taken offline, is not enough.
NeverPastAnEmptyListing ==
    \A r \in Requests :
        Sent(r) /\ target[r] \in Instances /\ ~ route[r].fallbackEnabled => listed[r] # {}

\* The flag set by the router and consumed by the error handler tells the two
\* kinds of failure apart: a request in flight to the dead target is flagged, an
\* answered one no longer is, a missing instance is not logged as a downstream
\* fault, and a downstream fault always is (on paths that are logged at all).
FailuresToldApart ==
    \A r \in Requests :
        /\ stage[r] \in {"connecting", "awaiting"} =>
              (r \in unavailable <=> target[r] = DeadTarget)
        /\ stage[r] = "done" => r \notin unavailable
        /\ answer[r].cause = "noInstance" => r \notin logged
        /\ answer[r].cause = "fault" =>
              (r \in logged <=> ShouldLogGatewayRequestPath(shape[r].path))

\* Downstream services trust the principal header alone: it is on the wire for
\* exactly the HTTP requests whose token was approved, never left out because
\* the key is missing, always the one the gateway signed, and never the one a
\* client sent, wherever the request got to without introspection.
IdentityTravels ==
    \A r \in Requests :
        Sent(r) => wire[r].principal = IF vouched[r] THEN "signed" ELSE "none"

\* In whatever order the events of a relayed response come (a code in the
\* headers, in the body, its end, a connection that breaks off or is reset, a
\* client that leaves), the access log gets one line for it once it is over, and
\* none for a request no service answered.
ReportedOnce ==
    \A r \in Requests :
        LET observed == answer[r].code = "relayed" /\ stage[r] \in {"done", "left"}
        IN  /\ reports[r] <= 1
            /\ reports[r] = 1 =>
                  /\ Sent(r) /\ target[r] # DeadTarget
                  /\ ShouldLogGatewayRequestPath(shape[r].path)
            /\ (stage[r] = "hanging" \/ observed) /\ ShouldLogGatewayRequestPath(shape[r].path)
                  => reports[r] = 1

\* Whatever the YAML holds, an HTTP request takes the process (and every other
\* request) down in two places only: when routes that cannot be read were
\* published while its token was being examined, or a YAML without the signing
\* key before its identity was signed.  No request does so on arrival, or
\* without an approved token.
CrashesExplained ==
    [][\A r \in Requests :
         alive' # alive /\ (Receive(r) \/ Progress(r)) =>
            \/ stage[r] = "verdict" /\ ~ HasGatewayRoutes(config)
            \/ stage[r] = "connecting" /\ vouched[r] /\ ~ config.secret]_vars

\* Every request that got in is answered and its response ended, or its
\* connection closed, unless the process went down: only a response that flows
\* may do so for ever.
EveryRequestSettles ==
    \A r \in Requests : stage[r] \in InFlight ~> stage[r] \in Over \/ Streaming(r)

-----------------------------------------------------------------------------
(* What it all amounts to: the ideal gateway                                *)

Admitted == {"swaggerResolve", "swaggerFetch", "listing", "resolving", "connecting"}
Forwarded == {"awaiting", "relaying", "hanging"}

PhaseOf(st) ==
    CASE st = "idle" -> "idle"
      [] st \in {"introspecting", "verdict"} -> "held"
      [] st \in Admitted -> "admitted"
      [] st \in Forwarded -> "sent"
      [] OTHER -> "closed"

Guarded(c, s) == NeedsToken(c, s.path)
HasKey(c) == c.secret

\* The head of a downstream request on route x.
HeadFor(x, s, identified) ==
    [service |-> x.serviceName, path |-> GetDownstreamPath(x, s.path),
     prefix |-> x.prefix, principal |-> IF identified THEN "signed" ELSE "none"]

\* Closed requests keep nothing but the head that was sent.
Phase == [r \in Requests |-> PhaseOf(stage[r])]
Pin == [r \in Requests |-> IF stage[r] \in Admitted \cup Forwarded THEN route[r] ELSE NoRoute]
Approved == [r \in Requests |-> stage[r] \in Admitted \cup Forwarded /\ vouched[r]]
SentHead == [r \in Requests |-> IF Sent(r) THEN wire[r] ELSE NoWire]

Ideal == INSTANCE IdealGateway WITH
    Shapes <- Stripped, Startable <- HasGatewayAuthOptions, Unsent <- NoWire,
    phase <- Phase, pin <- Pin, approved <- Approved, sent <- SentHead

\* Discovery, the proxy and its handlers implement the ideal gateway: an HTTP
\* request is admitted on the one route of that moment with the token its path
\* needs, and what is sent downstream is what that route says, with the signed
\* identity of an approved request and no other.
ImplementsIdeal == Ideal!Spec
=============================================================================
