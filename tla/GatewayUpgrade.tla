---------------------------- MODULE GatewayUpgrade ----------------------------
(***************************************************************************)
(* WebSocket upgrades next to the HTTP requests of GatewayRequest.  An     *)
(* upgrade never meets Express: server.on('upgrade') of the gateway        *)
(* (attachWebSocketServer) looks its route up, authenticates it and hands  *)
(* it to proxy.upgrade.                                                    *)
(*                                                                         *)
(* With ws: true the proxy middleware adds a listener of its own to the    *)
(* server as soon as one HTTP request has passed through it.  From then on *)
(* proxy.upgrade does nothing, and that listener, called right after the   *)
(* gateway's, proxies every upgrade whatever authenticate() will say: the  *)
(* verdict and the pass through the proxy are two threads of one upgrade.  *)
(* (http-proxy-middleware 3.0.7, http-proxy 1.18.1, as yarn.lock has them.)*)
(*                                                                         *)
(* The router of the proxy is the same code for both kinds of request, so  *)
(* its steps are those of GatewayRequest on the variables of the upgrades. *)
(***************************************************************************)
EXTENDS GatewayRequest

CONSTANTS
    Upgrades,
    UpgradeShapes       \* what they may look like: [path, bearer, claims, parses]

\* An upgrade outside /api and /feign is one no route matches; the target of
\* one that does not parse is something like "//".
ASSUME UpgradeAssumption ==
    /\ UpgradeShapes \subseteq [path : Paths, bearer : BOOLEAN, claims : BOOLEAN, parses : BOOLEAN]
    /\ NoShape \notin UpgradeShapes
    /\ \A s \in UpgradeShapes : s.path # <<>> /\ s.path[1] \in {"api", "feign"}

VARIABLES
    subscribed,     \* the middleware listens for upgrades itself
    verdict,        \* what authenticate() has made of each upgrade
    socket,         \* its connection to the client
    pass,           \* where it is on its way through the proxy
    handshake,      \* what it looks like
    pinned,         \* its route (matchedRoutes)
    offers,         \* routable instances its getAllInstances returned
    aim,            \* where the router sends it
    flagged,        \* upgrades whose resolution failed (unavailableRequests)
    head            \* what the proxy puts on the downstream handshake

handling == <<offers, aim, head>>
upgrade == <<verdict, socket, pass, handshake, pinned, flagged, handling>>
all == <<vars, subscribed, upgrade>>

Verdicts == {"none", "introspecting", "passed", "refused", "lost"}
Sockets == {"none", "open", "tunnel", "destroyed"}
Discovering == {"listing", "resolving", "connecting"}
Passes == {"idle", "waiting", "awaiting", "stranded", "over"} \cup Discovering

Router == INSTANCE GatewayRequest WITH
    Requests <- Upgrades, Shapes <- UpgradeShapes,
    stage <- pass, shape <- handshake, route <- pinned, listed <- offers, target <- aim,
    unavailable <- flagged, wire <- head,
    vouched <- [u \in Upgrades |-> FALSE], answer <- [u \in Upgrades |-> NoAnswer],
    logged <- {}, reports <- [u \in Upgrades |-> 0]

UpgradesInit ==
    /\ Init
    /\ subscribed = FALSE
    /\ verdict = [u \in Upgrades |-> "none"]
    /\ socket = [u \in Upgrades |-> "none"]
    /\ pass = [u \in Upgrades |-> "idle"]
    /\ handshake = [u \in Upgrades |-> NoShape]
    /\ pinned = [u \in Upgrades |-> NoRoute]
    /\ offers = [u \in Upgrades |-> {}]
    /\ aim = [u \in Upgrades |-> NoTarget]
    /\ flagged = {}
    /\ head = [u \in Upgrades |-> NoWire]

-----------------------------------------------------------------------------
(* Falls                                                                    *)

UpgradesEnd(lost) ==
    /\ subscribed' = FALSE
    /\ pass' = [v \in Upgrades |-> IF v \in lost \/ pass[v] # "idle" THEN "over" ELSE "idle"]
    /\ socket' = [v \in Upgrades |->
                     IF v \in lost \/ socket[v] # "none" THEN "destroyed" ELSE "none"]
    /\ verdict' = [v \in Upgrades |->
                      IF v \in lost \/ verdict[v] = "introspecting" THEN "lost" ELSE verdict[v]]
    /\ flagged' = {}

\* An exception over upgrade u that nobody catches.
UpgradeCrashes(u) ==
    /\ Fall
    /\ UpgradesEnd({u})
    /\ UNCHANGED <<pinned, handling>>

-----------------------------------------------------------------------------
(* The listener of the gateway                                              *)

Settle(u, v, s, p) ==
    /\ verdict' = [verdict EXCEPT ![u] = v]
    /\ socket' = [socket EXCEPT ![u] = s]
    /\ pass' = [pass EXCEPT ![u] = p]

\* Mutant: proxy.upgrade does not wait for authenticate().
ListenWithoutWaiting(u, s) ==
    /\ alive /\ pass[u] = "idle" /\ Router!RouteOf(config, s) # NoRoute
    /\ handshake' = [handshake EXCEPT ![u] = s]
    /\ pinned' = [pinned EXCEPT ![u] = Router!RouteOf(config, s)]
    /\ Settle(u, "introspecting", "open", Router!RouterStage(Router!RouteOf(config, s)))
    /\ UNCHANGED <<vars, subscribed, flagged, handling>>

\* The 'upgrade' event: the gateway's listener, outside any promise, then the
\* middleware's own if it is there, then what authenticate() settles without
\* an await.  All of it sees one configuration, so pathFilter finds the route
\* the listener found.
ReceiveUpgrade(u, s) ==
    LET found == Router!RouteOf(config, s)
        authenticated == HasGatewayAuthOptions(config)
        asks == NeedsToken(config, s.path)
        forwarded == Router!RouterStage(found)
    IN  /\ alive /\ pass[u] = "idle"
        /\ handshake' = [handshake EXCEPT ![u] = s]
        /\ \/ /\ ~ HasGatewayRoutes(config) \/ ~ s.parses
              /\ UpgradeCrashes(u)
           \/ /\ HasGatewayRoutes(config) /\ s.parses /\ found = NoRoute
              /\ Settle(u, "refused", "destroyed", "over")
              /\ UNCHANGED <<vars, subscribed, pinned, flagged, handling>>
           \/ /\ s.parses /\ found # NoRoute
              /\ pinned' = [pinned EXCEPT ![u] = found]
              /\ \/ /\ authenticated /\ ~ asks
                    /\ Settle(u, "passed", "open", forwarded)
                 \/ /\ authenticated /\ asks /\ s.bearer
                    /\ Settle(u, "introspecting", "open",
                              IF subscribed THEN forwarded ELSE "waiting")
                 \/ /\ authenticated => asks /\ ~ s.bearer
                    /\ Settle(u, "refused", "destroyed", IF subscribed THEN forwarded ELSE "over")
              /\ UNCHANGED <<vars, subscribed, flagged, handling>>

\* Mutant: an upgrade that is being proxied is left to the proxy.
RefuseWaitingOnly(u) ==
    /\ verdict[u] = "introspecting"
    /\ verdict' = [verdict EXCEPT ![u] = "refused"]
    /\ pass' = [pass EXCEPT ![u] = IF @ = "waiting" THEN "over" ELSE @]
    /\ socket' = [socket EXCEPT ![u] = IF pass[u] = "waiting" THEN "destroyed" ELSE @]
    /\ UNCHANGED <<vars, subscribed, handshake, pinned, flagged, handling>>

\* Introspection fails, runs out of time or says no: in each case the socket is
\* destroyed, and a pass that has begun goes on.
UpgradeRefused(u) ==
    /\ verdict[u] = "introspecting"
    /\ Settle(u, "refused", "destroyed", IF pass[u] = "waiting" THEN "over" ELSE pass[u])
    /\ UNCHANGED <<vars, subscribed, handshake, pinned, flagged, handling>>

\* proxy.upgrade: pathFilter looks the route up again.  It does nothing once the
\* middleware has its own listener, which was not there when a waiting upgrade
\* came; nobody proxies that one any more, nor closes it.
UpgradeApproved(u) ==
    LET found == Router!RouteOf(config, handshake[u])
        begins == ~ subscribed /\ found # NoRoute
    IN  /\ verdict[u] = "introspecting"
        /\ verdict' = [verdict EXCEPT ![u] = "passed"]
        /\ pinned' = [pinned EXCEPT ![u] = IF begins THEN found ELSE @]
        /\ pass' = [pass EXCEPT ![u] = IF begins THEN Router!RouterStage(found)
                                       ELSE IF @ = "waiting" THEN "stranded" ELSE @]
        /\ UNCHANGED <<vars, subscribed, socket, handshake, flagged, handling>>

-----------------------------------------------------------------------------
(* The pass through the proxy                                               *)

Discover(u) ==
    /\ UNCHANGED <<request, subscribed, verdict, socket>>
    /\ Router!ListInstances(u) \/ Router!ListingFails(u) \/ Router!Resolve(u)
          \/ Router!ResolutionFails(u)

\* Mutant: the handshake of an upgrade that has not passed is held back.
SendPassedOnly(u) ==
    /\ pass[u] = "connecting" /\ verdict[u] = "passed"
    /\ head' = [head EXCEPT ![u].prefix = Router!GetMatchedRoute(u).prefix,
                            ![u].principal = Router!Carried(u)]
    /\ pass' = [pass EXCEPT ![u] = "awaiting"]
    /\ UNCHANGED <<vars, subscribed, verdict, socket, handshake, pinned, offers, aim, flagged>>

\* proxyReqWs: setProxyHeaders gets no request, so no identity is signed; the
\* client's headers were copied before, a principal of its own among them.
SendHandshake(u) ==
    /\ pass[u] = "connecting"
    /\ head' = [head EXCEPT ![u].prefix = Router!GetMatchedRoute(u).prefix,
                            ![u].principal = Router!Carried(u)]
    /\ pass' = [pass EXCEPT ![u] = "awaiting"]
    /\ UNCHANGED <<vars, subscribed, verdict, socket, handshake, pinned, offers, aim, flagged>>

\* The service switches protocols, if the client is still there.
Joined(u) ==
    /\ pass[u] = "awaiting" /\ aim[u] # DeadTarget
    /\ pass' = [pass EXCEPT ![u] = "over"]
    /\ socket' = [socket EXCEPT ![u] = IF @ = "open" THEN "tunnel" ELSE @]
    /\ UNCHANGED <<vars, subscribed, verdict, handshake, pinned, flagged, handling>>

\* Mutant: the flag of a failed resolution is not taken back.
NotJoinedKeepsFlag(u) ==
    /\ pass[u] = "awaiting"
    /\ pass' = [pass EXCEPT ![u] = "over"]
    /\ socket' = [socket EXCEPT ![u] = "destroyed"]
    /\ UNCHANGED <<vars, subscribed, verdict, handshake, pinned, flagged, handling>>

\* The service answers without switching and its answer ends the connection; or
\* it fails, and the error handler destroys it.  No timeout brings this about.
NotJoined(u) ==
    /\ pass[u] = "awaiting"
    /\ pass' = [pass EXCEPT ![u] = "over"]
    /\ socket' = [socket EXCEPT ![u] = "destroyed"]
    /\ flagged' = flagged \ {u}
    /\ UNCHANGED <<vars, subscribed, verdict, handshake, pinned, handling>>

TunnelEnds(u) ==
    /\ socket[u] = "tunnel"
    /\ socket' = [socket EXCEPT ![u] = "destroyed"]
    /\ UNCHANGED <<vars, subscribed, verdict, pass, handshake, pinned, flagged, handling>>

\* Mutant: the proxy does not listen for errors of the client's socket either.
ResetAlwaysCrashes(u) ==
    /\ socket[u] = "open"
    /\ UpgradeCrashes(u)
    /\ UNCHANGED handshake

\* Node takes its own error listener off an upgraded socket; the next one is
\* added in proxyReqWs.
ClientResets(u) ==
    /\ socket[u] = "open"
    /\ \/ /\ pass[u] = "awaiting"
          /\ socket' = [socket EXCEPT ![u] = "destroyed"]
          /\ UNCHANGED <<vars, subscribed, verdict, pass, pinned, flagged, handling>>
       \/ /\ pass[u] # "awaiting"
          /\ UpgradeCrashes(u)
    /\ UNCHANGED handshake

-----------------------------------------------------------------------------
(* Together                                                                 *)

\* An HTTP request is through the middleware when pathFilter has refused it or
\* the router has answered.
PassesMiddleware(r) ==
    /\ stage'[r] # stage[r]
    /\ stage'[r] = "connecting" \/ answer'[r].cause = "unrouted"

\* What an HTTP request or the world around does to the upgrades.
Alongside ==
    IF alive /\ ~ alive'
    THEN UpgradesEnd({}) /\ UNCHANGED <<handshake, pinned, handling>>
    ELSE /\ subscribed' = (subscribed \/ \E r \in Requests : PassesMiddleware(r))
         /\ UNCHANGED upgrade

Verdict(u) == UpgradeRefused(u) \/ UpgradeApproved(u)
Moves(u) == Discover(u) \/ SendHandshake(u)

UpgradeStep(u) ==
    \/ \E s \in UpgradeShapes : ReceiveUpgrade(u, s)
    \/ Verdict(u) \/ Moves(u)
    \/ Joined(u) \/ NotJoined(u) \/ TunnelEnds(u) \/ ClientResets(u)

HttpStep == Surroundings \/ \E r \in Requests : Receive(r) \/ Progress(r)

UpgradesNext == (HttpStep /\ Alongside) \/ \E u \in Upgrades : UpgradeStep(u)

UpgradesSpec == UpgradesInit /\ [][UpgradesNext]_all

\* Every await of an HTTP request ends unless its response is flowing: the fetches
\* have timeouts, the proxy sets timeouts on both connections, and the Nacos
\* client answers or rejects.  So it is with introspection and discovery for an
\* upgrade, but nothing bounds its wait for the service: the timeouts of the
\* proxy are for HTTP requests only.
UpgradesFairSpec ==
    /\ UpgradesSpec
    /\ \A r \in Requests : WF_all(~ Streaming(r) /\ Progress(r) /\ Alongside)
    /\ \A u \in Upgrades : WF_all(Verdict(u)) /\ WF_all(Moves(u))

-----------------------------------------------------------------------------
(* Properties                                                               *)

UpgradesTyped ==
    /\ subscribed \in BOOLEAN
    /\ verdict \in [Upgrades -> Verdicts]
    /\ socket \in [Upgrades -> Sockets]
    /\ pass \in [Upgrades -> Passes]
    /\ handshake \in [Upgrades -> UpgradeShapes \cup {NoShape}]
    /\ offers \in [Upgrades -> SUBSET Instances]
    /\ aim \in [Upgrades -> Instances \cup {NoTarget, FallbackTarget, DeadTarget}]
    /\ flagged \subseteq Upgrades

ThreadsFit(u) ==
    /\ pass[u] = "idle" <=> socket[u] = "none"
    /\ pass[u] = "idle" <=> handshake[u] = NoShape
    /\ pass[u] = "waiting" => verdict[u] = "introspecting" /\ socket[u] = "open"
    /\ pass[u] = "over" => socket[u] # "open"
    /\ socket[u] = "tunnel" => pass[u] = "over"
    /\ u \in flagged => pass[u] \in {"connecting", "awaiting"}

\* The states of the two threads of an upgrade fit together.
UpgradesTypeOK == UpgradesTyped /\ \A u \in Upgrades : ThreadsFit(u)

\* Whichever listener starts the pass of an upgrade, and however long after its
\* route was looked up first, the service, the path, the prefix and the instance
\* come from one route of one configuration, and a route without fallback goes
\* to an instance only after a listing that had a routable one.
UpgradesFollowOneRoute == Router!OneRouteDecides /\ Router!NeverPastAnEmptyListing

Begins(u) == pass[u] \in {"idle", "waiting"} /\ pass'[u] \in Discovering

\* An upgrade that needs a token under the configuration in force when its pass
\* begins begins it without an approved one only through the listener of the
\* middleware: until a first HTTP request has subscribed that, proxy.upgrade
\* waits for the verdict.
OnlySubscriptionSkipsTheToken ==
    [][\A u \in Upgrades :
         Begins(u) /\ ~ subscribed /\ NeedsToken(config, handshake'[u].path)
         => verdict'[u] = "passed"]_all

\* A client whose upgrade was refused is cut off, even when the proxy had joined
\* it to the service before the verdict came, or is about to.
RefusedAreCutOff == \A u \in Upgrades : verdict[u] = "refused" => socket[u] = "destroyed"

\* An upgrade takes the process down when its target or the routes cannot be read
\* on arrival, or when its client resets the connection while nobody listens for
\* the errors of the socket; never once its handshake has been sent downstream.
UpgradeCrashesExplained ==
    [][\A u \in Upgrades :
         alive' # alive /\ UpgradeStep(u) =>
            \/ pass[u] = "idle" /\ (HasGatewayRoutes(config) => ~ handshake'[u].parses)
            \/ socket[u] = "open" /\ ~ Router!Sent(u)]_all

\* Every upgrade gets its verdict, and is then sent downstream, over, or left to
\* itself (when its route is gone, or the middleware subscribed, in between).
UpgradesComeToRest ==
    \A u \in Upgrades :
        pass[u] # "idle" ~>
            /\ verdict[u] # "introspecting"
            /\ pass[u] \in {"awaiting", "stranded", "over"}

\* main.ts:60: the identity context is issued by the gateway only, and what a
\* client sends under its name is dropped before anything is forwarded; else a
\* request from outside could forge an identity and pass by the authentication.
NobodyForgesIdentity ==
    \A u \in Upgrades :
        Router!Sent(u) /\ aim[u] # DeadTarget /\ head[u].principal # "none"
        => verdict[u] = "passed"
=============================================================================
