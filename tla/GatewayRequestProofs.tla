-------------------------- MODULE GatewayRequestProofs --------------------------
(***************************************************************************)
(* The safety properties of GatewayRequest for any number of requests,     *)
(* instances and configurations, and that it implements IdealGateway.      *)
(* Good(r) is the inductive invariant, one request at a time: a step of    *)
(* one request leaves the others untouched or takes them down with the     *)
(* process, so each action has two obligations, the request it moves and   *)
(* the frame.                                                              *)
(***************************************************************************)
EXTENDS GatewayRequest, GatewayConfigProofs

Forwarding == Proxying \cup {"swaggerResolve", "swaggerFetch"}
Entering == {"idle", "introspecting", "verdict"}

PinnedTo(x, s) == \E c \in Configs : HasGatewayRoutes(c) /\ x = FindRoute(c, s.path)

\* What the request was sent, or is about to be, follows from its route.
DecidedByRoute(r) ==
    /\ route[r] # NoRoute
    /\ wire[r].service = route[r].serviceName
    /\ wire[r].path = GetDownstreamPath(route[r], shape[r].path)
    /\ target[r] \in Instances => ServiceOf[target[r]] = route[r].serviceName
    /\ target[r] = FallbackTarget => route[r].fallbackEnabled
    /\ target[r] \in Instances /\ ~ route[r].fallbackEnabled => listed[r] # {}

Shaped(r) == stage[r] # "idle" => shape[r] \in Stripped
Untried(r) == stage[r] \in Entering => ~ vouched[r] /\ route[r] = NoRoute
Pinned(r) == route[r] # NoRoute => PinnedTo(route[r], shape[r])
Routed(r) == stage[r] \in Forwarding => route[r] # NoRoute
Checked(r) == stage[r] = "resolving" /\ ~ route[r].fallbackEnabled => listed[r] # {}
Unsent(r) ==
    stage[r] \notin {"awaiting", "relaying", "hanging"} \cup Over => wire[r].prefix = <<>>
Decided(r) ==
    stage[r] \in {"connecting", "awaiting", "relaying", "hanging"} \/ Sent(r) => DecidedByRoute(r)
Stamped(r) ==
    Sent(r) => /\ wire[r].prefix = route[r].prefix
               /\ wire[r].principal = IF vouched[r] THEN "signed" ELSE "none"
Served(r) ==
    /\ stage[r] \in {"awaiting", "relaying", "hanging"} => Sent(r)
    /\ stage[r] \in {"relaying", "hanging"} => target[r] # DeadTarget
Flagged(r) ==
    /\ stage[r] \in {"connecting", "awaiting"} => (r \in unavailable <=> target[r] = DeadTarget)
    /\ stage[r] \notin {"connecting", "awaiting", "left"} => r \notin unavailable
Unanswered(r) == stage[r] \notin {"relaying", "hanging"} \cup Over => answer[r] = NoAnswer
Passing(r) == stage[r] \in {"relaying", "hanging", "left"} => answer[r] \in {NoAnswer, Relayed}
LoggedRight(r) ==
    /\ r \in logged => stage[r] = "done"
    /\ answer[r].cause = "noInstance" => r \notin logged
    /\ answer[r].cause = "fault" => (r \in logged <=> ShouldLogGatewayRequestPath(shape[r].path))

Good(r) ==
    /\ Shaped(r) /\ Untried(r) /\ Pinned(r) /\ Routed(r) /\ Checked(r)
    /\ Unsent(r) /\ Decided(r) /\ Stamped(r) /\ Served(r)
    /\ Flagged(r) /\ Unanswered(r) /\ Passing(r) /\ LoggedRight(r)

IInv == Typed /\ \A r \in Requests : Good(r)

-----------------------------------------------------------------------------
(* What a step of one request does to another                               *)

Same(r) ==
    /\ shape'[r] = shape[r] /\ route'[r] = route[r] /\ vouched'[r] = vouched[r]
    /\ listed'[r] = listed[r] /\ target'[r] = target[r]
    /\ wire'[r] = wire[r] /\ answer'[r] = answer[r] /\ (r \in logged' <=> r \in logged)

Untouched(r) == Same(r) /\ stage'[r] = stage[r] /\ (r \in unavailable' <=> r \in unavailable)

\* A request in flight is lost with the process, any other keeps its stage.
Fell(r) ==
    /\ Same(r) /\ r \notin unavailable'
    /\ stage'[r] = IF stage[r] \in InFlight THEN "lost" ELSE stage[r]

\* A request that a step leaves alone.
LEMMA Frame ==
    ASSUME NEW r \in Requests, Good(r), Untouched(r)
    PROVE  Good(r)'
<1> USE DEF Untouched, Same
<1>1. Shaped(r)' /\ Untried(r)' /\ Pinned(r)' /\ Routed(r)' /\ Checked(r)'
  BY DEF Good, Shaped, Untried, Entering, Pinned, PinnedTo, Routed, Checked
<1>2. Unsent(r)' /\ Decided(r)' /\ Stamped(r)' /\ Served(r)'
  BY DEF Good, Unsent, Decided, DecidedByRoute, Stamped, Served, Sent
<1>3. Flagged(r)' /\ Unanswered(r)' /\ Passing(r)' /\ LoggedRight(r)'
  BY DEF Good, Flagged, Unanswered, Passing, LoggedRight
<1> QED
  BY <1>1, <1>2, <1>3 DEF Good

\* A request that has seen the process go down.
LEMMA FellFrame ==
    ASSUME NEW r \in Requests, Typed, Good(r), Fell(r)
    PROVE  Good(r)'
<1> USE DEF Fell, Same, InFlight, Stages, Over
<1>0. stage[r] \in Stages
  BY DEF Typed
<1>1. Shaped(r)' /\ Untried(r)' /\ Pinned(r)' /\ Routed(r)' /\ Checked(r)'
  BY <1>0 DEF Good, Shaped, Untried, Entering, Pinned, PinnedTo, Routed, Checked, Forwarding, Proxying
<1>2. Unsent(r)' /\ Decided(r)' /\ Stamped(r)' /\ Served(r)'
  BY <1>0 DEF Good, Unsent, Decided, DecidedByRoute, Stamped, Served, Sent
<1>3. Flagged(r)' /\ Unanswered(r)' /\ Passing(r)'
  BY <1>0 DEF Good, Flagged, Unanswered, Passing
<1>4. LoggedRight(r)'
  BY <1>0 DEF Good, LoggedRight
<1> QED
  BY <1>1, <1>2, <1>3, <1>4 DEF Good

\* The end of the process ends every request in flight and leaves the others alone.
LEMMA GoDownFell ==
    ASSUME NEW lost, GoDown(lost), NEW r \in Requests, r \notin lost, Same(r)
    PROVE  Fell(r)
BY DEF GoDown, Fell

LEMMA CrashFrame ==
    ASSUME NEW q \in Requests, NEW r \in Requests, r # q, Typed, Good(r), Crash(q), Same(r)
    PROVE  Good(r)'
BY GoDownFell, FellFrame DEF Crash

-----------------------------------------------------------------------------
(* The entry: authentication and dispatch                                   *)

\* Stripping leaves all of a request but the claims.
LEMMA StrippedShapes ==
    ASSUME NEW s \in Shapes
    PROVE  /\ StripIdentity(s) \in Stripped
           /\ StripIdentity(s).path = s.path /\ StripIdentity(s).bearer = s.bearer
           /\ StripIdentity(s).claims = FALSE
BY RequestAssumption DEF StripIdentity, Stripped

LEMMA StrippedPaths ==
    ASSUME NEW s \in Stripped
    PROVE  /\ \E t \in Shapes : s.path = t.path
           /\ s.claims = FALSE
BY StrippedShapes DEF Stripped

Answers == [code : Codes, cause : Causes]

\* All that a run of the entry code may do to request q of shape s: pin a route,
\* and crash, answer, wait or forward.
Enters(q, x, s) ==
    /\ x \in Lookups \cup {NoRoute} /\ (x # NoRoute => PinnedTo(x, s))
    /\ route' = [route EXCEPT ![q] = x]
    /\ \/ Crash(q)
       \/ /\ UNCHANGED <<alive, unavailable, logged>>
          /\ \E st \in Stages, a \in Answers :
                /\ stage' = [stage EXCEPT ![q] = st]
                /\ answer' = [answer EXCEPT ![q] = a]
                /\ \/ st = "done" /\ a.cause \notin {"noInstance", "fault"}
                   \/ st \in {"introspecting", "verdict"} /\ a = answer[q] /\ x = NoRoute
                   \/ /\ st \in {"swaggerResolve", "listing", "resolving"} /\ a = answer[q]
                      /\ x # NoRoute /\ (st = "resolving" => x.fallbackEnabled)

\* A route the table gives the path is one of Lookups, and pinned to the shape.
LEMMA FoundIsLookup ==
    ASSUME Typed, NEW s \in Stripped, HasGatewayRoutes(config), FindRoute(config, s.path) # NoRoute
    PROVE  FindRoute(config, s.path) \in Lookups /\ PinnedTo(FindRoute(config, s.path), s)
<1>1. PICK t \in Shapes : s.path = t.path
  BY StrippedPaths
<1> DEFINE x == FindRoute(config, t.path)
<1>2. config \in Configs
  BY DEF Typed
<1>3. x \in Lookups
  BY <1>1, <1>2 DEF Lookups
<1> QED
  BY <1>1, <1>2, <1>3 DEF PinnedTo

\* An answer is one that Enters allows.
LEMMA AnswerEnters ==
    ASSUME Typed, NEW q \in Requests, NEW s \in Stripped, NEW x \in Lookups \cup {NoRoute},
           x # NoRoute => PinnedTo(x, s), route' = [route EXCEPT ![q] = x],
           UNCHANGED <<alive, unavailable, logged>>,
           stage' = [stage EXCEPT ![q] = "done"],
           NEW a \in Answers, answer' = [answer EXCEPT ![q] = a],
           a.cause \notin {"noInstance", "fault"}
    PROVE  Enters(q, x, s)
BY DEF Enters, Stages

\* So is a change of stage without an answer.
LEMMA StageEnters ==
    ASSUME Typed, NEW q \in Requests, NEW s \in Stripped, NEW x \in Lookups \cup {NoRoute},
           x # NoRoute => PinnedTo(x, s), route' = [route EXCEPT ![q] = x],
           UNCHANGED <<alive, unavailable, answer, logged>>,
           NEW st \in Stages, stage' = [stage EXCEPT ![q] = st],
           \/ st \in {"introspecting", "verdict"} /\ x = NoRoute
           \/ /\ st \in {"swaggerResolve", "listing", "resolving"}
              /\ x # NoRoute /\ (st = "resolving" => x.fallbackEnabled)
    PROVE  Enters(q, x, s)
<1>1. answer[q] \in Answers /\ answer' = [answer EXCEPT ![q] = answer[q]]
  BY DEF Typed, Answers
<1> QED
  BY <1>1 DEF Enters

LEMMA RouterStageFallsBack ==
    ASSUME NEW x
    PROVE  RouterStage(x) \in {"listing", "resolving"} /\ (RouterStage(x) = "resolving" => x.fallbackEnabled)
BY DEF RouterStage

LEMMA DispatchEnters ==
    ASSUME Typed, NEW q \in Requests, NEW s \in Stripped, route[q] = NoRoute, Dispatch(q, s)
    PROVE  \E x : Enters(q, x, s)
<1> DEFINE found == RouteOf(config, s)
           api == s.path[1] = "api"
<1>0. route' = route => route' = [route EXCEPT ![q] = NoRoute]
  BY DEF Typed
<1>1. CASE Crash(q) /\ UNCHANGED route
  <2>1. Enters(q, NoRoute, s)
    BY <1>0, <1>1 DEF Enters
  <2> QED
    BY <2>1
<1>2. CASE Answer(q, "local", "unrouted") /\ UNCHANGED <<alive, route, unavailable, logged>>
  <2> DEFINE a == [code |-> "local", cause |-> "unrouted"]
  <2>1. a \in Answers /\ a.cause \notin {"noInstance", "fault"}
    BY DEF Answers, Codes, Causes
  <2>2. stage' = [stage EXCEPT ![q] = "done"] /\ answer' = [answer EXCEPT ![q] = a]
    BY <1>2 DEF Answer
  <2>3. Enters(q, NoRoute, s)
    BY <1>0, <1>2, <2>1, <2>2, AnswerEnters
  <2> QED
    BY <2>3
<1>3. CASE /\ found # NoRoute
           /\ route' = [route EXCEPT ![q] = found]
           /\ stage' = [stage EXCEPT ![q] =
                 IF api /\ IsGatewayOpenApiJsonPath(s.path, found.prefix)
                    THEN "swaggerResolve" ELSE RouterStage(found)]
           /\ UNCHANGED <<alive, unavailable, answer, logged>>
  <2>1. found \in Lookups /\ PinnedTo(found, s)
    BY <1>3, FoundIsLookup DEF RouteOf
  <2> DEFINE st == IF api /\ IsGatewayOpenApiJsonPath(s.path, found.prefix)
                   THEN "swaggerResolve" ELSE RouterStage(found)
  <2>2. st \in {"swaggerResolve", "listing", "resolving"} /\ (st = "resolving" => found.fallbackEnabled)
    BY RouterStageFallsBack
  <2>3. st \in Stages
    BY <2>2 DEF Stages
  <2> HIDE DEF found, st
  <2>4. Enters(q, found, s)
    BY <1>3, <2>1, <2>2, <2>3, StageEnters DEF st
  <2> QED
    BY <2>4
<1> QED
  BY <1>1, <1>2, <1>3 DEF Dispatch

LEMMA AuthenticateEnters ==
    ASSUME Typed, NEW q \in Requests, NEW s \in Stripped, route[q] = NoRoute, Authenticate(q, s)
    PROVE  \E x : Enters(q, x, s)
<1>0. route' = route => route' = [route EXCEPT ![q] = NoRoute]
  BY DEF Typed
<1>1. CASE Dispatch(q, s)
  BY <1>1, DispatchEnters
<1>2. ASSUME route' = route, UNCHANGED <<alive, unavailable, logged>>,
             NEW code \in {"503", "401"}, NEW cause \in {"authConfig", "noToken"},
             Answer(q, code, cause)
      PROVE  Enters(q, NoRoute, s)
  <2> DEFINE a == [code |-> code, cause |-> cause]
  <2>1. a \in Answers /\ a.cause \notin {"noInstance", "fault"}
    BY DEF Answers, Codes, Causes
  <2>2. stage' = [stage EXCEPT ![q] = "done"] /\ answer' = [answer EXCEPT ![q] = a]
    BY <1>2 DEF Answer
  <2> QED
    BY <1>0, <1>2, <2>1, <2>2, AnswerEnters
<1>3. CASE /\ stage' = [stage EXCEPT ![q] = "introspecting"]
           /\ UNCHANGED <<alive, route, unavailable, answer, logged>>
  <2>1. Enters(q, NoRoute, s)
    BY <1>0, <1>3, StageEnters DEF Stages
  <2> QED
    BY <2>1
<1> QED
  BY <1>1, <1>2, <1>3 DEF Authenticate

\* Whatever the entry code does to a request keeps the invariant.
LEMMA EntryPreserves ==
    ASSUME IInv, NEW q \in Requests, NEW s \in Stripped, NEW x, Enters(q, x, s),
           stage[q] \in {"idle", "introspecting", "verdict", "swaggerResolve", "swaggerFetch"},
           shape' = [shape EXCEPT ![q] = s],
           NEW v \in BOOLEAN, vouched' = [vouched EXCEPT ![q] = v],
           stage'[q] \in Entering => ~ v,
           UNCHANGED <<env, listed, target, wire>>
    PROVE  IInv'
<1>1. Typed'
  <2>1. /\ UNCHANGED <<config, registry, cached, listed, target, wire>>
        /\ shape' \in [Requests -> Stripped \cup {NoShape}]
        /\ vouched' \in [Requests -> BOOLEAN]
        /\ route' \in [Requests -> Lookups \cup {NoRoute}]
    BY DEF IInv, Typed, Enters, env
  <2>2. CASE Crash(q)
    <3>1. /\ alive' = FALSE /\ unavailable' = {} /\ UNCHANGED <<answer, logged>>
          /\ stage' \in [Requests -> Stages]
      BY <2>2 DEF Crash, GoDown, IInv, Typed, Stages
    <3> QED
      BY <2>1, <3>1 DEF IInv, Typed
  <2>3. ASSUME UNCHANGED <<alive, unavailable, logged>>, NEW st \in Stages, NEW a \in Answers,
               stage' = [stage EXCEPT ![q] = st], answer' = [answer EXCEPT ![q] = a]
        PROVE  Typed'
    <3>1. stage' \in [Requests -> Stages] /\ answer' \in [Requests -> Answers]
      BY <2>3 DEF IInv, Typed, Answers
    <3> QED
      BY <2>1, <2>3, <3>1 DEF IInv, Typed, Answers
  <2> QED
    BY <2>2, <2>3 DEF Enters
<1>2. ASSUME NEW r \in Requests, r # q PROVE Good(r)'
  <2>1. Good(r) /\ Typed
    BY DEF IInv
  <2>2. CASE Crash(q)
    <3>1. Same(r)
      BY <1>2, <2>1, <2>2 DEF Same, Crash, GoDown, Enters, Typed, env
    <3> QED
      BY <1>2, <2>1, <2>2, <3>1, CrashFrame
  <2>3. ASSUME UNCHANGED <<alive, unavailable, logged>>, NEW st \in Stages, NEW a \in Answers,
               stage' = [stage EXCEPT ![q] = st], answer' = [answer EXCEPT ![q] = a]
        PROVE  Good(r)'
    <3>1. Untouched(r)
      BY <1>2, <2>1, <2>3 DEF Untouched, Same, Enters, Typed, env
    <3> QED
      BY <2>1, <3>1, Frame
  <2> QED
    BY <2>2, <2>3 DEF Enters
<1>3. Good(q)'
  <2>1. /\ Good(q) /\ Typed
        /\ shape'[q] = s /\ vouched'[q] = v /\ route'[q] = x
        /\ listed'[q] = listed[q] /\ target'[q] = target[q] /\ wire'[q] = wire[q]
        /\ x # NoRoute => PinnedTo(x, s)
    BY DEF IInv, Typed, Enters, env
  <2>2. /\ wire[q].prefix = <<>> /\ answer[q] = NoAnswer
        /\ q \notin unavailable /\ q \notin logged
    BY <2>1 DEF Good, Unsent, Unanswered, Flagged, LoggedRight, Over
  <2>3. Shaped(q)' /\ Pinned(q)' /\ Stamped(q)'
    BY <2>1, <2>2 DEF Shaped, Pinned, PinnedTo, Stamped, Sent
  <2>4. CASE Crash(q)
    <3>1. /\ stage'[q] = "lost" /\ answer'[q] = NoAnswer /\ q \notin unavailable' /\ q \notin logged'
      BY <2>1, <2>2, <2>4 DEF Crash, GoDown, Typed
    <3>2. Untried(q)' /\ Routed(q)' /\ Checked(q)' /\ Unsent(q)' /\ Decided(q)' /\ Served(q)'
      BY <2>1, <2>2, <3>1 DEF Untried, Entering, Routed, Checked, Unsent, Decided, Served, Sent,
         Forwarding, Proxying, Over
    <3>3. Flagged(q)' /\ Unanswered(q)' /\ Passing(q)' /\ LoggedRight(q)'
      BY <3>1 DEF Flagged, Unanswered, Passing, LoggedRight, NoAnswer, Over
    <3> QED
      BY <2>3, <3>2, <3>3 DEF Good
  <2>5. ASSUME UNCHANGED <<alive, unavailable, logged>>, NEW st \in Stages, NEW a \in Answers,
               stage' = [stage EXCEPT ![q] = st], answer' = [answer EXCEPT ![q] = a],
               \/ st = "done" /\ a.cause \notin {"noInstance", "fault"}
               \/ st \in {"introspecting", "verdict"} /\ a = answer[q] /\ x = NoRoute
               \/ /\ st \in {"swaggerResolve", "listing", "resolving"} /\ a = answer[q]
                  /\ x # NoRoute /\ (st = "resolving" => x.fallbackEnabled)
        PROVE  Good(q)'
    <3>1. /\ stage'[q] = st /\ answer'[q] = a /\ q \notin unavailable' /\ q \notin logged'
          /\ st = "done" \/ a = NoAnswer
      BY <2>1, <2>2, <2>5 DEF Typed
    <3>2. Untried(q)' /\ Routed(q)' /\ Checked(q)'
      BY <2>1, <2>2, <2>5, <3>1 DEF Untried, Entering, Routed, Checked, Forwarding, Proxying
    <3>3. Unsent(q)' /\ Decided(q)' /\ Served(q)'
      BY <2>1, <2>2, <2>5, <3>1 DEF Unsent, Decided, Served, Sent, Over
    <3>4. Flagged(q)' /\ Unanswered(q)' /\ Passing(q)' /\ LoggedRight(q)'
      BY <2>5, <3>1 DEF Flagged, Unanswered, Passing, LoggedRight, NoAnswer, Over
    <3> QED
      BY <2>3, <3>2, <3>3, <3>4 DEF Good
  <2> QED
    BY <2>4, <2>5 DEF Enters
<1> QED
  BY <1>1, <1>2, <1>3 DEF IInv

\* The same when vouched does not change.
LEMMA EntryPreservesVouched ==
    ASSUME IInv, NEW q \in Requests, NEW s \in Stripped, \E x : Enters(q, x, s),
           stage[q] \in {"idle", "introspecting", "verdict", "swaggerResolve", "swaggerFetch"},
           stage[q] \in Entering \/ stage'[q] \notin Entering,
           shape' = [shape EXCEPT ![q] = s], UNCHANGED <<env, vouched, listed, target, wire>>
    PROVE  IInv'
<1>1. PICK x : Enters(q, x, s)
  OBVIOUS
<1>2. vouched[q] \in BOOLEAN /\ vouched' = [vouched EXCEPT ![q] = vouched[q]]
  BY DEF IInv, Typed
<1>3. stage'[q] \in Entering => ~ vouched[q]
  BY DEF IInv, Good, Untried
<1> QED
  BY <1>1, <1>2, <1>3, EntryPreserves

LEMMA ReceivePreserves ==
    ASSUME IInv, NEW q \in Requests, Receive(q)
    PROVE  IInv'
<1>1. PICK t \in Shapes : ReceiveHttp(q, t) \/ RateLimited(q, t)
  BY DEF Receive
<1> DEFINE s == StripIdentity(t)
<1>2. Typed /\ Good(q) /\ s \in Stripped
  BY StrippedShapes DEF IInv
<1> HIDE DEF s
<1>3. /\ stage[q] = "idle" /\ stage[q] \in Entering
      /\ shape' = [shape EXCEPT ![q] = s] /\ UNCHANGED <<env, vouched, listed, target, wire>>
  BY <1>1 DEF ReceiveHttp, RateLimited, Entering, s
<1>4. route[q] = NoRoute
  BY <1>2, <1>3 DEF Good, Untried
<1>5. CASE ReceiveHttp(q, t)
  <2>1. Authenticate(q, s) \/ Dispatch(q, s)
    BY <1>5 DEF ReceiveHttp, s
  <2>2. \E x : Enters(q, x, s)
    BY <1>2, <1>4, <2>1, AuthenticateEnters, DispatchEnters
  <2> QED
    BY <1>2, <1>3, <2>2, EntryPreservesVouched
<1>6. CASE RateLimited(q, t)
  <2> DEFINE a == [code |-> "429", cause |-> "rateLimit"]
  <2>1. a \in Answers /\ a.cause \notin {"noInstance", "fault"}
    BY DEF Answers, Codes, Causes
  <2>2. /\ stage' = [stage EXCEPT ![q] = "done"] /\ answer' = [answer EXCEPT ![q] = a]
        /\ UNCHANGED <<alive, route, unavailable, logged>>
    BY <1>6 DEF RateLimited, Answer
  <2>3. route' = [route EXCEPT ![q] = NoRoute]
    BY <1>2, <1>4, <2>2 DEF Typed
  <2>4. Enters(q, NoRoute, s)
    BY <1>2, <2>1, <2>2, <2>3, AnswerEnters
  <2> QED
    BY <1>2, <1>3, <2>4, EntryPreservesVouched
<1> QED
  BY <1>1, <1>5, <1>6

\* What a request beyond its arrival is known to be.
LEMMA PinnedShape ==
    ASSUME IInv, NEW q \in Requests, stage[q] # "idle"
    PROVE  /\ Typed /\ Good(q)
           /\ shape[q] \in Stripped
           /\ shape' = shape => shape' = [shape EXCEPT ![q] = shape[q]]
           /\ route[q] \in Lookups \cup {NoRoute}
           /\ route[q] # NoRoute => PinnedTo(route[q], shape[q])
           /\ route' = route => route' = [route EXCEPT ![q] = route[q]]
BY DEF IInv, Typed, Good, Shaped, Pinned

\* A request that ends with an answer before anything was sent.
LEMMA EarlyAnswerPreserves ==
    ASSUME IInv, NEW q \in Requests, NEW a \in Answers, a.cause \notin {"noInstance", "fault"},
           stage[q] \in {"introspecting", "verdict", "swaggerResolve", "swaggerFetch"},
           stage' = [stage EXCEPT ![q] = "done"], answer' = [answer EXCEPT ![q] = a],
           UNCHANGED <<alive, env, shape, route, vouched, listed, target, unavailable, wire, logged>>
    PROVE  IInv'
<1>1. /\ Typed /\ Good(q)
      /\ shape[q] \in Stripped /\ shape' = [shape EXCEPT ![q] = shape[q]]
      /\ route[q] \in Lookups \cup {NoRoute}
      /\ route[q] # NoRoute => PinnedTo(route[q], shape[q])
      /\ route' = [route EXCEPT ![q] = route[q]]
  BY PinnedShape
<1>2. Enters(q, route[q], shape[q])
  BY <1>1, AnswerEnters
<1>3. stage'[q] \notin Entering
  BY <1>1 DEF Typed, Entering
<1> QED
  BY <1>1, <1>2, <1>3, EntryPreservesVouched

LEMMA EarlyEndsPreserve ==
    ASSUME IInv, NEW q \in Requests,
           \/ IntrospectionFails(q) \/ IntrospectionDeadline(q) \/ IntrospectionRejects(q)
           \/ SwaggerServed(q) \/ SwaggerFails(q)
    PROVE  IInv'
<1> DEFINE A(code, cause) == [code |-> code, cause |-> cause]
<1>1. PICK code \in Codes, cause \in Causes \ {"noInstance", "fault"} :
         /\ stage[q] \in {"introspecting", "verdict", "swaggerResolve", "swaggerFetch"}
         /\ stage' = [stage EXCEPT ![q] = "done"]
         /\ answer' = [answer EXCEPT ![q] = A(code, cause)]
         /\ UNCHANGED <<alive, env, shape, route, vouched, listed, target, unavailable, wire, logged>>
  BY DEF IntrospectionFails, IntrospectionDeadline, IntrospectionRejects, SwaggerServed,
         SwaggerFails, Answer, Codes, Causes
<1>2. A(code, cause) \in Answers /\ A(code, cause).cause \notin {"noInstance", "fault"}
  BY DEF Answers
<1> QED
  BY <1>1, <1>2, EarlyAnswerPreserves

LEMMA IntrospectionRespondsPreserves ==
    ASSUME IInv, NEW q \in Requests, IntrospectionResponds(q)
    PROVE  IInv'
<1>1. /\ Typed /\ Good(q)
      /\ stage[q] = "introspecting" /\ stage' = [stage EXCEPT ![q] = "verdict"]
      /\ shape[q] \in Stripped /\ shape' = [shape EXCEPT ![q] = shape[q]]
      /\ route[q] = NoRoute /\ route' = [route EXCEPT ![q] = NoRoute]
      /\ UNCHANGED <<alive, env, vouched, listed, target, unavailable, wire, answer, logged>>
  BY PinnedShape DEF IntrospectionResponds, Good, Untried, Entering
<1>2. Enters(q, NoRoute, shape[q])
  BY <1>1, StageEnters DEF Stages
<1> QED
  BY <1>1, <1>2, EntryPreservesVouched DEF Entering

LEMMA IntrospectionApprovesPreserves ==
    ASSUME IInv, NEW q \in Requests, IntrospectionApproves(q)
    PROVE  IInv'
<1>1. /\ Typed /\ Good(q)
      /\ stage[q] = "verdict"
      /\ shape[q] \in Stripped /\ shape' = [shape EXCEPT ![q] = shape[q]]
      /\ route[q] = NoRoute
      /\ vouched' = [vouched EXCEPT ![q] = TRUE]
      /\ Dispatch(q, shape[q])
      /\ UNCHANGED <<env, listed, target, wire>>
  BY PinnedShape DEF IntrospectionApproves, Good, Untried, Entering
<1>2. PICK x : Enters(q, x, shape[q])
  BY <1>1, DispatchEnters
<1>3. stage'[q] \notin Entering
  <2>1. stage'[q] \in {"lost", "done", "swaggerResolve", "listing", "resolving"}
    BY <1>1, RouterStageFallsBack DEF Dispatch, Crash, GoDown, Answer, Typed
  <2> QED
    BY <2>1 DEF Entering
<1> QED
  BY <1>1, <1>2, <1>3, EntryPreserves

-----------------------------------------------------------------------------
(* Discovery                                                                *)

\* The route of a request that is being forwarded.
LEMMA ForwardedRoute ==
    ASSUME IInv, NEW q \in Requests, stage[q] \in Forwarding
    PROVE  /\ GetMatchedRoute(q) = route[q] /\ route[q] \in Lookups
           /\ shape[q] \in Stripped /\ answer[q] \in Answers
BY DEF IInv, Typed, Good, Shaped, Routed, GetMatchedRoute, Forwarding, Proxying, Answers

Targets == Instances \cup {NoTarget, FallbackTarget, DeadTarget}

\* router() sends a request somewhere: the target is of its service, is the
\* fallback only where allowed and flags the request if it is the dead one.
LEMMA SendToPreserves ==
    ASSUME IInv, NEW q \in Requests, stage[q] \in {"listing", "resolving"},
           NEW t \in Targets, SendTo(q, t),
           NEW l \in SUBSET Instances, listed' = [listed EXCEPT ![q] = l],
           t \in Instances => ServiceOf[t] = route[q].serviceName,
           t = FallbackTarget => route[q].fallbackEnabled,
           t \in Instances /\ ~ route[q].fallbackEnabled => l # {},
           unavailable' = IF t = DeadTarget THEN unavailable \cup {q} ELSE unavailable,
           UNCHANGED <<alive, env, shape, route, vouched, answer, logged>>
    PROVE  IInv'
<1> DEFINE w == [service |-> route[q].serviceName,
                 path |-> GetDownstreamPath(route[q], shape[q].path),
                 prefix |-> <<>>, principal |-> "none"]
<1>1. Typed /\ Good(q) /\ route[q] \in Lookups /\ shape[q] \in Stripped
  BY ForwardedRoute DEF IInv, Forwarding, Proxying
<1>2. /\ stage' = [stage EXCEPT ![q] = "connecting"]
      /\ target' = [target EXCEPT ![q] = t]
      /\ wire' = [wire EXCEPT ![q] = w]
  BY ForwardedRoute DEF SendTo, Forwarding, Proxying
<1>3. Typed'
  <2>1. PICK z \in Shapes : shape[q].path = z.path
    BY <1>1, StrippedPaths
  <2>2. GetDownstreamPath(route[q], z.path)
          \in {GetDownstreamPath(x, y.path) : x \in Lookups, y \in Shapes}
    BY <1>1
  <2>3. w \in Wires
    BY <1>1, <2>1, <2>2 DEF Wires, Identities
  <2> HIDE DEF w
  <2>4. /\ wire' \in [Requests -> Wires]
        /\ stage' \in [Requests -> Stages]
        /\ target' \in [Requests -> Targets]
        /\ listed' \in [Requests -> SUBSET Instances]
        /\ unavailable' \subseteq Requests
    BY <1>1, <1>2, <2>3 DEF Typed, Stages, Targets
  <2> QED
    BY <1>1, <2>4 DEF Typed, Targets, env
<1>4. ASSUME NEW r \in Requests, r # q PROVE Good(r)'
  <2>1. Untouched(r)
    BY <1>1, <1>2, <1>4 DEF Untouched, Same, Typed, env
  <2> QED
    BY <2>1, Frame DEF IInv
<1>5. Good(q)'
  <2>1. /\ stage'[q] = "connecting" /\ target'[q] = t /\ listed'[q] = l
        /\ shape'[q] = shape[q] /\ route'[q] = route[q] /\ vouched'[q] = vouched[q]
        /\ answer'[q] = answer[q] /\ (q \in logged' <=> q \in logged)
        /\ wire'[q] = w
        /\ q \notin unavailable
    BY <1>1, <1>2 DEF Typed, Good, Flagged, env
  <2>2. wire'[q].prefix = <<>> /\ wire'[q].service = route[q].serviceName
        /\ wire'[q].path = GetDownstreamPath(route[q], shape[q].path)
    BY <2>1
  <2> HIDE DEF w
  <2>3. Shaped(q)' /\ Untried(q)' /\ Pinned(q)' /\ Routed(q)' /\ Checked(q)'
    BY <1>1, <2>1 DEF Good, Shaped, Untried, Entering, Pinned, PinnedTo, Routed, Checked, Forwarding, Proxying
  <2>4. Unsent(q)' /\ Decided(q)' /\ Stamped(q)' /\ Served(q)'
    BY <1>1, <2>1, <2>2 DEF Unsent, Decided, DecidedByRoute, Stamped, Served, Sent, Lookups
  <2>5. Flagged(q)' /\ Unanswered(q)' /\ Passing(q)' /\ LoggedRight(q)'
    BY <1>1, <2>1 DEF Good, Flagged, Unanswered, Over, Passing, LoggedRight, NoAnswer
  <2> QED
    BY <2>3, <2>4, <2>5 DEF Good
<1> QED
  BY <1>3, <1>4, <1>5 DEF IInv

\* A failed resolution, whatever was listed.
LEMMA MarkUnavailablePreserves ==
    ASSUME IInv, NEW q \in Requests, stage[q] \in {"listing", "resolving"},
           MarkUnavailable(q),
           NEW l \in SUBSET Instances, listed' = [listed EXCEPT ![q] = l],
           UNCHANGED <<alive, env, shape, route, vouched, answer, logged>>
    PROVE  IInv'
<1>1. DeadTarget \in Targets /\ DeadTarget \notin Instances /\ DeadTarget # FallbackTarget
  BY RequestAssumption DEF Targets
<1>2. unavailable' = unavailable \cup {q} /\ SendTo(q, DeadTarget)
  BY DEF MarkUnavailable
<1> QED
  BY <1>1, <1>2, SendToPreserves

LEMMA ListInstancesPreserves ==
    ASSUME IInv, NEW q \in Requests, ListInstances(q)
    PROVE  IInv'
<1> DEFINE up == RoutableInstances(GetMatchedRoute(q).serviceName)
<1>1. /\ Typed /\ Good(q) /\ stage[q] = "listing"
      /\ listed' = [listed EXCEPT ![q] = up]
      /\ UNCHANGED <<alive, env, shape, route, vouched, answer, logged>>
  BY DEF IInv, ListInstances
<1>2. up \in SUBSET Instances
  BY DEF RoutableInstances
<1>3. CASE up = {}
  <2>1. MarkUnavailable(q)
    BY <1>3 DEF ListInstances
  <2> QED
    BY <1>1, <1>2, <2>1, MarkUnavailablePreserves
<1>4. CASE up # {}
  <2>1. stage' = [stage EXCEPT ![q] = "resolving"] /\ UNCHANGED <<target, unavailable, wire>>
    BY <1>4 DEF ListInstances
  <2> HIDE DEF up
  <2>2. Typed'
    <3>1. listed' \in [Requests -> SUBSET Instances] /\ stage' \in [Requests -> Stages]
      BY <1>1, <1>2, <2>1 DEF Typed, Stages
    <3> QED
      BY <1>1, <2>1, <3>1 DEF Typed, env
  <2>3. ASSUME NEW r \in Requests, r # q PROVE Good(r)'
    <3>1. Untouched(r)
      BY <1>1, <2>1, <2>3 DEF Untouched, Same, Typed
    <3> QED
      BY <3>1, Frame DEF IInv
  <2>4. Good(q)'
    <3>1. /\ stage'[q] = "resolving" /\ listed'[q] # {}
      BY <1>1, <1>2, <1>4, <2>1 DEF Typed
    <3>2. Shaped(q)' /\ Untried(q)' /\ Pinned(q)' /\ Routed(q)' /\ Checked(q)'
      BY <1>1, <3>1 DEF Good, Shaped, Untried, Entering, Pinned, PinnedTo, Routed, Checked, Forwarding, Proxying
    <3>3. Unsent(q)' /\ Decided(q)' /\ Stamped(q)' /\ Served(q)'
      BY <1>1, <2>1, <3>1 DEF Good, Unsent, Over, Decided, DecidedByRoute, Stamped, Served, Sent
    <3>4. Flagged(q)' /\ Unanswered(q)' /\ Passing(q)' /\ LoggedRight(q)'
      BY <1>1, <2>1, <3>1 DEF Good, Flagged, Unanswered, Over, Passing, LoggedRight, NoAnswer
    <3> QED
      BY <3>2, <3>3, <3>4 DEF Good
  <2> QED
    BY <2>2, <2>3, <2>4 DEF IInv
<1> QED
  BY <1>3, <1>4

\* Both ways discovery fails.
LEMMA DiscoveryFailsPreserves ==
    ASSUME IInv, NEW q \in Requests, ListingFails(q) \/ ResolutionFails(q)
    PROVE  IInv'
<1>1. /\ stage[q] \in {"listing", "resolving"} /\ MarkUnavailable(q)
      /\ UNCHANGED <<alive, env, shape, route, vouched, listed, answer, logged>>
  BY DEF ListingFails, ResolutionFails
<1>2. listed[q] \in SUBSET Instances /\ listed' = [listed EXCEPT ![q] = listed[q]]
  BY <1>1 DEF IInv, Typed
<1> QED
  BY <1>1, <1>2, MarkUnavailablePreserves

LEMMA ResolvePreserves ==
    ASSUME IInv, NEW q \in Requests, Resolve(q)
    PROVE  IInv'
<1>1. PICK t \in ResolveService(GetMatchedRoute(q).serviceName, GetMatchedRoute(q).fallbackEnabled) :
         SendTo(q, t)
  BY DEF Resolve
<1>2. /\ stage[q] = "resolving"
      /\ UNCHANGED <<alive, env, shape, route, vouched, listed, unavailable, answer, logged>>
  BY DEF Resolve
<1>3. GetMatchedRoute(q) = route[q]
  BY <1>2, ForwardedRoute DEF Forwarding, Proxying
<1>4. /\ Typed /\ Checked(q)
      /\ listed[q] \in SUBSET Instances /\ listed' = [listed EXCEPT ![q] = listed[q]]
  BY <1>2 DEF IInv, Typed, Good
<1>5. /\ t \in Targets
      /\ t \in Instances => ServiceOf[t] = route[q].serviceName
      /\ t = FallbackTarget => route[q].fallbackEnabled
      /\ t # DeadTarget
  BY <1>1, <1>3, <1>4, RequestAssumption DEF ResolveService, Targets, Typed
<1>6. t \in Instances /\ ~ route[q].fallbackEnabled => listed[q] # {}
  BY <1>2, <1>4 DEF Checked
<1> QED
  BY <1>1, <1>2, <1>4, <1>5, <1>6, SendToPreserves

LEMMA SwaggerResolvePreserves ==
    ASSUME IInv, NEW q \in Requests, SwaggerResolve(q)
    PROVE  IInv'
<1>1. PICK t \in ResolveService(route[q].serviceName, route[q].fallbackEnabled) :
         target' = [target EXCEPT ![q] = t]
  BY DEF SwaggerResolve
<1>2. /\ stage[q] = "swaggerResolve" /\ stage' = [stage EXCEPT ![q] = "swaggerFetch"]
      /\ UNCHANGED <<alive, env, shape, route, vouched, listed, unavailable, wire, answer, logged>>
      /\ Typed /\ Good(q)
  BY DEF SwaggerResolve, IInv
<1>3. t \in Targets
  BY <1>1, <1>2 DEF ResolveService, Targets, Typed
<1>4. Typed'
  <2>1. target' \in [Requests -> Targets] /\ stage' \in [Requests -> Stages]
    BY <1>1, <1>2, <1>3 DEF Typed, Stages, Targets
  <2> QED
    BY <1>2, <2>1 DEF Typed, Targets, env
<1>5. ASSUME NEW r \in Requests, r # q PROVE Good(r)'
  <2>1. Untouched(r)
    BY <1>1, <1>2, <1>5 DEF Untouched, Same, Typed
  <2> QED
    BY <2>1, Frame DEF IInv
<1>6. Good(q)'
  <2>1. stage'[q] = "swaggerFetch"
    BY <1>2 DEF Typed
  <2>2. Shaped(q)' /\ Untried(q)' /\ Pinned(q)' /\ Routed(q)' /\ Checked(q)'
    BY <1>2, <2>1 DEF Good, Shaped, Untried, Entering, Pinned, PinnedTo, Routed, Checked, Forwarding, Proxying
  <2>3. Unsent(q)' /\ Decided(q)' /\ Stamped(q)' /\ Served(q)'
    BY <1>2, <2>1 DEF Good, Unsent, Over, Decided, DecidedByRoute, Stamped, Served, Sent
  <2>4. Flagged(q)' /\ Unanswered(q)' /\ Passing(q)' /\ LoggedRight(q)'
    BY <1>2, <2>1 DEF Good, Flagged, Unanswered, Over, Passing, LoggedRight, NoAnswer
  <2> QED
    BY <2>2, <2>3, <2>4 DEF Good
<1> QED
  BY <1>4, <1>5, <1>6 DEF IInv

-----------------------------------------------------------------------------
(* The exchange                                                             *)

\* A route that a configuration gives a path has a prefix.
LEMMA RoutesHavePrefixes ==
    ASSUME NEW x \in Lookups
    PROVE  x.prefix # <<>>
<1>1. PICK c \in Configs, s \in Shapes : HasGatewayRoutes(c) /\ x = FindRoute(c, s.path) /\ x # NoRoute
  BY DEF Lookups
<1> DEFINE table == GetGatewayRoutes(c)
<1>2. ASSUME NEW k \in DOMAIN table PROVE table[k].prefix # <<>>
  <2>1. CASE c.routes = Unset
    BY <2>1 DEF GetGatewayRoutes, FallbackGatewayRoutes, FallbackRoute
  <2>2. CASE c.routes # Unset
    <3>1. IsEntryList(c.routes) /\ IsRouteList(c.routes) /\ table = ParseGatewayRoutes(c.routes)
      BY <1>1, <2>2, ConfigAssumption DEF HasGatewayRoutes, GetGatewayRoutes
    <3>2. PICK i \in EnabledIn(c.routes) : table[k] = ParseRoute(c.routes[i])
      BY <3>1, TableHoldsEnabled
    <3>3. i \in DOMAIN c.routes
      BY DEF EnabledIn
    <3>4. table[k].prefix = c.routes[i].prefix
      BY <3>1, <3>2, <3>3, ParseKeepsPrefix DEF IsEntryList
    <3>5. Len(c.routes[i].prefix) >= 2
      BY <3>1, <3>3 DEF IsRouteList, IsRoutePrefix
    <3> QED
      BY <3>4, <3>5
  <2> QED
    BY <2>1, <2>2
<1>3. x = FirstMatch(table, s.path) /\ Hits(table, s.path) # {}
  BY <1>1 DEF FindRoute, FirstMatch
<1>4. Hits(table, s.path) \subseteq DOMAIN table
  BY DEF Hits
<1>5. DOMAIN table \subseteq Nat
  <2>1. CASE c.routes = Unset
    BY <2>1 DEF GetGatewayRoutes, FallbackGatewayRoutes
  <2>2. CASE c.routes # Unset
    <3>1. IsEntryList(c.routes) /\ table = ParseGatewayRoutes(c.routes)
      BY <1>1, <2>2, ConfigAssumption DEF HasGatewayRoutes, GetGatewayRoutes
    <3>2. DOMAIN table = 1 .. Cardinality(EnabledIn(c.routes))
      BY <3>1, TableHoldsEnabled
    <3> QED
      BY <3>2
  <2> QED
    BY <2>1, <2>2
<1>6. \E m \in Hits(table, s.path) : FirstMatch(table, s.path) = table[m]
  BY <1>3, <1>4, <1>5, FirstMatchIsFirst
<1> QED
  BY <1>2, <1>3, <1>4, <1>6

\* The headers of an HTTP request are stripped, so it carries no identity but
\* the one the gateway signs.
LEMMA NothingCarried ==
    ASSUME Typed, NEW q \in Requests, shape[q] \in Stripped
    PROVE  Carried(q) = "none"
BY StrippedPaths DEF Carried

LEMMA SetProxyHeadersPreserves ==
    ASSUME IInv, NEW q \in Requests, SetProxyHeaders(q)
    PROVE  IInv'
<1> DEFINE identity == IF vouched[q] THEN "signed" ELSE "none"
           w == [wire[q] EXCEPT !.prefix = GetMatchedRoute(q).prefix, !.principal = identity]
<1>1. /\ Typed /\ Good(q) /\ stage[q] = "connecting"
      /\ UNCHANGED <<env, shape, route, vouched, listed, target>>
      /\ answer[q] = NoAnswer
  BY DEF IInv, SetProxyHeaders, Good, Unanswered, Over
<1>2. /\ GetMatchedRoute(q) = route[q] /\ route[q] \in Lookups /\ shape[q] \in Stripped
      /\ Carried(q) = "none" /\ route[q].prefix # <<>>
  BY <1>1, ForwardedRoute, NothingCarried, RoutesHavePrefixes DEF Forwarding, Proxying
<1>3. CASE wire' = wire /\ Crash(q)
  <2>1. /\ alive' = FALSE /\ unavailable' = {} /\ UNCHANGED <<answer, logged>>
        /\ stage' \in [Requests -> Stages] /\ stage'[q] = "lost"
    BY <1>1, <1>3 DEF Crash, GoDown, Typed, Stages
  <2>2. Typed'
    BY <1>1, <1>3, <2>1 DEF Typed, env
  <2>3. ASSUME NEW r \in Requests PROVE Good(r)'
    <3>1. Same(r)
      BY <1>1, <1>3, <2>1 DEF Same
    <3>2. CASE r = q
      <4>1. Fell(r)
        BY <1>1, <2>1, <3>1, <3>2 DEF Fell, InFlight, Stages, Over
      <4> QED
        BY <1>1, <4>1, FellFrame DEF IInv
    <3>3. CASE r # q
      BY <1>1, <1>3, <3>1, <3>3, CrashFrame DEF IInv
    <3> QED
      BY <3>2, <3>3
  <2> QED
    BY <2>2, <2>3 DEF IInv
<1>4. CASE /\ wire' = [wire EXCEPT ![q].prefix = GetMatchedRoute(q).prefix,
                                  ![q].principal = IF vouched[q] THEN "signed" ELSE Carried(q)]
           /\ stage' = [stage EXCEPT ![q] = "awaiting"]
           /\ UNCHANGED <<alive, unavailable, answer, logged>>
  <2>1. wire' = [wire EXCEPT ![q] = w]
    BY <1>1, <1>2, <1>4 DEF Typed
  <2>2. /\ w \in Wires /\ w.service = wire[q].service /\ w.path = wire[q].path
        /\ w.prefix = route[q].prefix /\ w.principal = identity
    <3>1. /\ wire[q] \in Wires /\ identity \in Identities
          /\ route[q].prefix \in {x.prefix : x \in Lookups}
      BY <1>1, <1>2, RequestAssumption DEF Typed, Identities
    <3>2. DOMAIN wire[q] = {"service", "path", "prefix", "principal"}
      BY <3>1 DEF Wires
    <3>3. w.service = wire[q].service /\ w.path = wire[q].path
      BY <3>2
    <3>4. w.prefix = route[q].prefix
      BY <1>2, <3>2
    <3>5. w.principal = identity
      BY <3>2
    <3>6. w \in Wires
      <4> DEFINE prefixes == {<<>>} \cup {x.prefix : x \in Lookups}
                 paths == {<<>>} \cup {GetDownstreamPath(x, s.path) : x \in Lookups, s \in Shapes}
                 services == {"none"} \cup {x.serviceName : x \in Lookups}
      <4>1. GetMatchedRoute(q).prefix \in prefixes /\ identity \in Identities
        BY <1>2, <3>1
      <4>2. Wires = [service : services, path : paths, prefix : prefixes, principal : Identities]
        BY DEF Wires
      <4> HIDE DEF prefixes, paths, services, identity
      <4> QED
        BY <3>1, <4>1, <4>2
    <3> QED
      BY <3>3, <3>4, <3>5, <3>6
  <2> HIDE DEF w
  <2>3. Typed'
    <3>1. wire' \in [Requests -> Wires] /\ stage' \in [Requests -> Stages]
      BY <1>1, <1>4, <2>1, <2>2 DEF Typed, Stages
    <3> QED
      BY <1>1, <1>4, <3>1 DEF Typed, env
  <2>4. ASSUME NEW r \in Requests, r # q PROVE Good(r)'
    <3>1. Untouched(r)
      BY <1>1, <1>4, <2>1, <2>4 DEF Untouched, Same, Typed
    <3> QED
      BY <3>1, Frame DEF IInv
  <2>5. Good(q)'
    <3>1. /\ stage'[q] = "awaiting" /\ wire'[q] = w
      BY <1>1, <1>4, <2>1 DEF Typed
    <3>2. Shaped(q)' /\ Untried(q)' /\ Pinned(q)' /\ Routed(q)' /\ Checked(q)'
      BY <1>1, <3>1 DEF Good, Shaped, Untried, Entering, Pinned, PinnedTo, Routed, Checked,
         Forwarding, Proxying
    <3>3. Unsent(q)' /\ Decided(q)'
      BY <1>1, <2>2, <3>1 DEF Good, Unsent, Decided, DecidedByRoute
    <3>4. Stamped(q)' /\ Served(q)'
      BY <1>1, <1>2, <2>2, <3>1 DEF Stamped, Served, Sent
    <3>5. Flagged(q)' /\ Unanswered(q)' /\ Passing(q)' /\ LoggedRight(q)'
      BY <1>1, <1>4, <3>1 DEF Good, Flagged, Unanswered, Passing, LoggedRight, NoAnswer, Over
    <3> QED
      BY <3>2, <3>3, <3>4, <3>5 DEF Good
  <2> QED
    BY <2>3, <2>4, <2>5 DEF IInv
<1> QED
  BY <1>2, <1>3, <1>4 DEF SetProxyHeaders

\* The steps that end an exchange move the stage of one request and may answer it.
LEMMA ExchangeFrame ==
    ASSUME IInv, NEW q \in Requests, NEW st \in Stages, stage' = [stage EXCEPT ![q] = st],
           NEW a \in Answers, answer' = [answer EXCEPT ![q] = a],
           unavailable' \in {unavailable, unavailable \ {q}},
           logged' \in {logged, logged \cup {q}},
           UNCHANGED <<alive, env, shape, route, vouched, listed, target, wire>>
    PROVE  /\ Typed'
           /\ \A r \in Requests \ {q} : Good(r)'
           /\ stage'[q] = st /\ answer'[q] = a
<1>1. Typed
  BY DEF IInv
<1>2. stage' \in [Requests -> Stages] /\ answer' \in [Requests -> Answers]
  BY <1>1 DEF Typed, Answers
<1>3. unavailable' \subseteq Requests /\ logged' \subseteq Requests
  BY <1>1 DEF Typed
<1>4. Typed'
  BY <1>1, <1>2, <1>3 DEF Typed, Answers, env
<1>5. ASSUME NEW r \in Requests \ {q} PROVE Good(r)'
  <2>1. Untouched(r)
    BY <1>1, <1>5 DEF Untouched, Same, Typed
  <2> QED
    BY <2>1, Frame DEF IInv
<1> QED
  BY <1>1, <1>4, <1>5 DEF Typed

\* The head, the body and the end of a response, one that breaks off, and a
\* connection that is closed: what is left of them without the log.
Exchanges(q, from, to, a) ==
    /\ stage[q] \in from
    /\ stage' = [stage EXCEPT ![q] = to] /\ answer' = [answer EXCEPT ![q] = a]
    /\ UNCHANGED <<alive, env, shape, route, vouched, listed, target, unavailable, wire, logged>>

LEMMA ExchangesPreserve ==
    ASSUME IInv, NEW q \in Requests, NEW from, NEW to, NEW a, Exchanges(q, from, to, a),
           from \subseteq {"awaiting", "relaying", "hanging"},
           to \in {"relaying", "hanging", "done", "left"},
           stage[q] = "awaiting" =>
              to = "left" \/ (to = "relaying" /\ target[q] # DeadTarget),
           a \in {answer[q], Relayed}
    PROVE  IInv'
<1>1. /\ Typed /\ Good(q) /\ to \in Stages /\ stage[q] \in {"awaiting", "relaying", "hanging"}
      /\ stage' = [stage EXCEPT ![q] = to] /\ answer' = [answer EXCEPT ![q] = a]
      /\ UNCHANGED <<alive, env, shape, route, vouched, listed, target, unavailable, wire, logged>>
  BY DEF IInv, Exchanges, Stages
<1>2. answer[q] \in {NoAnswer, Relayed}
  BY <1>1 DEF Good, Unanswered, Passing, Over
<1>3. a \in {NoAnswer, Relayed} /\ a \in Answers
  BY <1>2 DEF Answers, NoAnswer, Relayed, Codes, Causes
<1>4. Typed' /\ (\A r \in Requests \ {q} : Good(r)') /\ stage'[q] = to /\ answer'[q] = a
  BY <1>1, <1>3, ExchangeFrame
<1>5. Shaped(q)' /\ Untried(q)' /\ Pinned(q)' /\ Routed(q)' /\ Checked(q)'
  BY <1>1, <1>4 DEF Good, Shaped, Untried, Entering, Pinned, PinnedTo, Routed, Checked, Forwarding, Proxying
<1>6. Unsent(q)' /\ Decided(q)' /\ Stamped(q)' /\ Served(q)'
  BY <1>1, <1>4 DEF Good, Unsent, Over, Decided, DecidedByRoute, Stamped, Served, Sent
<1>7. Flagged(q)' /\ Unanswered(q)' /\ Passing(q)' /\ LoggedRight(q)'
  BY <1>1, <1>3, <1>4 DEF Good, Flagged, Unanswered, Over, Passing, LoggedRight, NoAnswer, Relayed
<1> QED
  BY <1>4, <1>5, <1>6, <1>7 DEF IInv, Good

LEMMA ResponsePreserves ==
    ASSUME IInv, NEW q \in Requests,
           \/ DownstreamResponds(q) \/ BodyArrives(q) \/ RelayEnds(q) \/ BreaksOff(q)
           \/ ConnectionCloses(q)
    PROVE  IInv'
<1>0. Typed
  BY DEF IInv
<1>1. CASE DownstreamResponds(q)
  <2>1. Exchanges(q, {"awaiting"}, "relaying", answer[q])
    BY <1>0, <1>1 DEF DownstreamResponds, Exchanges, Typed
  <2> QED
    BY <1>1, <2>1, ExchangesPreserve DEF DownstreamResponds
<1>2. CASE BodyArrives(q)
  <2>1. Exchanges(q, {"relaying"}, "relaying", Relayed)
    BY <1>0, <1>2 DEF BodyArrives, Exchanges, Typed
  <2> QED
    BY <2>1, ExchangesPreserve DEF Exchanges
<1>3. CASE RelayEnds(q)
  <2>1. Exchanges(q, {"relaying"}, "done", Relayed)
    BY <1>3 DEF RelayEnds, Exchanges
  <2> QED
    BY <2>1, ExchangesPreserve DEF Exchanges
<1>4. CASE BreaksOff(q)
  <2>1. Exchanges(q, {"relaying"}, "hanging", answer[q])
    BY <1>0, <1>4 DEF BreaksOff, Exchanges, Typed
  <2> QED
    BY <2>1, ExchangesPreserve DEF Exchanges
<1>5. CASE ConnectionCloses(q)
  <2>1. Exchanges(q, {"awaiting", "relaying", "hanging"}, "left", answer[q])
    BY <1>0, <1>5 DEF ConnectionCloses, Exchanges, Typed
  <2> QED
    BY <2>1, ExchangesPreserve DEF Exchanges
<1> QED
  BY <1>1, <1>2, <1>3, <1>4, <1>5

LEMMA ErrorHandlerPreserves ==
    ASSUME IInv, NEW q \in Requests, ErrorHandler(q)
    PROVE  IInv'
<1> DEFINE logs == ShouldLogGatewayRequestPath(shape[q].path) /\ q \notin unavailable
           refusal == [code |-> "503",
                       cause |-> IF q \in unavailable THEN "noInstance" ELSE "fault"]
           a == IF answer[q] # NoAnswer THEN answer[q] ELSE refusal
<1>1. /\ stage[q] \in {"awaiting", "relaying"}
      /\ unavailable' = unavailable \ {q}
      /\ logged' = IF logs THEN logged \cup {q} ELSE logged
      /\ UNCHANGED <<alive, env, shape, route, vouched, listed, target, wire>>
      /\ Typed /\ Good(q)
  BY DEF ErrorHandler, IInv
<1>2. stage' = [stage EXCEPT ![q] = "done"] /\ answer' = [answer EXCEPT ![q] = a]
  BY <1>1 DEF ErrorHandler, Answer, Typed
<1>3. refusal \in Answers /\ answer[q] \in Answers /\ "done" \in Stages
  BY <1>1 DEF Answers, Codes, Causes, Typed, Stages
<1>4. refusal.cause = (IF q \in unavailable THEN "noInstance" ELSE "fault")
  OBVIOUS
<1>5. a \in Answers
  BY <1>3
<1> HIDE DEF refusal
<1>6. Typed' /\ (\A r \in Requests \ {q} : Good(r)') /\ stage'[q] = "done" /\ answer'[q] = a
  BY <1>1, <1>2, <1>3, <1>5, ExchangeFrame
<1>7. Shaped(q)' /\ Untried(q)' /\ Pinned(q)' /\ Routed(q)' /\ Checked(q)'
  BY <1>1, <1>6 DEF Good, Shaped, Untried, Entering, Pinned, PinnedTo, Routed, Checked, Forwarding, Proxying
<1>8. Unsent(q)' /\ Decided(q)' /\ Stamped(q)' /\ Served(q)'
  BY <1>1, <1>6 DEF Good, Unsent, Over, Decided, DecidedByRoute, Stamped, Served, Sent
<1>9. Flagged(q)' /\ Unanswered(q)' /\ Passing(q)'
  BY <1>1, <1>6 DEF Good, Flagged, Unanswered, Over, Passing
<1>10. LoggedRight(q)'
  <2>1. q \notin logged /\ shape'[q] = shape[q]
    BY <1>1 DEF Good, LoggedRight
  <2>2. CASE answer[q] # NoAnswer
    <3>1. answer'[q].cause = "downstream"
      BY <1>1, <1>6, <2>2 DEF Good, Unanswered, Passing, Relayed, Over
    <3> QED
      BY <1>6, <3>1 DEF LoggedRight
  <2>3. CASE answer[q] = NoAnswer
    <3>1. answer'[q].cause = IF q \in unavailable THEN "noInstance" ELSE "fault"
      BY <1>4, <1>6, <2>3
    <3>2. q \in logged' <=> logs
      BY <1>1, <2>1
    <3> QED
      BY <1>6, <2>1, <3>1, <3>2 DEF LoggedRight
  <2> QED
    BY <2>2, <2>3
<1> QED
  BY <1>6, <1>7, <1>8, <1>9, <1>10 DEF IInv, Good

-----------------------------------------------------------------------------
(* The inductive invariant                                                  *)

LEMMA SurroundingsPreserve ==
    ASSUME IInv, Surroundings
    PROVE  IInv'
<1>1. Typed
  BY DEF IInv
<1>2. UNCHANGED request
  BY DEF Surroundings, ChangeConfig, Restart, ChangeListing, PushInstances
<1>3. Typed'
  <2>1. CASE ChangeConfig
    BY <1>1, <2>1 DEF ChangeConfig, request, Typed
  <2>2. CASE Restart
    BY <1>1, <2>2 DEF Restart, request, Typed
  <2>3. ASSUME NEW i \in Instances, ChangeListing(i) PROVE Typed'
    BY <1>1, <2>3 DEF ChangeListing, request, Typed
  <2>4. ASSUME NEW i \in Instances, PushInstances(i) PROVE Typed'
    <3>1. cached' \subseteq Instances
      BY <1>1, <2>4 DEF PushInstances, RoutableInstances, Typed
    <3> QED
      BY <1>1, <2>4, <3>1 DEF PushInstances, request, Typed
  <2> QED
    BY <2>1, <2>2, <2>3, <2>4 DEF Surroundings
<1>4. ASSUME NEW r \in Requests PROVE Good(r)'
  <2>1. Untouched(r)
    BY <1>2 DEF Untouched, Same, request
  <2> QED
    BY <2>1, Frame DEF IInv
<1> QED
  BY <1>3, <1>4 DEF IInv

\* The process goes down for another reason than a request of Requests.
LEMMA FallPreserves ==
    ASSUME IInv, Fall
    PROVE  IInv'
<1>1. Typed /\ GoDown({}) /\ UNCHANGED <<env, shape, route, vouched, listed, target, wire>>
  BY DEF IInv, Fall
<1>2. Typed'
  BY <1>1 DEF Typed, GoDown, env, Stages
<1>3. ASSUME NEW r \in Requests PROVE Good(r)'
  <2>1. Same(r)
    BY <1>1 DEF Same, GoDown
  <2> QED
    BY <1>1, <2>1, GoDownFell, FellFrame DEF IInv
<1> QED
  BY <1>2, <1>3 DEF IInv

LEMMA ProgressPreserves ==
    ASSUME IInv, NEW q \in Requests, Progress(q)
    PROVE  IInv'
BY EarlyEndsPreserve, IntrospectionRespondsPreserves, IntrospectionApprovesPreserves,
   ListInstancesPreserves, DiscoveryFailsPreserves, ResolvePreserves, SwaggerResolvePreserves,
   SetProxyHeadersPreserves, ResponsePreserves, ErrorHandlerPreserves
   DEF Progress

LEMMA InitIInv == Init => IInv
<1> SUFFICES ASSUME Init PROVE IInv
  OBVIOUS
<1>1. Typed
  <2>1. NoWire \in Wires /\ NoAnswer \in [code : Codes, cause : Causes] /\ "idle" \in Stages
    BY DEF NoWire, Wires, Identities, NoAnswer, Codes, Causes, Stages
  <2> QED
    BY <2>1 DEF Init, Typed
<1>2. ASSUME NEW r \in Requests PROVE Good(r)
  <2>1. /\ stage[r] = "idle" /\ ~ vouched[r] /\ route[r] = NoRoute /\ wire[r].prefix = <<>>
        /\ answer[r] = NoAnswer /\ r \notin unavailable /\ r \notin logged
    BY DEF Init, NoWire
  <2>2. Shaped(r) /\ Untried(r) /\ Pinned(r) /\ Routed(r) /\ Checked(r) /\ Unsent(r)
    BY <2>1 DEF Shaped, Untried, Pinned, Routed, Checked, Unsent, Forwarding, Proxying
  <2>3. Decided(r) /\ Stamped(r) /\ Served(r) /\ Flagged(r)
    BY <2>1 DEF Decided, Stamped, Served, Sent, Flagged
  <2>4. Unanswered(r) /\ Passing(r) /\ LoggedRight(r)
    BY <2>1 DEF Unanswered, Passing, LoggedRight, NoAnswer
  <2> QED
    BY <2>2, <2>3, <2>4 DEF Good
<1> QED
  BY <1>1, <1>2 DEF IInv

LEMMA StutterIInv == IInv /\ UNCHANGED vars => IInv'
<1> SUFFICES ASSUME IInv, UNCHANGED vars PROVE IInv'
  OBVIOUS
<1>1. Typed'
  BY DEF IInv, Typed, vars, env, request
<1>2. ASSUME NEW r \in Requests PROVE Good(r)'
  <2>1. Untouched(r)
    BY DEF Untouched, Same, vars, request
  <2> QED
    BY <2>1, Frame DEF IInv
<1> QED
  BY <1>1, <1>2 DEF IInv

LEMMA NextIInv == IInv /\ [Next]_vars => IInv'
<1> SUFFICES ASSUME IInv, [Next]_vars PROVE IInv'
  OBVIOUS
<1>1. CASE Surroundings \/ Fall
  BY <1>1, SurroundingsPreserve, FallPreserves
<1>2. ASSUME NEW q \in Requests, Receive(q) PROVE IInv'
  BY <1>2, ReceivePreserves
<1>3. ASSUME NEW q \in Requests, Progress(q) PROVE IInv'
  BY <1>3, ProgressPreserves
<1>4. CASE UNCHANGED vars
  BY <1>4, StutterIInv
<1> QED
  BY <1>1, <1>2, <1>3, <1>4 DEF Next

\* The invariant that all the safety theorems below rest on.
THEOREM Inductive == Spec => []IInv
BY InitIInv, NextIInv, PTL DEF Spec

-----------------------------------------------------------------------------
(* State properties                                                         *)

\* The route of one configuration decides everything about a request that is sent,
\* however often the configuration changes on the way (matchedRoutes).
THEOREM RouteDecides == Spec => []OneRouteDecides
<1>1. IInv => OneRouteDecides
  <2> SUFFICES ASSUME IInv, NEW r \in Requests, Sent(r)
               PROVE  \E c \in Configs :
                         /\ HasGatewayRoutes(c)
                         /\ LET x == FindRoute(c, shape[r].path)
                            IN  /\ x # NoRoute
                                /\ wire[r].service = x.serviceName
                                /\ wire[r].path = GetDownstreamPath(x, shape[r].path)
                                /\ wire[r].prefix = x.prefix
                                /\ target[r] \in Instances => ServiceOf[target[r]] = x.serviceName
                                /\ target[r] = FallbackTarget => x.fallbackEnabled
    BY DEF OneRouteDecides
  <2>1. DecidedByRoute(r) /\ Stamped(r) /\ Pinned(r)
    BY DEF IInv, Good, Decided
  <2>2. PICK c \in Configs : HasGatewayRoutes(c) /\ route[r] = FindRoute(c, shape[r].path)
    BY <2>1 DEF DecidedByRoute, Pinned, PinnedTo
  <2> QED
    BY <2>1, <2>2 DEF DecidedByRoute, Stamped
<1> QED
  BY <1>1, Inductive, PTL

\* The subscription cache never gets a request past an empty listing.
THEOREM ListingDecides == Spec => []NeverPastAnEmptyListing
<1>1. IInv => NeverPastAnEmptyListing
  BY DEF IInv, Good, Decided, DecidedByRoute, NeverPastAnEmptyListing
<1> QED
  BY <1>1, Inductive, PTL

\* The flag in unavailableRequests is exact, and so is the log.
THEOREM FlagsAreExact == Spec => []FailuresToldApart
<1>1. IInv => FailuresToldApart
  BY DEF IInv, Good, Flagged, LoggedRight, FailuresToldApart
<1> QED
  BY <1>1, Inductive, PTL

\* The signed principal is on the wire for exactly the approved HTTP requests, and
\* the one a client claims for none: the headers are stripped on arrival, and the
\* proxy copies what is left of them.
THEOREM IdentityIsExact == Spec => []IdentityTravels
<1>1. IInv => IdentityTravels
  BY DEF IInv, Good, Stamped, IdentityTravels
<1> QED
  BY <1>1, Inductive, PTL

-----------------------------------------------------------------------------
(* Action properties                                                        *)

\* Nothing takes an answer back or changes it.
LEMMA AnswersKept ==
    ASSUME IInv, [Next]_vars, NEW r \in Requests
    PROVE  answer[r] # NoAnswer => answer'[r] = answer[r]
<1> DEFINE Kept == answer[r] # NoAnswer => answer'[r] = answer[r]
<1>1. Typed /\ Good(r)
  BY DEF IInv
<1>2. CASE Surroundings \/ Fall \/ UNCHANGED vars
  BY <1>2 DEF Surroundings, ChangeConfig, Restart, ChangeListing, PushInstances, Fall, GoDown,
     request, vars
<1>3. ASSUME NEW q \in Requests, Receive(q) \/ Progress(q) PROVE Kept
  <2>1. CASE stage[r] \notin {"relaying", "hanging"} \cup Over
    BY <1>1, <2>1 DEF Good, Unanswered
  <2>2. CASE stage[r] \in {"relaying", "hanging"} \cup Over
    <3> USE DEF Over
    <3>1. CASE Receive(q)
      BY <1>1, <2>2, <3>1 DEF Receive, ReceiveHttp, RateLimited, Authenticate,
         Dispatch, Answer, Crash, GoDown, Typed
    <3>2. CASE IntrospectionFails(q) \/ IntrospectionDeadline(q) \/ IntrospectionResponds(q)
               \/ IntrospectionRejects(q) \/ SwaggerServed(q) \/ SwaggerFails(q)
      BY <1>1, <2>2, <3>2 DEF IntrospectionFails, IntrospectionDeadline, IntrospectionResponds,
         IntrospectionRejects, SwaggerServed, SwaggerFails, Answer, Typed
    <3>3. CASE IntrospectionApproves(q)
      BY <1>1, <2>2, <3>3 DEF IntrospectionApproves, Dispatch, Answer, Crash, GoDown, Typed
    <3>4. CASE ListInstances(q) \/ ListingFails(q) \/ Resolve(q) \/ ResolutionFails(q)
               \/ SwaggerResolve(q) \/ DownstreamResponds(q) \/ BreaksOff(q) \/ ConnectionCloses(q)
      BY <3>4 DEF ListInstances, ListingFails, Resolve, ResolutionFails, SwaggerResolve,
         DownstreamResponds, BreaksOff, ConnectionCloses
    <3>5. CASE SetProxyHeaders(q)
      BY <3>5 DEF SetProxyHeaders, Crash, GoDown
    <3>6. CASE BodyArrives(q) \/ RelayEnds(q)
      BY <1>1, <2>2, <3>6 DEF BodyArrives, RelayEnds, Typed, Good, Passing
    <3>7. CASE ErrorHandler(q)
      BY <1>1, <2>2, <3>7 DEF ErrorHandler, Answer, Typed
    <3> QED
      BY <1>3, <3>1, <3>2, <3>3, <3>4, <3>5, <3>6, <3>7 DEF Progress
  <2> QED
    BY <2>1, <2>2
<1> QED
  BY <1>2, <1>3 DEF Next

\* A client gets one answer.
THEOREM OneAnswer == Spec => AnsweredOnce
<1>1. IInv /\ [Next]_vars => [\A r \in Requests : answer[r] # NoAnswer => answer'[r] = answer[r]]_vars
  BY AnswersKept
<1> QED
  BY <1>1, Inductive, PTL DEF Spec, AnsweredOnce

\* An HTTP request that is dispatched is vouched for or needs no token, whatever
\* became of the configuration while its token was examined.
THEOREM OnlyVouchedAreForwarded == Spec => ForwardedAreVouched
<1> DEFINE Allowed(r) ==
             /\ stage[r] \in {"idle", "introspecting", "verdict"}
             /\ stage'[r] \in Proxying \cup {"swaggerResolve"}
             /\ NeedsToken(config, shape'[r].path)
             => vouched'[r]
<1>1. ASSUME IInv, [Next]_vars, NEW r \in Requests PROVE Allowed(r)
  <2> USE DEF Proxying
  <2>1. Typed /\ Good(r)
    BY <1>1 DEF IInv
  <2>2. CASE Surroundings \/ Fall \/ UNCHANGED vars
    BY <2>1, <2>2 DEF Surroundings, ChangeConfig, Restart, ChangeListing, PushInstances, Fall,
       GoDown, Typed, request, vars
  <2>3. ASSUME NEW q \in Requests, Receive(q) PROVE Allowed(r)
    <3>1. PICK t \in Shapes : ReceiveHttp(q, t) \/ RateLimited(q, t)
      BY <2>3 DEF Receive
    <3>2. CASE r # q
      BY <2>1, <3>1, <3>2 DEF ReceiveHttp, RateLimited, Authenticate, Dispatch, Answer, Crash,
         GoDown, Typed
    <3>3. CASE r = q
      <4> DEFINE s == StripIdentity(t)
      <4>1. shape'[q] = s /\ s.path = t.path
        BY <2>1, <3>1, <3>3, StrippedShapes DEF ReceiveHttp, RateLimited, Typed
      <4>2. CASE RateLimited(q, t)
        BY <2>1, <3>3, <4>2 DEF RateLimited, Answer, Typed
      <4>3. CASE Authenticate(q, s)
        <5> HIDE DEF s
        <5> QED
          BY <2>1, <3>3, <4>1, <4>3 DEF Authenticate, Answer, Typed
      <4>4. CASE t.path[1] # "api"
        BY <3>3, <4>1, <4>4 DEF NeedsToken, ShouldAuthenticate
      <4> QED
        BY <3>1, <4>2, <4>3, <4>4 DEF ReceiveHttp
    <3> QED
      BY <3>2, <3>3
  <2>4. ASSUME NEW q \in Requests, Progress(q) PROVE Allowed(r)
    <3>1. CASE IntrospectionFails(q) \/ IntrospectionDeadline(q) \/ IntrospectionResponds(q)
               \/ IntrospectionRejects(q) \/ SwaggerServed(q) \/ SwaggerFails(q)
      BY <2>1, <3>1 DEF IntrospectionFails, IntrospectionDeadline, IntrospectionResponds,
         IntrospectionRejects, SwaggerServed, SwaggerFails, Answer, Typed
    <3>2. CASE IntrospectionApproves(q)
      <4>1. CASE r = q
        BY <2>1, <3>2, <4>1 DEF IntrospectionApproves, Typed
      <4>2. CASE r # q
        BY <2>1, <3>2, <4>2 DEF IntrospectionApproves, Dispatch, Answer, Crash, GoDown, Typed
      <4> QED
        BY <4>1, <4>2
    <3>3. CASE \/ ListInstances(q) \/ ListingFails(q) \/ Resolve(q) \/ ResolutionFails(q)
               \/ SwaggerResolve(q) \/ BodyArrives(q) \/ RelayEnds(q)
      BY <2>1, <3>3 DEF ListInstances, ListingFails, Resolve, ResolutionFails, SwaggerResolve,
         BodyArrives, RelayEnds, MarkUnavailable, SendTo, Typed
    <3>4. CASE SetProxyHeaders(q)
      BY <2>1, <3>4 DEF SetProxyHeaders, Crash, GoDown, Typed
    <3>5. CASE DownstreamResponds(q) \/ ErrorHandler(q) \/ BreaksOff(q) \/ ConnectionCloses(q)
      BY <2>1, <3>5 DEF DownstreamResponds, ErrorHandler, BreaksOff, ConnectionCloses, Answer, Typed
    <3> QED
      BY <2>4, <3>1, <3>2, <3>3, <3>4, <3>5 DEF Progress
  <2> QED
    BY <1>1, <2>2, <2>3, <2>4 DEF Next
<1>2. IInv /\ [Next]_vars =>
        [\A r \in Requests :
           /\ stage[r] \in {"idle", "introspecting", "verdict"}
           /\ stage'[r] \in Proxying \cup {"swaggerResolve"}
           /\ NeedsToken(config, shape'[r].path)
           => vouched'[r]]_vars
  BY <1>1
<1> QED
  BY <1>2, Inductive, PTL DEF Spec, ForwardedAreVouched

-----------------------------------------------------------------------------
(* The access log                                                           *)

Observed(r) ==
    /\ ShouldLogGatewayRequestPath(shape[r].path)
    /\ \/ stage[r] = "hanging"
       \/ stage[r] \in {"done", "left"} /\ answer[r].code = "relayed"

Counted(r) ==
    /\ reports[r] \in {0, 1}
    /\ reports[r] = 1 =>
          /\ stage[r] \in {"relaying", "hanging"} \cup Over
          /\ Sent(r) /\ target[r] # DeadTarget /\ ShouldLogGatewayRequestPath(shape[r].path)
    /\ Observed(r) => reports[r] = 1

LogInv == reports \in [Requests -> Nat] /\ \A r \in Requests : Counted(r)

\* A request that keeps what was sent, and does not come to the end of a response.
Quiet(r) ==
    /\ reports[r] = 1 => UNCHANGED <<shape[r], wire[r], target[r]>>
    /\ stage'[r] # stage[r] =>
          stage'[r] \notin {"hanging", "left"} /\ (stage'[r] = "done" => answer'[r].code # "relayed")
    /\ stage'[r] = stage[r] => UNCHANGED <<answer[r], shape[r]>>
    /\ reports[r] = 1 => stage'[r] \in {stage[r]} \cup Over

LEMMA QuietKeepsCounted ==
    ASSUME NEW r \in Requests, Counted(r), Quiet(r), reports'[r] = reports[r]
    PROVE  Counted(r)'
<1>1. Observed(r)' => reports[r] = 1
  BY DEF Quiet, Counted, Observed
<1> QED
  BY <1>1 DEF Quiet, Counted, Sent, Over

LEMMA QuietKeepsLogInv ==
    ASSUME LogInv, UNCHANGED reports, \A r \in Requests : Quiet(r)
    PROVE  LogInv'
BY QuietKeepsCounted DEF LogInv

\* A step of a request nothing has been relayed for yet.
LEMMA EarlyIsQuiet ==
    ASSUME LogInv, NEW q \in Requests, UNCHANGED reports,
           stage[q] \notin {"relaying", "hanging"} \cup Over,
           \A r \in Requests \ {q} : Same(r) /\ stage'[r] \in {stage[r], "lost"},
           stage'[q] \notin {"hanging", "left", stage[q]}, answer'[q].code # "relayed"
    PROVE  LogInv'
<1>1. ASSUME NEW r \in Requests \ {q} PROVE Quiet(r)
  BY <1>1 DEF Quiet, Same, Over
<1>2. Quiet(q)
  BY DEF Quiet, LogInv, Counted
<1> QED
  BY <1>1, <1>2, QuietKeepsLogInv

LEMMA EntryCounts ==
    ASSUME IInv, LogInv, NEW q \in Requests, Receive(q) \/ IntrospectionApproves(q)
    PROVE  LogInv'
<1> USE DEF Over
<1>1. Typed /\ Good(q) /\ stage[q] \in {"idle", "verdict"} /\ answer[q] = NoAnswer
  BY DEF IInv, Good, Unanswered, Receive, ReceiveHttp, RateLimited, IntrospectionApproves
<1>2. /\ UNCHANGED <<env, listed, target, wire, reports>>
      /\ \A r \in Requests \ {q} : shape'[r] = shape[r] /\ vouched'[r] = vouched[r]
  BY <1>1 DEF Receive, ReceiveHttp, RateLimited, IntrospectionApproves, Typed
<1> DEFINE Fits == /\ \A r \in Requests \ {q} : Same(r) /\ stage'[r] \in {stage[r], "lost"}
                   /\ stage'[q] \notin {"hanging", "left", stage[q]}
                   /\ answer'[q].code # "relayed"
<1>3. ASSUME Crash(q), UNCHANGED route PROVE Fits
  BY <1>1, <1>2, <1>3 DEF Crash, GoDown, Same, Typed, NoAnswer
<1>4. ASSUME NEW code, code # "relayed", NEW cause, Answer(q, code, cause), UNCHANGED <<route, logged>>
      PROVE  Fits
  BY <1>1, <1>2, <1>4 DEF Answer, Same, Typed
<1>5. ASSUME NEW st, st \notin {"idle", "verdict", "hanging", "left"},
             stage' = [stage EXCEPT ![q] = st], NEW x, route' = [route EXCEPT ![q] = x],
             UNCHANGED <<answer, logged>>
      PROVE  Fits
  BY <1>1, <1>2, <1>5 DEF Same, Typed, NoAnswer
<1>6. ASSUME NEW s, Dispatch(q, s) PROVE Fits
  <2> DEFINE found == RouteOf(config, s)
             st == IF s.path[1] = "api" /\ IsGatewayOpenApiJsonPath(s.path, found.prefix)
                   THEN "swaggerResolve" ELSE RouterStage(found)
  <2>1. st \notin {"idle", "verdict", "hanging", "left"}
    BY DEF RouterStage
  <2>2. CASE /\ route' = [route EXCEPT ![q] = found] /\ stage' = [stage EXCEPT ![q] = st]
             /\ UNCHANGED <<answer, logged>>
    <3> HIDE DEF st, found, Fits
    <3> QED
      BY <1>5, <2>1, <2>2
  <2> QED
    BY <1>3, <1>4, <1>6, <2>2 DEF Dispatch
<1>7. ASSUME NEW s, Authenticate(q, s) PROVE Fits
  <2>1. CASE stage' = [stage EXCEPT ![q] = "introspecting"] /\ UNCHANGED <<route, answer, logged>>
    <3>1. route' = [route EXCEPT ![q] = route[q]]
      BY <1>1, <2>1 DEF Typed
    <3> HIDE DEF Fits
    <3> QED
      BY <1>5, <2>1, <3>1
  <2> HIDE DEF Fits
  <2> QED
    BY <1>4, <1>6, <1>7, <2>1 DEF Authenticate
<1>8. Fits
  <2> HIDE DEF Fits
  <2>1. CASE IntrospectionApproves(q)
    BY <1>6, <2>1 DEF IntrospectionApproves
  <2>2. ASSUME NEW s \in Shapes, ReceiveHttp(q, s) PROVE Fits
    BY <1>6, <1>7, <2>2 DEF ReceiveHttp
  <2>3. ASSUME NEW s \in Shapes, RateLimited(q, s) PROVE Fits
    BY <1>4, <2>3 DEF RateLimited
  <2> QED
    BY <2>1, <2>2, <2>3 DEF Receive
<1> QED
  BY <1>1, <1>2, <1>8, EarlyIsQuiet

\* Between the entry and the response nothing is counted either.
LEMMA ForwardingCounts ==
    ASSUME IInv, LogInv, NEW q \in Requests,
           \/ IntrospectionFails(q) \/ IntrospectionDeadline(q) \/ IntrospectionResponds(q)
           \/ IntrospectionRejects(q) \/ SwaggerServed(q) \/ SwaggerFails(q)
           \/ ListInstances(q) \/ ListingFails(q) \/ Resolve(q) \/ ResolutionFails(q)
           \/ SwaggerResolve(q) \/ SetProxyHeaders(q)
    PROVE  LogInv'
<1> USE DEF Over
<1>1. /\ Typed /\ Good(q)
      /\ stage[q] \in {"introspecting", "verdict", "swaggerResolve", "swaggerFetch", "listing",
                       "resolving", "connecting"}
  BY DEF IInv, IntrospectionFails, IntrospectionDeadline, IntrospectionResponds,
     IntrospectionRejects, SwaggerServed, SwaggerFails, ListInstances, ListingFails, Resolve,
     ResolutionFails, SwaggerResolve, SetProxyHeaders
<1>2. answer[q].code # "relayed"
  BY <1>1 DEF Good, Unanswered, NoAnswer
<1> DEFINE Fits == /\ UNCHANGED reports
                   /\ \A r \in Requests \ {q} : Same(r) /\ stage'[r] \in {stage[r], "lost"}
                   /\ stage'[q] \notin {"hanging", "left", stage[q]}
                   /\ answer'[q].code # "relayed"
<1>3. ASSUME \/ IntrospectionFails(q) \/ IntrospectionDeadline(q) \/ IntrospectionResponds(q)
             \/ IntrospectionRejects(q) \/ SwaggerServed(q) \/ SwaggerFails(q)
      PROVE  Fits
  BY <1>1, <1>2, <1>3 DEF Same, IntrospectionFails, IntrospectionDeadline, IntrospectionResponds,
     IntrospectionRejects, SwaggerServed, SwaggerFails, Answer, Typed
<1>4. ASSUME \/ ListInstances(q) \/ ListingFails(q) \/ Resolve(q) \/ ResolutionFails(q)
             \/ SwaggerResolve(q)
      PROVE  Fits
  BY <1>1, <1>2, <1>4 DEF Same, ListInstances, ListingFails, Resolve, ResolutionFails,
     SwaggerResolve, MarkUnavailable, SendTo, Typed
<1>5. ASSUME SetProxyHeaders(q) PROVE Fits
  BY <1>1, <1>2, <1>5 DEF Same, SetProxyHeaders, Crash, GoDown, Typed
<1>6. Fits
  BY <1>3, <1>4, <1>5
<1> QED
  BY <1>1, <1>6, EarlyIsQuiet

LEMMA ResponseCounts ==
    ASSUME IInv, LogInv, NEW q \in Requests,
           \/ DownstreamResponds(q) \/ BodyArrives(q) \/ RelayEnds(q) \/ BreaksOff(q)
           \/ ErrorHandler(q) \/ ConnectionCloses(q)
    PROVE  LogInv'
<1> USE DEF Over
<1>1. /\ Typed /\ Good(q) /\ Counted(q) /\ stage[q] \in {"awaiting", "relaying", "hanging"}
      /\ UNCHANGED <<shape, wire, target>>
  BY DEF IInv, LogInv, DownstreamResponds, BodyArrives, RelayEnds, BreaksOff, ErrorHandler,
         ConnectionCloses
<1>2. \A r \in Requests \ {q} : answer'[r] = answer[r] /\ stage'[r] = stage[r]
  BY <1>1 DEF DownstreamResponds, BodyArrives, RelayEnds, BreaksOff, ErrorHandler,
     ConnectionCloses, Answer, Typed
<1>3. Observe(q) \/ UNCHANGED reports
  BY DEF DownstreamResponds, BodyArrives, RelayEnds, BreaksOff, ErrorHandler, ConnectionCloses
<1>4. reports' \in [Requests -> Nat] /\ \A r \in Requests \ {q} : reports'[r] = reports[r]
  BY <1>1, <1>3 DEF Observe, LogInv
<1>5. ASSUME NEW r \in Requests \ {q} PROVE Counted(r)'
  BY <1>1, <1>2, <1>4, <1>5, QuietKeepsCounted DEF Quiet, LogInv
<1>6. /\ Sent(q)' /\ (stage[q] # "awaiting" => target'[q] # DeadTarget)
      /\ stage[q] = "awaiting" => reports[q] = 0 /\ answer[q].code # "relayed"
  BY <1>1 DEF Good, Served, Sent, Unanswered, NoAnswer, Counted
<1>7. ASSUME Observe(q), stage'[q] \in {"relaying", "hanging"} \cup Over, target'[q] # DeadTarget
      PROVE  Counted(q)'
  <2>1. reports'[q] = IF ShouldLogGatewayRequestPath(shape[q].path) THEN 1 ELSE reports[q]
    BY <1>1, <1>7 DEF Observe, LogInv, Counted
  <2>2. reports[q] = 1 => ShouldLogGatewayRequestPath(shape[q].path)
    BY <1>1 DEF Counted
  <2> QED
    BY <1>1, <1>6, <1>7, <2>1, <2>2 DEF Counted, Observed
<1>8. CASE DownstreamResponds(q)
  <2>1. stage'[q] = "relaying" /\ target'[q] # DeadTarget /\ reports[q] = 0
    BY <1>1, <1>6, <1>8 DEF DownstreamResponds, Typed
  <2>2. UNCHANGED reports => Counted(q)'
    BY <2>1 DEF Counted, Observed
  <2> QED
    BY <1>3, <1>4, <1>5, <1>7, <2>1, <2>2 DEF LogInv
<1>9. CASE BodyArrives(q)
  <2>1. stage[q] = "relaying" /\ stage'[q] = "relaying" /\ target'[q] # DeadTarget
    BY <1>6, <1>9 DEF BodyArrives
  <2>2. UNCHANGED reports => Counted(q)'
    BY <1>1, <1>6, <2>1 DEF Counted, Observed
  <2> QED
    BY <1>3, <1>4, <1>5, <1>7, <2>1, <2>2 DEF LogInv
<1>10. CASE RelayEnds(q) \/ BreaksOff(q)
  <2>1. Observe(q) /\ stage[q] = "relaying" /\ stage'[q] \in {"done", "hanging"}
    BY <1>1, <1>10 DEF RelayEnds, BreaksOff, Typed
  <2> QED
    BY <1>4, <1>5, <1>6, <1>7, <2>1 DEF LogInv
<1>11. CASE ConnectionCloses(q)
  <2>1. stage'[q] = "left" /\ answer' = answer
    BY <1>1, <1>11 DEF ConnectionCloses, Typed
  <2>2. CASE stage[q] = "relaying"
    BY <1>4, <1>5, <1>6, <1>7, <1>11, <2>1, <2>2 DEF LogInv, ConnectionCloses
  <2>3. CASE stage[q] # "relaying"
    <3>1. UNCHANGED reports
      BY <1>11, <2>3 DEF ConnectionCloses
    <3>2. Counted(q)'
      BY <1>1, <1>6, <2>1, <2>3, <3>1 DEF Counted, Observed
    <3> QED
      BY <1>4, <1>5, <3>2 DEF LogInv
  <2> QED
    BY <2>2, <2>3
<1>12. CASE ErrorHandler(q)
  <2>1. stage'[q] = "done"
    BY <1>1, <1>12 DEF ErrorHandler, Answer, Typed
  <2>2. CASE stage[q] = "relaying"
    BY <1>4, <1>5, <1>6, <1>7, <1>12, <2>1, <2>2 DEF LogInv, ErrorHandler
  <2>3. CASE stage[q] = "awaiting"
    <3>1. answer'[q].code # "relayed" /\ UNCHANGED reports /\ reports[q] = 0
      BY <1>1, <1>6, <1>12, <2>3 DEF ErrorHandler, Answer, Typed
    <3>2. Counted(q)'
      BY <2>1, <3>1 DEF Counted, Observed
    <3> QED
      BY <1>4, <1>5, <3>2 DEF LogInv
  <2> QED
    BY <1>12, <2>2, <2>3 DEF ErrorHandler
<1> QED
  BY <1>8, <1>9, <1>10, <1>11, <1>12

LEMMA LogInductive == Spec => []LogInv
<1>1. Init => LogInv
  BY DEF Init, LogInv, Counted, Observed, NoAnswer
<1>2. IInv /\ LogInv /\ [Next]_vars => LogInv'
  <2> SUFFICES ASSUME IInv, LogInv, [Next]_vars PROVE LogInv'
    OBVIOUS
  <2>1. CASE Surroundings \/ UNCHANGED vars
    <3>1. UNCHANGED request
      BY <2>1 DEF Surroundings, ChangeConfig, Restart, ChangeListing, PushInstances, vars
    <3> QED
      BY <3>1, QuietKeepsLogInv DEF request, Quiet
  <2>2. CASE Fall
    <3>1. ASSUME NEW r \in Requests PROVE Quiet(r)
      BY <2>2 DEF Quiet, Fall, GoDown, Over
    <3> QED
      BY <2>2, <3>1, QuietKeepsLogInv DEF Fall
  <2>3. ASSUME NEW q \in Requests, Receive(q) \/ Progress(q) PROVE LogInv'
    BY <2>3, EntryCounts, ForwardingCounts, ResponseCounts DEF Progress
  <2> QED
    BY <2>1, <2>2, <2>3 DEF Next
<1> QED
  BY <1>1, <1>2, Inductive, PTL DEF Spec

\* Types, of the routes and of the request heads in particular.
THEOREM TypeCorrect == Spec => []TypeOK
<1>1. IInv /\ LogInv => TypeOK
  BY DEF IInv, LogInv, TypeOK
<1> QED
  BY <1>1, Inductive, LogInductive, PTL

\* One access-log line for each response that was relayed, broke off or was left,
\* whatever the order of its events, and none for a request without one.
THEOREM OneLinePerResponse == Spec => []ReportedOnce
<1>1. LogInv => ReportedOnce
  BY DEF LogInv, Counted, Observed, ReportedOnce
<1> QED
  BY <1>1, LogInductive, PTL

-----------------------------------------------------------------------------
(* Crashes                                                                  *)

\* The options that a request on arrival needs are usable only with readable routes.
LEMMA ArrivalIsSafe ==
    ASSUME NEW q \in Requests, Receive(q)
    PROVE  alive' = alive
<1>1. ASSUME NEW s, Dispatch(q, s), alive' # alive
      PROVE  ~ HasGatewayRoutes(config) /\ s.path[1] = "api"
  BY <1>1 DEF Dispatch
<1>2. ASSUME NEW s, Authenticate(q, s) PROVE alive' = alive
  BY <1>1, <1>2 DEF Authenticate, HasGatewayAuthOptions
<1>3. ASSUME NEW s \in Shapes, ReceiveHttp(q, s) PROVE alive' = alive
  BY <1>1, <1>2, <1>3, StrippedShapes DEF ReceiveHttp
<1> QED
  BY <1>3 DEF Receive, RateLimited

\* No request takes the process down on arrival or without an approved token: it
\* takes routes that became unreadable during introspection, or a missing key.
THEOREM CrashesAreExplained == Spec => CrashesExplained
<1> DEFINE Explained(r) ==
             \/ stage[r] = "verdict" /\ ~ HasGatewayRoutes(config)
             \/ stage[r] = "connecting" /\ vouched[r] /\ ~ config.secret
<1>1. ASSUME alive' # alive, NEW q \in Requests, NEW s, Dispatch(q, s)
      PROVE  ~ HasGatewayRoutes(config)
  BY <1>1 DEF Dispatch
<1>2. ASSUME alive' # alive, NEW q \in Requests PROVE ~ Receive(q)
  BY <1>2, ArrivalIsSafe
<1>3. ASSUME alive' # alive, NEW q \in Requests, Progress(q) PROVE Explained(q)
  <2>1. CASE IntrospectionApproves(q)
    BY <1>1, <1>3, <2>1 DEF IntrospectionApproves
  <2>2. CASE SetProxyHeaders(q)
    BY <1>3, <2>2 DEF SetProxyHeaders
  <2> QED
    BY <1>3, <2>1, <2>2 DEF Progress, IntrospectionFails, IntrospectionDeadline,
       IntrospectionResponds, IntrospectionRejects, ListInstances, ListingFails, Resolve,
       ResolutionFails, DownstreamResponds, BodyArrives, RelayEnds, BreaksOff, ErrorHandler,
       ConnectionCloses, SwaggerResolve, SwaggerServed, SwaggerFails
<1>4. [Next]_vars =>
        [\A r \in Requests :
           alive' # alive /\ (Receive(r) \/ Progress(r)) =>
              \/ stage[r] = "verdict" /\ ~ HasGatewayRoutes(config)
              \/ stage[r] = "connecting" /\ vouched[r] /\ ~ config.secret]_vars
  BY <1>2, <1>3
<1> QED
  BY <1>4, PTL DEF Spec, CrashesExplained

-----------------------------------------------------------------------------
(* Why every request settles                                                *)

\* How far on its way a request is.
Station(st) ==
    CASE st = "idle" -> 0
      [] st = "introspecting" -> 1
      [] st = "verdict" -> 2
      [] st \in {"swaggerResolve", "listing"} -> 3
      [] st \in {"swaggerFetch", "resolving"} -> 4
      [] st = "connecting" -> 5
      [] st = "awaiting" -> 6
      [] st = "relaying" -> 7
      [] st = "hanging" -> 8
      [] OTHER -> 9

Begun(r) == IF answer[r] = NoAnswer THEN 0 ELSE 1

\* A body may begin and its code be reported while the stage stays what it is.
Covered(r) == Station(stage[r]) + reports[r] + Begun(r)

\* No failure, retry or event of the exchange takes a request back: each step of
\* its own that is more than another part of a body brings it closer to its end,
\* at most eleven of them, and no step of another request or of the world around
\* undoes one.
RequestsOnlyAdvance ==
    [][\A r \in Requests :
         /\ Covered(r) <= Covered(r)' /\ Covered(r)' <= 11
         /\ Progress(r) => Covered(r) < Covered(r)']_vars

LEMMA StationType ==
    ASSUME NEW st
    PROVE  Station(st) \in 0 .. 9
BY DEF Station

\* A step of request q to a later stage, or one that ends the process.
MovesOn(q) ==
    \/ \E st \in Stages : stage' = [stage EXCEPT ![q] = st] /\ Station(stage[q]) < Station(st)
    \/ Crash(q) /\ Station(stage[q]) < 9

\* The end of the process is that of every request in flight and leaves the others be.
LEMMA GoDownAdvances ==
    ASSUME NEW lost, GoDown(lost), NEW r \in Requests
    PROVE  /\ Station(stage[r]) <= Station(stage'[r])
           /\ r \in lost /\ Station(stage[r]) < 9 => Station(stage[r]) < Station(stage'[r])
<1>1. stage'[r] = IF r \in lost \/ stage[r] \in InFlight THEN "lost" ELSE stage[r]
  BY DEF GoDown
<1>2. Station("lost") = 9 /\ Station(stage[r]) \in 0 .. 9
  BY StationType DEF Station
<1>3. CASE r \in lost \/ stage[r] \in InFlight
  <2>1. stage'[r] = "lost"
    BY <1>1, <1>3, Zenon
  <2>2. Station(stage'[r]) = 9
    BY <1>2, <2>1, Zenon
  <2> QED
    BY <1>2, <2>2
<1>4. CASE ~ (r \in lost \/ stage[r] \in InFlight)
  <2>1. stage'[r] = stage[r] /\ Station(stage'[r]) = Station(stage[r])
    BY <1>1, <1>4, Zenon
  <2> QED
    BY <1>2, <1>4, <2>1
<1> QED
  BY <1>3, <1>4

\* A move of one request takes none of them back.
LEMMA MoveAdvances ==
    ASSUME IInv, NEW q \in Requests, MovesOn(q), NEW r \in Requests
    PROVE  /\ Station(stage[r]) <= Station(stage'[r])
           /\ r = q => Station(stage[r]) < Station(stage'[r])
<1>1. CASE Crash(q) /\ Station(stage[q]) < 9
  BY <1>1, GoDownAdvances DEF Crash
<1>2. ASSUME NEW st \in Stages, stage' = [stage EXCEPT ![q] = st], Station(stage[q]) < Station(st)
      PROVE  /\ Station(stage[r]) <= Station(stage'[r])
             /\ r = q => Station(stage[r]) < Station(stage'[r])
  <2>1. stage'[r] = IF r = q THEN st ELSE stage[r]
    BY <1>2 DEF IInv, Typed
  <2>2. Station(st) \in 0 .. 9 /\ Station(stage[r]) \in 0 .. 9
    BY StationType
  <2>3. CASE r = q
    <3>1. Station(stage'[r]) = Station(st) /\ Station(stage[r]) < Station(st)
      BY <1>2, <2>1, <2>3, Zenon
    <3> QED
      BY <2>2, <3>1
  <2>4. CASE r # q
    <3>1. Station(stage'[r]) = Station(stage[r])
      BY <2>1, <2>4, Zenon
    <3> QED
      BY <2>2, <2>4, <3>1
  <2> QED
    BY <2>3, <2>4
<1> QED
  BY <1>1, <1>2 DEF MovesOn

LEMMA DispatchMovesOn ==
    ASSUME NEW q \in Requests, NEW s, stage[q] \in {"idle", "verdict"}, Dispatch(q, s)
    PROVE  MovesOn(q)
<1> DEFINE found == RouteOf(config, s)
           st == IF s.path[1] = "api" /\ IsGatewayOpenApiJsonPath(s.path, found.prefix)
                 THEN "swaggerResolve" ELSE RouterStage(found)
<1>1. st \in {"swaggerResolve", "listing", "resolving"}
  BY DEF RouterStage
<1>2. \/ Crash(q)
      \/ stage' = [stage EXCEPT ![q] = "done"]
      \/ stage' = [stage EXCEPT ![q] = st]
  BY DEF Dispatch, Answer
<1> HIDE DEF st
<1>3. Station(stage[q]) <= 2 /\ Station(stage[q]) \in Int
  BY DEF Station
<1>4. \A to \in {"done", "swaggerResolve", "listing", "resolving"} :
         to \in Stages /\ Station(to) \in 3 .. 9
  BY DEF Station, Stages
<1> QED
  BY <1>1, <1>2, <1>3, <1>4 DEF MovesOn

LEMMA ReceiveMovesOn ==
    ASSUME NEW q \in Requests, Receive(q)
    PROVE  MovesOn(q)
<1>1. PICK t \in Shapes : ReceiveHttp(q, t) \/ RateLimited(q, t)
  BY DEF Receive
<1> DEFINE s == StripIdentity(t)
<1>2. stage[q] = "idle"
  BY <1>1 DEF ReceiveHttp, RateLimited
<1>3. /\ Station("idle") = 0
      /\ \A to \in {"done", "introspecting"} : to \in Stages /\ Station(to) \in 1 .. 9
  BY DEF Station, Stages
<1>4. ASSUME NEW to \in {"done", "introspecting"}, stage' = [stage EXCEPT ![q] = to]
      PROVE  MovesOn(q)
  <2>1. to \in Stages /\ 0 < Station(to)
    BY <1>3
  <2>2. Station(stage[q]) = 0
    BY <1>2, <1>3, Zenon
  <2>3. Station(stage[q]) < Station(to)
    BY <2>1, <2>2
  <2> QED
    BY <1>4, <2>1, <2>3 DEF MovesOn
<1> HIDE DEF s
<1>5. CASE Dispatch(q, s)
  BY <1>2, <1>5, DispatchMovesOn
<1>6. CASE Authenticate(q, s)
  <2>1. CASE \/ stage' = [stage EXCEPT ![q] = "done"]
             \/ stage' = [stage EXCEPT ![q] = "introspecting"]
    BY <1>4, <2>1
  <2> QED
    BY <1>5, <1>6, <2>1 DEF Authenticate, Answer
<1>7. CASE RateLimited(q, t)
  BY <1>4, <1>7 DEF RateLimited, Answer
<1> QED
  BY <1>1, <1>5, <1>6, <1>7 DEF ReceiveHttp, s

\* Every event of a request in flight but a part of a body is a move.
LEMMA ProgressMovesOn ==
    ASSUME NEW q \in Requests, Progress(q), ~ BodyArrives(q)
    PROVE  MovesOn(q)
<1>1. CASE IntrospectionApproves(q)
  BY <1>1, DispatchMovesOn DEF IntrospectionApproves
<1>2. CASE SetProxyHeaders(q)
  <2>1. stage[q] = "connecting" /\ (Crash(q) \/ stage' = [stage EXCEPT ![q] = "awaiting"])
    BY <1>2 DEF SetProxyHeaders
  <2>2. Station("connecting") = 5 /\ Station("awaiting") = 6 /\ "awaiting" \in Stages
    BY DEF Station, Stages
  <2>3. Station(stage[q]) = 5
    BY <2>1, <2>2, Zenon
  <2>4. Station(stage[q]) < 9 /\ Station(stage[q]) < Station("awaiting")
    BY <2>2, <2>3
  <2>5. CASE Crash(q)
    BY <2>4, <2>5, Zenon DEF MovesOn
  <2>6. CASE stage' = [stage EXCEPT ![q] = "awaiting"]
    BY <2>2, <2>4, <2>6, Zenon DEF MovesOn
  <2> QED
    BY <2>1, <2>5, <2>6
<1>3. CASE \/ IntrospectionFails(q) \/ IntrospectionDeadline(q) \/ IntrospectionRejects(q)
           \/ SwaggerServed(q) \/ SwaggerFails(q) \/ RelayEnds(q) \/ ErrorHandler(q)
           \/ ConnectionCloses(q)
  <2>1. /\ \E to \in {"done", "left"} : stage' = [stage EXCEPT ![q] = to]
        /\ stage[q] \in {"introspecting", "verdict", "swaggerResolve", "swaggerFetch",
                         "awaiting", "relaying", "hanging"}
    BY <1>3 DEF IntrospectionFails, IntrospectionDeadline, IntrospectionRejects, SwaggerServed,
       SwaggerFails, RelayEnds, ErrorHandler, ConnectionCloses, Answer
  <2>2. Station(stage[q]) \in 0 .. 8
    BY <2>1 DEF Station
  <2>3. \A to \in {"done", "left"} : Station(to) = 9 /\ to \in Stages
    BY DEF Station, Stages
  <2>4. \A to \in {"done", "left"} : Station(stage[q]) < Station(to)
    BY <2>2, <2>3
  <2> QED
    BY <2>1, <2>3, <2>4, Zenon DEF MovesOn
<1>4. CASE IntrospectionResponds(q) \/ SwaggerResolve(q) \/ DownstreamResponds(q) \/ BreaksOff(q)
  <2>1. \E from, to \in Stages :
           stage[q] = from /\ stage' = [stage EXCEPT ![q] = to] /\ Station(from) < Station(to)
    <3>1. \/ stage[q] = "introspecting" /\ stage' = [stage EXCEPT ![q] = "verdict"]
          \/ stage[q] = "swaggerResolve" /\ stage' = [stage EXCEPT ![q] = "swaggerFetch"]
          \/ stage[q] = "awaiting" /\ stage' = [stage EXCEPT ![q] = "relaying"]
          \/ stage[q] = "relaying" /\ stage' = [stage EXCEPT ![q] = "hanging"]
      BY <1>4 DEF IntrospectionResponds, SwaggerResolve, DownstreamResponds, BreaksOff
    <3> QED
      BY <3>1 DEF Station, Stages
  <2> QED
    BY <2>1 DEF MovesOn
<1>5. CASE ListInstances(q) \/ ListingFails(q) \/ Resolve(q) \/ ResolutionFails(q)
  <2>1. \E from, to \in Stages :
           stage[q] = from /\ stage' = [stage EXCEPT ![q] = to] /\ Station(from) < Station(to)
    <3>1. \/ stage[q] = "listing" /\ stage' = [stage EXCEPT ![q] = "resolving"]
          \/ stage[q] \in {"listing", "resolving"} /\ stage' = [stage EXCEPT ![q] = "connecting"]
      BY <1>5 DEF ListInstances, ListingFails, Resolve, ResolutionFails, MarkUnavailable, SendTo
    <3> QED
      BY <3>1 DEF Station, Stages
  <2> QED
    BY <2>1 DEF MovesOn
<1> QED
  BY <1>1, <1>2, <1>3, <1>4, <1>5 DEF Progress

\* The log of a request never loses a line.
LEMMA ReportsGrow ==
    ASSUME IInv, LogInv, NEW q \in Requests, Receive(q) \/ Progress(q), NEW r \in Requests
    PROVE  reports[r] <= reports'[r]
<1>1. reports[r] \in Nat /\ (Observe(q) \/ UNCHANGED reports)
  BY DEF LogInv, Progress, Receive, ReceiveHttp, RateLimited, IntrospectionFails,
     IntrospectionDeadline, IntrospectionResponds, IntrospectionRejects, IntrospectionApproves,
     ListInstances, ListingFails, Resolve, ResolutionFails, SetProxyHeaders, DownstreamResponds,
     BodyArrives, RelayEnds, BreaksOff, ErrorHandler, ConnectionCloses, SwaggerResolve,
     SwaggerServed, SwaggerFails
<1> QED
  BY <1>1 DEF Observe, LogInv

\* A part of a body begins the answer, is reported, or is no step at all.
LEMMA BodyAdvances ==
    ASSUME IInv, LogInv, NEW q \in Requests, BodyArrives(q)
    PROVE  /\ stage' = stage
           /\ UNCHANGED vars \/ reports[q] < reports'[q] \/ Begun(q) < Begun(q)'
<1>1. /\ Typed /\ answer[q] \in {NoAnswer, Relayed} /\ reports[q] \in {0, 1}
      /\ stage' = stage /\ answer' = [answer EXCEPT ![q] = Relayed]
      /\ UNCHANGED <<alive, env, shape, route, vouched, listed, target, unavailable, wire, logged>>
      /\ Observe(q) \/ UNCHANGED reports
  BY DEF IInv, Good, Passing, LogInv, Counted, BodyArrives
<1>2. CASE answer[q] = NoAnswer
  BY <1>1, <1>2 DEF Begun, Typed, NoAnswer, Relayed
<1>3. CASE answer[q] = Relayed
  <2>1. answer' = answer
    BY <1>1, <1>3 DEF Typed
  <2>2. UNCHANGED reports \/ reports[q] < reports'[q]
    BY <1>1 DEF Observe, LogInv
  <2> QED
    BY <1>1, <2>1, <2>2 DEF vars, request
<1> QED
  BY <1>1, <1>2, <1>3

\* The safety half of EveryRequestSettles: what fairness makes a request do is
\* never undone, so eleven steps of its own end it unless its response flows on.
THEOREM RequestsAdvance == Spec => RequestsOnlyAdvance
<1> DEFINE Advances(r) ==
             /\ Covered(r) <= Covered(r)' /\ Covered(r)' <= 11
             /\ Progress(r) => Covered(r) < Covered(r)'
<1>1. ASSUME IInv, LogInv, NEW q \in Requests, Receive(q) \/ Progress(q), NEW r \in Requests
      PROVE  /\ Station(stage[r]) <= Station(stage'[r]) /\ reports[r] <= reports'[r]
             /\ r = q /\ Progress(q) =>
                   \/ Station(stage[r]) < Station(stage'[r]) \/ reports[r] < reports'[r]
                   \/ Begun(r) < Begun(r)' \/ UNCHANGED vars
  <2>1. reports[r] <= reports'[r]
    BY <1>1, ReportsGrow
  <2>2. CASE MovesOn(q)
    BY <1>1, <2>1, <2>2, MoveAdvances
  <2>3. CASE BodyArrives(q)
    <3>1. Station(stage[r]) <= Station(stage'[r])
      BY <1>1, <2>3, BodyAdvances, StationType
    <3> QED
      BY <1>1, <2>1, <2>3, <3>1, BodyAdvances
  <2> QED
    BY <1>1, <2>2, <2>3, ReceiveMovesOn, ProgressMovesOn
<1>2. ASSUME IInv, LogInv, LogInv', Next, ~ UNCHANGED vars, NEW r \in Requests PROVE Advances(r)
  <2>1. /\ Station(stage[r]) \in 0 .. 9 /\ Station(stage'[r]) \in 0 .. 9
        /\ reports[r] \in {0, 1} /\ reports'[r] \in {0, 1}
    BY <1>2, StationType DEF LogInv, Counted
  <2>2. Begun(r) \in {0, 1} /\ Begun(r)' \in {0, 1} /\ Begun(r) <= Begun(r)'
    <3>1. answer[r] # NoAnswer => answer'[r] = answer[r]
      BY <1>2, AnswersKept
    <3> QED
      BY <3>1 DEF Begun
  <2>3. /\ Station(stage[r]) <= Station(stage'[r]) /\ reports[r] <= reports'[r]
    <3>1. CASE Surroundings
      <4>1. stage' = stage /\ reports' = reports
        BY <3>1 DEF Surroundings, ChangeConfig, Restart, ChangeListing, PushInstances, request
      <4> QED
        BY <2>1, <4>1
    <3>2. CASE Fall
      <4>1. GoDown({}) /\ reports' = reports
        BY <3>2 DEF Fall
      <4> QED
        BY <2>1, <4>1, GoDownAdvances
    <3>3. CASE \E q \in Requests : Receive(q) \/ Progress(q)
      BY <1>1, <1>2, <3>3
    <3> QED
      BY <1>2, <3>1, <3>2, <3>3 DEF Next
  <2>4. Progress(r) => \/ Station(stage[r]) < Station(stage'[r]) \/ reports[r] < reports'[r]
                       \/ Begun(r) < Begun(r)'
    BY <1>1, <1>2
  <2>5. Covered(r) = Station(stage[r]) + reports[r] + Begun(r)
        /\ Covered(r)' = Station(stage'[r]) + reports'[r] + Begun(r)'
    BY DEF Covered
  <2> QED
    BY <2>1, <2>2, <2>3, <2>4, <2>5
<1>3. IInv /\ LogInv /\ LogInv' /\ [Next]_vars => [\A r \in Requests : Advances(r)]_vars
  BY <1>2
<1> QED
  BY <1>3, Inductive, LogInductive, PTL DEF Spec, RequestsOnlyAdvance

-----------------------------------------------------------------------------
(* The ideal gateway: each step of a request is the step of IdealGateway    *)
(* that its phases name, or none                                            *)

\* Nothing is in flight while the process is down.
Down == ~ alive => \A r \in Requests : stage[r] \notin InFlight

RInv == IInv /\ Down

\* What a step of request q leaves to the others.
Apart(q) ==
    \A r \in Requests \ {q} : /\ stage'[r] = stage[r] /\ route'[r] = route[r]
                              /\ vouched'[r] = vouched[r] /\ wire'[r] = wire[r]

PinOf(r) == IF stage[r] \in Admitted \cup Forwarded THEN route[r] ELSE NoRoute
ApprovedOf(r) == stage[r] \in Admitted \cup Forwarded /\ vouched[r]
HeadOf(r) == IF Sent(r) THEN wire[r] ELSE NoWire

-----------------------------------------------------------------------------
(* The process and its requests                                             *)

\* Progress is of requests in flight.
LEMMA InFlightOnly ==
    ASSUME NEW q \in Requests, Progress(q)
    PROVE  stage[q] \in InFlight
<1> DEFINE Busy == {"introspecting", "verdict", "swaggerResolve", "swaggerFetch", "listing",
                    "resolving", "connecting", "awaiting", "relaying", "hanging"}
<1>1. stage[q] \in Busy
  BY DEF Progress, IntrospectionFails, IntrospectionDeadline, IntrospectionResponds,
     IntrospectionRejects, IntrospectionApproves, ListInstances, ListingFails, Resolve,
     ResolutionFails, SetProxyHeaders, DownstreamResponds, BodyArrives, RelayEnds, BreaksOff,
     ErrorHandler, ConnectionCloses, SwaggerResolve, SwaggerServed, SwaggerFails
<1> QED
  BY <1>1 DEF InFlight, Stages, Over

\* A step of a request ends the process only by a crash of its own.
LEMMA OnlyCrashesEnd ==
    ASSUME NEW q \in Requests, Receive(q) \/ Progress(q), alive' # alive
    PROVE  Crash(q)
<1>1. ASSUME NEW s, Dispatch(q, s) PROVE Crash(q)
  BY <1>1 DEF Dispatch
<1>2. CASE IntrospectionApproves(q)
  BY <1>1, <1>2 DEF IntrospectionApproves
<1> QED
  BY <1>2, ArrivalIsSafe DEF Progress, IntrospectionFails, IntrospectionDeadline,
     IntrospectionResponds, IntrospectionRejects, ListInstances, ListingFails, Resolve,
     ResolutionFails, SetProxyHeaders, DownstreamResponds, BodyArrives, RelayEnds, BreaksOff,
     ErrorHandler, ConnectionCloses, SwaggerResolve, SwaggerServed, SwaggerFails

\* What ends the process ends every request in flight.
LEMMA DownInductive == Spec => []Down
<1> USE DEF InFlight, Stages, Over
<1>1. Init => Down
  BY DEF Init, Down
<1>2. Down /\ [Next]_vars => Down'
  <2> SUFFICES ASSUME Down, [Next]_vars PROVE Down'
    OBVIOUS
  <2>1. CASE Surroundings \/ UNCHANGED vars
    <3>1. UNCHANGED request /\ (alive => alive')
      BY <2>1 DEF Surroundings, ChangeConfig, Restart, ChangeListing, PushInstances, vars
    <3> QED
      BY <3>1 DEF Down, request
  <2>2. ASSUME NEW lost, GoDown(lost) PROVE Down'
    BY <2>2 DEF Down, GoDown
  <2>3. CASE Fall
    BY <2>2, <2>3 DEF Fall
  <2>4. ASSUME NEW q \in Requests, Receive(q) \/ Progress(q) PROVE Down'
    <3>1. alive
      BY <2>4, InFlightOnly DEF Receive, ReceiveHttp, RateLimited, Down
    <3>2. CASE alive' = alive
      BY <3>1, <3>2 DEF Down
    <3>3. CASE alive' # alive
      <4>1. Crash(q)
        BY <2>4, <3>3, OnlyCrashesEnd
      <4> QED
        BY <2>2, <4>1 DEF Crash
    <3> QED
      BY <3>2, <3>3
  <2> QED
    BY <2>1, <2>3, <2>4 DEF Next
<1> QED
  BY <1>1, <1>2, PTL DEF Spec

-----------------------------------------------------------------------------
(* Steps of the ideal gateway                                               *)

\* A step of one request moves one place of the mapped variables.
LEMMA MapStep ==
    ASSUME NEW q \in Requests, Apart(q)
    PROVE  /\ Phase' = [Phase EXCEPT ![q] = PhaseOf(stage'[q])]
           /\ Pin' = [Pin EXCEPT ![q] = PinOf(q)']
           /\ Approved' = [Approved EXCEPT ![q] = ApprovedOf(q)']
           /\ SentHead' = [SentHead EXCEPT ![q] = HeadOf(q)']
BY DEF Apart, Phase, Pin, PinOf, Approved, ApprovedOf, SentHead, HeadOf, Sent

\* One that changes none of these at q is no step.
LEMMA Stutters ==
    ASSUME Typed, NEW q \in Requests, Apart(q), UNCHANGED <<alive, config, shape>>,
           PhaseOf(stage'[q]) = PhaseOf(stage[q]), PinOf(q)' = PinOf(q),
           ApprovedOf(q)' = ApprovedOf(q), HeadOf(q)' = HeadOf(q)
    PROVE  UNCHANGED Ideal!vars
<1>1. Phase' = Phase /\ Pin' = Pin
  BY MapStep DEF Phase, Pin, PinOf
<1>2. Approved' = Approved
  BY MapStep DEF Approved, ApprovedOf
<1>3. SentHead' = SentHead
  BY MapStep DEF SentHead, HeadOf
<1> QED
  BY <1>1, <1>2, <1>3 DEF Ideal!vars

\* A request in flight is open and has its shape, a new one brings it.
LEMMA ComesIdeal ==
    ASSUME RInv, NEW q \in Requests, NEW s \in Stripped,
           \/ stage[q] = "idle" /\ shape' = [shape EXCEPT ![q] = s]
           \/ stage[q] \in InFlight /\ s = shape[q] /\ shape' = shape
    PROVE  Ideal!Comes(q, s)
BY DEF Ideal!Comes, Ideal!Open, Phase, PhaseOf, InFlight, Stages, Over, Admitted, Forwarded

LEMMA CloseIdeal ==
    ASSUME RInv, NEW q \in Requests, NEW s \in Stripped, Ideal!Comes(q, s), Apart(q),
           stage[q] \in {"idle"} \cup InFlight, alive, UNCHANGED <<alive, config, wire>>,
           stage'[q] \in {"done", "left"}
    PROVE  Ideal!Next
<1>1. /\ PhaseOf(stage'[q]) = "closed" /\ PinOf(q)' = NoRoute /\ ApprovedOf(q)' = FALSE
      /\ PhaseOf(stage[q]) # "closed"
  BY DEF PhaseOf, PinOf, ApprovedOf, Admitted, Forwarded, InFlight, Stages, Over
<1>2. SentHead' = SentHead
  BY DEF SentHead, Sent
<1>3. Ideal!Close(q, s)
  BY <1>1, <1>2, MapStep DEF Ideal!Close, Phase
<1> QED
  BY <1>3 DEF Ideal!Next

\* Only requests in flight go down with the process.
LEMMA DieIdeal ==
    ASSUME RInv, NEW lost, GoDown(lost), \A q \in Requests \cap lost : stage[q] \in InFlight,
           alive, UNCHANGED <<config, shape, wire>>
    PROVE  Ideal!Next
<1> USE DEF InFlight, Stages, Over, Admitted, Forwarded
<1>1. Typed
  BY DEF RInv, IInv
<1>2. \A r \in Requests : PhaseOf(stage[r]) \in Ideal!Open <=> stage[r] \in InFlight
  BY <1>1 DEF PhaseOf, Ideal!Open, Typed, Over
<1>3. ASSUME NEW r \in Requests
      PROVE  /\ stage'[r] = IF stage[r] \in InFlight THEN "lost" ELSE stage[r]
             /\ stage'[r] \notin Admitted \cup Forwarded
  BY <1>1 DEF GoDown, Typed, Over
<1>4. Pin' = [r \in Requests |-> NoRoute] /\ Approved' = [r \in Requests |-> FALSE]
  BY <1>3 DEF Pin, Approved
<1>5. Phase' = [r \in Requests |-> IF Phase[r] \in Ideal!Open THEN "closed" ELSE Phase[r]]
  <2>1. PhaseOf("lost") = "closed"
    BY DEF PhaseOf
  <2>2. ASSUME NEW r \in Requests
        PROVE  PhaseOf(stage'[r]) = IF Phase[r] \in Ideal!Open THEN "closed" ELSE Phase[r]
    <3>1. Phase[r] = PhaseOf(stage[r])
      BY DEF Phase
    <3> QED
      BY <1>2, <1>3, <2>1, <3>1
  <2> QED
    BY <2>2 DEF Phase
<1>6. SentHead' = SentHead
  BY DEF SentHead, Sent
<1>7. Ideal!Die
  BY <1>4, <1>5, <1>6 DEF Ideal!Die, GoDown
<1> QED
  BY <1>7 DEF Ideal!Next

LEMMA HoldIdeal ==
    ASSUME RInv, NEW q \in Requests, NEW s \in Stripped, Ideal!Comes(q, s), Apart(q),
           stage[q] = "idle", alive, UNCHANGED <<alive, config, wire>>,
           NeedsToken(config, s.path), s.bearer, stage'[q] = "introspecting"
    PROVE  Ideal!Next
<1>1. /\ PhaseOf(stage'[q]) = "held" /\ PhaseOf(stage[q]) = "idle"
      /\ PinOf(q)' = NoRoute /\ ApprovedOf(q)' = FALSE
      /\ PinOf(q) = NoRoute /\ ApprovedOf(q) = FALSE
  BY DEF PhaseOf, PinOf, ApprovedOf, Admitted, Forwarded
<1>2. Pin' = Pin
  BY <1>1, MapStep DEF Pin, PinOf
<1>3. Approved' = Approved
  BY <1>1, MapStep DEF Approved, ApprovedOf
<1>4. SentHead' = SentHead
  BY DEF SentHead, Sent
<1>5. Ideal!Hold(q, s)
  BY <1>1, <1>2, <1>3, <1>4, MapStep DEF Ideal!Hold, Phase, Guarded
<1> QED
  BY <1>5 DEF Ideal!Next

LEMMA AdmitIdeal ==
    ASSUME RInv, NEW q \in Requests, NEW s \in Stripped, Ideal!Comes(q, s), Apart(q),
           alive, UNCHANGED <<alive, config, wire>>,
           \/ stage[q] = "idle" /\ vouched'[q] = FALSE /\ ~ NeedsToken(config, s.path)
           \/ stage[q] = "verdict" /\ vouched'[q] = TRUE,
           RouteOf(config, s) # NoRoute, route'[q] = RouteOf(config, s),
           stage'[q] \in {"swaggerResolve", "listing", "resolving"}
    PROVE  Ideal!Next
<1>1. /\ PhaseOf(stage'[q]) = "admitted" /\ PhaseOf(stage[q]) \in {"idle", "held"}
      /\ PinOf(q)' = RouteOf(config, s) /\ ApprovedOf(q)' = vouched'[q]
      /\ vouched'[q] <=> PhaseOf(stage[q]) = "held"
  BY DEF PhaseOf, PinOf, ApprovedOf, Admitted, Forwarded
<1>2. SentHead' = SentHead
  BY DEF SentHead, Sent
<1>3. vouched'[q] \in BOOLEAN
  OBVIOUS
<1>4. Ideal!Admit(q, s, vouched'[q])
  BY <1>1, <1>2, MapStep DEF Ideal!Admit, Phase, Guarded
<1> QED
  BY <1>3, <1>4 DEF Ideal!Next

-----------------------------------------------------------------------------
(* The entry                                                                *)

\* A dispatched request is admitted, closed, or takes the process down.
LEMMA DispatchIdeal ==
    ASSUME RInv, NEW q \in Requests, NEW s \in Stripped, Ideal!Comes(q, s), alive,
           Dispatch(q, s), UNCHANGED <<config, wire>>,
           \/ stage[q] = "idle" /\ vouched' = vouched /\ ~ NeedsToken(config, s.path) /\ alive' = alive
           \/ stage[q] = "verdict" /\ vouched' = [vouched EXCEPT ![q] = TRUE] /\ shape' = shape
    PROVE  Ideal!Next
<1> DEFINE found == RouteOf(config, s)
           st == IF s.path[1] = "api" /\ IsGatewayOpenApiJsonPath(s.path, found.prefix)
                 THEN "swaggerResolve" ELSE RouterStage(found)
<1>1. Typed /\ Good(q) /\ stage[q] \in {"idle"} \cup InFlight
  BY DEF RInv, IInv, InFlight, Stages, Over
<1>2. CASE Crash(q)
  <2>1. stage[q] \in InFlight /\ shape' = shape
    BY <1>2 DEF Crash, GoDown, InFlight, Stages, Over
  <2> QED
    BY <1>2, <2>1, DieIdeal DEF Crash
<1>3. ASSUME NEW p, route' = [route EXCEPT ![q] = p], NEW x, stage' = [stage EXCEPT ![q] = x],
             UNCHANGED alive
      PROVE  Apart(q) /\ stage'[q] = x /\ route'[q] = p
  BY <1>1, <1>3 DEF Apart, Typed
<1>4. CASE route' = route /\ Answer(q, "local", "unrouted") /\ UNCHANGED alive
  <2>1. route' = [route EXCEPT ![q] = route[q]]
    BY <1>1, <1>4 DEF Typed
  <2> QED
    BY <1>1, <1>3, <1>4, <2>1, CloseIdeal DEF Answer
<1>5. CASE /\ found # NoRoute /\ route' = [route EXCEPT ![q] = found]
           /\ stage' = [stage EXCEPT ![q] = st] /\ UNCHANGED alive
  <2>1. st \in {"swaggerResolve", "listing", "resolving"}
    BY RouterStageFallsBack
  <2> HIDE DEF st, found
  <2>2. Apart(q) /\ stage'[q] = st /\ route'[q] = found
    BY <1>3, <1>5
  <2>3. \/ stage[q] = "idle" /\ vouched'[q] = FALSE /\ ~ NeedsToken(config, s.path)
        \/ stage[q] = "verdict" /\ vouched'[q] = TRUE
    BY <1>1 DEF Good, Untried, Entering, Typed
  <2>4. found = RouteOf(config, s)
    BY DEF found
  <2> QED
    BY <1>5, <2>1, <2>2, <2>3, <2>4, AdmitIdeal
<1> QED
  BY <1>2, <1>4, <1>5 DEF Dispatch

LEMMA RefuseIdeal ==
    ASSUME RInv, NEW q \in Requests, NEW s \in Stripped, Ideal!Comes(q, s), alive,
           stage[q] \in {"idle"} \cup InFlight,
           NEW code, NEW cause, Answer(q, code, cause),
           UNCHANGED <<alive, config, route, vouched, wire>>
    PROVE  Ideal!Next
<1>1. Typed
  BY DEF RInv, IInv
<1>2. Apart(q) /\ stage'[q] = "done"
  BY <1>1 DEF Apart, Answer, Typed
<1> QED
  BY <1>2, CloseIdeal

LEMMA AuthenticateIdeal ==
    ASSUME RInv, NEW q \in Requests, NEW s \in Stripped, Ideal!Comes(q, s), alive, alive' = alive,
           stage[q] = "idle", Authenticate(q, s), UNCHANGED <<config, vouched, wire>>
    PROVE  Ideal!Next
<1>1. Typed
  BY DEF RInv, IInv
<1>2. CASE ~ NeedsToken(config, s.path) /\ Dispatch(q, s)
  BY <1>2, DispatchIdeal
<1>3. ASSUME NEW code, NEW cause, Answer(q, code, cause), UNCHANGED <<alive, route>>
      PROVE  Ideal!Next
  BY <1>3, RefuseIdeal
<1>4. CASE /\ NeedsToken(config, s.path) /\ s.bearer /\ UNCHANGED <<alive, route>>
           /\ stage' = [stage EXCEPT ![q] = "introspecting"]
  <2>1. Apart(q) /\ stage'[q] = "introspecting"
    BY <1>1, <1>4 DEF Apart, Typed
  <2> QED
    BY <1>4, <2>1, HoldIdeal
<1> QED
  BY <1>2, <1>3, <1>4 DEF Authenticate

LEMMA ReceiveIdeal ==
    ASSUME RInv, NEW q \in Requests, Receive(q)
    PROVE  Ideal!Next
<1>1. PICK z \in Shapes : ReceiveHttp(q, z) \/ RateLimited(q, z)
  BY DEF Receive
<1> DEFINE s == StripIdentity(z)
<1>2. /\ alive /\ alive' = alive /\ stage[q] = "idle" /\ shape' = [shape EXCEPT ![q] = s]
      /\ UNCHANGED <<config, vouched, wire>>
  BY <1>1, ArrivalIsSafe DEF ReceiveHttp, RateLimited, env
<1>3. s \in Stripped /\ s.path = z.path
  BY StrippedShapes
<1> HIDE DEF s
<1>4. Ideal!Comes(q, s)
  BY <1>2, <1>3, ComesIdeal
<1>5. CASE ReceiveHttp(q, z)
  <2>1. CASE Authenticate(q, s)
    BY <1>2, <1>3, <1>4, <2>1, AuthenticateIdeal
  <2>2. CASE Dispatch(q, s) /\ s.path[1] # "api"
    BY <1>2, <1>3, <1>4, <2>2, DispatchIdeal DEF NeedsToken, ShouldAuthenticate
  <2> QED
    BY <1>3, <1>5, <2>1, <2>2 DEF ReceiveHttp, s
<1>6. CASE RateLimited(q, z)
  BY <1>2, <1>3, <1>4, <1>6, RefuseIdeal DEF RateLimited
<1> QED
  BY <1>1, <1>5, <1>6

-----------------------------------------------------------------------------
(* In flight                                                                *)

LEMMA InFlightFacts ==
    ASSUME RInv, NEW q \in Requests, stage[q] \in InFlight
    PROVE  /\ Typed /\ Good(q) /\ alive /\ shape[q] \in Stripped
           /\ shape' = shape => Ideal!Comes(q, shape[q])
<1>1. Typed /\ Good(q) /\ alive /\ shape[q] \in Stripped
  BY DEF RInv, IInv, Down, Good, Shaped, InFlight, Stages, Over
<1> QED
  BY <1>1, ComesIdeal DEF Typed

LEMMA IntrospectionIdeal ==
    ASSUME RInv, NEW q \in Requests,
           \/ IntrospectionFails(q) \/ IntrospectionDeadline(q) \/ IntrospectionResponds(q)
           \/ IntrospectionRejects(q) \/ IntrospectionApproves(q)
    PROVE  Ideal!Next \/ UNCHANGED Ideal!vars
<1>1. /\ stage[q] \in {"introspecting", "verdict"} /\ stage[q] \in InFlight
      /\ UNCHANGED <<config, shape, wire>>
  BY DEF IntrospectionFails, IntrospectionDeadline, IntrospectionResponds, IntrospectionRejects,
         IntrospectionApproves, env, InFlight, Stages, Over
<1>2. /\ Typed /\ alive /\ shape[q] \in Stripped /\ Ideal!Comes(q, shape[q])
  BY <1>1, InFlightFacts
<1>3. CASE IntrospectionFails(q) \/ IntrospectionDeadline(q) \/ IntrospectionRejects(q)
  BY <1>1, <1>2, <1>3, RefuseIdeal
     DEF IntrospectionFails, IntrospectionDeadline, IntrospectionRejects
<1>4. CASE IntrospectionApproves(q)
  BY <1>1, <1>2, <1>4, DispatchIdeal DEF IntrospectionApproves
<1>5. CASE IntrospectionResponds(q)
  <2>1. Apart(q) /\ stage[q] = "introspecting" /\ stage'[q] = "verdict"
    BY <1>2, <1>5 DEF IntrospectionResponds, Apart, Typed
  <2>2. /\ PhaseOf(stage'[q]) = PhaseOf(stage[q]) /\ PinOf(q)' = PinOf(q)
        /\ ApprovedOf(q)' = ApprovedOf(q) /\ HeadOf(q)' = HeadOf(q)
    BY <1>1, <2>1 DEF PhaseOf, PinOf, ApprovedOf, HeadOf, Sent, Admitted, Forwarded
  <2> QED
    BY <1>1, <1>2, <1>5, <2>1, <2>2, Stutters DEF IntrospectionResponds
<1> QED
  BY <1>3, <1>4, <1>5

\* Discovery moves an admitted request on without a trace.
LEMMA DiscoveryIdeal ==
    ASSUME RInv, NEW q \in Requests,
           \/ ListInstances(q) \/ ListingFails(q) \/ Resolve(q) \/ ResolutionFails(q)
           \/ SwaggerResolve(q)
    PROVE  UNCHANGED Ideal!vars
<1> USE DEF ListInstances, ListingFails, Resolve, ResolutionFails, SwaggerResolve, SendTo,
            MarkUnavailable
<1>1. /\ stage[q] \in {"listing", "resolving", "swaggerResolve"}
      /\ stage' \in {[stage EXCEPT ![q] = st] : st \in {"resolving", "connecting", "swaggerFetch"}}
      /\ UNCHANGED <<alive, config, shape, route, vouched>>
  BY DEF env
<1>2. Typed /\ wire[q].prefix = <<>>
  BY <1>1 DEF RInv, IInv, Good, Unsent, Over
<1>3. wire'[q].prefix = <<>> /\ \A r \in Requests \ {q} : wire'[r] = wire[r]
  BY <1>2 DEF Typed
<1>4. /\ Apart(q) /\ stage[q] \in Admitted /\ stage'[q] \in Admitted
  BY <1>1, <1>2, <1>3 DEF Apart, Typed, Admitted
<1> HIDE DEF ListInstances, ListingFails, Resolve, ResolutionFails, SwaggerResolve, SendTo,
             MarkUnavailable
<1>5. PhaseOf(stage[q]) = "admitted" /\ PhaseOf(stage'[q]) = "admitted"
  BY <1>4 DEF PhaseOf, Admitted, Forwarded
<1>6. PinOf(q)' = PinOf(q) /\ ApprovedOf(q)' = ApprovedOf(q) /\ HeadOf(q)' = HeadOf(q)
  BY <1>1, <1>2, <1>3, <1>4 DEF PinOf, ApprovedOf, HeadOf, Sent
<1> QED
  BY <1>1, <1>2, <1>4, <1>5, <1>6, Stutters

\* The head of a request is its route's.
LEMMA SendIdeal ==
    ASSUME RInv, NEW q \in Requests, SetProxyHeaders(q)
    PROVE  Ideal!Next
<1> DEFINE identity == IF vouched[q] THEN "signed" ELSE "none"
<1>1. stage[q] = "connecting" /\ stage[q] \in InFlight /\ UNCHANGED <<config, shape, route, vouched>>
  BY DEF SetProxyHeaders, env, InFlight, Stages, Over
<1>2. Typed /\ Good(q) /\ alive /\ shape[q] \in Stripped /\ Ideal!Comes(q, shape[q])
  BY <1>1, InFlightFacts
<1>3. CASE Crash(q) /\ wire' = wire
  BY <1>1, <1>2, <1>3, DieIdeal DEF Crash
<1>4. CASE /\ vouched[q] => config.secret
           /\ wire' = [wire EXCEPT ![q].prefix = GetMatchedRoute(q).prefix, ![q].principal = identity]
           /\ stage' = [stage EXCEPT ![q] = "awaiting"] /\ UNCHANGED alive
  <2>1. route[q] # NoRoute /\ GetMatchedRoute(q) = route[q] /\ route[q].prefix # <<>>
    BY <1>1, <1>2, RoutesHavePrefixes
       DEF Good, Routed, Forwarding, Proxying, GetMatchedRoute, Typed
  <2>2. wire[q].service = route[q].serviceName
        /\ wire[q].path = GetDownstreamPath(route[q], shape[q].path)
    BY <1>1, <1>2 DEF Good, Decided, DecidedByRoute
  <2>3. wire'[q] = HeadFor(route[q], shape[q], vouched[q])
    <3>1. wire[q] \in Wires
      BY <1>2 DEF Typed
    <3>2. wire[q] = [service |-> wire[q].service, path |-> wire[q].path,
                     prefix |-> wire[q].prefix, principal |-> wire[q].principal]
      BY <3>1 DEF Wires
    <3>3. wire'[q] = [wire[q] EXCEPT !.prefix = route[q].prefix, !.principal = identity]
      BY <1>2, <1>4, <2>1 DEF Typed
    <3> QED
      BY <2>2, <3>2, <3>3 DEF HeadFor
  <2>4. Apart(q) /\ stage'[q] = "awaiting"
    BY <1>1, <1>2, <1>4 DEF Apart, Typed
  <2>5. wire'[q].prefix = route[q].prefix
    BY <2>3 DEF HeadFor
  <2>6. /\ Phase[q] = "admitted" /\ PhaseOf(stage'[q]) = "sent"
        /\ Pin[q] = route[q] /\ PinOf(q)' = Pin[q]
        /\ HeadOf(q)' = HeadFor(route[q], shape[q], vouched[q])
    BY <1>1, <2>1, <2>3, <2>4, <2>5
       DEF Phase, PhaseOf, Pin, PinOf, HeadOf, Sent, Admitted, Forwarded
  <2>7. (Approved[q] <=> vouched[q]) /\ Approved[q] \in BOOLEAN /\ ApprovedOf(q)' = Approved[q]
    BY <1>1, <2>4 DEF Approved, ApprovedOf, Admitted, Forwarded
  <2>8. Pin' = Pin
    BY <2>4, <2>6, MapStep DEF Pin
  <2>9. Approved' = Approved
    BY <2>4, <2>7, MapStep DEF Approved
  <2>10. Approved[q] = vouched[q]
    BY <1>2, <2>7 DEF Typed
  <2>11. Ideal!Send(q)
    BY <1>1, <1>2, <1>4, <2>4, <2>6, <2>8, <2>9, <2>10, MapStep DEF Ideal!Send, HasKey
  <2> QED
    BY <2>11 DEF Ideal!Next
<1> QED
  BY <1>2, <1>3, <1>4, NothingCarried DEF SetProxyHeaders

LEMMA ResponseIdeal ==
    ASSUME RInv, NEW q \in Requests,
           \/ DownstreamResponds(q) \/ BodyArrives(q) \/ RelayEnds(q) \/ BreaksOff(q)
           \/ ErrorHandler(q) \/ ConnectionCloses(q) \/ SwaggerServed(q) \/ SwaggerFails(q)
    PROVE  Ideal!Next \/ UNCHANGED Ideal!vars
<1> USE DEF DownstreamResponds, BodyArrives, RelayEnds, BreaksOff, ErrorHandler,
            ConnectionCloses, SwaggerServed, SwaggerFails, Answer
<1>1. /\ stage[q] \in {"awaiting", "relaying", "hanging", "swaggerResolve", "swaggerFetch"}
      /\ stage[q] \in InFlight
      /\ UNCHANGED <<alive, config, shape, route, vouched, wire>>
  BY DEF env, InFlight, Stages, Over
<1>2. Typed /\ alive /\ shape[q] \in Stripped /\ Ideal!Comes(q, shape[q])
  BY <1>1, InFlightFacts
<1>3. /\ Apart(q)
      /\ \/ stage'[q] \in {"done", "left"}
         \/ stage[q] \in {"awaiting", "relaying"} /\ stage'[q] \in {"relaying", "hanging"}
  BY <1>1, <1>2 DEF Apart, Typed
<1>4. CASE stage'[q] \in {"done", "left"}
  BY <1>1, <1>2, <1>3, <1>4, CloseIdeal
<1>5. CASE stage[q] \in {"awaiting", "relaying"} /\ stage'[q] \in {"relaying", "hanging"}
  <2>1. /\ PhaseOf(stage'[q]) = PhaseOf(stage[q]) /\ PinOf(q)' = PinOf(q)
        /\ ApprovedOf(q)' = ApprovedOf(q) /\ HeadOf(q)' = HeadOf(q)
    BY <1>1, <1>5 DEF PhaseOf, PinOf, ApprovedOf, HeadOf, Sent, Admitted, Forwarded
  <2> QED
    BY <1>1, <1>2, <1>3, <2>1, Stutters
<1> QED
  BY <1>3, <1>4, <1>5

-----------------------------------------------------------------------------
(* The refinement                                                           *)

LEMMA InitIdeal == Init => Ideal!Init
<1> SUFFICES ASSUME Init PROVE Ideal!Init
  OBVIOUS
<1>1. \A r \in Requests : /\ stage[r] = "idle" /\ PhaseOf(stage[r]) = "idle"
                          /\ ~ Sent(r) /\ stage[r] \notin Admitted \cup Forwarded
  BY DEF Init, PhaseOf, Sent, NoWire, Admitted, Forwarded
<1>2. Phase = [r \in Requests |-> "idle"] /\ Pin = [r \in Requests |-> NoRoute]
  BY <1>1 DEF Phase, Pin
<1>3. Approved = [r \in Requests |-> FALSE] /\ SentHead = [r \in Requests |-> NoWire]
  BY <1>1 DEF Approved, SentHead
<1> QED
  BY <1>2, <1>3 DEF Init, Ideal!Init

LEMMA NextIdeal == RInv /\ [Next]_vars => [Ideal!Next]_(Ideal!vars)
<1> SUFFICES ASSUME RInv, [Next]_vars PROVE Ideal!Next \/ UNCHANGED Ideal!vars
  OBVIOUS
<1>1. ASSUME UNCHANGED <<stage, route, vouched, wire>>
      PROVE  Phase' = Phase /\ Pin' = Pin /\ Approved' = Approved /\ SentHead' = SentHead
  BY <1>1 DEF Phase, Pin, Approved, SentHead, Sent
<1>2. CASE Surroundings \/ UNCHANGED vars
  <2>1. UNCHANGED <<shape, stage, route, vouched, wire>>
    BY <1>2 DEF Surroundings, ChangeConfig, Restart, ChangeListing, PushInstances, request, vars
  <2>2. CASE ChangeConfig
    BY <1>1, <2>1, <2>2 DEF ChangeConfig, Ideal!Configure, Ideal!Next
  <2>3. CASE Restart
    BY <1>1, <2>1, <2>3 DEF Restart, Ideal!Start, Ideal!Next
  <2>4. CASE UNCHANGED <<alive, config>>
    BY <1>1, <2>1, <2>4 DEF Ideal!vars
  <2> QED
    BY <1>2, <2>2, <2>3, <2>4 DEF Surroundings, ChangeListing, PushInstances, vars, env
<1>3. ASSUME NEW q \in Requests, Receive(q) \/ Progress(q)
      PROVE  Ideal!Next \/ UNCHANGED Ideal!vars
  BY <1>3, ReceiveIdeal, IntrospectionIdeal, DiscoveryIdeal, SendIdeal, ResponseIdeal DEF Progress
<1>4. CASE Fall
  BY <1>4, DieIdeal DEF Fall, env
<1> QED
  BY <1>2, <1>3, <1>4 DEF Next

\* The gateway with its asynchronous discovery and proxying is the ideal one.
THEOREM Refinement == Spec => ImplementsIdeal
<1>1. IInv /\ Down /\ [Next]_vars => [Ideal!Next]_(Ideal!vars)
  BY NextIdeal DEF RInv
<1> QED
  BY <1>1, InitIdeal, Inductive, DownInductive, PTL DEF Spec, ImplementsIdeal, Ideal!Spec
=============================================================================
