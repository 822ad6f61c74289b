-------------------------- MODULE GatewayUpgradeProofs --------------------------
(***************************************************************************)
(* What holds of WebSocket upgrades, for any number of them, next to any   *)
(* number of HTTP requests, and that they leave HTTP requests what they    *)
(* are.  Sound(u) is the inductive invariant, one upgrade at a time: a     *)
(* step moves one upgrade, or takes all of them down with the process.     *)
(***************************************************************************)
EXTENDS GatewayUpgrade, GatewayRequestProofs

\* What the head of an upgrade says follows from its route.
Led(u) ==
    /\ pinned[u] # NoRoute
    /\ head[u].service = pinned[u].serviceName
    /\ head[u].path = Router!GetDownstreamPath(pinned[u], handshake[u].path)
    /\ aim[u] \in Instances => ServiceOf[aim[u]] = pinned[u].serviceName
    /\ aim[u] = FallbackTarget => pinned[u].fallbackEnabled
    /\ aim[u] \in Instances /\ ~ pinned[u].fallbackEnabled => offers[u] # {}

OfATable(u) ==
    pinned[u] # NoRoute =>
        \E c \in Configs : /\ Router!HasGatewayRoutes(c)
                           /\ pinned[u] = Router!FindRoute(c, handshake[u].path)
Underway(u) ==
    /\ pass[u] \in Discovering \cup {"awaiting"} => pinned[u] # NoRoute
    /\ pass[u] = "idle" => pinned[u] = NoRoute
Offered(u) == pass[u] = "resolving" /\ ~ pinned[u].fallbackEnabled => offers[u] # {}
Headless(u) == pass[u] \notin {"awaiting", "over"} => head[u].prefix = <<>>
LedWhereSent(u) == pass[u] \in {"connecting", "awaiting"} \/ Router!Sent(u) => Led(u)
Prefixed(u) == Router!Sent(u) => head[u].prefix = pinned[u].prefix
Early(u) == verdict[u] = "introspecting" => pass[u] # "idle" /\ (pass[u] = "waiting" \/ subscribed)
Doomed(u) == u \in flagged => aim[u] = DeadTarget
CutOff(u) == verdict[u] = "refused" => socket[u] = "destroyed"

Sound(u) ==
    /\ ThreadsFit(u) /\ OfATable(u) /\ Underway(u) /\ Offered(u) /\ Headless(u)
    /\ LedWhereSent(u) /\ Prefixed(u) /\ Early(u) /\ Doomed(u) /\ CutOff(u)

Heads == [service : {head[u].service : u \in Upgrades}, path : {head[u].path : u \in Upgrades},
          prefix : {head[u].prefix : u \in Upgrades}, principal : {head[u].principal : u \in Upgrades}]

\* The variables that UpgradesTyped leaves out are functions, too.
Formed == /\ pinned = [u \in Upgrades |-> pinned[u]]
          /\ head \in [Upgrades -> Heads]

UInv == UpgradesTyped /\ Formed /\ \A u \in Upgrades : Sound(u)

-----------------------------------------------------------------------------
(* Next to HTTP requests                                                    *)

\* An upgrade leaves HTTP requests alone or takes the process down.
LEMMA UpgradesStandApart ==
    ASSUME NEW u \in Upgrades, UpgradeStep(u)
    PROVE  UNCHANGED vars \/ (Fall /\ UpgradesEnd({u}))
<1>1. CASE Discover(u)
  BY <1>1 DEF Discover, Router!ListInstances, Router!ListingFails, Router!Resolve,
     Router!ResolutionFails, Router!env, vars, env
<1>2. CASE SendHandshake(u) \/ UpgradeRefused(u) \/ UpgradeApproved(u) \/ Joined(u)
              \/ NotJoined(u) \/ TunnelEnds(u)
  BY <1>2 DEF SendHandshake, UpgradeRefused, UpgradeApproved, Joined, NotJoined, TunnelEnds
<1>3. CASE ClientResets(u)
  BY <1>3 DEF ClientResets, UpgradeCrashes
<1>4. ASSUME NEW s \in UpgradeShapes, ReceiveUpgrade(u, s)
      PROVE  UNCHANGED vars \/ (Fall /\ UpgradesEnd({u}))
  BY <1>4 DEF ReceiveUpgrade, UpgradeCrashes
<1> QED
  BY <1>1, <1>2, <1>3, <1>4 DEF UpgradeStep, Verdict, Moves

\* Whatever upgrades do, HTTP requests behave as GatewayRequest says, so that what
\* is proved of them there holds next to upgrades too.
THEOREM HttpUndisturbed == UpgradesSpec => Spec
<1>1. UpgradesInit => Init
  BY DEF UpgradesInit
<1>2. [UpgradesNext]_all => [Next]_vars
  <2>1. CASE HttpStep /\ Alongside
    BY <2>1 DEF HttpStep, Next
  <2>2. ASSUME NEW u \in Upgrades, UpgradeStep(u) PROVE [Next]_vars
    BY <2>2, UpgradesStandApart DEF Next
  <2>3. CASE UNCHANGED all
    BY <2>3 DEF all
  <2> QED
    BY <2>1, <2>2, <2>3 DEF UpgradesNext
<1> QED
  BY <1>1, <1>2, PTL DEF UpgradesSpec, Spec

-----------------------------------------------------------------------------
(* What a step of one upgrade does to another                               *)

Alike(v) ==
    /\ verdict'[v] = verdict[v] /\ socket'[v] = socket[v] /\ pass'[v] = pass[v]
    /\ handshake'[v] = handshake[v] /\ pinned'[v] = pinned[v] /\ offers'[v] = offers[v]
    /\ aim'[v] = aim[v] /\ head'[v] = head[v] /\ (v \in flagged' <=> v \in flagged)

\* An upgrade that a step leaves alone.
LEMMA AlikeIsSound ==
    ASSUME NEW v \in Upgrades, Sound(v), Alike(v), subscribed => subscribed'
    PROVE  Sound(v)'
<1> USE DEF Alike
<1>1. ThreadsFit(v)' /\ OfATable(v)' /\ Underway(v)' /\ Offered(v)' /\ Headless(v)'
  BY DEF Sound, ThreadsFit, OfATable, Underway, Offered, Headless
<1>2. LedWhereSent(v)' /\ Prefixed(v)' /\ Early(v)' /\ CutOff(v)' /\ Doomed(v)'
  BY DEF Sound, LedWhereSent, Led, Prefixed, Router!Sent, Early, CutOff, Doomed
<1> QED
  BY <1>1, <1>2 DEF Sound

\* A step of one upgrade.
LEMMA OneMoves ==
    ASSUME UInv, NEW u \in Upgrades, UpgradesTyped', Formed', UNCHANGED subscribed,
           \A v \in Upgrades \ {u} : Alike(v), Sound(u)'
    PROVE  UInv'
BY AlikeIsSound DEF UInv

\* The end of the process ends every upgrade that has come.
LEMMA EndIsSound ==
    ASSUME UInv, NEW lost, UpgradesEnd(lost), UNCHANGED <<pinned, handling>>,
           handshake' \in [Upgrades -> UpgradeShapes \cup {NoShape}],
           \A v \in Upgrades : /\ v \in lost => handshake'[v] # NoShape
                               /\ (pass[v] # "idle" \/ v \notin lost) => handshake'[v] = handshake[v]
    PROVE  UInv'
<1>1. UpgradesTyped'
  BY DEF UInv, UpgradesTyped, UpgradesEnd, Verdicts, Sockets, Passes, handling
<1>2. Formed'
  BY DEF UInv, Formed, Heads, handling
<1>3. ASSUME NEW v \in Upgrades PROVE Sound(v)'
  <2>1. Sound(v) /\ UpgradesTyped
    BY DEF UInv
  <2>2. /\ pass'[v] = IF v \in lost \/ pass[v] # "idle" THEN "over" ELSE "idle"
        /\ socket'[v] = IF v \in lost \/ socket[v] # "none" THEN "destroyed" ELSE "none"
        /\ verdict'[v] = IF v \in lost \/ verdict[v] = "introspecting" THEN "lost" ELSE verdict[v]
        /\ v \notin flagged'
        /\ pinned'[v] = pinned[v] /\ offers'[v] = offers[v] /\ aim'[v] = aim[v] /\ head'[v] = head[v]
    BY DEF UpgradesEnd, handling
  <2>3. Underway(v)' /\ Offered(v)' /\ Early(v)' /\ CutOff(v)' /\ Doomed(v)'
    BY <2>1, <2>2 DEF Sound, ThreadsFit, Underway, Offered, Early, CutOff, Doomed, Discovering
  <2>4. /\ v \in lost => handshake'[v] # NoShape
        /\ (pass[v] # "idle" \/ v \notin lost) => handshake'[v] = handshake[v]
    OBVIOUS
  <2>5. pass[v] = "idle" => pinned[v] = NoRoute /\ head[v].prefix = <<>>
    BY <2>1 DEF Sound, Underway, Headless
  <2>6. Headless(v)' /\ OfATable(v)'
    BY <2>1, <2>2, <2>4, <2>5 DEF Sound, Headless, OfATable
  <2>7. Prefixed(v)' /\ LedWhereSent(v)'
    BY <2>1, <2>2, <2>4, <2>5 DEF Sound, Prefixed, LedWhereSent, Led, Router!Sent
  <2>8. ThreadsFit(v)'
    BY <2>1, <2>2, <2>4 DEF Sound, ThreadsFit
  <2> QED
    BY <2>3, <2>6, <2>7, <2>8 DEF Sound
<1> QED
  BY <1>1, <1>2, <1>3 DEF UInv

-----------------------------------------------------------------------------
(* The steps                                                                *)

\* An upgrade arrives.
LEMMA ReceiveIsSound ==
    ASSUME UInv, Typed, NEW u \in Upgrades, NEW s \in UpgradeShapes,
           ReceiveUpgrade(u, s)
    PROVE  UInv'
<1> DEFINE found == Router!RouteOf(config, s)
           forwarded == Router!RouterStage(found)
<1>1. /\ UpgradesTyped /\ Formed /\ Sound(u) /\ pass[u] = "idle"
      /\ handshake' = [handshake EXCEPT ![u] = s] /\ s # NoShape
  BY UpgradeAssumption DEF UInv, ReceiveUpgrade
<1>2. /\ handshake' \in [Upgrades -> UpgradeShapes \cup {NoShape}]
      /\ handshake'[u] = s /\ \A v \in Upgrades \ {u} : handshake'[v] = handshake[v]
  BY <1>1 DEF UpgradesTyped
<1>3. CASE UpgradeCrashes(u)
  BY <1>1, <1>2, <1>3, EndIsSound DEF UpgradeCrashes
<1>4. ASSUME NEW x \in {found, NoRoute}, pinned' = [pinned EXCEPT ![u] = x],
             NEW v \in Verdicts, NEW k \in {"open", "destroyed"},
             NEW p \in {"waiting", "listing", "resolving", "over"}, Settle(u, v, k, p),
             UNCHANGED <<vars, subscribed, flagged, handling>>,
             p = "waiting" => v = "introspecting" /\ k = "open", p = "over" => k = "destroyed",
             v = "introspecting" => p = "waiting" \/ subscribed, v = "refused" => k = "destroyed",
             p \in Discovering => x # NoRoute, p = "resolving" => x.fallbackEnabled
      PROVE  UInv'
  <2>1. UpgradesTyped' /\ Formed'
    <3>1. /\ verdict' \in [Upgrades -> Verdicts] /\ socket' \in [Upgrades -> Sockets]
          /\ pass' \in [Upgrades -> Passes]
      BY <1>1, <1>4 DEF UpgradesTyped, Settle, Sockets, Passes, Discovering
    <3>2. Formed'
      BY <1>1, <1>4 DEF Formed, Heads, handling
    <3> QED
      BY <1>1, <1>2, <1>4, <3>1, <3>2 DEF UpgradesTyped, handling
  <2>2. /\ verdict'[u] = v /\ socket'[u] = k /\ pass'[u] = p /\ pinned'[u] = x
        /\ offers'[u] = offers[u] /\ head'[u] = head[u]
        /\ head[u].prefix = <<>> /\ u \notin flagged'
    BY <1>1, <1>4 DEF UpgradesTyped, Formed, Settle, handling, Sound, Headless, ThreadsFit
  <2>3. x # NoRoute => /\ Router!HasGatewayRoutes(config) /\ config \in Configs
                       /\ x = Router!FindRoute(config, s.path)
    BY <1>4 DEF Router!RouteOf, Typed
  <2>4. ThreadsFit(u)' /\ Early(u)' /\ CutOff(u)' /\ Doomed(u)' /\ Offered(u)'
    BY <1>1, <1>2, <1>4, <2>2 DEF ThreadsFit, Early, CutOff, Doomed, Offered
  <2>5. OfATable(u)'
    BY <1>2, <2>2, <2>3 DEF OfATable
  <2>6. Underway(u)' /\ Headless(u)' /\ LedWhereSent(u)' /\ Prefixed(u)'
    BY <1>4, <2>2 DEF Underway, Headless, LedWhereSent, Prefixed, Router!Sent
  <2>7. ASSUME NEW w \in Upgrades \ {u} PROVE Alike(w)
    BY <1>1, <1>2, <1>4, <2>7 DEF Alike, UpgradesTyped, Formed, Settle, handling
  <2> QED
    BY <1>4, <2>1, <2>4, <2>5, <2>6, <2>7, OneMoves DEF Sound
<1>5. forwarded \in {"listing", "resolving"} /\ (forwarded = "resolving" => found.fallbackEnabled)
  BY DEF Router!RouterStage
<1>6. pinned[u] = NoRoute /\ pinned = [pinned EXCEPT ![u] = pinned[u]]
  BY <1>1 DEF Sound, Underway, Formed
<1> HIDE DEF found, forwarded
<1>7. CASE /\ Settle(u, "refused", "destroyed", "over")
           /\ UNCHANGED <<vars, subscribed, pinned, flagged, handling>>
  BY <1>4, <1>6, <1>7 DEF Verdicts, Discovering
<1>8. CASE /\ found # NoRoute /\ pinned' = [pinned EXCEPT ![u] = found]
           /\ \/ Settle(u, "passed", "open", forwarded)
              \/ Settle(u, "introspecting", "open", IF subscribed THEN forwarded ELSE "waiting")
              \/ Settle(u, "refused", "destroyed", IF subscribed THEN forwarded ELSE "over")
           /\ UNCHANGED <<vars, subscribed, flagged, handling>>
  <2>1. CASE Settle(u, "passed", "open", forwarded)
    BY <1>4, <1>5, <1>8, <2>1 DEF Verdicts, Discovering
  <2>2. CASE Settle(u, "introspecting", "open", IF subscribed THEN forwarded ELSE "waiting")
    BY <1>4, <1>5, <1>8, <2>2 DEF Verdicts, Discovering
  <2>3. CASE Settle(u, "refused", "destroyed", IF subscribed THEN forwarded ELSE "over")
    BY <1>4, <1>5, <1>8, <2>3 DEF Verdicts, Discovering
  <2> QED
    BY <1>8, <2>1, <2>2, <2>3
<1> QED
  BY <1>3, <1>7, <1>8 DEF ReceiveUpgrade, found, forwarded

\* Introspection has settled.
LEMMA VerdictIsSound ==
    ASSUME UInv, Typed, NEW u \in Upgrades, Verdict(u)
    PROVE  UInv'
<1> DEFINE found == Router!RouteOf(config, handshake[u])
           begins == ~ subscribed /\ found # NoRoute
<1>1. /\ UpgradesTyped /\ Formed /\ Sound(u) /\ verdict[u] = "introspecting"
      /\ UNCHANGED <<vars, subscribed, handshake, flagged, handling>>
      /\ pass[u] # "waiting" => subscribed
  BY DEF UInv, Verdict, UpgradeRefused, UpgradeApproved, Sound, Early
<1>2. CASE UpgradeRefused(u)
  <2>1. /\ verdict' = [verdict EXCEPT ![u] = "refused"] /\ socket' = [socket EXCEPT ![u] = "destroyed"]
        /\ pass' = [pass EXCEPT ![u] = IF @ = "waiting" THEN "over" ELSE @]
        /\ pinned' = pinned
    BY <1>2 DEF UpgradeRefused, Settle
  <2>2. UpgradesTyped' /\ Formed'
    BY <1>1, <2>1 DEF UpgradesTyped, Formed, Heads, Verdicts, Sockets, Passes, handling
  <2>3. /\ verdict'[u] = "refused" /\ socket'[u] = "destroyed"
        /\ pass'[u] = IF pass[u] = "waiting" THEN "over" ELSE pass[u]
        /\ pass[u] # "idle"
    BY <1>1, <2>1 DEF UpgradesTyped, Sound, Early, Underway, ThreadsFit
  <2>4. Sound(u)'
    BY <1>1, <2>1, <2>3 DEF Sound, ThreadsFit, OfATable, Underway, Offered, Headless, LedWhereSent,
       Led, Prefixed, Router!Sent, Early, CutOff, Doomed, Discovering, handling
  <2>5. \A v \in Upgrades \ {u} : Alike(v)
    BY <1>1, <2>1 DEF Alike, UpgradesTyped, handling
  <2> QED
    BY <1>1, <2>2, <2>4, <2>5, OneMoves
<1>3. CASE UpgradeApproved(u)
  <2>1. /\ verdict' = [verdict EXCEPT ![u] = "passed"] /\ socket' = socket
        /\ pass' = [pass EXCEPT ![u] = IF begins THEN Router!RouterStage(found)
                                       ELSE IF @ = "waiting" THEN "stranded" ELSE @]
        /\ pinned' = [pinned EXCEPT ![u] = IF begins THEN found ELSE @]
    BY <1>3 DEF UpgradeApproved
  <2>2. /\ Router!RouterStage(found) \in {"listing", "resolving"}
        /\ Router!RouterStage(found) = "resolving" => found.fallbackEnabled
    BY DEF Router!RouterStage
  <2>3. found # NoRoute => /\ Router!HasGatewayRoutes(config) /\ config \in Configs
                           /\ found = Router!FindRoute(config, handshake[u].path)
    BY DEF Router!RouteOf, Typed
  <2> HIDE DEF found
  <2>4. UpgradesTyped' /\ Formed'
    <3>1. verdict' \in [Upgrades -> Verdicts] /\ pass' \in [Upgrades -> Passes]
      BY <1>1, <2>1, <2>2 DEF UpgradesTyped, Verdicts, Passes, Discovering
    <3>2. Formed'
      BY <1>1, <2>1 DEF Formed, Heads, handling
    <3> QED
      BY <1>1, <2>1, <3>1, <3>2 DEF UpgradesTyped, handling
  <2>5. /\ verdict'[u] = "passed"
        /\ pass'[u] = IF begins THEN Router!RouterStage(found)
                      ELSE IF pass[u] = "waiting" THEN "stranded" ELSE pass[u]
        /\ pinned'[u] = IF begins THEN found ELSE pinned[u]
    BY <1>1, <2>1 DEF UpgradesTyped, Formed
  <2>6. \A v \in Upgrades \ {u} : Alike(v)
    BY <1>1, <2>1 DEF Alike, UpgradesTyped, Formed, handling
  <2>7. CASE begins
    <3>1. pass[u] = "waiting" /\ head[u].prefix = <<>>
      BY <1>1, <2>7 DEF Sound, Headless
    <3>2. ThreadsFit(u)' /\ Underway(u)' /\ Offered(u)' /\ Early(u)' /\ CutOff(u)' /\ Doomed(u)'
      BY <1>1, <2>1, <2>2, <2>5, <2>7, <3>1
         DEF Sound, ThreadsFit, Underway, Offered, Early, CutOff, Doomed, Discovering, handling
    <3>3. OfATable(u)'
      BY <1>1, <2>3, <2>5, <2>7 DEF OfATable
    <3>4. Headless(u)' /\ LedWhereSent(u)' /\ Prefixed(u)'
      BY <1>1, <2>2, <2>5, <2>7, <3>1 DEF Headless, LedWhereSent, Prefixed, Router!Sent, handling
    <3> QED
      BY <1>1, <2>4, <2>6, <3>2, <3>3, <3>4, OneMoves DEF Sound
  <2>8. CASE ~ begins
    <3>1. Sound(u)'
      BY <1>1, <2>1, <2>5, <2>8 DEF Sound, ThreadsFit, OfATable, Underway, Offered, Headless,
         LedWhereSent, Led, Prefixed, Router!Sent, Early, CutOff, Doomed, Discovering, handling
    <3> QED
      BY <1>1, <2>4, <2>6, <3>1, OneMoves
  <2> QED
    BY <2>7, <2>8
<1> QED
  BY <1>2, <1>3 DEF Verdict

\* router() has sent an upgrade somewhere, after a listing that allows it.
LEMMA SentToIsSound ==
    ASSUME UInv, NEW u \in Upgrades, pass[u] \in {"listing", "resolving"},
           NEW t \in Instances \cup {FallbackTarget, DeadTarget}, Router!SendTo(u, t),
           NEW l \in SUBSET Instances, offers' = [offers EXCEPT ![u] = l],
           t \in Instances => ServiceOf[t] = pinned[u].serviceName,
           t = FallbackTarget => pinned[u].fallbackEnabled,
           t \in Instances /\ ~ pinned[u].fallbackEnabled => l # {},
           flagged' = IF t = DeadTarget THEN flagged \cup {u} ELSE flagged,
           UNCHANGED <<vars, subscribed, verdict, socket, handshake, pinned>>
    PROVE  UInv'
<1> DEFINE w == [service |-> pinned[u].serviceName,
                 path |-> Router!GetDownstreamPath(pinned[u], handshake[u].path),
                 prefix |-> <<>>, principal |-> "none"]
<1>1. /\ UpgradesTyped /\ Formed /\ Sound(u) /\ pinned[u] # NoRoute
  BY DEF UInv, Sound, Underway, Discovering
<1>2. /\ pass' = [pass EXCEPT ![u] = "connecting"] /\ aim' = [aim EXCEPT ![u] = t]
      /\ head' = [head EXCEPT ![u] = w]
  BY <1>1 DEF Router!SendTo, Router!GetMatchedRoute
<1>3. /\ pass'[u] = "connecting" /\ aim'[u] = t /\ head'[u] = w /\ offers'[u] = l
      /\ \A v \in Upgrades \ {u} : Alike(v)
  BY <1>1, <1>2 DEF UpgradesTyped, Formed, Alike
<1>4. UpgradesTyped'
  BY <1>1, <1>2 DEF UpgradesTyped, Passes, Discovering
<1>5. Formed'
  <2>1. /\ head'[u] = w /\ \A v \in Upgrades \ {u} : head'[v] = head[v]
    BY <1>3 DEF Alike
  <2>2. ASSUME NEW v \in Upgrades
        PROVE  head'[v] = [service |-> head'[v].service, path |-> head'[v].path,
                           prefix |-> head'[v].prefix, principal |-> head'[v].principal]
    BY <1>1, <2>1 DEF Formed, Heads
  <2>3. head' = [v \in Upgrades |-> head'[v]]
    BY <1>1, <1>2 DEF Formed
  <2>4. head' \in [Upgrades -> Heads']
    BY <2>2, <2>3 DEF Heads
  <2> QED
    BY <1>1, <2>4 DEF Formed
<1>6. ThreadsFit(u)' /\ OfATable(u)' /\ Underway(u)' /\ Offered(u)' /\ Headless(u)'
  BY <1>1, <1>3 DEF Sound, ThreadsFit, OfATable, Underway, Offered, Headless, Discovering
<1>7. LedWhereSent(u)' /\ Prefixed(u)' /\ Early(u)' /\ CutOff(u)'
  BY <1>1, <1>3 DEF Sound, LedWhereSent, Led, Prefixed, Router!Sent, Early, CutOff
<1>8. Doomed(u)'
  <2>1. u \notin flagged
    BY <1>1 DEF Sound, ThreadsFit
  <2> QED
    BY <1>3, <2>1 DEF Doomed
<1> QED
  BY <1>3, <1>4, <1>5, <1>6, <1>7, <1>8, OneMoves DEF Sound

LEMMA DiscoverIsSound ==
    ASSUME UInv, Typed, NEW u \in Upgrades, Discover(u)
    PROVE  UInv'
<1> DEFINE x == pinned[u]
<1>1. /\ UpgradesTyped /\ Formed /\ Sound(u) /\ pass[u] \in {"listing", "resolving"}
      /\ UNCHANGED <<vars, subscribed, verdict, socket, handshake, pinned>>
  BY DEF UInv, Discover, Router!ListInstances, Router!ListingFails, Router!Resolve,
     Router!ResolutionFails, Router!env, vars, env
<1>2. x # NoRoute /\ Router!GetMatchedRoute(u) = x /\ offers = [offers EXCEPT ![u] = offers[u]]
      /\ offers[u] \in SUBSET Instances
  BY <1>1 DEF Sound, Underway, Discovering, Router!GetMatchedRoute, UpgradesTyped
<1>3. DeadTarget \notin Instances /\ FallbackTarget \notin Instances /\ DeadTarget # FallbackTarget
  BY RequestAssumption
<1>4. ASSUME NEW l \in SUBSET Instances, offers' = [offers EXCEPT ![u] = l],
             Router!MarkUnavailable(u)
      PROVE  UInv'
  <2>1. Router!SendTo(u, DeadTarget) /\ flagged' = flagged \cup {u}
    BY <1>4 DEF Router!MarkUnavailable
  <2> QED
    BY <1>1, <1>3, <1>4, <2>1, SentToIsSound
<1>5. CASE Router!ListingFails(u) \/ Router!ResolutionFails(u)
  BY <1>2, <1>4, <1>5 DEF Router!ListingFails, Router!ResolutionFails
<1>6. CASE Router!ListInstances(u)
  <2> DEFINE up == Router!RoutableInstances(x.serviceName)
  <2>1. up \in SUBSET Instances /\ offers' = [offers EXCEPT ![u] = up]
    BY <1>2, <1>6 DEF Router!ListInstances, Router!RoutableInstances
  <2>2. CASE up = {}
    BY <1>2, <1>4, <1>6, <2>1, <2>2 DEF Router!ListInstances
  <2>3. CASE up # {}
    <3> HIDE DEF up
    <3>1. pass' = [pass EXCEPT ![u] = "resolving"] /\ UNCHANGED <<aim, flagged, head>>
      BY <1>2, <1>6, <2>3 DEF Router!ListInstances, up
    <3>2. /\ pass'[u] = "resolving" /\ offers'[u] = up /\ \A v \in Upgrades \ {u} : Alike(v)
      BY <1>1, <2>1, <3>1 DEF UpgradesTyped, Alike
    <3>3. UpgradesTyped' /\ Formed'
      BY <1>1, <2>1, <3>1 DEF UpgradesTyped, Formed, Heads, Passes, Discovering
    <3>4. pass[u] = "listing"
      BY <1>6 DEF Router!ListInstances
    <3>5. ThreadsFit(u)' /\ OfATable(u)' /\ Underway(u)' /\ Offered(u)' /\ Headless(u)'
      BY <1>1, <1>2, <2>3, <3>1, <3>2, <3>4
         DEF Sound, ThreadsFit, OfATable, Underway, Offered, Headless, Discovering
    <3>6. LedWhereSent(u)' /\ Prefixed(u)' /\ Early(u)' /\ CutOff(u)' /\ Doomed(u)'
      BY <1>1, <3>1, <3>2, <3>4
         DEF Sound, Headless, LedWhereSent, Led, Prefixed, Router!Sent, Early, CutOff, Doomed
    <3> QED
      BY <1>1, <3>2, <3>3, <3>5, <3>6, OneMoves DEF Sound
  <2> QED
    BY <2>2, <2>3
<1>7. CASE Router!Resolve(u)
  <2>1. PICK t \in Router!ResolveService(x.serviceName, x.fallbackEnabled) : Router!SendTo(u, t)
    BY <1>2, <1>7 DEF Router!Resolve
  <2>2. pass[u] = "resolving" /\ UNCHANGED <<flagged, offers>>
    BY <1>7 DEF Router!Resolve
  <2>3. \/ t \in Instances /\ ServiceOf[t] = x.serviceName
        \/ t = FallbackTarget /\ x.fallbackEnabled
    BY <2>1 DEF Router!ResolveService, Typed
  <2>4. t \in Instances \cup {FallbackTarget, DeadTarget} /\ (t \in Instances => ServiceOf[t] = x.serviceName)
        /\ (t = FallbackTarget => x.fallbackEnabled) /\ t # DeadTarget
    BY <1>3, <2>3
  <2> QED
    BY <1>1, <1>2, <2>1, <2>2, <2>4, SentToIsSound DEF Sound, Offered
<1> QED
  BY <1>5, <1>6, <1>7 DEF Discover

\* The handshake is sent: its head gets the prefix of its route.
LEMMA SendIsSound ==
    ASSUME UInv, NEW u \in Upgrades, SendHandshake(u)
    PROVE  UInv'
<1>1. /\ UpgradesTyped /\ Formed /\ Sound(u) /\ pass[u] = "connecting"
      /\ UNCHANGED <<vars, subscribed, verdict, socket, handshake, pinned, offers, aim, flagged>>
      /\ pass' = [pass EXCEPT ![u] = "awaiting"]
  BY DEF UInv, SendHandshake
<1>2. Led(u) /\ Router!GetMatchedRoute(u) = pinned[u]
  BY <1>1 DEF Sound, LedWhereSent, Led, Router!GetMatchedRoute
<1>3. head' = [head EXCEPT ![u] = [head[u] EXCEPT !.prefix = pinned[u].prefix,
                                                  !.principal = Router!Carried(u)]]
  BY <1>1, <1>2 DEF SendHandshake, Formed
<1> DEFINE w == [service |-> head[u].service, path |-> head[u].path,
                 prefix |-> pinned[u].prefix, principal |-> Router!Carried(u)]
<1>4. head' = [head EXCEPT ![u] = w]
  <2>1. head[u] = [service |-> head[u].service, path |-> head[u].path,
                   prefix |-> head[u].prefix, principal |-> head[u].principal]
    BY <1>1 DEF Formed, Heads
  <2>2. ASSUME NEW h, h = [head[u] EXCEPT !.prefix = pinned[u].prefix,
                                          !.principal = Router!Carried(u)]
        PROVE  h = w
    BY <2>1, <2>2
  <2> HIDE DEF w
  <2> QED
    BY <1>3, <2>2
<1>5. /\ pass'[u] = "awaiting" /\ head'[u] = w /\ \A v \in Upgrades \ {u} : Alike(v)
  BY <1>1, <1>4 DEF UpgradesTyped, Formed, Alike
<1>6. UpgradesTyped'
  BY <1>1 DEF UpgradesTyped, Passes, Discovering
<1>7. Formed'
  <2>1. ASSUME NEW v \in Upgrades
        PROVE  head'[v] = [service |-> head'[v].service, path |-> head'[v].path,
                           prefix |-> head'[v].prefix, principal |-> head'[v].principal]
    BY <1>1, <1>5 DEF Formed, Heads, Alike
  <2>2. head' = [v \in Upgrades |-> head'[v]]
    BY <1>1, <1>4 DEF Formed
  <2>3. head' \in [Upgrades -> Heads']
    BY <2>1, <2>2 DEF Heads
  <2> QED
    BY <1>1, <2>3 DEF Formed
<1>8. ThreadsFit(u)' /\ OfATable(u)' /\ Underway(u)' /\ Offered(u)' /\ Headless(u)'
  BY <1>1, <1>5 DEF Sound, ThreadsFit, OfATable, Underway, Offered, Headless, Discovering
<1>9. LedWhereSent(u)' /\ Prefixed(u)' /\ Early(u)' /\ CutOff(u)' /\ Doomed(u)'
  BY <1>1, <1>2, <1>5 DEF Sound, LedWhereSent, Led, Prefixed, Router!Sent, Early, CutOff, Doomed
<1> QED
  BY <1>1, <1>5, <1>6, <1>7, <1>8, <1>9, OneMoves DEF Sound

\* How a pass ends, and what follows.
LEMMA EndingIsSound ==
    ASSUME UInv, NEW u \in Upgrades,
           Joined(u) \/ NotJoined(u) \/ TunnelEnds(u) \/ (ClientResets(u) /\ alive' = alive)
    PROVE  UInv'
<1>1. UpgradesTyped /\ Formed /\ Sound(u)
  BY DEF UInv
<1>2. /\ UNCHANGED <<subscribed, verdict, handshake, pinned, handling>>
      /\ flagged' = flagged \/ flagged' = flagged \ {u}
      /\ \E k \in Sockets, p \in Passes :
            /\ socket' = [socket EXCEPT ![u] = k] /\ pass' = [pass EXCEPT ![u] = p]
            /\ p = "over" \/ (p = "awaiting" /\ k = "destroyed")
            /\ p = pass[u] \/ pass[u] = "awaiting"
            /\ k = "tunnel" => p = "over" /\ verdict[u] # "refused"
            /\ k \notin {"open", "none"}
            /\ p = "over" => u \notin flagged'
  <2>1. pass = [pass EXCEPT ![u] = pass[u]] /\ pass[u] \in Passes /\ socket[u] \in Sockets
        /\ (u \in flagged => pass[u] \in {"connecting", "awaiting"})
        /\ (socket[u] = "tunnel" => pass[u] = "over")
        /\ (socket[u] = "none" => pass[u] = "idle")
        /\ (verdict[u] = "refused" => socket[u] = "destroyed")
        /\ (u \in flagged => aim[u] = DeadTarget)
    BY <1>1 DEF UpgradesTyped, Sound, ThreadsFit, CutOff, Doomed
  <2>2. CASE Joined(u)
    BY <2>1, <2>2 DEF Joined, Sockets, Passes
  <2>3. CASE NotJoined(u)
    BY <2>1, <2>3 DEF NotJoined, Sockets, Passes
  <2>4. CASE TunnelEnds(u)
    BY <2>1, <2>4 DEF TunnelEnds, Sockets, Passes
  <2>5. CASE ClientResets(u) /\ alive' = alive
    <3>1. ~ UpgradeCrashes(u)
      BY <2>5 DEF UpgradeCrashes, Fall, GoDown
    <3> QED
      BY <2>1, <2>5, <3>1 DEF ClientResets, Sockets, Passes
  <2> QED
    BY <2>2, <2>3, <2>4, <2>5
<1>3. UpgradesTyped' /\ Formed'
  <2>1. socket' \in [Upgrades -> Sockets] /\ pass' \in [Upgrades -> Passes]
    BY <1>1, <1>2 DEF UpgradesTyped
  <2>2. flagged' \subseteq Upgrades
    BY <1>1, <1>2 DEF UpgradesTyped
  <2>3. Formed'
    BY <1>1, <1>2 DEF Formed, Heads, handling
  <2> QED
    BY <1>1, <1>2, <2>1, <2>2, <2>3 DEF UpgradesTyped, handling
<1>4. \A v \in Upgrades \ {u} : Alike(v)
  BY <1>1, <1>2 DEF Alike, UpgradesTyped, handling
<1>5. PICK k \in Sockets, p \in Passes :
         /\ socket'[u] = k /\ pass'[u] = p
         /\ p = "over" \/ (p = "awaiting" /\ k = "destroyed")
         /\ p = pass[u] \/ pass[u] = "awaiting"
         /\ k = "tunnel" => p = "over" /\ verdict[u] # "refused"
         /\ k \notin {"open", "none"}
         /\ p = "over" => u \notin flagged'
  BY <1>1, <1>2 DEF UpgradesTyped
<1>6. ThreadsFit(u)' /\ OfATable(u)' /\ Underway(u)' /\ Offered(u)' /\ Headless(u)'
  BY <1>1, <1>2, <1>5
     DEF Sound, ThreadsFit, OfATable, Underway, Offered, Headless, Discovering, handling
<1>7. LedWhereSent(u)' /\ Prefixed(u)'
  BY <1>1, <1>2, <1>5 DEF Sound, LedWhereSent, Led, Prefixed, Router!Sent, handling
<1>8. Early(u)' /\ CutOff(u)' /\ Doomed(u)'
  <2>1. verdict'[u] = verdict[u] /\ aim'[u] = aim[u] /\ (u \in flagged' => u \in flagged)
    BY <1>2 DEF handling
  <2> QED
    BY <1>1, <1>2, <1>5, <2>1 DEF Sound, Early, CutOff, Doomed, Sockets
<1> QED
  BY <1>2, <1>3, <1>4, <1>6, <1>7, <1>8, OneMoves DEF Sound

\* HTTP requests and the world around do to upgrades what Alongside says.
LEMMA AlongsideIsSound ==
    ASSUME UInv, Alongside
    PROVE  UInv'
<1>1. CASE alive /\ ~ alive'
  <2>1. UpgradesEnd({}) /\ UNCHANGED <<handshake, pinned, handling>>
    BY <1>1 DEF Alongside
  <2> QED
    BY <2>1, EndIsSound DEF UInv, UpgradesTyped
<1>2. CASE ~ (alive /\ ~ alive')
  <2>1. /\ subscribed' = (subscribed \/ \E r \in Requests : PassesMiddleware(r))
        /\ UNCHANGED upgrade
    BY <1>2 DEF Alongside
  <2>2. subscribed' \in BOOLEAN /\ (subscribed => subscribed')
    BY <2>1
  <2>3. UpgradesTyped' /\ Formed'
    BY <2>1, <2>2 DEF UInv, UpgradesTyped, Formed, Heads, upgrade, handling
  <2>4. \A v \in Upgrades : Alike(v)
    BY <2>1 DEF Alike, upgrade, handling
  <2> QED
    BY <2>2, <2>3, <2>4, AlikeIsSound DEF UInv
<1> QED
  BY <1>1, <1>2

LEMMA InitIsSound == UpgradesInit => UInv
<1> SUFFICES ASSUME UpgradesInit PROVE UInv
  OBVIOUS
<1>1. UpgradesTyped
  BY DEF UpgradesInit, UpgradesTyped, Verdicts, Sockets, Passes
<1>2. Formed
  BY DEF UpgradesInit, Formed, Heads, NoWire
<1>3. ASSUME NEW u \in Upgrades PROVE Sound(u)
  <2>1. /\ verdict[u] = "none" /\ socket[u] = "none" /\ pass[u] = "idle" /\ handshake[u] = NoShape
        /\ pinned[u] = NoRoute /\ u \notin flagged /\ head[u].prefix = <<>>
    BY DEF UpgradesInit, NoWire
  <2>2. ThreadsFit(u) /\ OfATable(u) /\ Underway(u) /\ Offered(u) /\ Headless(u)
    BY <2>1 DEF ThreadsFit, OfATable, Underway, Offered, Headless, Discovering
  <2>3. LedWhereSent(u) /\ Prefixed(u) /\ Early(u) /\ Doomed(u) /\ CutOff(u)
    BY <2>1 DEF LedWhereSent, Prefixed, Router!Sent, Early, Doomed, CutOff
  <2> QED
    BY <2>2, <2>3 DEF Sound
<1> QED
  BY <1>1, <1>2, <1>3 DEF UInv

LEMMA NextIsSound == UInv /\ Typed /\ [UpgradesNext]_all => UInv'
<1> SUFFICES ASSUME UInv, Typed, [UpgradesNext]_all PROVE UInv'
  OBVIOUS
<1>1. CASE HttpStep /\ Alongside
  BY <1>1, AlongsideIsSound
<1>2. ASSUME NEW u \in Upgrades, UpgradeStep(u) PROVE UInv'
  <2>1. CASE ClientResets(u) /\ alive' # alive
    <3>1. UpgradeCrashes(u) /\ UNCHANGED handshake /\ socket[u] = "open"
      BY <2>1 DEF ClientResets, vars
    <3>2. \A v \in Upgrades : v \in {u} => handshake'[v] # NoShape
      BY <3>1 DEF UInv, Sound, ThreadsFit
    <3> QED
      BY <3>1, <3>2, EndIsSound DEF UpgradeCrashes, UInv, UpgradesTyped
  <2> QED
    BY <1>2, <2>1, ReceiveIsSound, VerdictIsSound, DiscoverIsSound, SendIsSound, EndingIsSound
       DEF UpgradeStep, Moves
<1>3. CASE UNCHANGED all
  <2>1. \A v \in Upgrades : Alike(v)
    BY <1>3 DEF all, upgrade, handling, Alike
  <2>2. UpgradesTyped' /\ Formed' /\ subscribed' = subscribed
    BY <1>3 DEF UInv, UpgradesTyped, Formed, Heads, all, upgrade, handling
  <2> QED
    BY <2>1, <2>2, AlikeIsSound DEF UInv
<1> QED
  BY <1>1, <1>2, <1>3 DEF UpgradesNext

\* The invariant that the theorems below rest on.
LEMMA UpgradesInductive == UpgradesSpec => []UInv
<1>1. UInv /\ IInv /\ [UpgradesNext]_all => UInv'
  BY NextIsSound DEF IInv
<1> QED
  BY <1>1, InitIsSound, HttpUndisturbed, Inductive, PTL DEF UpgradesSpec

-----------------------------------------------------------------------------
(* Properties                                                               *)

\* The two threads of every upgrade fit together.
THEOREM UpgradesTypeCorrect == UpgradesSpec => []UpgradesTypeOK
<1>1. UInv => UpgradesTypeOK
  BY DEF UInv, UpgradesTypeOK, Sound
<1> QED
  BY <1>1, UpgradesInductive, PTL

\* A refused client is cut off, wherever the pass of its upgrade has got to.
THEOREM RefusedUpgradesAreCutOff == UpgradesSpec => []RefusedAreCutOff
<1>1. UInv => RefusedAreCutOff
  BY DEF UInv, RefusedAreCutOff, Sound, CutOff
<1> QED
  BY <1>1, UpgradesInductive, PTL

\* One route decides about an upgrade too, whichever listener started its pass.
THEOREM UpgradeRouteDecides == UpgradesSpec => []UpgradesFollowOneRoute
<1>1. UInv => Router!OneRouteDecides
  <2> SUFFICES ASSUME UInv, NEW u \in Upgrades, Router!Sent(u)
               PROVE  \E c \in Configs :
                         /\ Router!HasGatewayRoutes(c)
                         /\ LET x == Router!FindRoute(c, handshake[u].path)
                            IN  /\ x # NoRoute
                                /\ head[u].service = x.serviceName
                                /\ head[u].path = Router!GetDownstreamPath(x, handshake[u].path)
                                /\ head[u].prefix = x.prefix
                                /\ aim[u] \in Instances => ServiceOf[aim[u]] = x.serviceName
                                /\ aim[u] = FallbackTarget => x.fallbackEnabled
    BY DEF Router!OneRouteDecides
  <2>1. Led(u) /\ Prefixed(u) /\ OfATable(u)
    BY DEF UInv, Sound, LedWhereSent
  <2>2. PICK c \in Configs : /\ Router!HasGatewayRoutes(c)
                             /\ pinned[u] = Router!FindRoute(c, handshake[u].path)
    BY <2>1 DEF Led, OfATable
  <2> QED
    BY <2>1, <2>2 DEF Led, Prefixed
<1>2. UInv => Router!NeverPastAnEmptyListing
  BY DEF UInv, Sound, LedWhereSent, Led, Router!NeverPastAnEmptyListing
<1> QED
  BY <1>1, <1>2, UpgradesInductive, PTL DEF UpgradesFollowOneRoute

\* A pass begins on arrival or with an approval.
LEMMA HowItBegins ==
    ASSUME UpgradesTyped, [UpgradesNext]_all, NEW u \in Upgrades, Begins(u)
    PROVE  (\E s \in UpgradeShapes : ReceiveUpgrade(u, s)) \/ UpgradeApproved(u)
<1>1. ASSUME NEW lost, UpgradesEnd(lost) PROVE FALSE
  BY <1>1 DEF UpgradesEnd, Begins, Discovering
<1>2. ASSUME NEW w \in Upgrades, NEW p, pass' = [pass EXCEPT ![w] = p], w # u PROVE FALSE
  BY <1>2 DEF UpgradesTyped, Begins, Discovering
<1>3. ASSUME pass' = pass PROVE FALSE
  BY <1>3 DEF Begins, Discovering
<1>4. CASE HttpStep /\ Alongside
  <2>1. UpgradesEnd({}) \/ pass' = pass
    BY <1>4 DEF Alongside, upgrade
  <2> QED
    BY <1>1, <1>3, <2>1
<1>5. CASE UNCHANGED all
  BY <1>3, <1>5 DEF all, upgrade
<1>6. ASSUME NEW w \in Upgrades, UpgradeStep(w)
      PROVE  (\E s \in UpgradeShapes : ReceiveUpgrade(u, s)) \/ UpgradeApproved(u)
  <2>1. CASE Discover(w)
    <3>1. pass[w] \in {"listing", "resolving"} /\ \E p : pass' = [pass EXCEPT ![w] = p]
      BY <2>1 DEF Discover, Router!ListInstances, Router!ListingFails, Router!Resolve,
         Router!ResolutionFails, Router!MarkUnavailable, Router!SendTo
    <3> QED
      BY <1>2, <3>1 DEF Begins, Discovering
  <2>2. CASE SendHandshake(w) \/ Joined(w) \/ NotJoined(w)
    <3>1. pass[w] \in {"connecting", "awaiting"} /\ \E p : pass' = [pass EXCEPT ![w] = p]
      BY <2>2 DEF SendHandshake, Joined, NotJoined
    <3> QED
      BY <1>2, <3>1 DEF Begins, Discovering
  <2>3. CASE TunnelEnds(w)
    BY <1>3, <2>3 DEF TunnelEnds
  <2>4. CASE ClientResets(w)
    BY <1>1, <1>3, <2>4 DEF ClientResets, UpgradeCrashes
  <2>5. CASE UpgradeRefused(w)
    <3>1. pass' = [pass EXCEPT ![w] = IF @ = "waiting" THEN "over" ELSE @]
      BY <2>5 DEF UpgradeRefused, Settle
    <3> QED
      BY <3>1 DEF UpgradesTyped, Begins, Discovering
  <2>6. CASE UpgradeApproved(w)
    <3>1. \E p : pass' = [pass EXCEPT ![w] = p]
      BY <2>6 DEF UpgradeApproved
    <3> QED
      BY <1>2, <2>6, <3>1
  <2>7. ASSUME NEW s \in UpgradeShapes, ReceiveUpgrade(w, s)
        PROVE  \E z \in UpgradeShapes : ReceiveUpgrade(u, z)
    <3>1. (\E p : pass' = [pass EXCEPT ![w] = p]) \/ UpgradesEnd({w})
      BY <2>7 DEF ReceiveUpgrade, Settle, UpgradeCrashes
    <3> QED
      BY <1>1, <1>2, <2>7, <3>1
  <2> QED
    BY <1>6, <2>1, <2>2, <2>3, <2>4, <2>5, <2>6, <2>7 DEF UpgradeStep, Verdict, Moves
<1> QED
  BY <1>4, <1>5, <1>6 DEF UpgradesNext

\* Until the middleware has subscribed, authenticate() has the say.
THEOREM WaitsUnlessSubscribed == UpgradesSpec => OnlySubscriptionSkipsTheToken
<1>1. ASSUME UInv, [UpgradesNext]_all, NEW u \in Upgrades, Begins(u), ~ subscribed,
             NeedsToken(config, handshake'[u].path)
      PROVE  verdict'[u] = "passed"
  <2>1. UpgradesTyped
    BY <1>1 DEF UInv
  <2>2. CASE UpgradeApproved(u)
    BY <2>1, <2>2 DEF UpgradeApproved, UpgradesTyped
  <2>3. ASSUME NEW s \in UpgradeShapes, ReceiveUpgrade(u, s) PROVE verdict'[u] = "passed"
    <3>1. handshake'[u] = s
      BY <2>1, <2>3 DEF ReceiveUpgrade, UpgradesTyped
    <3>2. ~ UpgradeCrashes(u)
      BY <1>1 DEF UpgradeCrashes, UpgradesEnd, Begins, Discovering
    <3>3. ~ Settle(u, "refused", "destroyed", "over")
          /\ ~ Settle(u, "introspecting", "open", "waiting")
      BY <1>1, <2>1 DEF Settle, UpgradesTyped, Begins, Discovering
    <3> QED
      BY <1>1, <2>3, <3>1, <3>2, <3>3 DEF ReceiveUpgrade
  <2> QED
    BY <1>1, <2>1, <2>2, <2>3, HowItBegins
<1>2. UInv /\ [UpgradesNext]_all =>
        [\A u \in Upgrades :
           Begins(u) /\ ~ subscribed /\ NeedsToken(config, handshake'[u].path)
           => verdict'[u] = "passed"]_all
  BY <1>1
<1> QED
  BY <1>2, UpgradesInductive, PTL DEF UpgradesSpec, OnlySubscriptionSkipsTheToken

\* An upgrade that has been sent downstream takes nobody down with it.
THEOREM UpgradeCrashesAreExplained == UpgradesSpec => UpgradeCrashesExplained
<1>1. ASSUME UInv, NEW u \in Upgrades, UpgradeStep(u), alive' # alive
      PROVE  \/ pass[u] = "idle" /\ (HasGatewayRoutes(config) => ~ handshake'[u].parses)
             \/ socket[u] = "open" /\ ~ Router!Sent(u)
  <2>1. UpgradesTyped /\ Sound(u)
    BY <1>1 DEF UInv
  <2>2. ASSUME NEW s \in UpgradeShapes, ReceiveUpgrade(u, s)
        PROVE  pass[u] = "idle" /\ (HasGatewayRoutes(config) => ~ handshake'[u].parses)
    <3>1. handshake'[u] = s /\ pass[u] = "idle"
      BY <2>1, <2>2 DEF ReceiveUpgrade, UpgradesTyped
    <3> QED
      BY <1>1, <2>2, <3>1 DEF ReceiveUpgrade, vars
  <2>3. CASE ClientResets(u)
    <3>1. socket[u] = "open" /\ pass[u] # "awaiting"
      BY <1>1, <2>3 DEF ClientResets, vars
    <3> QED
      BY <2>1, <3>1 DEF Sound, ThreadsFit, Headless, Router!Sent
  <2>4. CASE Discover(u)
    BY <1>1, <2>4 DEF Discover, Router!ListInstances, Router!ListingFails, Router!Resolve,
       Router!ResolutionFails
  <2> QED
    BY <1>1, <2>2, <2>3, <2>4 DEF UpgradeStep, Verdict, Moves, UpgradeRefused, UpgradeApproved,
       SendHandshake, Joined, NotJoined, TunnelEnds, vars
<1>2. UInv /\ [UpgradesNext]_all =>
        [\A u \in Upgrades :
           alive' # alive /\ UpgradeStep(u) =>
              \/ pass[u] = "idle" /\ (HasGatewayRoutes(config) => ~ handshake'[u].parses)
              \/ socket[u] = "open" /\ ~ Router!Sent(u)]_all
  BY <1>1
<1> QED
  BY <1>2, UpgradesInductive, PTL DEF UpgradesSpec, UpgradeCrashesExplained
=============================================================================
