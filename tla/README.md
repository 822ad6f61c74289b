# chat-web-gateway-service: specifications

TLA+ modules for the API gateway of this repository, the TLC configurations that
check them on small instances, and theorems about them checked by TLAPS. Paths
below are relative to the repository. `PROJECT.json` maps every definition to the
lines it models, and lists the runs, the mutants that show each property can
fail, the findings, the hazards and the theorems.

    tlc -workers 2 -config GatewayRequest_safety.cfg MCGatewayRequest.tla
    tlapm GatewayRequestProofs.tla

## 1. The system

The gateway is one Node process. Its configuration is a YAML in Nacos that every
getter reads again at each use; nothing derived from it is cached. Two entry
points exist, `/api/**` for clients and `/feign/**` for services.

| Component | State | Operations | Talks to |
|---|---|---|---|
| Configuration (`src/config/environment.ts`, `modules/config/config.service.ts`) | none of its own | `getGatewayRoutes`, `getGatewayAuthOptions`, the other getters; they throw on invalid contents | Nacos, through `ConfigService` |
| Entry authentication (`modules/auth/gateway-auth.service.ts`) | `request.user` | `authenticate`, `introspect`, `writeError` | configuration, service discovery, the Auth service |
| Proxy (`modules/gateway/gateway-proxy.service.ts`) | `matchedRoutes`, `unavailableRequests`, `startedAt`, per request | the document handler, `pathFilter`, `router`, `pathRewrite`, `proxyReq`, `proxyReqWs`, `proxyRes`, `error`, the upgrade listener, and a second upgrade listener that the middleware adds itself | configuration, authentication, service discovery, downstream services |
| Subscriptions and health (`modules/gateway/gateway.service.ts`) | `refreshQueue`, `removeConfigListener` | bootstrap, the configuration listener, health checks, destroy | service discovery, configuration |
| Documents (`modules/gateway/knife4j-services.ts`) | none | aggregation list, path rewriting | configuration |
| Log filter (`gateway-request-logging.middleware.ts`) | none | `shouldLogGatewayRequestPath` | |
| Process (`main.ts`) | `shuttingDown`, `rateLimitHandler` | stripping of client identities (HTTP requests only), order of the middlewares, start, shutdown | all of them |
| Settings (`config/environment.ts`, `modules/config/config.service.ts`, `app.module.ts`) | none | `validateEnvironment` once, one getter for each setting | the environment, the YAML |
| Route migration (`deploy/migrate-nacos-routes.cjs`) | the YAML in Nacos | read, rewrite, publish | Nacos, run by `deploy.yml` before each deployment |
| Releases (`scripts/deploy-branch.cjs`) | branch, pull request, version in `package.json` | fetch, take a version, push, pull request, merge, fast-forward | GitHub, other developers |
| Deployment (`.github/workflows/deploy.yml`, `deploy/deploy.sh`) | workflow runs, the container and its image | build, queue, pull, start, poll, roll back, cancel | GitHub, Docker |
| Local scripts, ingress files | | | not part of the gateway |

`NacosService` (service discovery), `ConfigService` and `http-proxy-middleware` are
packages outside the repository. They are modelled from how the code uses them and
marked external: `resolveService` answers with a cached instance, else with the
fallback it was given, else rejects; `getAllInstances(name, false)` asks Nacos;
`refreshSubscriptions` subscribes what it was given or rejects after any part of
that; the proxy calls `pathFilter` before `router`, `router` before `pathRewrite`,
and treats an exception in `pathFilter` as no match. Node ends the process on an
uncaught exception or an unhandled rejection, and Compose starts it again.

Four things follow from the versions in `yarn.lock` (`http-proxy-middleware` 3.0.7,
`http-proxy` 1.18.1) and are easily taken for granted otherwise:

- With `ws: true` the middleware adds its own `upgrade` listener to the server when the
  first HTTP request has passed through it; from then on `proxy.upgrade` does nothing.
- `timeout` and `proxyTimeout` are set on HTTP requests only.
- A client that goes away during an HTTP request raises `econnreset`, which has no handler
  here, and not `error`.
- After the response headers, a service that closes early or runs into `proxyTimeout` is
  heard of by the response (`aborted`) only: no `error`, and nobody ends what goes to the
  client. A reset of the connection does raise `error`.

What makes it hard: two listeners handle the same upgrade; every request crosses up to
five awaits, and at each of them the YAML, the registry and the subscription cache may be different; errors arrive
as events, before or after the answer has begun; the refreshes of several callers
share one promise chain; the YAML has writers that know nothing of each other; a
start goes on while signals ask the process to stop; deployments interrupt each other.
`PROJECT.json` lists each such hazard at its line with the properties that cover it.

What makes each component correct:

- routing: of overlapping prefixes the most specific enabled one, in any order of
  the YAML;
- HTTP requests: one route per request however often the YAML changes; nothing that
  needs a token passes without an approved one; one answer, and in the end one; no
  instance behind an empty list; the identity the gateway signed on exactly the requests
  that have one, and none a client made up; no crash but in two windows between awaits;
- upgrades: one route, too; a refused one is cut off; the verdict is waited for (which the
  middleware's own listener breaks); a client's identity is not passed on (which it is);
- subscriptions: no change that was heard is lost or undone by an older refresh;
  health answers speak of subscribed services; every check is answered;
- documents: a published path leads back to its operation, no operation is lost;
- process: nobody meets a half-started gateway, what validation accepted no getter
  rejects, exit code 0 means nothing was cut, a closing process ends;
- migration: idempotent, keeps what operators wrote, publishes what the gateway can
  read;
- releases: versions climb one by one, an image that never ran well does not stay, an
  older one comes back by a rollback only, every run ends.

## 2. Modules

| Module | Models |
|---|---|
| `GatewayConfig` | operators: what the code derives from one configuration (parsing, sorting, lookup, prefix stripping, authentication options and exemptions, instance and log filters, document list and path rewriting) |
| `RouteList` | the route list as an operator edits it; properties of the derived table and documents for every list on the way |
| `IdealGateway` | abstract specification of an HTTP request: held while its token is looked at, admitted on one route, sent as that route says, closed |
| `GatewayRequest` | concurrent HTTP requests through stripping, authentication, routing, discovery and proxy, with configuration changes, crashes and restarts; implements `IdealGateway` |
| `GatewayUpgrade` | extends `GatewayRequest` by WebSocket upgrades: the gateway's listener, the middleware's, the client's socket |
| `RouteRefresh` | the refresh chain of the subscriptions, bootstrap, listener, health checks |
| `Settings` | operators: the parsers, the getters and the validation of the environment |
| `GatewayProcess` | the process from its environment to its exit code: bootstrap, requests in each window, signals, shutdown |
| `NacosMigration` | runs of the migration script, other runs and operators |
| `Publish` | `deploy-branch.cjs` in several clones, up to the release on main |
| `Release` | extends `Publish` by the workflow runs, `deploy.sh` and the container |
| `MC*` | constants for TLC |
| `*Proofs` | theorems |

`RouteList`, `GatewayRequest` and `NacosMigration` extend `GatewayConfig`, so that
one translation of `parseGatewayRoutes` serves them all.

**Data.** A path is the sequence of its segments and a prefix never ends in `/`, so
the code's test "equal, or starts with prefix + `/`" is the prefix order on
sequences. Lengths of paths, which the sort compares, stay a constant function with
one assumption: a proper prefix is shorter. The sort (which is stable in JavaScript)
is modelled by ranks: the position of an enabled entry is the number of enabled
entries that go before it. A fallback address is one sentinel, and the address
`127.0.0.1:1` another (`DeadTarget`).

**GatewayRequest.** An action is the code between two awaits. `stage` says what a
request waits for: `introspecting` (resolveService and fetch), `verdict` (the body),
`listing` (`getAllInstances`), `resolving` (`resolveService`), `connecting` (the
socket), `awaiting` (the response), `relaying` (its body), `swaggerResolve` and
`swaggerFetch` for documents. A response that broke off behind its headers is `hanging`
until the client's connection ends, a request whose connection ended is `left`, one that
died with the process `lost`. `route` is `matchedRoutes`, `unavailable` is
`unavailableRequests`, `vouched` is `request.user`. `Dispatch` is the one synchronous
run from `next()` to the first await of the router; it happens in the same step as
the arrival or as the approval by introspection. `listed`, `logged` and the causes in
`answer` are there for the properties.

`shape` is the request behind the first middleware: `claims` says that it carries a
principal header of its own, which `StripIdentity` (`main.ts:60-67`) takes away. The
header on the wire is `none`, `claimed` (by the client) or `signed` (by the gateway).
`Fall` is the end of the process by what is outside the module: an upgrade, or a signal.

`reports` counts the access-log lines of `observeProxyBusinessStatusCode`: a code may
come with the headers, with any chunk of the body, with its end or with the failure
that ends it.

**GatewayUpgrade.** An upgrade has two threads: what `authenticate()` makes of it
(`verdict`) and its way through the proxy (`pass`). Without the middleware's listener
the second waits for the first; once `subscribed` holds, the pass begins with the `upgrade`
event and the verdict only decides over the `socket`. The router is the code that HTTP
requests use, so its steps are those of `GatewayRequest` on the variables of the upgrades
(`Router == INSTANCE GatewayRequest WITH stage <- pass, ...`). `parses` is false of a target
such as `//`, which `new URL` rejects; HTTP requests with such a target fail in the logging
middleware, under Express's error handler, before any of the modelled code. An upgrade
that waited and was approved is `stranded` when its route is gone or the middleware has
subscribed in between: nobody proxies or closes it. `Alongside` is what a step of an HTTP
request does to upgrades: it may subscribe the middleware, or take the process down.

**IdealGateway.** `Ideal` in `GatewayRequest` maps the fourteen stages to five phases;
discovery, the document fetch and the socket are stutters of an admitted request, the
response is one of a sent one. A closed request keeps only the head that was sent.
The ideal gateway decides with one configuration, at the moment of admission: that the
detailed one implements it says that all later reads of the YAML make no difference
to what is sent. It may die at any time; when the detailed one does is `CrashesExplained`.

**RouteRefresh.** `queue` holds the refreshes that have not settled, in order; only
its head may run. The continuation of whoever awaits a refresh runs in the step that
settles it. `missed` records that a change went unheard since the routes were last
read.

**NacosMigration.** An entry keeps the form it has in the YAML, as far as the
script's regular expressions tell forms apart. There is at most one entry with the id
of the old skyline route, since the gateway refuses two entries with one id. The nine calls of
`ensureRoute` are written out. `before` is what the last published text was made from,
`stale` are runs whose copy an edit has outdated.

**GatewayProcess.** Each action is what `bootstrap` or `shutdown` does up to the next
await, so the reads from `getTrustProxy` to `getServerPort` are one step, and a raw
value is missing, blank, junk or what it stands for. A request that arrives before
`initialize` would be `unready`, one that arrives under CORS options that throw is
`refused`, one that is open when the process ends is `cut`.

**Publish and Release.** Versions are patch numbers. Of a branch counts what a
three-way merge of `package.json` looks at. Release n is image n; a run of the
workflow goes through the stages of the two jobs, and a cancelled one through those
of the signal handlers. `proven` and `left` are there for the properties.

## 3. Runs

| Run | Expect | Instance | Shows |
|---|---|---|---|
| `RouteList_table` | pass | all lists of up to 3 entries over 7 prefixes (two invalid, two nested), 3 ids, 2 services (one whose prefix is not stripped), enabled or not; 10 operations | `MostSpecificRouteWins`, `DocumentedPathsLeadBack`, `OneDocumentPerService`, `OperationsStayApart` |
| `GatewayRequest_safety` | pass | 2 HTTP requests of 3 shapes (with a principal header of their own or not), 5 configurations (two unusable), 1 instance, 2 listings | all safety and action properties of HTTP requests, and that they implement `IdealGateway` |
| `GatewayUpgrade_together` | pass | 1 upgrade of 4 shapes (one that does not parse), 1 HTTP request of 3 shapes, 3 configurations (one unusable), 1 instance, 2 listings | upgrades: one route, tokens, refusals, crashes; every upgrade comes to rest and every HTTP request settles |
| `GatewayUpgrade_identity` | violation | 1 upgrade with a principal header, 1 HTTP request, 1 configuration | a client's identity header, on an upgrade without a verdict, reaches the service |
| `RouteRefresh_safety` | pass | 2 services, 2 health checks, 2 changes, failures | the four properties of the chain |
| `RouteRefresh_failure` | violation | 1 service, 1 change, failures | a failed refresh is not repeated |
| `RouteRefresh_startup` | violation | 1 service, 1 change, no failures | a change during bootstrap is missed |
| `NacosMigration_safety` | pass | 2 runs, 2 edits, 3 YAMLs | idempotence, manual entries, usability, overlapping runs publish what runs one after the other would |
| `NacosMigration_readme` | violation | the YAML of `README.md` | the published text does not parse |
| `GatewayProcess_lifecycle` | pass | 45 environments, 4 YAMLs, 2 requests, both signals | what is read at start is valid, the gaps of the validation are the three named ones, nobody meets a gateway that is initialising, exits and signals, closing ends |
| `Release_safety` | pass | 1 branch, 3 releases, failures and signals anywhere | images, versions, order of releases, every run ends |
| `Publish_reuse` | violation | 2 branches, 3 releases | a branch that is behind takes an old version again |

**Bounds.** `MaxEntries`, `MaxChanges`, `MaxEdits`, `MaxReleases` and `Unreadable` (the
releases on main that a clone may fail to read the version of) are the only ones.
Three entries are enough for a prefix, one nested in it and one beside it, in each order
and each enabled or not. Requests do not share state but for the process and the
environment, so two of them show a crash or a change caused by one while the other is
under way, and an upgrade meets HTTP requests only in the subscription and the
falls; the configuration, the registry and the cache change without bound. Two
changes let a second one arrive while the refresh of the first is running and a
third refresh (of a check) waits. Two edits put one before and one after a run's read.
Three releases let a deployment be superseded while it undoes itself and waits for one
more. Branches that release in turn meet in `Publish_reuse`; with two of them the
workflow is out of TLC's reach and covered by the theorems. The environments differ from
an empty one in a setting or two that are read together: no getter looks at more.

**Symmetry** is used for requests and for runs of the migration, in safety runs only.

**Deadlock** is not checked where the system may stop: when all requests are done, all
changes are made, the process has ended or all releases are out.

**Fairness.** `GatewayRequest` has none of its own. `UpgradesFairSpec` assumes weak fairness
of each HTTP request's `Progress` unless its response is flowing: the introspection has
`AbortSignal.timeout`, the document fetch too, the proxy has `timeout` (also the idle
timeout of a client's connection) and `proxyTimeout`, and the Nacos client answers or
rejects. Of an upgrade it assumes that the verdict comes and that discovery goes on, no
more: the proxy's timeouts do not apply, so a service that stays silent keeps it
`awaiting` for as long as it likes. No
particular outcome is assumed, and nothing of the environment: not that instances
return, nor that a crashed process restarts. `RouteRefresh` assumes that
`refreshSubscriptions` settles, in either way. `GatewayProcess` assumes that a timer
fires (`TimesOut`), and neither that hooks finish nor that clients leave. `Release`
assumes of each workflow run that it goes on in some way: GitHub ends a job that hangs,
`HEALTH_TIMEOUT` the health check; nothing is assumed of the container, of the developers
or of success.

### Findings

1. `main.ts:60-61`: the identity context can only be issued by the gateway, a client's header
   of that name is dropped before any forwarding. The middleware that drops it runs for HTTP
   requests; an upgrade is forwarded with the principal header the client sent, and
   `proxyReqWs` puts none over it (`GatewayUpgrade_identity`, `main.ts:62`).
2. `README.md:34`, `gateway-auth.service.ts:52`: requests with a protected path are checked, then
   forwarded, upgrades as well. After the first HTTP request the middleware's own listener
   forwards them without waiting for the check; in the trace, one without any token
   (`GatewayUpgrade_identity`, `gateway-proxy.service.ts:218`). What does hold is
   `OnlySubscriptionSkipsTheToken` and `RefusedAreCutOff`.
3. `README.md:176`, `README.md:161`: services are subscribed automatically and in real
   time. A change between the first refresh and the registration of the listener is
   not heard (`RouteRefresh_startup`).
4. The same promise fails after a failed refresh: the chain logs it and nothing tries
   again until another change or health check (`RouteRefresh_failure`).
5. `deploy/RUNBOOK.md:332`: the migration leaves existing configuration alone. On the
   YAML of `README.md:118-142` (entries indented by eight) it inserts entries indented
   by four, which ends the sequence in the middle of a mapping (`NacosMigration_readme`).
6. `deploy-branch.cjs:118`: a version that differs from main's has not entered main yet.
   On a branch that is behind it has, and is used again (`Publish_reuse`).

Plain differences between a document and a line of code, which need no run:
`README.md:77` says 502 when Nacos has no instance, the code and its test 503;
`README.md:155` says 503 when Auth is unavailable, but if it stalls after its response
headers the read of the body fails and the answer is 502; `README.md:19` says a failed
deployment is rolled back, but a failure of the later verification step is not;
`deploy/RUNBOOK.md:465` says Swagger keeps answering without a token, but the exemption
(`gateway-auth.service.ts:127-128`) fits prefixes of one segment after `/api` only, while the
aggregation lists longer ones as well.

Not a contradiction of any document, but visible in the models:

- An HTTP request ends the process in two windows only (`CrashesExplained`): routes that
  cannot be read are published while its token is being examined (`findRoute` in the voided
  promise of the document handler, `gateway-proxy.service.ts:326`), or the signing key
  disappears before its identity is signed (line 376). An upgrade ends it on arrival, when
  its target does not parse or the routes cannot be read (287, 305), and when its client
  resets the connection before `proxyReqWs`, since Node takes its error listener off an
  upgraded socket and the next one is added there (`UpgradeCrashesExplained`). No test
  covers the upgrade listener.
- An upgrade may be left open and unproxied (`stranded`), or wait for a silent service
  without bound; a response that breaks off hangs until the idle timeout of the client's
  connection. `config.service.ts:69` holds a self-check that nobody calls.
- `validateEnvironment` leaves three gaps (`OnlyGapsSlipThrough`): `TRUST_PROXY`, which
  fails the start later on; any origin together with credentials, which fails every
  request; a blank `*_SERVICE_URL`, validated as a missing one and rejected by
  `getGatewayRoutes`. A blank `CORS_ORIGINS` is an empty list, not the default.
- Trust proxy, rate limit, proxy timeout and port are what the YAML held during the
  start, routes and CORS what it holds now (`README.md:161` names the port only).
- A failed start leaves the process waiting for its Nacos connections, and a signal then
  makes it exit with code 0. Any open WebSocket makes a shutdown end by the timer, with
  code 1.
- A rollback that is killed by a second signal, or fails, leaves the new image (or none);
  a release whose fast-forward failed is followed by an empty one; a pull request that
  was left open keeps the title of its first version.
- A route with `stripPrefix: false` gets a usable document only if its service names the
  full paths itself; `DocumentedPathsLeadBack` says so.

## 4. Proofs

The theorems hold for every value of the constants under the named assumptions
(`LengthAssumption`, `EntryAssumption`, `RequestAssumption`, `ConfigAssumption`,
`UpgradeAssumption`, `RefreshAssumption`, `SettingsAssumption`, `ProcessAssumption`,
`PublishAssumption`,
`MigrationAssumption`). TLC evaluates them in the runs.

**`GatewayConfigProofs`** has the lemmas about the routing table. The ranks of the
enabled entries are injective and fill `1..n` (`PositionInjective`, `PositionsFilled`, a
cardinality argument), so the table holds exactly the enabled entries
(`TableHoldsEnabled`) in an order where a longer prefix is never behind a shorter one
(`PositionMonotone`). Two prefixes of one path are comparable (`PrefixesComparable`).

**`RouteListProofs`.** The entries stay a sequence (`TypeCorrect`); the rest is about one
list. The first match is the most specific (`MostSpecificRoute`); the first public route
of a service keeps its place, so every service is listed once (`OneDocument`); a
published path matches the route it was published for, hence its first match is that
route, where stripping undoes the rewriting, or a more specific one (`DocumentsLeadBack`);
joining a prefix is injective (`OperationsApart`).

**`GatewayRequestProofs`.** The safety properties are not inductive: that the wire
carries the data of one route depends on the route having been pinned at every stage
in between, on the listing preceding the choice of the target, on the flag agreeing
with the target while the request is under way. `IInv` is the type invariant and, for
each request, `Good(r)`: what route, listed, target, unavailable, wire and answer may be
at each stage. `Inductive` proves `Spec => []IInv`, one lemma per kind of action; the
invariants follow from it, and the action properties from it and the actions
(`OneAnswer`, `OnlyVouchedAreForwarded`, `CrashesAreExplained`). `IdentityIsExact` rests on
`Stripped`: no request carries a principal header of its own behind the first middleware. The
log counters have an invariant of their own (`OneLinePerResponse`).

`Refinement` is `Spec => ImplementsIdeal`. Besides `IInv` it
needs that nothing is in flight while the process is down. Every action of a request
changes the mapped phase, pin, approval and head of that request only; a lemma for each
ideal action says which steps map to it, and the remaining steps map to stutters.

**`GatewayUpgradeProofs`.** `HttpUndisturbed`: `UpgradesSpec => Spec`, since a step of an upgrade
leaves HTTP requests alone or is their `Fall`; so every theorem of `GatewayRequestProofs` holds
next to upgrades. `UInv` has the types and `Sound(u)` for each upgrade: the two threads fit
together, the pinned route is one of some table, the target and the head follow from it from the
moment the router answers, and a refusal has destroyed the socket. `UpgradesTypeCorrect`,
`RefusedUpgradesAreCutOff` and `UpgradeRouteDecides` follow from it, `WaitsUnlessSubscribed` and
`UpgradeCrashesAreExplained` from it and the actions. `NobodyForgesIdentity` is false.

**`RouteRefreshProofs`.** `QInv` strengthens `HeardChangesStayQueued`: only the head of
the queue has started; a refresh that started and is alone has read the current
table, unless a change went unheard; an empty queue means subscribed, failed or
missed; each check waits at most once. `HealthIsSubscribed` follows from it.

**`GatewayProcessProofs`.** Settings are there before the server listens, whoever is past
creation was validated, a heard signal closes the application, and only exits with code 1
or by a signal cut requests: with the types these are inductive. The step that reads the settings
rests on the range of each parser; `OnlyGaps` on what validation says of each raw value.

**`ReleaseProofs`.** Publishing and rolling out have an invariant each. `ClonesFollow`: a
clone's version is never below the commit it starts from nor more than one above main.
`OneDeploys`, `LaterOnly`, `NewestLast` and `TrialsAreKnown`: one run deploys at a time,
whatever was triggered before a queued run is over or being undone, a run that has yet to
switch finds nothing newer on the host, and an image on trial can be taken back. The four
theorems follow.

**`NacosMigrationProofs`.** First the rewriting of one text. `Grown` says what a chain of
`Ensure` calls does: it keeps every entry in its place and appends only required routes whose
id and prefix were free. So a rewritten text holds every required route, or an entry in
its place, and a second rewriting changes nothing (`MigrateTwice`); entries the script does not
name survive it (`MigrateKeepsEntries`); ids and prefixes stay unique
(`MigrateKeepsUsable`). Then the runs. `ManualEntriesSurvive` speaks of what is published
already, so it is not inductive; `IInv` adds that a text about to be published is the
rewriting of what its run read, and that a copy no edit has outdated has every entry the
operator wrote by hand. `RunsAreAtomic` needs more: the published text is
such a copy or its rewriting by a faster run (`CopiesAreCurrent`).

**What keeps things moving.** The five liveness properties (`EveryRequestSettles`,
`UpgradesComeToRest`, `EveryCheckAnswered`, `EveryRunEnds`, `ClosingEnds`) are only
model-checked: fairness and
ENABLED are out of the prover's reach. Proved is what they rest on besides fairness, that no
step undoes what a fair one has done. Every step of an HTTP request but a part of its body
raises a count that ends at eleven and that nobody lowers (`RequestsAdvance`); every
step of the refresh chain answers a waiting check or
brings it closer, and whoever joins stands behind it (`ChecksAdvance`); a workflow run never
repeats a stage, whoever cancels it (`RunsAdvance`); nothing disarms the timer of a shutdown,
and a closing server's requests only get fewer (`ClosingAdvances`). That the awaited action can
be taken at all, the ENABLED part, is what TLC adds on its instances.

## 5. Not modelled

- Environment overrides of `fallbackUrl` in requests (`Settings` has their validation);
  file-name extensions in the log filter; `getAllInstances` missing from the client; CORS
  preflights (answered before authentication). A client that leaves is noticed once its
  request has been sent downstream (`ConnectionCloses`), as in the code; before that the
  request goes on as if it were there.
- A document path without a leading slash, which `knife4j-services.ts:58` would complete:
  OpenAPI requires the slash.
- The way of an upgrade in `GatewayProcess`: it is an open WebSocket there and nothing more.
- Rate limiting is a refusal that may happen to any HTTP request; its counting is the
  library's.
- A missing routes array, an unparsable field and a duplicate are one case each: the
  getter throws.
- `validateRemoteConfig` (`environment.ts:24-113`) and `assertPrincipalConfigured`: no code
  calls them.
- In the migration: comments, line ends, the layout of the CORS section, and YAMLs in
  which `routes` is not the last key before the `nacos` section.
- In releases: runs started by hand (`workflow_dispatch`), which may deploy a release again;
  a `deploy.sh` started on the host; minor and major versions; a host or runner that
  vanishes during the health check without running its signal handlers.
- Response classes and module declarations have no control. `start-with-cluster-port.cjs`
  and `yarn-auth.cjs` are one pass each of network and process I/O on a developer's
  machine, without state. The ingress files and PowerShell scripts are configuration of
  other programs.

## 6. Plan

1. `workflow_dispatch` in `Release`: a release that is deployed again, next to newer ones.
2. `NacosMigration` composed with `Release`: the migration runs in `preparing`, and a rollback
   of the image does not roll the YAML back.
