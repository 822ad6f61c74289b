----------------------------- MODULE GatewayProcess -----------------------------
(***************************************************************************)
(* The gateway as a process (main.ts): from the environment it is started  *)
(* with to its exit code.  The start goes on while the YAML arrives and    *)
(* changes, and while signals ask it to stop; closing waits for the open   *)
(* requests and races a timer of eight seconds.                            *)
(*                                                                         *)
(* Code between two awaits is one step: reading the routes for the         *)
(* documents (Create), the settings a process keeps until it is restarted  *)
(* together with the call of listen (InitDone).                            *)
(***************************************************************************)
EXTENDS Settings

CONSTANTS
    Environments,   \* what the process may be started with
    Configurations, \* contents of the YAML
    NoYaml,         \* the one before any arrived
    Requests        \* HTTP requests and WebSockets

ASSUME ProcessAssumption ==
    /\ NoYaml \in Configurations
    /\ \A raw \in { NoYaml.port, NoYaml.timeout, NoYaml.max, NoYaml.window, NoYaml.trust,
                    NoYaml.origins, NoYaml.credentials, NoYaml.routes } : raw = Unset

VARIABLES
    env, yaml,
    phase,      \* how far bootstrap has come
    settings,   \* what was read at start, None before
    close,      \* how far app.close() has come
    heard,      \* signals whose handler has run: process.once removes it
    requests,
    exit        \* "running", 0, 1 or "killed", as strings

vars == <<env, yaml, phase, settings, close, heard, requests, exit>>

None == [state |-> "none"]
Signals == {"SIGINT", "SIGTERM"}

Init ==
    /\ env \in Environments
    /\ yaml = NoYaml
    /\ phase = "creating"
    /\ settings = None
    /\ close = "none"
    /\ heard = {}
    /\ requests = [r \in Requests |-> "none"]
    /\ exit = "running"

Running == exit = "running"
Open == {r \in Requests : requests[r] = "open"}

\* The process ends and takes its connections with it.
Exits(code) ==
    /\ exit' = code
    /\ requests' = [r \in Requests |-> IF r \in Open THEN "cut" ELSE requests[r]]

-----------------------------------------------------------------------------
(* Bootstrap                                                                *)

\* Nest ends a process whose application cannot be created.
CreateFails ==
    /\ Running /\ phase = "creating" /\ ~ ValidateEnvironment(env)
    /\ Exits("1")
    /\ UNCHANGED <<env, yaml, phase, settings, close, heard>>

\* Up to the first await after the signal handlers, knife4jSetup.
Create ==
    /\ Running /\ phase = "creating" /\ ValidateEnvironment(env)
    /\ phase' = IF ReadsRoutes(yaml, env) THEN "initializing" ELSE "failed"
    /\ UNCHANGED <<env, yaml, settings, close, heard, requests, exit>>

\* Subscribing to the services of the routes fails: app.init() rejects.
InitFails ==
    /\ Running /\ phase = "initializing"
    /\ phase' = "failed"
    /\ UNCHANGED <<env, yaml, settings, close, heard, requests, exit>>

\* What is read from app.init() to listen; the window only with a limit.
StartSettings ==
    LET max == GetRateLimitMax(yaml, env)
    IN  [ state |-> "read",
          trustProxy |-> GetTrustProxy(yaml, env),
          max |-> max,
          windowMs |-> IF max \in {0, Throws} THEN Unset ELSE GetRateLimitWindowMs(yaml, env),
          proxyTimeout |-> GetProxyTimeout(yaml, env),
          port |-> GetServerPort(yaml, env) ]

Readable == \A s \in DOMAIN StartSettings : StartSettings[s] # Throws

\* Mutant: the server listens before the proxies are initialised.
InitDoneListensFirst ==
    /\ Running /\ phase = "initializing"
    /\ phase' = "binding"
    /\ UNCHANGED <<env, yaml, settings, close, heard, requests, exit>>

\* Mutant: a setting that cannot be read is kept.
InitDoneUnchecked ==
    /\ Running /\ phase = "initializing"
    /\ phase' = "binding" /\ settings' = StartSettings
    /\ UNCHANGED <<env, yaml, close, heard, requests, exit>>

InitDone ==
    /\ Running /\ phase = "initializing"
    /\ IF Readable THEN phase' = "binding" /\ settings' = StartSettings
                   ELSE phase' = "failed" /\ UNCHANGED settings
    /\ UNCHANGED <<env, yaml, close, heard, requests, exit>>

\* The port is bound, or taken.
Listen ==
    /\ Running /\ phase = "binding"
    /\ phase' \in {"listening", "failed"}
    /\ UNCHANGED <<env, yaml, settings, close, heard, requests, exit>>

\* After a failed start only exitCode is set: the process ends when nothing is
\* left to wait for, the connections to Nacos among it.
Unwinds ==
    /\ Running /\ phase = "failed" /\ close = "none"
    /\ Exits("1")
    /\ UNCHANGED <<env, yaml, phase, settings, close, heard>>

-----------------------------------------------------------------------------
(* Requests                                                                 *)

\* A request meets a proxy that is not there yet, CORS options that throw, or
\* is taken on.
Accept(r) ==
    /\ Running /\ phase = "listening" /\ close # "draining"
    /\ requests[r] = "none"
    /\ requests' = [requests EXCEPT ![r] =
                       IF ~ HasCorsOptions(yaml, env) THEN "refused"
                       ELSE IF settings = None THEN "unready" ELSE "open"]
    /\ UNCHANGED <<env, yaml, phase, settings, close, heard, exit>>

Answer(r) ==
    /\ Running /\ requests[r] = "open"
    /\ requests' = [requests EXCEPT ![r] = "served"]
    /\ UNCHANGED <<env, yaml, phase, settings, close, heard, exit>>

\* The YAML arrives from Nacos, or changes.
ConfigChanges ==
    /\ Running
    /\ yaml' \in Configurations \ {NoYaml, yaml}
    /\ UNCHANGED <<env, phase, settings, close, heard, requests, exit>>

-----------------------------------------------------------------------------
(* Shutdown                                                                 *)

\* Mutant: the handlers come with the listening server.
HandlesLate(s) == phase \notin {"creating", "initializing", "binding"} /\ s \notin heard

Handles(s) == phase # "creating" /\ s \notin heard

\* A signal nobody handles ends the process; a second one while the gateway
\* is closing changes nothing if it is of the other kind.
Signal(s) ==
    /\ Running
    /\ IF Handles(s)
       THEN /\ heard' = heard \cup {s}
            /\ close' = IF close = "none" THEN "hooks" ELSE close
            /\ UNCHANGED <<requests, exit>>
       ELSE Exits("killed") /\ UNCHANGED <<close, heard>>
    /\ UNCHANGED <<env, yaml, phase, settings>>

\* Mutant: the process exits without waiting for the server to close.
HooksRunAlone ==
    /\ Running /\ close = "hooks"
    /\ Exits("0")
    /\ UNCHANGED <<env, yaml, phase, settings, close, heard>>

\* The hooks of the modules have run; the server accepts nothing more and is
\* closed once no connection is left.
HooksRun ==
    /\ Running /\ close = "hooks"
    /\ IF Open = {} THEN Exits("0") /\ UNCHANGED close
                    ELSE close' = "draining" /\ UNCHANGED <<requests, exit>>
    /\ UNCHANGED <<env, yaml, phase, settings, heard>>

HooksFail ==
    /\ Running /\ close = "hooks"
    /\ Exits("1")
    /\ UNCHANGED <<env, yaml, phase, settings, close, heard>>

Drained ==
    /\ Running /\ close = "draining" /\ Open = {}
    /\ Exits("0")
    /\ UNCHANGED <<env, yaml, phase, settings, close, heard>>

\* Mutant: the timer starts when the hooks have run.
TimesOutDraining ==
    /\ Running /\ close = "draining"
    /\ Exits("1")
    /\ UNCHANGED <<env, yaml, phase, settings, close, heard>>

\* Eight seconds have passed.
TimesOut ==
    /\ Running /\ close # "none"
    /\ Exits("1")
    /\ UNCHANGED <<env, yaml, phase, settings, close, heard>>

Next ==
    \/ CreateFails \/ Create \/ InitFails \/ InitDone \/ Listen \/ Unwinds
    \/ \E r \in Requests : Accept(r) \/ Answer(r)
    \/ ConfigChanges
    \/ \E s \in Signals : Signal(s)
    \/ HooksRun \/ HooksFail \/ Drained \/ TimesOut

Spec == Init /\ [][Next]_vars

\* A timer fires.
FairSpec == Spec /\ WF_vars(TimesOut)

-----------------------------------------------------------------------------
(* Properties                                                               *)

Read ==
    [ state : {"read"}, trustProxy : BOOLEAN, max : Nat,
      windowMs : (Nat \ {0}) \cup {Unset}, proxyTimeout : Nat \ {0}, port : 1 .. MaxPort ]

TypeOK ==
    /\ env \in Environments
    /\ yaml \in Configurations
    /\ phase \in {"creating", "initializing", "binding", "listening", "failed"}
    /\ settings = None \/ settings \in Read
    /\ close \in {"none", "hooks", "draining"}
    /\ heard \subseteq Signals
    /\ requests \in [Requests -> {"none", "open", "served", "refused", "unready", "cut"}]
    /\ exit \in {"running", "0", "1", "killed"}

\* An environment the gateway starts with and no YAML: the getters of the port,
\* the proxy timeout, the limiter, CORS and the routes return, now and at any
\* later request, but for what is not validated (TRUST_PROXY), validated in
\* parts (any origin, together with credentials) or read more strictly than it
\* was validated (the blank URL of a default route).  The settings that only a
\* YAML can give, the authentication and the key of the gateway, have no part
\* in this: without a YAML their getters throw.
OnlyGapsSlipThrough ==
    phase # "creating" =>
        /\ \A value \in { GetServerPort(NoYaml, env), GetProxyTimeout(NoYaml, env),
                          GetRateLimitMax(NoYaml, env), GetRateLimitWindowMs(NoYaml, env) } :
              value # Throws
        /\ GetTrustProxy(NoYaml, env) = Throws <=> env.trust \notin BOOLEAN \cup {Unset, Blank}
        /\ ~ HasCorsOptions(NoYaml, env) <=>
              /\ env.origins = Unset \/ (env.origins # Blank /\ Any \in env.origins)
              /\ env.credentials = TRUE
        /\ ReadsRoutes(NoYaml, env) <=> \A id \in FallbackIds : env.url[id] # Blank

\* However the start, the YAML and signals interleave, nobody is told that the
\* gateway is still initialising.
NobodyMeetsTheUninitialised == \A r \in Requests : requests[r] # "unready"

\* Exit code 0 means that every request was answered.
CleanExitsCutNothing == exit = "0" => \A r \in Requests : requests[r] # "cut"

\* From the moment the application exists no signal ends the process before it
\* has begun to close.
NoAbruptEnd == [][exit' = "killed" => phase = "creating" \/ close # "none"]_vars

\* Once it closes the process ends: hung hooks and open WebSockets do not keep it.
ClosingEnds == close # "none" ~> exit # "running"
================================================================================
