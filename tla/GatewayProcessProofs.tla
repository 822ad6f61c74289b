-------------------------- MODULE GatewayProcessProofs --------------------------
(***************************************************************************)
(* The gateway's process for any environments, YAMLs and requests.  What   *)
(* is read at start is there before the server listens, an environment     *)
(* past creation is a validated one, and a request can only be cut by an   *)
(* exit that is not clean: together these are inductive.                   *)
(***************************************************************************)
EXTENDS GatewayProcess, TLAPS

ReadBeforeListening == phase \in {"binding", "listening"} => settings # None

CreatedIsValid == phase # "creating" => ValidateEnvironment(env)

HeardCloses == heard # {} => close # "none"

OpenWhileRunning == \A r \in Requests : requests[r] = "cut" => exit \in {"1", "killed"}

IInv == /\ TypeOK /\ ReadBeforeListening /\ CreatedIsValid /\ HeardCloses /\ OpenWhileRunning
        /\ NobodyMeetsTheUninitialised

-----------------------------------------------------------------------------
(* Reading settings                                                         *)

\* A parser yields a valid value or throws.
LEMMA ParseType ==
    ASSUME NEW raw, NEW valid, NEW fallback \in valid
    PROVE  Parse(raw, fallback, valid) \in valid \cup {Throws}
BY DEF Parse

\* What a start keeps has its types once nothing threw.
LEMMA StartSettingsType == Readable => StartSettings \in Read /\ StartSettings # None
<1> SUFFICES ASSUME Readable PROVE StartSettings \in Read /\ StartSettings # None
  OBVIOUS
<1> DEFINE max == GetRateLimitMax(yaml, env)
           window == GetRateLimitWindowMs(yaml, env)
           trust == GetTrustProxy(yaml, env)
           timeout == GetProxyTimeout(yaml, env)
           port == GetServerPort(yaml, env)
<1>1. max \in Nat \cup {Throws}
  BY ParseType DEF GetRateLimitMax, ParseNonNegativeInteger
<1>2. window \in (Nat \ {0}) \cup {Throws}
  BY ParseType DEF GetRateLimitWindowMs, ParsePositiveInteger
<1>3. timeout \in (Nat \ {0}) \cup {Throws}
  BY ParseType DEF GetProxyTimeout, ParsePositiveInteger
<1>4. trust \in BOOLEAN \cup {Throws}
  BY ParseType DEF GetTrustProxy, GetBoolean
<1>5. port \in 1 .. MaxPort \cup {Throws}
  <2> DEFINE ports == 1 .. MaxPort
  <2>1. 5000 \in ports
    BY DEF MaxPort
  <2>2. port = Parse(Coalesce(env.port, yaml.port), 5000, ports)
    BY DEF GetServerPort, ParsePort
  <2> HIDE DEF ports, port
  <2>3. port \in ports \cup {Throws}
    BY <2>1, <2>2, ParseType
  <2> QED
    BY <2>3 DEF ports
<1> DEFINE w == IF max \in {0, Throws} THEN Unset ELSE window
<1>6. StartSettings = [state |-> "read", trustProxy |-> trust, max |-> max,
                       windowMs |-> w, proxyTimeout |-> timeout, port |-> port]
  BY DEF StartSettings
<1> HIDE DEF max, window, trust, timeout, port
<1>7. /\ trust # Throws /\ max # Throws /\ timeout # Throws /\ port # Throws /\ w # Throws
  BY <1>6 DEF Readable
<1>8. w \in (Nat \ {0}) \cup {Unset}
  BY <1>2, <1>7
<1> HIDE DEF w
<1>9. StartSettings \in Read
  BY <1>1, <1>3, <1>4, <1>5, <1>6, <1>7, <1>8 DEF Read
<1>10. StartSettings.state = "read" /\ None.state = "none"
  BY <1>6 DEF None
<1> QED
  BY <1>9, <1>10

\* Validation leaves exactly the gaps.
LEMMA Gaps ==
    ASSUME ValidateEnvironment(env)
    PROVE  OnlyGapsSlipThrough
<1>1. /\ NoYaml.port = Unset /\ NoYaml.timeout = Unset /\ NoYaml.max = Unset
      /\ NoYaml.window = Unset /\ NoYaml.trust = Unset /\ NoYaml.origins = Unset
      /\ NoYaml.credentials = Unset /\ NoYaml.routes = Unset
  BY ProcessAssumption
<1>2. /\ Coalesce(env.port, NoYaml.port) = env.port
      /\ Coalesce(NoYaml.timeout, env.timeout) = env.timeout
      /\ Coalesce(NoYaml.max, env.max) = env.max
      /\ Coalesce(NoYaml.window, env.window) = env.window
      /\ Coalesce(NoYaml.trust, env.trust) = env.trust
      /\ Coalesce(NoYaml.origins, env.origins) = env.origins
      /\ Coalesce(NoYaml.credentials, env.credentials) = env.credentials
  BY <1>1 DEF Coalesce
<1>3. ValidNumbers(env) /\ ValidCors(env) /\ \A id \in FallbackIds : env.url[id] # Junk
  BY DEF ValidateEnvironment
<1>4. \A value \in { GetServerPort(NoYaml, env), GetProxyTimeout(NoYaml, env),
                     GetRateLimitMax(NoYaml, env), GetRateLimitWindowMs(NoYaml, env) } :
         value # Throws
  BY <1>2, <1>3 DEF ValidNumbers, GetServerPort, GetProxyTimeout, GetRateLimitMax,
                    GetRateLimitWindowMs
<1>5. GetTrustProxy(NoYaml, env) = Throws <=> env.trust \notin BOOLEAN \cup {Unset, Blank}
  BY <1>2, SettingsAssumption DEF GetTrustProxy, GetBoolean, Parse
<1>6. ~ HasCorsOptions(NoYaml, env) <=>
         /\ env.origins = Unset \/ (env.origins # Blank /\ Any \in env.origins)
         /\ env.credentials = TRUE
  <2> DEFINE origins == ParseCorsOrigins(env.origins)
             credentials == GetBoolean(env.credentials, FALSE)
  <2>1. HasCorsOptions(NoYaml, env) <=> (Any \in origins => credentials = FALSE)
    BY <1>2, <1>3 DEF HasCorsOptions, ValidCors
  <2>2. Any \in origins <=> env.origins = Unset \/ (env.origins # Blank /\ Any \in env.origins)
    BY <1>3, SettingsAssumption DEF ValidCors, ParseCorsOrigins
  <2>3. credentials = FALSE <=> env.credentials # TRUE
    BY <1>3, SettingsAssumption DEF ValidCors, GetBoolean, Parse
  <2> HIDE DEF origins, credentials
  <2> QED
    BY <2>1, <2>2, <2>3
<1>7. ReadsRoutes(NoYaml, env) <=> \A id \in FallbackIds : env.url[id] # Blank
  BY <1>1, <1>3, SettingsAssumption DEF ReadsRoutes
<1> QED
  BY <1>4, <1>5, <1>6, <1>7 DEF OnlyGapsSlipThrough

-----------------------------------------------------------------------------
(* The invariant                                                            *)

LEMMA Initially == Init => IInv
BY ProcessAssumption DEF Init, IInv, TypeOK, ReadBeforeListening, CreatedIsValid, HeardCloses,
   OpenWhileRunning,
   NobodyMeetsTheUninitialised

\* Ending the process cuts what is open and nothing else.
LEMMA ExitKeeps ==
    ASSUME IInv, NEW code \in {"0", "1", "killed"}, Exits(code),
           code = "0" => Open = {},
           exit = "running",
           UNCHANGED <<env, yaml, phase, settings, heard>>,
           close' \in {"none", "hooks", "draining"}, close' # "none" \/ close' = close
    PROVE  IInv'
<1>1. /\ exit' = code
      /\ requests' = [r \in Requests |-> IF r \in Open THEN "cut" ELSE requests[r]]
  BY DEF Exits
<1>2. TypeOK'
  BY <1>1 DEF IInv, TypeOK
<1>3. ReadBeforeListening' /\ CreatedIsValid' /\ HeardCloses'
  BY DEF IInv, ReadBeforeListening, CreatedIsValid, HeardCloses
<1>4. OpenWhileRunning'
  <2>1. \A r \in Requests : requests[r] # "cut"
    BY DEF IInv, OpenWhileRunning
  <2> QED
    BY <1>1, <2>1 DEF OpenWhileRunning
<1>5. NobodyMeetsTheUninitialised'
  BY <1>1 DEF IInv, NobodyMeetsTheUninitialised
<1> QED
  BY <1>2, <1>3, <1>4, <1>5 DEF IInv

\* Bootstrap moves on without touching requests and exit.
LEMMA StartKeeps ==
    ASSUME IInv, Create \/ InitFails \/ InitDone \/ Listen
    PROVE  IInv'
<1>1. /\ UNCHANGED <<env, yaml, close, heard, requests, exit>>
      /\ phase' \in {"initializing", "binding", "listening", "failed"}
      /\ phase = "creating" => ValidateEnvironment(env)
      /\ settings' = settings \/ (Readable /\ settings' = StartSettings)
      /\ phase' \in {"binding", "listening"} =>
            \/ Readable /\ settings' = StartSettings
            \/ phase = "binding" /\ settings' = settings
  BY DEF Create, InitFails, InitDone, Listen
<1>2. settings' = None \/ settings' \in Read
  BY <1>1, StartSettingsType DEF IInv, TypeOK
<1>3. TypeOK'
  BY <1>1, <1>2 DEF IInv, TypeOK
<1>4. ReadBeforeListening'
  BY <1>1, StartSettingsType DEF IInv, ReadBeforeListening, None
<1>5. CreatedIsValid' /\ HeardCloses'
  BY <1>1 DEF IInv, CreatedIsValid, HeardCloses
<1>6. OpenWhileRunning' /\ NobodyMeetsTheUninitialised'
  BY <1>1 DEF IInv, OpenWhileRunning, NobodyMeetsTheUninitialised
<1> QED
  BY <1>3, <1>4, <1>5, <1>6 DEF IInv

LEMMA Inductive == IInv /\ [Next]_vars => IInv'
<1> SUFFICES ASSUME IInv, [Next]_vars PROVE IInv'
  OBVIOUS
<1>1. CASE Create \/ InitFails \/ InitDone \/ Listen
  BY <1>1, StartKeeps
<1>2. CASE CreateFails \/ Unwinds \/ HooksFail \/ TimesOut
  <2>1. /\ Exits("1") /\ exit = "running" /\ UNCHANGED <<env, yaml, phase, settings, close, heard>>
        /\ close' \in {"none", "hooks", "draining"}
    BY <1>2 DEF CreateFails, Unwinds, HooksFail, TimesOut, Running, IInv, TypeOK
  <2> QED
    BY <2>1, ExitKeeps
<1>3. ASSUME NEW r \in Requests, Accept(r) \/ Answer(r)
      PROVE  IInv'
  <2>1. /\ UNCHANGED <<env, yaml, phase, settings, close, heard, exit>> /\ exit = "running"
        /\ \E v \in {"refused", "open", "served"} : requests' = [requests EXCEPT ![r] = v]
    BY <1>3 DEF Accept, Answer, Running, IInv, ReadBeforeListening
  <2>2. TypeOK'
    BY <2>1 DEF IInv, TypeOK
  <2>3. OpenWhileRunning' /\ NobodyMeetsTheUninitialised'
    BY <2>1 DEF IInv, TypeOK, OpenWhileRunning, NobodyMeetsTheUninitialised
  <2>4. ReadBeforeListening' /\ CreatedIsValid' /\ HeardCloses'
    BY <2>1 DEF IInv, ReadBeforeListening, CreatedIsValid, HeardCloses
  <2> QED
    BY <2>2, <2>3, <2>4 DEF IInv
<1>4. CASE ConfigChanges
  BY <1>4 DEF ConfigChanges, IInv, TypeOK, ReadBeforeListening, CreatedIsValid, HeardCloses,
              OpenWhileRunning, NobodyMeetsTheUninitialised
<1>5. ASSUME NEW s \in Signals, Signal(s)
      PROVE  IInv'
  <2>1. CASE Handles(s)
    BY <1>5, <2>1 DEF Signal, IInv, TypeOK, ReadBeforeListening, CreatedIsValid, HeardCloses,
                      OpenWhileRunning, NobodyMeetsTheUninitialised
  <2>2. CASE ~ Handles(s)
    <3>1. /\ Exits("killed") /\ exit = "running"
          /\ UNCHANGED <<env, yaml, phase, settings, close, heard>>
          /\ close' \in {"none", "hooks", "draining"}
      BY <1>5, <2>2 DEF Signal, Running, IInv, TypeOK
    <3> QED
      BY <3>1, ExitKeeps
  <2> QED
    BY <2>1, <2>2
<1>6. CASE HooksRun /\ Open # {}
  BY <1>6 DEF HooksRun, IInv, TypeOK, ReadBeforeListening, CreatedIsValid, HeardCloses,
              OpenWhileRunning, NobodyMeetsTheUninitialised
<1>7. CASE (HooksRun \/ Drained) /\ Open = {}
  <2>1. /\ Exits("0") /\ exit = "running" /\ UNCHANGED <<env, yaml, phase, settings, close, heard>>
        /\ close' \in {"none", "hooks", "draining"}
    BY <1>7 DEF HooksRun, Drained, Running, IInv, TypeOK
  <2> QED
    BY <1>7, <2>1, ExitKeeps
<1>8. CASE UNCHANGED vars
  BY <1>8 DEF vars, IInv, TypeOK, ReadBeforeListening, CreatedIsValid, HeardCloses,
              OpenWhileRunning, NobodyMeetsTheUninitialised
<1>9. Drained => Open = {}
  BY DEF Drained
<1> QED
  BY <1>1, <1>2, <1>3, <1>4, <1>5, <1>6, <1>7, <1>8, <1>9 DEF Next

\* The inductive invariant holds throughout.
LEMMA Always == Spec => []IInv
BY Initially, Inductive, PTL DEF Spec

-----------------------------------------------------------------------------
(* The theorems                                                             *)

\* Whatever is read when the process starts has the type its parser promises.
THEOREM TypeCorrect == Spec => []TypeOK
<1>1. IInv => TypeOK
  BY DEF IInv
<1> QED
  BY <1>1, Always, PTL

\* Of a validated environment exactly the known gaps can make a getter throw
\* (environment.ts:4).
THEOREM OnlyGaps == Spec => []OnlyGapsSlipThrough
<1>1. IInv => OnlyGapsSlipThrough
  <2>1. SUFFICES ASSUME IInv, phase # "creating" PROVE OnlyGapsSlipThrough
    BY DEF OnlyGapsSlipThrough
  <2> QED
    BY <2>1, Gaps DEF IInv, CreatedIsValid
<1> QED
  BY <1>1, Always, PTL

\* No interleaving of start, YAML and signals lets a request in too early
\* (main.ts:129).
THEOREM NobodyTooEarly == Spec => []NobodyMeetsTheUninitialised
<1>1. IInv => NobodyMeetsTheUninitialised
  BY DEF IInv
<1> QED
  BY <1>1, Always, PTL

\* An exit with code 0 has answered every request (main.ts:43).
THEOREM CleanExits == Spec => []CleanExitsCutNothing
<1>1. IInv => CleanExitsCutNothing
  BY DEF IInv, OpenWhileRunning, CleanExitsCutNothing
<1> QED
  BY <1>1, Always, PTL

\* After creation a signal kills the process only while it closes (main.ts:56).
THEOREM SignalsAreHandled == Spec => NoAbruptEnd
<1>1. IInv /\ [Next]_vars => [exit' = "killed" => phase = "creating" \/ close # "none"]_vars
  <2>1. SUFFICES ASSUME IInv, Next, exit' = "killed"
                 PROVE  phase = "creating" \/ close # "none"
    OBVIOUS
  <2>2. ASSUME NEW s \in Signals, Signal(s) PROVE phase = "creating" \/ close # "none"
    BY <2>1, <2>2 DEF Signal, Handles, Running, IInv, HeardCloses
  <2>3. CASE ~ \E s \in Signals : Signal(s)
    BY <2>1, <2>3 DEF Next, CreateFails, Create, InitFails, InitDone, Listen, Unwinds, Accept, Answer,
                      ConfigChanges, HooksRun, HooksFail, Drained, TimesOut, Exits, Running
  <2> QED
    BY <2>2, <2>3
<1> QED
  BY <1>1, Always, PTL DEF Spec, NoAbruptEnd

-----------------------------------------------------------------------------
(* Why closing ends                                                         *)

\* Nothing disarms the timer of a shutdown and nothing happens after the end, so
\* TimesOut may be taken until the process is over; and from the moment the server
\* closes, the requests it waits for only get fewer.
ClosingOnlyAdvances ==
    [][/\ exit = "running"
       /\ close # "none" => close' # "none"
       /\ close = "draining" => close' = "draining" /\ Open' \subseteq Open]_vars

\* The safety half of ClosingEnds: no second signal, request or change of the YAML
\* takes a shutdown back (shutdown in main.ts).
THEOREM ClosingAdvances == Spec => ClosingOnlyAdvances
<1>1. IInv /\ [Next]_vars =>
        [/\ exit = "running"
         /\ close # "none" => close' # "none"
         /\ close = "draining" => close' = "draining" /\ Open' \subseteq Open]_vars
  <2> SUFFICES ASSUME IInv, Next
               PROVE  /\ exit = "running"
                      /\ close # "none" => close' # "none"
                      /\ close = "draining" => close' = "draining" /\ Open' \subseteq Open
    OBVIOUS
  <2>1. exit = "running"
    BY DEF Next, CreateFails, Create, InitFails, InitDone, Listen, Unwinds, Accept, Answer,
           ConfigChanges, Signal, HooksRun, HooksFail, Drained, TimesOut, Running
  <2>2. ASSUME NEW code, Exits(code) PROVE Open' = {}
    BY <2>2 DEF Exits, Open
  <2>3. CASE \E r \in Requests : Accept(r) \/ Answer(r)
    <3>1. PICK r \in Requests : Accept(r) \/ Answer(r)
      BY <2>3
    <3>2. close' = close /\ (close = "draining" => requests' = [requests EXCEPT ![r] = "served"])
      BY <3>1 DEF Accept, Answer
    <3>3. requests' = [requests EXCEPT ![r] = "served"] => Open' \subseteq Open
      BY DEF Open, IInv, TypeOK
    <3> QED
      BY <2>1, <3>2, <3>3
  <2>4. CASE \E s \in Signals : Signal(s)
    <3>1. PICK s \in Signals : Signal(s)
      BY <2>4
    <3>2. CASE Handles(s)
      <4>1. requests' = requests /\ close' = IF close = "none" THEN "hooks" ELSE close
        BY <3>1, <3>2 DEF Signal
      <4> QED
        BY <2>1, <4>1 DEF Open
    <3>3. CASE ~ Handles(s)
      BY <2>1, <2>2, <3>1, <3>3 DEF Signal
    <3> QED
      BY <3>2, <3>3
  <2>5. CASE HooksRun \/ HooksFail \/ Drained \/ TimesOut \/ CreateFails \/ Unwinds
    BY <2>1, <2>2, <2>5 DEF HooksRun, HooksFail, Drained, TimesOut, CreateFails, Unwinds
  <2>6. CASE Create \/ InitFails \/ InitDone \/ Listen \/ ConfigChanges
    <3>1. close' = close /\ requests' = requests
      BY <2>6 DEF Create, InitFails, InitDone, Listen, ConfigChanges
    <3> QED
      BY <2>1, <3>1 DEF Open
  <2> QED
    BY <2>3, <2>4, <2>5, <2>6 DEF Next
<1> QED
  BY <1>1, Always, PTL DEF Spec, ClosingOnlyAdvances
================================================================================
