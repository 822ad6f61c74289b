-------------------------------- MODULE Settings --------------------------------
(***************************************************************************)
(* How the gateway reads its settings (config/environment.ts and           *)
(* ServiceConfigService): each one from the Nacos YAML c, from the         *)
(* environment e or from a default, and thrown out where it is not usable. *)
(*                                                                         *)
(* A raw value is Unset, Blank (the empty string), Junk (anything a parser *)
(* rejects) or what it stands for: a number, a truth value, a set of       *)
(* origins, a URL.  Missing YAML is a YAML whose keys are all Unset.       *)
(***************************************************************************)
EXTENDS Integers

CONSTANTS
    Unset, Blank, Junk,
    Throws,         \* what a getter yields instead of a value
    Any,            \* the origin "*"
    RouteIds        \* ids of routes; <ID>_SERVICE_URL overrides the URL of one

ASSUME SettingsAssumption ==
    /\ Unset \notin {Blank, Junk} /\ Blank # Junk
    /\ \A v \in {Unset, Blank, Junk, Throws} : v \notin Int /\ v \notin BOOLEAN

MaxPort == 65535

\* value === undefined || null || '' ? fallback : value, which must be valid.
Parse(raw, fallback, valid) ==
    LET value == IF raw \in {Unset, Blank} THEN fallback ELSE raw
    IN  IF value \in valid THEN value ELSE Throws

ParsePort(raw) == Parse(raw, 5000, 1 .. MaxPort)
ParsePositiveInteger(raw, fallback) == Parse(raw, fallback, Nat \ {0})
ParseNonNegativeInteger(raw, fallback) == Parse(raw, fallback, Nat)
ParsePositiveNumber(raw, fallback) == Parse(raw, fallback, 1 .. 10000)
GetBoolean(raw, fallback) == Parse(raw, fallback, BOOLEAN)

\* A blank list is an empty one, not a missing one.
ParseCorsOrigins(raw) ==
    CASE raw = Unset -> {Any}
      [] raw = Blank -> {}
      [] raw = Junk  -> Throws
      [] OTHER       -> raw

\* first ?? second: only a missing value gives way.
Coalesce(first, second) == IF first = Unset THEN second ELSE first

-----------------------------------------------------------------------------
(* ServiceConfigService                                                     *)

\* getCorsOptions returns: any origin is not combined with credentials.
HasCorsOptions(c, e) ==
    LET origins == ParseCorsOrigins(Coalesce(c.origins, e.origins))
        credentials == GetBoolean(Coalesce(c.credentials, e.credentials), FALSE)
    IN  /\ origins # Throws /\ credentials # Throws
        /\ Any \in origins => credentials = FALSE

\* Only the port prefers the environment.
GetServerPort(c, e) == ParsePort(Coalesce(e.port, c.port))
GetProxyTimeout(c, e) == ParsePositiveInteger(Coalesce(c.timeout, e.timeout), 30000)
GetRateLimitMax(c, e) == ParseNonNegativeInteger(Coalesce(c.max, e.max), 300)
GetRateLimitWindowMs(c, e) == ParsePositiveInteger(Coalesce(c.window, e.window), 60000)
GetTrustProxy(c, e) == GetBoolean(Coalesce(c.trust, e.trust), FALSE)

FallbackIds == {"auth", "skyline", "finance"}

\* getGatewayRoutes returns: the YAML list is usable, or missing, and no route
\* has an override that is blank or not a service root (environment.ts:245).
ReadsRoutes(c, e) ==
    LET ids == IF c.routes = Unset THEN FallbackIds ELSE c.routes
    IN  c.routes # Junk /\ \A id \in ids : e.url[id] \notin {Blank, Junk}

-----------------------------------------------------------------------------
(* Validation at start                                                      *)

ValidNumbers(e) ==
    Throws \notin { ParsePort(e.port), ParsePort(Coalesce(e.registerPort, e.port)),
                    ParsePositiveNumber(e.weight, 1), ParsePositiveInteger(e.timeout, 30000),
                    ParseNonNegativeInteger(e.max, 300), ParsePositiveInteger(e.window, 60000) }

ValidCors(e) == ParseCorsOrigins(e.origins) # Throws /\ GetBoolean(e.credentials, FALSE) # Throws

\* Mutant: overrides are not validated.
ValidatesNoUrls(e) == ValidNumbers(e) /\ ValidCors(e)

\* validateEnvironment.  A blank URL is taken for a missing one here.
ValidateEnvironment(e) ==
    ValidNumbers(e) /\ ValidCors(e) /\ \A id \in FallbackIds : e.url[id] # Junk
================================================================================
