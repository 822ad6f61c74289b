---------------------------- MODULE MCGatewayProcess ----------------------------
(***************************************************************************)
(* Small instances of GatewayProcess: environments and YAMLs that differ   *)
(* from the empty one in a setting or two.                                 *)
(***************************************************************************)
EXTENDS GatewayProcess

CONSTANTS Site, Url, R1, R2

MCRouteIds == FallbackIds \cup {"chat"}
MCRequests == {R1, R2}

Keys == {"port", "timeout", "max", "window", "trust", "origins", "credentials"}

MCNoYaml == [k \in Keys \cup {"routes"} |-> Unset]

MCConfigurations ==
    { MCNoYaml,
      [MCNoYaml EXCEPT !["routes"] = {"auth", "chat"}, !["origins"] = {Site},
                       !["credentials"] = TRUE, !["max"] = 0, !["window"] = Junk],
      [MCNoYaml EXCEPT !["trust"] = TRUE, !["port"] = 6000, !["credentials"] = TRUE],
      [MCNoYaml EXCEPT !["window"] = Blank, !["timeout"] = Junk, !["routes"] = Junk] }

Plain ==
    [k \in Keys \cup {"registerPort", "weight", "url"} |->
        IF k = "url" THEN [id \in MCRouteIds |-> Unset] ELSE Unset]

MCEnvironments ==
    {Plain}
    \cup {[Plain EXCEPT !["port"] = v] : v \in {Blank, Junk, 8080, MaxPort + 1}}
    \cup {[Plain EXCEPT !["registerPort"] = v, !["weight"] = w] : v \in {Blank, Junk}, w \in {Unset, 10}}
    \cup {[Plain EXCEPT ![k] = v] : k \in {"timeout", "max", "window"}, v \in {0, 1, Junk}}
    \cup {[Plain EXCEPT !["trust"] = v] : v \in {TRUE, Junk}}
    \cup {[Plain EXCEPT !["origins"] = v, !["credentials"] = c] :
             v \in {Unset, Blank, Junk, {Site}, {Any, Site}}, c \in {Unset, TRUE, FALSE, Junk}}
    \cup {[Plain EXCEPT !["url"][id] = v] : id \in {"auth", "chat"}, v \in {Blank, Junk, Url}}
================================================================================
