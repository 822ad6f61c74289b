--------------------------- MODULE MCRouteRefresh ---------------------------
(***************************************************************************)
(* A small instance of RouteRefresh for TLC.                               *)
(***************************************************************************)
EXTENDS RouteRefresh

CONSTANTS s1, s2, h1, h2

MCTables == {[readable |-> TRUE, names |-> S] : S \in SUBSET Services}
            \cup {[readable |-> FALSE, names |-> {}]}
=============================================================================
