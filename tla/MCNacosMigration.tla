--------------------------- MODULE MCNacosMigration ---------------------------
(***************************************************************************)
(* Small instances of NacosMigration for TLC.                              *)
(***************************************************************************)
EXTENDS NacosMigration, FiniteSetsExt, TLC

CONSTANTS m1, m2

MCLength(p) == FoldSet(LAMBDA i, n : n + 1 + Len(p[i]), 0, DOMAIN p)

Block(id, prefix, form) == [id |-> id, prefix |-> prefix, form |-> form]
Four(id, prefix) == Block(id, prefix, "four")
Eight(id, prefix) == Block(id, prefix, "eight")

Skyline == <<"api", "skyline">>

Text(routes, nacos, cors) == [routes |-> routes, nacos |-> nacos, cors |-> cors]
Wildcard == [origins |-> {"*"}, credentials |-> FALSE]

\* A YAML of the script's own form, an old one, one without the nacos section.
MixedContents ==
    { Text(<<Four("finance", Finance), Four("auth", <<"api", "auth">>)>>, TRUE, Wildcard),
      Text(<<Eight("finance", OldFinance), Block("skyline", Skyline, "legacy")>>, TRUE, Unset),
      Text(<<Four("finance", OldFinance)>>, FALSE, Unset) }

MixedPool ==
    { Four("crm", <<"api", "crm">>), Four("sales", <<"api", "sales">>),
      Block("auth", <<"api", "auth">>, "flow"), Four("task", <<"api", "task">>) }

\* README.md:118-142.
ReadmeContents ==
    { Text(<<Eight("auth", <<"api", "auth">>), Eight("finance", Finance),
             Eight("crm", <<"api", "crm">>), Eight("skyline", Skyline)>>, TRUE,
           [origins |-> {Manager, "https://admin.example.com"}, credentials |-> TRUE]) }
ReadmePool == { Eight("srm", <<"api", "srm">>), Eight("feign-srm", <<"feign", "srm">>) }

MCPaths ==
    {e.prefix : e \in MixedPool \cup ReadmePool \cup {RequiredRoutes[n] : n \in DOMAIN RequiredRoutes}}
        \cup {Finance, OldFinance}
MCIds == STRING
MCOrigins == {"*", Manager, "https://admin.example.com"}
Symmetric == Permutations(Runs)
================================================================================
