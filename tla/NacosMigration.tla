---------------------------- MODULE NacosMigration ----------------------------
(***************************************************************************)
(* The deployment step that rewrites gateway.routes in Nacos               *)
(* (deploy/migrate-nacos-routes.cjs), next to operators who edit the same  *)
(* YAML and to other deployments.  A run reads the text, edits it by       *)
(* regular expressions and publishes the whole text: nothing checks that   *)
(* it is still the text that was read.                                     *)
(*                                                                         *)
(* An entry keeps the form in which it stands in the YAML:                 *)
(*   "four"   : a block whose "- id" is indented by four spaces, the only  *)
(*              form the script writes                                     *)
(*   "eight"  : a block indented by eight, as in README.md                 *)
(*   "legacy" : the five-line block of skyline, indented by eight, that    *)
(*              the script takes out                                       *)
(*   "flow"   : { ... }, as in deploy/RUNBOOK.md; the comma after its      *)
(*              prefix hides it from every expression of the script        *)
(***************************************************************************)
EXTENDS GatewayConfig

CONSTANTS
    Runs,           \* executions of the script
    Ids,            \* ids of entries
    Origins,        \* CORS origins
    Pool,           \* entries an operator may write: [id, prefix, form]
    Contents,       \* the YAML before: [routes, nacos, cors]
    MaxEdits,       \* bound on the operator's edits
    NoContent

VARIABLES
    content,        \* the published YAML
    stage,          \* where each run is
    copy,           \* what a publishing run has read
    stale,          \* runs whose copy an operator's edit has outdated
    before,         \* what the run that published last had read, if nobody edited since
    mine,           \* entries the operator has written and not deleted, but for the
                    \* old skyline block
    overwritten,    \* an outdated copy has been published
    edits

vars == <<content, stage, copy, stale, before, mine, overwritten, edits>>

-----------------------------------------------------------------------------
(* The rewriting                                                            *)

Manager == "https://chat.lisfes.cn"
Finance == <<"api", "finance">>
OldFinance == <<"api", "windows", "finance">>

\* In the order in which the script makes sure of them.
RequiredRoutes ==
    << [id |-> "crm", prefix |-> <<"api", "crm">>],
       [id |-> "skyline", prefix |-> <<"api", "skyline">>],
       [id |-> "auth", prefix |-> <<"api", "auth">>],
       [id |-> "feign-auth", prefix |-> <<"feign", "auth">>],
       [id |-> "feign-finance", prefix |-> <<"feign", "finance">>],
       [id |-> "feign-crm", prefix |-> <<"feign", "crm">>],
       [id |-> "feign-srm", prefix |-> <<"feign", "srm">>],
       [id |-> "feign-skyline", prefix |-> <<"feign", "skyline">>],
       [id |-> "feign-task", prefix |-> <<"feign", "task">>] >>

Entry == [id : Ids, prefix : Paths, form : {"four", "eight", "legacy", "flow"}]
Cors == [origins : SUBSET Origins, credentials : BOOLEAN]
Yaml == [routes : Seq(Entry), nacos : BOOLEAN, cors : Cors \cup {Unset}]

LegacySkylines(routes) == {i \in DOMAIN routes : routes[i].form = "legacy"}

\* The old skyline block stands once at most: the gateway refuses a second
\* entry with its id, and nobody writes the old block again.
AtMostOneLegacy(routes) == \A i, j \in LegacySkylines(routes) : i = j

ASSUME MigrationAssumption ==
    /\ MaxEdits \in Nat
    /\ Contents \subseteq Yaml /\ \A c \in Contents : AtMostOneLegacy(c.routes)
    /\ Pool \subseteq Entry /\ \A e \in Pool : e.form # "legacy"
    /\ Unset \notin Cors /\ NoContent \notin Yaml
    /\ Manager \in Origins /\ Finance \in Paths
    /\ \A n \in DOMAIN RequiredRoutes :
          RequiredRoutes[n].id \in Ids /\ RequiredRoutes[n].prefix \in Paths

\* ^[ \t]*prefix:[ \t]*['"]?...['"]?[ \t]*$
Shows(routes, prefix) == \E i \in DOMAIN routes : routes[i].form # "flow" /\ routes[i].prefix = prefix

Inserted(route) == [id |-> route.id, prefix |-> route.prefix, form |-> "four"]

\* Mutant: nothing is looked for.
EnsureAlways(routes, route) == Append(routes, Inserted(route))

\* Mutant: an entry that stands elsewhere under the same id is replaced.
ReplaceById(routes, route) ==
    IF Shows(routes, route.prefix) THEN routes
    ELSE Append(SelectSeq(routes, LAMBDA e : e.id # route.id), Inserted(route))

EnsureRoute(routes, route) ==
    IF Shows(routes, route.prefix) THEN routes
    ELSE Append(routes, Inserted(route))

RenameFinance(entry) ==
    IF entry.form # "flow" /\ entry.prefix = OldFinance
    THEN [entry EXCEPT !.prefix = Finance] ELSE entry

Renamed(routes) == [i \in DOMAIN routes |-> RenameFinance(routes[i])]

DropLegacySkyline(routes) ==
    IF LegacySkylines(routes) = {} THEN routes
    ELSE Seqs!RemoveAt(routes, CHOOSE i \in LegacySkylines(routes) : TRUE)

Ensure(routes, n) == EnsureRoute(routes, RequiredRoutes[n])

\* The nine calls in a row.
EnsureAll(routes) ==
    Ensure(Ensure(Ensure(Ensure(Ensure(Ensure(Ensure(Ensure(Ensure(
        routes, 1), 2), 3), 4), 5), 6), 7), 8), 9)

MigrateRoutes(routes) == EnsureAll(DropLegacySkyline(Renamed(routes)))

\* Mutant: the wildcard stays beside the credentials.
KeepWildcard(cors) ==
    [origins |-> {Manager} \cup (IF cors = Unset THEN {} ELSE cors.origins), credentials |-> TRUE]

\* Only http(s) origins are carried over, so "*" is dropped.
MigrateManagerCors(cors) ==
    [origins |-> {Manager} \cup (IF cors = Unset THEN {} ELSE cors.origins \ {"*"}),
     credentials |-> TRUE]

Migrate(c) == [c EXCEPT !.routes = MigrateRoutes(@), !.cors = MigrateManagerCors(@)]

\* The script throws for the others: it needs the root nacos section to insert
\* before, the finance route, no client entry to Task and no root prefix.
Migratable(c) ==
    LET routes == MigrateRoutes(c.routes)
    IN  /\ c.nacos \/ \A r \in Seqs!ToSet(routes) : r \in {RenameFinance(e) : e \in Seqs!ToSet(c.routes)}
        /\ Shows(routes, Finance)
        /\ ~ \E i \in DOMAIN routes : routes[i].form # "flow" /\ Under(routes[i].prefix, <<"api", "task">>)
        /\ ~ Shows(routes, <<"api">>)

-----------------------------------------------------------------------------
(* What the gateway makes of the YAML                                       *)

Column(form) == IF form = "four" THEN 4 ELSE 8

\* A block sequence has its dashes in one column.  A flow entry stands in the
\* column of the blocks around it.
IsYaml(routes) ==
    \A i, j \in DOMAIN routes :
        routes[i].form # "flow" /\ routes[j].form # "flow"
            => Column(routes[i].form) = Column(routes[j].form)

\* getCorsOptions refuses "*" together with credentials.
HasCorsOptions(cors) == cors = Unset \/ ~ ("*" \in cors.origins /\ cors.credentials)

GatewayReads(c) == IsYaml(c.routes) /\ IsRouteList(c.routes) /\ HasCorsOptions(c.cors)

-----------------------------------------------------------------------------

Init ==
    /\ content \in Contents
    /\ stage = [m \in Runs |-> "idle"]
    /\ copy = [m \in Runs |-> NoContent]
    /\ stale = {}
    /\ before = NoContent
    /\ mine = {e \in Seqs!ToSet(content.routes) : e.form # "legacy"}
    /\ overwritten = FALSE
    /\ edits = 0

\* The text is fetched and rewritten; a second login precedes the publication.
Read(m) ==
    /\ stage[m] = "idle"
    /\ IF ~ Migratable(content) \/ Migrate(content) = content
       THEN /\ stage' = [stage EXCEPT ![m] = IF Migratable(content) THEN "current" ELSE "failed"]
            /\ copy' = copy
       ELSE /\ stage' = [stage EXCEPT ![m] = "publishing"]
            /\ copy' = [copy EXCEPT ![m] = content]
    /\ UNCHANGED <<content, stale, before, mine, overwritten, edits>>

\* The text is published; the answer may get lost on its way.
Publish(m) ==
    /\ stage[m] = "publishing"
    /\ content' = Migrate(copy[m])
    /\ before' = copy[m]
    /\ overwritten' = (overwritten \/ m \in stale)
    /\ \E told \in BOOLEAN : stage' = [stage EXCEPT ![m] = IF told THEN "migrated" ELSE "failed"]
    /\ copy' = [copy EXCEPT ![m] = NoContent]
    /\ stale' = stale \ {m}
    /\ UNCHANGED <<mine, edits>>

\* Nacos does not answer, refuses the login or the text, or a newer deployment
\* cancels this one.
Abort(m) ==
    /\ stage[m] \in {"idle", "publishing"}
    /\ stage' = [stage EXCEPT ![m] = "failed"]
    /\ copy' = [copy EXCEPT ![m] = NoContent]
    /\ stale' = stale \ {m}
    /\ UNCHANGED <<content, before, mine, overwritten, edits>>

\* The next deployment.
Rerun(m) ==
    /\ stage[m] \in {"failed", "current", "migrated"}
    /\ stage' = [stage EXCEPT ![m] = "idle"]
    /\ UNCHANGED <<content, copy, stale, before, mine, overwritten, edits>>

Edited ==
    /\ edits < MaxEdits
    /\ edits' = edits + 1
    /\ stale' = {m \in Runs : stage[m] = "publishing"}
    /\ before' = NoContent
    /\ UNCHANGED <<stage, copy, overwritten>>

AddEntry ==
    /\ \E e \in Pool \ Seqs!ToSet(content.routes) :
          /\ content' = [content EXCEPT !.routes = Append(@, e)]
          /\ mine' = mine \cup {e}
    /\ Edited

DeleteEntry ==
    /\ \E i \in DOMAIN content.routes :
          /\ content' = [content EXCEPT !.routes = Seqs!RemoveAt(@, i)]
          /\ mine' = {e \in mine : content.routes[i] \notin {e, RenameFinance(e)}}
    /\ Edited

Next == AddEntry \/ DeleteEntry \/ \E m \in Runs : Read(m) \/ Publish(m) \/ Abort(m) \/ Rerun(m)

Spec == Init /\ [][Next]_vars

-----------------------------------------------------------------------------
(* Properties                                                               *)

Published == before # NoContent

\* The script is idempotent: whatever it published, it finds nothing to do in it
\* until somebody edits the YAML, after any number of failed or repeated runs.
NothingLeftToDo == Published => Migratable(content) /\ Migrate(content) = content

\* An entry the operator wrote stays, at its new prefix if it was the old finance
\* one, whatever the runs do, as long as none of them publishes a copy that an
\* edit has outdated.
ManualEntriesSurvive ==
    ~ overwritten =>
        \A e \in mine : {e, RenameFinance(e)} \cap Seqs!ToSet(content.routes) # {}

\* Runs that overlap act like runs in a row: as long as none publishes an outdated
\* copy, a step of theirs leaves the text, or puts the rewriting of the very text
\* it replaces in its place, though what it rewrote was read before.
RunsAreAtomic ==
    [][~ overwritten' /\ edits' = edits
          => \/ content' = content
             \/ Migratable(content) /\ content' = Migrate(content)]_vars

\* Ids of the script stand for its prefixes, and no two entries for one.
Unclaimed(routes) ==
    /\ \A i \in DOMAIN routes, n \in DOMAIN RequiredRoutes :
          routes[i].id = RequiredRoutes[n].id => routes[i].prefix = RequiredRoutes[n].prefix
    /\ ~ \E i, j \in DOMAIN routes : routes[i].prefix = OldFinance /\ routes[j].prefix = Finance

\* A YAML the gateway reads, with blocks indented by four and the script's ids
\* left alone, is still one it reads after the migration: indentation, unique ids
\* and prefixes, and CORS origins against credentials.
UsableStaysUsable ==
    /\ Published /\ GatewayReads(before) /\ Unclaimed(before.routes)
    /\ \A i \in DOMAIN before.routes : before.routes[i].form = "four"
    => GatewayReads(content)

-----------------------------------------------------------------------------
(* What the documents say                                                   *)

\* deploy/RUNBOOK.md:332 "existing manual configuration is not overwritten", and
\* README.md:118-142 gives the form of that configuration: a YAML the gateway reads
\* is one it still reads after the migration.
ManualConfigStaysInForce == Published /\ GatewayReads(before) => GatewayReads(content)
===============================================================================
