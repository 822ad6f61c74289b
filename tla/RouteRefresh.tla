----------------------------- MODULE RouteRefresh -----------------------------
(***************************************************************************)
(* Keeping the Nacos subscriptions in step with gateway.routes             *)
(* (gateway.service.ts).  Every refresh is chained behind the previous one *)
(* in refreshQueue, reads the routes when its turn comes and asks the      *)
(* shared NacosService to subscribe them; a failure is logged and          *)
(* swallowed in the chain, and thrown to whoever awaits that refresh.      *)
(* Refreshes are made at bootstrap, by the configuration listener that is  *)
(* registered once the first one is through, and by each health check.     *)
(***************************************************************************)
EXTENDS Integers, Sequences

Seqs == INSTANCE SequencesExt

CONSTANTS
    Services,       \* service names
    Tables,         \* contents of gateway.routes: [readable, services named]
    Checks,         \* health and readiness checks
    MayFail,        \* whether Nacos calls may fail
    MaxChanges,     \* bound on configuration changes
    NoReport

ASSUME RefreshAssumption ==
    /\ Tables \subseteq [readable : BOOLEAN, names : SUBSET Services]
    /\ "boot" \notin Checks /\ "change" \notin Checks
    /\ MayFail \in BOOLEAN /\ MaxChanges \in Nat

VARIABLES
    phase,          \* "boot", "listening", "failed" (start aborted), "destroyed"
    wanted,         \* what gateway.routes names now
    subscribed,     \* services Nacos pushes instances for
    queue,          \* the promise chain: refreshes not settled yet
    report,         \* what each health check answered
    missed,         \* a change since the last read of the routes went unheard
    lastOk,         \* the last settled refresh succeeded
    changes         \* configuration changes so far

vars == <<phase, wanted, subscribed, queue, report, missed, lastOk, changes>>

\* names is what the refresh read, once it has started.
Refresh(owner) == [owner |-> owner, started |-> FALSE, names |-> {}]

Init ==
    /\ phase = "boot"
    /\ wanted \in Tables
    /\ subscribed = {}
    /\ queue = <<Refresh("boot")>>
    /\ report = [h \in Checks |-> NoReport]
    /\ missed = FALSE
    /\ lastOk = FALSE
    /\ changes = 0

\* Mutant: refreshes are not chained.
AnyTurn(i) == TRUE

\* refreshQueue.then(...): only when everything before it has settled.
IsTurn(i) == i = 1

\* Mutant: refreshQueue keeps the rejected promise.
StaysInChain(i) == queue

\* Once settled, the next in the chain may run, after a failure too.
AfterSettling(i) == Seqs!RemoveAt(queue, i)

Waiting(h) == \E i \in DOMAIN queue : queue[i].owner = h

-----------------------------------------------------------------------------

\* The await of the owner resumes with the outcome, in the same turn: bootstrap
\* registers the listener, a health check builds its answer from the routes of
\* this moment.
Resume(owner, ok, subs) ==
    /\ phase' = IF owner = "boot" THEN (IF ok THEN "listening" ELSE "failed") ELSE phase
    /\ report' = IF owner \in Checks
                 THEN [report EXCEPT ![owner] =
                         IF ok /\ wanted.readable
                         THEN [status |-> "UP", routes |-> wanted.names, counted |-> subs]
                         ELSE [status |-> "ERROR", routes |-> {}, counted |-> subs]]
                 ELSE report

\* getRoutes() is evaluated now; it throws on an unreadable table.
Start(i) ==
    /\ IsTurn(i) /\ ~ queue[i].started
    /\ missed' = FALSE
    /\ IF ~ wanted.readable
       THEN /\ queue' = AfterSettling(i)
            /\ lastOk' = FALSE
            /\ Resume(queue[i].owner, FALSE, subscribed)
       ELSE /\ queue' = [queue EXCEPT ![i].started = TRUE, ![i].names = wanted.names]
            /\ UNCHANGED <<phase, report, lastOk>>
    /\ UNCHANGED <<wanted, subscribed, changes>>

\* Mutant: the promise of refreshSubscriptions is not awaited.
SucceedUnawaited(i) ==
    /\ IsTurn(i) /\ queue[i].started
    /\ \E added \in SUBSET queue[i].names :
          /\ subscribed' = subscribed \cup added
          /\ Resume(queue[i].owner, TRUE, subscribed \cup added)
    /\ lastOk' = TRUE
    /\ queue' = AfterSettling(i)
    /\ UNCHANGED <<wanted, missed, changes>>

\* Mutant: the list of names is subscribed as if it were a name.
SubscribesTheList(i) ==
    /\ IsTurn(i) /\ queue[i].started
    /\ subscribed' = subscribed \cup {queue[i].names}
    /\ Resume(queue[i].owner, TRUE, subscribed)
    /\ lastOk' = TRUE
    /\ queue' = AfterSettling(i)
    /\ UNCHANGED <<wanted, missed, changes>>

\* refreshSubscriptions resolves: all it was asked for is subscribed; whether it
\* drops services that are no longer named is up to the shared package.
Succeed(i) ==
    /\ IsTurn(i) /\ queue[i].started
    /\ \E kept \in SUBSET subscribed :
          /\ subscribed' = kept \cup queue[i].names
          /\ Resume(queue[i].owner, TRUE, kept \cup queue[i].names)
    /\ lastOk' = TRUE
    /\ queue' = AfterSettling(i)
    /\ UNCHANGED <<wanted, missed, changes>>

\* It rejects, having done any part of its work.
Fail(i) ==
    /\ MayFail /\ IsTurn(i) /\ queue[i].started
    /\ \E kept \in SUBSET subscribed, added \in SUBSET queue[i].names :
          /\ subscribed' = kept \cup added
          /\ Resume(queue[i].owner, FALSE, kept \cup added)
    /\ lastOk' = FALSE
    /\ queue' = AfterSettling(i)
    /\ UNCHANGED <<wanted, missed, changes>>

\* The YAML is published again; the listener, if there is one, queues a refresh.
ChangeConfig ==
    /\ changes < MaxChanges
    /\ changes' = changes + 1
    /\ wanted' \in Tables
    /\ IF phase = "listening"
       THEN queue' = Append(queue, Refresh("change")) /\ missed' = missed
       ELSE queue' = queue /\ missed' = TRUE
    /\ UNCHANGED <<phase, subscribed, report, lastOk>>

\* GET /health or /health/ready; the server listens once bootstrap is through.
Health(h) ==
    /\ phase = "listening" /\ report[h] = NoReport /\ ~ Waiting(h)
    /\ queue' = Append(queue, Refresh(h))
    /\ UNCHANGED <<phase, wanted, subscribed, report, missed, lastOk, changes>>

\* onModuleDestroy removes the listener; queued refreshes still run.
Destroy ==
    /\ phase = "listening"
    /\ phase' = "destroyed"
    /\ UNCHANGED <<wanted, subscribed, queue, report, missed, lastOk, changes>>

Work == \E i \in DOMAIN queue : Start(i) \/ Succeed(i) \/ Fail(i)

Next == Work \/ ChangeConfig \/ Destroy \/ \E h \in Checks : Health(h)

Spec == Init /\ [][Next]_vars

\* refreshSubscriptions settles.
FairSpec == Spec /\ WF_vars(Work)

-----------------------------------------------------------------------------
(* Properties                                                               *)

\* Every variable keeps its type.
TypeOK ==
    /\ phase \in {"boot", "listening", "failed", "destroyed"}
    /\ wanted \in Tables
    /\ subscribed \subseteq Services
    /\ queue \in Seq([owner : Checks \cup {"boot", "change"},
                      started : BOOLEAN, names : SUBSET Services])
    /\ report \in [Checks -> {NoReport} \cup [status : {"UP", "ERROR"}, routes : SUBSET Services,
                                             counted : SUBSET Services]]
    /\ missed \in BOOLEAN /\ lastOk \in BOOLEAN
    /\ changes \in 0 .. MaxChanges

\* A change that the listener heard is never lost, and no older refresh undoes a
\* newer one: while the routes name a service that is not subscribed, a refresh
\* that has yet to read them is in the chain, or one that read exactly these is at
\* work, unless the last one failed or a change went unheard.  In particular, with
\* an empty chain everything is subscribed.
HeardChangesStayQueued ==
    wanted.readable /\ ~ (wanted.names \subseteq subscribed) =>
        \/ \E i \in DOMAIN queue : queue[i].started => queue[i].names = wanted.names
        \/ ~ lastOk \/ missed

\* A health check that answers UP speaks of subscribed services: a service it
\* counts no instances for is one Nacos has been asked about, unless the routes
\* changed while its own refresh was on the way.
HealthCountsSubscribed ==
    [][\A h \in Checks :
         /\ report[h] = NoReport /\ report'[h] # NoReport /\ report'[h].status = "UP"
         /\ \E i \in DOMAIN queue : queue[i].owner = h /\ queue[i].names = wanted.names
         => report'[h].routes \subseteq report'[h].counted]_vars

\* Whatever fails before it, every health check gets its answer.
EveryCheckAnswered ==
    \A h \in Checks : Waiting(h) ~> report[h] # NoReport

-----------------------------------------------------------------------------
(* What the documents say                                                   *)

Stays(s) == phase = "listening" /\ wanted.readable /\ s \in wanted.names

\* README.md:176 "the gateway automatically subscribes newly added Nacos
\* services" and README.md:161 "routes take effect in real time".
NewServicesGetSubscribed ==
    \A s \in Services : <>[]Stays(s) => <>(s \in subscribed)

\* README.md:161, for changes the listener did hear: "routes are updated in real
\* time through the Nacos subscription".
HeardServicesGetSubscribed ==
    \A s \in Services : <>[](Stays(s) /\ ~ missed) => <>(s \in subscribed)
=============================================================================
