-------------------------------- MODULE Release --------------------------------
(***************************************************************************)
(* From a release merged into main to the container that runs it: the      *)
(* workflow deploy.yml, one run for each release, and deploy/deploy.sh,    *)
(* which swaps the image of the only container on the host, waits for its  *)
(* health check and rolls back.  Releases come from deploy-branch.cjs      *)
(* (Publish); release n is image n.                                        *)
(*                                                                         *)
(* A newer run cancels an older one while it builds (concurrency group     *)
(* build-main) and while it deploys (group deploy-chat-home-server): the   *)
(* script gets a signal, which a trap turns into a rollback, and if it     *)
(* still runs a second one, which finds the trap reset.                    *)
(***************************************************************************)
EXTENDS Publish

VARIABLES
    run,        \* where the workflow run of each release is
    container,  \* [image, state]; image 0 means that there is none
    old,        \* old_image of each run of deploy.sh
    proven,     \* images whose health check once succeeded
    left        \* images whose deployment ended without restoring the old one

rolling == <<run, container, old, proven, left>>
vars == <<publishing, rolling>>

Releases == 1 .. MaxReleases

Ended == {"succeeded", "failed", "cancelled"}
Deploying == {"preparing", "pulling", "checking", "rollingBack", "undoing", "verifying"}
Stages == {"none", "building", "pending"} \cup Deploying \cup Ended

Absent == [image |-> 0, state |-> "none"]
Containers ==
    {Absent} \cup [image : Releases, state : {"starting", "healthy", "unhealthy", "exited"}]
Started(image) == [image |-> image, state |-> "starting"]

\* A host that ran release 0 well, or a new one.
Init ==
    /\ PublishInit
    /\ run = [k \in Releases |-> "none"]
    /\ container = Absent
    /\ old = [k \in Releases |-> 0]
    /\ proven = {}
    /\ left = {}

Goes(k, from, to) == run[k] \in from /\ run' = [run EXCEPT ![k] = to]

-----------------------------------------------------------------------------
(* The workflow                                                             *)

\* Mutant: builds are not cancelled.
TriggerBesideOthers(k) ==
    /\ k <= Len(main) /\ \A j \in 1 .. k - 1 : run[j] # "none"
    /\ Goes(k, {"none"}, "building")
    /\ UNCHANGED <<container, old, proven, left>>

\* A push to main starts a run and cancels a build in progress.
Trigger(k) ==
    /\ k <= Len(main) /\ run[k] = "none" /\ \A j \in 1 .. k - 1 : run[j] # "none"
    /\ run' = [j \in Releases |-> IF j = k THEN "building"
                                  ELSE IF run[j] = "building" THEN "cancelled" ELSE run[j]]
    /\ UNCHANGED <<container, old, proven, left>>

BuildFails(k) ==
    /\ Goes(k, {"building"}, "failed")
    /\ UNCHANGED <<container, old, proven, left>>

\* Mutant: the trap exits without a rollback.
InterruptedExits(stage) ==
    IF stage \in Deploying \cup {"pending"} THEN "cancelled" ELSE stage

\* What a cancelled deployment does: nothing is undone before deploy.sh
\* switches the image and after it has reported success.
Interrupted(stage) ==
    IF stage \in {"checking", "rollingBack", "undoing"} THEN "undoing"
    ELSE IF stage \in Deploying \cup {"pending"} THEN "cancelled" ELSE stage

\* The image is published; the job that deploys it is queued and cancels the
\* ones before it.
BuildEnds(k) ==
    /\ run[k] = "building"
    /\ run' = [j \in Releases |-> IF j = k THEN "pending" ELSE Interrupted(run[j])]
    /\ UNCHANGED <<container, old, proven, left>>

\* One job of the group at a time.
StartDeploy(k) ==
    /\ \A j \in Releases : run[j] \notin Deploying
    /\ Goes(k, {"pending"}, "preparing")
    /\ UNCHANGED <<container, old, proven, left>>

\* Host checks, files, the Nacos migration and the registry login come first.
PrepareFails(k) ==
    /\ Goes(k, {"preparing"}, "failed")
    /\ UNCHANGED <<container, old, proven, left>>

-----------------------------------------------------------------------------
(* deploy.sh                                                                *)

\* docker inspect of the running container, before the image is pulled.
Begin(k) ==
    /\ Goes(k, {"preparing"}, "pulling")
    /\ old' = [old EXCEPT ![k] = container.image]
    /\ UNCHANGED <<container, proven, left>>

\* All attempts to pull fail: the script exits, nothing was switched.
PullFails(k) ==
    /\ Goes(k, {"pulling"}, "failed")
    /\ UNCHANGED <<container, old, proven, left>>

Up(k) ==
    /\ Goes(k, {"pulling"}, "checking")
    /\ container' = Started(k)
    /\ UNCHANGED <<old, proven, left>>

\* compose up fails, with the old container, a dead new one or none left.
UpFails(k) ==
    /\ Goes(k, {"pulling"}, "rollingBack")
    /\ container' \in {container, Absent, [image |-> k, state |-> "exited"]}
    /\ UNCHANGED <<old, proven, left>>

HealthCheckSucceeds(k) ==
    /\ container = [image |-> k, state |-> "healthy"]
    /\ Goes(k, {"checking"}, "verifying")
    /\ proven' = proven \cup {k}
    /\ UNCHANGED <<container, old, left>>

\* Mutant: the health check waits for a verdict.
HealthCheckWaits(k) ==
    /\ container.state \in {"unhealthy", "exited"}
    /\ Goes(k, {"checking"}, "rollingBack")
    /\ UNCHANGED <<container, old, proven, left>>

\* The container is unhealthy or gone, or HEALTH_TIMEOUT has passed.
HealthCheckFails(k) ==
    /\ Goes(k, {"checking"}, "rollingBack")
    /\ UNCHANGED <<container, old, proven, left>>

\* A rollback ends the deployment: exit 1, or 130 after a signal.
Exits(k) == Goes(k, {"rollingBack", "undoing"}, IF run[k] = "undoing" THEN "cancelled" ELSE "failed")

\* Mutant: whatever was recorded is started again.
HasAnyOld(k) == old[k] # k

HasOld(k) == old[k] \notin {0, k}

RollBack(k) ==
    /\ Exits(k)
    /\ container' = IF HasOld(k) THEN Started(old[k]) ELSE container
    /\ left' = IF HasOld(k) THEN left ELSE left \cup {k}
    /\ UNCHANGED <<old, proven>>

RollBackFails(k) ==
    /\ HasOld(k) /\ Exits(k)
    /\ container' \in {container, Absent}
    /\ left' = left \cup {k}
    /\ UNCHANGED <<old, proven>>

\* A second signal finds the trap reset; compose may have removed the container.
Killed(k) ==
    /\ Goes(k, {"undoing"}, "cancelled")
    /\ container' \in {container, Absent}
    /\ left' = left \cup {k}
    /\ UNCHANGED <<old, proven>>

\* The ingress is synchronised and the routes are verified; nothing is undone.
Verify(k) ==
    /\ Goes(k, {"verifying"}, "succeeded") \/ Goes(k, {"verifying"}, "failed")
    /\ UNCHANGED <<container, old, proven, left>>

\* The health check of the image itself (Dockerfile) makes up its mind.
ContainerTurns ==
    /\ container.state = "starting"
    /\ \E s \in {"healthy", "unhealthy"} : container' = [container EXCEPT !.state = s]
    /\ UNCHANGED <<run, old, proven, left>>

Deploy(k) ==
    \/ Trigger(k) \/ BuildFails(k) \/ BuildEnds(k) \/ StartDeploy(k) \/ PrepareFails(k)
    \/ Begin(k) \/ PullFails(k) \/ Up(k) \/ UpFails(k)
    \/ HealthCheckSucceeds(k) \/ HealthCheckFails(k)
    \/ RollBack(k) \/ RollBackFails(k) \/ Killed(k) \/ Verify(k)

Roll == ContainerTurns \/ \E k \in Releases : Deploy(k)

Next ==
    \/ PublishNext /\ UNCHANGED rolling
    \/ Roll /\ UNCHANGED publishing

Spec == Init /\ [][Next]_vars

\* GitHub starts every run; each step has a timeout, of the script or the job.
FairSpec ==
    Spec /\ \A k \in Releases : WF_vars(Deploy(k) /\ UNCHANGED publishing)

-----------------------------------------------------------------------------
(* Properties                                                               *)

TypeOK ==
    /\ PublishTypeOK
    /\ run \in [Releases -> Stages]
    /\ container \in Containers
    /\ old \in [Releases -> {0} \cup Releases]
    /\ proven \subseteq Releases
    /\ left \subseteq Releases

\* Between deployments the host never keeps an image that has not once been
\* healthy, however the runs interrupted each other, unless the rollback of that
\* image's own deployment was killed, failed or had nothing to go back to.
\* (The ways to die are the signals and failures of deploy.sh; a host or runner
\* that vanishes during the health check, with no trap run, is none of them.)
OnlyProvenImagesStay ==
    (\A k \in Releases : run[k] \notin Deploying)
        => container.image \in {0} \cup proven \cup left

\* A slow build or a late signal never brings an older release back: the image
\* on the host is only ever replaced by a newer one or by a rollback to what ran
\* when that deployment began.
OnlyRollbacksGoBack ==
    [][container'.image \in {0} \cup container.image .. MaxReleases
         \/ \E k \in Releases : run[k] \in {"rollingBack", "undoing"} /\ container'.image = old[k]]_vars

\* Every release gets a run, and every run ends.
EveryRunEnds == \A k \in Releases : Len(main) >= k ~> run[k] \in Ended
================================================================================
