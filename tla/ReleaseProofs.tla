----------------------------- MODULE ReleaseProofs -----------------------------
(***************************************************************************)
(* Releases for any number of branches and releases.                       *)
(*                                                                         *)
(* Publishing: a version in a clone is never below the commit it starts    *)
(* from and at most one above main, and an open pull request belongs to a  *)
(* branch that is ahead (ClonesFollow).                                    *)
(*                                                                         *)
(* Rolling out: one run deploys at a time (OneDeploys), what was triggered *)
(* before a queued run is over or being undone (LaterOnly), no run that    *)
(* has yet to switch the image finds a newer one on the host (NewestLast), *)
(* and an image that is on trial can still be taken back (TrialsAreKnown). *)
(***************************************************************************)
EXTENDS Release, SequenceTheorems, TLAPS

-----------------------------------------------------------------------------
(* Publishing                                                               *)

CloneFollows(b) ==
    /\ local[b].base <= local[b].version /\ local[b].base <= Ours
    /\ local[b].version <= Ours + 1
    /\ seen[b] <= Len(main)
    /\ step[b] \in {"pushed", "opened"} => origin[b] = local[b] /\ local[b].ahead
    /\ step[b] = "opened" => title[b] # NoTitle
    /\ step[b] \in {"accepted", "merged"} => ~ local[b].ahead
    /\ title[b] # NoTitle => local[b].ahead /\ title[b] <= local[b].version

ClonesFollow == \A b \in Branches : CloneFollows(b)

\* No release had a later version than main has now.
MainIsLatest == \A n \in 0 .. Len(main) : VersionAt(n) <= Ours

PInv == PublishTypeOK /\ ClonesFollow /\ MainIsLatest /\ VersionsClimbInOrder

\* The version of a release is a number.
LEMMA VersionType ==
    ASSUME PublishTypeOK, NEW n \in 0 .. Len(main)
    PROVE  VersionAt(n) \in Nat
<1>1. main \in Seq([version : Nat, title : Nat])
  BY DEF PublishTypeOK
<1>2. CASE n = 0
  BY <1>2 DEF VersionAt
<1>3. CASE n # 0
  <2>1. n \in 1 .. Len(main)
    BY <1>3
  <2>2. main[n] \in [version : Nat, title : Nat]
    BY <1>1, <2>1, ElementOfSeq
  <2> QED
    BY <1>3, <2>2 DEF VersionAt
<1> QED
  BY <1>2, <1>3

\* Merging adds one release and leaves the others as they were.
LEMMA MergeAppends ==
    ASSUME PublishTypeOK, NEW r \in [version : Nat, title : Nat], main' = Append(main, r)
    PROVE  /\ main' \in Seq([version : Nat, title : Nat])
           /\ Len(main') = Len(main) + 1 /\ main'[Len(main')] = r
           /\ \A n \in 1 .. Len(main) : main'[n] = main[n]
           /\ \A n \in 0 .. Len(main) : VersionAt(n)' = VersionAt(n)
           /\ Ours' = r.version
<1>1. main \in Seq([version : Nat, title : Nat]) /\ Len(main) \in Nat
  BY LenProperties DEF PublishTypeOK
<1>2. /\ main' \in Seq([version : Nat, title : Nat])
      /\ Len(main') = Len(main) + 1 /\ main'[Len(main')] = r
      /\ \A n \in 1 .. Len(main) : main'[n] = main[n]
  BY <1>1, AppendProperties
<1>3. \A n \in 0 .. Len(main) : VersionAt(n)' = VersionAt(n)
  BY <1>1, <1>2 DEF VersionAt
<1>4. Ours' = r.version
  BY <1>1, <1>2 DEF Ours, VersionAt
<1> QED
  BY <1>2, <1>3, <1>4

\* Everything but a merge leaves main alone.
LEMMA MainStays ==
    ASSUME main' = main, VersionsClimbInOrder, MainIsLatest
    PROVE  /\ VersionsClimbInOrder' /\ MainIsLatest' /\ Ours' = Ours
           /\ \A n : VersionAt(n)' = VersionAt(n)
BY DEF VersionsClimbInOrder, MainIsLatest, Ours, VersionAt

\* What is known of one clone.
LEMMA CloneFacts ==
    ASSUME PInv, NEW b \in Branches
    PROVE  /\ local[b] \in Branch /\ origin[b] \in Branch
           /\ local[b].version \in Nat /\ local[b].base \in Nat /\ local[b].ahead \in BOOLEAN
           /\ seen[b] \in Nat /\ Len(main) \in Nat /\ seen[b] \in 0 .. Len(main)
           /\ Ours \in Nat /\ VersionAt(seen[b]) \in Nat /\ VersionAt(seen[b]) <= Ours
           /\ title[b] \in Nat \cup {NoTitle} /\ CloneFollows(b)
<1>1. /\ local[b] \in Branch /\ origin[b] \in Branch /\ seen[b] \in 0 .. MaxReleases
      /\ title[b] \in Nat \cup {NoTitle} /\ CloneFollows(b) /\ Len(main) \in Nat
      /\ PublishTypeOK /\ MaxReleases \in Nat
  BY LenProperties, PublishAssumption DEF PInv, PublishTypeOK, ClonesFollow
<1>2. local[b].version \in Nat /\ local[b].base \in Nat /\ local[b].ahead \in BOOLEAN
  BY <1>1 DEF Branch
<1>3. seen[b] \in 0 .. Len(main) /\ Len(main) \in 0 .. Len(main)
  BY <1>1 DEF CloneFollows
<1>4. Ours \in Nat /\ VersionAt(seen[b]) \in Nat
  BY <1>1, <1>3, VersionType DEF Ours
<1>5. VersionAt(seen[b]) <= Ours
  BY <1>3 DEF PInv, MainIsLatest
<1> QED
  BY <1>1, <1>2, <1>3, <1>4, <1>5

\* A step that leaves main alone keeps the invariant if it keeps the types and
\* what is known of the one clone it moves.
LEMMA CloneStep ==
    ASSUME PInv, NEW b \in Branches, main' = main, PublishTypeOK', CloneFollows(b)',
           \A c \in Branches \ {b} : /\ local'[c] = local[c] /\ origin'[c] = origin[c]
                                     /\ seen'[c] = seen[c] /\ title'[c] = title[c]
                                     /\ step'[c] = step[c]
    PROVE  PInv'
<1>1. VersionsClimbInOrder' /\ MainIsLatest' /\ Ours' = Ours
  BY MainStays DEF PInv
<1>2. ASSUME NEW c \in Branches \ {b} PROVE CloneFollows(c)'
  <2>1. CloneFollows(c)
    BY <1>2 DEF PInv, ClonesFollow
  <2> QED
    BY <1>1, <1>2, <2>1 DEF CloneFollows
<1>3. ClonesFollow'
  BY <1>2 DEF ClonesFollow
<1> QED
  BY <1>1, <1>3 DEF PInv

\* A merge adds a version that is main's or the next one, with a title no later.
LEMMA MergePreserves ==
    ASSUME PInv, NEW b \in Branches, Merge(b)
    PROVE  PInv'
<1> USE CloneFacts
<1>1. /\ Len(main) < MaxReleases /\ step[b] = "opened" /\ MergesCleanly(b)
      /\ step' = [step EXCEPT ![b] = "accepted"]
      /\ main' = Append(main, [version |-> MergedVersion(b), title |-> title[b]])
      /\ local' = [local EXCEPT ![b] = Synced(local[b].version)]
      /\ origin' = [origin EXCEPT ![b] = Synced(origin[b].version)]
      /\ seen' = seen
      /\ title' = [title EXCEPT ![b] = NoTitle]
  BY DEF Merge, Move
<1>2. /\ origin[b] = local[b] /\ title[b] \in Nat /\ title[b] <= local[b].version
  BY <1>1 DEF CloneFollows
<1>3. /\ MergedVersion(b) \in Nat
      /\ MergedVersion(b) - Ours \in {0, 1}
      /\ title[b] <= MergedVersion(b)
      /\ local[b].version <= MergedVersion(b)
  BY <1>1, <1>2 DEF MergesCleanly, MergedVersion, CloneFollows
<1> DEFINE r == [version |-> MergedVersion(b), title |-> title[b]]
<1>4. /\ r \in [version : Nat, title : Nat]
      /\ r.version = MergedVersion(b) /\ r.title = title[b]
  BY <1>2, <1>3
<1> HIDE DEF r
<1>5. /\ main' \in Seq([version : Nat, title : Nat])
      /\ Len(main') = Len(main) + 1 /\ main'[Len(main')] = r
      /\ \A n \in 1 .. Len(main) : main'[n] = main[n]
      /\ \A n \in 0 .. Len(main) : VersionAt(n)' = VersionAt(n)
      /\ Ours' = r.version
  <2>1. main' = Append(main, r)
    BY <1>1 DEF r
  <2> QED
    BY <2>1, <1>4, MergeAppends DEF PInv
<1>6. PublishTypeOK'
  <2>1. Synced(local[b].version) \in Branch /\ Synced(origin[b].version) \in Branch
    BY <1>2 DEF Synced, Branch
  <2>2. Len(main') \in 0 .. MaxReleases /\ MaxReleases \in Nat
    BY <1>1, <1>5, PublishAssumption
  <2>3. "accepted" \in Steps
    BY DEF Steps
  <2> QED
    BY <1>1, <1>5, <2>1, <2>2, <2>3 DEF PInv, PublishTypeOK
<1>7. VersionsClimbInOrder'
  <2>1. ASSUME NEW n \in 1 .. Len(main')
        PROVE  main'[n].version - VersionAt(n - 1)' \in {0, 1} /\ main'[n].title <= main'[n].version
    <3>1. n - 1 \in 0 .. Len(main) /\ VersionAt(n - 1)' = VersionAt(n - 1)
      BY <1>5
    <3>2. CASE n = Len(main')
      BY <1>3, <1>4, <1>5, <3>1, <3>2 DEF Ours
    <3>3. CASE n # Len(main')
      <4>1. n \in 1 .. Len(main)
        BY <1>5, <3>3
      <4> QED
        BY <1>5, <3>1, <4>1 DEF PInv, VersionsClimbInOrder
    <3> QED
      BY <3>2, <3>3
  <2> QED
    BY <2>1 DEF VersionsClimbInOrder, VersionAt
<1>8. MainIsLatest'
  <2>1. ASSUME NEW n \in 0 .. Len(main') PROVE VersionAt(n)' <= Ours'
    <3>1. CASE n = Len(main')
      BY <1>3, <1>4, <1>5, <3>1 DEF Ours
    <3>2. CASE n # Len(main')
      <4>1. n \in 0 .. Len(main)
        BY <1>5, <3>2
      <4>2. VersionAt(n) \in Nat /\ VersionAt(n) <= Ours
        BY <4>1, VersionType DEF PInv, MainIsLatest
      <4> QED
        BY <1>3, <1>4, <1>5, <4>1, <4>2
    <3> QED
      BY <3>1, <3>2
  <2> QED
    BY <2>1 DEF MainIsLatest, VersionAt, Ours
<1>9. ASSUME NEW c \in Branches PROVE CloneFollows(c)'
  <2>1. CASE c = b
    <3>1. /\ local'[b] = Synced(local[b].version) /\ title'[b] = NoTitle
          /\ seen'[b] = seen[b] /\ step'[b] = "accepted"
      BY <1>1 DEF PInv, PublishTypeOK
    <3>2. seen[b] <= Len(main) /\ Len(main) \in Nat /\ seen[b] \in Nat
      BY DEF CloneFollows
    <3>3. /\ local'[b].version = local[b].version /\ local'[b].base = local[b].version
          /\ ~ local'[b].ahead
      BY <3>1 DEF Synced
    <3>4. local[b].version \in Nat /\ local[b].version <= Ours' /\ Ours' \in Nat
      BY <1>3, <1>4, <1>5, CloneFacts
    <3>5. seen'[b] <= Len(main')
      BY <3>1, <3>2, <1>5
    <3>6. local'[b].base <= local'[b].version /\ local'[b].base <= Ours'
          /\ local'[b].version <= Ours' + 1
      BY <3>3, <3>4
    <3> QED
      BY <2>1, <3>1, <3>3, <3>5, <3>6 DEF CloneFollows
  <2>2. CASE c # b
    <3>1. /\ local'[c] = local[c] /\ origin'[c] = origin[c] /\ seen'[c] = seen[c]
          /\ title'[c] = title[c] /\ step'[c] = step[c]
      BY <1>1, <2>2 DEF PInv, PublishTypeOK
    <3>2. /\ CloneFollows(c) /\ seen[c] \in Nat /\ Len(main) \in Nat /\ Ours \in Nat
          /\ local[c].version \in Nat /\ local[c].base \in Nat
      BY CloneFacts
    <3>3. Ours <= Ours' /\ Ours' \in Nat /\ Len(main') = Len(main) + 1
      BY <3>2, <1>3, <1>4, <1>5
    <3>4. /\ local[c].base <= Ours' /\ local[c].version <= Ours' + 1
          /\ seen[c] <= Len(main')
      BY <3>2, <3>3 DEF CloneFollows
    <3>5. CloneFollows(c)' <=> 
            /\ local[c].base <= local[c].version /\ local[c].base <= Ours'
            /\ local[c].version <= Ours' + 1
            /\ seen[c] <= Len(main')
            /\ step[c] \in {"pushed", "opened"} => origin[c] = local[c] /\ local[c].ahead
            /\ step[c] = "opened" => title[c] # NoTitle
            /\ step[c] \in {"accepted", "merged"} => ~ local[c].ahead
            /\ title[c] # NoTitle => local[c].ahead /\ title[c] <= local[c].version
      BY <3>1 DEF CloneFollows
    <3> QED
      BY <3>2, <3>4, <3>5 DEF CloneFollows
  <2> QED
    BY <2>1, <2>2
<1> QED
  BY <1>6, <1>7, <1>8, <1>9 DEF PInv, ClonesFollow

\* Every step of the script preserves the invariant.
LEMMA PublishPreserves ==
    ASSUME PInv, PublishNext
    PROVE  PInv'
<1> USE CloneFacts
<1>t. /\ local \in [Branches -> Branch] /\ origin \in [Branches -> Branch]
      /\ seen \in [Branches -> 0 .. MaxReleases] /\ title \in [Branches -> Nat \cup {NoTitle}]
      /\ step \in [Branches -> Steps] /\ Len(main) \in 0 .. MaxReleases
      /\ MaxReleases \in Nat
  BY LenProperties, PublishAssumption DEF PInv, PublishTypeOK
<1>1. PICK b \in Branches :
        \/ Commit(b) \/ Fetch(b) \/ PrepareVersion(b) \/ Push(b) \/ FindOrCreatePullRequest(b)
        \/ Merge(b) \/ FetchMerged(b) \/ FastForward(b) \/ Fail(b) \/ PushFails(b)
  BY DEF PublishNext
<1> DEFINE Alone ==
      \A c \in Branches \ {b} : /\ local'[c] = local[c] /\ origin'[c] = origin[c]
                                /\ seen'[c] = seen[c] /\ title'[c] = title[c]
                                /\ step'[c] = step[c]
<1>2. ASSUME main' = main, PublishTypeOK', CloneFollows(b)', Alone PROVE PInv'
  BY <1>2, CloneStep
<1>3. ASSUME main' = main PROVE Ours' = Ours
  BY <1>3 DEF Ours, VersionAt
<1>4. CASE Commit(b)
  <2>1. PublishTypeOK' /\ Alone /\ main' = main
    BY <1>4, <1>t DEF Commit, PInv, PublishTypeOK, Branch
  <2>2. CloneFollows(b)'
    BY <1>4, <1>t, <1>3 DEF Commit, CloneFollows, Branch
  <2> QED
    BY <1>2, <2>1, <2>2
<1>5. CASE Fetch(b)
  <2>1. PublishTypeOK' /\ Alone /\ main' = main
    BY <1>5, <1>t DEF Fetch, Move, PInv, PublishTypeOK, Steps
  <2>2. CloneFollows(b)'
    BY <1>5, <1>t, <1>3 DEF Fetch, Move, CloneFollows
  <2> QED
    BY <1>2, <2>1, <2>2
<1>6. CASE PrepareVersion(b)
  <2>1. CASE Move(b, {"fetched"}, "bumped") /\ local' = Bumped(b) /\ VersionAt(seen[b]) = local[b].version
    <3>1. PublishTypeOK' /\ Alone /\ main' = main
      <4>1. local' \in [Branches -> Branch] /\ \A c \in Branches \ {b} : local'[c] = local[c]
        BY <1>t, <2>1 DEF Bumped, Branch
      <4>2. step' \in [Branches -> Steps] /\ \A c \in Branches \ {b} : step'[c] = step[c]
        BY <1>t, <2>1 DEF Move, Steps
      <4>3. UNCHANGED <<main, origin, seen, title>>
        BY <1>6 DEF PrepareVersion
      <4> QED
        BY <4>1, <4>2, <4>3 DEF PInv, PublishTypeOK
    <3>2. CloneFollows(b)'
      BY <1>6, <1>t, <1>3, <2>1 DEF PrepareVersion, Move, Bumped, CloneFollows, Branch
    <3> QED
      BY <1>2, <3>1, <3>2
  <2>2. CASE (Move(b, {"fetched"}, "kept") \/ Move(b, {"fetched"}, "unread")) /\ local' = local
    <3>1. PublishTypeOK' /\ Alone /\ main' = main
      BY <1>6, <1>t, <2>2 DEF PrepareVersion, Move, PInv, PublishTypeOK, Steps
    <3>2. CloneFollows(b)'
      BY <1>6, <1>t, <1>3, <2>2 DEF PrepareVersion, Move, CloneFollows
    <3> QED
      BY <1>2, <3>1, <3>2
  <2> QED
    BY <1>6, <2>1, <2>2 DEF PrepareVersion
<1>7. CASE Push(b)
  <2>1. PublishTypeOK' /\ Alone /\ main' = main
    BY <1>7, <1>t DEF Push, Move, PInv, PublishTypeOK, Steps
  <2>2. CloneFollows(b)'
    BY <1>7, <1>t, <1>3 DEF Push, Move, CloneFollows
  <2> QED
    BY <1>2, <2>1, <2>2
<1>8. CASE FindOrCreatePullRequest(b)
  <2>1. PublishTypeOK' /\ Alone /\ main' = main
    BY <1>8, <1>t DEF FindOrCreatePullRequest, Move, PInv, PublishTypeOK, Steps
  <2>2. CloneFollows(b)'
    BY <1>8, <1>t, <1>3, PublishAssumption DEF FindOrCreatePullRequest, Move, CloneFollows
  <2> QED
    BY <1>2, <2>1, <2>2
<1>9. CASE Merge(b)
  BY <1>9, MergePreserves
<1>10. CASE FastForward(b) \/ PushFails(b)
  <2>1. /\ step[b] = "merged" /\ step' = [step EXCEPT ![b] = "idle"]
        /\ local' = [local EXCEPT ![b] = Synced(VersionAt(seen[b]))]
        /\ origin' = [origin EXCEPT ![b] = Synced(VersionAt(seen[b]))] \/ origin' = origin
        /\ UNCHANGED <<main, seen, title>>
    BY <1>10 DEF FastForward, PushFails, Move
  <2>2. Synced(VersionAt(seen[b])) \in Branch
    BY DEF Synced, Branch
  <2>3. PublishTypeOK' /\ Alone
    BY <1>t, <2>1, <2>2 DEF PInv, PublishTypeOK, Steps
  <2>4. CloneFollows(b)'
    BY <1>t, <1>3, <2>1 DEF CloneFollows, Synced
  <2> QED
    BY <1>2, <2>1, <2>3, <2>4
<1>11. CASE Fail(b)
  <2>1. PublishTypeOK' /\ Alone /\ main' = main
    BY <1>11, <1>t DEF Fail, Move, PInv, PublishTypeOK, Steps
  <2>2. CloneFollows(b)'
    BY <1>11, <1>t, <1>3 DEF Fail, Move, CloneFollows
  <2> QED
    BY <1>2, <2>1, <2>2
<1>12. CASE FetchMerged(b)
  <2>1. PublishTypeOK' /\ Alone /\ main' = main
    BY <1>12, <1>t DEF FetchMerged, Move, PInv, PublishTypeOK, Steps
  <2>2. CloneFollows(b)'
    BY <1>12, <1>t, <1>3 DEF FetchMerged, Move, CloneFollows
  <2> QED
    BY <1>2, <2>1, <2>2
<1> QED
  BY <1>1, <1>4, <1>5, <1>6, <1>7, <1>8, <1>9, <1>10, <1>11, <1>12

-----------------------------------------------------------------------------
(* Rolling out                                                              *)

RollTypes ==
    /\ run \in [Releases -> Stages]
    /\ container \in Containers
    /\ old \in [Releases -> {0} \cup Releases]
    /\ proven \subseteq Releases
    /\ left \subseteq Releases

OneDeploys ==
    \A j, k \in Releases : run[j] \in Deploying /\ run[k] \in Deploying => j = k

\* Of two runs the older one was cancelled when the newer was queued.
LaterOnly ==
    \A j, k \in Releases : j < k =>
        /\ run[k] # "none" => run[j] \notin {"none", "building"}
        /\ run[k] \in {"pending"} \cup Deploying => run[j] \in Ended \cup {"undoing"}

\* The image of a run that has yet to switch is newer than any that was used.
NewestLast ==
    \A k \in Releases : run[k] \in {"none", "building", "pending", "preparing", "pulling"} =>
        container.image < k /\ \A j \in Releases : old[j] < k

Known == {0} \cup proven \cup left

\* What a deployment can still fall back to.
TrialsAreKnown ==
    \A k \in Releases :
        /\ run[k] \in {"preparing", "pulling", "verifying"} => container.image \in Known
        /\ run[k] = "pulling" => old[k] = container.image
        /\ run[k] \in {"checking", "rollingBack", "undoing"} => old[k] \in Known
        /\ run[k] \in {"checking", "rollingBack", "undoing"} => container.image \in {0, k, old[k]}

RInv == RollTypes /\ OneDeploys /\ LaterOnly /\ NewestLast /\ TrialsAreKnown /\ OnlyProvenImagesStay

\* A run moves alone.
LEMMA MovesAlone ==
    ASSUME RInv, NEW k \in Releases, NEW from, NEW to \in Stages, Goes(k, from, to)
    PROVE  /\ run' \in [Releases -> Stages] /\ run[k] \in from /\ run'[k] = to
           /\ \A j \in Releases : j # k => run'[j] = run[j]
BY DEF RInv, RollTypes, Goes

\* A run that moves within its deployment, or out of it, keeps the order.
LEMMA OrderKept ==
    ASSUME RInv, NEW k \in Releases, NEW to \in Deploying \cup Ended,
           Goes(k, {"building"} \cup Deploying, to),
           run[k] = "building" => to \in Ended,
           run[k] = "undoing" => to \in Ended \cup {"undoing"}
    PROVE  OneDeploys' /\ LaterOnly'
<1>1. to \in Stages
  BY DEF Stages
<1>2. /\ run[k] \in {"building"} \cup Deploying /\ run'[k] = to
      /\ \A j \in Releases : j # k => run'[j] = run[j]
  BY <1>1, MovesAlone
<1>3. OneDeploys'
  BY <1>2 DEF RInv, OneDeploys, Deploying, Ended
<1>4. LaterOnly'
  BY <1>2 DEF RInv, LaterOnly, Deploying, Ended
<1> QED
  BY <1>3, <1>4


\* Triggering a run cancels a build.
LEMMA TriggerPreserves ==
    ASSUME RInv, NEW k \in Releases, Trigger(k)
    PROVE  RInv'
<1>1. /\ run[k] = "none" /\ \A j \in 1 .. k - 1 : run[j] # "none"
      /\ run' = [j \in Releases |-> IF j = k THEN "building"
                                    ELSE IF run[j] = "building" THEN "cancelled" ELSE run[j]]
      /\ UNCHANGED <<container, old, proven, left>>
  BY DEF Trigger
<1>2. /\ run'[k] = "building"
      /\ \A j \in Releases : j # k /\ run[j] = "building" => run'[j] = "cancelled"
      /\ \A j \in Releases : j # k /\ run[j] # "building" => run'[j] = run[j]
  BY <1>1
<1>3. RollTypes'
  BY <1>1 DEF RInv, RollTypes, Stages, Ended, Deploying
<1>4. OneDeploys'
  BY <1>2 DEF RInv, OneDeploys, Deploying
<1>5. LaterOnly'
  <2>1. \A j \in Releases : j < k => run[j] # "none"
    BY <1>1 DEF Releases
  <2>2. \A j \in Releases : k < j => run[j] = "none"
    BY <1>1 DEF RInv, LaterOnly
  <2> QED
    BY <1>2, <2>1, <2>2 DEF RInv, LaterOnly, Deploying, Ended, Releases
<1>6. NewestLast'
  BY <1>1, <1>2 DEF RInv, NewestLast
<1>7. TrialsAreKnown'
  BY <1>1, <1>2 DEF RInv, TrialsAreKnown, Known
<1>8. OnlyProvenImagesStay'
  BY <1>1, <1>2 DEF RInv, OnlyProvenImagesStay, Deploying
<1> QED
  BY <1>3, <1>4, <1>5, <1>6, <1>7, <1>8 DEF RInv

\* Queueing a deployment interrupts the one before it.
LEMMA BuildEndsPreserves ==
    ASSUME RInv, NEW k \in Releases, BuildEnds(k)
    PROVE  RInv'
<1>1. /\ run[k] = "building"
      /\ run' = [j \in Releases |-> IF j = k THEN "pending" ELSE Interrupted(run[j])]
      /\ UNCHANGED <<container, old, proven, left>>
  BY DEF BuildEnds
<1>2. run'[k] = "pending" /\ \A j \in Releases \ {k} : run'[j] = Interrupted(run[j])
  BY <1>1
<1>3. \A j \in Releases : run[j] \in Stages
  BY DEF RInv, RollTypes
<1>4. RollTypes'
  BY <1>1, <1>3 DEF RInv, RollTypes, Interrupted, Stages, Ended, Deploying
<1>5. \A j \in Releases : run'[j] \in Deploying => run'[j] = "undoing" /\ run[j] \in {"checking", "rollingBack", "undoing"}
  BY <1>2, <1>3 DEF Interrupted, Stages, Ended, Deploying
<1>6. OneDeploys'
  BY <1>5 DEF RInv, OneDeploys, Deploying
<1>7. LaterOnly'
  <2>1. \A j \in Releases : k < j => run[j] = "none"
    BY <1>1 DEF RInv, LaterOnly
  <2>2. \A j \in Releases : j < k => run[j] \notin {"none", "building"}
    BY <1>1 DEF RInv, LaterOnly
  <2>3. \A j \in Releases : k < j => run'[j] = "none"
    BY <1>2, <2>1 DEF Interrupted, Deploying, Releases
  <2>4. \A j \in Releases : j < k => run'[j] \in Ended \cup {"undoing"}
    BY <1>2, <1>3, <2>2 DEF Interrupted, Stages, Ended, Deploying, Releases
  <2>5. ASSUME NEW i \in Releases, NEW j \in Releases, i < j
        PROVE  /\ run'[j] # "none" => run'[i] \notin {"none", "building"}
               /\ run'[j] \in {"pending"} \cup Deploying => run'[i] \in Ended \cup {"undoing"}
    <3>1. k < j \/ i < k
      BY <2>5 DEF Releases
    <3>2. CASE k < j
      BY <2>3, <3>2 DEF Deploying
    <3>3. CASE i < k
      BY <2>4, <3>3 DEF Ended
    <3> QED
      BY <3>1, <3>2, <3>3
  <2> QED
    BY <2>5 DEF LaterOnly
<1>8. NewestLast'
  <2>1. \A j \in Releases \ {k} : run'[j] \in {"none", "building", "pending", "preparing", "pulling"}
          => run[j] \in {"none", "building"}
    BY <1>2, <1>3 DEF Interrupted, Stages, Ended, Deploying
  <2> QED
    BY <1>1, <2>1 DEF RInv, NewestLast
<1>9. TrialsAreKnown'
  <2>1. \A j \in Releases : run'[j] \notin {"preparing", "pulling", "verifying", "checking", "rollingBack"}
    BY <1>2, <1>3 DEF Interrupted, Stages, Ended, Deploying
  <2> QED
    BY <1>1, <1>5, <2>1 DEF RInv, TrialsAreKnown, Known, Deploying
<1>10. OnlyProvenImagesStay'
  <2>1. SUFFICES ASSUME \A j \in Releases : run'[j] \notin Deploying
                 PROVE  container.image \in Known
    BY <1>1 DEF OnlyProvenImagesStay, Known
  <2>2. \A j \in Releases : run[j] \notin {"checking", "rollingBack", "undoing"}
    BY <1>1, <1>2, <2>1 DEF Interrupted, Deploying
  <2>3. CASE \E j \in Releases : run[j] \in Deploying
    BY <2>2, <2>3 DEF RInv, TrialsAreKnown, Deploying
  <2>4. CASE ~ \E j \in Releases : run[j] \in Deploying
    BY <2>4 DEF RInv, OnlyProvenImagesStay, Known
  <2> QED
    BY <2>3, <2>4
<1> QED
  BY <1>4, <1>6, <1>7, <1>8, <1>9, <1>10 DEF RInv

\* A job starts when no other is on the host.
LEMMA StartDeployPreserves ==
    ASSUME RInv, NEW k \in Releases, StartDeploy(k)
    PROVE  RInv'
<1>1. /\ \A j \in Releases : run[j] \notin Deploying
      /\ Goes(k, {"pending"}, "preparing") /\ "preparing" \in Stages
      /\ UNCHANGED <<container, old, proven, left>>
  BY DEF StartDeploy, Stages, Deploying
<1>2. /\ run' \in [Releases -> Stages] /\ run[k] = "pending" /\ run'[k] = "preparing"
      /\ \A j \in Releases : j # k => run'[j] = run[j]
  BY <1>1, MovesAlone
<1>3. RollTypes'
  BY <1>1, <1>2 DEF RInv, RollTypes
<1>4. OneDeploys'
  BY <1>1, <1>2 DEF OneDeploys
<1>5. LaterOnly'
  BY <1>2 DEF RInv, LaterOnly, Deploying, Ended
<1>6. NewestLast'
  BY <1>1, <1>2 DEF RInv, NewestLast
<1>7. container.image \in Known
  BY <1>1 DEF RInv, OnlyProvenImagesStay, Known
<1>8. TrialsAreKnown'
  BY <1>1, <1>2, <1>7 DEF RInv, TrialsAreKnown, Known
<1>9. OnlyProvenImagesStay'
  BY <1>1, <1>7 DEF OnlyProvenImagesStay, Known
<1> QED
  BY <1>3, <1>4, <1>5, <1>6, <1>8, <1>9 DEF RInv

\* A run that ends, or begins, without touching the host.
LEMMA QuietPreserves ==
    ASSUME RInv, NEW k \in Releases,
           BuildFails(k) \/ PrepareFails(k) \/ PullFails(k) \/ Verify(k)
    PROVE  RInv'
<1>1. /\ UNCHANGED <<container, old, proven, left>>
      /\ \E to \in Ended : Goes(k, {"building", "preparing", "pulling", "verifying"}, to)
  BY DEF BuildFails, PrepareFails, PullFails, Verify, Goes, Ended
<1>2. PICK to \in Ended : Goes(k, {"building", "preparing", "pulling", "verifying"}, to)
  BY <1>1
<1>3. Goes(k, {"building"} \cup Deploying, to) /\ to \in Stages /\ run[k] # "undoing"
  BY <1>2 DEF Goes, Deploying, Stages
<1>4. /\ run' \in [Releases -> Stages] /\ run'[k] = to
      /\ run[k] \in {"building", "preparing", "pulling", "verifying"}
      /\ \A j \in Releases : j # k => run'[j] = run[j]
  BY <1>2, <1>3, MovesAlone
<1>5. OneDeploys' /\ LaterOnly'
  BY <1>3, OrderKept
<1>6. RollTypes'
  BY <1>1, <1>4 DEF RInv, RollTypes
<1>7. NewestLast'
  BY <1>1, <1>4 DEF RInv, NewestLast, Ended
<1>8. TrialsAreKnown'
  BY <1>1, <1>4 DEF RInv, TrialsAreKnown, Known, Ended
<1>9. OnlyProvenImagesStay'
  <2>1. CASE run[k] = "building"
    BY <1>1, <1>4, <2>1 DEF RInv, OnlyProvenImagesStay, Deploying
  <2>2. CASE run[k] \in {"preparing", "pulling", "verifying"}
    BY <1>1, <2>2 DEF RInv, TrialsAreKnown, OnlyProvenImagesStay, Known
  <2> QED
    BY <1>4, <2>1, <2>2
<1> QED
  BY <1>5, <1>6, <1>7, <1>8, <1>9 DEF RInv


\* deploy.sh from its first inspection of the container to the switch.
LEMMA SwitchPreserves ==
    ASSUME RInv, NEW k \in Releases, Begin(k) \/ Up(k) \/ UpFails(k)
    PROVE  RInv'
<1>1. PICK to \in {"pulling", "checking", "rollingBack"} : Goes(k, {"preparing", "pulling"}, to)
  BY DEF Begin, Up, UpFails, Goes
<1>2. /\ Goes(k, {"building"} \cup Deploying, to) /\ to \in Stages /\ to \in Deploying \cup Ended
      /\ run[k] \notin {"building", "undoing"}
  BY <1>1 DEF Goes, Deploying, Stages
<1>3. /\ run' \in [Releases -> Stages] /\ run'[k] = to /\ run[k] \in {"preparing", "pulling"}
      /\ \A j \in Releases : j # k => run'[j] = run[j]
  BY <1>1, <1>2, MovesAlone
<1>4. OneDeploys' /\ LaterOnly'
  BY <1>2, OrderKept
<1>5. /\ \A j \in Releases : j # k => run'[j] \notin Deploying
      /\ run'[k] \in Deploying
  BY <1>2, <1>3, <1>4 DEF OneDeploys, Deploying
<1>6. OnlyProvenImagesStay'
  BY <1>5 DEF OnlyProvenImagesStay
<1>7. /\ container.image \in {0} \cup Releases /\ old \in [Releases -> {0} \cup Releases]
      /\ container \in Containers
      /\ proven \subseteq Releases /\ left \subseteq Releases
  BY DEF RInv, RollTypes, Containers, Absent
<1>8. container.image \in Known
  BY <1>3 DEF RInv, TrialsAreKnown
\* A run that comes later than k has yet to switch only if it is newer.
<1>9. \A j \in Releases \ {k} :
         run[j] \in {"none", "building", "pending", "preparing", "pulling"} => k < j
  <2>1. ASSUME NEW j \in Releases \ {k},
               run[j] \in {"none", "building", "pending", "preparing", "pulling"}, ~ (k < j)
        PROVE  FALSE
    <3>1. j < k
      BY <2>1 DEF Releases
    <3> QED
      BY <1>3, <2>1, <3>1 DEF RInv, LaterOnly, Deploying, Ended
  <2> QED
    BY <2>1
<1>10. CASE Begin(k)
  <2>1. /\ old' = [old EXCEPT ![k] = container.image] /\ run'[k] = "pulling" /\ run[k] = "preparing"
        /\ UNCHANGED <<container, proven, left>>
    BY <1>10, <1>3 DEF Begin, Goes, RInv, RollTypes
  <2>2. RollTypes'
    BY <1>3, <1>7, <2>1 DEF RInv, RollTypes
  <2>3. NewestLast'
    BY <1>3, <1>7, <2>1 DEF RInv, NewestLast
  <2>4. TrialsAreKnown'
    BY <1>3, <1>5, <1>7, <1>8, <2>1 DEF TrialsAreKnown, Known, Deploying
  <2> QED
    BY <1>4, <1>6, <2>2, <2>3, <2>4 DEF RInv
<1>11. CASE Up(k) \/ UpFails(k)
  <2>1. /\ container' \in {Started(k), container, Absent, [image |-> k, state |-> "exited"]}
        /\ run[k] = "pulling" /\ run'[k] \in {"checking", "rollingBack"}
        /\ UNCHANGED <<old, proven, left>>
    BY <1>11, <1>3 DEF Up, UpFails, Goes, RInv, RollTypes
  <2>2. /\ container' \in Containers
        /\ container'.image \in {0, k, container.image}
    BY <1>7, <2>1 DEF Containers, Started, Absent
  <2>3. RollTypes'
    BY <1>3, <1>7, <2>1, <2>2 DEF RollTypes
  <2>4. NewestLast'
    <3>1. ASSUME NEW j \in Releases,
                 run'[j] \in {"none", "building", "pending", "preparing", "pulling"}
          PROVE  container'.image < j /\ \A i \in Releases : old'[i] < j
      <4>1. j # k /\ run[j] = run'[j]
        BY <1>3, <2>1, <3>1
      <4>2. container.image < j /\ \A i \in Releases : old[i] < j
        BY <3>1, <4>1 DEF RInv, NewestLast
      <4>3. k < j
        BY <1>9, <3>1, <4>1
      <4>4. 0 < j
        BY DEF Releases
      <4> QED
        BY <2>1, <2>2, <4>2, <4>3, <4>4
    <3> QED
      BY <3>1 DEF NewestLast
  <2>5. TrialsAreKnown'
    <3>1. old[k] = container.image /\ old[k] \in Known
      BY <1>8, <2>1 DEF RInv, TrialsAreKnown
    <3> QED
      BY <1>3, <1>5, <2>1, <2>2, <3>1 DEF TrialsAreKnown, Known, Deploying
  <2> QED
    BY <1>4, <1>6, <2>3, <2>4, <2>5 DEF RInv
<1> QED
  BY <1>10, <1>11


\* The health check comes to a verdict, or time is up.
LEMMA HealthPreserves ==
    ASSUME RInv, NEW k \in Releases, HealthCheckSucceeds(k) \/ HealthCheckFails(k)
    PROVE  RInv'
<1>1. PICK to \in {"verifying", "rollingBack"} : Goes(k, {"checking"}, to)
  BY DEF HealthCheckSucceeds, HealthCheckFails
<1>2. /\ Goes(k, {"building"} \cup Deploying, to) /\ to \in Stages /\ to \in Deploying \cup Ended
      /\ run[k] \notin {"building", "undoing"}
  BY <1>1 DEF Goes, Deploying, Stages
<1>3. /\ run' \in [Releases -> Stages] /\ run'[k] = to /\ run[k] = "checking"
      /\ \A j \in Releases : j # k => run'[j] = run[j]
  BY <1>1, <1>2, MovesAlone
<1>4. OneDeploys' /\ LaterOnly'
  BY <1>2, OrderKept
<1>5. /\ \A j \in Releases : j # k => run'[j] \notin Deploying
      /\ run'[k] \in Deploying
  BY <1>2, <1>3, <1>4 DEF OneDeploys, Deploying
<1>6. OnlyProvenImagesStay'
  BY <1>5 DEF OnlyProvenImagesStay
<1>7. UNCHANGED <<container, old, left>> /\ proven' \in {proven, proven \cup {k}}
  BY DEF HealthCheckSucceeds, HealthCheckFails
<1>8. RollTypes'
  BY <1>3, <1>7 DEF RInv, RollTypes
<1>9. NewestLast'
  BY <1>3, <1>7 DEF RInv, NewestLast
<1>10. TrialsAreKnown'
  <2>1. CASE HealthCheckSucceeds(k)
    <3>1. container'.image = k /\ k \in proven' /\ run'[k] = "verifying"
      BY <1>3, <2>1 DEF HealthCheckSucceeds, Goes, RInv, RollTypes
    <3> QED
      BY <1>5, <3>1 DEF TrialsAreKnown, Known, Deploying
  <2>2. CASE HealthCheckFails(k)
    <3>1. /\ old[k] \in Known /\ container.image \in {0, k, old[k]} /\ run'[k] = "rollingBack"
          /\ Known' = Known
      BY <1>3, <2>2 DEF HealthCheckFails, Goes, RInv, RollTypes, TrialsAreKnown, Known
    <3> QED
      BY <1>5, <1>7, <3>1 DEF TrialsAreKnown, Deploying
  <2> QED
    BY <2>1, <2>2
<1> QED
  BY <1>4, <1>6, <1>8, <1>9, <1>10 DEF RInv

\* A rollback that works, fails or is killed ends the deployment.
LEMMA RollBackPreserves ==
    ASSUME RInv, NEW k \in Releases, RollBack(k) \/ RollBackFails(k) \/ Killed(k)
    PROVE  RInv'
<1>1. PICK to \in Ended : Goes(k, {"rollingBack", "undoing"}, to)
  BY DEF RollBack, RollBackFails, Killed, Exits, Goes, Ended
<1>2. /\ Goes(k, {"building"} \cup Deploying, to) /\ to \in Stages /\ to \in Deploying \cup Ended
      /\ run[k] # "building"
  BY <1>1 DEF Goes, Deploying, Stages
<1>3. /\ run' \in [Releases -> Stages] /\ run'[k] = to /\ run[k] \in {"rollingBack", "undoing"}
      /\ \A j \in Releases : j # k => run'[j] = run[j]
  BY <1>1, <1>2, MovesAlone
<1>4. OneDeploys' /\ LaterOnly'
  BY <1>2, OrderKept
<1>5. \A j \in Releases : run'[j] \notin Deploying
  BY <1>3 DEF RInv, OneDeploys, Deploying, Ended
<1>6. /\ container \in Containers
      /\ container.image \in {0} \cup Releases /\ old[k] \in {0} \cup Releases
  BY DEF RInv, RollTypes, Containers, Absent
<1>7. /\ \/ container' = Started(old[k]) /\ old[k] # 0
         \/ container' \in {container, Absent} /\ k \in left'
      /\ left' \in {left, left \cup {k}}
      /\ UNCHANGED <<old, proven>>
  BY DEF RollBack, RollBackFails, Killed, HasOld
<1>8. /\ container' \in Containers
      /\ container'.image \in {0, container.image, old[k]}
      /\ container'.image = old[k] \/ k \in left'
  BY <1>6, <1>7 DEF Containers, Started, Absent
<1>9. RollTypes'
  BY <1>3, <1>7, <1>8 DEF RInv, RollTypes
<1>10. NewestLast'
  <2>1. ASSUME NEW j \in Releases,
               run'[j] \in {"none", "building", "pending", "preparing", "pulling"}
        PROVE  container'.image < j /\ \A i \in Releases : old'[i] < j
    <3>1. j # k /\ run[j] = run'[j]
      BY <1>3, <2>1 DEF Ended
    <3>2. container.image < j /\ \A i \in Releases : old[i] < j
      BY <2>1, <3>1 DEF RInv, NewestLast
    <3>3. 0 < j
      BY DEF Releases
    <3> QED
      BY <1>7, <1>8, <3>2, <3>3
  <2> QED
    BY <2>1 DEF NewestLast
<1>11. TrialsAreKnown'
  BY <1>5 DEF TrialsAreKnown, Deploying
<1>12. OnlyProvenImagesStay'
  <2>1. old[k] \in Known /\ container.image \in {0, k, old[k]}
    BY <1>3 DEF RInv, TrialsAreKnown
  <2>2. container'.image \in {0} \cup proven' \cup left'
    BY <1>7, <1>8, <2>1 DEF Known
  <2> QED
    BY <2>2 DEF OnlyProvenImagesStay
<1> QED
  BY <1>4, <1>9, <1>10, <1>11, <1>12 DEF RInv

\* The container's own health check changes no image.
LEMMA TurnPreserves ==
    ASSUME RInv, ContainerTurns
    PROVE  RInv'
<1>1. /\ container' \in Containers
      /\ container'.image = container.image
      /\ UNCHANGED <<run, old, proven, left>>
  BY DEF ContainerTurns, RInv, RollTypes, Containers, Absent
<1>2. RollTypes' /\ OneDeploys' /\ LaterOnly'
  BY <1>1 DEF RInv, RollTypes, OneDeploys, LaterOnly
<1>3. NewestLast'
  BY <1>1 DEF RInv, NewestLast
<1>4. TrialsAreKnown'
  BY <1>1 DEF RInv, TrialsAreKnown, Known
<1>5. OnlyProvenImagesStay'
  BY <1>1 DEF RInv, OnlyProvenImagesStay
<1> QED
  BY <1>2, <1>3, <1>4, <1>5 DEF RInv

\* Every step of the workflow and of the host preserves the invariant.
LEMMA RollPreserves ==
    ASSUME RInv, Roll
    PROVE  RInv'
<1>1. CASE ContainerTurns
  BY <1>1, TurnPreserves
<1>2. ASSUME NEW k \in Releases, Deploy(k) PROVE RInv'
  BY <1>2, TriggerPreserves, BuildEndsPreserves, StartDeployPreserves, QuietPreserves,
     SwitchPreserves, HealthPreserves, RollBackPreserves DEF Deploy
<1> QED
  BY <1>1, <1>2 DEF Roll

\* A step that changes the image is the switch of a run newer than what ran, or
\* a rollback.
LEMMA OnlyRollbacksStep ==
    ASSUME RInv, Roll
    PROVE  \/ container'.image \in {0} \cup container.image .. MaxReleases
           \/ \E k \in Releases : run[k] \in {"rollingBack", "undoing"} /\ container'.image = old[k]
<1>1. /\ container.image \in {0} \cup Releases /\ MaxReleases \in Nat
      /\ container.image \in container.image .. MaxReleases
  BY PublishAssumption DEF RInv, RollTypes, Releases, Containers, Absent
<1>2. CASE ContainerTurns
  BY <1>1, <1>2 DEF ContainerTurns, RInv, RollTypes, Containers, Absent
<1>3. ASSUME NEW k \in Releases, Up(k) \/ UpFails(k)
      PROVE  container'.image \in {0} \cup container.image .. MaxReleases
  <2>1. run[k] = "pulling" /\ container' \in {Started(k), container, Absent, [image |-> k, state |-> "exited"]}
    BY <1>3 DEF Up, UpFails, Goes
  <2>2. container.image < k
    BY <2>1 DEF RInv, NewestLast
  <2>3. container'.image \in {0, k, container.image}
    BY <2>1 DEF Started, Absent
  <2> QED
    BY <1>1, <2>2, <2>3 DEF Releases
<1>4. ASSUME NEW k \in Releases, RollBack(k) \/ RollBackFails(k) \/ Killed(k)
      PROVE  \/ container'.image \in {0} \cup container.image .. MaxReleases
             \/ run[k] \in {"rollingBack", "undoing"} /\ container'.image = old[k]
  <2>1. /\ container' \in {Started(old[k]), container, Absent}
        /\ run[k] \in {"rollingBack", "undoing"}
    BY <1>4 DEF RollBack, RollBackFails, Killed, Exits, Goes
  <2>2. container'.image \in {0, container.image, old[k]}
    BY <2>1 DEF Started, Absent
  <2> QED
    BY <1>1, <2>1, <2>2
<1>5. ASSUME NEW k \in Releases, Deploy(k), container' = container
      PROVE  container'.image \in {0} \cup container.image .. MaxReleases
  BY <1>1, <1>5
<1>6. ASSUME NEW k \in Releases, Deploy(k)
      PROVE  \/ container' = container \/ Up(k) \/ UpFails(k)
             \/ RollBack(k) \/ RollBackFails(k) \/ Killed(k)
  BY <1>6 DEF Deploy, Trigger, BuildFails, BuildEnds, StartDeploy, PrepareFails, Begin, PullFails,
              HealthCheckSucceeds, HealthCheckFails, Verify
<1> QED
  BY <1>2, <1>3, <1>4, <1>5, <1>6 DEF Roll

-----------------------------------------------------------------------------
(* The theorems                                                             *)

IInv == PInv /\ RInv

LEMMA Initially == Init => IInv
<1> SUFFICES ASSUME Init PROVE IInv
  OBVIOUS
<1>1. main = <<>> /\ Len(main) = 0 /\ MaxReleases \in Nat /\ Releases \subseteq Nat \ {0}
  BY PublishAssumption DEF Init, PublishInit, Releases
<1>2. main \in Seq([version : Nat, title : Nat])
  BY <1>1
<1>3. Synced(0) \in Branch
  BY DEF Synced, Branch
<1>4. PublishTypeOK
  BY <1>1, <1>2, <1>3 DEF Init, PublishInit, PublishTypeOK, Steps
<1>5. Ours = 0 /\ VersionsClimbInOrder /\ MainIsLatest
  BY <1>1 DEF Ours, VersionAt, VersionsClimbInOrder, MainIsLatest
<1>6. ClonesFollow
  <2>1. SUFFICES ASSUME NEW b \in Branches PROVE CloneFollows(b)
    BY DEF ClonesFollow
  <2>2. /\ local[b] = [version |-> 0, ahead |-> FALSE, base |-> 0]
        /\ seen[b] = 0 /\ title[b] = NoTitle /\ step[b] = "idle"
    BY DEF Init, PublishInit, Synced
  <2>3. local[b].version = 0 /\ local[b].base = 0
    BY <2>2
  <2> QED
    BY <1>1, <1>5, <2>2, <2>3 DEF CloneFollows
<1>7. RollTypes
  BY DEF Init, RollTypes, Containers, Stages
<1>8. OneDeploys /\ LaterOnly /\ NewestLast /\ TrialsAreKnown
  BY <1>1 DEF Init, OneDeploys, LaterOnly, NewestLast, TrialsAreKnown, Deploying, Ended, Absent, Known
<1>9. OnlyProvenImagesStay
  BY DEF Init, OnlyProvenImagesStay, Absent
<1> QED
  BY <1>4, <1>5, <1>6, <1>7, <1>8, <1>9 DEF IInv, PInv, RInv

LEMMA RInvStays ==
    ASSUME RInv, UNCHANGED rolling
    PROVE  RInv'
BY DEF RInv, RollTypes, OneDeploys, LaterOnly, NewestLast, TrialsAreKnown, OnlyProvenImagesStay,
       Known, rolling

LEMMA PInvStays ==
    ASSUME PInv, UNCHANGED publishing
    PROVE  PInv'
BY DEF PInv, PublishTypeOK, ClonesFollow, CloneFollows, MainIsLatest, VersionsClimbInOrder,
       Ours, VersionAt, publishing

LEMMA Inductive == IInv /\ [Next]_vars => IInv'
<1> SUFFICES ASSUME IInv, [Next]_vars PROVE IInv'
  OBVIOUS
<1>1. PInv /\ RInv
  BY DEF IInv
<1>2. CASE PublishNext /\ UNCHANGED rolling
  BY <1>1, <1>2, PublishPreserves, RInvStays DEF IInv
<1>3. CASE Roll /\ UNCHANGED publishing
  BY <1>1, <1>3, RollPreserves, PInvStays DEF IInv
<1>4. CASE UNCHANGED vars
  <2>1. UNCHANGED rolling /\ UNCHANGED publishing
    BY <1>4 DEF vars
  <2> QED
    BY <1>1, <2>1, RInvStays, PInvStays DEF IInv
<1> QED
  BY <1>2, <1>3, <1>4 DEF Next

\* The inductive invariant holds throughout.
LEMMA Always == Spec => []IInv
BY Initially, Inductive, PTL DEF Spec

\* Clones, pull requests, workflow runs, container and records have their types.
THEOREM TypeCorrect == Spec => []TypeOK
<1>1. IInv => TypeOK
  BY DEF IInv, PInv, RInv, RollTypes, TypeOK
<1> QED
  BY <1>1, Always, PTL

\* Whatever fails and whoever releases in between, main's version climbs by one
\* or stays (deploy-branch.cjs).
THEOREM VersionsClimb == Spec => []VersionsClimbInOrder
<1>1. IInv => VersionsClimbInOrder
  BY DEF IInv, PInv
<1> QED
  BY <1>1, Always, PTL

\* Runs may supersede each other anywhere: at rest the host keeps an image that
\* was once healthy, unless its own rollback did not happen (deploy.sh).
THEOREM ProvenImages == Spec => []OnlyProvenImagesStay
<1>1. IInv => OnlyProvenImagesStay
  BY DEF IInv, RInv
<1> QED
  BY <1>1, Always, PTL

\* No build that comes late and no signal brings an older release back.
THEOREM NoOldRelease == Spec => OnlyRollbacksGoBack
<1>1. IInv /\ [Next]_vars =>
        [container'.image \in {0} \cup container.image .. MaxReleases
           \/ \E k \in Releases : run[k] \in {"rollingBack", "undoing"} /\ container'.image = old[k]]_vars
  <2> SUFFICES ASSUME IInv, Next
               PROVE  \/ container'.image \in {0} \cup container.image .. MaxReleases
                      \/ \E k \in Releases :
                            run[k] \in {"rollingBack", "undoing"} /\ container'.image = old[k]
    OBVIOUS
  <2>1. RInv
    BY DEF IInv
  <2>2. CASE Roll
    BY <2>1, <2>2, OnlyRollbacksStep
  <2>3. CASE UNCHANGED rolling
    <3>1. container' = container /\ container.image \in {0} \cup Releases /\ MaxReleases \in Nat
      BY <2>1, <2>3, PublishAssumption DEF rolling, RInv, RollTypes, Containers, Absent
    <3> QED
      BY <3>1 DEF Releases
  <2> QED
    BY <2>2, <2>3 DEF Next
<1> QED
  BY <1>1, Always, PTL DEF Spec, OnlyRollbacksGoBack

-----------------------------------------------------------------------------
(* Why every run ends                                                       *)

\* How far a run has come: a deployment that is taken back goes on as well.
Progress(stage) ==
    CASE stage = "none" -> 0
      [] stage = "building" -> 1
      [] stage = "pending" -> 2
      [] stage = "preparing" -> 3
      [] stage = "pulling" -> 4
      [] stage = "checking" -> 5
      [] stage \in {"rollingBack", "verifying"} -> 6
      [] stage = "undoing" -> 7
      [] OTHER -> 8

\* Whatever cancels or interrupts it, a run never repeats a stage: each of its own
\* steps and each cancellation brings it closer to one of its ends.
RunsOnlyAdvance ==
    [][\A k \in Releases :
         /\ Progress(run[k]) <= Progress(run'[k]) /\ Progress(run'[k]) <= 8
         /\ Deploy(k) => Progress(run[k]) < Progress(run'[k])]_vars

\* A stage is no step back from itself or from what a cancellation makes of it.
LEMMA ProgressFacts ==
    ASSUME NEW stage \in Stages
    PROVE  /\ Progress(stage) \in 0 .. 8
           /\ Progress(stage) <= Progress(Interrupted(stage))
           /\ Interrupted(stage) \in Stages
BY DEF Progress, Interrupted, Stages, Deploying, Ended

\* The run that moves alone moves on.
LEMMA MoverAdvances ==
    ASSUME RollTypes, NEW k \in Releases, NEW to \in Stages,
           run' = [run EXCEPT ![k] = to], Progress(run[k]) < Progress(to)
    PROVE  \A j \in Releases :
              /\ run'[j] \in Stages
              /\ Progress(run[j]) <= Progress(run'[j])
              /\ j = k => Progress(run[j]) < Progress(run'[j])
<1> SUFFICES ASSUME NEW j \in Releases
             PROVE  /\ run'[j] \in Stages
                    /\ Progress(run[j]) <= Progress(run'[j])
                    /\ j = k => Progress(run[j]) < Progress(run'[j])
  OBVIOUS
<1>1. run[j] \in Stages /\ run'[j] = IF j = k THEN to ELSE run[j]
  BY DEF RollTypes
<1>2. Progress(run[j]) \in Int
  BY <1>1, ProgressFacts
<1>3. CASE j = k
  <2>1. run'[j] = to /\ Progress(run[j]) < Progress(run'[j])
    BY <1>1, <1>3, Zenon
  <2>2. Progress(to) \in Int
    BY ProgressFacts
  <2>3. Progress(run'[j]) \in Int
    BY <2>1, <2>2, Zenon
  <2> QED
    BY <1>2, <2>1, <2>3
<1>4. CASE j # k
  <2>1. run'[j] = run[j] /\ Progress(run'[j]) = Progress(run[j])
    BY <1>1, <1>4, Zenon
  <2> QED
    BY <1>1, <1>2, <1>4, <2>1
<1> QED
  BY <1>3, <1>4

\* The steps that move one run alone.
MovesOn(k) ==
    \/ BuildFails(k) \/ StartDeploy(k) \/ PrepareFails(k)
    \/ Begin(k) \/ PullFails(k) \/ Up(k) \/ UpFails(k)
    \/ HealthCheckSucceeds(k) \/ HealthCheckFails(k)
    \/ RollBack(k) \/ RollBackFails(k) \/ Killed(k) \/ Verify(k)

LEMMA MovesOnAdvance ==
    ASSUME RollTypes, NEW k \in Releases, MovesOn(k)
    PROVE  \E to \in Stages : run' = [run EXCEPT ![k] = to] /\ Progress(run[k]) < Progress(to)
<1>1. \E from, to \in Stages : /\ Goes(k, {from}, to)
                               /\ Progress(from) < Progress(to)
  <2>1. CASE BuildFails(k) \/ StartDeploy(k) \/ PrepareFails(k)
    <3>1. \/ Goes(k, {"building"}, "failed") \/ Goes(k, {"pending"}, "preparing")
          \/ Goes(k, {"preparing"}, "failed")
      BY <2>1 DEF BuildFails, StartDeploy, PrepareFails
    <3> QED
      BY <3>1 DEF Progress, Stages, Deploying, Ended
  <2>2. CASE Begin(k) \/ PullFails(k) \/ Up(k) \/ UpFails(k)
    <3>1. \/ Goes(k, {"preparing"}, "pulling") \/ Goes(k, {"pulling"}, "failed")
          \/ Goes(k, {"pulling"}, "checking") \/ Goes(k, {"pulling"}, "rollingBack")
      BY <2>2 DEF Begin, PullFails, Up, UpFails
    <3> QED
      BY <3>1 DEF Progress, Stages, Deploying, Ended
  <2>3. CASE HealthCheckSucceeds(k) \/ HealthCheckFails(k) \/ Verify(k)
    <3>1. \/ Goes(k, {"checking"}, "verifying") \/ Goes(k, {"checking"}, "rollingBack")
          \/ Goes(k, {"verifying"}, "succeeded") \/ Goes(k, {"verifying"}, "failed")
      BY <2>3 DEF HealthCheckSucceeds, HealthCheckFails, Verify
    <3> QED
      BY <3>1 DEF Progress, Stages, Deploying, Ended
  <2>4. CASE RollBack(k) \/ RollBackFails(k) \/ Killed(k)
    <3>1. \/ Goes(k, {"rollingBack"}, "failed") \/ Goes(k, {"undoing"}, "cancelled")
      BY <2>4 DEF RollBack, RollBackFails, Killed, Exits, Goes
    <3> QED
      BY <3>1 DEF Progress, Stages, Deploying, Ended
  <2> QED
    BY <2>1, <2>2, <2>3, <2>4 DEF MovesOn
<1> QED
  BY <1>1 DEF Goes

\* The steps that start a run or end a build, and cancel older runs with it.
LEMMA CancellersAdvance ==
    ASSUME RollTypes, NEW k \in Releases, Trigger(k) \/ BuildEnds(k)
    PROVE  \A j \in Releases :
              /\ run'[j] \in Stages
              /\ Progress(run[j]) <= Progress(run'[j])
              /\ j = k => Progress(run[j]) < Progress(run'[j])
<1> SUFFICES ASSUME NEW j \in Releases
             PROVE  /\ run'[j] \in Stages
                    /\ Progress(run[j]) <= Progress(run'[j])
                    /\ j = k => Progress(run[j]) < Progress(run'[j])
  OBVIOUS
<1>1. run[j] \in Stages
  BY DEF RollTypes
<1>2. CASE Trigger(k)
  <2>1. /\ run[k] = "none"
        /\ run'[j] = IF j = k THEN "building" ELSE IF run[j] = "building" THEN "cancelled" ELSE run[j]
    BY <1>2 DEF Trigger
  <2> QED
    BY <1>1, <2>1, ProgressFacts DEF Progress, Stages, Deploying, Ended
<1>3. CASE BuildEnds(k)
  <2>1. run[k] = "building" /\ run'[j] = IF j = k THEN "pending" ELSE Interrupted(run[j])
    BY <1>3 DEF BuildEnds
  <2>2. CASE j = k
    BY <2>1, <2>2 DEF Progress, Stages
  <2>3. CASE j # k
    BY <1>1, <2>1, <2>3, ProgressFacts
  <2> QED
    BY <2>2, <2>3
<1> QED
  BY <1>2, <1>3

\* The safety half of EveryRunEnds: a run has at most eight steps of its own, and
\* no other run takes one of them back (deploy.yml, deploy.sh).
THEOREM RunsAdvance == Spec => RunsOnlyAdvance
<1> DEFINE Advances(k) ==
             /\ Progress(run[k]) <= Progress(run'[k]) /\ Progress(run'[k]) <= 8
             /\ Deploy(k) => Progress(run[k]) < Progress(run'[k])
<1>1. ASSUME RollTypes, NEW k \in Releases, Deploy(k)
      PROVE  \A j \in Releases :
                /\ run'[j] \in Stages
                /\ Progress(run[j]) <= Progress(run'[j])
                /\ j = k => Progress(run[j]) < Progress(run'[j])
  <2>1. CASE MovesOn(k)
    BY <1>1, <2>1, MovesOnAdvance, MoverAdvances
  <2>2. CASE Trigger(k) \/ BuildEnds(k)
    BY <1>1, <2>2, CancellersAdvance
  <2> QED
    BY <1>1, <2>1, <2>2 DEF Deploy, MovesOn
<1>2. ASSUME IInv, [Next]_vars, NEW k \in Releases PROVE Advances(k)
  <2>1. RollTypes /\ run[k] \in Stages
    BY <1>2 DEF IInv, RInv, RollTypes
  <2>2. CASE \E j \in Releases : Deploy(j)
    <3>1. PICK j \in Releases : Deploy(j)
      BY <2>2
    <3>2. run'[k] \in Stages /\ Progress(run[k]) <= Progress(run'[k])
      BY <1>1, <2>1, <3>1
    <3>3. Deploy(k) => Progress(run[k]) < Progress(run'[k])
      BY <1>1, <2>1
    <3> QED
      BY <3>2, <3>3, ProgressFacts
  <2>3. CASE ~ \E j \in Releases : Deploy(j)
    <3>1. run' = run
      BY <1>2, <2>3 DEF Next, Roll, ContainerTurns, rolling, vars
    <3>2. Progress(run[k]) \in 0 .. 8
      BY <2>1, ProgressFacts
    <3> QED
      BY <2>3, <3>1, <3>2
  <2> QED
    BY <2>2, <2>3
<1>3. IInv /\ [Next]_vars => [\A k \in Releases : Advances(k)]_vars
  BY <1>2
<1> QED
  BY <1>3, Always, PTL DEF Spec, RunsOnlyAdvance
================================================================================
