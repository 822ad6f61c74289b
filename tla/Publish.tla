-------------------------------- MODULE Publish --------------------------------
(***************************************************************************)
(* scripts/deploy-branch.cjs: several developers, each in a clone of his   *)
(* own branch, release their branches through one main branch.  A run of   *)
(* the script may fail at every command and leaves what it did so far.     *)
(*                                                                         *)
(* Of a branch counts the version in its package.json, whether it has      *)
(* commits main has not, and the version at the commit they start from:    *)
(* what a three-way merge of package.json looks at.  Versions are patch    *)
(* numbers, 0 the one before the first release.                            *)
(***************************************************************************)
EXTENDS Integers, Sequences

CONSTANTS
    Branches,
    MaxReleases,        \* bound on the releases merged
    Unreadable,         \* bound: after how many releases reading package.json of
                        \* origin/main may fail
    NoTitle             \* a branch without an open pull request

ASSUME PublishAssumption ==
    MaxReleases \in Nat \ {0} /\ Unreadable \subseteq Nat /\ NoTitle \notin Nat

VARIABLES
    main,       \* releases merged into main: [version, title]
    local,      \* each clone's branch: [version, ahead, base]
    origin,     \* the branch on the remote
    seen,       \* releases in origin/main as last fetched
    title,      \* version in the title of the open pull request
    step        \* where the script is

publishing == <<main, local, origin, seen, title, step>>

Steps ==
    {"idle", "fetched", "bumped", "kept", "unread", "pushed", "opened", "accepted", "merged"}
Synced(version) == [version |-> version, ahead |-> FALSE, base |-> version]

\* The version in package.json after the first n releases.
VersionAt(n) == IF n = 0 THEN 0 ELSE main[n].version

PublishInit ==
    /\ main = <<>>
    /\ local = [b \in Branches |-> Synced(0)]
    /\ origin = local
    /\ seen = [b \in Branches |-> 0]
    /\ title = [b \in Branches |-> NoTitle]
    /\ step = [b \in Branches |-> "idle"]

Move(b, from, to) == step[b] \in from /\ step' = [step EXCEPT ![b] = to]

Commit(b) ==
    /\ step[b] = "idle"
    /\ local' = [local EXCEPT ![b].ahead = TRUE]
    /\ UNCHANGED <<main, origin, seen, title, step>>

\* git fetch
Fetch(b) ==
    /\ Move(b, {"idle"}, "fetched")
    /\ seen' = [seen EXCEPT ![b] = Len(main)]
    /\ UNCHANGED <<main, local, origin, title>>

Bumped(b) ==
    [local EXCEPT ![b] = [version |-> @.version + 1, ahead |-> TRUE, base |-> @.base]]

\* Mutant: every run takes a new version.
PrepareAlwaysBumps(b) ==
    /\ Move(b, {"fetched"}, "bumped") /\ local' = Bumped(b)
    /\ UNCHANGED <<main, origin, seen, title>>

\* A version main does not show is taken to be a failed release of this
\* branch and is used again, and so is any version if package.json of
\* origin/main cannot be read.
PrepareVersion(b) ==
    /\ \/ /\ VersionAt(seen[b]) = local[b].version
          /\ Move(b, {"fetched"}, "bumped") /\ local' = Bumped(b)
       \/ /\ VersionAt(seen[b]) # local[b].version
          /\ Move(b, {"fetched"}, "kept") /\ local' = local
       \/ /\ seen[b] \in Unreadable
          /\ Move(b, {"fetched"}, "unread") /\ local' = local
    /\ UNCHANGED <<main, origin, seen, title>>

\* Push and fetch again; without commits to release there is nothing to merge.
Push(b) ==
    /\ Move(b, {"bumped", "kept", "unread"}, IF local[b].ahead THEN "pushed" ELSE "merged")
    /\ origin' = [origin EXCEPT ![b] = local[b]]
    /\ seen' = [seen EXCEPT ![b] = Len(main)]
    /\ UNCHANGED <<main, local, title>>

\* An open pull request of an earlier run is taken as it is.
FindOrCreatePullRequest(b) ==
    /\ Move(b, {"pushed"}, "opened")
    /\ title' = [title EXCEPT ![b] = IF @ = NoTitle THEN local[b].version ELSE @]
    /\ UNCHANGED <<main, local, origin, seen>>

\* package.json after a three-way merge, unless both sides changed the version.
Ours == VersionAt(Len(main))
MergesCleanly(b) ==
    \/ origin[b].version \in {origin[b].base, Ours}
    \/ Ours = origin[b].base
MergedVersion(b) == IF origin[b].version = origin[b].base THEN Ours ELSE origin[b].version

\* gh pr merge: the branch is now part of main, but not at its tip, and the
\* clone does not know yet.
Merge(b) ==
    /\ Len(main) < MaxReleases
    /\ Move(b, {"opened"}, "accepted") /\ MergesCleanly(b)
    /\ main' = Append(main, [version |-> MergedVersion(b), title |-> title[b]])
    /\ local' = [local EXCEPT ![b] = Synced(@.version)]
    /\ origin' = [origin EXCEPT ![b] = Synced(@.version)]
    /\ title' = [title EXCEPT ![b] = NoTitle]
    /\ UNCHANGED seen

\* git fetch once more, with whatever others have merged meanwhile.
FetchMerged(b) ==
    /\ Move(b, {"accepted"}, "merged")
    /\ seen' = [seen EXCEPT ![b] = Len(main)]
    /\ UNCHANGED <<main, local, origin, title>>

\* git merge --ff-only origin/main and a push.
FastForward(b) ==
    /\ Move(b, {"merged"}, "idle")
    /\ local' = [local EXCEPT ![b] = Synced(VersionAt(seen[b]))]
    /\ origin' = [origin EXCEPT ![b] = Synced(VersionAt(seen[b]))]
    /\ UNCHANGED <<main, seen, title>>

\* A command fails (a merge conflict among them) and the script exits.
Fail(b) ==
    /\ Move(b, Steps \ {"idle"}, "idle")
    /\ UNCHANGED <<main, local, origin, seen, title>>

\* The fast-forward is done but its push fails.
PushFails(b) ==
    /\ Move(b, {"merged"}, "idle")
    /\ local' = [local EXCEPT ![b] = Synced(VersionAt(seen[b]))]
    /\ UNCHANGED <<main, origin, seen, title>>

PublishNext ==
    \E b \in Branches :
        \/ Commit(b) \/ Fetch(b) \/ PrepareVersion(b) \/ Push(b) \/ FindOrCreatePullRequest(b)
        \/ Merge(b) \/ FetchMerged(b) \/ FastForward(b) \/ Fail(b) \/ PushFails(b)

PublishSpec == PublishInit /\ [][PublishNext]_publishing

-----------------------------------------------------------------------------
(* Properties                                                               *)

Branch == [version : Nat, ahead : BOOLEAN, base : Nat]

PublishTypeOK ==
    /\ main \in Seq([version : Nat, title : Nat]) /\ Len(main) <= MaxReleases
    /\ local \in [Branches -> Branch]
    /\ origin \in [Branches -> Branch]
    /\ seen \in [Branches -> 0 .. MaxReleases]
    /\ title \in [Branches -> Nat \cup {NoTitle}]
    /\ step \in [Branches -> Steps]

\* However often runs fail at whatever command and are repeated, and whoever
\* releases in between (the run has one branch, the theorem any number of them),
\* the version on main never drops, never skips a number, and no title promises
\* a later version than the release has ("repeated runs do not push the version
\* higher and higher", deploy-branch.cjs:118).
VersionsClimbInOrder ==
    \A n \in 1 .. Len(main) :
        /\ main[n].version - VersionAt(n - 1) \in {0, 1}
        /\ main[n].title <= main[n].version

\* deploy-branch.cjs:118: a version is used again only if the last release
\* failed and "the current version has not entered main yet".
KeptVersionsAreNew ==
    \A b \in Branches :
        step[b] = "kept" => \A n \in 0 .. seen[b] : VersionAt(n) # local[b].version
================================================================================
