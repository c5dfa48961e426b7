------------------------------ MODULE SiteBuild -----------------------------
(***************************************************************************)
(* Deployment of one site from git (sitedeploy): builds triggered by       *)
(* requests (TriggerBuild), which take the site's lock, and the check      *)
(* after a start (StartupBuildAll), which pulls and builds without it.  A  *)
(* build pulls, sends the checked-out source to a builder container, moves *)
(* what comes back into the place of the site's root with two renames, and *)
(* notes the commit in .last-build-commit, which the next start compares   *)
(* with the repository's head.                                             *)
(*                                                                         *)
(* Directories are modelled by the commit they were made from.  Git,       *)
(* Docker and the file system are external: each step may fail, and a      *)
(* container may end without having sent a result.                         *)
(***************************************************************************)
EXTENDS Boot, Naturals

CONSTANTS
    NoBuild, NoSite,
    MaxCommits,      \* bound: commits in the remote repository
    MaxBuildEvents   \* bound: triggered builds and crashes of the process

ASSUME SiteBuildAssumption ==
    /\ MaxCommits \in Nat \ {0} /\ MaxBuildEvents \in Nat
    /\ NoSite \notin Nat /\ NoBuild \notin Nat

Requests == 1..MaxBuildEvents   \* triggered builds, in the order they are asked for
StartupBuild == 0            \* the build StartupBuildAll may run
BuildIDs == Requests \union {StartupBuild}
Commits == 1..MaxCommits
Dirs == Commits \union {NoSite}

VARIABLES
    upstream,    \* newest commit of the remote branch
    repo,        \* commit checked out in DataDir
    root, old,   \* the site's root directory and root.old
    marker,      \* .last-build-commit
    step,        \* build -> where it is
    source,      \* build -> the commit its source, and its result, come from
    serverLock,  \* the build that holds the site's lock
    needsBuild,  \* what the startup check saw before it pulled
    quiet,       \* history: a container ended without a result, nothing deployed since
    overlap,     \* history: a pull happened while another build was under way
    buildEvents

diskVars == <<repo, root, old, marker>>
memoryVars == <<step, source, serverLock, needsBuild>>
buildHistory == <<quiet, overlap>>
siteVars == <<upstream, diskVars, memoryVars, buildHistory, buildEvents>>

SiteInit ==
    /\ upstream = 1
    /\ repo \in Finds("sites", {NoSite, 1}, NoSite) /\ root = repo /\ marker = repo
    /\ old = NoSite
    /\ step = [b \in BuildIDs |-> IF b = StartupBuild THEN "start" ELSE "none"]
    /\ source = [b \in BuildIDs |-> NoSite]
    /\ serverLock = NoBuild /\ needsBuild = FALSE
    /\ quiet = FALSE /\ overlap = FALSE
    /\ buildEvents = 0
-----------------------------------------------------------------------------
Ended == {"none", "start", "idle", "complete", "failed"}
Registered(b) == step[b] \notin Ended \union {"asked", "pull"}   \* it has a BuildState that has not ended
Working == {"clone", "run", "clearOld", "moveOld", "moveNew", "removeOld", "mark"}
Goto(b, s) == step' = [step EXCEPT ![b] = s]

\* Somebody pushes.
Push ==
    /\ upstream < MaxCommits /\ upstream' = upstream + 1
    /\ UNCHANGED <<diskVars, memoryVars, buildHistory, buildEvents>>

\* TriggerBuild: no build of this site is registered ...
Trigger(b) ==
    /\ step[b] = "none"
    /\ b = buildEvents + 1 /\ buildEvents' = b
    /\ \A c \in BuildIDs : ~ Registered(c)
    /\ Goto(b, "asked")
    /\ UNCHANGED <<upstream, diskVars, source, serverLock, needsBuild, buildHistory>>

\* ... so this one is, and waits for the lock.
Register(b) ==
    /\ step[b] = "asked"
    /\ Goto(b, "pending")
    /\ UNCHANGED <<upstream, diskVars, source, serverLock, needsBuild, buildHistory, buildEvents>>

\* Mutant: every build has a lock of its own.
LockOwn(b) ==
    /\ step[b] = "pending"
    /\ serverLock' = b
    /\ Goto(b, "clone")
    /\ UNCHANGED <<upstream, diskVars, source, needsBuild, buildHistory, buildEvents>>

Lock(b) ==
    /\ step[b] = "pending" /\ serverLock = NoBuild
    /\ serverLock' = b
    /\ Goto(b, "clone")
    /\ UNCHANGED <<upstream, diskVars, source, needsBuild, buildHistory, buildEvents>>

Release(b) == serverLock' = IF serverLock = b THEN NoBuild ELSE serverLock

\* CloneOrPull has changed the work tree, which other builds may be using.
Pulled(b) ==
    /\ repo' = upstream
    /\ overlap' = (overlap \/ \E c \in BuildIDs \ {b} : step[c] \in Working)

\* Mutant: the commit counts as built once it is pulled.
CloneMarks(b) ==
    /\ step[b] = "clone"
    /\ Pulled(b) /\ marker' = upstream
    /\ Goto(b, "run")
    /\ UNCHANGED <<upstream, root, old, source, serverLock, needsBuild, quiet, buildEvents>>

\* Step 1 of executeBuild.
Clone(b) ==
    /\ step[b] = "clone"
    /\ Pulled(b)
    /\ Goto(b, "run")
    /\ UNCHANGED <<upstream, root, old, marker, source, serverLock, needsBuild, quiet, buildEvents>>

\* Git, the profile, the image, the container or a transfer fails, or the
\* builder reports an error, which it may do after the site is in place too.
Fail(b) ==
    /\ step[b] \in {"clone", "run", "mark"}
    /\ Goto(b, "failed") /\ Release(b)
    /\ UNCHANGED <<upstream, diskVars, source, needsBuild, buildHistory, buildEvents>>

\* SEND_TARBALL_TO, OUTBOUND_TARBALL_READY: the work tree goes to the container,
\* the result comes back and is unpacked next to the root.
RunBuilder(b) ==
    /\ step[b] = "run"
    /\ source' = [source EXCEPT ![b] = repo]
    /\ Goto(b, "clearOld")
    /\ UNCHANGED <<upstream, diskVars, serverLock, needsBuild, buildHistory, buildEvents>>

\* The output ends, without error and without a result: the build goes on to
\* its end.
EndQuietly(b) ==
    /\ step[b] = "run"
    /\ quiet' = TRUE
    /\ Goto(b, "mark")
    /\ UNCHANGED <<upstream, diskVars, source, serverLock, needsBuild, overlap, buildEvents>>

\* deploySite, RemoveAll(root.old).
ClearOld(b) ==
    /\ step[b] = "clearOld"
    /\ old' = NoSite
    /\ Goto(b, "moveOld")
    /\ UNCHANGED <<upstream, repo, root, marker, source, serverLock, needsBuild, buildHistory, buildEvents>>

\* Rename of the root to root.old, if there is one; a directory that is not
\* empty is not replaced.
MoveOld(b) ==
    /\ step[b] = "moveOld"
    /\ \/ root = NoSite /\ UNCHANGED <<root, old, serverLock>> /\ Goto(b, "moveNew")
       \/ /\ root # NoSite /\ old = NoSite
          /\ old' = root /\ root' = NoSite
          /\ Goto(b, "moveNew") /\ UNCHANGED serverLock
       \/ /\ root # NoSite
          /\ Goto(b, "failed") /\ Release(b) /\ UNCHANGED <<root, old>>
    /\ UNCHANGED <<upstream, repo, marker, source, needsBuild, buildHistory, buildEvents>>

\* Rename of the new directory to the root.
MoveNew(b) ==
    /\ step[b] = "moveNew" /\ root = NoSite
    /\ root' = source[b]
    /\ quiet' = FALSE
    /\ Goto(b, "removeOld")
    /\ UNCHANGED <<upstream, repo, old, marker, source, serverLock, needsBuild, overlap, buildEvents>>

\* It fails (for certain if a root is there): root.old is put back, if that rename
\* does not fail as well, of which nobody takes notice.
MoveNewFails(b) ==
    /\ step[b] = "moveNew"
    /\ \/ old # NoSite /\ root = NoSite /\ root' = old /\ old' = NoSite
       \/ UNCHANGED <<root, old>>
    /\ Goto(b, "failed") /\ Release(b)
    /\ UNCHANGED <<upstream, repo, marker, source, needsBuild, buildHistory, buildEvents>>

RemoveOld(b) ==
    /\ step[b] = "removeOld"
    /\ old' = NoSite
    /\ Goto(b, "mark")
    /\ UNCHANGED <<upstream, repo, root, marker, source, serverLock, needsBuild, buildHistory, buildEvents>>

\* The head of the repository is noted as built, if git tells it and the file can
\* be written; the build is complete in any case.
Mark(b) ==
    /\ step[b] = "mark"
    /\ marker' \in {repo, marker}
    /\ Goto(b, "complete") /\ Release(b)
    /\ UNCHANGED <<upstream, repo, root, old, source, needsBuild, buildHistory, buildEvents>>

\* StartupBuildAll looks at the root, then pulls or gives up ...
StartupCheck ==
    /\ step[StartupBuild] = "start"
    /\ needsBuild' = (root = NoSite)
    /\ Goto(StartupBuild, "pull")
    /\ UNCHANGED <<upstream, diskVars, source, serverLock, buildHistory, buildEvents>>

StartupPull ==
    /\ step[StartupBuild] = "pull"
    /\ \/ /\ Pulled(StartupBuild)
          /\ Goto(StartupBuild, IF needsBuild \/ marker # upstream THEN "clone" ELSE "idle")
       \/ UNCHANGED <<repo, overlap>> /\ Goto(StartupBuild, "idle")
    /\ UNCHANGED <<upstream, root, old, marker, source, serverLock, needsBuild, quiet, buildEvents>>

\* The process ends; the next one runs the startup check.
BuildCrash ==
    /\ buildEvents < MaxBuildEvents /\ buildEvents' = buildEvents + 1
    /\ step' = [b \in BuildIDs |-> IF b = StartupBuild THEN "start" ELSE "none"]
    /\ source' = [b \in BuildIDs |-> NoSite]
    /\ serverLock' = NoBuild /\ needsBuild' = FALSE
    /\ UNCHANGED <<upstream, diskVars, buildHistory>>

Build(b) ==
    \/ Clone(b) \/ Fail(b) \/ RunBuilder(b) \/ EndQuietly(b)
    \/ ClearOld(b) \/ MoveOld(b) \/ MoveNew(b) \/ MoveNewFails(b) \/ RemoveOld(b) \/ Mark(b)

SiteNext ==
    /\ Running("sites")
    /\ \/ Push \/ StartupCheck \/ StartupPull \/ BuildCrash
       \/ \E b \in Requests : Trigger(b) \/ Register(b) \/ Lock(b)
       \/ \E b \in BuildIDs : Build(b)

SiteSpec == SiteInit /\ [][SiteNext]_siteVars
-----------------------------------------------------------------------------
SiteTypeOK ==
    /\ upstream \in Commits
    /\ repo \in Dirs /\ root \in Dirs /\ old \in Dirs /\ marker \in Dirs
    /\ step \in [BuildIDs -> Ended \union Working \union {"asked", "pending", "pull"}]
    /\ source \in [BuildIDs -> Dirs]
    /\ serverLock \in Requests \union {NoBuild}
    /\ needsBuild \in BOOLEAN /\ quiet \in BOOLEAN /\ overlap \in BOOLEAN
    /\ buildEvents \in 0..MaxBuildEvents

\* However many requests pass TriggerBuild's check before one of them is registered,
\* through builds that fail anywhere and crashes, at most one triggered build is at
\* work on the directories of the site (BuildManager.serverLock).
TriggeredOneByOne ==
    \A b, c \in Requests : step[b] \in Working /\ step[c] \in Working => b = c

\* The site is at least as new as the commit noted as built, so a start that finds
\* the noted commit has nothing to build; unless a container ended without a result
\* or builds overlapped.
MarkerHonest ==
    marker # NoSite /\ root # NoSite /\ ~ quiet /\ ~ overlap => root >= marker
=============================================================================
