-------------------------------- MODULE Update --------------------------------
(***************************************************************************)
(* `iapeer update` and `iapeer rollback`: the foundation leg               *)
(* (update/index.ts, install/index.ts, cli/index.ts) and the runtime leg   *)
(* of the cascade (runtime/update.ts, runtime/deploy.ts), with the launchd *)
(* job cycle both go through (launch/launchd.ts).                          *)
(*                                                                         *)
(* One operator runs one verb at a time, and may interrupt it between any  *)
(* two of its effects (Interrupt).  launchd runs the daemon from the       *)
(* binary on disk and relaunches it whenever it dies (KeepAlive), so the   *)
(* version the daemon runs, the version on disk and the version the        *)
(* daemon last wrote to its discovery file may all differ.  A version      *)
(* outside Good builds and signs, but its daemon never serves.             *)
(***************************************************************************)
EXTENDS Naturals, FiniteSets

CONSTANTS MaxVersion,  \* versions published to npm are 1 .. MaxVersion
          Good,        \* the versions whose daemon comes up healthy
          Peer,        \* the peers a runtime package declares
          MaxVerb      \* bound: verbs the operator runs

UpdateAssumption == /\ MaxVersion \in Nat \ {0}
                    /\ 1 \in Good
                    /\ Good \subseteq 1 .. MaxVersion
                    /\ MaxVerb \in Nat

Version == 1 .. MaxVersion
Absent  == 0

VARIABLES npm,       \* the latest version of the foundation on npm
          bin,       \* the version of ~/.local/bin/iapeer
          prev,      \* the version of iapeer.prev, the rollback target
          stamp,     \* the version whose bytes iapeer.healthy names
          daemon,    \* the version the launchd job runs; Absent: not loaded
          live,      \* the version in the daemon's discovery file
          proven,    \* versions whose daemon was seen healthy (history)
          pack,      \* the runtime package: its version on npm and its manifest stamp
          config,    \* per peer: the package version it was last provisioned from
          pc,        \* what the running verb does next
          cli,       \* its version, its target, and whether it is forced
          report,    \* what the last foundation leg reported
          verbs      \* verbs begun

foundation == <<npm, bin, prev, stamp, daemon, live, proven>>
runtime == <<pack, config>>
verb == <<pc, cli, report, verbs>>
vars == <<npm, bin, prev, stamp, daemon, live, proven, pack, config, pc, cli, report, verbs>>

Report == {"none", "already-latest", "healthy", "unhealthy", "not-loaded",
           "restart-failed", "install-failed", "rolled-back", "no-previous"}
Step == {"idle", "install", "swap", "cycle", "recycle", "runtimes", "deploy", "restart",
         "unroll", "undone"}

TypeOK ==
  /\ npm \in Version
  /\ bin \in Version
  /\ {prev, stamp, daemon, live} \subseteq Version \cup {Absent}
  /\ proven \subseteq Version
  /\ pack \in [latest : Version, manifest : Version]
  /\ config \in [Peer -> Version]
  /\ pc \in Step
  /\ cli \in [from : Version, target : Version, verb : {"update", "rollback"}]
  /\ report \in Report
  /\ verbs \in 0 .. MaxVerb

Init ==
  /\ npm = 1 /\ bin = 1 /\ prev = Absent /\ live = 1 /\ daemon = 1 /\ proven = {1}
  /\ stamp \in {Absent, 1}
  /\ pack = [latest |-> 1, manifest |-> 1]
  /\ config = [p \in Peer |-> 1]
  /\ pc = "idle" /\ report = "none" /\ verbs = 0
  /\ cli = [from |-> 1, target |-> 1, verb |-> "update"]

(***************************************************************************)
(* launchd and the daemon                                                  *)
(***************************************************************************)
\* A daemon that stops in order removes its discovery file, one that is
\* killed leaves it; a launched daemon of a good version writes its own.
Launched(v) == /\ daemon' = v
               /\ live' \in IF v \in Good THEN {v} ELSE {live, Absent}

\* The daemon dies, or a bad one keeps dying: launchd runs what is on disk now.
Relaunch == /\ daemon # Absent
            /\ Launched(bin)
            /\ UNCHANGED <<npm, bin, prev, stamp, proven>> /\ UNCHANGED runtime /\ UNCHANGED verb

(***************************************************************************)
(* cycleDaemon: bootout, wait until gone, bootstrap with retries.  A job   *)
(* that is not loaded is left alone.  It fails with the old job still      *)
(* there (bootout refused, or undead beyond the budget) or with the job    *)
(* gone (every bootstrap attempt failed).                                  *)
(***************************************************************************)
Cycled == daemon # Absent /\ Launched(bin)
NotLoaded == daemon = Absent /\ UNCHANGED <<daemon, live>>
CycleFailed == /\ daemon # Absent
               /\ \/ UNCHANGED <<daemon, live>>
                  \/ daemon' = Absent /\ live' \in {live, Absent}

(***************************************************************************)
(* installIapeer                                                           *)
(***************************************************************************)
\* shouldCopyCurrentToPrev: the outgoing binary becomes the rollback target
\* unless a stamp exists that names other bytes.
CopyCurrent == stamp \in {Absent, bin}

\* Mutant of Swap: the stamp of the replaced binary is left behind.
SwapKeepsStamp == /\ prev' = IF CopyCurrent THEN bin ELSE prev
                  /\ bin' = cli.target
                  /\ stamp' = IF stamp = Absent THEN Absent ELSE cli.target

\* Build, sign and verify to a temporary file, keep .prev, rename over the
\* binary, and remove the stamp: it must not vouch for the new bytes.
Swap == /\ prev' = IF CopyCurrent THEN bin ELSE prev
        /\ bin' = cli.target
        /\ stamp' = Absent

(***************************************************************************)
(* updateIapeer                                                            *)
(***************************************************************************)
\* Mutant of Stale: the live daemon's version is not looked at.
StaleNever == FALSE

\* A live daemon that runs another version than the installed one.
Stale == live # Absent /\ live # bin

\* The verb resolves the target on npm.  The installed version needs no
\* install: a stale daemon is restarted onto it, a current one left alone.
BeginUpdate(force) ==
  /\ pc = "idle" /\ verbs < MaxVerb
  /\ verbs' = verbs + 1
  /\ cli' = [from |-> bin, target |-> npm, verb |-> "update"]
  /\ \/ /\ npm = bin /\ ~force /\ ~Stale
        /\ pc' = "runtimes" /\ report' = "already-latest"
     \/ /\ npm = bin /\ ~force /\ Stale
        /\ pc' = "cycle" /\ report' = "none"
     \/ /\ npm # bin \/ force
        /\ pc' = "install" /\ report' = "none"
  /\ UNCHANGED foundation /\ UNCHANGED runtime

\* runInstall and the signature gate: either fails without touching the
\* binary, and then nothing is restarted and the cascade ends.
InstallFails == /\ pc = "install"
                /\ pc' = "idle" /\ report' = "install-failed"
                /\ UNCHANGED <<cli, verbs>> /\ UNCHANGED foundation /\ UNCHANGED runtime

Install == /\ pc = "install"
           /\ Swap
           /\ pc' = "cycle"
           /\ UNCHANGED <<cli, report, verbs, npm, daemon, live, proven>> /\ UNCHANGED runtime

\* settleDaemon: the verdict on the restarted daemon.  Healthy is stamped;
\* anything but a healthy or an unloaded daemon ends the cascade.
Settled(d) ==
  /\ d \in Good
  /\ stamp' = bin /\ proven' = proven \cup {d}
  /\ report' = "healthy" /\ pc' = "runtimes"
\* Mutant of NotHealthy: the stamp is written whatever the health check said.
NotHealthyStamped(d) ==
  /\ d \notin Good
  /\ report' = "unhealthy" /\ pc' = "idle"
  /\ stamp' = bin /\ UNCHANGED proven

NotHealthy(d) ==
  /\ d \notin Good
  /\ report' = "unhealthy" /\ pc' = "idle"
  /\ UNCHANGED <<stamp, proven>>

CycleDaemon ==
  /\ pc = "cycle"
  /\ \/ Cycled /\ (Settled(bin) \/ NotHealthy(bin))
     \/ /\ NotLoaded
        /\ report' = "not-loaded" /\ pc' = "runtimes"
        /\ UNCHANGED <<stamp, proven>>
     \/ /\ CycleFailed
        /\ report' = "restart-failed" /\ pc' = "idle"
        /\ UNCHANGED <<stamp, proven>>
  /\ UNCHANGED <<cli, verbs, npm, bin, prev>> /\ UNCHANGED runtime

(***************************************************************************)
(* updateRuntime: version gate, forced re-install, re-provision of every   *)
(* declared peer.  npx writes the manifest, with its version stamp, before *)
(* any peer is provisioned.                                                *)
(***************************************************************************)
RuntimeGate ==
  /\ pc = "runtimes"
  /\ \/ pack.manifest = pack.latest /\ pc' = "idle" /\ UNCHANGED pack
     \/ pack.manifest # pack.latest /\ pc' = "idle" /\ UNCHANGED pack  \* npm or npx fails
     \/ /\ pack.manifest # pack.latest
        /\ pack' = [pack EXCEPT !.manifest = pack.latest] /\ pc' = "deploy"
  /\ UNCHANGED <<cli, report, verbs, config>> /\ UNCHANGED foundation

\* deployRuntime provisions the declared peers in turn; an exception leaves
\* the rest as they were, and a failed one keeps the whole set unrestarted.
Deploy == /\ pc = "deploy"
          /\ \E done \in SUBSET Peer :
               /\ config' = [p \in Peer |-> IF p \in done THEN pack.manifest ELSE config[p]]
               /\ pc' = IF done = Peer THEN "restart" ELSE "idle"
          /\ UNCHANGED <<cli, report, verbs, pack>> /\ UNCHANGED foundation

\* The registered peers are stopped and started one by one.
RestartPeers == /\ pc = "restart"
                /\ pc' = "idle"
                /\ UNCHANGED <<cli, report, verbs>> /\ UNCHANGED foundation /\ UNCHANGED runtime

(***************************************************************************)
(* iapeer rollback: the bytes of .prev over the binary, then the same      *)
(* restart; only a healthy daemon is stamped.  .prev itself stays.         *)
(***************************************************************************)
BeginRollback ==
  /\ pc = "idle" /\ verbs < MaxVerb
  /\ verbs' = verbs + 1
  /\ cli' = [from |-> bin, target |-> bin, verb |-> "rollback"]
  /\ IF prev = Absent
     THEN pc' = "idle" /\ report' = "no-previous" /\ UNCHANGED bin
     ELSE pc' = "undone" /\ report' = "none" /\ bin' = prev
  /\ UNCHANGED <<npm, prev, stamp, daemon, live, proven>> /\ UNCHANGED runtime

RollbackRestart ==
  /\ pc = "undone"
  /\ pc' = "idle"
  /\ \/ /\ Cycled /\ bin \in Good
        /\ stamp' = bin /\ proven' = proven \cup {bin} /\ report' = "healthy"
     \/ /\ Cycled /\ bin \notin Good
        /\ report' = "unhealthy" /\ UNCHANGED <<stamp, proven>>
     \/ NotLoaded /\ report' = "rolled-back" /\ UNCHANGED <<stamp, proven>>
     \/ CycleFailed /\ report' = "restart-failed" /\ UNCHANGED <<stamp, proven>>
  /\ UNCHANGED <<cli, verbs, npm, bin, prev>> /\ UNCHANGED runtime

(***************************************************************************)
(* The world                                                               *)
(***************************************************************************)
Publish == /\ npm < MaxVersion /\ npm' = npm + 1
           /\ UNCHANGED <<bin, prev, stamp, daemon, live, proven>>
           /\ UNCHANGED runtime /\ UNCHANGED verb
PublishRuntime == /\ pack.latest < MaxVersion
                  /\ pack' = [pack EXCEPT !.latest = @ + 1]
                  /\ UNCHANGED config /\ UNCHANGED foundation /\ UNCHANGED verb

\* The operator, a closed terminal or a power loss ends the verb here.
Interrupt == /\ pc # "idle"
             /\ pc' = "idle" /\ report' = "none"
             /\ UNCHANGED <<cli, verbs>> /\ UNCHANGED foundation /\ UNCHANGED runtime

Next == \/ Relaunch \/ Publish \/ PublishRuntime \/ Interrupt
        \/ \E force \in BOOLEAN : BeginUpdate(force)
        \/ InstallFails \/ Install \/ CycleDaemon
        \/ RuntimeGate \/ Deploy \/ RestartPeers
        \/ BeginRollback \/ RollbackRestart

Spec == Init /\ [][Next]_vars

-------------------------------------------------------------------------------
(***************************************************************************)
(* Properties                                                              *)
(***************************************************************************)
\* What update says of the daemon is so: "already at version" is reported
\* only when the loaded daemon runs the installed binary, although an
\* earlier verb may have been cut off between the install and the restart,
\* and the daemon may have been relaunched from disk at any time.  Only a
\* daemon that serves can be judged, by the version it wrote: without a
\* discovery file update takes the installed version for granted, and the file
\* that a killed daemon left may name the installed version while launchd
\* keeps starting one that never serves.
SaysWhatRuns ==
  report = "already-latest" /\ pc = "runtimes" /\ daemon \in Good => live = Absent \/ daemon = bin

\* The healthy stamp vouches only for a version a health check passed
\* (install/index.ts: the stamp "must not vouch for the new bytes").
StampIsProven == stamp # Absent => stamp \in proven

\* What install/index.ts says of the rollback target: a retry after a broken
\* release cannot destroy it.  .prev, once there, is a version that was
\* proven healthy.
RollbackTargetProven == prev # Absent => prev \in proven
===============================================================================
