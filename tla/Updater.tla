------------------------------- MODULE Updater -------------------------------
(***************************************************************************)
(* Over-the-air updates: apply_update (updater.py), called by the web      *)
(* server or by the nightly update-check.sh, the health check that confirms*)
(* or rolls back an update (health-check.sh, 90 s after every boot), and   *)
(* the services of systemd/ that start and stop them.                      *)
(*                                                                         *)
(* The installation is a git work tree.  Every write under                 *)
(* /var/lib/framecast is atomic and synced (_atomic_write); a checkout is  *)
(* not, so a power loss in the middle leaves a tree that is no release.    *)
(* Time is abstracted: the health check may start at any time after a      *)
(* boot and take any time.                                                 *)
(* Left out: the preflight checks, and three files of which nothing depends*)
(* on what they hold: expected-sha, the stable copy of the health check,   *)
(* and the update-in-progress flag, which the health check only removes.   *)
(***************************************************************************)
EXTENDS Naturals

CONSTANTS
  MaxRelease,  \* bound: releases that appear; 1 is installed
  Broken,      \* releases whose server does not start
  Updaters,    \* who calls apply_update
  Faults,      \* what may go wrong in this instance
  MaxLosses    \* bound: power losses

Release == 1..MaxRelease
FaultKinds == {"write", "fetch", "git", "kiosk", "kill", "reboot"}

ASSUME UpdaterAssumption ==
  /\ MaxRelease \in Nat \ {0}
  /\ Broken \subseteq Release \ {1}
  /\ Updaters \subseteq {"web", "timer"}
  /\ Faults \subseteq FaultKinds
  /\ MaxLosses \in Nat

VARIABLES
  head,         \* the release checked out in INSTALL_DIR, or Untested
  edited,       \* tracked files differ from what is checked out
  web,          \* state of framecast.service
  rollbackTag,  \* rollback-tag, or NoTag
  rollbackSig,  \* the tag that rollback-sig signs, or NoTag
  pc,           \* pc[u]: the next step of u's apply_update
  current,      \* current[u]: the version apply_update found, or NoTag
  target,       \* target[u]: the tag it was called with, or NoTag
  health,       \* this boot's health check
  prev,         \* its PREV_TAG, or NoTag
  losses,       \* power losses so far
  proven,       \* history: the tree that last passed a health check
  spent,        \* history: a roll-back was cut short, or went to main
  hasty         \* history: an update began before the health check had judged
                \* this boot, or beside another

treeVars == <<head, edited>>
fileVars == <<rollbackTag, rollbackSig>>
updateVars == <<pc, current, target>>
healthVars == <<health, prev>>
historyVars == <<proven, spent, hasty>>
vars == <<treeVars, web, fileVars, updateVars, healthVars, losses, historyVars>>

-----------------------------------------------------------------------------
NoTag == 0

(* A tree that is no release: half of a checkout, or the tip of main.      *)
Untested == 0

UpdateSteps == {"idle", "tag", "sig", "fetch", "stop", "checkout",
                "post", "version", "reboot"}
HealthSteps == {"due", "wait", "rollback", "reboot", "done"}

(* The health check has set its EXIT trap.                                 *)
Trapped == {"wait", "rollback", "reboot"}

(* What systemd makes of framecast.service with this tree; a tree that is  *)
(* no release may start or not.                                            *)
Started(tree) ==
  CASE tree = Untested -> {"up", "failing"}
    [] tree \in Broken -> {"failing"}
    [] OTHER -> {"up"}

Init ==
  /\ head = 1 /\ edited = FALSE
  /\ web = "up"
  /\ rollbackTag = NoTag /\ rollbackSig = NoTag
  /\ pc = [u \in Updaters |-> "idle"]
  /\ current = [u \in Updaters |-> NoTag]
  /\ target = [u \in Updaters |-> NoTag]
  /\ health = "due" /\ prev = NoTag
  /\ losses = 0
  /\ proven = 1 /\ spent = FALSE /\ hasty = FALSE

\* Mutant: the rollback files of a confirmed update stay.
DropRollbackNot == UNCHANGED <<rollbackTag, rollbackSig>>

(* trap 'rm -f rollback-tag rollback-sig' EXIT                             *)
DropRollback == rollbackTag' = NoTag /\ rollbackSig' = NoTag

(* git checkout refuses when a file in which the two releases differ, as   *)
(* VERSION, was changed in the work tree.                                  *)
CanSwitch(u) == edited => target[u] = head

(* What a checkout of release r that is cut short can leave behind.        *)
Torn(r) == IF r = head THEN {head} ELSE {head, r, Untested}

TornBy(u) == IF pc[u] = "checkout" /\ CanSwitch(u) THEN Torn(target[u]) ELSE {head}
TornByRollBack == IF health = "rollback" THEN Torn(prev) ELSE {head}

TornByUpdates == UNION {TornBy(u) : u \in Updaters}

(* The work tree is one of these, with VERSION edited if it was and is not *)
(* written anew.                                                           *)
LeftWith(trees) ==
  /\ head' \in trees
  /\ edited' = (head' = Untested \/ (head' = head /\ edited))

(* Every process is gone and the services start again.                     *)
Booted ==
  /\ LeftWith(TornByRollBack \cup TornByUpdates)
  /\ web' \in Started(head')
  /\ pc' = [u \in Updaters |-> "idle"]
  /\ current' = [u \in Updaters |-> NoTag]
  /\ target' = [u \in Updaters |-> NoTag]
  /\ health' = "due" /\ prev' = NoTag

(* A health check that ends now leaves an untested tree and no way back.   *)
CutShort == health \in {"wait", "rollback"} /\ head # proven

(* An orderly reboot ends a running health check with SIGTERM, and bash    *)
(* runs its EXIT trap.                                                     *)
Reboot ==
  /\ Booted
  /\ IF health \in Trapped
     THEN DropRollback /\ spent' = (spent \/ CutShort)
     ELSE UNCHANGED <<rollbackTag, rollbackSig, spent>>
  /\ UNCHANGED <<losses, proven, hasty>>

-----------------------------------------------------------------------------
(* apply_update(tag)                                                       *)

Goto(u, step) == pc' = [pc EXCEPT ![u] = step]

(* The next step, when everything but pc and the named part stays.         *)
Step(u, from, to) ==
  /\ pc[u] = from
  /\ Goto(u, to)
  /\ UNCHANGED <<current, target, healthVars, losses, historyVars>>

(* apply_update returns, or its process ends.                              *)
Return(u) ==
  /\ Goto(u, "idle")
  /\ current' = [current EXCEPT ![u] = NoTag]
  /\ target' = [target EXCEPT ![u] = NoTag]
  /\ UNCHANGED <<healthVars, losses, historyVars>>

(* _version_newer                                                          *)
Newer(version) == {r \in Release : r > version}

(* get_current_version: a tree that is no release has the VERSION file of  *)
(* one.                                                                    *)
CurrentVersion == IF head = Untested THEN Release ELSE {head}

(* The health check of this boot is over, and nothing is waiting for one.  *)
Judged ==
  /\ health = "done"
  /\ head = proven
  /\ \A u \in Updaters : pc[u] = "idle"

(* The nightly check installs a newer release only; the request names any. *)
Wanted(u, version) == IF u = "timer" THEN Newer(version) ELSE Release

(* POST /api/update/apply, or the nightly check with auto-update enabled,  *)
(* which its timer starts right after a boot when the night was missed.    *)
(* Neither waits for the health check, nor for the other.                  *)
UpdateBegin(u) ==
  /\ pc[u] = "idle"
  /\ u = "web" => web = "up"
  /\ \E v \in CurrentVersion : \E r \in Wanted(u, v) :
       /\ current' = [current EXCEPT ![u] = v]
       /\ target' = [target EXCEPT ![u] = r]
  /\ Goto(u, "tag")
  /\ hasty' = (hasty \/ ~Judged)
  /\ UNCHANGED <<treeVars, web, fileVars, healthVars, losses, proven, spent>>

\* Mutant: the tag that is going to be installed is saved.
SavedTagNew(u) == target[u]

(* rollback_tag = f"v{current}"                                            *)
SavedTag(u) == current[u]

(* Saving the rollback tag fails: nothing else has happened yet.           *)
SaveFails(u) ==
  /\ "write" \in Faults
  /\ pc[u] \in {"tag", "sig"}
  /\ Return(u)
  /\ UNCHANGED <<treeVars, web, fileVars>>

SaveTag(u) ==
  /\ Step(u, "tag", "sig")
  /\ rollbackTag' = SavedTag(u)
  /\ UNCHANGED <<treeVars, web, rollbackSig>>

SaveSig(u) ==
  /\ Step(u, "sig", "fetch")
  /\ rollbackSig' = SavedTag(u)
  /\ UNCHANGED <<treeVars, web, rollbackTag>>

(* git fetch, and _verify_tag_sha of the fetched tag.                      *)
Fetch(u) ==
  /\ \/ Step(u, "fetch", "stop")
     \/ "fetch" \in Faults /\ pc[u] = "fetch" /\ Return(u)
  /\ UNCHANGED <<treeVars, web, fileVars>>

(* systemctl stop framecast, whose outcome is not looked at.  The nightly  *)
(* check is root and succeeds, ending an update the server itself was      *)
(* applying; user pi may restart the service but not stop it.              *)
StopService(u) ==
  /\ \/ /\ u = "timer"
        /\ pc[u] = "stop"
        /\ web' = "stopped"
        /\ LeftWith(TornByUpdates)
        /\ pc' = [v \in Updaters |-> IF v = u THEN "checkout" ELSE "idle"]
        /\ current' = [v \in Updaters |-> IF v = u THEN current[u] ELSE NoTag]
        /\ target' = [v \in Updaters |-> IF v = u THEN target[u] ELSE NoTag]
        /\ UNCHANGED <<healthVars, losses, historyVars>>
     \/ /\ u = "web"
        /\ Step(u, "stop", "checkout")
        /\ UNCHANGED <<treeVars, web>>
  /\ UNCHANGED fileVars

(* git checkout <tag>                                                      *)
Checkout(u) ==
  /\ CanSwitch(u)
  /\ Step(u, "checkout", "post")
  /\ head' = target[u]
  /\ UNCHANGED <<edited, web, fileVars>>

(* git refuses, fails or is killed after 30 s: the update is given up, with*)
(* the service in the state it is in.                                      *)
CheckoutFails(u) ==
  /\ ~CanSwitch(u) \/ "git" \in Faults
  /\ pc[u] = "checkout"
  /\ Return(u)
  /\ LeftWith(TornBy(u))
  /\ UNCHANGED <<web, fileVars>>

(* post-update.sh restarts the service at its end; a failure before that   *)
(* is only logged.  User pi always fails at systemctl daemon-reload.       *)
PostUpdate(u) ==
  /\ Step(u, "post", "version")
  /\ \/ u = "timer" /\ web' \in Started(head)
     \/ UNCHANGED web
  /\ UNCHANGED <<treeVars, fileVars>>

(* VERSION is written without the newline that the release's file ends in. *)
WriteVersion(u) ==
  /\ Step(u, "version", "reboot")
  /\ edited' = TRUE \/ ("write" \in Faults /\ UNCHANGED edited)
  /\ UNCHANGED <<head, web, fileVars>>

(* The caller of apply_update reboots; _do_reboot only logs a failure.     *)
RebootAfter(u) ==
  /\ pc[u] = "reboot"
  /\ \/ Reboot
     \/ /\ u = "web" /\ "reboot" \in Faults
        /\ Return(u)
        /\ UNCHANGED <<treeVars, web, fileVars>>

(* TimeoutStartSec=300 of framecast-update.service.                        *)
UpdateKilled(u) ==
  /\ "kill" \in Faults
  /\ u = "timer" /\ pc[u] # "idle"
  /\ Return(u)
  /\ LeftWith(TornBy(u))
  /\ UNCHANGED <<web, fileVars>>

UpdateWork(u) ==
  \/ SaveTag(u) \/ SaveSig(u) \/ Fetch(u) \/ StopService(u)
  \/ Checkout(u) \/ CheckoutFails(u) \/ PostUpdate(u) \/ WriteVersion(u)
  \/ RebootAfter(u)

-----------------------------------------------------------------------------
(* health-check.sh                                                         *)

(* Without a rollback tag there is nothing to do, and one whose signature  *)
(* is missing or wrong is removed.                                         *)
HealthBegin ==
  /\ health = "due"
  /\ IF rollbackTag # NoTag /\ rollbackSig = rollbackTag
     THEN /\ prev' = rollbackTag
          /\ health' = "wait"
          /\ UNCHANGED <<rollbackTag, rollbackSig>>
     ELSE /\ IF rollbackTag = NoTag THEN UNCHANGED <<rollbackTag, rollbackSig>>
             ELSE DropRollback
          /\ health' = "done"
          /\ UNCHANGED prev
  /\ UNCHANGED <<treeVars, web, updateVars, losses, historyVars>>

(* "Wait for Flask to be ready (not just systemd active)".                 *)
Ready == web = "up"

(* /api/status answers and the kiosk is active: "update confirmed".  What  *)
(* went wrong before is made up for, unless an update is still at work.    *)
HealthPasses ==
  /\ health = "wait"
  /\ Ready
  /\ health' = "done" /\ prev' = NoTag
  /\ DropRollback
  /\ proven' = head
  /\ spent' = FALSE
  /\ hasty' = (hasty /\ \E u \in Updaters : pc[u] # "idle")
  /\ UNCHANGED <<treeVars, web, updateVars, losses>>

HealthFails ==
  /\ health = "wait"
  /\ ~Ready \/ "kiosk" \in Faults
  /\ health' = "rollback"
  /\ UNCHANGED <<treeVars, web, fileVars, updateVars, prev, losses, historyVars>>

(* git checkout --force PREV_TAG, or else main, and git clean.             *)
RollBack ==
  /\ health = "rollback"
  /\ \/ head' = prev /\ UNCHANGED spent
     \/ "git" \in Faults /\ head' = Untested /\ spent' = TRUE
  /\ edited' = FALSE
  /\ health' = "reboot"
  /\ UNCHANGED <<web, fileVars, updateVars, prev, losses, proven, hasty>>

(* The script ends early: neither checkout succeeds (a lock file that an   *)
(* interrupted one left, say), or TimeoutStartSec=180 is over.             *)
HealthCut ==
  /\ \/ health = "rollback" /\ "git" \in Faults
     \/ health \in Trapped /\ "kill" \in Faults
  /\ health' = "done" /\ prev' = NoTag
  /\ LeftWith(TornByRollBack)
  /\ DropRollback
  /\ spent' = (spent \/ CutShort)
  /\ UNCHANGED <<web, updateVars, losses, proven, hasty>>

RollBackReboots == health = "reboot" /\ Reboot

HealthGoesOn == HealthPasses \/ HealthFails \/ RollBack \/ RollBackReboots
HealthWork == HealthBegin \/ HealthGoesOn

-----------------------------------------------------------------------------
(* POST /api/reboot                                                        *)
UserReboots == "web" \in Updaters /\ web = "up" /\ Reboot

(* StartLimitAction=reboot: the service failed ten times in ten minutes.   *)
StartLimitHit == web = "failing" /\ Reboot

(* The power fails.                                                        *)
PowerLoss ==
  /\ losses < MaxLosses
  /\ losses' = losses + 1
  /\ Booted
  /\ UNCHANGED <<fileVars, historyVars>>

Next ==
  \/ \E u \in Updaters : UpdateBegin(u) \/ UpdateWork(u) \/ SaveFails(u) \/ UpdateKilled(u)
  \/ HealthWork \/ HealthCut
  \/ UserReboots \/ StartLimitHit \/ PowerLoss

Spec == Init /\ [][Next]_vars

(* Scripts that run go on, and systemd restarts a failing server until it  *)
(* reaches its start limit.  The timer starts the health check 90 s after  *)
(* a boot that lasts so long: ten failed starts may reboot the frame       *)
(* first.  Nobody need start an update, press reboot or cut the power.     *)
FairSpec ==
  /\ Spec
  /\ \A u \in Updaters : WF_vars(UpdateWork(u))
  /\ WF_vars(web # "failing" /\ HealthBegin)
  /\ WF_vars(HealthGoesOn)
  /\ WF_vars(StartLimitHit)

-----------------------------------------------------------------------------
TypeOK ==
  /\ head \in Release \cup {Untested} /\ edited \in BOOLEAN
  /\ web \in {"up", "stopped", "failing"}
  /\ {rollbackTag, rollbackSig, prev} \subseteq Release \cup {NoTag}
  /\ spent \in BOOLEAN /\ hasty \in BOOLEAN
  /\ pc \in [Updaters -> UpdateSteps]
  /\ current \in [Updaters -> Release \cup {NoTag}]
  /\ target \in [Updaters -> Release \cup {NoTag}]
  /\ health \in HealthSteps
  /\ losses \in 0..MaxLosses
  /\ proven \in Release \cup {Untested}

(* A tree that no health check has passed yet comes with a signed way back *)
(* to the one that did, until that was used or lost with a health check    *)
(* that was cut short.                                                     *)
WayBack ==
  head # proven /\ ~spent =>
    \/ rollbackTag = proven /\ rollbackSig = proven
    \/ proven = Untested

(* Wherever the power fails, a call fails or a script is killed, there is  *)
(* a way back, once updates began only after the health check of their     *)
(* boot (the order of the writes in apply_update, the EXIT trap of         *)
(* health-check.sh).                                                       *)
RollbackReady == ~hasty => WayBack

(* "rolls back to the previous git tag" (health-check.sh): a roll-back     *)
(* goes to the release that was the last to pass a health check, never to  *)
(* one that files of an older update name, or to main when git fails.      *)
RollsBackToProven ==
  [][RollBack /\ ~hasty /\ proven # Untested => head' \in {proven, Untested}]_vars

(* "Failure mode: frame shows old version, not frame is bricked" (image    *)
(* design): whatever becomes of an update, the server is up in the end,    *)
(* even if no update begins too early.                                     *)
NotBricked == []<>(web = "up" \/ hasty)
=============================================================================
