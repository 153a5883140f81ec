---------------------------- MODULE AgentRollout ----------------------------
(***************************************************************************)
(* The canary panel of the deployment tab and the releases tab.  Both show *)
(* one canaryStatus; entering either tab fetches it again, and the slider  *)
(* edits it in place.  The versions of the agent are 1 and 2.              *)
(*                                                                         *)
(*   ro       canary: canaryStatus (v = 0: none); active: the version the  *)
(*            release list marks; open and detail: expandedRelease and the *)
(*            version whose artifact is shown; diff: showDiff.to and the   *)
(*            version of releaseDiffs; busy, deploying, diffing: the flags *)
(*            that disable buttons.  blurred and crossed record that the   *)
(*            status, or the detail, was asked for over another request, or that   *)
(*            a request about it failed                                    *)
(*   roReqs   requests in flight                                           *)
(*   canary   external: the canary the API server runs                     *)
(***************************************************************************)
EXTENDS AgentPage

VARIABLES ro, roReqs, canary

roVars == <<ro, roReqs, canary>>

Weights == {10, 50}
MaybeVersion == Versions \cup {0}
CanaryState == [v : MaybeVersion, w : Weights \cup {0}]
NoCanary == [v |-> 0, w |-> 0]

CanaryCommands == {"weight", "promote", "rollback"}
DeployCommands == {"release", "relist", "start", "startQuietly"}
StatusKinds == CanaryCommands \cup {"status", "start", "startQuietly"}

Rollout == [canary : CanaryState, active : MaybeVersion, open : MaybeVersion,
            detail : MaybeVersion, diff : MaybeVersion, diffOf : MaybeVersion,
            busy : BOOLEAN, deploying : MaybeVersion, diffing : BOOLEAN,
            blurred : BOOLEAN, crossed : BOOLEAN]

RoReq == [id : Ids, k : StatusKinds \cup DeployCommands \cup {"list", "detail", "diff"},
          v : MaybeVersion, w : Weights \cup {0}, st : {"asked", "ok", "failed"},
          got : CanaryState, active : MaybeVersion]

RolloutTypeOK == ro \in Rollout /\ roReqs \subseteq RoReq /\ canary \in CanaryState

RolloutClosed ==
    [canary |-> NoCanary, active |-> 0, open |-> 0, detail |-> 0, diff |-> 0, diffOf |-> 0,
     busy |-> FALSE, deploying |-> 0, diffing |-> FALSE, blurred |-> TRUE, crossed |-> FALSE]

RoReqNew(k, v, w) == [id |-> ops', k |-> k, v |-> v, w |-> w, st |-> "asked",
                      got |-> NoCanary, active |-> 0]
RoAsk(k, v, w) == roReqs' = roReqs \cup {RoReqNew(k, v, w)}
RoUsed(r)      == roReqs' = roReqs \ {r}

\* A request that reads or changes the canary is under way.
StatusUnderWay == \E r \in roReqs : r.k \in StatusKinds

RoHandles(r, kinds) == page = "agent" /\ r.k \in kinds /\ r.st # "asked" /\ Unattended

\* The effects of a tab: both tabs ask for the canary, the second also for
\* the list of releases (an error empties what is shown).
RolloutTab(t) ==
    IF t \in {"deployment", "releases"}
    THEN /\ roReqs' = roReqs \cup {RoReqNew("status", 0, 0)} \cup
                      (IF t = "releases" THEN {RoReqNew("list", 0, 0)} ELSE {})
         /\ ro' = [ro EXCEPT !.blurred = StatusUnderWay]
         /\ UNCHANGED canary
    ELSE UNCHANGED roVars

StatusArrives(r) ==
    /\ RoHandles(r, {"status"})
    /\ ro' = [ro EXCEPT !.canary = IF r.st = "ok" THEN r.got ELSE NoCanary,
                        !.blurred = @ \/ r.st = "failed"]
    /\ RoUsed(r)
    /\ UNCHANGED <<canary, remote>>

ReleasesArrive(r) ==
    /\ RoHandles(r, {"list"})
    /\ ro' = [ro EXCEPT !.active = IF r.st = "ok" THEN r.active ELSE 0]
    /\ RoUsed(r)
    /\ UNCHANGED <<canary, remote>>

(***************************************************************************)
(* The canary panel.                                                       *)
(***************************************************************************)
OnCanaryPanel == OnAgent /\ ag.tab = "deployment" /\ ro.canary.v # 0

\* Mutant: the slider goes all the way.
WeightSlidesFar ==
    /\ OnCanaryPanel
    /\ ro' = [ro EXCEPT !.canary.w = 100]
    /\ UNCHANGED <<roReqs, canary, remote>>

\* The slider writes into canaryStatus.
WeightSlides ==
    /\ OnCanaryPanel
    /\ \E w \in Weights \ {ro.canary.w} : ro' = [ro EXCEPT !.canary.w = w]
    /\ UNCHANGED <<roReqs, canary, remote>>

\* Mutant: the commands do not look at the flag they set.
CanaryCommandAnyway(k) ==
    /\ OnCanaryPanel
    /\ ro' = [ro EXCEPT !.busy = TRUE, !.blurred = @ \/ StatusUnderWay]
    /\ RoAsk(k, ro.canary.v, IF k = "weight" THEN ro.canary.w ELSE 0)
    /\ UNCHANGED <<canary, remote>>

\* Apply, Promote and Rollback share canaryLoading.
CanaryCommand(k) ==
    /\ OnCanaryPanel /\ ~ro.busy
    /\ ro' = [ro EXCEPT !.busy = TRUE, !.blurred = @ \/ StatusUnderWay]
    /\ RoAsk(k, ro.canary.v, IF k = "weight" THEN ro.canary.w ELSE 0)
    /\ UNCHANGED <<canary, remote>>

AdjustReturns(r) ==
    /\ RoHandles(r, {"weight"})
    /\ ro' = [ro EXCEPT !.busy = FALSE, !.blurred = @ \/ r.st = "failed",
                        !.canary = IF r.st = "ok" THEN r.got ELSE @]
    /\ RoUsed(r)
    /\ UNCHANGED <<canary, remote>>

\* Mutant: the promoted canary stays on the panel.
PromoteReturnsQuietly(r) ==
    /\ RoHandles(r, {"promote"})
    /\ ro' = [ro EXCEPT !.busy = FALSE, !.blurred = @ \/ r.st = "failed"]
    /\ RoUsed(r)
    /\ UNCHANGED <<canary, remote>>

PromoteReturns(r) ==
    /\ RoHandles(r, {"promote"})
    /\ ro' = [ro EXCEPT !.busy = FALSE, !.blurred = @ \/ r.st = "failed",
                        !.canary = IF r.st = "ok" THEN NoCanary ELSE @]
    /\ RoUsed(r)
    /\ UNCHANGED <<canary, remote>>

RollbackReturns(r) ==
    /\ RoHandles(r, {"rollback"})
    /\ ro' = [ro EXCEPT !.busy = FALSE, !.blurred = @ \/ r.st = "failed",
                        !.canary = IF r.st = "ok" THEN NoCanary ELSE @]
    /\ RoUsed(r)
    /\ UNCHANGED <<canary, remote>>

(***************************************************************************)
(* The releases tab.  A row offers its actions by the agent's version and  *)
(* the canary as shown; its detail, by the status in the list.  Only the   *)
(* version deployed last is disabled.                                      *)
(***************************************************************************)
OnReleases == OnAgent /\ ag.tab = "releases" /\ ro.active # 0 /\ ro.diff = 0
RowActions(v) == v # ag.seen.version /\ v # ro.canary.v
DetailActions(v) == ro.open = v /\ v # ro.active

DeployRelease(v) ==
    /\ OnReleases /\ ro.deploying # v
    /\ RowActions(v) \/ DetailActions(v)
    /\ ro' = [ro EXCEPT !.deploying = v]
    /\ RoAsk("release", v, 0)
    /\ UNCHANGED <<canary, remote>>

\* The list is fetched again before the button is released.
ReleaseDeployed(r) ==
    /\ RoHandles(r, {"release"})
    /\ IF r.st = "ok"
       THEN /\ roReqs' = (roReqs \ {r}) \cup {[r EXCEPT !.k = "relist", !.st = "asked"]}
            /\ UNCHANGED ro
       ELSE RoUsed(r) /\ ro' = [ro EXCEPT !.deploying = 0]
    /\ UNCHANGED <<canary, remote>>

ReleasesRefetched(r) ==
    /\ RoHandles(r, {"relist"})
    /\ ro' = [ro EXCEPT !.deploying = 0, !.active = IF r.st = "ok" THEN r.active ELSE @]
    /\ RoUsed(r)
    /\ UNCHANGED <<canary, remote>>

\* A canary started from the row shows up in canaryStatus; one started from
\* the detail does not.
StartCanary(v) ==
    /\ OnReleases /\ ro.deploying # v
    /\ \/ RowActions(v) /\ RoAsk("start", v, 10)
       \/ DetailActions(v) /\ RoAsk("startQuietly", v, 10)
    /\ ro' = [ro EXCEPT !.deploying = v, !.blurred = @ \/ StatusUnderWay]
    /\ UNCHANGED <<canary, remote>>

CanaryStarted(r) ==
    /\ RoHandles(r, {"start"})
    /\ ro' = [ro EXCEPT !.deploying = 0, !.blurred = @ \/ r.st = "failed",
                        !.canary = IF r.st = "ok" THEN r.got ELSE @]
    /\ RoUsed(r)
    /\ UNCHANGED <<canary, remote>>

CanaryStartedQuietly(r) ==
    /\ RoHandles(r, {"startQuietly"})
    /\ ro' = [ro EXCEPT !.deploying = 0, !.blurred = TRUE]
    /\ RoUsed(r)
    /\ UNCHANGED <<canary, remote>>

\* Mutant: closing a row keeps its artifact.
ToggleReleaseOnly(v) ==
    /\ OnReleases
    /\ IF ro.open = v
       THEN /\ ro' = [ro EXCEPT !.open = 0]
            /\ UNCHANGED roReqs
       ELSE /\ ro' = [ro EXCEPT !.open = v, !.crossed = \E r \in roReqs : r.k = "detail"]
            /\ RoAsk("detail", v, 0)
    /\ UNCHANGED <<canary, remote>>

\* Opening a row leaves the previous artifact in place until the answer.
ToggleRelease(v) ==
    /\ OnReleases
    /\ IF ro.open = v
       THEN /\ ro' = [ro EXCEPT !.open = 0, !.detail = 0]
            /\ UNCHANGED roReqs
       ELSE /\ ro' = [ro EXCEPT !.open = v, !.crossed = \E r \in roReqs : r.k = "detail"]
            /\ RoAsk("detail", v, 0)
    /\ UNCHANGED <<canary, remote>>

DetailArrives(r) ==
    /\ RoHandles(r, {"detail"})
    /\ ro' = [ro EXCEPT !.detail = IF r.st = "ok" THEN r.v ELSE 0, !.crossed = @ \/ ro.open = 0]
    /\ RoUsed(r)
    /\ UNCHANGED <<canary, remote>>

\* The dialog covers the page until it is closed.
DiffWithPrevious(v) ==
    /\ OnReleases /\ ro.open = v /\ v > 1 /\ ro.diff = 0
    /\ ro' = [ro EXCEPT !.diff = v, !.diffing = TRUE]
    /\ RoAsk("diff", v, 0)
    /\ UNCHANGED <<canary, remote>>

DiffArrives(r) ==
    /\ RoHandles(r, {"diff"})
    /\ ro' = [ro EXCEPT !.diffOf = IF r.st = "ok" THEN r.v ELSE 0, !.diffing = FALSE]
    /\ RoUsed(r)
    /\ UNCHANGED <<canary, remote>>

DiffCloses ==
    /\ OnAgent /\ ro.diff # 0
    /\ ro' = [ro EXCEPT !.diff = 0, !.diffOf = 0]
    /\ UNCHANGED <<roReqs, canary, remote>>

(***************************************************************************)
(* External: the API server.  A command that fails may have been executed. *)
(***************************************************************************)
RoEffect(r) ==
    CASE r.k = "release" -> /\ remote' = [remote EXCEPT !.version = r.v]
                                /\ UNCHANGED canary
      [] r.k = "promote" -> /\ canary.v # 0
                            /\ remote' = [remote EXCEPT !.version = canary.v]
                            /\ canary' = NoCanary
      [] r.k = "rollback" -> canary' = NoCanary /\ UNCHANGED remote
      [] r.k = "weight" -> /\ canary.v # 0
                           /\ canary' = [canary EXCEPT !.w = r.w]
                           /\ UNCHANGED remote
      [] r.k \in {"start", "startQuietly"} -> canary' = [v |-> r.v, w |-> r.w] /\ UNCHANGED remote
      [] OTHER -> UNCHANGED <<remote, canary>>

RoServed(r) ==
    /\ r.st = "asked" /\ Unattended
    /\ \/ /\ RoEffect(r)
          /\ roReqs' = (roReqs \ {r}) \cup
                {[r EXCEPT !.st = "ok",
                           !.got = IF r.k \in {"status", "weight", "start"} THEN canary' ELSE @,
                           !.active = IF r.k \in {"list", "relist"} THEN remote'.version ELSE @]}
       \/ /\ RoEffect(r) \/ UNCHANGED <<canary, remote>>
          /\ roReqs' = (roReqs \ {r}) \cup {[r EXCEPT !.st = "failed"]}
    /\ UNCHANGED ro

RolloutStep ==
    /\ page = "agent"
    /\ \/ WeightSlides \/ DiffCloses
       \/ \E k \in CanaryCommands : CanaryCommand(k)
       \/ \E v \in Versions : \/ DeployRelease(v) \/ StartCanary(v)
                              \/ ToggleRelease(v) \/ DiffWithPrevious(v)
       \/ \E r \in roReqs :
             \/ RoServed(r) \/ StatusArrives(r) \/ ReleasesArrive(r)
             \/ AdjustReturns(r) \/ PromoteReturns(r) \/ RollbackReturns(r)
             \/ ReleaseDeployed(r) \/ ReleasesRefetched(r)
             \/ CanaryStarted(r) \/ CanaryStartedQuietly(r) \/ DetailArrives(r) \/ DiffArrives(r)

\* A mount finds a canary or none, of an agent that runs.
Canaries(p, agent) ==
    {NoCanary} \cup (IF p = "agent" /\ agent.phase = "Running" THEN {[v |-> 2, w |-> 10]} ELSE {})

RolloutInit ==
    /\ ro = RolloutClosed /\ roReqs = {}
    /\ canary \in Canaries(page, remote)

RolloutSwitch ==
    IF Leaving("agent") \/ Entering("agent") \/ Reloading
    THEN /\ ro' = RolloutClosed /\ roReqs' = {}
         /\ canary' \in Canaries(page', remote')
    ELSE UNCHANGED roVars

(***************************************************************************)
(* Properties                                                              *)
(***************************************************************************)
\* Weight, promote and rollback exclude one another: canaryLoading lets one
\* command out at a time, is cleared by its own answer only, and so holds
\* exactly as long as the command is under way.  The flag of the releases tab
\* never locks a row without a command that will release it.
CanaryCommandsExclusive ==
    /\ Cardinality({r \in roReqs : r.k \in CanaryCommands}) <= 1
    /\ ro.busy <=> \E r \in roReqs : r.k \in CanaryCommands
    /\ ro.deploying # 0 => \E r \in roReqs : r.k \in DeployCommands

\* The panel shows the canary the server runs once nothing is in flight, when
\* no two of the requests about it overlapped and none failed.
CanaryPanelCurrent ==
    ~StatusUnderWay /\ ~ro.blurred => ro.canary.v = canary.v

\* An open release shows its own artifact once its answer is there, unless it
\* was opened while another one was still being fetched.
ReleaseDetailSettles ==
    ~ro.crossed /\ (\A r \in roReqs : r.k # "detail") => ro.detail \in {0, ro.open}
=============================================================================
