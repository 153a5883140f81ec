--------------------------- MODULE ReleasePipeline ---------------------------
(***************************************************************************)
(* The release pipeline of one agent: internal/release/handler.go on top   *)
(* of the GitHub state repository it writes through internal/gitstate.     *)
(*                                                                         *)
(* Every HTTP handler and event handler is a request served by a goroutine *)
(* of the API server.  A request is split at each call it makes to GitHub  *)
(* or to Kubernetes, because nothing serialises two requests about the     *)
(* same agent: between two calls of one request any call of another may    *)
(* happen.  A write is two calls, as in gitstate.Client.WriteFile: GET the *)
(* SHA of the file, then PUT with that SHA, which GitHub refuses when the  *)
(* file has changed in between.  The SHA is that of the blob, a hash of    *)
(* the content, so that here the content itself stands for it.             *)
(*                                                                         *)
(*   release     releases/v<n>.yaml of the agent, NoFile where absent      *)
(*   current     current.yaml of the agent                                 *)
(*   registered  the agent can be resolved (its CRD exists)                *)
(*   crdVersion  the release spec.version of its CRD names, 0 for none     *)
(*   triggers    triggerEvaluation goroutines that have not posted yet     *)
(*   evals       evaluations running at Corail, the agent runtime          *)
(*   edits       rejections and deletions so far (for MaxEdits)            *)
(*   passed      history: evaluations that reported a passing score        *)
(*   pc, op, ver, buf, sha                                                 *)
(*               per goroutine: the call it makes next, the operation it   *)
(*               runs, the version it is about, the artifact it holds, and *)
(*               the SHA its next PUT carries                              *)
(***************************************************************************)
EXTENDS Naturals, FiniteSets

CONSTANTS
    Procs,       \* goroutines that serve requests
    Payloads,    \* what BuildArtifact may record: configuration, changelog, time
    Governed,    \* the payloads whose governance.min_quality_score is above 0
    NoFile,      \* "this path does not exist", and its empty SHA
    MaxVersion,  \* bound: versions a run explores
    MaxEdits,    \* bound: rejections, deletions a run explores
    Faults,      \* GitHub, Kubernetes or Corail requests may fail
    Crashes,     \* the API server may crash and restart
    Offered,     \* bound: which of deploy, delete and sync clients ask for
    Redelivery   \* Corail may deliver an evaluation result more than once

Version == 1..MaxVersion

Status == {"pending_eval", "active", "rejected", "deleted"}

\* The part of an AgentArtifact that the pipeline reads or rewrites.  notes
\* counts the marks that rejections and deletions leave in the changelog.
Artifact == [version : Nat, payload : Payloads, status : Status, notes : Nat]

\* An evaluation that is asked for, and one that has come to an outcome.
Evaluation == Version \X Payloads
Verdict == Version \X Payloads \X BOOLEAN

Ops == {"none", "create", "approve", "reject", "deploy", "delete", "sync"}

Calls == {"idle", "list", "read", "rsha", "rput", "csha", "cput",
          "patch", "cread", "apply"}

ASSUME ConstantsAssumption ==
    /\ Governed \subseteq Payloads
    /\ MaxVersion \in Nat \ {0}
    /\ MaxEdits \in Nat
    /\ Offered \subseteq {"deploy", "delete", "sync"}
    /\ Faults \in BOOLEAN
    /\ Crashes \in BOOLEAN
    /\ Redelivery \in BOOLEAN
    /\ NoFile \notin Artifact

VARIABLES release, current, registered, crdVersion, triggers, evals, edits,
          passed, pc, op, ver, buf, sha

repo == <<release, current>>
cluster == <<registered, crdVersion>>
evaluation == <<triggers, evals, passed>>
procs == <<pc, op, ver, buf, sha>>
vars == <<repo, cluster, evaluation, edits, procs>>

-----------------------------------------------------------------------------
(* The files. *)

Exists(v) == release[v] # NoFile

\* highestVersion: the largest n for which the listing shows v<n>.yaml.
HighestVersion ==
    CHOOSE n \in 0..MaxVersion :
        /\ n = 0 \/ Exists(n)
        /\ \A v \in Version : Exists(v) => v <= n

\* Mutants: a number is reserved for each create in flight; numbering goes on
\* from current.yaml.
NextVersionsReserved == {HighestVersion + Cardinality({p \in Procs : op[p] = "create"})}
NextVersionsFromCurrent == {IF current = NoFile THEN 1 ELSE current.version + 1}

\* The version createReleaseForAgent uses next.  A listing that fails counts
\* as an empty directory.
NextVersions == {HighestVersion + 1} \cup (IF Faults THEN {1} ELSE {})

\* A new artifact as BuildArtifact leaves it; its version is set later.
NewArtifact(c) ==
    [version |-> 0, payload |-> c, status |-> "pending_eval", notes |-> 0]

\* Mutant: a failed evaluation leaves a status nobody knows.
StampedFailed(o, a) ==
    CASE o = "approve" -> [a EXCEPT !.status = "active"]
      [] o = "reject"  -> [a EXCEPT !.status = "failed", !.notes = a.notes + 1]
      [] o = "delete"  -> [a EXCEPT !.status = "deleted", !.notes = a.notes + 1]
      [] OTHER         -> a

\* What each operation turns the artifact it has read into.
Stamped(o, a) ==
    CASE o = "approve" -> [a EXCEPT !.status = "active"]
      [] o = "reject"  -> [a EXCEPT !.status = "rejected", !.notes = a.notes + 1]
      [] o = "delete"  -> [a EXCEPT !.status = "deleted", !.notes = a.notes + 1]
      [] OTHER         -> a

\* Mutant: the first version has no baseline and waits for nothing.
RequiresEvalLater(a) == a.payload \in Governed /\ a.version > 1

\* Whether a new release waits for an evaluation.
RequiresEval(a) == a.payload \in Governed

Tombstoned == current # NoFile /\ current.status = "deleted"

\* GitHub accepts a PUT that carries the SHA the file has now.
Accepts(file, s) == file = s

-----------------------------------------------------------------------------
(* Goroutines. *)

Idle(p) == pc[p] = "idle"

Goto(p, l) == pc' = [pc EXCEPT ![p] = l]

\* A request enters its handler: operation o about version v, holding a.
Begin(p, o, l, v, a) ==
    /\ Idle(p)
    /\ Goto(p, l)
    /\ op' = [op EXCEPT ![p] = o]
    /\ ver' = [ver EXCEPT ![p] = v]
    /\ buf' = [buf EXCEPT ![p] = a]
    /\ UNCHANGED sha

\* The handler returns; its locals are gone.
Finish(p) ==
    /\ Goto(p, "idle")
    /\ op' = [op EXCEPT ![p] = "none"]
    /\ ver' = [ver EXCEPT ![p] = 0]
    /\ buf' = [buf EXCEPT ![p] = NoFile]
    /\ sha' = [sha EXCEPT ![p] = NoFile]

\* The handler keeps artifact a and makes call l next.
Continue(p, l, a) ==
    /\ Goto(p, l)
    /\ buf' = [buf EXCEPT ![p] = a]
    /\ sha' = [sha EXCEPT ![p] = NoFile]
    /\ UNCHANGED <<op, ver>>

Creating == {p \in Procs : op[p] = "create"}

\* Bound: a create starts only where its version is sure to fit.
RoomForVersion == HighestVersion + Cardinality(Creating) < MaxVersion

Init ==
    /\ release = [v \in Version |-> NoFile]
    /\ current = NoFile
    /\ registered = FALSE
    /\ crdVersion = 0
    /\ triggers = {}
    /\ evals = {}
    /\ edits = 0
    /\ passed = {}
    /\ pc = [p \in Procs |-> "idle"]
    /\ op = [p \in Procs |-> "none"]
    /\ ver = [p \in Procs |-> 0]
    /\ buf = [p \in Procs |-> NoFile]
    /\ sha = [p \in Procs |-> NoFile]

-----------------------------------------------------------------------------
(* Creating a release. *)

\* agent.Handler.Create: the CRD is created, or patched when the agent is there
\* already, with a spec.version the client chose; AgentCreated or
\* AgentConfigChanged then runs createReleaseForAgent on the same goroutine (the
\* bus is synchronous).
RegisterAgent(p, c) ==
    /\ RoomForVersion
    /\ Begin(p, "create", "list", 0, NewArtifact(c))
    /\ registered' = TRUE
    /\ crdVersion' = 0
    /\ UNCHANGED <<repo, evaluation, edits>>

\* POST /releases, or AgentConfigChanged from a configuration save: the agent
\* is fetched and enriched from its CRD, and the artifact is built from it.
StartCreate(p, c) ==
    /\ registered
    /\ RoomForVersion
    /\ Begin(p, "create", "list", 0, NewArtifact(c))
    /\ UNCHANGED <<repo, cluster, evaluation, edits>>

\* highestVersion, and the version of the new release.
ListReleases(p) ==
    /\ pc[p] = "list"
    /\ \E n \in NextVersions \cap Version :
        /\ ver' = [ver EXCEPT ![p] = n]
        /\ buf' = [buf EXCEPT ![p].version = n]
    /\ Goto(p, "rsha")
    /\ UNCHANGED <<repo, cluster, evaluation, edits, op, sha>>

-----------------------------------------------------------------------------
(* Writing a release file: getFileSHA, then PUT. *)

\* Mutant: a create whose write failed is approved all the same.
AfterFailedReleaseWriteGoesOn(p) ==
    /\ IF op[p] \in {"create", "approve"}
       THEN Continue(p, "csha", buf[p])
       ELSE Finish(p)
    /\ UNCHANGED triggers

\* After a failed write of the release file.  createReleaseForAgent returns
\* the error; approveRelease and rejectRelease ignore it, and the former goes
\* on to current.yaml.
AfterFailedReleaseWrite(p) ==
    /\ IF op[p] = "approve" THEN Continue(p, "csha", buf[p]) ELSE Finish(p)
    /\ UNCHANGED triggers

\* Mutant: approveRelease forgets current.yaml.
AfterReleaseWriteOnly(p) ==
    IF op[p] = "create" /\ RequiresEval(buf[p])
    THEN triggers' = triggers \cup {<<ver[p], buf[p].payload>>} /\ Finish(p)
    ELSE Finish(p) /\ UNCHANGED triggers

\* After a write of the release file that succeeded.  A new release that needs
\* an evaluation gets a goroutine that asks for one and stays pending_eval;
\* one that needs none is approved by the same request.
AfterReleaseWrite(p) ==
    CASE op[p] = "create" /\ RequiresEval(buf[p]) ->
            /\ triggers' = triggers \cup {<<ver[p], buf[p].payload>>}
            /\ Finish(p)
      [] op[p] = "create" /\ ~RequiresEval(buf[p]) ->
            /\ Goto(p, "read")
            /\ op' = [op EXCEPT ![p] = "approve"]
            /\ buf' = [buf EXCEPT ![p] = NoFile]
            /\ sha' = [sha EXCEPT ![p] = NoFile]
            /\ UNCHANGED <<ver, triggers>>
      [] op[p] = "approve" -> Continue(p, "csha", buf[p]) /\ UNCHANGED triggers
      [] OTHER -> Finish(p) /\ UNCHANGED triggers

GetReleaseSHA(p) ==
    /\ pc[p] = "rsha"
    /\ \/ /\ Goto(p, "rput")
          /\ sha' = [sha EXCEPT ![p] = release[ver[p]]]
          /\ UNCHANGED <<op, ver, buf, triggers>>
       \/ Faults /\ AfterFailedReleaseWrite(p)
    /\ UNCHANGED <<repo, cluster, evals, passed, edits>>

\* The file is written when the SHA still matches; under faults the reply of
\* a PUT that took effect may be lost, or the PUT never arrive.
PutRelease(p) ==
    /\ pc[p] = "rput"
    /\ \/ /\ Accepts(release[ver[p]], sha[p])
          /\ release' = [release EXCEPT ![ver[p]] = buf[p]]
          /\ \/ AfterReleaseWrite(p)
             \/ Faults /\ AfterFailedReleaseWrite(p)
       \/ /\ Faults \/ ~Accepts(release[ver[p]], sha[p])
          /\ AfterFailedReleaseWrite(p)
          /\ UNCHANGED release
    /\ UNCHANGED <<current, cluster, evals, passed, edits>>

-----------------------------------------------------------------------------
(* Evaluation. *)

\* Mutant: an agent that is being evaluated is not evaluated again.
TriggerEvaluationOnce(e) ==
    /\ e \in triggers
    /\ triggers' = triggers \ {e}
    /\ \/ evals = {} /\ evals' = {<<e[1], e[2], TRUE>>} /\ UNCHANGED edits
       \/ evals # {} /\ UNCHANGED <<evals, edits>>
    /\ UNCHANGED <<repo, cluster, passed, procs>>

\* triggerEvaluation: one POST to Corail, never repeated.  Corail evaluates
\* the agent; the outcome is one the model leaves open.
TriggerEvaluation(e) ==
    /\ e \in triggers
    /\ triggers' = triggers \ {e}
    /\ \/ evals' = evals \cup {<<e[1], e[2], TRUE>>} /\ UNCHANGED edits
       \/ /\ edits < MaxEdits
          /\ evals' = evals \cup {<<e[1], e[2], FALSE>>}
          /\ edits' = edits + 1
       \/ (Faults \/ ~registered) /\ UNCHANGED <<evals, edits>>
    /\ UNCHANGED <<repo, cluster, passed, procs>>

\* EvalResult: Corail posts the outcome; approveRelease or rejectRelease runs.
EvalCallback(p, d) ==
    /\ d \in evals
    /\ registered
    /\ Begin(p, IF d[3] THEN "approve" ELSE "reject", "read", d[1], NoFile)
    /\ passed' = IF d[3] THEN passed \cup {<<d[1], d[2]>>} ELSE passed
    /\ \/ evals' = evals \ {d} /\ UNCHANGED edits
       \/ /\ Redelivery
          /\ d[3] \/ edits < MaxEdits
          /\ edits' = IF d[3] THEN edits ELSE edits + 1
          /\ UNCHANGED evals
    /\ UNCHANGED <<repo, cluster, triggers>>

\* The outcome never takes effect: the agent is gone and EvalResult answers
\* 404, or Corail stops or cannot reach the API server.
EvalLost(d) ==
    /\ d \in evals
    /\ ~registered \/ Faults \/ Crashes
    /\ evals' = evals \ {d}
    /\ UNCHANGED <<repo, cluster, triggers, passed, edits, procs>>

-----------------------------------------------------------------------------
(* Deploying a release, and reading one. *)

\* POST /releases/{version}/deploy, for a rollback as for a first deployment.
StartDeploy(p, v) ==
    /\ "deploy" \in Offered
    /\ registered
    /\ Begin(p, "deploy", "read", v, NoFile)
    /\ UNCHANGED <<repo, cluster, evaluation, edits>>

\* ReadFile of releases/v<ver>.yaml by approve, reject and deploy.
ReadRelease(p) ==
    /\ pc[p] = "read"
    /\ \/ /\ Exists(ver[p])
          /\ Continue(p, IF op[p] = "deploy" THEN "csha" ELSE "rsha",
                      Stamped(op[p], release[ver[p]]))
       \/ (Faults \/ ~Exists(ver[p])) /\ Finish(p)
    /\ UNCHANGED <<repo, cluster, evaluation, edits>>

\* The first half of WriteFile on current.yaml.  Deploy answers 500 when it
\* fails; approve and delete ignore it, and have nothing left to do.
GetCurrentSHA(p) ==
    /\ pc[p] = "csha"
    /\ \/ /\ Goto(p, "cput")
          /\ sha' = [sha EXCEPT ![p] = current]
          /\ UNCHANGED <<op, ver, buf>>
       \/ Faults /\ Finish(p)
    /\ UNCHANGED <<repo, cluster, evaluation, edits>>

AfterCurrentWrite(p) ==
    IF op[p] = "deploy" THEN Continue(p, "patch", buf[p]) ELSE Finish(p)

PutCurrent(p) ==
    /\ pc[p] = "cput"
    /\ \/ /\ Accepts(current, sha[p])
          /\ current' = buf[p]
          /\ AfterCurrentWrite(p) \/ (Faults /\ Finish(p))
       \/ /\ Faults \/ ~Accepts(current, sha[p])
          /\ Finish(p)
          /\ UNCHANGED current
    /\ UNCHANGED <<release, cluster, evaluation, edits>>

\* applyCRD: one merge patch that always sets spec.version, best effort.
PatchCRD(p) ==
    /\ pc[p] = "patch"
    /\ \/ registered /\ crdVersion' = buf[p].version
       \/ (Faults \/ ~registered) /\ UNCHANGED crdVersion
    /\ Finish(p)
    /\ UNCHANGED <<repo, registered, evaluation, edits>>

-----------------------------------------------------------------------------
(* Deleting the agent, and importing it again from the state repository. *)

\* agent.Handler.Delete removes the CRD; AgentDeleted then runs
\* onAgentDeleted, which writes the tombstone, on the same goroutine.
DeleteAgent(p) ==
    /\ "delete" \in Offered
    /\ registered
    /\ edits < MaxEdits
    /\ Begin(p, "delete", "cread", 0, NoFile)
    /\ registered' = FALSE
    /\ crdVersion' = 0
    /\ edits' = edits + 1
    /\ UNCHANGED <<repo, evaluation>>

\* POST /platform/sync: SyncHandler.syncAgent for this agent's directory.
StartSync(p) ==
    /\ "sync" \in Offered
    /\ Begin(p, "sync", "cread", 0, NoFile)
    /\ UNCHANGED <<repo, cluster, evaluation, edits>>

\* Mutant: syncAgent takes every current.yaml it finds.
ReadCurrentAnyStatus(p) ==
    /\ pc[p] = "cread"
    /\ \/ /\ current # NoFile
          /\ Continue(p, IF op[p] = "sync" THEN "apply" ELSE "csha",
                      Stamped(op[p], current))
       \/ (Faults \/ current = NoFile) /\ Finish(p)
    /\ UNCHANGED <<repo, cluster, evaluation, edits>>

\* onAgentDeleted returns when there is no current.yaml; syncAgent skips a
\* missing one and one that says "deleted".
ReadCurrent(p) ==
    /\ pc[p] = "cread"
    /\ \/ /\ current # NoFile
          /\ op[p] = "sync" => ~Tombstoned
          /\ Continue(p, IF op[p] = "sync" THEN "apply" ELSE "csha",
                      Stamped(op[p], current))
       \/ /\ \/ Faults
             \/ current = NoFile
             \/ op[p] = "sync" /\ Tombstoned
          /\ Finish(p)
    /\ UNCHANGED <<repo, cluster, evaluation, edits>>

\* The agent is looked up by slug and created when it is not there, with
\* spec.version "v<n>"; an agent that is there keeps its spec.version.
ApplySync(p) ==
    /\ pc[p] = "apply"
    /\ \/ ~registered /\ registered' = TRUE /\ crdVersion' = buf[p].version
       \/ (Faults \/ registered) /\ UNCHANGED cluster
    /\ Finish(p)
    /\ UNCHANGED <<repo, evaluation, edits>>

-----------------------------------------------------------------------------
(* The API server stops and starts again: every goroutine is lost, with the *)
(* triggers not posted yet; GitHub, the cluster and Corail go on.           *)
Crash ==
    /\ Crashes
    /\ triggers' = {}
    /\ pc' = [p \in Procs |-> "idle"]
    /\ op' = [p \in Procs |-> "none"]
    /\ ver' = [p \in Procs |-> 0]
    /\ buf' = [p \in Procs |-> NoFile]
    /\ sha' = [p \in Procs |-> NoFile]
    /\ UNCHANGED <<repo, cluster, evals, passed, edits>>

Request(p) ==
    \/ \E c \in Payloads : RegisterAgent(p, c) \/ StartCreate(p, c)
    \/ \E d \in evals : EvalCallback(p, d)
    \/ \E v \in Version : StartDeploy(p, v)
    \/ DeleteAgent(p)
    \/ StartSync(p)

Call(p) ==
    \/ ListReleases(p)
    \/ GetReleaseSHA(p)
    \/ PutRelease(p)
    \/ ReadRelease(p)
    \/ GetCurrentSHA(p)
    \/ PutCurrent(p)
    \/ PatchCRD(p)
    \/ ReadCurrent(p)
    \/ ApplySync(p)

Next ==
    \/ \E p \in Procs : Request(p) \/ Call(p)
    \/ \E e \in triggers : TriggerEvaluation(e)
    \/ \E d \in evals : EvalLost(d)
    \/ Crash

Spec == Init /\ [][Next]_vars

\* A goroutine that runs goes on; a trigger posts; Corail delivers what it
\* evaluated.  The server starts a goroutine for every request it receives, so
\* the delivery is not held up by the other requests, whatever Procs is.
Fairness ==
    /\ \A p \in Procs : WF_vars(Call(p))
    /\ \A e \in Evaluation : WF_vars(TriggerEvaluation(e))
    /\ \A d \in Verdict : SF_vars(\E p \in Procs : EvalCallback(p, d))

FairSpec == Spec /\ Fairness

-----------------------------------------------------------------------------
(* Properties. *)

\* Every file, copy and SHA is an artifact of the pipeline or absent: whatever
\* fails on the way, no handler writes or keeps an artifact with a status or a
\* version that the others do not know.
TypeOK ==
    /\ release \in [Version -> Artifact \cup {NoFile}]
    /\ current \in Artifact \cup {NoFile}
    /\ registered \in BOOLEAN
    /\ crdVersion \in 0..MaxVersion
    /\ triggers \subseteq Evaluation
    /\ evals \subseteq Verdict
    /\ edits \in Nat
    /\ passed \subseteq Evaluation
    /\ pc \in [Procs -> Calls]
    /\ op \in [Procs -> Ops]
    /\ ver \in [Procs -> 0..MaxVersion]
    /\ buf \in [Procs -> Artifact \cup {NoFile}]
    /\ sha \in [Procs -> Artifact \cup {NoFile}]

\* The versions of an agent are numbered without a gap from 1, whatever
\* creates race, fail or are cut off by a crash: the history that the audit
\* trail keeps has no hole, and the next version is one more than its length.
VersionsContiguous ==
    \A v \in Version : Exists(v) => \A u \in 1..v : Exists(u)

\* releases/v<n>.yaml always holds the artifact of version n, and current.yaml
\* always names a version whose release file is there, and so does spec.version
\* of the CRD: List, Deploy and Diff find what they point to, although approve,
\* deploy and sync write it from a copy that they read some calls before.
CurrentPointsToRelease ==
    /\ \A v \in Version : Exists(v) => release[v].version = v
    /\ current # NoFile => current.version \in Version /\ Exists(current.version)
    /\ crdVersion # 0 => Exists(crdVersion)

\* Where every payload is governed, a release says "active", and current.yaml
\* does, only after an evaluation of that version reported a passing score:
\* no race, lost reply, repeated callback or crash opens the evaluation gate.
GateHolds ==
    Governed = Payloads =>
        /\ \A v \in Version :
            Exists(v) /\ release[v].status = "active"
                => \E c \in Payloads : <<v, c>> \in passed
        /\ current # NoFile /\ current.status = "active"
                => \E c \in Payloads : <<current.version, c>> \in passed

AllIdle == \A p \in Procs : Idle(p)

\* A release file is never removed and never gets another payload: the
\* comment of createReleaseForAgent calls it immutable.
ReleaseImmutable ==
    [][\A v \in Version : Exists(v) =>
            /\ release'[v] # NoFile
            /\ release'[v].payload = release[v].payload]_vars

\* A governed release is active only after an evaluation of that version and
\* of that payload reported a passing score.
ActiveWasEvaluated ==
    \A v \in Version :
        Exists(v) /\ release[v].payload \in Governed /\ release[v].status = "active"
            => <<v, release[v].payload>> \in passed

\* When approveRelease returns from its last write the release says "active"
\* and current.yaml points to it, as its comment says ("promotes a release to
\* active in the audit log").
ApprovalTakesEffect ==
    [][\A p \in Procs :
            op[p] = "approve" /\ pc[p] = "cput" /\ pc'[p] = "idle" =>
                /\ release[ver[p]].status = "active"
                /\ current' = release[ver[p]]]_vars

\* When no request runs and the agent is gone, its current.yaml carries the
\* tombstone, so that Sync will not bring it back.
DeletedIsArchived ==
    AllIdle /\ ~registered /\ current # NoFile => Tombstoned

\* Sync leaves a deleted agent deleted: it never registers an agent whose
\* current.yaml carries the tombstone at that time.
SyncSkipsDeleted ==
    [][\A p \in Procs :
            op[p] = "sync" /\ ~registered /\ registered' /\ pc'[p] = "idle"
                => ~Tombstoned]_vars

\* The gate of the README: current.yaml never points to a governed release
\* that has not passed its evaluation.
CurrentPassedGate ==
    current # NoFile /\ ~Tombstoned /\ current.payload \in Governed
        => \E c \in Payloads : <<current.version, c>> \in passed

Pending(v) == Exists(v) /\ release[v].status = "pending_eval"

\* A release that createReleaseForAgent left to the evaluation is decided in
\* the end, unless the agent is deleted meanwhile: no race with another
\* request makes its verdict miss the release file for good.
PendingIsDecided ==
    \A e \in Evaluation :
        e \in triggers ~> (~Pending(e[1]) \/ ~registered)

\* When no request runs, an approved release implies a current.yaml.
ActiveImpliesCurrent ==
    AllIdle /\ (\E v \in Version : Exists(v) /\ release[v].status = "active")
        => current # NoFile
=============================================================================
