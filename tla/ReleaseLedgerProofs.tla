-------------------------- MODULE ReleaseLedgerProofs --------------------------
(***************************************************************************)
(* What the release pipeline promises where its known races and failures   *)
(* are excluded, for any number of goroutines, payloads and versions.      *)
(*                                                                         *)
(* The premises are named: ~Faults, ~Crashes, OneCreate (creates of one    *)
(* agent do not overlap) and NoOverlap (no two requests about it do).      *)
(* Each theorem takes the ones it needs, so that together they say which   *)
(* failure and which race every finding of the README depends on.          *)
(***************************************************************************)
EXTENDS ReleasePipelineLedger, ReleasePipelineProofs, SequenceTheorems

\* No two requests of the agent create a release at a time.
OneCreate == \A p, q \in Creating : p = q

\* No two requests of the agent run at a time.
NoOverlap == \A p, q \in Procs : ~Idle(p) /\ ~Idle(q) => p = q

-----------------------------------------------------------------------------
(* What one call does to the locals of its goroutine. *)

\* Goroutine p comes to call l of operation o about version v, and holds a.
Comes(p, l, o, v, a) == pc'[p] = l /\ op'[p] = o /\ ver'[p] = v /\ buf'[p] = a

LEMMA FinishAt ==
    ASSUME ProcsTypeOK, NEW p \in Procs, Finish(p)
    PROVE  Comes(p, "idle", "none", 0, NoFile)
BY DEF ProcsTypeOK, Finish, Goto, Comes

LEMMA BeginAt ==
    ASSUME ProcsTypeOK, NEW p \in Procs, NEW o, NEW l, NEW v, NEW a, Begin(p, o, l, v, a)
    PROVE  Comes(p, l, o, v, a)
BY DEF ProcsTypeOK, Begin, Goto, Comes

LEMMA ContinueAt ==
    ASSUME ProcsTypeOK, NEW p \in Procs, NEW l, NEW a, Continue(p, l, a)
    PROVE  Comes(p, l, op[p], ver[p], a)
BY DEF ProcsTypeOK, Continue, Goto, Comes

\* A request or call changes the locals of its own goroutine only.
LEMMA OthersStay ==
    ASSUME ProcsTypeOK, NEW p \in Procs, Request(p) \/ Call(p), NEW q \in Procs, q # p
    PROVE  /\ pc'[q] = pc[q] /\ op'[q] = op[q] /\ ver'[q] = ver[q]
           /\ buf'[q] = buf[q] /\ sha'[q] = sha[q]
<1> USE DEF ProcsTypeOK, Goto
<1>1. \A o, l, v, a : Begin(p, o, l, v, a) =>
        /\ pc'[q] = pc[q] /\ op'[q] = op[q] /\ ver'[q] = ver[q]
        /\ buf'[q] = buf[q] /\ sha'[q] = sha[q]
  BY DEF Begin
<1>2. \/ Finish(p) \/ \E l, a : Continue(p, l, a)
      => /\ pc'[q] = pc[q] /\ op'[q] = op[q] /\ ver'[q] = ver[q]
         /\ buf'[q] = buf[q] /\ sha'[q] = sha[q]
  BY DEF Finish, Continue
<1>3. CASE Request(p)
  BY <1>1, <1>3 DEF Request, RegisterAgent, StartCreate, EvalCallback, StartDeploy,
                    DeleteAgent, StartSync
<1>4. CASE ListReleases(p)
  BY <1>4 DEF ListReleases
<1>5. CASE GetReleaseSHA(p)
  BY <1>2, <1>5 DEF GetReleaseSHA, AfterFailedReleaseWrite
<1>6. CASE PutRelease(p)
  BY <1>2, <1>6 DEF PutRelease, AfterReleaseWrite, AfterFailedReleaseWrite
<1>7. CASE ReadRelease(p) \/ ReadCurrent(p)
  BY <1>2, <1>7 DEF ReadRelease, ReadCurrent
<1>8. CASE GetCurrentSHA(p)
  BY <1>2, <1>8 DEF GetCurrentSHA
<1>9. CASE PutCurrent(p)
  BY <1>2, <1>9 DEF PutCurrent, AfterCurrentWrite
<1>10. CASE PatchCRD(p) \/ ApplySync(p)
  BY <1>2, <1>10 DEF PatchCRD, ApplySync
<1> QED BY <1>3, <1>4, <1>5, <1>6, <1>7, <1>8, <1>9, <1>10 DEF Call

\* The status a request is about to write into a release file.
FileStatus(p) ==
    pc[p] \in {"rsha", "rput"} =>
        /\ op[p] = "create" => buf[p].status = "pending_eval"
        /\ op[p] = "approve" => buf[p].status = "active"
        /\ op[p] = "reject" => buf[p].status = "rejected"

FileStatuses == \A p \in Procs : FileStatus(p)

LEMMA StampedStatus ==
    ASSUME NEW a \in Artifact
    PROVE  /\ Stamped("approve", a).status = "active"
           /\ Stamped("reject", a).status = "rejected"
           /\ Stamped("delete", a).status = "deleted"
           /\ Stamped("deploy", a) = a
           /\ Stamped("sync", a) = a
BY DEF Stamped, Artifact

LEMMA InitFileStatuses == Init => FileStatuses
BY DEF Init, FileStatuses, FileStatus

\* Only three calls lead to a write of a release file.
LEMMA CallFileStatus ==
    ASSUME IInv, NEW p \in Procs, FileStatus(p), Call(p)
    PROVE  FileStatus(p)'
<1> USE IInvParts DEF ProcsInv, FileStatus
<1>1. CASE ListReleases(p)
  <2>1. PICK n : buf' = [buf EXCEPT ![p].version = n]
    BY <1>1 DEF ListReleases
  <2>2. pc[p] = "list" /\ op[p] = "create" /\ buf[p] \in Artifact /\ buf[p].status = "pending_eval"
    BY <1>1 DEF ListReleases, ProcInv
  <2>3. buf'[p] = [buf[p] EXCEPT !.version = n]
    BY <2>1 DEF ProcsTypeOK
  <2>4. buf'[p].status = "pending_eval" /\ op'[p] = "create"
    BY <1>1, <2>2, <2>3 DEF ListReleases, Artifact
  <2> QED BY <2>4
<1>2. CASE GetReleaseSHA(p)
  <2>1. CASE AfterFailedReleaseWrite(p)
    BY <2>1, FinishAt, ContinueAt DEF AfterFailedReleaseWrite, Comes
  <2>2. CASE UNCHANGED <<op, ver, buf>>
    BY <1>2, <2>2 DEF GetReleaseSHA
  <2> QED BY <1>2, <2>1, <2>2 DEF GetReleaseSHA
<1>3. CASE PutRelease(p)
  <2>1. CASE AfterFailedReleaseWrite(p)
    BY <2>1, FinishAt, ContinueAt DEF AfterFailedReleaseWrite, Comes
  <2>2. CASE AfterReleaseWrite(p)
    BY <2>2, FinishAt, ContinueAt DEF AfterReleaseWrite, Comes, Goto, ProcsTypeOK
  <2> QED BY <1>3, <2>1, <2>2 DEF PutRelease
<1>4. CASE ReadRelease(p)
  <2>1. CASE Finish(p)
    BY <2>1, FinishAt DEF Comes
  <2>2. CASE /\ Exists(ver[p])
             /\ Continue(p, IF op[p] = "deploy" THEN "csha" ELSE "rsha",
                         Stamped(op[p], release[ver[p]]))
    <3>1. op[p] \in {"approve", "reject", "deploy"} /\ release[ver[p]] \in Artifact
      BY <1>4, <2>2 DEF ReadRelease, ProcInv, Exists, StateTypeOK
    <3>2. Comes(p, IF op[p] = "deploy" THEN "csha" ELSE "rsha", op[p], ver[p],
                Stamped(op[p], release[ver[p]]))
      BY <2>2, ContinueAt DEF Comes
    <3> QED BY <3>1, <3>2, StampedStatus DEF Comes
  <2> QED BY <1>4, <2>1, <2>2 DEF ReadRelease
<1>5. CASE GetCurrentSHA(p)
  BY <1>5, FinishAt DEF GetCurrentSHA, Comes, Goto, ProcsTypeOK
<1>6. CASE PutCurrent(p)
  BY <1>6, FinishAt, ContinueAt DEF PutCurrent, AfterCurrentWrite, Comes
<1>7. CASE PatchCRD(p) \/ ApplySync(p)
  BY <1>7, FinishAt DEF PatchCRD, ApplySync, Comes
<1>8. CASE ReadCurrent(p)
  BY <1>8, FinishAt, ContinueAt DEF ReadCurrent, Comes
<1> QED BY <1>1, <1>2, <1>3, <1>4, <1>5, <1>6, <1>7, <1>8 DEF Call

\* A request begins with a listing or a read.
LEMMA RequestBegins ==
    ASSUME ProcsTypeOK, NEW p \in Procs, Request(p)
    PROVE  pc'[p] \in {"list", "read", "cread"} /\ UNCHANGED repo
BY BeginAt DEF Request, RegisterAgent, StartCreate, EvalCallback, StartDeploy, DeleteAgent,
               StartSync, Comes

LEMMA NextFileStatuses == IInv /\ FileStatuses /\ [Next]_vars => FileStatuses'
<1> SUFFICES ASSUME IInv, FileStatuses, [Next]_vars PROVE FileStatuses'
  OBVIOUS
<1>1. ASSUME NEW p \in Procs, Request(p) \/ Call(p) PROVE FileStatuses'
  <2>1. FileStatus(p)'
    BY <1>1, IInvParts, CallFileStatus, RequestBegins DEF FileStatuses, FileStatus, ProcsInv
  <2>2. \A q \in Procs : q # p => FileStatus(q)'
    BY <1>1, IInvParts, OthersStay DEF FileStatuses, FileStatus, ProcsInv
  <2> QED BY <2>1, <2>2 DEF FileStatuses
<1>2. CASE UNCHANGED procs
  BY <1>2 DEF procs, FileStatuses, FileStatus
<1>3. CASE Crash
  BY <1>3 DEF Crash, FileStatuses, FileStatus
<1> QED BY <1>1, <1>2, <1>3 DEF Next, vars, TriggerEvaluation, EvalLost

-----------------------------------------------------------------------------
(* An approved release implies a current.yaml. *)

HasActive == \E v \in Version : Exists(v) /\ release[v].status = "active"

\* An approval that has written the release file and not yet current.yaml.
Promotes(p) == op[p] = "approve" /\ pc[p] \in {"csha", "cput"}

PromotedInv ==
    /\ HasActive => current # NoFile \/ \E p \in Procs : Promotes(p)
    /\ \A p \in Procs : pc[p] = "cput" /\ sha[p] # NoFile => current # NoFile

LEMMA InitPromoted == Init => PromotedInv
BY DEF Init, PromotedInv, HasActive, Exists

\* current.yaml is never removed.
LEMMA CurrentKept == IInv /\ [Next]_vars /\ current # NoFile => current' # NoFile
<1> SUFFICES ASSUME IInv, [Next]_vars, current # NoFile PROVE current' # NoFile
  OBVIOUS
<1>1. ASSUME NEW p \in Procs, PutCurrent(p) PROVE current' # NoFile
  BY <1>1, ConstantsAssumption DEF PutCurrent, IInv, ProcInv, Refers
<1>2. ASSUME NEW p \in Procs, Request(p) PROVE current' # NoFile
  BY <1>2, RequestBegins, IInvParts DEF repo, ProcsInv
<1>3. ASSUME NEW p \in Procs, Call(p), ~PutCurrent(p) PROVE current' # NoFile
  BY <1>3 DEF Call, ListReleases, GetReleaseSHA, PutRelease, ReadRelease, GetCurrentSHA,
              PatchCRD, ReadCurrent, ApplySync, repo
<1> QED BY <1>1, <1>2, <1>3 DEF Next, vars, TriggerEvaluation, EvalLost, Crash, repo

\* Only a write of a release file can make a release active, and without faults
\* it is an approval that goes on to current.yaml.
LEMMA BecomesActive ==
    ASSUME IInv, FileStatuses, ~Faults, [Next]_vars, ~HasActive, HasActive'
    PROVE  \E p \in Procs : Promotes(p)'
<1>1. PICK p \in Procs : PutRelease(p)
  <2>1. release' # release
    BY DEF HasActive, Exists
  <2>2. ASSUME NEW p \in Procs, Request(p) PROVE FALSE
    BY <2>1, <2>2, RequestBegins, IInvParts DEF repo, ProcsInv
  <2>3. ASSUME NEW p \in Procs, Call(p), ~PutRelease(p) PROVE FALSE
    BY <2>1, <2>3 DEF Call, ListReleases, GetReleaseSHA, ReadRelease, GetCurrentSHA,
                      PutCurrent, PatchCRD, ReadCurrent, ApplySync, repo
  <2> QED BY <2>1, <2>2, <2>3 DEF Next, vars, TriggerEvaluation, EvalLost, Crash, repo
<1>2. /\ ver[p] \in Version /\ pc[p] = "rput" /\ op[p] \in {"create", "approve", "reject"}
      /\ buf[p] \in Artifact
  BY <1>1 DEF PutRelease, IInv, ProcInv, WritesNext
<1>3. release' = [release EXCEPT ![ver[p]] = buf[p]] /\ AfterReleaseWrite(p)
  <2>1. release' # release
    BY DEF HasActive, Exists
  <2> QED BY <1>1, <2>1 DEF PutRelease
<1>4. buf[p].status = "active"
  BY <1>2, <1>3 DEF HasActive, Exists, IInv, TypeOK
<1>5. op[p] = "approve"
  BY <1>2, <1>4 DEF FileStatuses, FileStatus
<1>6. Comes(p, "csha", "approve", ver[p], buf[p])
  BY <1>3, <1>5, ContinueAt, IInvParts DEF AfterReleaseWrite, ProcsInv
<1> QED BY <1>6 DEF Comes, Promotes

\* An approval on its way to current.yaml gets there, or finds that another
\* request has been there.
LEMMA PromotionGoesOn ==
    ASSUME IInv, PromotedInv, ~Faults, NEW p \in Procs, Promotes(p),
           Request(p) \/ Call(p), current' = NoFile
    PROVE  Promotes(p)'
<1> USE DEF Promotes
<1>1. CASE pc[p] = "csha"
  <2>1. GetCurrentSHA(p)
    BY <1>1 DEF Request, RegisterAgent, StartCreate, EvalCallback, StartDeploy, DeleteAgent,
                StartSync, Begin, Idle, Call, ListReleases, GetReleaseSHA, PutRelease,
                ReadRelease, PutCurrent, PatchCRD, ReadCurrent, ApplySync
  <2> QED BY <2>1, IInvParts DEF GetCurrentSHA, Goto, ProcsInv, ProcsTypeOK
<1>2. CASE pc[p] = "cput"
  <2>1. PutCurrent(p)
    BY <1>2 DEF Request, RegisterAgent, StartCreate, EvalCallback, StartDeploy, DeleteAgent,
                StartSync, Begin, Idle, Call, ListReleases, GetReleaseSHA, PutRelease,
                ReadRelease, GetCurrentSHA, PatchCRD, ReadCurrent, ApplySync
  <2>2. buf[p] # NoFile
    BY <1>2, ConstantsAssumption DEF IInv, ProcInv, Refers
  <2>3. current # sha[p] /\ current' = current
    BY <2>1, <2>2 DEF PutCurrent, Accepts
  <2> QED BY <1>2, <2>3 DEF PromotedInv
<1> QED BY <1>1, <1>2

LEMMA NextPromoted ==
    ~Faults /\ ~Crashes /\ IInv /\ FileStatuses /\ PromotedInv /\ [Next]_vars => PromotedInv'
<1> SUFFICES ASSUME ~Faults, ~Crashes, IInv, FileStatuses, PromotedInv, [Next]_vars
             PROVE  PromotedInv'
  OBVIOUS
<1>1. ASSUME NEW q \in Procs, pc'[q] = "cput", sha'[q] # NoFile PROVE current' # NoFile
  <2>1. ASSUME NEW p \in Procs, Request(p) \/ Call(p) PROVE current' # NoFile
    <3>1. CASE p # q
      BY <1>1, <2>1, <3>1, OthersStay, CurrentKept, IInvParts DEF PromotedInv, ProcsInv
    <3>2. CASE p = q /\ GetCurrentSHA(p)
      BY <1>1, <3>2, FinishAt, IInvParts DEF GetCurrentSHA, Comes, ProcsInv, ProcsTypeOK, repo
    <3>3. CASE p = q /\ ~GetCurrentSHA(p)
      BY <1>1, <2>1, <3>3, RequestBegins, FinishAt, ContinueAt, IInvParts
      DEF Comes, ProcsInv, ProcsTypeOK, Call, ListReleases, GetReleaseSHA, PutRelease,
          AfterReleaseWrite, AfterFailedReleaseWrite, ReadRelease, PutCurrent,
          AfterCurrentWrite, PatchCRD, ReadCurrent, ApplySync, Goto
    <3> QED BY <2>1, <3>1, <3>2, <3>3
  <2>2. CASE UNCHANGED procs
    BY <1>1, <2>2, CurrentKept DEF procs, PromotedInv
  <2> QED BY <2>1, <2>2 DEF Next, vars, TriggerEvaluation, EvalLost, Crash
<1>2. ASSUME HasActive', current' = NoFile PROVE \E q \in Procs : Promotes(q)'
  <2>1. CASE HasActive
    <3>1. PICK q \in Procs : Promotes(q)
      BY <1>2, <2>1, CurrentKept DEF PromotedInv
    <3>2. ASSUME NEW p \in Procs, Request(p) \/ Call(p) PROVE Promotes(q)'
      <4>1. CASE p = q
        BY <1>2, <3>1, <3>2, <4>1, PromotionGoesOn
      <4>2. CASE p # q
        BY <3>1, <3>2, <4>2, OthersStay, IInvParts DEF Promotes, ProcsInv
      <4> QED BY <4>1, <4>2
    <3>3. CASE UNCHANGED procs
      BY <3>1, <3>3 DEF procs, Promotes
    <3> QED BY <3>2, <3>3 DEF Next, vars, TriggerEvaluation, EvalLost, Crash
  <2> QED BY <1>2, <2>1, BecomesActive
<1> QED BY <1>1, <1>2 DEF PromotedInv

\* ActiveImpliesCurrent: where no call fails and the server does not crash, an
\* approval leaves a current.yaml behind, whatever other requests do meanwhile.
THEOREM ApprovalsLeaveCurrent ==
    ~Faults /\ ~Crashes /\ Spec => []ActiveImpliesCurrent
<1>1. PromotedInv => ActiveImpliesCurrent
  BY DEF PromotedInv, HasActive, Promotes, ActiveImpliesCurrent, AllIdle, Idle
<1> SUFFICES ASSUME ~Faults, ~Crashes
             PROVE  Spec => []ActiveImpliesCurrent
  OBVIOUS
<1>2. IInv /\ FileStatuses /\ PromotedInv /\ [Next]_vars => PromotedInv'
  BY NextPromoted
<1> QED BY <1>1, <1>2, InitFileStatuses, NextFileStatuses, InitPromoted, SpecIInv, PTL
        DEF Spec

-----------------------------------------------------------------------------
(* Where creates do not overlap, a release keeps its payload and is active *)
(* only after that payload was evaluated.                                  *)

\* An artifact that says "active" has a payload that passed, if it needs to.
Earned(a) ==
    a.status = "active" /\ a.payload \in Governed => <<a.version, a.payload>> \in passed

\* A trigger, an outcome or a passing score is about what the release file holds.
Names(e) == Exists(e[1]) /\ release[e[1]].payload = e[2]

OwnVerdicts == \A e \in triggers \cup evals \cup passed : Names(e)

OwnFiles ==
    /\ \A v \in Version : Exists(v) => Earned(release[v])
    /\ current # NoFile => Earned(current)

\* A create writes a file that is not there, the others one with their payload;
\* an approval that is about to read knows that what it will read has passed.
OwnProc(p) ==
    /\ pc[p] \in {"rsha", "rput"} /\ op[p] = "create" => ~Exists(ver[p])
    /\ pc[p] \in {"rsha", "rput"} /\ op[p] # "create"
         => buf[p].payload = release[ver[p]].payload
    /\ pc[p] = "read" /\ op[p] = "approve" =>
         /\ Exists(ver[p])
         /\ release[ver[p]].payload \in Governed
              => <<ver[p], release[ver[p]].payload>> \in passed
    /\ buf[p] # NoFile => Earned(buf[p])

OwnProcs == \A p \in Procs : OwnProc(p)

ReleasesOwn == OwnVerdicts /\ OwnFiles /\ OwnProcs

PayloadsKept ==
    \A v \in Version : Exists(v) =>
        release'[v] # NoFile /\ release'[v].payload = release[v].payload

LEMMA InitReleasesOwn == Init => ReleasesOwn
BY DEF Init, ReleasesOwn, OwnVerdicts, OwnFiles, OwnProcs, OwnProc, Exists

\* A write of a release file is the only step that touches one.
LEMMA ReleaseChanges ==
    ASSUME IInv, [Next]_vars
    PROVE  \/ release' = release
           \/ \E p \in Procs : /\ PutRelease(p)
                               /\ pc[p] = "rput" /\ WritesNext(p)
                               /\ release' = [release EXCEPT ![ver[p]] = buf[p]]
<1>1. ASSUME NEW p \in Procs, Request(p) PROVE release' = release
  BY <1>1, RequestBegins, IInvParts DEF repo, ProcsInv
<1>2. ASSUME NEW p \in Procs, Call(p), ~PutRelease(p) PROVE release' = release
  BY <1>2 DEF Call, ListReleases, GetReleaseSHA, ReadRelease, GetCurrentSHA,
              PutCurrent, PatchCRD, ReadCurrent, ApplySync, repo
<1>3. ASSUME NEW p \in Procs, PutRelease(p), release' # release
      PROVE  pc[p] = "rput" /\ WritesNext(p) /\ release' = [release EXCEPT ![ver[p]] = buf[p]]
  BY <1>3 DEF PutRelease, IInv, ProcInv
<1> QED BY <1>1, <1>2, <1>3 DEF Next, vars, TriggerEvaluation, EvalLost, Crash, repo

LEMMA PayloadsAreKept ==
    ASSUME IInv, OwnProcs, [Next]_vars
    PROVE  PayloadsKept
<1>1. CASE release' = release
  BY <1>1 DEF PayloadsKept, Exists
<1>2. ASSUME NEW p \in Procs, pc[p] = "rput", WritesNext(p),
             release' = [release EXCEPT ![ver[p]] = buf[p]]
      PROVE  PayloadsKept
  <2>1. ver[p] \in Version /\ buf[p] \in Artifact
    BY <1>2 DEF WritesNext
  <2>2. release'[ver[p]] = buf[p] /\ \A v \in Version : v # ver[p] => release'[v] = release[v]
    BY <1>2, <2>1 DEF IInv, TypeOK
  <2>3. Exists(ver[p]) => buf[p].payload = release[ver[p]].payload
    BY <1>2 DEF OwnProcs, OwnProc
  <2> QED BY <2>1, <2>2, <2>3, ConstantsAssumption DEF PayloadsKept, Exists
<1> QED BY <1>1, <1>2, ReleaseChanges

\* The file that a create is going to write is not there yet, as long as no
\* other create runs.
LEMMA CreatesItsFile ==
    ASSUME IInv, OneCreate, OwnProcs, NEW p \in Procs, Request(p) \/ Call(p),
           NEW q \in Procs, q # p, pc[q] \in {"rsha", "rput"}, op[q] = "create"
    PROVE  release'[ver[q]] = NoFile
<1>1. release[ver[q]] = NoFile /\ ver[q] \in Version
  BY DEF OwnProcs, OwnProc, Exists, IInv, ProcInv, WritesNext
<1>2. ASSUME NEW r \in Procs, PutRelease(r), pc[r] = "rput", WritesNext(r),
             release' = [release EXCEPT ![ver[r]] = buf[r]], ver[r] = ver[q]
      PROVE  FALSE
  <2>1. op[r] = "create"
    BY <1>1, <1>2 DEF WritesNext, Exists
  <2>2. r = q
    BY <2>1 DEF OneCreate, Creating
  <2>3. pc'[q] = pc[q] /\ sha'[q] = sha[q] /\ op'[q] = op[q]
    BY OthersStay, IInvParts DEF ProcsInv
  <2>4. pc'[q] \in {"idle", "csha", "read"}
    BY <1>2, <2>2, FinishAt, ContinueAt, IInvParts
    DEF PutRelease, AfterReleaseWrite, AfterFailedReleaseWrite, Goto, Comes, ProcsInv, ProcsTypeOK
  <2> QED BY <2>3, <2>4
<1>3. [Next]_vars
  BY DEF Next
<1> QED BY <1>1, <1>2, <1>3, ReleaseChanges DEF IInv, TypeOK

LEMMA VerdictsStayOwn ==
    ASSUME IInv, ReleasesOwn, [Next]_vars
    PROVE  OwnVerdicts'
<1>1. PayloadsKept
  BY PayloadsAreKept DEF ReleasesOwn
<1>2. \A e \in triggers \cup evals \cup passed :
        e[1] \in Version /\ release'[e[1]] # NoFile /\ release'[e[1]].payload = e[2]
  <2>1. \A e \in triggers \cup evals \cup passed : e[1] \in Version
    BY DEF IInv, TypeOK, Evaluation, Verdict
  <2> QED BY <1>1, <2>1 DEF PayloadsKept, ReleasesOwn, OwnVerdicts, Names
<1> DEFINE Own(e) == release'[e[1]] # NoFile /\ release'[e[1]].payload = e[2]
<1>3. SUFFICES \A e \in triggers' \cup evals' \cup passed' : Own(e)
  BY DEF OwnVerdicts, Names, Exists
<1>4. CASE triggers' \subseteq triggers /\ evals' \subseteq evals /\ passed' \subseteq passed
  BY <1>2, <1>4
<1>5. ASSUME NEW p \in Procs, PutRelease(p), ~(triggers' \subseteq triggers)
      PROVE  \A e \in triggers' \cup evals' \cup passed' : Own(e)
  <2>1. /\ triggers' = triggers \cup {<<ver[p], buf[p].payload>>}
        /\ release' = [release EXCEPT ![ver[p]] = buf[p]]
        /\ evals' = evals /\ passed' = passed
    BY <1>5 DEF PutRelease, AfterReleaseWrite, AfterFailedReleaseWrite
  <2>2. ver[p] \in Version /\ buf[p] \in Artifact
    BY <1>5 DEF PutRelease, IInv, ProcInv, WritesNext
  <2>3. release'[ver[p]] = buf[p]
    BY <2>1, <2>2 DEF IInv, TypeOK
  <2>4. Own(<<ver[p], buf[p].payload>>)
    BY <2>2, <2>3, ConstantsAssumption
  <2> QED BY <1>2, <2>1, <2>4
<1>6. ASSUME NEW e \in triggers, TriggerEvaluation(e)
      PROVE  \A d \in triggers' \cup evals' \cup passed' : Own(d)
  <2>1. Own(e)
    BY <1>2
  <2>2. /\ triggers' \subseteq triggers /\ passed' = passed
        /\ evals' \subseteq evals \cup {<<e[1], e[2], TRUE>>, <<e[1], e[2], FALSE>>}
    BY <1>6 DEF TriggerEvaluation
  <2>3. Own(<<e[1], e[2], TRUE>>) /\ Own(<<e[1], e[2], FALSE>>)
    BY <2>1
  <2>4. \A d \in triggers \cup evals \cup passed : Own(d)
    BY <1>2
  <2> HIDE DEF Own
  <2> QED BY <2>2, <2>3, <2>4
<1>7. ASSUME NEW p \in Procs, NEW d \in evals, EvalCallback(p, d)
      PROVE  \A e \in triggers' \cup evals' \cup passed' : Own(e)
  <2>1. Own(d)
    BY <1>2
  <2>2. /\ triggers' = triggers /\ evals' \subseteq evals
        /\ passed' \subseteq passed \cup {<<d[1], d[2]>>}
    BY <1>7 DEF EvalCallback
  <2> QED BY <1>2, <2>1, <2>2
<1> QED
  <2>1. ASSUME NEW p \in Procs, Request(p), ~\E d \in evals : EvalCallback(p, d)
        PROVE  UNCHANGED evaluation
    BY <2>1 DEF Request, RegisterAgent, StartCreate, StartDeploy, DeleteAgent, StartSync
  <2>2. ASSUME NEW p \in Procs, Call(p)
        PROVE  (PutRelease(p) \/ UNCHANGED triggers) /\ evals' = evals /\ passed' = passed
    BY <2>2 DEF Call, ListReleases, GetReleaseSHA, AfterFailedReleaseWrite, PutRelease, ReadRelease,
                GetCurrentSHA, PutCurrent, PatchCRD, ReadCurrent, ApplySync, evaluation
  <2> QED BY <1>4, <1>5, <1>6, <1>7, <2>1, <2>2 DEF Next, vars, evaluation, EvalLost, Crash

\* No score is forgotten.
LEMMA ScoresStay == [Next]_vars => passed \subseteq passed'
BY DEF Next, vars, evaluation, Request, RegisterAgent, StartCreate, EvalCallback, StartDeploy,
       DeleteAgent, StartSync, Call, ListReleases, GetReleaseSHA, PutRelease, ReadRelease,
       GetCurrentSHA, PutCurrent, PatchCRD, ReadCurrent, ApplySync, TriggerEvaluation,
       EvalLost, Crash

LEMMA FilesStayOwn ==
    ASSUME IInv, ReleasesOwn, [Next]_vars
    PROVE  OwnFiles'
<1>1. passed \subseteq passed'
  BY ScoresStay
<1>2. \A v \in Version : Exists(v)' => Earned(release[v])' \/ release'[v] # release[v]
  BY <1>1 DEF ReleasesOwn, OwnFiles, Exists, Earned
<1>3. \A v \in Version : Exists(v)' => Earned(release[v])'
  <2>1. CASE release' = release
    BY <1>2, <2>1
  <2>2. ASSUME NEW p \in Procs, pc[p] = "rput", WritesNext(p),
               release' = [release EXCEPT ![ver[p]] = buf[p]], NEW v \in Version, Exists(v)'
        PROVE  Earned(release[v])'
    <3>1. CASE v = ver[p]
      <4>1. release'[v] = buf[p] /\ buf[p] \in Artifact
        BY <2>2, <3>1 DEF IInv, TypeOK, WritesNext
      <4> QED BY <1>1, <4>1, ConstantsAssumption
              DEF ReleasesOwn, OwnProcs, OwnProc, Earned
    <3>2. CASE v # ver[p]
      BY <1>2, <2>2, <3>2 DEF IInv, TypeOK
    <3> QED BY <3>1, <3>2
  <2> QED BY <2>1, <2>2, ReleaseChanges
<1>4. current' # NoFile => Earned(current)'
  <2>1. CASE current' = current
    BY <1>1, <2>1 DEF ReleasesOwn, OwnFiles, Earned
  <2>2. ASSUME NEW p \in Procs, PutCurrent(p), current' # current PROVE Earned(current)'
    <3>1. current' = buf[p] /\ buf[p] \in Artifact
      BY <2>2 DEF PutCurrent, IInv, ProcInv, Refers
    <3> QED BY <1>1, <3>1, ConstantsAssumption DEF ReleasesOwn, OwnProcs, OwnProc, Earned
  <2>3. ASSUME NEW p \in Procs, Request(p) PROVE current' = current
    BY <2>3, RequestBegins, IInvParts DEF repo, ProcsInv
  <2>4. ASSUME NEW p \in Procs, Call(p), ~PutCurrent(p) PROVE current' = current
    BY <2>4 DEF Call, ListReleases, GetReleaseSHA, PutRelease, ReadRelease, GetCurrentSHA,
                PatchCRD, ReadCurrent, ApplySync, repo
  <2> QED BY <2>1, <2>2, <2>3, <2>4 DEF Next, vars, TriggerEvaluation, EvalLost, Crash, repo
<1> QED BY <1>3, <1>4 DEF OwnFiles

\* A goroutine that makes no step keeps what it knows.
LEMMA OtherOwn ==
    ASSUME IInv, OneCreate, ReleasesOwn, NEW p \in Procs, Request(p) \/ Call(p),
           NEW q \in Procs, q # p
    PROVE  OwnProc(q)'
<1>1. /\ pc'[q] = pc[q] /\ op'[q] = op[q] /\ ver'[q] = ver[q] /\ buf'[q] = buf[q]
  BY OthersStay, IInvParts DEF ProcsInv
<1>2. PayloadsKept /\ passed \subseteq passed'
  BY PayloadsAreKept, ScoresStay DEF Next, ReleasesOwn
<1>3. OwnProc(q) /\ ProcInv(q)
  BY DEF ReleasesOwn, OwnProcs, IInv
<1>4. pc[q] \in {"rsha", "rput"} /\ op[q] = "create" => release'[ver[q]] = NoFile
  BY CreatesItsFile DEF ReleasesOwn
<1>5. pc[q] \in {"rsha", "rput"} /\ op[q] # "create" =>
        buf[q].payload = release'[ver[q]].payload
  BY <1>2, <1>3 DEF PayloadsKept, OwnProc, ProcInv, WritesNext
<1>6. pc[q] = "read" /\ op[q] = "approve" =>
        /\ release'[ver[q]] # NoFile
        /\ release'[ver[q]].payload \in Governed
             => <<ver[q], release'[ver[q]].payload>> \in passed'
  BY <1>2, <1>3 DEF PayloadsKept, OwnProc, ProcInv, Exists
<1>7. buf[q] # NoFile => Earned(buf[q])'
  BY <1>1, <1>2, <1>3 DEF OwnProc, Earned
<1> QED BY <1>1, <1>4, <1>5, <1>6, <1>7 DEF OwnProc, Exists

\* A request enters with nothing, or with a new artifact; an approval with the
\* score that asked for it.
LEMMA RequestOwn ==
    ASSUME IInv, ReleasesOwn, NEW p \in Procs, Request(p)
    PROVE  OwnProc(p)'
<1>1. ASSUME NEW c \in Payloads, RegisterAgent(p, c) \/ StartCreate(p, c)
      PROVE  OwnProc(p)'
  <2>1. Comes(p, "list", "create", 0, NewArtifact(c))
    BY <1>1, BeginAt, IInvParts DEF RegisterAgent, StartCreate, ProcsInv
  <2>2. buf'[p].status = "pending_eval"
    BY <2>1, NewArtifactType DEF Comes
  <2> QED BY <2>1, <2>2 DEF Comes, OwnProc, Earned
<1>2. ASSUME NEW d \in evals, EvalCallback(p, d) PROVE OwnProc(p)'
  <2>1. Comes(p, "read", IF d[3] THEN "approve" ELSE "reject", d[1], NoFile)
    BY <1>2, BeginAt, IInvParts DEF EvalCallback, ProcsInv
  <2>2. release'[d[1]] # NoFile /\ release'[d[1]].payload = d[2]
    BY <1>2 DEF EvalCallback, repo, ReleasesOwn, OwnVerdicts, Names, Exists
  <2>3. d[3] => <<d[1], d[2]>> \in passed'
    BY <1>2 DEF EvalCallback
  <2> QED BY <2>1, <2>2, <2>3 DEF Comes, OwnProc, Exists
<1>3. CASE \/ \E v \in Version : StartDeploy(p, v)
           \/ DeleteAgent(p) \/ StartSync(p)
  BY <1>3, BeginAt, IInvParts
  DEF StartDeploy, DeleteAgent, StartSync, Comes, OwnProc, ProcsInv
<1> QED BY <1>1, <1>2, <1>3 DEF Request

\* The calls about a release file.
LEMMA ReleaseCallOwn ==
    ASSUME IInv, ReleasesOwn, ~Faults, NEW p \in Procs,
           ListReleases(p) \/ GetReleaseSHA(p) \/ PutRelease(p)
    PROVE  OwnProc(p)'
<1> USE IInvParts DEF ProcsInv
<1>1. CASE ListReleases(p)
  <2>1. PICK n \in 0..MaxVersion : \A v \in Version : Exists(v) <=> v <= n
    BY DEF FilesPrefix
  <2>2. HighestVersion = n
    BY <2>1, HighestVersionIs
  <2>3. /\ n + 1 \in Version
        /\ ver' = [ver EXCEPT ![p] = n + 1]
        /\ buf' = [buf EXCEPT ![p].version = n + 1]
        /\ pc' = [pc EXCEPT ![p] = "rsha"] /\ op' = op /\ release' = release
    BY <1>1, <2>2 DEF ListReleases, NextVersions, Goto, repo
  <2>4. pc[p] = "list" /\ op[p] = "create" /\ buf[p] \in Artifact /\ buf[p].status = "pending_eval"
    BY <1>1 DEF ListReleases, ProcInv
  <2>5. buf'[p] = [buf[p] EXCEPT !.version = n + 1] /\ ver'[p] = n + 1 /\ pc'[p] = "rsha"
    BY <2>3 DEF ProcsTypeOK
  <2>6. buf'[p].status = "pending_eval"
    BY <2>4, <2>5 DEF Artifact
  <2>7. ~Exists(n + 1)
    BY <2>1, <2>3 DEF Version
  <2> QED BY <2>3, <2>4, <2>5, <2>6, <2>7 DEF OwnProc, Earned, Exists
<1>2. CASE GetReleaseSHA(p)
  <2>1. pc'[p] = "rput" /\ UNCHANGED <<op, ver, buf, release, passed>> /\ pc[p] = "rsha"
    BY <1>2 DEF GetReleaseSHA, Goto, ProcsTypeOK, repo
  <2> QED BY <2>1 DEF ReleasesOwn, OwnProcs, OwnProc, Earned, Exists
<1>3. CASE PutRelease(p)
  <2>1. pc[p] = "rput" /\ WritesNext(p) /\ OwnProc(p) /\ passed' = passed
    BY <1>3 DEF PutRelease, ProcInv, ReleasesOwn, OwnProcs
  <2>2. CASE AfterFailedReleaseWrite(p)
    BY <2>1, <2>2, FinishAt, ContinueAt
    DEF AfterFailedReleaseWrite, Comes, OwnProc, WritesNext, Earned
  <2>3. CASE AfterReleaseWrite(p) /\ release' = [release EXCEPT ![ver[p]] = buf[p]]
    <3>1. release'[ver[p]] = buf[p] /\ buf[p] \in Artifact /\ buf[p] # NoFile
      BY <2>1, <2>3, ConstantsAssumption DEF WritesNext, StateTypeOK
    <3>2. CASE op[p] = "create" /\ ~RequiresEval(buf[p])
      <4>1. pc'[p] = "read" /\ ver'[p] = ver[p] /\ buf'[p] = NoFile
        BY <2>3, <3>2 DEF AfterReleaseWrite, Goto, ProcsTypeOK
      <4> QED BY <3>1, <3>2, <4>1 DEF OwnProc, Exists, RequiresEval
    <3>3. CASE op[p] # "create" \/ RequiresEval(buf[p])
      <4>1. Finish(p) \/ Continue(p, "csha", buf[p])
        BY <2>3, <3>3 DEF AfterReleaseWrite
      <4> QED BY <2>1, <3>1, <4>1, FinishAt, ContinueAt DEF Comes, OwnProc, Earned
    <3> QED BY <3>2, <3>3
  <2> QED BY <1>3, <2>2, <2>3 DEF PutRelease
<1> QED BY <1>1, <1>2, <1>3

\* The calls that read a file and those about current.yaml.
LEMMA CurrentCallOwn ==
    ASSUME IInv, ReleasesOwn, NEW p \in Procs,
           \/ ReadRelease(p) \/ GetCurrentSHA(p) \/ PutCurrent(p)
           \/ PatchCRD(p) \/ ReadCurrent(p) \/ ApplySync(p)
    PROVE  OwnProc(p)'
<1> USE IInvParts DEF ProcsInv
<1>1. passed' = passed /\ release' = release
  BY DEF ReadRelease, GetCurrentSHA, PutCurrent, PatchCRD, ReadCurrent, ApplySync,
         evaluation, repo
<1>2. CASE Finish(p)
  BY <1>2, FinishAt DEF Comes, OwnProc
<1>3. ASSUME ReadRelease(p), ~Finish(p) PROVE OwnProc(p)'
  <2> DEFINE a == release[ver[p]]
             o == op[p]
  <2>1. /\ pc[p] = "read" /\ Exists(ver[p]) /\ o \in {"approve", "reject", "deploy"}
        /\ ver[p] \in Version /\ a \in Artifact /\ a.version = ver[p]
    BY <1>3 DEF ReadRelease, ProcInv, Exists, StateTypeOK, FilesNamed
  <2>2. Comes(p, IF o = "deploy" THEN "csha" ELSE "rsha", o, ver[p], Stamped(o, a))
    BY <1>3, ContinueAt DEF ReadRelease
  <2>3. Earned(a) /\ OwnProc(p)
    BY <2>1 DEF ReleasesOwn, OwnFiles, OwnProcs
  <2>4. /\ Stamped(o, a).payload = a.payload /\ Stamped(o, a).version = ver[p]
        /\ o = "reject" => Stamped(o, a).status = "rejected"
        /\ o = "deploy" => Stamped(o, a) = a
    BY <2>1, StampedType, StampedStatus
  <2>5. Earned(Stamped(o, a))
    BY <2>1, <2>3, <2>4 DEF Earned, OwnProc
  <2> HIDE DEF o, a
  <2> QED BY <1>1, <2>1, <2>2, <2>4, <2>5 DEF Comes, OwnProc, Earned, a, o
<1>4. ASSUME GetCurrentSHA(p), ~Finish(p) PROVE OwnProc(p)'
  BY <1>1, <1>4 DEF GetCurrentSHA, Goto, ProcsTypeOK, ReleasesOwn, OwnProcs, OwnProc, Earned
<1>5. ASSUME PutCurrent(p), ~Finish(p) PROVE OwnProc(p)'
  <2>1. Continue(p, "patch", buf[p])
    BY <1>5 DEF PutCurrent, AfterCurrentWrite
  <2> QED BY <1>1, <2>1, ContinueAt DEF Comes, ReleasesOwn, OwnProcs, OwnProc, Earned
<1>6. ASSUME ReadCurrent(p), ~Finish(p) PROVE OwnProc(p)'
  <2>1. /\ current # NoFile /\ current \in Artifact /\ op[p] \in {"delete", "sync"}
        /\ \E l \in {"apply", "csha"} : Continue(p, l, Stamped(op[p], current))
    BY <1>6 DEF ReadCurrent, ProcInv, StateTypeOK
  <2>2. Earned(Stamped(op[p], current))
    BY <2>1, StampedStatus DEF ReleasesOwn, OwnFiles, Earned
  <2> QED BY <1>1, <2>1, <2>2, ContinueAt DEF Comes, OwnProc, Earned
<1> QED BY <1>2, <1>3, <1>4, <1>5, <1>6 DEF PatchCRD, ApplySync

LEMMA NextReleasesOwn ==
    IInv /\ OneCreate /\ ~Faults /\ ReleasesOwn /\ [Next]_vars => ReleasesOwn'
<1> SUFFICES ASSUME IInv, OneCreate, ~Faults, ReleasesOwn, [Next]_vars
             PROVE  OwnProcs'
  BY VerdictsStayOwn, FilesStayOwn DEF ReleasesOwn
<1>1. ASSUME NEW p \in Procs, Request(p) \/ Call(p) PROVE OwnProcs'
  <2>1. OwnProc(p)'
    BY <1>1, RequestOwn, ReleaseCallOwn, CurrentCallOwn DEF Call
  <2> QED BY <1>1, <2>1, OtherOwn DEF OwnProcs
<1>2. CASE UNCHANGED <<procs, release>>
  BY <1>2, ScoresStay DEF procs, ReleasesOwn, OwnProcs, OwnProc, Earned, Exists
<1>3. CASE Crash
  BY <1>3 DEF Crash, OwnProcs, OwnProc
<1> QED BY <1>1, <1>2, <1>3 DEF Next, vars, repo, TriggerEvaluation, EvalLost

\* ActiveWasEvaluated: as long as creates do not overlap and listings do not
\* fail, a governed release is active only after an evaluation of that version
\* and payload passed, however approvals, deployments, deletions, repeated
\* callbacks and crashes interleave with them.
THEOREM ActiveIsEvaluated ==
    ~Faults /\ Spec /\ []OneCreate => []ActiveWasEvaluated
<1> SUFFICES ASSUME ~Faults
             PROVE  Spec /\ []OneCreate => []ActiveWasEvaluated
  OBVIOUS
<1>1. IInv /\ OneCreate /\ ReleasesOwn /\ [Next]_vars => ReleasesOwn'
  BY NextReleasesOwn
<1>2. IInv /\ ReleasesOwn => ActiveWasEvaluated
  BY DEF IInv, FilesNamed, ReleasesOwn, OwnFiles, Earned, ActiveWasEvaluated
<1> QED BY <1>1, <1>2, InitReleasesOwn, SpecIInv, PTL DEF Spec

\* ReleaseImmutable: under the same premises no release file is removed or gets
\* another payload; the race of two creates is the only way to it.
THEOREM ReleasesAreImmutable ==
    ~Faults /\ Spec /\ []OneCreate => ReleaseImmutable
<1> SUFFICES ASSUME ~Faults
             PROVE  Spec /\ []OneCreate => ReleaseImmutable
  OBVIOUS
<1>1. IInv /\ OneCreate /\ ReleasesOwn /\ [Next]_vars => ReleasesOwn'
  BY NextReleasesOwn
<1>2. IInv /\ ReleasesOwn /\ [Next]_vars =>
        [\A v \in Version : Exists(v) =>
            /\ release'[v] # NoFile
            /\ release'[v].payload = release[v].payload]_vars
  BY PayloadsAreKept DEF PayloadsKept, ReleasesOwn
<1> QED BY <1>1, <1>2, InitReleasesOwn, SpecIInv, PTL DEF Spec, ReleaseImmutable

-----------------------------------------------------------------------------
(* Where nobody deploys, current.yaml has passed the gate.                 *)

Final == {"active", "deleted"}

\* Without deployments only approvals and deletions write current.yaml.
DecidedInv ==
    /\ current # NoFile => current.status \in Final
    /\ \A p \in Procs : /\ op[p] # "deploy"
                        /\ pc[p] \in {"csha", "cput"} => buf[p].status \in Final

LEMMA InitDecided == Init => DecidedInv
BY DEF Init, DecidedInv

LEMMA CallDecided ==
    ASSUME IInv, FileStatuses, DecidedInv, NEW p \in Procs, Call(p)
    PROVE  op'[p] # "deploy" /\ (pc'[p] \in {"csha", "cput"} => buf'[p].status \in Final)
<1> USE IInvParts DEF ProcsInv, DecidedInv
<1>1. CASE Finish(p)
  BY <1>1, FinishAt DEF Comes
<1>2. CASE ListReleases(p)
  BY <1>2 DEF ListReleases, Goto, ProcsTypeOK
<1>3. CASE GetReleaseSHA(p) \/ PutRelease(p)
  <2>1. pc[p] \in {"rsha", "rput"} /\ WritesNext(p) /\ FileStatus(p)
    BY <1>3 DEF GetReleaseSHA, PutRelease, ProcInv, FileStatuses
  <2>2. ASSUME Continue(p, "csha", buf[p]), op[p] = "approve"
        PROVE  op'[p] # "deploy" /\ buf'[p].status \in Final
    BY <2>1, <2>2, ContinueAt DEF Comes, FileStatus, Final
  <2>3. CASE AfterFailedReleaseWrite(p)
    BY <1>1, <2>2, <2>3, ContinueAt DEF AfterFailedReleaseWrite, Comes
  <2>4. CASE AfterReleaseWrite(p)
    BY <1>1, <2>2, <2>4, ContinueAt DEF AfterReleaseWrite, Comes, Goto, ProcsTypeOK
  <2>5. CASE Goto(p, "rput") /\ UNCHANGED op
    BY <2>5 DEF Goto, ProcsTypeOK
  <2> QED BY <1>3, <2>3, <2>4, <2>5 DEF GetReleaseSHA, PutRelease
<1>4. CASE ReadRelease(p)
  <2>1. ASSUME NEW a, Continue(p, "rsha", a)
        PROVE  op'[p] # "deploy" /\ pc'[p] = "rsha"
    BY <2>1, ContinueAt DEF Comes
  <2> QED BY <1>1, <1>4, <2>1 DEF ReadRelease
<1>5. CASE GetCurrentSHA(p)
  BY <1>1, <1>5 DEF GetCurrentSHA, Goto, ProcsTypeOK
<1>6. CASE PutCurrent(p)
  BY <1>1, <1>6 DEF PutCurrent, AfterCurrentWrite
<1>7. CASE ReadCurrent(p) /\ ~Finish(p)
  <2>1. /\ op[p] \in {"delete", "sync"} /\ current \in Artifact
        /\ Continue(p, IF op[p] = "sync" THEN "apply" ELSE "csha", Stamped(op[p], current))
    BY <1>7 DEF ReadCurrent, ProcInv, StateTypeOK
  <2>2. Stamped("delete", current).status \in Final
    BY <2>1, StampedStatus DEF Final
  <2> QED BY <2>1, <2>2, ContinueAt DEF Comes
<1>8. CASE PatchCRD(p) \/ ApplySync(p)
  BY <1>1, <1>8 DEF PatchCRD, ApplySync
<1> QED BY <1>1, <1>2, <1>3, <1>4, <1>5, <1>6, <1>7, <1>8 DEF Call

LEMMA NextDecided ==
    ASSUME "deploy" \notin Offered, IInv, FileStatuses, DecidedInv, [Next]_vars
    PROVE  DecidedInv'
<1>1. current' # NoFile => current'.status \in Final
  <2>1. ASSUME NEW p \in Procs, PutCurrent(p), current' # current
        PROVE  current'.status \in Final
    BY <2>1 DEF PutCurrent, DecidedInv
  <2>2. ASSUME NEW p \in Procs, Request(p) PROVE current' = current
    BY <2>2, RequestBegins, IInvParts DEF repo, ProcsInv
  <2>3. ASSUME NEW p \in Procs, Call(p), ~PutCurrent(p) PROVE current' = current
    BY <2>3 DEF Call, ListReleases, GetReleaseSHA, PutRelease, ReadRelease, GetCurrentSHA,
                PatchCRD, ReadCurrent, ApplySync, repo
  <2> QED BY <2>1, <2>2, <2>3
          DEF Next, vars, TriggerEvaluation, EvalLost, Crash, repo, DecidedInv
<1> DEFINE Decided(q) == /\ op'[q] # "deploy"
                         /\ pc'[q] \in {"csha", "cput"} => buf'[q].status \in Final
<1>2. ASSUME NEW p \in Procs, Request(p) \/ Call(p), NEW q \in Procs PROVE Decided(q)
  <2>1. CASE q # p
    BY <1>2, <2>1, OthersStay, IInvParts DEF DecidedInv, ProcsInv
  <2>2. CASE q = p /\ Request(p)
    BY <1>2, <2>2, BeginAt, IInvParts
    DEF Request, RegisterAgent, StartCreate, EvalCallback, StartDeploy, DeleteAgent, StartSync,
        Comes, ProcsInv
  <2>3. CASE q = p /\ Call(p)
    BY <2>3, CallDecided
  <2> QED BY <1>2, <2>1, <2>2, <2>3
<1>3. ASSUME NEW q \in Procs, UNCHANGED procs PROVE Decided(q)
  BY <1>3 DEF procs, DecidedInv
<1>4. ASSUME NEW q \in Procs, Crash PROVE Decided(q)
  BY <1>4 DEF Crash
<1> QED BY <1>1, <1>2, <1>3, <1>4 DEF Next, vars, TriggerEvaluation, EvalLost, DecidedInv

\* CurrentPassedGate: where nobody calls deploy, the gate of the README is real:
\* current.yaml names a governed release only after it passed its evaluation.
THEOREM GateWithoutDeploy ==
    ~Faults /\ "deploy" \notin Offered /\ Spec /\ []OneCreate => []CurrentPassedGate
<1> SUFFICES ASSUME ~Faults, "deploy" \notin Offered
             PROVE  Spec /\ []OneCreate => []CurrentPassedGate
  OBVIOUS
<1>1. IInv /\ OneCreate /\ ReleasesOwn /\ [Next]_vars => ReleasesOwn'
  BY NextReleasesOwn
<1>2. IInv /\ FileStatuses /\ DecidedInv /\ [Next]_vars => DecidedInv'
  BY NextDecided
<1>3. IInv /\ ReleasesOwn /\ DecidedInv => CurrentPassedGate
  BY DEF IInv, TypeOK, Artifact, ReleasesOwn, OwnFiles, Earned, DecidedInv, Final,
         CurrentPassedGate, Tombstoned
<1> QED BY <1>1, <1>2, <1>3, InitReleasesOwn, InitFileStatuses, NextFileStatuses, InitDecided,
           SpecIInv, PTL DEF Spec

-----------------------------------------------------------------------------
(* Where no two requests overlap, the pipeline is the ledger.              *)

Outcome(b) == IF b THEN "active" ELSE "rejected"

Result(o) == IF o = "approve" THEN "active" ELSE "rejected"

\* Release v waits for its decision, or has been decided as s before.
Undecided(v, s) == Exists(v) /\ release[v].status \in {"pending_eval", s}

\* Deciding v as s contradicts nothing that is under way.
Settling(v, s) ==
    /\ Undecided(v, s)
    /\ \A e \in triggers : e[1] # v
    /\ \A d \in evals : d[1] = v => Outcome(d[3]) = s

\* Each release is asked about once, and all outcomes of it agree.
EvalsInv ==
    /\ \A e \in triggers : Exists(e[1]) /\ release[e[1]].status = "pending_eval"
    /\ \A e, f \in triggers : e[1] = f[1] => e = f
    /\ \A d \in evals : Undecided(d[1], Outcome(d[3]))
    /\ \A d, e \in evals : d[1] = e[1] => d[3] = e[3]
    /\ \A e \in triggers, d \in evals : d[1] # e[1]

\* What a request that runs alone knows of the release file...
AtRelease(p) ==
    /\ pc[p] \in {"read", "rsha", "rput"} /\ op[p] \in {"approve", "reject"}
         => Settling(ver[p], Result(op[p]))
    /\ pc[p] \in {"rsha", "rput"} =>
         /\ op[p] = "create" => ~Exists(ver[p])
         /\ op[p] # "create" => buf[p] = Stamped(op[p], release[ver[p]])
    /\ pc[p] = "rput" => sha[p] = release[ver[p]]

\* ...and of current.yaml: it holds a copy of a release, or the tombstone.
AtCurrent(p) ==
    /\ pc[p] \in {"csha", "cput"} =>
         \/ /\ op[p] = "delete" /\ current # NoFile
            /\ buf[p] = Stamped("delete", current)
         \/ op[p] = "deploy" /\ buf[p] = release[buf[p].version]
         \/ /\ op[p] = "approve" /\ buf[p] = release[ver[p]]
            /\ buf[p].status = "active" /\ buf[p].version = ver[p]
    /\ pc[p] = "cput" => sha[p] = current
    /\ pc[p] = "patch" => op[p] = "deploy"
    /\ pc[p] = "apply" => op[p] = "sync" /\ buf[p] = current /\ current.status # "deleted"

LedgerProc(p) ==
    /\ AtRelease(p)
    /\ AtCurrent(p)
    /\ pc[p] = "idle" => op[p] = "none"

LInv == EvalsInv /\ \A p \in Procs : LedgerProc(p)

LEMMA InitLInv == Init => LInv
BY DEF Init, LInv, EvalsInv, LedgerProc, AtRelease, AtCurrent

\* While a request makes a step, no other runs.
LEMMA Alone ==
    ASSUME ProcsTypeOK, NoOverlap, NoOverlap', NEW p \in Procs, Request(p) \/ Call(p),
           NEW q \in Procs, q # p
    PROVE  pc[q] = "idle" /\ pc'[q] = "idle" /\ op'[q] = op[q]
<1>1. pc'[q] = pc[q] /\ op'[q] = op[q]
  BY OthersStay
<1>2. CASE Request(p)
  <2>1. pc'[p] # "idle"
    BY <1>2, RequestBegins
  <2> QED BY <1>1, <2>1 DEF NoOverlap, Idle
<1>3. CASE Call(p)
  <2>1. pc[p] # "idle"
    BY <1>3 DEF Call, ListReleases, GetReleaseSHA, PutRelease, ReadRelease, GetCurrentSHA,
                PutCurrent, PatchCRD, ReadCurrent, ApplySync
  <2> QED BY <1>1, <2>1 DEF NoOverlap, Idle
<1> QED BY <1>2, <1>3

\* A goroutine that is idle, or becomes idle, has nothing to know.
LEMMA IdleKnows ==
    ASSUME NEW q \in Procs, pc'[q] = "idle", op'[q] = "none"
    PROVE  LedgerProc(q)'
BY DEF LedgerProc, AtRelease, AtCurrent

LEMMA OthersKnow ==
    ASSUME IInv, LInv, NoOverlap, NoOverlap', NEW p \in Procs, Request(p) \/ Call(p),
           LedgerProc(p)'
    PROVE  \A q \in Procs : LedgerProc(q)'
<1> SUFFICES ASSUME NEW q \in Procs, q # p PROVE LedgerProc(q)'
  OBVIOUS
<1> QED BY Alone, IdleKnows, IInvParts DEF LInv, LedgerProc, ProcsInv

\* A callback is about a release whose outcome it repeats.
LEMMA RequestKnows ==
    ASSUME IInv, LInv, NEW p \in Procs, Request(p)
    PROVE  LedgerProc(p)'
<1>1. ASSUME NEW d \in evals, EvalCallback(p, d) PROVE LedgerProc(p)'
  <2>1. Comes(p, "read", IF d[3] THEN "approve" ELSE "reject", d[1], NoFile)
    BY <1>1, BeginAt, IInvParts DEF EvalCallback, ProcsInv
  <2>2. Settling(d[1], Outcome(d[3]))
    BY DEF LInv, EvalsInv, Settling
  <2>3. release' = release /\ triggers' = triggers /\ evals' \subseteq evals
    BY <1>1 DEF EvalCallback, repo
  <2>4. Settling(ver[p], Outcome(d[3]))'
    BY <2>1, <2>2, <2>3 DEF Settling, Undecided, Exists, Comes
  <2>5. Result(op'[p]) = Outcome(d[3])
    BY <2>1 DEF Comes, Result, Outcome
  <2> QED BY <2>1, <2>4, <2>5 DEF Comes, LedgerProc, AtRelease, AtCurrent
<1>2. ASSUME NEW c \in Payloads, RegisterAgent(p, c) \/ StartCreate(p, c)
      PROVE  LedgerProc(p)'
  BY <1>2, BeginAt, IInvParts
  DEF RegisterAgent, StartCreate, Comes, LedgerProc, AtRelease, AtCurrent, ProcsInv
<1>3. CASE \/ \E v \in Version : StartDeploy(p, v)
           \/ DeleteAgent(p) \/ StartSync(p)
  BY <1>3, BeginAt, IInvParts
  DEF StartDeploy, DeleteAgent, StartSync, Comes, LedgerProc, AtRelease, AtCurrent, ProcsInv
<1> QED BY <1>1, <1>2, <1>3 DEF Request

\* Without faults a write that nobody disturbs takes effect.
LEMMA PutSucceeds ==
    ASSUME IInv, LInv, ~Faults, NEW p \in Procs, PutRelease(p)
    PROVE  /\ WritesNext(p)
           /\ release' = [release EXCEPT ![ver[p]] = buf[p]]
           /\ release'[ver[p]] = buf[p]
           /\ \A v \in Version : v # ver[p] => release'[v] = release[v]
           /\ AfterReleaseWrite(p)
           /\ UNCHANGED <<current, cluster, evals, passed>>
<1>1. pc[p] = "rput" /\ sha[p] = release[ver[p]]
  BY DEF PutRelease, LInv, LedgerProc, AtRelease
<1>2. /\ release' = [release EXCEPT ![ver[p]] = buf[p]] /\ AfterReleaseWrite(p)
      /\ UNCHANGED <<current, cluster, evals, passed>>
  BY <1>1 DEF PutRelease, Accepts
<1> QED BY <1>1, <1>2 DEF IInv, TypeOK, ProcInv, WritesNext

LEMMA ReleaseCallKnows ==
    ASSUME IInv, FileStatuses, LInv, ~Faults, NEW p \in Procs,
           ListReleases(p) \/ GetReleaseSHA(p) \/ PutRelease(p)
    PROVE  LedgerProc(p)'
<1> USE IInvParts DEF ProcsInv
<1>1. CASE ListReleases(p)
  <2>1. PICK n \in 0..MaxVersion : \A v \in Version : Exists(v) <=> v <= n
    BY DEF FilesPrefix
  <2>2. HighestVersion = n
    BY <2>1, HighestVersionIs
  <2>3. /\ n + 1 \in Version /\ ver' = [ver EXCEPT ![p] = n + 1]
        /\ pc' = [pc EXCEPT ![p] = "rsha"] /\ op' = op /\ release' = release
    BY <1>1, <2>2 DEF ListReleases, NextVersions, Goto, repo
  <2>4. op[p] = "create"
    BY <1>1 DEF ListReleases, ProcInv
  <2>5. ~Exists(n + 1) /\ ver'[p] = n + 1 /\ pc'[p] = "rsha"
    BY <2>1, <2>3 DEF Version, ProcsTypeOK
  <2> QED BY <2>3, <2>4, <2>5 DEF LedgerProc, AtRelease, AtCurrent, Exists
<1>2. CASE GetReleaseSHA(p)
  <2>1. /\ pc[p] = "rsha" /\ pc'[p] = "rput" /\ sha'[p] = release[ver[p]]
        /\ UNCHANGED <<op, ver, buf, release, evals, triggers>>
    BY <1>2 DEF GetReleaseSHA, Goto, ProcsTypeOK, repo
  <2> QED BY <2>1 DEF LInv, LedgerProc, AtRelease, AtCurrent, Settling, Undecided, Exists
<1>3. CASE PutRelease(p)
  <2>1. /\ WritesNext(p) /\ pc[p] = "rput" /\ release'[ver[p]] = buf[p]
        /\ AfterReleaseWrite(p) /\ evals' = evals
    BY <1>3, PutSucceeds DEF PutRelease
  <2>2. CASE Finish(p)
    BY <2>2, FinishAt, IdleKnows DEF Comes
  <2>3. CASE op[p] = "approve" /\ Continue(p, "csha", buf[p])
    <3>1. buf[p].status = "active" /\ buf[p].version = ver[p]
      BY <2>1, <2>3 DEF FileStatuses, FileStatus, WritesNext
    <3>2. Comes(p, "csha", "approve", ver[p], buf[p])
      BY <2>3, ContinueAt
    <3> QED BY <2>1, <3>1, <3>2 DEF Comes, LedgerProc, AtRelease, AtCurrent
  <2>4. CASE op[p] = "create" /\ ~RequiresEval(buf[p])
    <3>1. /\ pc'[p] = "read" /\ op'[p] = "approve" /\ ver'[p] = ver[p] /\ triggers' = triggers
      BY <2>1, <2>4 DEF AfterReleaseWrite, Goto, ProcsTypeOK
    <3>2. buf[p].status = "pending_eval" /\ ~Exists(ver[p]) /\ buf[p] # NoFile
      BY <2>1, <2>4, ConstantsAssumption
      DEF FileStatuses, FileStatus, LInv, LedgerProc, AtRelease, WritesNext
    <3>3. \A e \in triggers \cup evals : e[1] # ver[p]
      BY <3>2 DEF LInv, EvalsInv, Undecided
    <3>4. Settling(ver[p], "active")'
      BY <2>1, <3>1, <3>2, <3>3 DEF Settling, Undecided, Exists
    <3> QED BY <3>1, <3>4 DEF LedgerProc, AtRelease, AtCurrent, Result
  <2> QED BY <2>1, <2>2, <2>3, <2>4 DEF AfterReleaseWrite
<1> QED BY <1>1, <1>2, <1>3

LEMMA CurrentCallKnows ==
    ASSUME IInv, LInv, ~Faults, NEW p \in Procs,
           \/ ReadRelease(p) \/ GetCurrentSHA(p) \/ PutCurrent(p)
           \/ PatchCRD(p) \/ ReadCurrent(p) \/ ApplySync(p)
    PROVE  LedgerProc(p)'
<1> USE IInvParts DEF ProcsInv
<1>1. release' = release /\ UNCHANGED evaluation
  BY DEF ReadRelease, GetCurrentSHA, PutCurrent, PatchCRD, ReadCurrent, ApplySync, repo
<1>2. CASE Finish(p)
  BY <1>2, FinishAt, IdleKnows DEF Comes
<1>3. ASSUME ReadRelease(p), ~Finish(p) PROVE LedgerProc(p)'
  <2>1. /\ pc[p] = "read" /\ op[p] \in {"approve", "reject", "deploy"}
        /\ ver[p] \in Version /\ Exists(ver[p])
        /\ release[ver[p]] \in Artifact /\ release[ver[p]].version = ver[p]
    BY <1>3 DEF ReadRelease, ProcInv, Exists, StateTypeOK, FilesNamed
  <2>2. Comes(p, IF op[p] = "deploy" THEN "csha" ELSE "rsha", op[p], ver[p],
              Stamped(op[p], release[ver[p]]))
    BY <1>3, ContinueAt DEF ReadRelease
  <2>3. CASE op[p] = "deploy"
    BY <1>1, <2>1, <2>2, <2>3, StampedStatus DEF Comes, LedgerProc, AtRelease, AtCurrent
  <2>4. CASE op[p] \in {"approve", "reject"}
    <3>1. Settling(ver[p], Result(op[p]))
      BY <2>1, <2>4 DEF LInv, LedgerProc, AtRelease
    <3>2. Settling(ver[p], Result(op[p]))'
      BY <1>1, <2>2, <3>1 DEF Settling, Undecided, Exists, Comes, Result, evaluation
    <3>3. /\ pc'[p] = "rsha" /\ op'[p] = op[p] /\ ver'[p] = ver[p]
          /\ buf'[p] = Stamped(op[p], release[ver[p]])
      BY <2>2, <2>4 DEF Comes
    <3> QED BY <1>1, <2>4, <3>2, <3>3 DEF LedgerProc, AtRelease, AtCurrent
  <2> QED BY <2>1, <2>3, <2>4
<1>4. ASSUME GetCurrentSHA(p), ~Finish(p) PROVE LedgerProc(p)'
  <2>1. /\ pc[p] = "csha" /\ pc'[p] = "cput" /\ sha'[p] = current
        /\ UNCHANGED <<op, ver, buf, current>>
    BY <1>4 DEF GetCurrentSHA, Goto, ProcsTypeOK, repo
  <2> QED BY <1>1, <2>1 DEF LInv, LedgerProc, AtRelease, AtCurrent
<1>5. ASSUME PutCurrent(p), ~Finish(p) PROVE LedgerProc(p)'
  <2>1. op[p] = "deploy" /\ Continue(p, "patch", buf[p])
    BY <1>5 DEF PutCurrent, AfterCurrentWrite
  <2> QED BY <2>1, ContinueAt DEF Comes, LedgerProc, AtRelease, AtCurrent
<1>6. ASSUME ReadCurrent(p), ~Finish(p) PROVE LedgerProc(p)'
  <2>1. /\ current # NoFile /\ current \in Artifact /\ op[p] \in {"delete", "sync"}
        /\ op[p] = "sync" => current.status # "deleted"
        /\ Continue(p, IF op[p] = "sync" THEN "apply" ELSE "csha", Stamped(op[p], current))
        /\ current' = current
    BY <1>6 DEF ReadCurrent, ProcInv, StateTypeOK, Tombstoned, repo
  <2>2. Stamped("sync", current) = current
    BY <2>1, StampedStatus
  <2> QED BY <2>1, <2>2, ContinueAt DEF Comes, LedgerProc, AtRelease, AtCurrent
<1> QED BY <1>2, <1>3, <1>4, <1>5, <1>6 DEF PatchCRD, ApplySync

\* A write of a release file keeps what the evaluations need.
LEMMA PutKeepsEvals ==
    ASSUME IInv, FileStatuses, LInv, ~Faults, NEW p \in Procs, PutRelease(p)
    PROVE  EvalsInv'
<1>1. /\ WritesNext(p) /\ pc[p] = "rput" /\ release'[ver[p]] = buf[p] /\ evals' = evals
      /\ \A v \in Version : v # ver[p] => release'[v] = release[v]
      /\ AfterReleaseWrite(p) /\ buf[p] # NoFile /\ ver[p] \in Version
  BY PutSucceeds, ConstantsAssumption DEF PutRelease, WritesNext
<1>2. \A e \in triggers \cup evals : e[1] \in Version
  BY DEF IInv, TypeOK, Evaluation, Verdict
<1>3. CASE op[p] = "create"
  <2>1. buf[p].status = "pending_eval" /\ ~Exists(ver[p])
    BY <1>1, <1>3 DEF FileStatuses, FileStatus, LInv, LedgerProc, AtRelease
  <2>2. \A e \in triggers \cup evals : e[1] # ver[p] /\ release'[e[1]] = release[e[1]]
    BY <1>1, <1>2, <2>1 DEF LInv, EvalsInv, Undecided
  <2>3. triggers' = triggers \/ triggers' = triggers \cup {<<ver[p], buf[p].payload>>}
    BY <1>1, <1>3 DEF AfterReleaseWrite
  <2> DEFINE t == <<ver[p], buf[p].payload>>
  <2>4. t[1] = ver[p]
    OBVIOUS
  <2> HIDE DEF t
  <2>5. \A e \in triggers' : release'[e[1]] # NoFile /\ release'[e[1]].status = "pending_eval"
    BY <1>1, <2>1, <2>2, <2>3, <2>4 DEF LInv, EvalsInv, Exists, t
  <2>6. \A e, f \in triggers' : e[1] = f[1] => e = f
    BY <2>2, <2>3, <2>4 DEF LInv, EvalsInv, t
  <2>7. \A e \in triggers', d \in evals : d[1] # e[1]
    BY <2>2, <2>3, <2>4 DEF LInv, EvalsInv, t
  <2>8. \A d \in evals : /\ release'[d[1]] # NoFile
                         /\ release'[d[1]].status \in {"pending_eval", Outcome(d[3])}
    BY <2>2 DEF LInv, EvalsInv, Undecided, Exists
  <2> QED BY <1>1, <2>5, <2>6, <2>7, <2>8 DEF LInv, EvalsInv, Undecided, Exists
<1>4. CASE op[p] # "create"
  <2>1. Settling(ver[p], Result(op[p])) /\ triggers' = triggers
    BY <1>1, <1>4 DEF LInv, LedgerProc, AtRelease, WritesNext, AfterReleaseWrite
  <2>2. buf[p].status = Result(op[p])
    BY <1>1, <1>4 DEF FileStatuses, FileStatus, WritesNext, Result
  <2>3. \A e \in triggers : release'[e[1]] = release[e[1]]
    BY <1>1, <1>2, <2>1 DEF Settling
  <2>4. \A d \in evals : /\ release'[d[1]] # NoFile
                         /\ release'[d[1]].status \in {"pending_eval", Outcome(d[3])}
    BY <1>1, <1>2, <2>1, <2>2 DEF Settling, LInv, EvalsInv, Undecided, Exists
  <2> QED BY <1>1, <2>1, <2>3, <2>4 DEF LInv, EvalsInv, Undecided, Exists
<1> QED BY <1>3, <1>4

\* An evaluation that starts takes the place of its trigger.
LEMMA TriggerKeeps ==
    ASSUME LInv, NEW e \in triggers, TriggerEvaluation(e)
    PROVE  LInv'
<1>1. /\ triggers' = triggers \ {e} /\ release' = release /\ current' = current
      /\ UNCHANGED procs
  BY DEF TriggerEvaluation, repo
<1>2. PICK b \in BOOLEAN : evals' \subseteq evals \cup {<<e[1], e[2], b>>}
  BY DEF TriggerEvaluation
<1> DEFINE n == <<e[1], e[2], b>>
<1>3. n[1] = e[1] /\ n[3] = b
  OBVIOUS
<1>4. evals' \subseteq evals \cup {n}
  BY <1>2
<1> HIDE DEF n
<1>5. \A f \in triggers' : f \in triggers /\ f[1] # e[1]
  BY <1>1 DEF LInv, EvalsInv
<1>6. Exists(e[1]) /\ release[e[1]].status = "pending_eval" /\ \A d \in evals : d[1] # e[1]
  BY DEF LInv, EvalsInv
<1>7. \A d \in evals' : Undecided(d[1], Outcome(d[3]))
  BY <1>3, <1>4, <1>6 DEF LInv, EvalsInv, Undecided
<1>8. \A d, f \in evals' : d[1] = f[1] => d[3] = f[3]
  BY <1>3, <1>4, <1>6 DEF LInv, EvalsInv
<1>9. \A f \in triggers', d \in evals' : d[1] # f[1]
  BY <1>3, <1>4, <1>5 DEF LInv, EvalsInv
<1>10. EvalsInv'
  BY <1>1, <1>5, <1>7, <1>8, <1>9 DEF LInv, EvalsInv, Undecided, Exists
<1>11. ASSUME NEW v, NEW s, Settling(v, s) PROVE Settling(v, s)'
  BY <1>1, <1>3, <1>4, <1>11 DEF Settling, Undecided, Exists
<1>12. \A q \in Procs : LedgerProc(q)'
  BY <1>1, <1>11 DEF LInv, LedgerProc, AtRelease, AtCurrent, Exists, procs
<1> QED BY <1>10, <1>12 DEF LInv

LEMMA NextLInv ==
    IInv /\ FileStatuses /\ ~Faults /\ NoOverlap /\ NoOverlap' /\ LInv /\ [Next]_vars => LInv'
<1> SUFFICES ASSUME IInv, FileStatuses, ~Faults, NoOverlap, NoOverlap', LInv, [Next]_vars
             PROVE  LInv'
  OBVIOUS
<1>1. ASSUME release' = release, triggers' \subseteq triggers, evals' \subseteq evals
      PROVE  EvalsInv'
  BY <1>1 DEF LInv, EvalsInv, Undecided, Exists
<1>2. ASSUME NEW p \in Procs, Request(p) PROVE LInv'
  <2>1. release' = release /\ triggers' = triggers /\ evals' \subseteq evals
    BY <1>2 DEF Request, RegisterAgent, StartCreate, EvalCallback, StartDeploy, DeleteAgent,
                StartSync, repo, evaluation
  <2>2. EvalsInv'
    BY <1>1, <2>1
  <2> QED BY <1>2, <2>2, RequestKnows, OthersKnow DEF LInv
<1>3. ASSUME NEW p \in Procs, Call(p) PROVE LInv'
  <2>1. LedgerProc(p)'
    BY <1>3, ReleaseCallKnows, CurrentCallKnows DEF Call
  <2>2. CASE PutRelease(p)
    BY <1>3, <2>1, <2>2, PutKeepsEvals, OthersKnow DEF LInv
  <2>3. CASE ~PutRelease(p)
    <3>1. release' = release /\ triggers' = triggers /\ evals' = evals
      BY <1>3, <2>3 DEF Call, ListReleases, GetReleaseSHA, ReadRelease, GetCurrentSHA,
                        PutCurrent, PatchCRD, ReadCurrent, ApplySync, repo, evaluation
    <3> QED BY <1>1, <1>3, <2>1, <3>1, OthersKnow DEF LInv
  <2> QED BY <2>2, <2>3
<1>4. ASSUME NEW d \in evals, EvalLost(d) PROVE LInv'
  <2>1. /\ release' = release /\ current' = current /\ UNCHANGED procs
        /\ triggers' = triggers /\ evals' \subseteq evals
    BY <1>4 DEF EvalLost, repo
  <2>2. ASSUME NEW v, NEW s, Settling(v, s) PROVE Settling(v, s)'
    BY <2>1, <2>2 DEF Settling, Undecided, Exists
  <2>3. \A q \in Procs : LedgerProc(q)'
    BY <2>1, <2>2 DEF LInv, LedgerProc, AtRelease, AtCurrent, Exists, procs
  <2>4. EvalsInv'
    BY <1>1, <2>1
  <2> QED BY <2>3, <2>4 DEF LInv
<1>5. CASE Crash
  <2>1. release' = release /\ triggers' \subseteq triggers /\ evals' \subseteq evals
    BY <1>5 DEF Crash, repo
  <2>2. EvalsInv'
    BY <1>1, <2>1
  <2>3. \A q \in Procs : LedgerProc(q)'
    BY <1>5, IdleKnows DEF Crash
  <2> QED BY <2>2, <2>3 DEF LInv
<1>6. CASE UNCHANGED vars
  <2>1. release' = release /\ current' = current /\ UNCHANGED <<procs, triggers, evals>>
    BY <1>6 DEF vars, repo, evaluation
  <2> QED BY <2>1 DEF LInv, EvalsInv, LedgerProc, AtRelease, AtCurrent, Settling, Undecided,
                      Exists, procs
<1> QED BY <1>2, <1>3, <1>4, <1>5, <1>6, TriggerKeeps DEF Next

\* What the pipeline shows of its files to the ledger.
Entry(a) == [payload |-> a.payload, status |-> a.status]

Entries == [v \in 1..HighestVersion |-> Entry(release[v])]

Pointer ==
    IF current = NoFile THEN NoFile
    ELSE [version |-> current.version, payload |-> current.payload,
          status |-> current.status]

LedgerEntry == [payload : Payloads, status : Status]

\* The entries are a sequence: one for each release file.
LEMMA EntriesAre ==
    ASSUME IInv
    PROVE  \E n \in 0..MaxVersion :
               /\ \A v \in Version : Exists(v) <=> v <= n
               /\ HighestVersion = n /\ 1..n \subseteq Version
               /\ Entries \in Seq(LedgerEntry) /\ Len(Entries) = n /\ DOMAIN Entries = 1..n
<1>1. PICK n \in 0..MaxVersion : \A v \in Version : Exists(v) <=> v <= n
  BY DEF IInv, FilesPrefix
<1>2. HighestVersion = n /\ n \in Nat /\ 1..n \subseteq Version
  BY <1>1, HighestVersionIs, ConstantsAssumption DEF Version
<1>3. \A v \in 1..n : release[v] \in Artifact
  BY <1>1, <1>2 DEF Exists, IInv, TypeOK
<1>4. Entries \in [1..n -> LedgerEntry]
  BY <1>2, <1>3 DEF Entries, Entry, LedgerEntry, Artifact
<1>5. Entries \in Seq(LedgerEntry)
  BY <1>2, <1>4, SeqDef
<1>6. DOMAIN Entries = 1..n /\ Len(Entries) = n
  BY <1>2, <1>4, <1>5, LenProperties
<1> QED BY <1>1, <1>2, <1>5, <1>6

\* The same of the files after a step.
LEMMA NextHighestVersion ==
    ASSUME IInv'
    PROVE  \E m \in 0..MaxVersion :
               /\ \A v \in Version : release'[v] # NoFile <=> v <= m
               /\ HighestVersion' = m /\ 1..m \subseteq Version
<1>1. PICK m \in 0..MaxVersion : \A v \in Version : release'[v] # NoFile <=> v <= m
  BY DEF IInv, FilesPrefix, Exists
<1> DEFINE Top(k) == /\ k = 0 \/ release'[k] # NoFile
                     /\ \A v \in Version : release'[v] # NoFile => v <= k
<1>2. Top(m) /\ m \in Nat /\ 1..m \subseteq Version
  BY <1>1, ConstantsAssumption DEF Version
<1>3. \A k \in 0..MaxVersion : Top(k) => k = m
  BY <1>1, ConstantsAssumption DEF Version
<1>4. HighestVersion' = CHOOSE k \in 0..MaxVersion : Top(k)
  BY DEF HighestVersion, Exists
<1> QED BY <1>1, <1>2, <1>3, <1>4

\* Adding one entry to the entries is appending it.
LEMMA AppendIs ==
    ASSUME NEW S, NEW s \in Seq(S), NEW e \in S, NEW t, NEW n \in Nat,
           DOMAIN s = 1..n, t = [i \in 1..(n+1) |-> IF i = n + 1 THEN e ELSE s[i]]
    PROVE  t = Append(s, e)
<1>1. Len(s) = n
  BY LenProperties
<1>2. /\ Append(s, e) \in Seq(S) /\ Len(Append(s, e)) = n + 1
      /\ \A i \in 1..n : Append(s, e)[i] = s[i]
      /\ Append(s, e)[n + 1] = e
  BY <1>1, AppendProperties
<1>3. DOMAIN Append(s, e) = 1..(n + 1) /\ Append(s, e) \in [1..(n+1) -> S]
  BY <1>2, LenProperties
<1>4. \A i \in 1..(n+1) : Append(s, e)[i] = t[i]
  BY <1>2
<1> QED BY <1>3, <1>4

\* A create publishes, an approval or rejection decides; repeating a decision
\* changes nothing.
LEMMA PutIsLedgerStep ==
    ASSUME IInv, IInv', FileStatuses, LInv, ~Faults, NEW p \in Procs, PutRelease(p)
    PROVE  /\ Pointer' = Pointer
           /\ \/ Entries' = Entries
              \/ \E c \in Payloads :
                    Entries' = Append(Entries, [payload |-> c, status |-> "pending_eval"])
              \/ \E v \in DOMAIN Entries, s \in {"active", "rejected"} :
                    /\ Entries[v].status = "pending_eval"
                    /\ Entries' = [Entries EXCEPT ![v].status = s]
<1> DEFINE k == ver[p]
<1>1. /\ WritesNext(p) /\ pc[p] = "rput" /\ release'[k] = buf[p] /\ current' = current
      /\ \A v \in Version : v # k => release'[v] = release[v]
      /\ k \in Version /\ buf[p] \in Artifact
  BY PutSucceeds DEF PutRelease, WritesNext
<1>2. PICK n \in 0..MaxVersion :
        /\ \A v \in Version : Exists(v) <=> v <= n
        /\ HighestVersion = n /\ 1..n \subseteq Version
        /\ Entries \in Seq(LedgerEntry) /\ Len(Entries) = n /\ DOMAIN Entries = 1..n
  BY EntriesAre
<1>3. PICK m \in 0..MaxVersion :
        /\ \A v \in Version : release'[v] # NoFile <=> v <= m
        /\ HighestVersion' = m /\ 1..m \subseteq Version
  BY NextHighestVersion
<1>4. /\ Entries = [v \in 1..n |-> Entry(release[v])]
      /\ Entries' = [v \in 1..m |-> Entry(release'[v])]
  <2>1. HighestVersion = n /\ HighestVersion' = m
    BY <1>2, <1>3
  <2> QED BY <2>1 DEF Entries, Entry
<1>5. n \in Nat /\ m \in Nat /\ MaxVersion \in Nat /\ k \in Nat
  BY <1>1, ConstantsAssumption DEF Version
<1>6. release'[k] # NoFile /\ \A v \in Version : v # k => (release'[v] # NoFile <=> Exists(v))
  BY <1>1, ConstantsAssumption DEF Exists
<1>7. Pointer' = Pointer
  BY <1>1 DEF Pointer
<1> HIDE DEF k
<1>8. CASE op[p] = "create"
  <2>1. ~Exists(k) /\ buf[p].status = "pending_eval" /\ buf[p].payload \in Payloads
    BY <1>1, <1>8 DEF k, FileStatuses, FileStatus, LInv, LedgerProc, AtRelease, Artifact
  <2>2. k = n + 1
    <3>1. \A u \in Version : u < k => Exists(u)
      BY <1>1 DEF WritesNext, k
    <3>2. ~(k <= n)
      BY <1>1, <1>2, <2>1
    <3>3. CASE n = 0
      <4>1. 1 < k => 1 <= n
        BY <1>1, <1>2, <1>5, <3>1 DEF Version
      <4> QED BY <1>1, <1>5, <3>2, <3>3, <4>1 DEF Version
    <3>4. CASE n # 0
      <4>1. n + 1 < k => n + 1 <= n
        BY <1>1, <1>2, <1>5, <3>1 DEF Version
      <4> QED BY <1>5, <3>2, <4>1
    <3> QED BY <3>3, <3>4
  <2>3. m = n + 1
    <3>1. n + 1 <= m
      BY <1>1, <1>3, <1>6, <2>2
    <3>2. m # 0 => m \in Version
      BY <1>5, <1>3 DEF Version
    <3>3. m # 0 /\ m # k => m <= n
      BY <1>2, <1>3, <1>5, <1>6, <3>2
    <3> QED BY <1>5, <2>2, <3>1, <3>3
  <2> DEFINE e == [payload |-> buf[p].payload, status |-> "pending_eval"]
  <2>4. e = Entry(buf[p]) /\ e \in LedgerEntry
    BY <2>1 DEF Entry, LedgerEntry, Status
  <2>5. \A i \in 1..n : Entry(release'[i]) = Entries[i]
    <3>1. \A i \in 1..n : i \in Version /\ i # k
      BY <1>2, <1>5, <2>2
    <3>2. \A i \in 1..n : release'[i] = release[i]
      BY <1>1, <3>1
    <3> QED BY <1>4, <3>2
  <2>6. Entry(release'[n + 1]) = e
    BY <1>1, <2>2, <2>4
  <2> HIDE DEF e
  <2>7. Entries' = [i \in 1..(n+1) |-> IF i = n + 1 THEN e ELSE Entries[i]]
    BY <1>4, <1>5, <2>3, <2>5, <2>6
  <2>8. Entries' = Append(Entries, e)
    BY <1>2, <1>5, <2>4, <2>7, AppendIs
  <2> QED BY <1>7, <2>1, <2>8 DEF e
<1>9. CASE op[p] # "create"
  <2>1. /\ Settling(k, Result(op[p])) /\ buf[p] = Stamped(op[p], release[k])
        /\ op[p] \in {"approve", "reject"} /\ Exists(k)
    BY <1>1, <1>9 DEF k, LInv, LedgerProc, AtRelease, WritesNext
  <2>2. release[k] \in Artifact
    BY <1>1, <2>1 DEF Exists, IInv, TypeOK
  <2>3. buf[p].payload = release[k].payload /\ buf[p].status = Result(op[p])
    BY <2>1, <2>2, StampedType, StampedStatus DEF Result
  <2>4. m = n
    <3>1. n # 0 => n \in Version
      BY <1>5, <1>2 DEF Version
    <3>2. m # 0 => m \in Version
      BY <1>5, <1>3 DEF Version
    <3>3. \A v \in Version : (v <= n) <=> (v <= m)
      BY <1>2, <1>3, <1>6, <2>1
    <3> QED BY <1>5, <3>1, <3>2, <3>3
  <2>5. k \in 1..n /\ Entries[k] = Entry(release[k])
    BY <1>1, <1>2, <1>4, <1>5, <2>1 DEF Version
  <2>6. Entry(release'[k]) = [Entries[k] EXCEPT !.status = Result(op[p])]
    BY <1>1, <2>3, <2>5 DEF Entry
  <2>7. \A v \in 1..n : v # k => Entry(release'[v]) = Entries[v]
    BY <1>1, <1>2, <1>4
  <2> DEFINE d == [Entries[k] EXCEPT !.status = Result(op[p])]
  <2>8. Entries' = [Entries EXCEPT ![k].status = Result(op[p])]
    <3>1. Entries' = [v \in 1..n |-> IF v = k THEN d ELSE Entries[v]]
      BY <1>4, <2>4, <2>6, <2>7
    <3>2. [Entries EXCEPT ![k].status = Result(op[p])]
          = [v \in 1..n |-> IF v = k THEN d ELSE Entries[v]]
      BY <1>2, <2>5
    <3> QED BY <3>1, <3>2
  <2>9. CASE release[k].status = "pending_eval"
    <3>1. Entries[k].status = "pending_eval" /\ Result(op[p]) \in {"active", "rejected"}
      BY <2>5, <2>9 DEF Entry, Result
    <3> QED BY <1>2, <1>7, <2>5, <2>8, <3>1
  <2>10. CASE release[k].status = Result(op[p])
    <3>1. d = Entries[k]
      BY <2>5, <2>10 DEF Entry
    <3>2. Entries' = Entries
      BY <1>2, <1>4, <2>4, <2>6, <2>7, <3>1
    <3> QED BY <1>7, <3>2
  <2> QED BY <2>1, <2>9, <2>10 DEF Settling, Undecided
<1> QED BY <1>8, <1>9

\* A write of current.yaml points to a release or archives the agent.
LEMMA PutCurrentIsLedgerStep ==
    ASSUME IInv, LInv, ~Faults, NEW p \in Procs, PutCurrent(p)
    PROVE  \/ \E v \in DOMAIN Entries :
                Pointer' = [version |-> v, payload |-> Entries[v].payload,
                            status |-> Entries[v].status]
           \/ Pointer # NoFile /\ Pointer' = [Pointer EXCEPT !.status = "deleted"]
<1>1. /\ pc[p] = "cput" /\ Refers(buf[p]) /\ AtCurrent(p) /\ sha[p] = current
      /\ release' = release /\ current' = buf[p]
  BY DEF PutCurrent, Accepts, LInv, LedgerProc, AtCurrent, IInv, ProcInv
<1>2. current' # NoFile /\ buf[p] \in Artifact
  BY <1>1, ConstantsAssumption DEF Refers
<1>3. CASE op[p] = "delete"
  <2>1. current # NoFile /\ current \in Artifact /\ current' = Stamped("delete", current)
    BY <1>1, <1>3 DEF AtCurrent, IInv, TypeOK
  <2>2. /\ current'.version = current.version /\ current'.payload = current.payload
        /\ current'.status = "deleted"
    BY <2>1, StampedType, StampedStatus
  <2>3. Pointer = [version |-> current.version, payload |-> current.payload,
                   status |-> current.status]
    BY <2>1 DEF Pointer
  <2>4. Pointer # NoFile
    BY <2>1, <2>3, PointerAssumption DEF Artifact
  <2>5. Pointer' = [version |-> current.version, payload |-> current.payload,
                    status |-> "deleted"]
    BY <1>2, <2>2 DEF Pointer
  <2> QED BY <2>3, <2>4, <2>5
<1>4. CASE op[p] # "delete"
  <2> DEFINE v == buf[p].version
  <2>1. buf[p] = release[v] /\ v \in Version /\ Exists(v)
    BY <1>1, <1>4 DEF AtCurrent, Refers
  <2>2. PICK n \in 0..MaxVersion :
          /\ \A u \in Version : Exists(u) <=> u <= n
          /\ HighestVersion = n /\ DOMAIN Entries = 1..n
    BY EntriesAre
  <2>3. v \in 1..n
    BY <2>1, <2>2 DEF Version
  <2>4. Entries[v] = Entry(buf[p])
    BY <2>1, <2>2, <2>3 DEF Entries
  <2>5. Pointer' = [version |-> v, payload |-> Entries[v].payload, status |-> Entries[v].status]
    BY <1>1, <1>2, <2>4 DEF Pointer, Entry
  <2> QED BY <2>2, <2>3, <2>5
<1> QED BY <1>3, <1>4

LEMMA LedgerSteps ==
    /\ UNCHANGED Ledger!vars <=> Entries' = Entries /\ Pointer' = Pointer
    /\ \A c : Ledger!Publish(c) <=>
            /\ Entries' = Append(Entries, [payload |-> c, status |-> "pending_eval"])
            /\ Pointer' = Pointer
    /\ \A v, s : Ledger!Decide(v, s) <=>
            /\ Entries[v].status = "pending_eval"
            /\ Entries' = [Entries EXCEPT ![v].status = s]
            /\ Pointer' = Pointer
    /\ \A v : Ledger!PointTo(v) <=>
            /\ Pointer' = [version |-> v, payload |-> Entries[v].payload,
                           status |-> Entries[v].status]
            /\ Entries' = Entries
    /\ Ledger!Archive <=>
            /\ Pointer # NoFile
            /\ Pointer' = [Pointer EXCEPT !.status = "deleted"]
            /\ Entries' = Entries
    /\ Ledger!Next <=>
            \/ \E c \in Payloads : Ledger!Publish(c)
            \/ \E v \in DOMAIN Entries :
                Ledger!PointTo(v) \/ \E s \in {"active", "rejected"} : Ledger!Decide(v, s)
            \/ Ledger!Archive
<1> USE DEF Entries, Entry, Pointer
<1>1. UNCHANGED Ledger!vars <=> Entries' = Entries /\ Pointer' = Pointer
  BY DEF Ledger!vars
<1>2. \A c : Ledger!Publish(c) <=>
            /\ Entries' = Append(Entries, [payload |-> c, status |-> "pending_eval"])
            /\ Pointer' = Pointer
  BY DEF Ledger!Publish
<1>3. \A v, s : Ledger!Decide(v, s) <=>
            /\ Entries[v].status = "pending_eval"
            /\ Entries' = [Entries EXCEPT ![v].status = s]
            /\ Pointer' = Pointer
  BY DEF Ledger!Decide
<1>4. \A v : Ledger!PointTo(v) <=>
            /\ Pointer' = [version |-> v, payload |-> Entries[v].payload,
                           status |-> Entries[v].status]
            /\ Entries' = Entries
  BY DEF Ledger!PointTo
<1>5. Ledger!Archive <=>
            /\ Pointer # NoFile
            /\ Pointer' = [Pointer EXCEPT !.status = "deleted"]
            /\ Entries' = Entries
  BY DEF Ledger!Archive
<1>6. Ledger!Next <=>
            \/ \E c \in Payloads : Ledger!Publish(c)
            \/ \E v \in DOMAIN Entries :
                Ledger!PointTo(v) \/ \E s \in {"active", "rejected"} : Ledger!Decide(v, s)
            \/ Ledger!Archive
  BY DEF Ledger!Next
<1> QED BY <1>1, <1>2, <1>3, <1>4, <1>5, <1>6

\* Every step of the pipeline is a step of the ledger, or invisible to it.
LEMMA StepIsLedgerStep ==
    ASSUME IInv, IInv', FileStatuses, LInv, ~Faults, [Next]_vars
    PROVE  [Ledger!Next]_(Ledger!vars)
<1>1. ASSUME release' = release, current' = current PROVE UNCHANGED Ledger!vars
  <2>1. Entries' = Entries /\ Pointer' = Pointer
    BY <1>1 DEF Entries, Pointer, HighestVersion, Exists
  <2> QED BY <2>1, LedgerSteps
<1>2. ASSUME NEW p \in Procs, PutRelease(p) PROVE [Ledger!Next]_(Ledger!vars)
  <2>1. Pointer' = Pointer
    BY <1>2, PutIsLedgerStep
  <2>2. CASE Entries' = Entries
    BY <2>1, <2>2, LedgerSteps
  <2>3. CASE \E c \in Payloads :
                Entries' = Append(Entries, [payload |-> c, status |-> "pending_eval"])
    BY <2>1, <2>3, LedgerSteps
  <2>4. CASE \E v \in DOMAIN Entries, s \in {"active", "rejected"} :
                /\ Entries[v].status = "pending_eval"
                /\ Entries' = [Entries EXCEPT ![v].status = s]
    <3>1. PICK v \in DOMAIN Entries, s \in {"active", "rejected"} : Ledger!Decide(v, s)
      BY <2>1, <2>4, LedgerSteps
    <3> QED BY <3>1, LedgerSteps
  <2> QED BY <1>2, <2>2, <2>3, <2>4, PutIsLedgerStep
<1>3. ASSUME NEW p \in Procs, PutCurrent(p) PROVE [Ledger!Next]_(Ledger!vars)
  <2>1. Entries' = Entries
    BY <1>3 DEF PutCurrent, Entries, HighestVersion, Exists
  <2> QED BY <1>3, <2>1, PutCurrentIsLedgerStep, LedgerSteps
<1>4. ASSUME NEW p \in Procs, Request(p) PROVE UNCHANGED repo
  BY <1>4, RequestBegins, IInvParts DEF ProcsInv
<1>5. ASSUME NEW p \in Procs, Call(p), ~PutRelease(p), ~PutCurrent(p) PROVE UNCHANGED repo
  BY <1>5 DEF Call, ListReleases, GetReleaseSHA, ReadRelease, GetCurrentSHA, PatchCRD,
              ReadCurrent, ApplySync
<1>6. CASE UNCHANGED repo
  BY <1>1, <1>6 DEF repo
<1> QED BY <1>2, <1>3, <1>4, <1>5, <1>6 DEF Next, vars, TriggerEvaluation, EvalLost, Crash

LEMMA InitIsLedger == Init => Ledger!Init
<1> SUFFICES ASSUME Init PROVE Ledger!Init
  OBVIOUS
<1>1. \A v \in Version : Exists(v) <=> v <= 0
  BY DEF Init, Exists, Version
<1>2. HighestVersion = 0
  BY <1>1, HighestVersionIs, ConstantsAssumption
<1>3. Entries = << >>
  BY <1>2 DEF Entries
<1> QED BY <1>3 DEF Entries, Entry, Init, Ledger!Init

\* ImplementsLedger: where no two requests about the agent overlap and no call
\* fails, the pipeline implements the ledger, although the server may crash
\* between any two calls and Corail may repeat a result.
THEOREM LedgerIsImplemented ==
    ~Faults /\ Spec /\ []NoOverlap => ImplementsLedger
<1> SUFFICES ASSUME ~Faults
             PROVE  Spec /\ []NoOverlap => ImplementsLedger
  OBVIOUS
<1>1. IInv /\ FileStatuses /\ NoOverlap /\ NoOverlap' /\ LInv /\ [Next]_vars => LInv'
  BY NextLInv
<1>2. IInv /\ IInv' /\ FileStatuses /\ LInv /\ [Next]_vars => [Ledger!Next]_(Ledger!vars)
  BY StepIsLedgerStep
<1> QED BY <1>1, <1>2, InitIsLedger, InitLInv, InitFileStatuses, NextFileStatuses, SpecIInv,
           PTL DEF Spec, ImplementsLedger, Ledger!Spec

\* SyncSkipsDeleted: under the same premises a synchronisation never brings a
\* deleted agent back.
THEOREM SyncLeavesDeleted ==
    ~Faults /\ Spec /\ []NoOverlap => SyncSkipsDeleted
<1> SUFFICES ASSUME ~Faults
             PROVE  Spec /\ []NoOverlap => SyncSkipsDeleted
  OBVIOUS
<1>1. IInv /\ FileStatuses /\ NoOverlap /\ NoOverlap' /\ LInv /\ [Next]_vars => LInv'
  BY NextLInv
<1>2. IInv /\ NoOverlap /\ NoOverlap' /\ LInv /\ [Next]_vars =>
        [\A p \in Procs :
            op[p] = "sync" /\ ~registered /\ registered' /\ pc'[p] = "idle"
                => ~Tombstoned]_vars
  <2> SUFFICES ASSUME IInv, NoOverlap, NoOverlap', LInv, [Next]_vars, NEW p \in Procs,
                      op[p] = "sync", ~registered, registered', pc'[p] = "idle"
               PROVE  ~Tombstoned
    OBVIOUS
  <2>1. PICK q \in Procs : Request(q) \/ Call(q)
    BY DEF Next, vars, cluster, TriggerEvaluation, EvalLost, Crash
  <2>2. q = p
    BY <2>1, Alone, IInvParts DEF ProcsInv, LInv, LedgerProc
  <2>3. Call(p)
    BY <2>1, <2>2, RequestBegins, IInvParts DEF ProcsInv
  <2>4. ApplySync(p)
    BY <2>3 DEF Call, ListReleases, GetReleaseSHA, PutRelease, ReadRelease, GetCurrentSHA,
                PutCurrent, PatchCRD, ReadCurrent, cluster
  <2> QED BY <2>4 DEF ApplySync, LInv, LedgerProc, AtCurrent, Tombstoned
<1> QED BY <1>1, <1>2, InitLInv, InitFileStatuses, NextFileStatuses, SpecIInv,
           PTL DEF Spec, SyncSkipsDeleted

\* ApprovalTakesEffect: where nothing overlaps, fails or crashes, an approval
\* that returns from its last write has made the release active and current.
THEOREM ApprovalsTakeEffect ==
    ~Faults /\ ~Crashes /\ Spec /\ []NoOverlap => ApprovalTakesEffect
<1> SUFFICES ASSUME ~Faults, ~Crashes
             PROVE  Spec /\ []NoOverlap => ApprovalTakesEffect
  OBVIOUS
<1>1. IInv /\ FileStatuses /\ NoOverlap /\ NoOverlap' /\ LInv /\ [Next]_vars => LInv'
  BY NextLInv
<1>2. IInv /\ NoOverlap /\ NoOverlap' /\ LInv /\ [Next]_vars =>
        [\A p \in Procs :
            op[p] = "approve" /\ pc[p] = "cput" /\ pc'[p] = "idle" =>
                /\ release[ver[p]].status = "active"
                /\ current' = release[ver[p]]]_vars
  <2> SUFFICES ASSUME IInv, NoOverlap, NoOverlap', LInv, [Next]_vars, NEW p \in Procs,
                      op[p] = "approve", pc[p] = "cput", pc'[p] = "idle"
               PROVE  release[ver[p]].status = "active" /\ current' = release[ver[p]]
    OBVIOUS
  <2>1. PICK q \in Procs : Request(q) \/ Call(q)
    BY DEF Next, vars, procs, TriggerEvaluation, EvalLost, Crash
  <2>2. q = p
    BY <2>1, Alone, IInvParts DEF ProcsInv
  <2>3. PutCurrent(p)
    BY <2>1, <2>2, RequestBegins, IInvParts
    DEF ProcsInv, Call, ListReleases, GetReleaseSHA, PutRelease, ReadRelease, GetCurrentSHA,
        PatchCRD, ReadCurrent, ApplySync
  <2> QED BY <2>3 DEF PutCurrent, Accepts, LInv, LedgerProc, AtCurrent
<1> QED BY <1>1, <1>2, InitLInv, InitFileStatuses, NextFileStatuses, SpecIInv,
           PTL DEF Spec, ApprovalTakesEffect

\* A deletion that is going to write the tombstone.
Archives(p) == op[p] = "delete" /\ pc[p] \in {"cread", "csha", "cput"}

\* An agent that is gone is archived, or about to be; the requests that change
\* its files run only while it is registered.
ArchiveInv ==
    /\ ~registered /\ current # NoFile => Tombstoned \/ \E p \in Procs : Archives(p)
    /\ \A p \in Procs : op[p] \in {"create", "approve", "reject", "deploy"} => registered

LEMMA InitArchive == Init => ArchiveInv
BY DEF Init, ArchiveInv

LEMMA RequestArchives ==
    ASSUME IInv, LInv, NoOverlap, NoOverlap', ArchiveInv, NEW p \in Procs, Request(p)
    PROVE  ArchiveInv'
<1>1. /\ \A q \in Procs : q # p => pc[q] = "idle" /\ op[q] = "none" /\ op'[q] = "none"
      /\ pc[p] = "idle" /\ op[p] = "none"
  <2>1. pc[p] = "idle"
    BY DEF Request, RegisterAgent, StartCreate, EvalCallback, StartDeploy, DeleteAgent,
           StartSync, Begin, Idle
  <2> QED BY <2>1, Alone, IInvParts DEF ProcsInv, LInv, LedgerProc
<1>2. current' = current
  BY RequestBegins, IInvParts DEF repo, ProcsInv
<1>3. CASE DeleteAgent(p)
  <2>1. op'[p] = "delete" /\ pc'[p] = "cread"
    BY <1>3, BeginAt, IInvParts DEF DeleteAgent, Comes, ProcsInv
  <2> QED BY <1>1, <2>1 DEF ArchiveInv, Archives
<1>4. CASE StartSync(p)
  <2>1. op'[p] = "sync" /\ registered' = registered
    BY <1>4, BeginAt, IInvParts DEF StartSync, Comes, ProcsInv, cluster
  <2> QED BY <1>1, <1>2, <2>1 DEF ArchiveInv, Archives, Tombstoned
<1>5. CASE ~DeleteAgent(p) /\ ~StartSync(p)
  <2>1. registered'
    BY <1>5 DEF Request, RegisterAgent, StartCreate, EvalCallback, StartDeploy, cluster
  <2> QED BY <2>1 DEF ArchiveInv
<1> QED BY <1>3, <1>4, <1>5

LEMMA CallArchives ==
    ASSUME IInv, LInv, NoOverlap, NoOverlap', ArchiveInv, ~Faults, NEW p \in Procs, Call(p)
    PROVE  ArchiveInv'
<1> USE IInvParts DEF ProcsInv
<1>1. \A q \in Procs : q # p => pc[q] = "idle" /\ op[q] = "none" /\ op'[q] = "none"
  BY Alone DEF LInv, LedgerProc
<1>2. registered => registered'
  BY DEF Call, ListReleases, GetReleaseSHA, PutRelease, ReadRelease, GetCurrentSHA,
         PutCurrent, PatchCRD, ReadCurrent, ApplySync, cluster
<1>3. CASE registered
  BY <1>2, <1>3 DEF ArchiveInv
<1>4. CASE ~registered /\ op[p] = "sync"
  <2>1. current' = current /\ (op'[p] = "sync" \/ op'[p] = "none")
    <3>1. CASE ReadCurrent(p)
      BY <1>4, <3>1, FinishAt, ContinueAt DEF ReadCurrent, Comes, repo
    <3>2. CASE ApplySync(p)
      BY <1>4, <3>2, FinishAt DEF ApplySync, Comes, repo
    <3> QED BY <1>4, <3>1, <3>2
            DEF Call, ListReleases, GetReleaseSHA, PutRelease, ReadRelease, GetCurrentSHA,
                PutCurrent, PatchCRD, ProcInv, WritesNext, LInv, LedgerProc, AtCurrent
  <2>2. current # NoFile => Tombstoned
    BY <1>1, <1>4 DEF ArchiveInv, Archives
  <2> QED BY <1>1, <2>1, <2>2 DEF ArchiveInv, Tombstoned
<1>5. CASE ~registered /\ op[p] = "delete"
  <2>1. CASE ReadCurrent(p) /\ ~Finish(p)
    BY <1>1, <1>5, <2>1, ContinueAt DEF ReadCurrent, Comes, ArchiveInv, Archives
  <2>2. CASE ReadCurrent(p) /\ Finish(p)
    <3>1. current' = current /\ op'[p] = "none" /\ (current = NoFile \/ pc'[p] = "idle")
      BY <2>2, FinishAt DEF ReadCurrent, Comes, repo
    <3>2. current = NoFile
      BY <1>5, <2>2, FinishAt, ContinueAt DEF ReadCurrent, Comes
    <3> QED BY <1>1, <3>1, <3>2 DEF ArchiveInv
  <2>3. CASE GetCurrentSHA(p)
    BY <1>1, <1>5, <2>3 DEF GetCurrentSHA, Goto, ProcsTypeOK, ArchiveInv, Archives
  <2>4. CASE PutCurrent(p)
    <3>1. current' = Stamped("delete", current) /\ current # NoFile /\ op'[p] = "none"
      BY <1>5, <2>4, FinishAt
      DEF PutCurrent, AfterCurrentWrite, Accepts, Comes, LInv, LedgerProc, AtCurrent
    <3>2. current'.status = "deleted" /\ current' # NoFile
      BY <3>1, StampedType, StampedStatus, ConstantsAssumption DEF StateTypeOK
    <3> QED BY <1>1, <3>1, <3>2 DEF ArchiveInv, Tombstoned
  <2> QED BY <1>5, <2>1, <2>2, <2>3, <2>4
          DEF Call, ListReleases, GetReleaseSHA, PutRelease, ReadRelease, PatchCRD, ApplySync,
              ProcInv, WritesNext, LInv, LedgerProc, AtCurrent
<1>6. CASE op[p] = "none"
  BY <1>6
  DEF Call, ListReleases, GetReleaseSHA, PutRelease, ReadRelease, GetCurrentSHA, PutCurrent,
      PatchCRD, ReadCurrent, ApplySync, ProcInv, WritesNext, LInv, LedgerProc, AtCurrent
<1> QED BY <1>3, <1>4, <1>5, <1>6 DEF ArchiveInv, ProcsTypeOK, Ops

LEMMA NextArchive ==
    ASSUME ~Faults, ~Crashes, IInv, LInv, NoOverlap, NoOverlap', ArchiveInv, [Next]_vars
    PROVE  ArchiveInv'
<1>1. CASE UNCHANGED <<repo, cluster, procs>>
  BY <1>1 DEF repo, cluster, procs, ArchiveInv, Archives, Tombstoned
<1> QED BY <1>1, RequestArchives, CallArchives DEF Next, vars, TriggerEvaluation, EvalLost, Crash

\* DeletedIsArchived: under these premises an agent that is gone, with no request
\* under way, has its tombstone.
THEOREM DeletionsArchive ==
    ~Faults /\ ~Crashes /\ Spec /\ []NoOverlap => []DeletedIsArchived
<1> SUFFICES ASSUME ~Faults, ~Crashes
             PROVE  Spec /\ []NoOverlap => []DeletedIsArchived
  OBVIOUS
<1>1. IInv /\ FileStatuses /\ NoOverlap /\ NoOverlap' /\ LInv /\ [Next]_vars => LInv'
  BY NextLInv
<1>2. IInv /\ LInv /\ NoOverlap /\ NoOverlap' /\ ArchiveInv /\ [Next]_vars => ArchiveInv'
  BY NextArchive
<1>3. ArchiveInv => DeletedIsArchived
  BY DEF ArchiveInv, Archives, DeletedIsArchived, AllIdle, Idle
<1> QED BY <1>1, <1>2, <1>3, InitArchive, InitLInv, InitFileStatuses, NextFileStatuses,
           SpecIInv, PTL DEF Spec
=============================================================================
