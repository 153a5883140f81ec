------------------------ MODULE ReleasePipelineProofs ------------------------
(***************************************************************************)
(* Proofs about ReleasePipeline for every number of goroutines, payloads   *)
(* and versions, with any faults, crashes and repeated callbacks.          *)
(*                                                                         *)
(* IInv is the inductive invariant: besides the types it says what each    *)
(* goroutine knows of the files at the call it is about to make, which is  *)
(* what lets a write of a copy read some calls before be harmless.         *)
(* GateInv adds what the evaluation gate needs.  Each action has a lemma   *)
(* for either; the theorems about Spec are at the end of the two parts.    *)
(***************************************************************************)
EXTENDS ReleasePipeline, TLAPS

-----------------------------------------------------------------------------
(* The inductive invariant. *)

\* The release files are exactly 1..n for some n.
FilesPrefix ==
    \E n \in 0..MaxVersion : \A v \in Version : Exists(v) <=> v <= n

FilesNamed ==
    \A v \in Version : Exists(v) => release[v].version = v

\* An artifact of a version whose file is there.
Refers(a) == a \in Artifact /\ a.version \in Version /\ Exists(a.version)

PointersRefer ==
    /\ current # NoFile => Refers(current)
    /\ crdVersion # 0 => Exists(crdVersion)

\* A goroutine that is about to write release v holds an artifact of v, and
\* every smaller version is there; v itself is there unless it is being created.
WritesNext(p) ==
    /\ op[p] \in {"create", "approve", "reject"}
    /\ ver[p] \in Version
    /\ buf[p] \in Artifact
    /\ buf[p].version = ver[p]
    /\ \A u \in Version : u < ver[p] => Exists(u)
    /\ op[p] # "create" => Exists(ver[p])

ProcInv(p) ==
    /\ pc[p] = "list" => /\ op[p] = "create"
                         /\ buf[p] \in Artifact
                         /\ buf[p].status = "pending_eval"
    /\ pc[p] \in {"rsha", "rput"} => WritesNext(p)
    /\ pc[p] = "read" => /\ op[p] \in {"approve", "reject", "deploy"}
                         /\ ver[p] \in Version
    /\ pc[p] \in {"csha", "cput", "patch", "apply"} => Refers(buf[p])
    /\ pc[p] = "cread" => op[p] \in {"delete", "sync"}

IInv ==
    /\ TypeOK
    /\ FilesPrefix
    /\ FilesNamed
    /\ PointersRefer
    /\ \A p \in Procs : ProcInv(p)

\* An evaluation of version v reported a passing score.
Scored(v) == \E c \in Payloads : <<v, c>> \in passed

\* What the gate needs of a goroutine: it approves only a scored version, and
\* an artifact it holds says "active" only when its version is scored.
GateProc(p) ==
    /\ pc[p] = "read" /\ op[p] = "approve" => Scored(ver[p])
    /\ buf[p] # NoFile /\ buf[p].status = "active" => Scored(buf[p].version)

GateFiles ==
    /\ \A v \in Version :
        Exists(v) /\ release[v].status = "active" => Scored(v)
    /\ current # NoFile /\ current.status = "active" => Scored(current.version)

GateProcs == \A p \in Procs : GateProc(p)

GateInv == GateFiles /\ GateProcs

-----------------------------------------------------------------------------
(* Lemmas about the operators. *)

\* Approving, rejecting and deleting rewrite the status and the notes only.
LEMMA StampedType ==
    ASSUME NEW o, NEW a \in Artifact
    PROVE  /\ Stamped(o, a) \in Artifact
           /\ Stamped(o, a).version = a.version
           /\ Stamped(o, a).payload = a.payload
<1>1. CASE o = "approve"
  BY <1>1 DEF Stamped, Artifact, Status
<1>2. CASE o = "reject"
  <2>1. Stamped(o, a) = [a EXCEPT !.status = "rejected", !.notes = a.notes + 1]
    BY <1>2 DEF Stamped
  <2>2. a.notes + 1 \in Nat /\ "rejected" \in Status
    BY DEF Artifact, Status
  <2> QED BY <2>1, <2>2 DEF Artifact
<1>3. CASE o = "delete"
  <2>1. Stamped(o, a) = [a EXCEPT !.status = "deleted", !.notes = a.notes + 1]
    BY <1>3 DEF Stamped
  <2>2. a.notes + 1 \in Nat /\ "deleted" \in Status
    BY DEF Artifact, Status
  <2> QED BY <2>1, <2>2 DEF Artifact
<1>4. CASE o \notin {"approve", "reject", "delete"}
  BY <1>4 DEF Stamped
<1> QED BY <1>1, <1>2, <1>3, <1>4

\* The listing determines the highest version.
LEMMA HighestVersionIs ==
    ASSUME NEW n \in 0..MaxVersion,
           \A v \in Version : Exists(v) <=> v <= n
    PROVE  HighestVersion = n
<1> DEFINE Top(k) == /\ k = 0 \/ Exists(k)
                     /\ \A v \in Version : Exists(v) => v <= k
<1>1. Top(n)
  BY ConstantsAssumption DEF Version
<1>2. \A k \in 0..MaxVersion : Top(k) => k = n
  BY ConstantsAssumption DEF Version
<1>3. HighestVersion = CHOOSE k \in 0..MaxVersion : Top(k)
  BY DEF HighestVersion
<1> QED BY <1>1, <1>2, <1>3

\* Whatever number a create takes, the versions below it are there.
LEMMA NextVersionsAbovePrefix ==
    ASSUME FilesPrefix,
           NEW m \in NextVersions, NEW u \in Version, u < m
    PROVE  Exists(u)
<1>1. PICK n \in 0..MaxVersion : \A v \in Version : Exists(v) <=> v <= n
  BY DEF FilesPrefix
<1>2. HighestVersion = n
  BY <1>1, HighestVersionIs
<1>3. m = n + 1 \/ m = 1
  BY <1>2 DEF NextVersions
<1>4. u <= n
  BY <1>3, u < m, ConstantsAssumption DEF Version
<1> QED BY <1>1, <1>4

-----------------------------------------------------------------------------
(* What a step leaves of the invariant where it does not touch it. *)

\* TypeOK is the type of the processes and of the rest.
StateTypeOK ==
    /\ release \in [Version -> Artifact \cup {NoFile}]
    /\ current \in Artifact \cup {NoFile}
    /\ registered \in BOOLEAN
    /\ crdVersion \in 0..MaxVersion
    /\ triggers \subseteq Evaluation
    /\ evals \subseteq Verdict
    /\ edits \in Nat
    /\ passed \subseteq Evaluation

ProcsTypeOK ==
    /\ pc \in [Procs -> Calls]
    /\ op \in [Procs -> Ops]
    /\ ver \in [Procs -> 0..MaxVersion]
    /\ buf \in [Procs -> Artifact \cup {NoFile}]
    /\ sha \in [Procs -> Artifact \cup {NoFile}]

ProcsInv == ProcsTypeOK /\ \A p \in Procs : ProcInv(p)

\* No release file disappears.
FilesKept == \A v \in Version : Exists(v) => Exists(v)'

LEMMA SameFiles ==
    ASSUME release' = release
    PROVE  /\ FilesKept
           /\ FilesPrefix => FilesPrefix'
           /\ FilesNamed => FilesNamed'
BY DEF FilesKept, FilesPrefix, FilesNamed, Exists

LEMMA SamePointers ==
    ASSUME FilesKept, PointersRefer, StateTypeOK,
           current' = current, crdVersion' = crdVersion
    PROVE  PointersRefer'
BY DEF FilesKept, PointersRefer, Refers, Exists, StateTypeOK, Version

\* What a goroutine that makes no step knows stays true.
LEMMA OtherProc ==
    ASSUME FilesKept, NEW q \in Procs, ProcInv(q),
           pc'[q] = pc[q], op'[q] = op[q], ver'[q] = ver[q], buf'[q] = buf[q]
    PROVE  ProcInv(q)'
BY DEF FilesKept, ProcInv, WritesNext, Refers, Exists

LEMMA SameProcs ==
    ASSUME FilesKept, ProcsInv, UNCHANGED procs
    PROVE  ProcsInv'
<1>1. ProcsTypeOK'
  BY DEF ProcsInv, ProcsTypeOK, procs
<1>2. ASSUME NEW q \in Procs PROVE ProcInv(q)'
  BY OtherProc DEF ProcsInv, procs
<1> QED BY <1>1, <1>2 DEF ProcsInv

LEMMA FinishKeeps ==
    ASSUME FilesKept, ProcsInv, NEW p \in Procs, Finish(p)
    PROVE  ProcsInv'
<1>1. ProcsTypeOK'
  BY ConstantsAssumption DEF ProcsInv, ProcsTypeOK, Finish, Goto, Calls, Ops
<1>2. ProcInv(p)'
  BY DEF ProcsInv, ProcsTypeOK, ProcInv, Finish, Goto
<1>3. ASSUME NEW q \in Procs, q # p PROVE ProcInv(q)'
  <2>1. pc'[q] = pc[q] /\ op'[q] = op[q] /\ ver'[q] = ver[q] /\ buf'[q] = buf[q]
    BY <1>3 DEF ProcsInv, ProcsTypeOK, Finish, Goto
  <2> QED BY <2>1, OtherProc DEF ProcsInv
<1> QED BY <1>1, <1>2, <1>3 DEF ProcsInv

\* A request enters with what its first call needs.
LEMMA BeginKeeps ==
    ASSUME FilesKept, ProcsInv, NEW p \in Procs,
           NEW o \in Ops, NEW l \in {"list", "read", "cread"},
           NEW v \in 0..MaxVersion, NEW a \in Artifact \cup {NoFile},
           Begin(p, o, l, v, a),
           l = "list" => /\ o = "create"
                         /\ a \in Artifact
                         /\ a.status = "pending_eval",
           l = "read" => o \in {"approve", "reject", "deploy"} /\ v \in Version,
           l = "cread" => o \in {"delete", "sync"}
    PROVE  ProcsInv'
<1>1. ProcsTypeOK'
  BY DEF ProcsInv, ProcsTypeOK, Begin, Goto, Calls, Ops
<1>2. ProcInv(p)'
  BY DEF ProcsInv, ProcsTypeOK, ProcInv, Begin, Goto
<1>3. ASSUME NEW q \in Procs, q # p PROVE ProcInv(q)'
  <2>1. pc'[q] = pc[q] /\ op'[q] = op[q] /\ ver'[q] = ver[q] /\ buf'[q] = buf[q]
    BY <1>3 DEF ProcsInv, ProcsTypeOK, Begin, Goto
  <2> QED BY <2>1, OtherProc DEF ProcsInv
<1> QED BY <1>1, <1>2, <1>3 DEF ProcsInv

\* A request goes on with an artifact of a version that is there.
LEMMA ContinueKeeps ==
    ASSUME FilesKept, ProcsInv, NEW p \in Procs,
           NEW l \in {"rsha", "csha", "patch", "apply"}, NEW a \in Artifact,
           Continue(p, l, a),
           a.version \in Version, release'[a.version] # NoFile,
           l = "rsha" => /\ op[p] \in {"approve", "reject"}
                         /\ a.version = ver[p]
                         /\ \A u \in Version :
                                u < ver[p] => release'[u] # NoFile
    PROVE  ProcsInv'
<1>1. ProcsTypeOK'
  BY DEF ProcsInv, ProcsTypeOK, Continue, Goto, Calls
<1>2. ProcInv(p)'
  <2>1. pc'[p] = l /\ buf'[p] = a /\ op'[p] = op[p] /\ ver'[p] = ver[p]
    BY DEF ProcsInv, ProcsTypeOK, Continue, Goto
  <2> QED BY <2>1 DEF ProcInv, WritesNext, Refers, Exists
<1>3. ASSUME NEW q \in Procs, q # p PROVE ProcInv(q)'
  <2>1. pc'[q] = pc[q] /\ op'[q] = op[q] /\ ver'[q] = ver[q] /\ buf'[q] = buf[q]
    BY <1>3 DEF ProcsInv, ProcsTypeOK, Continue, Goto
  <2> QED BY <2>1, OtherProc DEF ProcsInv
<1> QED BY <1>1, <1>2, <1>3 DEF ProcsInv

-----------------------------------------------------------------------------
(* The initial states, and one lemma per action. *)

LEMMA InitIInv == Init => IInv
<1> SUFFICES ASSUME Init PROVE IInv
  OBVIOUS
<1>1. TypeOK
  <2>1. registered \in BOOLEAN
    BY DEF Init
  <2>2. 0 \in 0..MaxVersion
    BY ConstantsAssumption
  <2> QED BY <2>1, <2>2 DEF Init, TypeOK, Calls, Ops
<1>2. FilesPrefix
  <2>1. \A v \in Version : Exists(v) <=> v <= 0
    BY ConstantsAssumption DEF Init, Exists, Version
  <2> QED BY <2>1, ConstantsAssumption DEF FilesPrefix
<1>3. FilesNamed /\ PointersRefer
  BY DEF Init, FilesNamed, PointersRefer, Exists
<1>4. \A p \in Procs : ProcInv(p)
  BY DEF Init, ProcInv
<1> QED BY <1>1, <1>2, <1>3, <1>4 DEF IInv

LEMMA IInvParts ==
    IInv <=> StateTypeOK /\ FilesPrefix /\ FilesNamed /\ PointersRefer /\ ProcsInv
BY DEF IInv, TypeOK, StateTypeOK, ProcsInv, ProcsTypeOK

LEMMA IInvPartsPrimed ==
    IInv' <=> StateTypeOK' /\ FilesPrefix' /\ FilesNamed' /\ PointersRefer' /\ ProcsInv'
BY DEF IInv, TypeOK, StateTypeOK, ProcsInv, ProcsTypeOK

LEMMA NewArtifactType ==
    ASSUME NEW c \in Payloads
    PROVE  NewArtifact(c) \in Artifact /\ NewArtifact(c).status = "pending_eval"
BY DEF NewArtifact, Artifact, Status

\* RegisterAgent, StartCreate, EvalCallback, StartDeploy, DeleteAgent and
\* StartSync start a request and write no file.
LEMMA RequestIInv ==
    ASSUME IInv, NEW p \in Procs, Request(p)
    PROVE  IInv'
<1> USE IInvParts
<1>1. ASSUME NEW c \in Payloads, RegisterAgent(p, c) \/ StartCreate(p, c)
      PROVE  IInv'
  <2>1. FilesKept /\ FilesPrefix' /\ FilesNamed'
    BY <1>1, SameFiles DEF RegisterAgent, StartCreate, repo
  <2>2. PointersRefer'
    BY <1>1, <2>1 DEF RegisterAgent, StartCreate, repo, cluster, PointersRefer,
       Refers, FilesKept, Exists
  <2>3. StateTypeOK'
    <3>1. registered' \in BOOLEAN
      BY <1>1 DEF RegisterAgent, StartCreate, cluster, StateTypeOK
    <3>2. crdVersion' \in 0..MaxVersion
      BY <1>1, ConstantsAssumption
      DEF RegisterAgent, StartCreate, cluster, StateTypeOK
    <3> QED BY <1>1, <3>1, <3>2
      DEF RegisterAgent, StartCreate, repo, evaluation, StateTypeOK
  <2>4. Begin(p, "create", "list", 0, NewArtifact(c))
    BY <1>1 DEF RegisterAgent, StartCreate
  <2>5. ProcsInv'
    BY <2>1, <2>4, BeginKeeps, NewArtifactType, ConstantsAssumption DEF Ops
  <2> QED BY <2>1, <2>2, <2>3, <2>5, IInvPartsPrimed
<1>2. ASSUME NEW d \in evals, EvalCallback(p, d)
      PROVE  IInv'
  <2>1. FilesKept /\ FilesPrefix' /\ FilesNamed'
    BY <1>2, SameFiles DEF EvalCallback, repo
  <2>2. PointersRefer'
    BY <1>2, <2>1 DEF EvalCallback, repo, cluster, PointersRefer, Refers, Exists
  <2>3. d[1] \in Version /\ d[2] \in Payloads /\ d[3] \in BOOLEAN
    BY DEF StateTypeOK, Verdict
  <2>4. StateTypeOK'
    BY <1>2, <2>3 DEF EvalCallback, repo, cluster, StateTypeOK, Evaluation
  <2>5. PICK o \in {"approve", "reject"} : Begin(p, o, "read", d[1], NoFile)
    BY <1>2 DEF EvalCallback
  <2>6. ProcsInv'
    BY <2>1, <2>3, <2>5, BeginKeeps, ConstantsAssumption DEF Ops, Version
  <2> QED BY <2>1, <2>2, <2>4, <2>6, IInvPartsPrimed
<1>3. ASSUME NEW v \in Version, StartDeploy(p, v)
      PROVE  IInv'
  <2>1. FilesKept /\ FilesPrefix' /\ FilesNamed'
    BY <1>3, SameFiles DEF StartDeploy, repo
  <2>2. PointersRefer' /\ StateTypeOK'
    BY <1>3, <2>1 DEF StartDeploy, repo, cluster, evaluation, PointersRefer,
       Refers, Exists, StateTypeOK
  <2>3. ProcsInv'
    BY <1>3, <2>1, BeginKeeps, ConstantsAssumption DEF StartDeploy, Ops, Version
  <2> QED BY <2>1, <2>2, <2>3, IInvPartsPrimed
<1>4. ASSUME DeleteAgent(p) PROVE IInv'
  <2>1. FilesKept /\ FilesPrefix' /\ FilesNamed'
    BY <1>4, SameFiles DEF DeleteAgent, repo
  <2>2. PointersRefer'
    BY <1>4 DEF DeleteAgent, repo, PointersRefer, Refers, Exists
  <2>3. StateTypeOK'
    <3>1. registered' \in BOOLEAN
      BY <1>4 DEF DeleteAgent
    <3>2. crdVersion' \in 0..MaxVersion /\ edits' \in Nat
      BY <1>4, ConstantsAssumption DEF DeleteAgent, StateTypeOK
    <3> QED BY <1>4, <3>1, <3>2 DEF DeleteAgent, repo, evaluation, StateTypeOK
  <2>4. ProcsInv'
    BY <1>4, <2>1, BeginKeeps, ConstantsAssumption DEF DeleteAgent, Ops
  <2> QED BY <2>1, <2>2, <2>3, <2>4, IInvPartsPrimed
<1>5. ASSUME StartSync(p) PROVE IInv'
  <2>1. FilesKept /\ FilesPrefix' /\ FilesNamed'
    BY <1>5, SameFiles DEF StartSync, repo
  <2>2. PointersRefer' /\ StateTypeOK'
    BY <1>5, <2>1 DEF StartSync, repo, cluster, evaluation,
       PointersRefer, Refers, Exists, StateTypeOK
  <2>3. ProcsInv'
    BY <1>5, <2>1, BeginKeeps, ConstantsAssumption DEF StartSync, Ops
  <2> QED BY <2>1, <2>2, <2>3, IInvPartsPrimed
<1> QED BY <1>1, <1>2, <1>3, <1>4, <1>5 DEF Request

\* A goroutine moves from one half of a write to the other.
LEMMA PutFollowsGet ==
    ASSUME FilesKept, ProcsInv, NEW p \in Procs,
           NEW l \in {"rput", "cput"}, Goto(p, l),
           l = "rput" => pc[p] = "rsha",
           l = "cput" => pc[p] = "csha",
           UNCHANGED <<op, ver, buf>>,
           sha' \in [Procs -> Artifact \cup {NoFile}]
    PROVE  ProcsInv'
<1>1. ProcsTypeOK'
  BY DEF ProcsInv, ProcsTypeOK, Goto, Calls
<1>2. ProcInv(p)'
  <2>1. pc'[p] = l /\ ProcInv(p)
    BY DEF ProcsInv, ProcsTypeOK, Goto
  <2> QED BY <2>1 DEF ProcInv, WritesNext, Refers, FilesKept, Exists
<1>3. ASSUME NEW q \in Procs, q # p PROVE ProcInv(q)'
  <2>1. pc'[q] = pc[q] /\ op'[q] = op[q] /\ ver'[q] = ver[q] /\ buf'[q] = buf[q]
    BY <1>3 DEF ProcsInv, ProcsTypeOK, Goto
  <2> QED BY <2>1, OtherProc DEF ProcsInv
<1> QED BY <1>1, <1>2, <1>3 DEF ProcsInv

LEMMA ListReleasesIInv ==
    ASSUME IInv, NEW p \in Procs, ListReleases(p)
    PROVE  IInv'
<1> USE IInvParts
<1>1. FilesKept /\ FilesPrefix' /\ FilesNamed'
  BY SameFiles DEF ListReleases, repo
<1>2. PointersRefer' /\ StateTypeOK'
  BY <1>1, SamePointers DEF ListReleases, repo, cluster, evaluation, StateTypeOK
<1>3. PICK n \in NextVersions \cap Version :
        /\ ver' = [ver EXCEPT ![p] = n]
        /\ buf' = [buf EXCEPT ![p].version = n]
  BY DEF ListReleases
<1>4. /\ pc[p] = "list" /\ op[p] = "create" /\ buf[p] \in Artifact
      /\ pc' = [pc EXCEPT ![p] = "rsha"] /\ op' = op /\ sha' = sha
  BY DEF ListReleases, Goto, ProcsInv, ProcInv
<1>5. buf' = [buf EXCEPT ![p] = [buf[p] EXCEPT !.version = n]]
  BY <1>3
<1>6. [buf[p] EXCEPT !.version = n] \in Artifact
  BY <1>4 DEF Artifact, Version
<1>7. ProcsTypeOK'
  BY <1>3, <1>4, <1>5, <1>6 DEF ProcsInv, ProcsTypeOK, Calls, Version
<1>8. ProcInv(p)'
  <2>1. /\ pc'[p] = "rsha" /\ op'[p] = "create" /\ ver'[p] = n
        /\ buf'[p] = [buf[p] EXCEPT !.version = n]
    BY <1>3, <1>4, <1>5 DEF ProcsInv, ProcsTypeOK
  <2>2. buf'[p] \in Artifact /\ buf'[p].version = n
    BY <2>1, <1>4, <1>6 DEF Artifact
  <2>3. \A u \in Version : u < n => Exists(u)'
    BY <1>1, NextVersionsAbovePrefix DEF FilesKept
  <2> QED BY <2>1, <2>2, <2>3 DEF ProcInv, WritesNext, Exists
<1>9. ASSUME NEW q \in Procs, q # p PROVE ProcInv(q)'
  <2>1. pc'[q] = pc[q] /\ op'[q] = op[q] /\ ver'[q] = ver[q] /\ buf'[q] = buf[q]
    BY <1>9, <1>3, <1>4, <1>5 DEF ProcsInv, ProcsTypeOK
  <2> QED BY <1>1, <2>1, OtherProc DEF ProcsInv
<1> QED BY <1>1, <1>2, <1>7, <1>8, <1>9, IInvPartsPrimed DEF ProcsInv

\* After a failed write only approve goes on, and its release is there.
LEMMA AfterFailedReleaseWriteKeeps ==
    ASSUME FilesKept, ProcsInv, NEW p \in Procs, pc[p] \in {"rsha", "rput"},
           AfterFailedReleaseWrite(p)
    PROVE  ProcsInv' /\ triggers' = triggers
<1>1. CASE op[p] = "approve"
  <2>1. Continue(p, "csha", buf[p])
    BY <1>1 DEF AfterFailedReleaseWrite
  <2>2. /\ buf[p] \in Artifact
        /\ buf[p].version \in Version
        /\ release'[buf[p].version] # NoFile
    BY <1>1 DEF ProcsInv, ProcInv, WritesNext, FilesKept, Exists
  <2>3. ProcsInv'
    BY <2>1, <2>2, ContinueKeeps
  <2> QED BY <2>3 DEF AfterFailedReleaseWrite
<1>2. CASE op[p] # "approve"
  BY <1>2, FinishKeeps DEF AfterFailedReleaseWrite
<1> QED BY <1>1, <1>2

LEMMA GetReleaseSHAIInv ==
    ASSUME IInv, NEW p \in Procs, GetReleaseSHA(p)
    PROVE  IInv'
<1> USE IInvParts
<1>1. FilesKept /\ FilesPrefix' /\ FilesNamed'
  BY SameFiles DEF GetReleaseSHA, repo
<1>2. PointersRefer'
  BY <1>1, SamePointers DEF GetReleaseSHA, repo, cluster
<1>3. ProcsInv' /\ triggers' = triggers
  <2>1. CASE Goto(p, "rput") /\ sha' = [sha EXCEPT ![p] = release[ver[p]]]
             /\ UNCHANGED <<op, ver, buf, triggers>>
    <3>1. release[ver[p]] \in Artifact \cup {NoFile}
      BY DEF GetReleaseSHA, ProcsInv, ProcInv, WritesNext, StateTypeOK
    <3>2. sha' \in [Procs -> Artifact \cup {NoFile}]
      BY <2>1, <3>1 DEF ProcsInv, ProcsTypeOK
    <3>3. pc[p] = "rsha"
      BY DEF GetReleaseSHA
    <3> QED BY <1>1, <2>1, <3>2, <3>3, PutFollowsGet
  <2>2. CASE AfterFailedReleaseWrite(p)
    BY <1>1, <2>2, AfterFailedReleaseWriteKeeps DEF GetReleaseSHA
  <2> QED BY <2>1, <2>2 DEF GetReleaseSHA
<1>4. StateTypeOK'
  BY <1>3 DEF GetReleaseSHA, repo, cluster, StateTypeOK
<1> QED BY <1>1, <1>2, <1>3, <1>4, IInvPartsPrimed

\* A PUT that takes effect extends the prefix by at most the next version.
LEMMA ReleaseWritten ==
    ASSUME IInv, NEW p \in Procs, pc[p] = "rput",
           release' = [release EXCEPT ![ver[p]] = buf[p]]
    PROVE  /\ release' \in [Version -> Artifact \cup {NoFile}]
           /\ FilesKept /\ FilesPrefix' /\ FilesNamed' /\ release'[ver[p]] # NoFile
<1>1. /\ ver[p] \in Version /\ buf[p] \in Artifact /\ buf[p].version = ver[p]
      /\ \A u \in Version : u < ver[p] => Exists(u)
  BY DEF IInv, ProcInv, WritesNext
<1>2. buf[p] # NoFile
  BY <1>1, ConstantsAssumption
<1>3. release' \in [Version -> Artifact \cup {NoFile}]
  BY <1>1 DEF IInv, TypeOK
<1>4. \A v \in Version : release'[v] = IF v = ver[p] THEN buf[p] ELSE release[v]
  BY <1>1 DEF IInv, TypeOK
<1>5. FilesKept
  BY <1>2, <1>4 DEF FilesKept, Exists
<1>6. FilesPrefix'
  <2>1. PICK n \in 0..MaxVersion : \A v \in Version : Exists(v) <=> v <= n
    BY DEF IInv, FilesPrefix
  <2> DEFINE m == IF ver[p] <= n THEN n ELSE ver[p]
  <2>2. m \in 0..MaxVersion
    BY <1>1, <2>1, ConstantsAssumption DEF Version
  <2>3. \A v \in Version : release'[v] # NoFile <=> Exists(v) \/ v = ver[p]
    BY <1>2, <1>4 DEF Exists
  <2>4. \A v \in Version : v < ver[p] => v <= n
    BY <1>1, <2>1
  <2>5. \A v \in Version : release'[v] # NoFile <=> v <= m
    BY <1>1, <2>1, <2>3, <2>4, ConstantsAssumption DEF Version
  <2> QED BY <2>2, <2>5 DEF FilesPrefix, Exists
<1>7. FilesNamed'
  BY <1>1, <1>4 DEF IInv, FilesNamed, Exists
<1> QED BY <1>1, <1>2, <1>3, <1>4, <1>5, <1>6, <1>7

\* The three ways a successful write of the release file ends.
LEMMA AfterReleaseWriteKeeps ==
    ASSUME FilesKept, ProcsInv, NEW p \in Procs, pc[p] = "rput",
           triggers \subseteq Evaluation, AfterReleaseWrite(p),
           release'[ver[p]] # NoFile
    PROVE  ProcsInv' /\ triggers' \subseteq Evaluation
<1>1. WritesNext(p)
  BY DEF ProcsInv, ProcInv
<1>2. CASE op[p] = "create" /\ RequiresEval(buf[p])
  <2>1. triggers' = triggers \cup {<<ver[p], buf[p].payload>>} /\ Finish(p)
    BY <1>2 DEF AfterReleaseWrite
  <2>2. <<ver[p], buf[p].payload>> \in Evaluation
    BY <1>1 DEF WritesNext, Artifact, Evaluation
  <2> QED BY <2>1, <2>2, FinishKeeps
<1>3. CASE op[p] = "create" /\ ~RequiresEval(buf[p])
  <2>1. /\ pc' = [pc EXCEPT ![p] = "read"]
        /\ op' = [op EXCEPT ![p] = "approve"]
        /\ buf' = [buf EXCEPT ![p] = NoFile]
        /\ sha' = [sha EXCEPT ![p] = NoFile]
        /\ ver' = ver /\ triggers' = triggers
    BY <1>3 DEF AfterReleaseWrite, Goto
  <2>2. ProcsTypeOK'
    BY <2>1 DEF ProcsInv, ProcsTypeOK, Calls, Ops
  <2>3. ProcInv(p)'
    BY <1>1, <2>1 DEF ProcsInv, ProcsTypeOK, ProcInv, WritesNext
  <2>4. ASSUME NEW q \in Procs, q # p PROVE ProcInv(q)'
    <3>1. /\ pc'[q] = pc[q] /\ op'[q] = op[q]
          /\ ver'[q] = ver[q] /\ buf'[q] = buf[q]
      BY <2>1, <2>4 DEF ProcsInv, ProcsTypeOK
    <3> QED BY <3>1, OtherProc DEF ProcsInv
  <2> QED BY <2>1, <2>2, <2>3, <2>4 DEF ProcsInv
<1>4. CASE op[p] = "approve"
  <2>1. Continue(p, "csha", buf[p]) /\ triggers' = triggers
    BY <1>4 DEF AfterReleaseWrite
  <2>2. /\ buf[p] \in Artifact
        /\ buf[p].version \in Version
        /\ release'[buf[p].version] # NoFile
    BY <1>1 DEF WritesNext
  <2>3. ProcsInv'
    BY <2>1, <2>2, ContinueKeeps
  <2> QED BY <2>1, <2>3
<1>5. CASE op[p] \notin {"create", "approve"}
  BY <1>5, FinishKeeps DEF AfterReleaseWrite
<1> QED BY <1>2, <1>3, <1>4, <1>5

LEMMA PutReleaseIInv ==
    ASSUME IInv, NEW p \in Procs, PutRelease(p)
    PROVE  IInv'
<1> USE IInvParts
<1>1. CASE /\ release' = [release EXCEPT ![ver[p]] = buf[p]]
           /\ AfterReleaseWrite(p) \/ AfterFailedReleaseWrite(p)
  <2>1. /\ release' \in [Version -> Artifact \cup {NoFile}]
        /\ FilesKept /\ FilesPrefix' /\ FilesNamed' /\ release'[ver[p]] # NoFile
    BY <1>1, ReleaseWritten DEF PutRelease
  <2>2. PointersRefer'
    BY <2>1, SamePointers DEF PutRelease, cluster
  <2>3. ProcsInv' /\ triggers' \subseteq Evaluation
    <3>1. pc[p] = "rput" /\ triggers \subseteq Evaluation
      BY DEF PutRelease, StateTypeOK
    <3>2. CASE AfterReleaseWrite(p)
      BY <2>1, <3>1, <3>2, AfterReleaseWriteKeeps
    <3>3. CASE AfterFailedReleaseWrite(p)
      BY <2>1, <3>1, <3>3, AfterFailedReleaseWriteKeeps
    <3> QED BY <1>1, <3>2, <3>3
  <2>4. StateTypeOK'
    BY <2>1, <2>3 DEF PutRelease, cluster, StateTypeOK
  <2> QED BY <2>1, <2>2, <2>3, <2>4, IInvPartsPrimed
<1>2. CASE release' = release /\ AfterFailedReleaseWrite(p)
  <2>1. FilesKept /\ FilesPrefix' /\ FilesNamed'
    BY <1>2, SameFiles
  <2>2. PointersRefer'
    BY <2>1, SamePointers DEF PutRelease, cluster
  <2>3. ProcsInv' /\ triggers' = triggers
    BY <1>2, <2>1, AfterFailedReleaseWriteKeeps DEF PutRelease
  <2>4. StateTypeOK'
    BY <1>2, <2>3 DEF PutRelease, cluster, StateTypeOK
  <2> QED BY <2>1, <2>2, <2>3, <2>4, IInvPartsPrimed
<1> QED BY <1>1, <1>2 DEF PutRelease

LEMMA ReadReleaseIInv ==
    ASSUME IInv, NEW p \in Procs, ReadRelease(p)
    PROVE  IInv'
<1> USE IInvParts
<1>1. FilesKept /\ FilesPrefix' /\ FilesNamed'
  BY SameFiles DEF ReadRelease, repo
<1>2. PointersRefer' /\ StateTypeOK'
  BY <1>1, SamePointers DEF ReadRelease, repo, cluster, evaluation, StateTypeOK
<1>3. ProcsInv'
  <2>1. CASE /\ Exists(ver[p])
             /\ Continue(p, IF op[p] = "deploy" THEN "csha" ELSE "rsha",
                         Stamped(op[p], release[ver[p]]))
    <3>1. op[p] \in {"approve", "reject", "deploy"} /\ ver[p] \in Version
      BY DEF ReadRelease, ProcsInv, ProcInv
    <3>2. release[ver[p]] \in Artifact /\ release[ver[p]].version = ver[p]
      BY <2>1, <3>1 DEF StateTypeOK, FilesNamed, Exists
    <3>3. PICK a \in Artifact : a = Stamped(op[p], release[ver[p]])
      BY <3>2, StampedType
    <3>4. a.version = ver[p]
      BY <3>2, <3>3, StampedType
    <3>5. release' = release /\ \A u \in Version : u < ver[p] => Exists(u)
      BY <2>1, <3>1, ConstantsAssumption
      DEF ReadRelease, repo, FilesPrefix, Version
    <3>6. PICK l \in {"rsha", "csha"} :
            Continue(p, l, a) /\ (l = "rsha" => op[p] # "deploy")
      BY <2>1, <3>3
    <3> QED BY <1>1, <2>1, <3>1, <3>4, <3>5, <3>6, ContinueKeeps DEF Exists
  <2>2. CASE Finish(p)
    BY <1>1, <2>2, FinishKeeps
  <2> QED BY <2>1, <2>2 DEF ReadRelease
<1> QED BY <1>1, <1>2, <1>3, IInvPartsPrimed

LEMMA GetCurrentSHAIInv ==
    ASSUME IInv, NEW p \in Procs, GetCurrentSHA(p)
    PROVE  IInv'
<1> USE IInvParts
<1>1. FilesKept /\ FilesPrefix' /\ FilesNamed'
  BY SameFiles DEF GetCurrentSHA, repo
<1>2. PointersRefer' /\ StateTypeOK'
  BY <1>1, SamePointers
  DEF GetCurrentSHA, repo, cluster, evaluation, StateTypeOK
<1>3. ProcsInv'
  <2>1. CASE Goto(p, "cput") /\ sha' = [sha EXCEPT ![p] = current]
             /\ UNCHANGED <<op, ver, buf>>
    <3>1. sha' \in [Procs -> Artifact \cup {NoFile}]
      BY <2>1 DEF ProcsInv, ProcsTypeOK, StateTypeOK
    <3> QED BY <1>1, <2>1, <3>1, PutFollowsGet DEF GetCurrentSHA
  <2>2. CASE Finish(p)
    BY <1>1, <2>2, FinishKeeps
  <2> QED BY <2>1, <2>2 DEF GetCurrentSHA
<1> QED BY <1>1, <1>2, <1>3, IInvPartsPrimed

LEMMA PutCurrentIInv ==
    ASSUME IInv, NEW p \in Procs, PutCurrent(p)
    PROVE  IInv'
<1> USE IInvParts
<1>1. FilesKept /\ FilesPrefix' /\ FilesNamed'
  BY SameFiles DEF PutCurrent
<1>2. Refers(buf[p])
  BY DEF PutCurrent, ProcsInv, ProcInv
<1>3. current' = current \/ current' = buf[p]
  BY DEF PutCurrent
<1>4. PointersRefer'
  BY <1>2, <1>3 DEF PutCurrent, PointersRefer, Refers, Exists, cluster
<1>5. StateTypeOK'
  BY <1>2, <1>3 DEF PutCurrent, cluster, evaluation, StateTypeOK, Refers
<1>6. ProcsInv'
  <2>1. CASE Continue(p, "patch", buf[p])
    <3>1. /\ buf[p] \in Artifact /\ buf[p].version \in Version
          /\ release'[buf[p].version] # NoFile
      BY <1>2 DEF PutCurrent, Refers, Exists
    <3> QED BY <1>1, <2>1, <3>1, ContinueKeeps
  <2>2. CASE Finish(p)
    BY <1>1, <2>2, FinishKeeps
  <2> QED BY <2>1, <2>2 DEF PutCurrent, AfterCurrentWrite
<1> QED BY <1>1, <1>4, <1>5, <1>6, IInvPartsPrimed

LEMMA PatchCRDIInv ==
    ASSUME IInv, NEW p \in Procs, PatchCRD(p)
    PROVE  IInv'
<1> USE IInvParts
<1>1. FilesKept /\ FilesPrefix' /\ FilesNamed'
  BY SameFiles DEF PatchCRD, repo
<1>2. Refers(buf[p])
  BY DEF PatchCRD, ProcsInv, ProcInv
<1>3. PointersRefer'
  BY <1>2 DEF PatchCRD, repo, PointersRefer, Refers, Exists
<1>4. StateTypeOK'
  BY <1>2 DEF PatchCRD, repo, evaluation, StateTypeOK, Refers, Version
<1>5. ProcsInv'
  BY <1>1, FinishKeeps DEF PatchCRD
<1> QED BY <1>1, <1>3, <1>4, <1>5, IInvPartsPrimed

LEMMA ReadCurrentIInv ==
    ASSUME IInv, NEW p \in Procs, ReadCurrent(p)
    PROVE  IInv'
<1> USE IInvParts
<1>1. FilesKept /\ FilesPrefix' /\ FilesNamed'
  BY SameFiles DEF ReadCurrent, repo
<1>2. PointersRefer' /\ StateTypeOK'
  BY <1>1, SamePointers DEF ReadCurrent, repo, cluster, evaluation, StateTypeOK
<1>3. ProcsInv'
  <2>1. CASE /\ current # NoFile
             /\ Continue(p, IF op[p] = "sync" THEN "apply" ELSE "csha",
                         Stamped(op[p], current))
    <3>1. Refers(current)
      BY <2>1 DEF PointersRefer
    <3>2. PICK a \in Artifact : a = Stamped(op[p], current)
      BY <3>1, StampedType DEF Refers
    <3>3. a.version \in Version /\ release'[a.version] # NoFile
      BY <3>1, <3>2, StampedType DEF ReadCurrent, repo, Refers, Exists
    <3>4. PICK l \in {"apply", "csha"} : Continue(p, l, a)
      BY <2>1, <3>2
    <3> QED BY <1>1, <3>3, <3>4, ContinueKeeps
  <2>2. CASE Finish(p)
    BY <1>1, <2>2, FinishKeeps
  <2> QED BY <2>1, <2>2 DEF ReadCurrent
<1> QED BY <1>1, <1>2, <1>3, IInvPartsPrimed

LEMMA ApplySyncIInv ==
    ASSUME IInv, NEW p \in Procs, ApplySync(p)
    PROVE  IInv'
<1> USE IInvParts
<1>1. FilesKept /\ FilesPrefix' /\ FilesNamed'
  BY SameFiles DEF ApplySync, repo
<1>2. Refers(buf[p])
  BY DEF ApplySync, ProcsInv, ProcInv
<1>3. PointersRefer'
  BY <1>2 DEF ApplySync, repo, cluster, PointersRefer, Refers, Exists
<1>4. StateTypeOK'
  <2>1. registered' \in BOOLEAN
    BY DEF ApplySync, cluster, StateTypeOK
  <2>2. crdVersion' \in 0..MaxVersion
    BY <1>2 DEF ApplySync, cluster, StateTypeOK, Refers, Version
  <2> QED BY <2>1, <2>2 DEF ApplySync, repo, evaluation, StateTypeOK
<1>5. ProcsInv'
  BY <1>1, FinishKeeps DEF ApplySync
<1> QED BY <1>1, <1>3, <1>4, <1>5, IInvPartsPrimed

LEMMA TriggerEvaluationIInv ==
    ASSUME IInv, NEW e \in triggers, TriggerEvaluation(e)
    PROVE  IInv'
<1> USE IInvParts
<1>1. FilesKept /\ FilesPrefix' /\ FilesNamed'
  BY SameFiles DEF TriggerEvaluation, repo
<1>2. PointersRefer' /\ ProcsInv'
  BY <1>1, SamePointers, SameProcs DEF TriggerEvaluation, repo, cluster
<1>3. StateTypeOK'
  <2>1. e[1] \in Version /\ e[2] \in Payloads
    BY DEF StateTypeOK, Evaluation
  <2>2. <<e[1], e[2], TRUE>> \in Verdict /\ <<e[1], e[2], FALSE>> \in Verdict
    BY <2>1 DEF Verdict
  <2>3. evals' \subseteq Verdict
    BY <2>2 DEF TriggerEvaluation, StateTypeOK
  <2>4. edits' = edits \/ edits' = edits + 1
    BY DEF TriggerEvaluation
  <2>5. triggers' \subseteq Evaluation /\ edits' \in Nat
    BY <2>4 DEF TriggerEvaluation, StateTypeOK
  <2> QED BY <2>3, <2>5 DEF TriggerEvaluation, repo, cluster, StateTypeOK
<1> QED BY <1>1, <1>2, <1>3, IInvPartsPrimed

LEMMA EvalLostIInv ==
    ASSUME IInv, NEW d \in evals, EvalLost(d)
    PROVE  IInv'
<1> USE IInvParts
<1>1. FilesKept /\ FilesPrefix' /\ FilesNamed'
  BY SameFiles DEF EvalLost, repo
<1>2. PointersRefer' /\ ProcsInv'
  BY <1>1, SamePointers, SameProcs DEF EvalLost, repo, cluster
<1>3. StateTypeOK'
  BY DEF EvalLost, repo, cluster, StateTypeOK
<1> QED BY <1>1, <1>2, <1>3, IInvPartsPrimed

LEMMA CrashIInv ==
    ASSUME IInv, Crash
    PROVE  IInv'
<1> USE IInvParts
<1>1. FilesKept /\ FilesPrefix' /\ FilesNamed'
  BY SameFiles DEF Crash, repo
<1>2. PointersRefer' /\ StateTypeOK'
  BY <1>1, SamePointers DEF Crash, repo, cluster, StateTypeOK
<1>3. ProcsTypeOK'
  BY ConstantsAssumption DEF Crash, ProcsTypeOK, Calls, Ops
<1>4. ASSUME NEW p \in Procs PROVE ProcInv(p)'
  BY DEF Crash, ProcInv
<1> QED BY <1>1, <1>2, <1>3, <1>4, IInvPartsPrimed DEF ProcsInv

LEMMA StutterIInv ==
    ASSUME IInv, UNCHANGED vars
    PROVE  IInv'
<1> USE IInvParts
<1>1. FilesKept /\ FilesPrefix' /\ FilesNamed'
  BY SameFiles DEF vars, repo
<1>2. PointersRefer' /\ ProcsInv'
  BY <1>1, SamePointers, SameProcs DEF vars, repo, cluster
<1>3. StateTypeOK'
  BY DEF vars, repo, cluster, evaluation, StateTypeOK
<1> QED BY <1>1, <1>2, <1>3, IInvPartsPrimed

LEMMA NextIInv == IInv /\ [Next]_vars => IInv'
<1> SUFFICES ASSUME IInv, [Next]_vars PROVE IInv'
  OBVIOUS
<1>1. ASSUME NEW p \in Procs, Request(p) PROVE IInv'
  BY <1>1, RequestIInv
<1>2. ASSUME NEW p \in Procs, Call(p) PROVE IInv'
  BY <1>2, ListReleasesIInv, GetReleaseSHAIInv, PutReleaseIInv,
     ReadReleaseIInv, GetCurrentSHAIInv, PutCurrentIInv, PatchCRDIInv,
     ReadCurrentIInv, ApplySyncIInv DEF Call
<1>3. ASSUME NEW e \in triggers, TriggerEvaluation(e) PROVE IInv'
  BY <1>3, TriggerEvaluationIInv
<1>4. ASSUME NEW d \in evals, EvalLost(d) PROVE IInv'
  BY <1>4, EvalLostIInv
<1>5. CASE Crash
  BY <1>5, CrashIInv
<1>6. CASE UNCHANGED vars
  BY <1>6, StutterIInv
<1> QED BY <1>1, <1>2, <1>3, <1>4, <1>5, <1>6 DEF Next

LEMMA SpecIInv == Spec => []IInv
BY InitIInv, NextIInv, PTL DEF Spec

-----------------------------------------------------------------------------
(* What follows from the invariant. *)

\* TypeOK: every variable keeps its type in every reachable state, the
\* artifact a goroutine holds included.
THEOREM TypeCorrect == Spec => []TypeOK
<1>1. IInv => TypeOK
  BY DEF IInv
<1> QED BY <1>1, SpecIInv, PTL

\* VersionsContiguous: the release files of the agent are numbered 1..n,
\* whatever createReleaseForAgent races with, and whatever fails or crashes.
THEOREM VersionsStayContiguous == Spec => []VersionsContiguous
<1>1. IInv => VersionsContiguous
  BY ConstantsAssumption DEF IInv, FilesPrefix, VersionsContiguous, Version
<1> QED BY <1>1, SpecIInv, PTL

\* CurrentPointsToRelease: current.yaml and spec.version of the CRD name a
\* version whose release file is there, and each file is named for its content.
THEOREM PointersStayValid == Spec => []CurrentPointsToRelease
<1>1. IInv => CurrentPointsToRelease
  BY DEF IInv, FilesNamed, PointersRefer, Refers, CurrentPointsToRelease
<1> QED BY <1>1, SpecIInv, PTL

-----------------------------------------------------------------------------
(* The evaluation gate, where every payload is governed. *)

\* Scores are never taken back.
ScoresKept == passed \subseteq passed'

LEMMA SameGateFiles ==
    ASSUME GateFiles, ScoresKept, release' = release, current' = current
    PROVE  GateFiles'
BY DEF GateFiles, ScoresKept, Scored, Exists

LEMMA OtherGateProc ==
    ASSUME ScoresKept, NEW q \in Procs, GateProc(q),
           pc'[q] = pc[q], op'[q] = op[q], ver'[q] = ver[q], buf'[q] = buf[q]
    PROVE  GateProc(q)'
BY DEF ScoresKept, GateProc, Scored

LEMMA SameGateProcs ==
    ASSUME GateProcs, ScoresKept, UNCHANGED procs
    PROVE  GateProcs'
BY OtherGateProc DEF GateProcs, procs

LEMMA GateFinish ==
    ASSUME GateProcs, ProcsTypeOK, ScoresKept, NEW p \in Procs, Finish(p)
    PROVE  GateProcs'
<1>1. GateProc(p)'
  BY DEF ProcsTypeOK, GateProc, Finish, Goto
<1>2. ASSUME NEW q \in Procs, q # p PROVE GateProc(q)'
  <2>1. pc'[q] = pc[q] /\ op'[q] = op[q] /\ ver'[q] = ver[q] /\ buf'[q] = buf[q]
    BY <1>2 DEF ProcsTypeOK, Finish, Goto
  <2> QED BY <2>1, OtherGateProc DEF GateProcs
<1> QED BY <1>1, <1>2 DEF GateProcs

LEMMA GateBegin ==
    ASSUME GateProcs, ProcsTypeOK, ScoresKept, NEW p \in Procs,
           NEW o, NEW l, NEW v, NEW a, Begin(p, o, l, v, a),
           l = "read" /\ o = "approve" => \E c \in Payloads : <<v, c>> \in passed',
           a # NoFile => a.status # "active"
    PROVE  GateProcs'
<1>1. GateProc(p)'
  BY DEF ProcsTypeOK, GateProc, Scored, Begin, Goto
<1>2. ASSUME NEW q \in Procs, q # p PROVE GateProc(q)'
  <2>1. pc'[q] = pc[q] /\ op'[q] = op[q] /\ ver'[q] = ver[q] /\ buf'[q] = buf[q]
    BY <1>2 DEF ProcsTypeOK, Begin, Goto
  <2> QED BY <2>1, OtherGateProc DEF GateProcs
<1> QED BY <1>1, <1>2 DEF GateProcs

LEMMA GateContinue ==
    ASSUME GateProcs, ProcsTypeOK, passed' = passed, NEW p \in Procs,
           NEW l, NEW a \in Artifact, Continue(p, l, a), l # "read",
           a.status = "active" => Scored(a.version)
    PROVE  GateProcs'
<1>1. GateProc(p)'
  BY DEF ProcsTypeOK, GateProc, Scored, Continue, Goto
<1>2. ASSUME NEW q \in Procs, q # p PROVE GateProc(q)'
  <2>1. pc'[q] = pc[q] /\ op'[q] = op[q] /\ ver'[q] = ver[q] /\ buf'[q] = buf[q]
    BY <1>2 DEF ProcsTypeOK, Continue, Goto
  <2> QED BY <2>1, OtherGateProc DEF GateProcs, ScoresKept
<1> QED BY <1>1, <1>2 DEF GateProcs

\* A goroutine that only moves from one half of a write to the other.
LEMMA GateGoto ==
    ASSUME GateProcs, ProcsTypeOK, passed' = passed, NEW p \in Procs,
           NEW l \in {"rput", "cput"}, Goto(p, l), UNCHANGED <<op, ver, buf>>
    PROVE  GateProcs'
<1>1. ASSUME NEW q \in Procs PROVE pc'[q] = pc[q] \/ pc'[q] \in {"rput", "cput"}
  BY DEF ProcsTypeOK, Goto
<1> QED BY <1>1 DEF GateProcs, GateProc, Scored

\* Approving needs a score, and no other operation makes an artifact active.
LEMMA StampedGate ==
    ASSUME NEW o, NEW a \in Artifact, Stamped(o, a).status = "active"
    PROVE  o = "approve" \/ a.status = "active"
<1>1. CASE o = "reject"
  <2>1. Stamped(o, a) = [a EXCEPT !.status = "rejected", !.notes = a.notes + 1]
    BY <1>1 DEF Stamped
  <2> QED BY <2>1 DEF Artifact
<1>2. CASE o = "delete"
  <2>1. Stamped(o, a) = [a EXCEPT !.status = "deleted", !.notes = a.notes + 1]
    BY <1>2 DEF Stamped
  <2> QED BY <2>1 DEF Artifact
<1>3. CASE o \notin {"approve", "reject", "delete"}
  BY <1>3 DEF Stamped
<1> QED BY <1>1, <1>2, <1>3

LEMMA InitGateInv == Init => GateInv
BY DEF Init, GateInv, GateFiles, GateProcs, GateProc, Exists

\* Only an approval that a passing score asked for brings "active" in.
LEMMA RequestGateInv ==
    ASSUME IInv, GateInv, NEW p \in Procs, Request(p)
    PROVE  GateInv'
<1> USE IInvParts DEF ProcsInv, GateInv
<1>1. ScoresKept /\ release' = release /\ current' = current
  BY DEF Request, RegisterAgent, StartCreate, EvalCallback, StartDeploy,
     DeleteAgent, StartSync, repo, evaluation, ScoresKept
<1>2. GateFiles'
  BY <1>1, SameGateFiles
<1>3. GateProcs'
  <2>1. ASSUME NEW c \in Payloads, RegisterAgent(p, c) \/ StartCreate(p, c)
        PROVE  GateProcs'
    <3>1. Begin(p, "create", "list", 0, NewArtifact(c))
      BY <2>1 DEF RegisterAgent, StartCreate
    <3> QED BY <1>1, <3>1, GateBegin, NewArtifactType
  <2>2. ASSUME NEW d \in evals, EvalCallback(p, d)
        PROVE  GateProcs'
    <3>1. d[1] \in Version /\ d[2] \in Payloads
      BY DEF StateTypeOK, Verdict
    <3>2. PICK o \in {"approve", "reject"} :
            /\ Begin(p, o, "read", d[1], NoFile)
            /\ o = "approve" => <<d[1], d[2]>> \in passed'
      BY <2>2 DEF EvalCallback
    <3> QED BY <1>1, <3>1, <3>2, GateBegin
  <2>3. ASSUME NEW v \in Version, StartDeploy(p, v)
        PROVE  GateProcs'
    BY <1>1, <2>3, GateBegin DEF StartDeploy
  <2>4. CASE DeleteAgent(p)
    BY <1>1, <2>4, GateBegin DEF DeleteAgent
  <2>5. CASE StartSync(p)
    BY <1>1, <2>5, GateBegin DEF StartSync
  <2> QED BY <2>1, <2>2, <2>3, <2>4, <2>5 DEF Request
<1> QED BY <1>2, <1>3

LEMMA ListReleasesGate ==
    ASSUME IInv, GateInv, NEW p \in Procs, ListReleases(p)
    PROVE  GateInv'
<1> USE IInvParts DEF ProcsInv, GateInv
<1>1. ScoresKept /\ release' = release /\ current' = current
  BY DEF ListReleases, repo, evaluation, ScoresKept
<1>2. PICK n \in Version : buf' = [buf EXCEPT ![p].version = n]
  BY DEF ListReleases
<1>3. buf[p] \in Artifact /\ buf[p].status = "pending_eval"
  BY DEF ListReleases, ProcInv
<1>4. buf' = [buf EXCEPT ![p] = [buf[p] EXCEPT !.version = n]]
  BY <1>2
<1>5. [buf[p] EXCEPT !.version = n].status = "pending_eval"
  BY <1>3 DEF Artifact
<1>6. GateProc(p)'
  <2>1. pc'[p] = "rsha" /\ buf'[p].status = "pending_eval"
    BY <1>4, <1>5 DEF ListReleases, Goto, ProcsTypeOK
  <2> QED BY <2>1 DEF GateProc
<1>7. ASSUME NEW q \in Procs, q # p PROVE GateProc(q)'
  <2>1. pc'[q] = pc[q] /\ op'[q] = op[q] /\ ver'[q] = ver[q] /\ buf'[q] = buf[q]
    BY <1>4, <1>7 DEF ListReleases, Goto, ProcsTypeOK
  <2> QED BY <1>1, <2>1, OtherGateProc DEF GateProcs
<1> QED BY <1>1, <1>6, <1>7, SameGateFiles DEF GateProcs

LEMMA AfterFailedReleaseWriteGate ==
    ASSUME ProcsInv, GateProcs, NEW p \in Procs, pc[p] \in {"rsha", "rput"},
           passed' = passed, AfterFailedReleaseWrite(p)
    PROVE  GateProcs'
<1> USE DEF ProcsInv
<1>1. CASE op[p] = "approve"
  <2>1. Continue(p, "csha", buf[p]) /\ buf[p] \in Artifact
    BY <1>1 DEF AfterFailedReleaseWrite, ProcInv, WritesNext
  <2>2. buf[p].status = "active" => Scored(buf[p].version)
    BY <2>1, ConstantsAssumption DEF GateProcs, GateProc
  <2> QED BY <2>1, <2>2, GateContinue
<1>2. CASE op[p] # "approve"
  BY <1>2, GateFinish DEF AfterFailedReleaseWrite, ScoresKept
<1> QED BY <1>1, <1>2

LEMMA GetReleaseSHAGate ==
    ASSUME IInv, GateInv, NEW p \in Procs, GetReleaseSHA(p)
    PROVE  GateInv'
<1> USE IInvParts DEF GateInv
<1>1. ScoresKept /\ release' = release /\ current' = current /\ passed' = passed
  BY DEF GetReleaseSHA, repo, ScoresKept
<1>2. CASE Goto(p, "rput") /\ UNCHANGED <<op, ver, buf>>
  BY <1>1, <1>2, SameGateFiles, GateGoto DEF ProcsInv
<1>3. CASE AfterFailedReleaseWrite(p)
  BY <1>1, <1>3, SameGateFiles, AfterFailedReleaseWriteGate DEF GetReleaseSHA
<1> QED BY <1>2, <1>3 DEF GetReleaseSHA

\* With every payload governed, a new release never approves itself.
LEMMA AfterReleaseWriteGate ==
    ASSUME Governed = Payloads,
           ProcsInv, GateProcs, NEW p \in Procs, pc[p] = "rput",
           passed' = passed, AfterReleaseWrite(p)
    PROVE  GateProcs'
<1> USE DEF ProcsInv
<1>1. WritesNext(p) /\ RequiresEval(buf[p])
  BY DEF ProcInv, WritesNext, RequiresEval, Artifact
<1>2. CASE op[p] = "approve"
  <2>1. Continue(p, "csha", buf[p]) /\ buf[p] \in Artifact
    BY <1>1, <1>2 DEF AfterReleaseWrite, WritesNext
  <2>2. buf[p].status = "active" => Scored(buf[p].version)
    BY <2>1, ConstantsAssumption DEF GateProcs, GateProc
  <2> QED BY <2>1, <2>2, GateContinue
<1>3. CASE op[p] # "approve"
  BY <1>1, <1>3, GateFinish DEF AfterReleaseWrite, ScoresKept
<1> QED BY <1>2, <1>3

LEMMA PutReleaseGate ==
    ASSUME Governed = Payloads, IInv, GateInv, NEW p \in Procs, PutRelease(p)
    PROVE  GateInv'
<1> USE IInvParts DEF GateInv
<1>1. passed' = passed /\ current' = current /\ pc[p] = "rput" /\ WritesNext(p)
  BY DEF PutRelease, ProcsInv, ProcInv
<1>2. release' = release \/ release' = [release EXCEPT ![ver[p]] = buf[p]]
  BY DEF PutRelease
<1>3. buf[p].status = "active" => Scored(ver[p])
  BY <1>1, ConstantsAssumption DEF WritesNext, GateProcs, GateProc
<1>4. ASSUME NEW v \in Version
      PROVE  release'[v] = release[v] \/ (v = ver[p] /\ release'[v] = buf[p])
  BY <1>2 DEF StateTypeOK
<1>5. GateFiles'
  BY <1>1, <1>3, <1>4 DEF GateFiles, Exists, Scored
<1>6. GateProcs'
  BY <1>1, AfterReleaseWriteGate, AfterFailedReleaseWriteGate DEF PutRelease
<1> QED BY <1>5, <1>6

LEMMA ReadReleaseGate ==
    ASSUME IInv, GateInv, NEW p \in Procs, ReadRelease(p)
    PROVE  GateInv'
<1> USE IInvParts DEF ProcsInv, GateInv
<1>1. /\ ScoresKept /\ release' = release /\ current' = current /\ passed' = passed
      /\ pc[p] = "read" /\ ver[p] \in Version
  BY DEF ReadRelease, repo, evaluation, ScoresKept, ProcInv
<1>2. CASE /\ Exists(ver[p])
           /\ Continue(p, IF op[p] = "deploy" THEN "csha" ELSE "rsha",
                       Stamped(op[p], release[ver[p]]))
  <2>1. release[ver[p]] \in Artifact /\ release[ver[p]].version = ver[p]
    BY <1>1, <1>2 DEF StateTypeOK, FilesNamed, Exists
  <2>2. PICK a \in Artifact : a = Stamped(op[p], release[ver[p]])
    BY <2>1, StampedType
  <2>3. a.version = ver[p]
    BY <2>1, <2>2, StampedType
  <2>4. a.status = "active" => op[p] = "approve" \/ release[ver[p]].status = "active"
    BY <2>1, <2>2, StampedGate
  <2>5. a.status = "active" => Scored(a.version)
    BY <1>1, <1>2, <2>3, <2>4 DEF GateFiles, GateProcs, GateProc
  <2>6. PICK l \in {"rsha", "csha"} : Continue(p, l, a)
    BY <1>2, <2>2
  <2> QED BY <1>1, <2>5, <2>6, SameGateFiles, GateContinue
<1>3. CASE Finish(p)
  BY <1>1, <1>3, SameGateFiles, GateFinish
<1> QED BY <1>2, <1>3 DEF ReadRelease

LEMMA GetCurrentSHAGate ==
    ASSUME IInv, GateInv, NEW p \in Procs, GetCurrentSHA(p)
    PROVE  GateInv'
<1> USE IInvParts DEF ProcsInv, GateInv
<1>1. ScoresKept /\ release' = release /\ current' = current /\ passed' = passed
  BY DEF GetCurrentSHA, repo, evaluation, ScoresKept
<1>2. GateProcs'
  BY <1>1, GateGoto, GateFinish DEF GetCurrentSHA
<1> QED BY <1>1, <1>2, SameGateFiles

LEMMA PutCurrentGate ==
    ASSUME IInv, GateInv, NEW p \in Procs, PutCurrent(p)
    PROVE  GateInv'
<1> USE IInvParts DEF ProcsInv, GateInv
<1>1. /\ passed' = passed /\ release' = release
      /\ current' = current \/ current' = buf[p]
      /\ buf[p] \in Artifact
  BY DEF PutCurrent, evaluation, ProcInv, Refers
<1>2. buf[p].status = "active" => Scored(buf[p].version)
  BY <1>1, ConstantsAssumption DEF GateProcs, GateProc
<1>3. GateFiles'
  BY <1>1, <1>2 DEF GateFiles, Exists, Scored
<1>4. GateProcs'
  <2>1. CASE Continue(p, "patch", buf[p])
    BY <1>1, <1>2, <2>1, GateContinue
  <2>2. CASE Finish(p)
    BY <1>1, <2>2, GateFinish DEF ScoresKept
  <2> QED BY <2>1, <2>2 DEF PutCurrent, AfterCurrentWrite
<1> QED BY <1>3, <1>4

LEMMA ReadCurrentGate ==
    ASSUME IInv, GateInv, NEW p \in Procs, ReadCurrent(p)
    PROVE  GateInv'
<1> USE IInvParts DEF ProcsInv, GateInv
<1>1. ScoresKept /\ release' = release /\ current' = current /\ passed' = passed
  BY DEF ReadCurrent, repo, evaluation, ScoresKept
<1>2. CASE /\ current # NoFile
           /\ Continue(p, IF op[p] = "sync" THEN "apply" ELSE "csha",
                       Stamped(op[p], current))
  <2>1. current \in Artifact
    BY <1>2 DEF PointersRefer, Refers
  <2>2. PICK a \in Artifact : a = Stamped(op[p], current)
    BY <2>1, StampedType
  <2>3. a.version = current.version
    BY <2>1, <2>2, StampedType
  <2>4. op[p] # "approve"
    BY DEF ReadCurrent, ProcInv
  <2>5. a.status = "active" => Scored(a.version)
    BY <1>2, <2>1, <2>2, <2>3, <2>4, StampedGate DEF GateFiles
  <2>6. PICK l \in {"apply", "csha"} : Continue(p, l, a)
    BY <1>2, <2>2
  <2> QED BY <1>1, <2>5, <2>6, SameGateFiles, GateContinue
<1>3. CASE Finish(p)
  BY <1>1, <1>3, SameGateFiles, GateFinish
<1> QED BY <1>2, <1>3 DEF ReadCurrent

\* PatchCRD and ApplySync end their request and write no file.
LEMMA LastCallGate ==
    ASSUME IInv, GateInv, NEW p \in Procs, PatchCRD(p) \/ ApplySync(p)
    PROVE  GateInv'
<1> USE IInvParts DEF ProcsInv, GateInv
<1>1. ScoresKept /\ release' = release /\ current' = current /\ Finish(p)
  BY DEF PatchCRD, ApplySync, repo, evaluation, ScoresKept
<1> QED BY <1>1, SameGateFiles, GateFinish

\* Corail's side, and steps that touch nothing of the gate.
LEMMA OutsideGate ==
    ASSUME IInv, GateInv,
           \/ \E e \in triggers : TriggerEvaluation(e)
           \/ \E d \in evals : EvalLost(d)
           \/ UNCHANGED vars
    PROVE  GateInv'
<1>1. ScoresKept /\ release' = release /\ current' = current /\ UNCHANGED procs
  BY DEF TriggerEvaluation, EvalLost, vars, repo, evaluation, ScoresKept
<1> QED BY <1>1, SameGateFiles, SameGateProcs DEF GateInv

LEMMA CrashGate ==
    ASSUME IInv, GateInv, Crash
    PROVE  GateInv'
<1>1. ScoresKept /\ release' = release /\ current' = current
  BY DEF Crash, repo, ScoresKept
<1>2. GateProcs'
  BY DEF Crash, GateProcs, GateProc
<1> QED BY <1>1, <1>2, SameGateFiles DEF GateInv

LEMMA NextGateInv ==
    ASSUME Governed = Payloads, IInv, GateInv, [Next]_vars
    PROVE  GateInv'
<1>1. ASSUME NEW p \in Procs, Request(p) PROVE GateInv'
  BY <1>1, RequestGateInv
<1>2. ASSUME NEW p \in Procs, Call(p) PROVE GateInv'
  BY <1>2, ListReleasesGate, GetReleaseSHAGate, PutReleaseGate,
     ReadReleaseGate, GetCurrentSHAGate, PutCurrentGate, ReadCurrentGate,
     LastCallGate DEF Call
<1>3. CASE Crash
  BY <1>3, CrashGate
<1> QED BY <1>1, <1>2, <1>3, OutsideGate DEF Next

\* GateHolds: where every payload is governed, no release and no current.yaml
\* says "active" without a passing score of its version, whatever requests
\* race, callbacks are repeated, writes fail and servers crash.
THEOREM GateAlwaysHolds == Spec => []GateHolds
<1> DEFINE G == Governed = Payloads => GateInv
<1>1. Init => G
  BY InitGateInv
<1>2. IInv /\ G /\ [Next]_vars => G'
  BY NextGateInv
<1>3. IInv /\ G => GateHolds
  BY DEF IInv, PointersRefer, GateHolds, GateInv, GateFiles, Scored
<1> HIDE DEF G
<1> QED BY <1>1, <1>2, <1>3, SpecIInv, PTL DEF Spec
=============================================================================
