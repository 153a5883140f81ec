---------------------------- MODULE CanaryProofs ----------------------------
(***************************************************************************)
(* Proofs about Canary for any number of goroutines, releases and weights, *)
(* with and without failures and crashes.                                  *)
(*                                                                         *)
(* A request that nobody disturbed (clean) has left behind it what its     *)
(* calls so far are for: Progress says what that is at each call, and it   *)
(* stays true because two requests that overlap are both disturbed         *)
(* (Alone).  What a request achieves is Progress at its last call.         *)
(* MeshIsBacked follows from it, because without damage every request is   *)
(* clean (Intact).                                                         *)
(***************************************************************************)
EXTENDS Canary, TLAPS

CleanUps == {"promote", "rollback"}

\* The calls that a request makes after its call c.
AfterAnnounce  == {"configure", "deploy", "serve", "readSubsets", "writeSubsets",
                   "readSplit", "writeSplit"}
AfterConfigure == AfterAnnounce \ {"configure"}
AfterDeploy    == AfterConfigure \ {"deploy"}
AfterServe     == AfterDeploy \ {"serve"}
AfterSubsets   == {"readSplit", "writeSplit"}

CallsOf(op) ==
    CASE op = "start"    -> {"announce"} \cup AfterAnnounce
      [] op = "adjust"   -> {"adjust"} \cup AfterServe
      [] op = "delete"   -> {"undeploy", "unserve", "unconfigure", "unsplit",
                             "unsubset", "unregister"}
      [] op \in CleanUps -> {"unsplit", "unsubset", "undeploy", "unconfigure",
                             "unserve", "unannounce"}
      [] OTHER           -> {}

\* Every request makes calls of its operation, with the data they need.
Known ==
    \A p \in Procs : Busy(p) =>
        /\ req[p].op \in Ops
        /\ req[p].call \in CallsOf(req[p].op)
        /\ req[p].op \in {"start", "adjust"} => req[p].weight \in Weight
        /\ req[p].op = "start" => req[p].release \in Releases

\* Requests that overlap are disturbed.
Alone ==
    \A p, q \in Procs : p # q /\ Busy(p) /\ Busy(q) => ~req[p].clean

PodsHaveDeployment == pods # None => deployed

StartProgress(r) ==
    /\ r.call \in AfterAnnounce =>
        canary = [enabled |-> TRUE, weight |-> r.weight, version |-> r.release]
    /\ r.call \in AfterConfigure => config = r.release
    /\ r.call \in AfterDeploy => deployed /\ pods \in {None, r.release}
    /\ r.call \in AfterServe => service
    /\ r.call \in AfterSubsets => subsets

AdjustProgress(r) ==
    /\ r.call \in AfterServe => canary \in Announced /\ canary.weight = r.weight
    /\ r.call \in AfterSubsets => subsets

CleanUpProgress(r) ==
    /\ r.call # "unsplit" => split = None
    /\ r.call \notin {"unsplit", "unsubset"} => ~subsets
    /\ r.call \in {"unconfigure", "unserve", "unannounce"} => ~deployed /\ pods = None
    /\ r.call \in {"unserve", "unannounce"} => config = None
    /\ r.call = "unannounce" => ~service

DeleteProgress(r) ==
    /\ r.call # "undeploy" => ~deployed /\ pods = None
    /\ r.call \notin {"undeploy", "unserve"} => ~service
    /\ r.call \in {"unsplit", "unsubset", "unregister"} => config = None
    /\ r.call \in {"unsubset", "unregister"} => split = None
    /\ r.call = "unregister" => ~subsets

\* What a clean request has achieved so far.
Achieved(r) ==
    /\ r.op = "start" => StartProgress(r)
    /\ r.op = "adjust" => AdjustProgress(r)
    /\ r.op \in CleanUps => CleanUpProgress(r)
    /\ r.op = "delete" => DeleteProgress(r)

Progress == \A p \in Procs : Busy(p) /\ req[p].clean => Achieved(req[p])

\* Without damage every request is clean, and only weights of a canary that is
\* all there are adjusted.
Intact ==
    ~damaged => \A p \in Procs : Busy(p) =>
        /\ req[p].clean
        /\ req[p].op # "delete"
        /\ req[p].op = "adjust" => Backed

IInv ==
    /\ TypeOK
    /\ Known
    /\ Alone
    /\ PodsHaveDeployment
    /\ Progress
    /\ Intact
    /\ MeshIsBacked

USE ConstantsAssumption

-----------------------------------------------------------------------------
(* Types. *)

LEMMA AfterType ==
    ASSUME NEW op, NEW c
    PROVE  After(op, c) \in Calls \cup {"none"}
BY DEF After, Calls

LEMMA AnswerType ==
    ASSUME TypeOK, NEW p \in Procs, NEW c \in Calls \cup {"none"},
           NEW good \in BOOLEAN, Answer(p, c, good)
    PROVE  req' \in [Procs -> Request] /\ damaged' \in BOOLEAN
<1>1. \A q \in Procs : req[q] \in Request
  BY DEF TypeOK
<1>2. NoRequest \in Request
  BY DEF NoRequest, Request
<1>3. \A q \in Procs : req'[q] \in Request
  <2> TAKE q \in Procs
  <2>1. CASE q = p
    <3> DEFINE r == IF c = "none" THEN NoRequest ELSE req[p]
    <3>1. r \in Request /\ (req[p].clean /\ good) \in BOOLEAN
      BY <1>1, <1>2 DEF Request
    <3>2. req'[p] = [r EXCEPT !.call = c, !.seen = "absent",
                              !.clean = req[p].clean /\ good]
      BY DEF Answer
    <3> HIDE DEF r
    <3> QED BY <2>1, <3>1, <3>2 DEF Request
  <2>2. CASE q # p
    <3>1. req'[q] = req[q] \/ req'[q] = [req[q] EXCEPT !.seen = "stale"]
      BY <2>2 DEF Answer
    <3> QED BY <1>1, <3>1 DEF Request
  <2> QED BY <2>1, <2>2
<1>4. req' \in [Procs -> Request]
  BY <1>3 DEF Answer
<1>5. damaged' \in BOOLEAN
  BY DEF Answer, TypeOK
<1> QED BY <1>4, <1>5

LEMMA BeginType ==
    ASSUME TypeOK, NEW p \in Procs, NEW r \in Request, Begin(p, r)
    PROVE  TypeOK'
<1>1. \A q \in Procs : req[q] \in Request
  BY DEF TypeOK
<1>2. req' \in [Procs -> Request]
  <2>1. /\ \A q \in Procs : [req[q] EXCEPT !.clean = FALSE] \in Request
        /\ \A b \in BOOLEAN : [r EXCEPT !.clean = b] \in Request
    BY <1>1 DEF Request
  <2> DEFINE b == {q \in Procs \ {p} : Busy(q)} = {}
  <2>2. b \in BOOLEAN
    OBVIOUS
  <2>3. req' = [q \in Procs |-> IF q = p THEN [r EXCEPT !.clean = b]
                                ELSE [req[q] EXCEPT !.clean = FALSE]]
    BY DEF Begin
  <2> HIDE DEF b
  <2> QED BY <2>1, <2>2, <2>3
<1>3. damaged' \in BOOLEAN
  BY DEF Begin, TypeOK
<1> QED BY <1>2, <1>3 DEF TypeOK, Begin, cluster, workload, mesh

LEMMA AcceptType ==
    ASSUME TypeOK, NEW p \in Procs, Accept(p)
    PROVE  TypeOK'
<1>1. CASE \E v \in Releases, w \in Requested : Start(p, v, w)
  <2> PICK v \in Releases, w \in Requested : Start(p, v, w)
    BY <1>1
  <2> DEFINE r == NewRequest("start", "announce", v, IF w \in 1..50 THEN w ELSE 10)
  <2>1. r \in Request
    BY DEF NewRequest, Request, Ops, Calls
  <2>2. Begin(p, r)
    BY DEF Start
  <2> HIDE DEF r
  <2> QED BY <2>1, <2>2, BeginType
<1>2. CASE \E w \in Requested : UpdateWeight(p, w)
  <2> PICK w \in Requested : UpdateWeight(p, w)
    BY <1>2
  <2> DEFINE r == NewRequest("adjust", "adjust", None, w)
  <2>1. r \in Request
    BY DEF NewRequest, Request, Ops, Calls, UpdateWeight, Weight
  <2>2. Begin(p, r)
    BY DEF UpdateWeight
  <2> HIDE DEF r
  <2> QED BY <2>1, <2>2, BeginType
<1>3. CASE Promote(p) \/ Rollback(p) \/ Delete(p)
  <2>1. /\ NewRequest("promote", "unsplit", None, 0) \in Request
        /\ NewRequest("rollback", "unsplit", None, 0) \in Request
        /\ NewRequest("delete", "undeploy", None, 0) \in Request
    BY DEF NewRequest, Request, Ops, Calls
  <2> QED BY <1>3, <2>1, BeginType DEF Promote, Rollback, Delete
<1> QED BY <1>1, <1>2, <1>3 DEF Accept

LEMMA ReadType ==
    ASSUME TypeOK, NEW p \in Procs, NEW c, NEW e, Read(p, c, e)
    PROVE  TypeOK'
<1>1. PICK seen \in {"absent", "present"} :
        req' = [req EXCEPT ![p] =
                    [@ EXCEPT !.call = After(req[p].op, c), !.seen = seen]]
  BY Zenon DEF Read
<1>2. [req[p] EXCEPT !.call = After(req[p].op, c), !.seen = seen] \in Request
  <2> DEFINE a == After(req[p].op, c)
  <2>1. req[p] \in Request /\ a \in Calls \cup {"none"}
    BY AfterType DEF TypeOK
  <2> HIDE DEF a
  <2>2. [req[p] EXCEPT !.call = a, !.seen = seen] \in Request
    BY <2>1 DEF Request
  <2> QED BY <2>2 DEF a
<1>3. req' \in [Procs -> Request]
  BY <1>1, <1>2 DEF TypeOK
<1> QED BY <1>3 DEF Read, TypeOK, cluster, workload, mesh

\* The calls that go on or stop after writing to the cluster.
LEMMA GoesOnType ==
    ASSUME TypeOK, NEW p \in Procs, NEW good \in BOOLEAN,
           GoesOn(p, good) \/ Stops(p)
    PROVE  req' \in [Procs -> Request] /\ damaged' \in BOOLEAN
BY AfterType, AnswerType DEF GoesOn, Stops

LEMMA AnnounceType ==
    ASSUME TypeOK, NEW p \in Procs, Announce(p), req[p].weight \in Weight
    PROVE  TypeOK'
<1>1. req' \in [Procs -> Request] /\ damaged' \in BOOLEAN
  BY GoesOnType DEF Announce
<1>2. [enabled |-> TRUE, weight |-> req[p].weight, version |-> req[p].release]
        \in Announced
  BY DEF TypeOK, Request, Announced
<1>3. canary' \in Announced \cup {None, Gone}
  BY <1>2 DEF Announce, TypeOK
<1> QED BY <1>1, <1>3 DEF Announce, TypeOK, workload, mesh

LEMMA AdjustType ==
    ASSUME TypeOK, NEW p \in Procs, Adjust(p), req[p].weight \in Weight
    PROVE  TypeOK'
<1>1. req' \in [Procs -> Request] /\ damaged' \in BOOLEAN
  BY GoesOnType DEF Adjust
<1>2. [enabled |-> FALSE, weight |-> req[p].weight, version |-> None] \in Announced
  BY DEF Announced
<1>3. canary \in Announced => [canary EXCEPT !.weight = req[p].weight] \in Announced
  BY DEF Announced
<1>4. canary' \in Announced \cup {None, Gone}
  BY <1>2, <1>3 DEF Adjust, TypeOK
<1> QED BY <1>1, <1>4 DEF Adjust, TypeOK, workload, mesh

\* The calls that write what the request is about.
LEMMA WriteType ==
    ASSUME TypeOK, NEW p \in Procs,
           \/ Configure(p) \/ Deploy(p) \/ Serve(p) \/ WriteSubsets(p)
           \/ WriteSplit(p) /\ req[p].weight \in Weight
    PROVE  TypeOK'
<1>1. req' \in [Procs -> Request] /\ damaged' \in BOOLEAN
  BY GoesOnType DEF Configure, Deploy, Serve, WriteSubsets, WriteSplit
<1>2. req[p].release \in Releases \cup {None}
  BY DEF TypeOK, Request
<1>3. CASE Configure(p)
  BY <1>1, <1>2, <1>3 DEF Configure, TypeOK, mesh
<1>4. CASE Deploy(p)
  BY <1>1, <1>4 DEF Deploy, TypeOK, mesh
<1>5. CASE Serve(p)
  BY <1>1, <1>5 DEF Serve, TypeOK, mesh
<1>6. CASE WriteSubsets(p)
  BY <1>1, <1>6 DEF WriteSubsets, TypeOK, workload
<1>7. CASE WriteSplit(p) /\ req[p].weight \in Weight
  BY <1>1, <1>7 DEF WriteSplit, TypeOK, workload
<1> QED BY <1>3, <1>4, <1>5, <1>6, <1>7

LEMMA CleanUpType ==
    ASSUME TypeOK, NEW p \in Procs, CleanUp(p)
    PROVE  TypeOK'
<1>1. req' \in [Procs -> Request] /\ damaged' \in BOOLEAN
  BY GoesOnType DEF CleanUp, Unsplit, Unsubset, Undeploy, Unconfigure, Unserve,
                    Unannounce, Unregister
<1> USE <1>1 DEF TypeOK
<1>2. CASE Unsplit(p)
  BY <1>2 DEF Unsplit, workload
<1>3. CASE Unsubset(p)
  BY <1>3 DEF Unsubset, workload
<1>4. CASE Undeploy(p)
  BY <1>4 DEF Undeploy, mesh
<1>5. CASE Unconfigure(p)
  BY <1>5 DEF Unconfigure, mesh
<1>6. CASE Unserve(p)
  BY <1>6 DEF Unserve, mesh
<1>7. CASE Unannounce(p)
  BY <1>7 DEF Unannounce, workload, mesh
<1>8. CASE Unregister(p)
  BY <1>8 DEF Unregister, workload, mesh
<1> QED BY <1>2, <1>3, <1>4, <1>5, <1>6, <1>7, <1>8 DEF CleanUp

LEMMA EnvironmentType ==
    ASSUME TypeOK, StartPods \/ Register \/ Crash
    PROVE  TypeOK'
<1>1. CASE StartPods
  BY <1>1 DEF StartPods, TypeOK, mesh
<1>2. CASE Register
  BY <1>2 DEF Register, TypeOK, workload, mesh
<1>3. CASE Crash
  <2>1. NoRequest \in Request
    BY DEF NoRequest, Request
  <2> QED BY <1>3, <2>1 DEF Crash, TypeOK, cluster, workload, mesh
<1> QED BY <1>1, <1>2, <1>3

LEMMA NextType ==
    ASSUME TypeOK, Known, [Next]_vars
    PROVE  TypeOK'
<1>1. CASE UNCHANGED vars
  BY <1>1 DEF TypeOK, vars, cluster, workload, mesh
<1>2. ASSUME NEW p \in Procs, Apply(p)
      PROVE  TypeOK'
  <2>1. CASE Announce(p)
    <3>1. req[p].weight \in Weight
      BY <2>1 DEF Announce, Calling, Known, Busy, CallsOf, CleanUps, Ops, AfterAnnounce, AfterConfigure, AfterDeploy, AfterServe
    <3> QED BY <2>1, <3>1, AnnounceType
  <2>2. CASE Adjust(p)
    <3>1. req[p].weight \in Weight
      BY <2>2 DEF Adjust, Calling, Known, Busy, CallsOf, CleanUps, Ops, AfterAnnounce, AfterConfigure, AfterDeploy, AfterServe
    <3> QED BY <2>2, <3>1, AdjustType
  <2>3. CASE WriteSplit(p)
    <3>1. req[p].weight \in Weight
      BY <2>3 DEF WriteSplit, Calling, Known, Busy, CallsOf, CleanUps, Ops, AfterAnnounce, AfterConfigure, AfterDeploy, AfterServe
    <3> QED BY <2>3, <3>1, WriteType
  <2>4. CASE \/ Read(p, "readSubsets", subsets)
             \/ Read(p, "readSplit", split # None)
    BY <2>4, ReadType
  <2>5. CASE Configure(p) \/ Deploy(p) \/ Serve(p) \/ WriteSubsets(p)
    BY <2>5, WriteType
  <2> QED BY <1>2, <2>1, <2>2, <2>3, <2>4, <2>5 DEF Apply
<1>3. ASSUME NEW p \in Procs, Accept(p) \/ CleanUp(p)
      PROVE  TypeOK'
  BY <1>3, AcceptType, CleanUpType
<1> QED BY <1>1, <1>2, <1>3, EnvironmentType DEF Next

-----------------------------------------------------------------------------
(* Requests. *)

\* What an answer does to the requests: only that of p goes on, and if the other
\* requests are still under way, all are disturbed.
LEMMA AnswerEffect ==
    ASSUME TypeOK, NEW p \in Procs, NEW c \in Calls \cup {"none"},
           NEW good \in BOOLEAN, Answer(p, c, good)
    PROVE  /\ req'[p].call = c
           /\ req'[p].clean = (req[p].clean /\ good)
           /\ c # "none" => /\ req'[p].op = req[p].op
                            /\ req'[p].release = req[p].release
                            /\ req'[p].weight = req[p].weight
           /\ \A q \in Procs \ {p} :
                /\ req'[q].op = req[q].op
                /\ req'[q].call = req[q].call
                /\ req'[q].release = req[q].release
                /\ req'[q].weight = req[q].weight
                /\ req'[q].clean = req[q].clean
<1>1. \A q \in Procs : req[q] \in Request
  BY DEF TypeOK
<1>2. NoRequest \in Request
  BY DEF NoRequest, Request
<1> DEFINE r == IF c = "none" THEN NoRequest ELSE req[p]
<1>3. req'[p] = [r EXCEPT !.call = c, !.seen = "absent",
                          !.clean = req[p].clean /\ good]
  BY DEF Answer
<1>4. r \in Request
  BY <1>1, <1>2
<1>5. c # "none" => r = req[p]
  OBVIOUS
<1>6. \A q \in Procs \ {p} :
        req'[q] = req[q] \/ req'[q] = [req[q] EXCEPT !.seen = "stale"]
  BY DEF Answer
<1> HIDE DEF r
<1>7. /\ req'[p].call = c
      /\ req'[p].clean = (req[p].clean /\ good)
      /\ req'[p].op = r.op
      /\ req'[p].release = r.release
      /\ req'[p].weight = r.weight
  BY <1>3, <1>4 DEF Request
<1>8. ASSUME NEW q \in Procs \ {p}
      PROVE  /\ req'[q].op = req[q].op
             /\ req'[q].call = req[q].call
             /\ req'[q].release = req[q].release
             /\ req'[q].weight = req[q].weight
             /\ req'[q].clean = req[q].clean
  <2>1. req[q] \in Request
    BY <1>1
  <2>2. CASE req'[q] = req[q]
    BY <2>2
  <2>3. CASE req'[q] = [req[q] EXCEPT !.seen = "stale"]
    BY <2>1, <2>3 DEF Request
  <2> QED BY <1>6, <2>2, <2>3
<1> QED BY <1>5, <1>7, <1>8

LEMMA AnswerAlone ==
    ASSUME TypeOK, Alone, Intact, NEW p \in Procs, Busy(p),
           NEW c \in Calls \cup {"none"}, NEW good \in BOOLEAN, Answer(p, c, good)
    PROVE  /\ Alone'
           /\ \A q \in Procs \ {p} : Busy(q)' => ~req'[q].clean
           /\ ~damaged' => /\ req[p].clean /\ good
                           /\ \A q \in Procs \ {p} : ~Busy(q)'
           /\ ~damaged' /\ c # "none" => ~damaged
           /\ ~damaged' /\ req[p].op \in {"start", "adjust"} => ~damaged
<1>1. /\ req'[p].call = c
      /\ req'[p].clean = (req[p].clean /\ good)
      /\ \A q \in Procs \ {p} : /\ req'[q].call = req[q].call
                                /\ req'[q].clean = req[q].clean
  BY AnswerEffect
<1>2. /\ \A q \in Procs \ {p} : Busy(q)' <=> Busy(q)
      /\ Busy(p)' <=> c # "none"
  BY <1>1 DEF Busy
<1>3. \A q \in Procs \ {p} : Busy(q) => ~req[q].clean /\ ~req[p].clean
  BY DEF Alone
<1>4. Alone'
  BY <1>1, <1>2, <1>3 DEF Alone
<1>5. damaged' = IF /\ c = "none" /\ good /\ req[p].clean
                    /\ req[p].op \in {"promote", "rollback", "delete"}
                 THEN FALSE ELSE damaged \/ ~good
  BY DEF Answer
<1>6. ~damaged' => req[p].clean /\ good
  BY <1>5 DEF Intact
<1>7. /\ ~damaged' /\ c # "none" => ~damaged
      /\ ~damaged' /\ req[p].op \in {"start", "adjust"} => ~damaged
  BY <1>5
<1> QED BY <1>1, <1>2, <1>3, <1>4, <1>6, <1>7

\* What is left to show of an action that answers the request of p.
LEMMA AnswerInv ==
    ASSUME IInv, TypeOK', NEW p \in Procs, Busy(p),
           NEW c \in CallsOf(req[p].op) \cup {"none"}, c \in Calls \cup {"none"},
           NEW good \in BOOLEAN, Answer(p, c, good),
           PodsHaveDeployment',
           c # "none" /\ req'[p].clean => Achieved(req[p])',
           req[p].op = "adjust" /\ Backed => Backed',
           ~damaged' /\ split' # None => (subsets /\ Backed)'
    PROVE  IInv'
<1> USE DEF IInv
<1>1. /\ req'[p].call = c
      /\ req'[p].clean = (req[p].clean /\ good)
      /\ c # "none" => /\ req'[p].op = req[p].op
                       /\ req'[p].release = req[p].release
                       /\ req'[p].weight = req[p].weight
      /\ \A q \in Procs \ {p} :
            /\ req'[q].op = req[q].op
            /\ req'[q].call = req[q].call
            /\ req'[q].release = req[q].release
            /\ req'[q].weight = req[q].weight
            /\ req'[q].clean = req[q].clean
  BY AnswerEffect
<1>2. /\ Alone'
      /\ \A q \in Procs \ {p} : Busy(q)' => ~req'[q].clean
      /\ ~damaged' => /\ req[p].clean /\ good
                      /\ \A q \in Procs \ {p} : ~Busy(q)'
      /\ ~damaged' /\ c # "none" => ~damaged
  BY AnswerAlone
<1>3. Known'
  <2> SUFFICES ASSUME NEW q \in Procs, Busy(q)'
               PROVE  /\ req'[q].op \in Ops
                      /\ req'[q].call \in CallsOf(req'[q].op)
                      /\ req'[q].op \in {"start", "adjust"} => req'[q].weight \in Weight
                      /\ req'[q].op = "start" => req'[q].release \in Releases
    BY DEF Known
  <2>1. CASE q = p
    BY <1>1, <2>1 DEF Known, Busy
  <2>2. CASE q # p
    BY <1>1, <2>2 DEF Known, Busy
  <2> QED BY <2>1, <2>2
<1>4. Progress'
  <2> SUFFICES ASSUME NEW q \in Procs, Busy(q)', req'[q].clean
               PROVE  Achieved(req[q])'
    BY DEF Progress
  <2>1. q = p /\ c # "none"
    BY <1>1, <1>2 DEF Busy
  <2> QED BY <2>1
<1>5. Intact'
  <2> SUFFICES ASSUME ~damaged', NEW q \in Procs, Busy(q)'
               PROVE  /\ req'[q].clean
                      /\ req'[q].op # "delete"
                      /\ req'[q].op = "adjust" => Backed'
    BY DEF Intact
  <2>1. q = p /\ c # "none"
    BY <1>1, <1>2 DEF Busy
  <2>2. req'[p].clean /\ ~damaged /\ req'[p].op = req[p].op
    BY <1>1, <1>2, <2>1
  <2> QED BY <2>1, <2>2 DEF Intact
<1>6. MeshIsBacked'
  BY DEF MeshIsBacked
<1> QED BY <1>2, <1>3, <1>4, <1>5, <1>6

LEMMA AfterKnown ==
    ASSUME NEW op \in Ops, NEW c \in CallsOf(op)
    PROVE  /\ After(op, c) \in CallsOf(op) \cup {"none"}
           /\ c \in Calls
BY DEF After, CallsOf, Ops, CleanUps, Calls, AfterAnnounce, AfterConfigure,
       AfterDeploy, AfterServe

-----------------------------------------------------------------------------
(* The calls of Start and UpdateWeight. *)

LEMMA Operation ==
    ASSUME Known, NEW p \in Procs, Busy(p)
    PROVE  /\ After(req[p].op, req[p].call) \in CallsOf(req[p].op) \cup {"none"}
           /\ After(req[p].op, req[p].call) \in Calls \cup {"none"}
           /\ req[p].call \in {"announce", "configure", "deploy", "serve"} =>
                req[p].op = "start" /\ req[p].release \in Releases
           /\ req[p].call = "adjust" => req[p].op = "adjust"
           /\ req[p].call \in AfterServe =>
                /\ req[p].op \in {"start", "adjust"}
                /\ req[p].weight \in Weight
                /\ req[p].op = "start" => req[p].release \in Releases
           /\ req[p].call \in {"unsplit", "unsubset", "undeploy", "unconfigure",
                               "unserve"} => req[p].op \in CleanUps \cup {"delete"}
           /\ req[p].call = "unannounce" => req[p].op \in CleanUps
           /\ req[p].call = "unregister" => req[p].op = "delete"
<1>1. /\ req[p].op \in Ops
      /\ req[p].call \in CallsOf(req[p].op)
      /\ req[p].op \in {"start", "adjust"} => req[p].weight \in Weight
      /\ req[p].op = "start" => req[p].release \in Releases
  BY DEF Known
<1> HIDE ConstantsAssumption
<1>2. /\ req[p].call \in {"announce", "configure", "deploy", "serve"} =>
            req[p].op = "start"
      /\ req[p].call = "adjust" => req[p].op = "adjust"
      /\ req[p].call \in AfterServe => req[p].op \in {"start", "adjust"}
      /\ req[p].call \in {"unsplit", "unsubset", "undeploy", "unconfigure",
                          "unserve"} => req[p].op \in CleanUps \cup {"delete"}
      /\ req[p].call = "unannounce" => req[p].op \in CleanUps
      /\ req[p].call = "unregister" => req[p].op = "delete"
  BY <1>1 DEF CallsOf, Ops, CleanUps, AfterAnnounce, AfterConfigure, AfterDeploy,
              AfterServe
<1> QED BY <1>1, <1>2, AfterKnown, AfterType

LEMMA AnnounceInv ==
    ASSUME IInv, TypeOK', NEW p \in Procs, Announce(p)
    PROVE  IInv'
<1> DEFINE r == req[p]
           c == After(r.op, r.call)
<1>1. /\ Busy(p) /\ r.op = "start" /\ c = "configure"
      /\ c \in CallsOf(r.op) \cup {"none"} /\ c \in Calls \cup {"none"}
  BY Operation DEF Announce, Calling, Busy, IInv, After
<1>2. PICK good \in BOOLEAN :
        /\ Answer(p, c, good)
        /\ good => canary' = [enabled |-> TRUE, weight |-> r.weight,
                              version |-> r.release]
  BY DEF Announce, GoesOn
<1>3. UNCHANGED <<config, deployed, pods, service, subsets, split>>
  BY DEF Announce, workload, mesh
<1>4. /\ req'[p].call = c /\ req'[p].clean = (r.clean /\ good)
      /\ req'[p].op = r.op /\ req'[p].release = r.release
      /\ req'[p].weight = r.weight
  BY <1>1, <1>2, AnswerEffect DEF IInv
<1>5. req'[p].clean => Achieved(req[p])'
  BY <1>1, <1>2, <1>4 DEF Achieved, StartProgress, CleanUps, AfterConfigure,
                          AfterDeploy, AfterServe, AfterSubsets, AfterAnnounce
<1>6. ~damaged' /\ split' # None => (subsets /\ Backed)'
  BY <1>1, <1>2, <1>3, AnswerAlone DEF IInv, MeshIsBacked, Backed
<1> QED BY <1>1, <1>2, <1>3, <1>5, <1>6, AnswerInv DEF IInv, PodsHaveDeployment, Backed

\* The calls that prepare the workload of the canary.
LEMMA PrepareInv ==
    ASSUME IInv, TypeOK', NEW p \in Procs, Configure(p) \/ Deploy(p) \/ Serve(p)
    PROVE  IInv'
<1> DEFINE r == req[p]
<1>1. /\ Busy(p) /\ r.op = "start" /\ r.release \in Releases
      /\ r.call \in {"configure", "deploy", "serve"}
      /\ After(r.op, r.call) \in CallsOf(r.op) \cup {"none"}
      /\ After(r.op, r.call) \in Calls \cup {"none"}
  BY Operation DEF Configure, Deploy, Serve, Calling, Busy, IInv
<1>2. PICK c \in {After(r.op, r.call), "none"}, good \in BOOLEAN :
        /\ Answer(p, c, good)
        /\ r.call = "configure" /\ good => config' = r.release
        /\ r.call = "deploy" /\ good => ~deployed /\ deployed'
        /\ r.call = "serve" /\ good => service'
  BY DEF Configure, Deploy, Serve, Calling, GoesOn, Stops
<1>3. /\ UNCHANGED <<canary, pods, subsets, split>>
      /\ r.call # "configure" => UNCHANGED config
      /\ r.call # "deploy" => UNCHANGED deployed
      /\ r.call # "serve" => UNCHANGED service
      /\ deployed => deployed'
      /\ service => service'
      /\ config' \in {config, r.release}
  BY DEF Configure, Deploy, Serve, Calling, mesh, IInv, TypeOK
<1>4. /\ req'[p].call = c /\ req'[p].clean = (r.clean /\ good)
      /\ c # "none" => /\ req'[p].op = r.op
                       /\ req'[p].release = r.release
                       /\ req'[p].weight = r.weight
  BY <1>1, <1>2, AnswerEffect DEF IInv
<1>5. c # "none" => c = After(r.op, r.call)
  BY <1>2
<1>6. ASSUME c # "none", req'[p].clean
      PROVE  Achieved(req[p])'
  <2>1. StartProgress(r) /\ good
    BY <1>1, <1>4, <1>6 DEF IInv, Progress, Achieved
  <2>2. pods # None => deployed
    BY DEF IInv, PodsHaveDeployment
  <2>3. StartProgress(req[p])'
    BY <1>1, <1>2, <1>3, <1>4, <1>5, <1>6, <2>1, <2>2
       DEF StartProgress, After, AfterConfigure, AfterDeploy, AfterServe,
           AfterSubsets, AfterAnnounce
  <2> QED BY <1>1, <1>4, <1>6, <2>3 DEF Achieved, CleanUps
<1>7. ~damaged' /\ split' # None => (subsets /\ Backed)'
  <2> SUFFICES ASSUME ~damaged', split' # None
               PROVE  (subsets /\ Backed)'
    OBVIOUS
  <2>1. ~damaged
    BY <1>1, <1>2, AnswerAlone DEF IInv
  <2> QED BY <1>1, <1>3, <2>1 DEF IInv, MeshIsBacked, Backed
<1>8. PodsHaveDeployment'
  BY <1>3 DEF IInv, PodsHaveDeployment
<1> QED BY <1>1, <1>2, <1>6, <1>7, <1>8, AnswerInv

LEMMA AdjustInv ==
    ASSUME IInv, TypeOK', NEW p \in Procs, Adjust(p)
    PROVE  IInv'
<1> DEFINE r == req[p]
           new == [canary EXCEPT !.weight = r.weight]
<1>1. /\ Busy(p) /\ r.op = "adjust" /\ r.call = "adjust"
      /\ After(r.op, r.call) \in CallsOf(r.op) \cup {"none"}
      /\ After(r.op, r.call) \in Calls \cup {"none"}
      /\ After(r.op, r.call) \in {"readSubsets", "none"}
  BY Operation DEF Adjust, Calling, Busy, IInv, After
<1>2. PICK c \in {After(r.op, r.call), "none"}, good \in BOOLEAN :
        /\ Answer(p, c, good)
        /\ good => canary # Gone /\ canary' = IF canary = None
              THEN [enabled |-> FALSE, weight |-> r.weight, version |-> None]
              ELSE new
        /\ ~good => c = "none"
  BY DEF Adjust, Calling, GoesOn, Stops
<1>3. UNCHANGED <<config, deployed, pods, service, subsets, split>>
  BY DEF Adjust, workload, mesh
<1>4. /\ req'[p].call = c /\ req'[p].clean = (r.clean /\ good)
      /\ c # "none" => req'[p].op = r.op /\ req'[p].weight = r.weight
  BY <1>1, <1>2, AnswerEffect DEF IInv
<1>5. good => canary' \in Announced /\ canary'.weight = r.weight
  <2>1. canary \in Announced \cup {None, Gone} /\ canary' \in Announced \cup {None, Gone}
    BY DEF IInv, TypeOK
  <2>2. canary \in Announced => new \in Announced /\ new.weight = r.weight
    <3>1. r.weight \in Weight
      BY <1>1 DEF IInv, Known
    <3> HIDE DEF r
    <3> QED BY <3>1 DEF Announced
  <2>3. [enabled |-> FALSE, weight |-> r.weight, version |-> None] \in Announced
    BY <1>1 DEF IInv, Known, Announced
  <2>4. CASE good /\ canary = None
    <3>1. canary' = [enabled |-> FALSE, weight |-> r.weight, version |-> None]
      BY <1>2, <2>4
    <3> QED BY <2>3, <3>1
  <2>5. CASE good /\ canary # None
    <3>1. canary \in Announced /\ canary' = new
      BY <1>2, <2>1, <2>5
    <3> QED BY <2>2, <3>1
  <2> QED BY <2>4, <2>5
<1>6. ASSUME c # "none", req'[p].clean
      PROVE  Achieved(req[p])'
  BY <1>1, <1>2, <1>4, <1>5, <1>6 DEF Achieved, AdjustProgress, AfterSubsets, CleanUps
<1>7. ~damaged' => ~damaged
  BY <1>1, <1>2, AnswerAlone DEF IInv
<1> QED BY <1>1, <1>2, <1>3, <1>6, <1>7, AnswerInv
        DEF IInv, MeshIsBacked, Backed, PodsHaveDeployment

LEMMA ReadInv ==
    ASSUME IInv, TypeOK', NEW p \in Procs,
           NEW c \in {"readSubsets", "readSplit"}, NEW e, Read(p, c, e)
    PROVE  IInv'
<1> DEFINE r == req[p]
           a == After(r.op, c)
<1>1. /\ Busy(p) /\ r.call = c /\ r.op \in {"start", "adjust"}
      /\ a \in CallsOf(r.op) \cup {"none"} /\ a \in Calls \cup {"none"}
      /\ a = IF c = "readSubsets" THEN "writeSubsets" ELSE "writeSplit"
  BY Operation DEF Read, Calling, Busy, IInv, AfterAnnounce, AfterConfigure,
                   AfterDeploy, AfterServe, After
<1>2. PICK seen \in {"absent", "present"} :
        req' = [req EXCEPT ![p] = [@ EXCEPT !.call = a, !.seen = seen]]
  BY Zenon DEF Read
<1>3. UNCHANGED <<canary, config, deployed, pods, service, subsets, split, damaged>>
  BY DEF Read, cluster, workload, mesh
<1>4. /\ \A q \in Procs \ {p} : req'[q] = req[q]
      /\ req'[p].call = a /\ req'[p].op = r.op /\ req'[p].release = r.release
      /\ req'[p].weight = r.weight /\ req'[p].clean = r.clean
  <2>1. r \in Request
    BY DEF IInv, TypeOK
  <2>2. req' = [req EXCEPT ![p] = [r EXCEPT !.call = a, !.seen = seen]]
    BY <1>2
  <2>3. req'[p] = [r EXCEPT !.call = a, !.seen = seen]
    BY <2>2 DEF IInv, TypeOK
  <2>4. \A q \in Procs \ {p} : req'[q] = req[q]
    BY <2>2 DEF IInv, TypeOK
  <2> HIDE DEF r, a
  <2> QED BY <2>1, <2>3, <2>4 DEF Request
<1> HIDE DEF a
<1>5. \A q \in Procs : Busy(q)' <=> Busy(q)
  BY <1>1, <1>4 DEF Busy
<1>6. Known'
  BY <1>1, <1>4, <1>5 DEF IInv, Known, Busy
<1>7. Alone'
  BY <1>4, <1>5 DEF IInv, Alone
<1>8. Progress'
  <2> SUFFICES ASSUME NEW q \in Procs, Busy(q)', req'[q].clean
               PROVE  Achieved(req[q])'
    BY DEF Progress
  <2>1. Achieved(req[q])
    BY <1>4, <1>5 DEF IInv, Progress
  <2>2. CASE q # p
    BY <1>3, <1>4, <2>1, <2>2 DEF Achieved, StartProgress, AdjustProgress,
                                  CleanUpProgress, DeleteProgress
  <2>3. CASE q = p
    BY <1>1, <1>3, <1>4, <2>1, <2>3
       DEF Achieved, StartProgress, AdjustProgress, CleanUps, AfterSubsets,
           AfterServe, AfterDeploy, AfterConfigure, AfterAnnounce
  <2> QED BY <2>2, <2>3
<1>9. Intact'
  BY <1>3, <1>4, <1>5 DEF IInv, Intact, Backed
<1> QED BY <1>3, <1>6, <1>7, <1>8, <1>9
        DEF IInv, MeshIsBacked, Backed, PodsHaveDeployment

\* The writes of ApplyTrafficSplit.
LEMMA SplitInv ==
    ASSUME IInv, TypeOK', NEW p \in Procs, WriteSubsets(p) \/ WriteSplit(p)
    PROVE  IInv'
<1> DEFINE r == req[p]
<1>1. /\ Busy(p) /\ r.op \in {"start", "adjust"} /\ r.weight \in Weight
      /\ r.op = "start" => r.release \in Releases
      /\ r.call \in {"writeSubsets", "writeSplit"}
      /\ After(r.op, r.call) \in CallsOf(r.op) \cup {"none"}
      /\ After(r.op, r.call) \in Calls \cup {"none"}
      /\ After(r.op, r.call) = IF r.call = "writeSubsets" THEN "readSplit" ELSE "none"
  BY Operation DEF WriteSubsets, WriteSplit, Calling, Busy, IInv, After, AfterServe,
                   AfterDeploy, AfterConfigure, AfterAnnounce
<1>2. PICK c \in {After(r.op, r.call), "none"}, good \in BOOLEAN :
        /\ Answer(p, c, good)
        /\ r.call = "writeSubsets" /\ good => subsets'
        /\ r.call = "writeSplit" /\ good => split' = r.weight
  BY DEF WriteSubsets, WriteSplit, Calling, GoesOn, Stops
<1>3. /\ UNCHANGED <<canary, config, deployed, pods, service>>
      /\ subsets => subsets'
      /\ r.call = "writeSubsets" => UNCHANGED split
      /\ r.call = "writeSplit" => UNCHANGED subsets
  BY DEF WriteSubsets, WriteSplit, Calling, workload, IInv, TypeOK
<1>4. /\ req'[p].call = c /\ req'[p].clean = (r.clean /\ good)
      /\ c # "none" => /\ req'[p].op = r.op
                       /\ req'[p].release = r.release
                       /\ req'[p].weight = r.weight
  BY <1>1, <1>2, AnswerEffect DEF IInv
<1>5. ASSUME c # "none", req'[p].clean
      PROVE  Achieved(req[p])'
  <2>1. Achieved(r) /\ good /\ c = "readSplit" /\ r.call = "writeSubsets"
    BY <1>1, <1>2, <1>4, <1>5 DEF IInv, Progress
  <2> QED BY <1>1, <1>2, <1>3, <1>4, <1>5, <2>1
          DEF Achieved, StartProgress, AdjustProgress, CleanUps, AfterSubsets,
              AfterServe, AfterDeploy, AfterConfigure, AfterAnnounce
<1>6. ~damaged' /\ split' # None => (subsets /\ Backed)'
  <2> SUFFICES ASSUME ~damaged', split' # None
               PROVE  subsets' /\ Backed'
    OBVIOUS
  <2>1. ~damaged /\ r.clean
    BY <1>1, <1>2, AnswerAlone DEF IInv
  <2>2. CASE r.call = "writeSubsets"
    BY <1>3, <2>1, <2>2 DEF IInv, MeshIsBacked, Backed
  <2>3. CASE r.call = "writeSplit"
    <3>1. Achieved(r) /\ (r.op = "adjust" => Backed)
      BY <1>1, <2>1 DEF IInv, Progress, Intact
    <3>2. subsets /\ Backed
      BY <1>1, <2>3, <3>1 DEF Achieved, StartProgress, AdjustProgress, AfterSubsets,
            AfterServe, AfterDeploy, AfterConfigure, AfterAnnounce, Backed
    <3> QED BY <1>3, <3>2 DEF Backed
  <2> QED BY <1>1, <2>2, <2>3
<1> QED BY <1>1, <1>2, <1>3, <1>5, <1>6, AnswerInv DEF IInv, PodsHaveDeployment, Backed

-----------------------------------------------------------------------------
(* The calls of Promote, Rollback and Delete. *)

\* What a deletion does, and that it does nothing else.
LEMMA CleanUpEffect ==
    ASSUME TypeOK, NEW p \in Procs, CleanUp(p)
    PROVE  \E c \in {After(req[p].op, req[p].call), "none"}, good \in BOOLEAN :
        LET call == req[p].call IN
        /\ Busy(p)
        /\ call \in {"unsplit", "unsubset", "undeploy", "unconfigure", "unserve",
                     "unannounce", "unregister"}
        /\ Answer(p, c, good)
        /\ good => c = After(req[p].op, call)
        /\ call = "unsplit" /\ good => split' = None
        /\ call = "unsubset" /\ good => ~subsets'
        /\ call = "undeploy" /\ good => ~deployed' /\ pods' = None
        /\ call = "unconfigure" /\ good => config' = None
        /\ call = "unserve" /\ good => ~service'
        /\ call = "unannounce" /\ good => canary' \in {None, Gone}
        /\ call = "unregister" /\ good => canary' = Gone
        /\ call # "unsplit" => UNCHANGED split
        /\ call # "unsubset" => UNCHANGED subsets
        /\ call # "undeploy" \/ ~good => UNCHANGED <<deployed, pods>>
        /\ call # "unconfigure" => UNCHANGED config
        /\ call # "unserve" => UNCHANGED service
<1> USE DEF Calling, Busy, GoesOn, Stops, mesh, workload
<1>1. CASE Unsplit(p)
  BY <1>1 DEF Unsplit
<1>2. CASE Unsubset(p)
  BY <1>2 DEF Unsubset
<1>3. CASE Undeploy(p)
  BY <1>3 DEF Undeploy
<1>4. CASE Unconfigure(p)
  BY <1>4 DEF Unconfigure
<1>5. CASE Unserve(p)
  BY <1>5 DEF Unserve
<1>6. CASE Unannounce(p)
  BY <1>6 DEF Unannounce
<1>7. CASE Unregister(p)
  BY <1>7 DEF Unregister
<1> QED BY <1>1, <1>2, <1>3, <1>4, <1>5, <1>6, <1>7 DEF CleanUp

LEMMA CleanUpInv ==
    ASSUME IInv, TypeOK', NEW p \in Procs, CleanUp(p)
    PROVE  IInv'
<1> DEFINE r == req[p]
<1>1. PICK c \in {After(r.op, r.call), "none"}, good \in BOOLEAN :
        /\ Busy(p)
        /\ r.call \in {"unsplit", "unsubset", "undeploy", "unconfigure", "unserve",
                       "unannounce", "unregister"}
        /\ Answer(p, c, good)
        /\ good => c = After(r.op, r.call)
        /\ r.call = "unsplit" /\ good => split' = None
        /\ r.call = "unsubset" /\ good => ~subsets'
        /\ r.call = "undeploy" /\ good => ~deployed' /\ pods' = None
        /\ r.call = "unconfigure" /\ good => config' = None
        /\ r.call = "unserve" /\ good => ~service'
        /\ r.call # "unsplit" => UNCHANGED split
        /\ r.call # "unsubset" => UNCHANGED subsets
        /\ r.call # "undeploy" \/ ~good => UNCHANGED <<deployed, pods>>
        /\ r.call # "unconfigure" => UNCHANGED config
        /\ r.call # "unserve" => UNCHANGED service
  BY CleanUpEffect DEF IInv
<1>2. /\ r.op \in CleanUps \cup {"delete"}
      /\ r.call = "unannounce" => r.op \in CleanUps
      /\ r.call = "unregister" => r.op = "delete"
      /\ After(r.op, r.call) \in CallsOf(r.op) \cup {"none"}
      /\ After(r.op, r.call) \in Calls \cup {"none"}
  BY <1>1, Operation DEF IInv
<1>3. /\ req'[p].call = c /\ req'[p].clean = (r.clean /\ good)
      /\ c # "none" => req'[p].op = r.op
  BY <1>1, <1>2, AnswerEffect DEF IInv
<1>4. r.clean => Achieved(r)
  BY <1>1 DEF IInv, Progress
<1>5. ASSUME c # "none", req'[p].clean
      PROVE  Achieved(req[p])'
  <2>1. Achieved(r) /\ good /\ c = After(r.op, r.call) /\ req'[p].op = r.op
    BY <1>1, <1>3, <1>4, <1>5
  <2>2. CASE r.op \in CleanUps
    <3>1. CleanUpProgress(r)
      BY <2>1, <2>2 DEF Achieved
    <3>2. /\ r.call = "unsplit" => c = "unsubset"
          /\ r.call = "unsubset" => c = "undeploy"
          /\ r.call = "undeploy" => c = "unconfigure"
          /\ r.call = "unconfigure" => c = "unserve"
          /\ r.call = "unserve" => c = "unannounce"
          /\ r.call \notin {"unannounce", "unregister"}
      BY <1>1, <1>2, <1>5, <2>1, <2>2 DEF After, CleanUps
    <3>3. CleanUpProgress(req[p])'
      BY <1>1, <1>3, <2>1, <3>1, <3>2 DEF CleanUpProgress
    <3> QED BY <2>1, <2>2, <3>3 DEF Achieved, CleanUps
  <2>3. CASE r.op = "delete"
    <3>1. DeleteProgress(r)
      BY <2>1, <2>3 DEF Achieved
    <3>2. /\ r.call = "undeploy" => c = "unserve"
          /\ r.call = "unserve" => c = "unconfigure"
          /\ r.call = "unconfigure" => c = "unsplit"
          /\ r.call = "unsplit" => c = "unsubset"
          /\ r.call = "unsubset" => c = "unregister"
          /\ r.call \notin {"unannounce", "unregister"}
      BY <1>1, <1>2, <1>5, <2>1, <2>3 DEF After, CleanUps
    <3>3. DeleteProgress(req[p])'
      BY <1>1, <1>3, <2>1, <3>1, <3>2 DEF DeleteProgress
    <3> QED BY <2>1, <2>3, <3>3 DEF Achieved, CleanUps
  <2> QED BY <1>2, <2>2, <2>3
<1>6. PodsHaveDeployment'
  BY <1>1 DEF IInv, PodsHaveDeployment
<1>7. ASSUME ~damaged'
      PROVE  split' = None
  <2>1. Achieved(r) /\ good
    BY <1>1, <1>2, <1>4, <1>7, AnswerAlone DEF IInv
  <2>2. CASE r.op \in CleanUps
    BY <1>1, <2>1, <2>2 DEF Achieved, CleanUpProgress
  <2>3. CASE r.op = "delete"
    <3>1. ~damaged => r.op # "delete"
      BY <1>1 DEF IInv, Intact
    <3>2. c = "none"
      BY <1>1, <1>2, <1>7, <2>3, <3>1, AnswerAlone DEF IInv
    <3>3. r.call = "unregister"
      BY <1>1, <1>2, <2>1, <2>3, <3>2 DEF After, CleanUps
    <3> QED BY <1>1, <2>1, <2>3, <3>3 DEF Achieved, DeleteProgress
  <2> QED BY <1>2, <2>2, <2>3
<1> QED BY <1>1, <1>2, <1>5, <1>6, <1>7, AnswerInv DEF CleanUps

-----------------------------------------------------------------------------
(* New requests, the cluster and crashes. *)

LEMMA BeginInv ==
    ASSUME IInv, TypeOK', NEW p \in Procs, NEW r \in Request, Begin(p, r),
           r.op \in Ops, r.call \in CallsOf(r.op),
           r.op \in {"start", "adjust"} => r.weight \in Weight,
           r.op = "start" => r.release \in Releases,
           \/ r.call \in {"announce", "adjust"}
           \/ r.op \in CleanUps /\ r.call = "unsplit"
           \/ r.op = "delete" /\ r.call = "undeploy"
    PROVE  IInv'
<1> DEFINE others == {q \in Procs \ {p} : Busy(q)}
           b == others = {}
<1>1. /\ b \in BOOLEAN
      /\ req'[p] = [r EXCEPT !.clean = b]
      /\ \A q \in Procs \ {p} : req'[q] = [req[q] EXCEPT !.clean = FALSE]
      /\ damaged' = (damaged \/ ~b \/ r.op = "delete" \/ (r.op = "adjust" /\ ~Backed))
  <2>1. req' = [q \in Procs |-> IF q = p THEN [r EXCEPT !.clean = b]
                                ELSE [req[q] EXCEPT !.clean = FALSE]]
    BY DEF Begin
  <2>2. damaged' = \/ damaged
                   \/ others # {}
                   \/ r.op = "delete"
                   \/ r.op = "adjust" /\ ~Backed
    BY DEF Begin
  <2>3. damaged' = (damaged \/ ~b \/ r.op = "delete" \/ (r.op = "adjust" /\ ~Backed))
    BY <2>2
  <2>4. b \in BOOLEAN
    OBVIOUS
  <2> HIDE DEF b
  <2>5. /\ req'[p] = [r EXCEPT !.clean = b]
        /\ \A q \in Procs \ {p} : req'[q] = [req[q] EXCEPT !.clean = FALSE]
    BY <2>1
  <2> QED BY <2>3, <2>4, <2>5
<1>2. /\ req'[p].op = r.op /\ req'[p].call = r.call /\ req'[p].clean = b
      /\ req'[p].release = r.release /\ req'[p].weight = r.weight
  <2> HIDE DEF b
  <2> QED BY <1>1 DEF Request
<1>3. ASSUME NEW q \in Procs \ {p}
      PROVE  /\ req'[q].op = req[q].op /\ req'[q].call = req[q].call
             /\ req'[q].release = req[q].release /\ req'[q].weight = req[q].weight
             /\ req'[q].clean = FALSE
  <2>1. req[q] \in Request /\ req'[q] = [req[q] EXCEPT !.clean = FALSE]
    BY <1>1 DEF IInv, TypeOK
  <2> QED BY <2>1 DEF Request
<1>4. /\ UNCHANGED <<canary, config, deployed, pods, service, subsets, split>>
      /\ Backed' = Backed
  BY DEF Begin, cluster, workload, mesh, Backed
<1>5. b => \A q \in Procs \ {p} : ~Busy(q)'
  BY <1>3 DEF Busy
<1>6. ~damaged' => b /\ ~damaged
  <2> HIDE DEF b
  <2> QED BY <1>1
<1> HIDE DEF b
<1>7. Known'
  <2> SUFFICES ASSUME NEW q \in Procs, Busy(q)'
               PROVE  /\ req'[q].op \in Ops
                      /\ req'[q].call \in CallsOf(req'[q].op)
                      /\ req'[q].op \in {"start", "adjust"} => req'[q].weight \in Weight
                      /\ req'[q].op = "start" => req'[q].release \in Releases
    BY DEF Known
  <2> QED BY <1>2, <1>3 DEF IInv, Known, Busy
<1>8. Alone'
  BY <1>2, <1>3, <1>5 DEF Alone
<1>9. Progress'
  BY <1>2, <1>3 DEF Progress, Achieved, StartProgress, AdjustProgress,
        CleanUpProgress, DeleteProgress, CleanUps, AfterAnnounce, AfterConfigure,
        AfterDeploy, AfterServe, AfterSubsets, CallsOf
<1>10. Intact'
  BY <1>1, <1>2, <1>4, <1>5, <1>6 DEF Intact
<1> QED BY <1>4, <1>6, <1>7, <1>8, <1>9, <1>10
        DEF IInv, PodsHaveDeployment, MeshIsBacked

LEMMA AcceptInv ==
    ASSUME IInv, TypeOK', NEW p \in Procs, Accept(p)
    PROVE  IInv'
<1> USE DEF NewRequest
<1>1. CASE \E v \in Releases, w \in Requested : Start(p, v, w)
  <2> PICK v \in Releases, w \in Requested : Start(p, v, w)
    BY <1>1
  <2> DEFINE r == NewRequest("start", "announce", v, IF w \in 1..50 THEN w ELSE 10)
  <2>1. /\ r \in Request /\ r.op = "start" /\ r.call = "announce"
        /\ r.weight \in Weight /\ r.release \in Releases
    BY DEF Request, Calls, Weight, Ops
  <2>2. Begin(p, r)
    BY DEF Start
  <2> HIDE DEF r
  <2>3. r.op \in Ops /\ r.call \in CallsOf(r.op)
    BY <2>1 DEF CallsOf, CleanUps, Ops
  <2> QED BY <2>1, <2>2, <2>3, BeginInv
<1>2. CASE \E w \in Requested : UpdateWeight(p, w)
  <2> PICK w \in Requested : UpdateWeight(p, w)
    BY <1>2
  <2> DEFINE r == NewRequest("adjust", "adjust", None, w)
  <2>1. /\ r \in Request /\ r.op = "adjust" /\ r.call = "adjust"
        /\ r.weight \in Weight
    BY DEF Request, Calls, UpdateWeight, Weight, Ops
  <2>2. Begin(p, r)
    BY DEF UpdateWeight
  <2> HIDE DEF r
  <2>3. r.op \in Ops /\ r.call \in CallsOf(r.op)
    BY <2>1 DEF CallsOf, CleanUps, Ops
  <2> QED BY <2>1, <2>2, <2>3, BeginInv
<1>3. CASE Promote(p) \/ Rollback(p)
  <2> PICK op \in CleanUps : Begin(p, NewRequest(op, "unsplit", None, 0))
    BY <1>3 DEF Promote, Rollback, CleanUps
  <2> DEFINE r == NewRequest(op, "unsplit", None, 0)
  <2>1. /\ r \in Request /\ r.op = op /\ r.call = "unsplit"
        /\ r.op \in Ops /\ r.call \in CallsOf(r.op)
    BY DEF Request, Calls, CallsOf, CleanUps, Ops
  <2>2. Begin(p, r)
    OBVIOUS
  <2> HIDE DEF r
  <2> QED BY <2>1, <2>2, BeginInv DEF CleanUps
<1>4. CASE Delete(p)
  <2> DEFINE r == NewRequest("delete", "undeploy", None, 0)
  <2>1. /\ r \in Request /\ r.op = "delete" /\ r.call = "undeploy"
        /\ r.op \in Ops /\ r.call \in CallsOf(r.op)
    BY DEF Request, Calls, CallsOf, CleanUps, Ops
  <2>2. Begin(p, r)
    BY <1>4 DEF Delete
  <2> HIDE DEF r
  <2> QED BY <2>1, <2>2, BeginInv
<1> QED BY <1>1, <1>2, <1>3, <1>4 DEF Accept

LEMMA EnvironmentInv ==
    ASSUME IInv, TypeOK', StartPods \/ Register \/ Crash
    PROVE  IInv'
<1> USE DEF IInv
<1>1. CASE StartPods
  <2>1. /\ deployed /\ config # None /\ pods' = config
        /\ UNCHANGED <<canary, config, deployed, service, subsets, split, req, damaged>>
    BY <1>1 DEF StartPods, mesh
  <2>2. Known' /\ Alone' /\ PodsHaveDeployment' /\ Intact' /\ MeshIsBacked'
    BY <2>1 DEF Known, Alone, Busy, PodsHaveDeployment, Intact, Backed, MeshIsBacked
  <2>3. ASSUME NEW q \in Procs, Busy(q), req[q].clean
        PROVE  Achieved(req[q])'
    <3>1. Achieved(req[q])
      BY <2>3 DEF Progress
    <3>2. StartProgress(req[q]) => StartProgress(req[q])'
      BY <2>1 DEF StartProgress, AfterAnnounce, AfterConfigure, AfterDeploy,
                  AfterServe, AfterSubsets
    <3>3. AdjustProgress(req[q]) => AdjustProgress(req[q])'
      BY <2>1 DEF AdjustProgress
    <3>4. CleanUpProgress(req[q]) => CleanUpProgress(req[q])'
      BY <2>1 DEF CleanUpProgress
    <3>5. DeleteProgress(req[q]) => DeleteProgress(req[q])'
      BY <2>1 DEF DeleteProgress
    <3> QED BY <2>1, <3>1, <3>2, <3>3, <3>4, <3>5 DEF Achieved
  <2>4. Progress'
    BY <2>1, <2>3 DEF Progress, Busy
  <2> QED BY <2>2, <2>4
<1>2. CASE Register
  <2>1. /\ canary = Gone /\ canary' = None
        /\ UNCHANGED <<config, deployed, pods, service, subsets, split, req, damaged>>
    BY <1>2 DEF Register, workload, mesh
  <2>2. Known' /\ Alone' /\ PodsHaveDeployment' /\ Intact' /\ MeshIsBacked'
    BY <2>1 DEF Known, Alone, Busy, PodsHaveDeployment, Intact, Backed, MeshIsBacked
  <2>3. ASSUME NEW q \in Procs, Busy(q), req[q].clean
        PROVE  Achieved(req[q])'
    <3>1. Achieved(req[q])
      BY <2>3 DEF Progress
    <3>2. req[q].op = "start" => StartProgress(req[q])'
      <4> SUFFICES ASSUME req[q].op = "start"
                   PROVE  StartProgress(req[q])'
        OBVIOUS
      <4>1. StartProgress(req[q])
        BY <3>1 DEF Achieved
      <4>2. [enabled |-> TRUE, weight |-> req[q].weight, version |-> req[q].release]
              \in Announced
        BY <2>3 DEF Known, Announced
      <4>3. req[q].call \notin AfterAnnounce
        BY <2>1, <4>1, <4>2 DEF StartProgress
      <4> QED BY <2>1, <4>1, <4>3 DEF StartProgress
    <3>3. AdjustProgress(req[q]) => AdjustProgress(req[q])'
      BY <2>1 DEF AdjustProgress
    <3>4. CleanUpProgress(req[q]) => CleanUpProgress(req[q])'
      BY <2>1 DEF CleanUpProgress
    <3>5. DeleteProgress(req[q]) => DeleteProgress(req[q])'
      BY <2>1 DEF DeleteProgress
    <3> QED BY <2>1, <3>1, <3>2, <3>3, <3>4, <3>5 DEF Achieved
  <2>4. Progress'
    BY <2>1, <2>3 DEF Progress, Busy
  <2> QED BY <2>2, <2>4
<1>3. CASE Crash
  <2>1. \A q \in Procs : ~Busy(q)'
    BY <1>3 DEF Crash, NoRequest, Busy
  <2>2. UNCHANGED <<canary, config, deployed, pods, service, subsets, split, damaged>>
    BY <1>3 DEF Crash, cluster, workload, mesh
  <2> QED BY <2>1, <2>2 DEF Known, Alone, PodsHaveDeployment, Progress, Intact,
                            MeshIsBacked, Backed
<1> QED BY <1>1, <1>2, <1>3

-----------------------------------------------------------------------------
(* The theorems. *)

LEMMA InitInv ==
    ASSUME Init
    PROVE  IInv
<1>1. NoRequest \in Request
  BY DEF NoRequest, Request
<1>2. TypeOK
  BY <1>1 DEF Init, TypeOK
<1>3. \A q \in Procs : ~Busy(q)
  BY DEF Init, Busy, NoRequest
<1> QED BY <1>2, <1>3 DEF Init, IInv, Known, Alone, PodsHaveDeployment, Progress,
                          Intact, MeshIsBacked

LEMMA NextInv ==
    ASSUME IInv, [Next]_vars
    PROVE  IInv'
<1>1. TypeOK'
  BY NextType DEF IInv
<1>2. CASE UNCHANGED vars
  BY <1>1, <1>2 DEF vars, cluster, workload, mesh, IInv, Known, Alone, Busy,
        PodsHaveDeployment, Progress, Achieved, StartProgress, AdjustProgress,
        CleanUpProgress, DeleteProgress, Intact, MeshIsBacked, Backed
<1>3. ASSUME NEW p \in Procs, Accept(p) \/ CleanUp(p)
      PROVE  IInv'
  BY <1>1, <1>3, AcceptInv, CleanUpInv
<1>4. ASSUME NEW p \in Procs, Apply(p)
      PROVE  IInv'
  BY <1>1, <1>4, AnnounceInv, PrepareInv, AdjustInv, ReadInv, SplitInv DEF Apply
<1>5. CASE StartPods \/ Register \/ Crash
  BY <1>1, <1>5, EnvironmentInv
<1> QED BY <1>2, <1>3, <1>4, <1>5 DEF Next

\* The inductive invariant holds in every state.
THEOREM Inductive == Spec => []IInv
BY InitInv, NextInv, PTL DEF Spec

\* In every state the variables have their types; in particular no weight outside
\* 1..99 reaches the CRD or the mesh (UpdateWeight checks it, Start replaces it).
THEOREM TypeCorrect == Spec => []TypeOK
<1>1. IInv => TypeOK
  BY DEF IInv
<1> QED BY <1>1, Inductive, PTL

\* In every undamaged state the mesh sends traffic to a canary only while the
\* objects that receive it are there, wherever the server has crashed.
THEOREM MeshStaysBacked == Spec => []MeshIsBacked
<1>1. IInv => MeshIsBacked
  BY DEF IInv
<1> QED BY <1>1, Inductive, PTL

-----------------------------------------------------------------------------
(* What undisturbed requests achieve. *)

\* An undisturbed request ends in its last call.
LEMMA LastAnswer ==
    ASSUME IInv, NEW p \in Procs, NEW op \in Ops, Succeeds(p, op),
           NEW c \in {After(op, req[p].call), "none"}, NEW good \in BOOLEAN,
           Answer(p, c, good)
    PROVE  /\ Achieved(req[p]) /\ req[p].call \in CallsOf(op)
           /\ c = "none" /\ good
<1>1. c \in Calls \cup {"none"}
  BY AfterType DEF Succeeds
<1>2. req'[p].call = c /\ req'[p].clean = (req[p].clean /\ good)
  BY <1>1, AnswerEffect DEF IInv
<1> QED BY <1>2 DEF IInv, Known, Progress, Succeeds, Busy

\* Nothing but an answer to a request ends it undisturbed.
LEMMA EndsInCall ==
    ASSUME IInv, [Next]_vars, NEW p \in Procs, NEW op \in Ops, Succeeds(p, op)
    PROVE  Apply(p) \/ CleanUp(p)
<1>1. Busy(p) /\ req'[p].call = "none" /\ req'[p].clean
  BY DEF Succeeds, Busy
<1>2. ~UNCHANGED req
  BY <1>1 DEF Busy
<1>3. ~Crash
  BY <1>1 DEF Crash, NoRequest
<1>4. ASSUME NEW q \in Procs, Accept(q)
      PROVE  FALSE
  <2>1. \E r : Begin(q, r)
    BY <1>4 DEF Accept, Start, UpdateWeight, Promote, Rollback, Delete
  <2>2. PICK r : Begin(q, r)
    BY <2>1
  <2>3. q # p
    BY <1>1, <2>2 DEF Begin
  <2>4. req'[p] = [req[p] EXCEPT !.clean = FALSE]
    BY <2>2, <2>3 DEF Begin
  <2>5. req[p] \in Request
    BY DEF IInv, TypeOK
  <2> QED BY <1>1, <2>4, <2>5 DEF Request
<1>5. ASSUME NEW q \in Procs \ {p}, Apply(q) \/ CleanUp(q)
      PROVE  FALSE
  <2>1. CASE \E c, e : Read(q, c, e)
    <3>1. req'[p] = req[p]
      BY <2>1 DEF Read, IInv, TypeOK
    <3> QED BY <1>1, <3>1 DEF Busy
  <2>2. CASE \E c \in Calls \cup {"none"}, good \in BOOLEAN : Answer(q, c, good)
    <3>1. req'[p].call = req[p].call
      BY <2>2, AnswerEffect DEF IInv
    <3> QED BY <1>1, <3>1 DEF Busy
  <2>3. \/ \E c, e : Read(q, c, e)
        \/ \E good \in BOOLEAN : GoesOn(q, good) \/ Stops(q)
    BY <1>5 DEF Apply, CleanUp, Announce, Configure, Deploy, Serve, Adjust,
          WriteSubsets, WriteSplit, Unsplit, Unsubset, Undeploy, Unconfigure,
          Unserve, Unannounce, Unregister
  <2> QED BY <2>1, <2>2, <2>3, AfterType DEF GoesOn, Stops
<1> QED BY <1>2, <1>3, <1>4, <1>5 DEF Next, StartPods, Register, vars

\* After an undisturbed Promote, Rollback or Delete nothing is left of the canary,
\* whatever crashes, failures and other requests had left before.
THEOREM CleanupCompletes == Spec => CleanupIsComplete
<1> DEFINE Complete == \A p \in Procs : \A op \in {"promote", "rollback", "delete"} :
                Succeeds(p, op) => CleanedUp'
<1>1. ASSUME IInv, [Next]_vars, NEW p \in Procs,
             NEW op \in {"promote", "rollback", "delete"}, Succeeds(p, op)
      PROVE  CleanedUp'
  <2>1. op \in Ops /\ req[p].op = op
    BY <1>1 DEF Ops, Succeeds
  <2>2. CleanUp(p)
    <3>1. req[p].call \in CallsOf(op)
      BY <1>1, <2>1 DEF IInv, Known, Succeeds
    <3>2. req[p].call \notin {"announce", "configure", "deploy", "serve", "adjust",
                "readSubsets", "writeSubsets", "readSplit", "writeSplit"}
      BY <3>1 DEF CallsOf, CleanUps
    <3>3. ~Apply(p)
      BY <3>2 DEF Apply, Announce, Configure, Deploy, Serve, Adjust, Read,
                  WriteSubsets, WriteSplit, Calling
    <3> QED BY <1>1, <2>1, <3>3, EndsInCall
  <2>3. PICK c \in {After(op, req[p].call), "none"}, good \in BOOLEAN :
        LET call == req[p].call IN
        /\ Answer(p, c, good)
        /\ good => c = After(op, call)
        /\ call = "unannounce" /\ good => canary' \in {None, Gone}
        /\ call = "unregister" /\ good => canary' = Gone
        /\ call # "unsplit" => UNCHANGED split
        /\ call # "unsubset" => UNCHANGED subsets
        /\ call # "undeploy" => UNCHANGED <<deployed, pods>>
        /\ call # "unconfigure" => UNCHANGED config
        /\ call # "unserve" => UNCHANGED service
    BY <1>1, <2>1, <2>2, CleanUpEffect DEF IInv
  <2>4. Achieved(req[p]) /\ req[p].call \in CallsOf(op) /\ c = "none" /\ good
    BY <1>1, <2>1, <2>3, LastAnswer
  <2>5. req[p].call = IF op = "delete" THEN "unregister" ELSE "unannounce"
    BY <1>1, <2>3, <2>4 DEF After, CallsOf, CleanUps
  <2>6. TypeOK'
    BY <1>1, NextType DEF IInv
  <2> QED BY <1>1, <2>1, <2>3, <2>4, <2>5, <2>6
          DEF Achieved, CleanUpProgress, DeleteProgress, CleanedUp, CleanUps, TypeOK
<1>2. IInv /\ [Next]_vars => Complete
  BY <1>1
<1>3. [][Complete]_vars => CleanupIsComplete
  BY PTL DEF CleanupIsComplete
<1> HIDE DEF Complete
<1> QED BY <1>2, <1>3, Inductive, PTL DEF Spec

\* An undisturbed Start or UpdateWeight ends with the VirtualService, unless the
\* names of the agent differ.
LEMMA EndsInSplit ==
    ASSUME IInv, [Next]_vars, NEW p \in Procs, NEW op \in {"start", "adjust"},
           Succeeds(p, op), op = "adjust" => NameIsSlug
    PROVE  /\ req[p].op = op /\ req[p].call = "writeSplit" /\ Achieved(req[p])
           /\ split' = req[p].weight
           /\ UNCHANGED <<canary, config, deployed, pods, service, subsets>>
<1>1. op \in Ops /\ req[p].op = op /\ Busy(p) /\ ~Busy(p)' /\ req[p].call \in CallsOf(op)
  BY DEF Ops, Succeeds, IInv, Known
<1>2. req[p].call \in {"announce", "adjust"} \cup AfterAnnounce
  BY <1>1 DEF CallsOf, CleanUps, AfterServe, AfterDeploy, AfterConfigure, AfterAnnounce
<1>3. Apply(p)
  <2>1. ~CleanUp(p)
    BY <1>2 DEF CleanUp, Unsplit, Unsubset, Undeploy, Unconfigure, Unserve,
                Unannounce, Unregister, Calling, AfterAnnounce
  <2> QED BY <1>1, <2>1, EndsInCall
<1>4. ASSUME NEW c, NEW e, Read(p, c, e), c \in {"readSubsets", "readSplit"}
      PROVE  FALSE
  <2>1. PICK seen \in {"absent", "present"} :
          req' = [req EXCEPT ![p] = [@ EXCEPT !.call = After(req[p].op, c),
                                              !.seen = seen]]
    BY <1>4, Zenon DEF Read
  <2>2. After(req[p].op, c) # "none"
    BY <1>4 DEF After
  <2>3. req'[p] = [req[p] EXCEPT !.call = After(req[p].op, c), !.seen = seen]
    BY <2>1 DEF IInv, TypeOK
  <2>4. req[p] \in Request
    BY DEF IInv, TypeOK
  <2>5. req'[p].call = After(req[p].op, c)
    BY <2>3, <2>4 DEF Request
  <2> QED BY <1>1, <2>2, <2>5 DEF Busy
<1>5. PICK c \in {After(op, req[p].call), "none"}, good \in BOOLEAN :
        /\ Answer(p, c, good)
        /\ good => c = After(op, req[p].call)
        /\ req[p].call = "writeSplit" /\ good => split' = req[p].weight
        /\ req[p].call = "writeSplit" =>
                UNCHANGED <<canary, config, deployed, pods, service, subsets>>
  BY <1>1, <1>3, <1>4 DEF Apply, Announce, Configure, Deploy, Serve, Adjust,
        WriteSubsets, WriteSplit, Calling, GoesOn, Stops, workload
<1>6. Achieved(req[p]) /\ c = "none" /\ good
  BY <1>1, <1>5, LastAnswer
<1>7. req[p].call = "writeSplit"
  BY <1>1, <1>2, <1>5, <1>6 DEF After, AfterAnnounce, CallsOf, CleanUps
<1> QED BY <1>1, <1>5, <1>6, <1>7

\* After an undisturbed Start the mesh and the CRD divide traffic as it was asked
\* for, and the canary runs the release that is announced.
THEOREM StartIsEffective == Spec => StartTakesEffect
<1> DEFINE Effective == \A p \in Procs : Succeeds(p, "start") =>
            /\ canary' = [enabled |-> TRUE, weight |-> req[p].weight,
                          version |-> req[p].release]
            /\ split' = req[p].weight
            /\ config' = req[p].release
            /\ pods' \in {None, req[p].release}
            /\ (subsets /\ Backed)'
<1>1. IInv /\ [Next]_vars => Effective
  <2> SUFFICES ASSUME IInv, [Next]_vars, NEW p \in Procs, Succeeds(p, "start")
               PROVE  /\ canary' = [enabled |-> TRUE, weight |-> req[p].weight,
                                    version |-> req[p].release]
                      /\ split' = req[p].weight
                      /\ config' = req[p].release
                      /\ pods' \in {None, req[p].release}
                      /\ (subsets /\ Backed)'
    OBVIOUS
  <2>1. /\ req[p].op = "start" /\ req[p].call = "writeSplit" /\ Achieved(req[p])
        /\ split' = req[p].weight
        /\ UNCHANGED <<canary, config, deployed, pods, service, subsets>>
    BY EndsInSplit
  <2>2. StartProgress(req[p]) /\ Busy(p)
    BY <2>1 DEF Achieved, Busy
  <2>3. req[p].release # None
    BY <2>1, <2>2 DEF IInv, Known
  <2> QED BY <2>1, <2>2, <2>3 DEF StartProgress, AfterAnnounce, AfterConfigure,
             AfterDeploy, AfterServe, AfterSubsets, Backed
<1>2. [][Effective]_vars => StartTakesEffect
  BY PTL DEF StartTakesEffect
<1> HIDE DEF Effective
<1> QED BY <1>1, <1>2, Inductive, PTL DEF Spec

\* When the display name of the agent is the name of its CRD, the mesh and the CRD
\* agree on the weight after an undisturbed UpdateWeight.
THEOREM WeightIsEffective == NameIsSlug /\ Spec => WeightTakesEffect
<1> SUFFICES ASSUME NameIsSlug
             PROVE  Spec => WeightTakesEffect
  OBVIOUS
<1> DEFINE Effective == \A p \in Procs : Succeeds(p, "adjust") =>
            canary'.weight = req[p].weight /\ split' = req[p].weight
<1>1. IInv /\ [Next]_vars => Effective
  <2> SUFFICES ASSUME IInv, [Next]_vars, NEW p \in Procs, Succeeds(p, "adjust")
               PROVE  canary'.weight = req[p].weight /\ split' = req[p].weight
    OBVIOUS
  <2>1. /\ req[p].op = "adjust" /\ req[p].call = "writeSplit" /\ Achieved(req[p])
        /\ split' = req[p].weight
        /\ UNCHANGED <<canary, config, deployed, pods, service, subsets>>
    BY EndsInSplit
  <2>2. canary.weight = req[p].weight
    BY <2>1 DEF Achieved, AdjustProgress, AfterServe, AfterDeploy, AfterConfigure,
                AfterAnnounce
  <2> QED BY <2>1, <2>2
<1>2. [][Effective]_vars => WeightTakesEffect
  BY PTL DEF WeightTakesEffect
<1> HIDE DEF Effective
<1> QED BY <1>1, <1>2, Inductive, PTL DEF Spec
=============================================================================
