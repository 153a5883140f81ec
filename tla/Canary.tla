------------------------------- MODULE Canary -------------------------------
(***************************************************************************)
(* The canary of one agent: internal/agent/canary_handler.go and the calls *)
(* it makes through k8s_writer.go; and the deletion of the agent, which is *)
(* to take the canary with it.                                             *)
(*                                                                         *)
(* The handlers keep no state.  A canary is spread over objects of the     *)
(* cluster that a request writes one call after the other, going on when   *)
(* most of these calls fail.  Chat reaches the canary on two ways: through *)
(* the mesh, by the weights of the VirtualService, and through the API     *)
(* server's proxy, which draws by the weight that the Agent CRD announces. *)
(*                                                                         *)
(*   canary    spec.canary of the CRD, or Gone without the CRD             *)
(*   config    the ConfigMap: the release whose configuration it holds     *)
(*   deployed  the Deployment exists                                       *)
(*   pods      the release that the pods of the Deployment run             *)
(*   service   the Service exists                                          *)
(*   subsets   the DestinationRule, which tells stable and canary apart    *)
(*   split     the VirtualService: the canary's share of the mesh traffic  *)
(*   req       per goroutine: its operation, the call it makes next, the   *)
(*             release and the share it is about, what it has seen of the  *)
(*             object it is about to write, and whether the cluster did    *)
(*             all it asked for and no other request was at work (history) *)
(*   damaged   history: since the last clean cleanup, a call failed,       *)
(*             requests overlapped, a weight was set for a canary that was *)
(*             not all there, or a deletion of the agent began             *)
(***************************************************************************)
EXTENDS Naturals

CONSTANTS
    Procs,       \* goroutines that serve requests about the agent
    Releases,    \* releases in the state repository
    Requested,   \* weights that clients send
    None, Gone,
    NameIsSlug,  \* the display name of the agent is the name of its CRD
    Faults,      \* calls to the cluster may fail
    Crashes      \* the API server may crash and restart

Weight == 1..99

\* spec.canary; a merge patch may leave parts of it unset.
Announced == [enabled : BOOLEAN, weight : Weight, version : Releases \cup {None}]

ASSUME ConstantsAssumption ==
    /\ Requested \subseteq Nat
    /\ NameIsSlug \in BOOLEAN
    /\ Faults \in BOOLEAN
    /\ Crashes \in BOOLEAN
    /\ None \notin Releases \cup (0..99) \cup Announced
    /\ Gone \notin Announced \cup {None}

VARIABLES canary, config, deployed, pods, service, subsets, split,
          req, damaged

workload == <<config, deployed, pods, service>>
mesh == <<subsets, split>>
cluster == <<canary, workload, mesh>>
vars == <<cluster, req, damaged>>

Ops == {"start", "adjust", "promote", "rollback", "delete"}

Calls == {"announce", "configure", "deploy", "serve", "adjust",
          "readSubsets", "writeSubsets", "readSplit", "writeSplit",
          "unsplit", "unsubset", "undeploy", "unconfigure", "unserve",
          "unannounce", "unregister"}

Request == [op : Ops \cup {"none"}, call : Calls \cup {"none"},
            release : Releases \cup {None}, weight : 0..99,
            seen : {"absent", "present", "stale"}, clean : BOOLEAN]

NoRequest == [op |-> "none", call |-> "none", release |-> None, weight |-> 0,
              seen |-> "absent", clean |-> FALSE]

NewRequest(op, call, v, w) ==
    [op |-> op, call |-> call, release |-> v, weight |-> w,
     seen |-> "absent", clean |-> TRUE]

Busy(p) == req[p].call # "none"

\* A canary that traffic can be sent to.
Backed == deployed /\ service /\ config # None

\* Nothing is left of a canary.
CleanedUp ==
    /\ canary \in {None, Gone}
    /\ config = None /\ ~deployed /\ pods = None /\ ~service
    /\ ~subsets /\ split = None

-----------------------------------------------------------------------------
(* A request is a sequence of calls. *)

\* The call after c: Start, UpdateWeight (which applies the split to objects
\* called by the display name), ApplyTrafficSplit, what Promote and Rollback do,
\* and Delete with CleanupAgentResources.
After(op, c) ==
    CASE c = "announce"     -> "configure"
      [] c = "configure"    -> "deploy"
      [] c = "deploy"       -> "serve"
      [] c = "serve"        -> "readSubsets"
      [] c = "adjust"       -> IF NameIsSlug THEN "readSubsets" ELSE "none"
      [] c = "readSubsets"  -> "writeSubsets"
      [] c = "writeSubsets" -> "readSplit"
      [] c = "readSplit"    -> "writeSplit"
      [] c = "unsplit"      -> "unsubset"
      [] c = "unsubset"     -> IF op = "delete" THEN "unregister" ELSE "undeploy"
      [] c = "undeploy"     -> IF op = "delete" THEN "unserve" ELSE "unconfigure"
      [] c = "unconfigure"  -> IF op = "delete" THEN "unsplit" ELSE "unserve"
      [] c = "unserve"      -> IF op = "delete" THEN "unconfigure" ELSE "unannounce"
      [] OTHER              -> "none"

\* The request of p goes on with call c; good: the call did what it was for.
\* An object that was changed has another resourceVersion than others have seen.
Answer(p, c, good) ==
    /\ req' = [q \in Procs |->
            IF q = p
            THEN [(IF c = "none" THEN NoRequest ELSE req[p]) EXCEPT
                    !.call = c, !.seen = "absent", !.clean = req[p].clean /\ good]
            ELSE IF /\ req[q].seen = "present"
                    /\ \/ req[q].call = "writeSubsets" /\ subsets' # subsets
                       \/ req[q].call = "writeSplit" /\ split' # split
            THEN [req[q] EXCEPT !.seen = "stale"]
            ELSE req[q]]
    /\ damaged' = IF /\ c = "none" /\ good /\ req[p].clean
                     /\ req[p].op \in {"promote", "rollback", "delete"}
                  THEN FALSE ELSE damaged \/ ~good

\* A call whose failure is logged, or that does not fail: the request goes on.
GoesOn(p, good) == Answer(p, After(req[p].op, req[p].call), good)

\* A call whose failure ends the request.
Stops(p) == Answer(p, "none", FALSE)

Begin(p, r) ==
    LET others == {q \in Procs \ {p} : Busy(q)} IN
    /\ ~Busy(p)
    /\ canary # Gone
    /\ req' = [q \in Procs |->
            IF q = p THEN [r EXCEPT !.clean = others = {}]
            ELSE [req[q] EXCEPT !.clean = FALSE]]
    /\ damaged' = \/ damaged
                  \/ others # {}
                  \/ r.op = "delete"
                  \/ r.op = "adjust" /\ ~Backed
    /\ UNCHANGED cluster

Start(p, v, w) ==
    Begin(p, NewRequest("start", "announce", v, IF w \in 1..50 THEN w ELSE 10))

\* Mutant: the weight is not checked.
UpdateWeightUnchecked(p, w) ==
    Begin(p, NewRequest("adjust", "adjust", None, w))

UpdateWeight(p, w) ==
    /\ w \in Weight
    /\ Begin(p, NewRequest("adjust", "adjust", None, w))

Promote(p) ==
    Begin(p, NewRequest("promote", "unsplit", None, 0))

\* Mutant: the traffic split is forgotten.
RollbackDeployment(p) ==
    Begin(p, NewRequest("rollback", "undeploy", None, 0))

Rollback(p) ==
    Begin(p, NewRequest("rollback", "unsplit", None, 0))

Delete(p) ==
    Begin(p, NewRequest("delete", "undeploy", None, 0))

-----------------------------------------------------------------------------
(* The calls.  With Faults any of them may fail.  Where the request stops  *)
(* then, the call may have had its effect; where it goes on, a call that   *)
(* failed after its effect is one that succeeded.                          *)

Calling(p, c) == req[p].call = c

\* PatchSpec; a failure is logged.
Announce(p) ==
    /\ Calling(p, "announce")
    /\ UNCHANGED <<workload, mesh>>
    /\ \/ /\ canary # Gone
          /\ canary' = [enabled |-> TRUE, weight |-> req[p].weight,
                        version |-> req[p].release]
          /\ GoesOn(p, TRUE)
       \/ /\ Faults \/ canary = Gone
          /\ UNCHANGED canary
          /\ GoesOn(p, FALSE)

\* createCanaryConfigMap creates the ConfigMap or updates it, whatever it holds;
\* a failure, also of creating what another request has just created, is logged.
Configure(p) ==
    /\ Calling(p, "configure")
    /\ UNCHANGED <<canary, deployed, pods, service, mesh>>
    /\ \/ /\ config' = req[p].release
          /\ GoesOn(p, TRUE)
       \/ /\ Faults \/ \E q \in Procs \ {p} : Busy(q)
          /\ UNCHANGED config
          /\ GoesOn(p, FALSE)

\* Mutant: a Deployment that is there already is good enough.
DeployIdempotent(p) ==
    /\ Calling(p, "deploy")
    /\ UNCHANGED <<canary, config, pods, service, mesh>>
    /\ \/ /\ deployed' = TRUE
          /\ GoesOn(p, TRUE)
       \/ /\ Faults
          /\ deployed' \in {deployed, TRUE}
          /\ Stops(p)

\* CreateCanaryDeployment: Create refuses a Deployment that is there already.
Deploy(p) ==
    /\ Calling(p, "deploy")
    /\ UNCHANGED <<canary, config, pods, service, mesh>>
    /\ \/ /\ ~deployed
          /\ deployed' = TRUE
          /\ GoesOn(p, TRUE)
       \/ /\ Faults \/ deployed
          /\ deployed' \in {deployed, TRUE}
          /\ Stops(p)

\* CreateService; a failure is logged ("may already exist").
Serve(p) ==
    /\ Calling(p, "serve")
    /\ UNCHANGED <<canary, config, deployed, pods, mesh>>
    /\ \/ /\ service' = TRUE
          /\ GoesOn(p, TRUE)
       \/ /\ Faults
          /\ UNCHANGED service
          /\ GoesOn(p, FALSE)

\* UpdateWeight: a merge patch, which leaves the rest of the section as it is.
Adjust(p) ==
    LET new == IF canary \in {None, Gone}
               THEN [enabled |-> FALSE, weight |-> req[p].weight, version |-> None]
               ELSE [canary EXCEPT !.weight = req[p].weight] IN
    /\ Calling(p, "adjust")
    /\ UNCHANGED <<workload, mesh>>
    /\ \/ /\ canary # Gone
          /\ canary' = new
          /\ GoesOn(p, TRUE)
       \/ /\ Faults \/ canary = Gone
          /\ canary' = canary \/ (canary # Gone /\ canary' = new)
          /\ Stops(p)

\* The GETs of ApplyTrafficSplit; an error counts as "absent".
Read(p, c, exists) ==
    LET after == After(req[p].op, c) IN
    /\ Calling(p, c)
    /\ \E seen \in {IF exists THEN "present" ELSE "absent"}
                    \cup (IF Faults THEN {"absent"} ELSE {}) :
        req' = [req EXCEPT ![p] = [@ EXCEPT !.call = after, !.seen = seen]]
    /\ UNCHANGED <<cluster, damaged>>

\* Create what was absent, Update what was present under its resourceVersion.
Fits(p, exists) ==
    \/ req[p].seen = "present"
    \/ req[p].seen = "absent" /\ ~exists

WriteSubsets(p) ==
    /\ Calling(p, "writeSubsets")
    /\ UNCHANGED <<canary, workload, split>>
    /\ \/ /\ Fits(p, subsets)
          /\ subsets' = TRUE
          /\ GoesOn(p, TRUE)
       \/ /\ Faults \/ ~Fits(p, subsets)
          /\ subsets' = subsets \/ (Fits(p, subsets) /\ subsets' = TRUE)
          /\ Stops(p)

\* Mutant: the VirtualService is created, never updated.
WriteSplitOnce(p) ==
    /\ Calling(p, "writeSplit")
    /\ UNCHANGED <<canary, workload, subsets>>
    /\ \/ /\ Fits(p, split # None)
          /\ split' = IF split = None THEN req[p].weight ELSE split
          /\ GoesOn(p, TRUE)
       \/ /\ Faults \/ ~Fits(p, split # None)
          /\ UNCHANGED split
          /\ Stops(p)

WriteSplit(p) ==
    /\ Calling(p, "writeSplit")
    /\ UNCHANGED <<canary, workload, subsets>>
    /\ \/ /\ Fits(p, split # None)
          /\ split' = req[p].weight
          /\ GoesOn(p, TRUE)
       \/ /\ Faults \/ ~Fits(p, split # None)
          /\ split' = split \/ (Fits(p, split # None) /\ split' = req[p].weight)
          /\ Stops(p)

\* The deletions.  Their failures are logged, and "not found" is no obstacle.
Unsplit(p) ==
    /\ Calling(p, "unsplit")
    /\ UNCHANGED <<canary, workload, subsets>>
    /\ \/ split' = None /\ GoesOn(p, TRUE)
       \/ Faults /\ UNCHANGED split /\ GoesOn(p, FALSE)

Unsubset(p) ==
    /\ Calling(p, "unsubset")
    /\ UNCHANGED <<canary, workload, split>>
    /\ \/ subsets' = FALSE /\ GoesOn(p, TRUE)
       \/ Faults /\ UNCHANGED subsets /\ GoesOn(p, FALSE)

\* Mutant: without a Deployment there is nothing to clean up.
UndeployOnly(p) ==
    /\ Calling(p, "undeploy")
    /\ UNCHANGED <<canary, config, service, mesh>>
    /\ \/ deployed' = FALSE /\ pods' = None
          /\ IF deployed \/ req[p].op = "delete" THEN GoesOn(p, TRUE)
             ELSE Answer(p, "unannounce", TRUE)
       \/ Faults /\ UNCHANGED <<deployed, pods>> /\ GoesOn(p, FALSE)

\* The cluster removes the pods with their Deployment.
Undeploy(p) ==
    /\ Calling(p, "undeploy")
    /\ UNCHANGED <<canary, config, service, mesh>>
    /\ \/ deployed' = FALSE /\ pods' = None /\ GoesOn(p, TRUE)
       \/ Faults /\ UNCHANGED <<deployed, pods>> /\ GoesOn(p, FALSE)

Unconfigure(p) ==
    /\ Calling(p, "unconfigure")
    /\ UNCHANGED <<canary, deployed, pods, service, mesh>>
    /\ \/ config' = None /\ GoesOn(p, TRUE)
       \/ Faults /\ UNCHANGED config /\ GoesOn(p, FALSE)

Unserve(p) ==
    /\ Calling(p, "unserve")
    /\ UNCHANGED <<canary, config, deployed, pods, mesh>>
    /\ \/ service' = FALSE /\ GoesOn(p, TRUE)
       \/ Faults /\ UNCHANGED service /\ GoesOn(p, FALSE)

\* The last call of Promote and Rollback.
Unannounce(p) ==
    /\ Calling(p, "unannounce")
    /\ UNCHANGED <<workload, mesh>>
    /\ \/ canary # Gone /\ canary' = None /\ GoesOn(p, TRUE)
       \/ /\ Faults \/ canary = Gone
          /\ UNCHANGED canary
          /\ GoesOn(p, FALSE)

\* The last call of Delete: the CRD itself.
Unregister(p) ==
    /\ Calling(p, "unregister")
    /\ UNCHANGED <<workload, mesh>>
    /\ \/ canary # Gone /\ canary' = Gone /\ GoesOn(p, TRUE)
       \/ /\ Faults \/ canary = Gone
          /\ canary' \in {canary, Gone}
          /\ Stops(p)

-----------------------------------------------------------------------------
(* The environment. *)

\* Pods start, or start again, with the configuration there is.
StartPods ==
    /\ deployed
    /\ config # None
    /\ pods' = config
    /\ UNCHANGED <<canary, config, deployed, service, mesh,
                   req, damaged>>

\* An agent of that name is registered again.
Register ==
    /\ canary = Gone
    /\ canary' = None
    /\ UNCHANGED <<workload, mesh, req, damaged>>

\* The server stops and starts again; nothing resumes the requests.
Crash ==
    /\ Crashes
    /\ req' = [p \in Procs |-> NoRequest]
    /\ UNCHANGED <<cluster, damaged>>

-----------------------------------------------------------------------------
Init ==
    /\ canary = None
    /\ config = None /\ deployed = FALSE /\ pods = None /\ service = FALSE
    /\ subsets = FALSE /\ split = None
    /\ req = [p \in Procs |-> NoRequest]
    /\ damaged = FALSE

Accept(p) ==
    \/ \E v \in Releases, w \in Requested : Start(p, v, w)
    \/ \E w \in Requested : UpdateWeight(p, w)
    \/ Promote(p)
    \/ Rollback(p)
    \/ Delete(p)

Apply(p) ==
    \/ Announce(p)
    \/ Configure(p)
    \/ Deploy(p)
    \/ Serve(p)
    \/ Adjust(p)
    \/ Read(p, "readSubsets", subsets)
    \/ WriteSubsets(p)
    \/ Read(p, "readSplit", split # None)
    \/ WriteSplit(p)

CleanUp(p) ==
    \/ Unsplit(p)
    \/ Unsubset(p)
    \/ Undeploy(p)
    \/ Unconfigure(p)
    \/ Unserve(p)
    \/ Unannounce(p)
    \/ Unregister(p)

Next ==
    \/ \E p \in Procs : Accept(p) \/ Apply(p) \/ CleanUp(p)
    \/ StartPods
    \/ Register
    \/ Crash

Spec == Init /\ [][Next]_vars

-----------------------------------------------------------------------------
(* Properties. *)

\* In particular a weight that the CRD or the mesh holds is from 1 to 99.
TypeOK ==
    /\ canary \in Announced \cup {None, Gone}
    /\ config \in Releases \cup {None}
    /\ deployed \in BOOLEAN
    /\ pods \in Releases \cup {None}
    /\ service \in BOOLEAN
    /\ subsets \in BOOLEAN
    /\ split \in Weight \cup {None}
    /\ req \in [Procs -> Request]
    /\ damaged \in BOOLEAN

\* The mesh sends traffic to a canary only while everything that receives it is
\* there, wherever the server was stopped: Start creates the VirtualService last
\* and Promote and Rollback delete it first.  The exceptions are those that
\* "damaged" names.
MeshIsBacked == ~damaged /\ split # None => subsets /\ Backed

\* The request of p ends in this step, after having its way without disturbance.
Succeeds(p, op) == Busy(p) /\ req[p].op = op /\ ~Busy(p)' /\ req'[p].clean

\* After an undisturbed Promote, Rollback or Delete nothing is left of the
\* canary, whatever crashes, failures and other requests had left before: each of
\* their calls is made although others find nothing to delete.
CleanupIsComplete ==
    [][\A p \in Procs : \A op \in {"promote", "rollback", "delete"} :
            Succeeds(p, op) => CleanedUp']_vars

\* After an undisturbed Start the mesh and the CRD divide traffic as it was
\* asked for, and the canary runs the release that is announced: never that of an
\* earlier canary which was not cleaned up.
StartTakesEffect ==
    [][\A p \in Procs : Succeeds(p, "start") =>
            /\ canary' = [enabled |-> TRUE, weight |-> req[p].weight,
                          version |-> req[p].release]
            /\ split' = req[p].weight
            /\ config' = req[p].release
            /\ pods' \in {None, req[p].release}
            /\ (subsets /\ Backed)']_vars

\* After an undisturbed UpdateWeight the mesh and the CRD agree on the weight.
WeightTakesEffect ==
    [][\A p \in Procs : Succeeds(p, "adjust") =>
            canary'.weight = req[p].weight /\ split' = req[p].weight]_vars
=============================================================================
