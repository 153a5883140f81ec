----------------------------- MODULE AgentPage -----------------------------
(***************************************************************************)
(* The page of one agent, agents/[id]: loading it, its tabs, the commands  *)
(* of the deployment tab, the configuration form and the deletion.  The    *)
(* releases and evaluation tabs are in AgentRollout and Evaluations.         *)
(*                                                                         *)
(*   ag       the page's state: the agent as last fetched (seen), the      *)
(*            form, and the flags that disable buttons                     *)
(*   agReqs   requests and timers in flight: issued by click number id,    *)
(*            kind k, argument n, answer st with its payload got           *)
(*   remote   external: the agent at the API server and in the cluster     *)
(***************************************************************************)
EXTENDS Shell

CONSTANTS
    MaxReplicas    \* bound: sizes the operator scales to (10 in the code)

ASSUME AgentAssumption == MaxReplicas \in Nat \ {0}

VARIABLES ag, agReqs, remote

agVars == <<ag, agReqs, remote>>

\* Stopped stands for Created and registered, too; Pending and Failed, in
\* which no command is offered, are left out.
Phases == {"Running", "Stopped"}
Sizes == 1..MaxReplicas
Versions == 1..2
AgentState == [phase : Phases, replicas : Sizes, version : Versions]
MaxRetries == 10
AgentTabs == {"overview", "deployment", "releases", "config", "eval"}

AgentActions == {"deploy", "stop", "restart"}
LockKinds == AgentActions \cup {"scale"}

\* lock is actionLoading; form the replicas of the form, the field two
\* handlers share, and scale the input of the Scale button (0: closed).
AgPage == [load : {"loading", "ready", "gone"}, tries : 0..MaxRetries,
           tab : AgentTabs,
           seen : AgentState, form : Sizes, scale : 0..MaxReplicas,
           lock : LockKinds \cup {"no"}, saving : BOOLEAN]

AgReq == [id : Ids, k : LockKinds \cup {"load", "refetch", "save", "delete"},
          n : 0..MaxReplicas, st : {"asked", "ok", "failed"}, got : AgentState]

AgentTypeOK == ag \in AgPage /\ agReqs \subseteq AgReq /\ remote \in AgentState

BlankAgent == [phase |-> "Stopped", replicas |-> 1, version |-> 1]

AgentClosed == [load |-> "loading", tries |-> 0, tab |-> "overview", seen |-> BlankAgent,
                form |-> 1, scale |-> 0, lock |-> "no", saving |-> FALSE]

AgReqNew(i, k, n) == [id |-> i, k |-> k, n |-> n, st |-> "asked", got |-> BlankAgent]

AgAsk(k, n) == agReqs' = agReqs \cup {AgReqNew(ops', k, n)}
AgUsed(r)   == agReqs' = agReqs \ {r}

\* A button of the loaded page.
OnAgent == On("agent") /\ Click /\ ag.load = "ready"

\* An answer that the page's code now handles.
AgHandles(r, kinds) == page = "agent" /\ r.k \in kinds /\ r.st # "asked" /\ Unattended

(***************************************************************************)
(* Loading: up to ten attempts, three seconds apart; the form is filled    *)
(* with the first agent fetched and never again.                           *)
(***************************************************************************)
AgentLoaded(r) ==
    /\ AgHandles(r, {"load"}) /\ r.st = "ok"
    /\ ag' = [ag EXCEPT !.load = "ready", !.tries = 0, !.seen = r.got,
                        !.form = r.got.replicas]
    /\ AgUsed(r)
    /\ UNCHANGED remote

AgentLoadFails(r) ==
    /\ AgHandles(r, {"load"}) /\ r.st = "failed"
    /\ ag' = [ag EXCEPT !.tries = @ + 1,
                        !.load = IF ag.tries + 1 < MaxRetries THEN @ ELSE "gone"]
    /\ agReqs' = (agReqs \ {r}) \cup
                 (IF ag.tries + 1 < MaxRetries THEN {AgReqNew(r.id, "load", 0)} ELSE {})
    /\ UNCHANGED remote

\* What the tabs fetch is in AgentRollout and Evaluations.
AgentTab(t) ==
    /\ OnAgent /\ t # ag.tab
    /\ ag' = [ag EXCEPT !.tab = t]
    /\ UNCHANGED <<agReqs, remote>>

(***************************************************************************)
(* Deploy, stop, restart: the answer is merged into the agent shown, which *)
(* is fetched again three seconds later, once the operator has reacted.    *)
(***************************************************************************)
Offered(a) == ag.seen.phase = (IF a = "deploy" THEN "Stopped" ELSE "Running")

HandleAgentAction(a) ==
    /\ OnAgent /\ ag.tab = "deployment"
    /\ Offered(a) /\ ag.lock = "no"
    /\ ag' = [ag EXCEPT !.lock = a]
    /\ AgAsk(a, 0)
    /\ UNCHANGED remote

\* Mutant: a failed command leaves the buttons disabled.
AgentActionSucceeds(r) ==
    /\ AgHandles(r, AgentActions)
    /\ ag' = IF r.st = "ok" THEN [ag EXCEPT !.lock = "no", !.seen = r.got] ELSE ag
    /\ AgUsed(r)
    /\ UNCHANGED remote

AgentActionReturns(r) ==
    /\ AgHandles(r, AgentActions)
    /\ ag' = [ag EXCEPT !.lock = "no", !.seen = IF r.st = "ok" THEN r.got ELSE @]
    /\ agReqs' = (agReqs \ {r}) \cup
                 (IF r.st = "ok" THEN {AgReqNew(r.id, "refetch", 0)} ELSE {})
    /\ UNCHANGED remote

AgentRefetched(r) ==
    /\ AgHandles(r, {"refetch"})
    /\ ag' = [ag EXCEPT !.seen = IF r.st = "ok" THEN r.got ELSE @]
    /\ AgUsed(r)
    /\ UNCHANGED remote

\* Scale opens an input beside the other buttons (ScaleOpen); its Apply is
\* only disabled by another scaling, not by an action under way.
ScaleOpen ==
    /\ OnAgent /\ ag.tab = "deployment"
    /\ ag.scale = 0 /\ ag.lock = "no"
    /\ \E n \in Sizes : ag' = [ag EXCEPT !.scale = n]
    /\ UNCHANGED <<agReqs, remote>>

ScaleCancel ==
    /\ OnAgent /\ ag.tab = "deployment" /\ ag.scale # 0
    /\ ag' = [ag EXCEPT !.scale = 0]
    /\ UNCHANGED <<agReqs, remote>>

HandleScale ==
    /\ OnAgent /\ ag.tab = "deployment"
    /\ ag.scale # 0 /\ ag.lock # "scale"
    /\ ag' = [ag EXCEPT !.lock = "scale"]
    /\ AgAsk("scale", ag.scale)
    /\ UNCHANGED remote

\* Mutant: the new size is put into the form.
ScaleFillsForm(r) ==
    /\ AgHandles(r, {"scale"})
    /\ ag' = [ag EXCEPT !.lock = "no", !.form = IF r.st = "ok" THEN r.n ELSE @]
    /\ AgUsed(r)
    /\ UNCHANGED remote

ScaleReturns(r) ==
    /\ AgHandles(r, {"scale"})
    /\ ag' = [ag EXCEPT !.lock = "no",
                        !.seen.replicas = IF r.st = "ok" THEN r.n ELSE @,
                        !.scale = IF r.st = "ok" THEN 0 ELSE @]
    /\ AgUsed(r)
    /\ UNCHANGED remote

(***************************************************************************)
(* The configuration form is saved whole, replicas included.               *)
(***************************************************************************)
ConfigEdit ==
    /\ OnAgent /\ ag.tab = "config"
    /\ \E n \in Sizes \ {ag.form} : ag' = [ag EXCEPT !.form = n]
    /\ UNCHANGED <<agReqs, remote>>

HandleConfigSave ==
    /\ OnAgent /\ ag.tab = "config" /\ ~ag.saving
    /\ ag' = [ag EXCEPT !.saving = TRUE]
    /\ AgAsk("save", ag.form)
    /\ UNCHANGED remote

ConfigSaveReturns(r) ==
    /\ AgHandles(r, {"save"})
    /\ ag' = [ag EXCEPT !.saving = FALSE]
    /\ AgUsed(r)
    /\ UNCHANGED remote

\* Confirmed in a dialog; the answer sends the browser to the list, from
\* whichever page it is on by then.
DeleteAgent ==
    /\ OnAgent
    /\ AgAsk("delete", 0)
    /\ UNCHANGED <<ag, remote>>

AgentDeleteFails(r) ==
    /\ r.k = "delete" /\ r.st = "failed" /\ Unattended
    /\ AgUsed(r)
    /\ UNCHANGED <<ag, remote>>

AgentDeleted(r) == r.k = "delete" /\ r.st = "ok"

(***************************************************************************)
(* External: the API server answers, and the operator of the cluster       *)
(* reconciles the phase in its own time.                                   *)
(***************************************************************************)
Reacted(r) ==
    CASE r.k = "deploy" -> [remote EXCEPT !.phase = "Running"]
      [] r.k = "stop" -> [remote EXCEPT !.phase = "Stopped"]
      [] r.k \in {"scale", "save"} -> [remote EXCEPT !.replicas = r.n]
      [] OTHER -> remote

AgServed(r) ==
    /\ r.st = "asked" /\ Unattended
    /\ \/ /\ remote' = Reacted(r)
          /\ \E p \in {remote.phase, Reacted(r).phase} :
                agReqs' = (agReqs \ {r}) \cup
                   {[r EXCEPT !.st = "ok", !.got = IF r.k \in {"scale", "save", "delete"} THEN @
                                                   ELSE [Reacted(r) EXCEPT !.phase = p]]}
       \/ /\ agReqs' = (agReqs \ {r}) \cup {[r EXCEPT !.st = "failed"]}
          /\ UNCHANGED remote
    /\ UNCHANGED ag

AgentStep ==
    \/ \E a \in AgentActions : HandleAgentAction(a)
    \/ ScaleOpen \/ ScaleCancel \/ HandleScale \/ ConfigEdit \/ HandleConfigSave
    \/ \E r \in agReqs :
          \/ AgServed(r) \/ AgentLoaded(r) \/ AgentLoadFails(r) \/ AgentActionReturns(r)
          \/ AgentRefetched(r) \/ ScaleReturns(r) \/ ConfigSaveReturns(r) \/ AgentDeleteFails(r)

Remotes(p) ==
    IF p = "agent" THEN {[BlankAgent EXCEPT !.phase = f] : f \in Phases} ELSE {BlankAgent}

\* A mount finds the agent in any phase and fetches it; after an unmount only
\* a deletion still matters, and a document load forgets that too.
AgentInit ==
    /\ remote \in Remotes(page)
    /\ ag = AgentClosed
    /\ agReqs = IF page = "agent" THEN {AgReqNew(0, "load", 0)} ELSE {}

\* done: the deletion whose answer caused the navigation.
AgentKept(done) == IF Reloading THEN {} ELSE {r \in agReqs \ done : r.k = "delete"}

AgentSwitch(done) ==
    IF Leaving("agent") \/ Entering("agent") \/ Reloading
    THEN /\ ag' = AgentClosed
         /\ agReqs' = AgentKept(done) \cup
               (IF page' = "agent" THEN {AgReqNew(ops', "load", 0)} ELSE {})
         /\ remote' \in Remotes(page')
    ELSE agReqs' = agReqs \ done /\ UNCHANGED <<ag, remote>>

(***************************************************************************)
(* Properties                                                              *)
(***************************************************************************)
\* Every flag that disables buttons is held by a request whose answer clears
\* it, although one flag serves four commands that can overlap.
AgentLockHasRequest ==
    /\ ag.lock # "no" => \E r \in agReqs : r.k \in LockKinds
    /\ ag.saving => \E r \in agReqs : r.k = "save"
    /\ ag.load = "loading" /\ page = "agent" => \E r \in agReqs : r.k = "load"

\* The configuration form belongs to the operator: no refetch and no answer to
\* a command overwrites an edit; only an edit, the first fetch of the mounted
\* page, or its unmounting changes it.
EditsSurviveRefresh ==
    [][ag'.form # ag.form =>
          \/ ag.load = "loading" \/ ag'.load = "loading"
          \/ ops' # ops /\ ag.tab = "config"]_<<shellVars, agVars>>
=============================================================================
