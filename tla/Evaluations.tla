----------------------------- MODULE Evaluations -----------------------------
(***************************************************************************)
(* The evaluation tab of an agent's page, and the page /evaluations, which *)
(* shows the runs of the agent picked in a list.                           *)
(*                                                                         *)
(*   ev, evReqs    the tab: runs and sets count the runs and data sets     *)
(*                 shown, sel is the chosen data set, a and b the runs     *)
(*                 ticked for comparison, dialogs what covers the tab      *)
(*   evp, evpReqs  the page: agent the one picked, runsOf the one whose    *)
(*                 runs are listed (0: none); crossed records that another *)
(*                 agent was picked over a request                         *)
(*   results       external: runs and data sets at the server              *)
(***************************************************************************)
EXTENDS AgentRollout

CONSTANTS MaxRuns   \* bound: runs and data sets the server holds

ASSUME EvaluationsAssumption == MaxRuns \in Nat \ {0}

VARIABLES ev, evReqs, evp, evpReqs, results

evVars == <<ev, evReqs, results>>
evpVars == <<evp, evpReqs>>

Counts == 0..MaxRuns
Results == [runs : Counts, sets : Counts]

EvTab == [runs : Counts, sets : Counts, sel : Counts, a : Counts, b : Counts,
          loading : BOOLEAN, uploading : BOOLEAN, triggering : BOOLEAN, comparing : BOOLEAN,
          dialogs : SUBSET {"upload", "comparison"}]

\* blank: no data set was selected when the request was made.
EvReq == [id : Ids, blank : BOOLEAN, st : {"asked", "ok", "failed"}, got : Results,
          k : {"runs", "sets", "upload", "newSets", "trigger", "newRuns", "compare"}]

EvPage == [agent : 0..2, runsOf : 0..2, loading : BOOLEAN, triggering : BOOLEAN,
           a : Counts, b : Counts, crossed : BOOLEAN]
EvpReq == [id : Ids, k : {"load", "trigger", "reload"}, agent : 1..2,
           st : {"asked", "ok", "failed"}]

EvaluationsTypeOK ==
    /\ ev \in EvTab /\ evReqs \subseteq EvReq /\ results \in Results
    /\ evp \in EvPage /\ evpReqs \subseteq EvpReq

NoResults == [runs |-> 0, sets |-> 0]

EvClosed == [runs |-> 0, sets |-> 0, sel |-> 0, a |-> 0, b |-> 0, loading |-> FALSE,
             uploading |-> FALSE, triggering |-> FALSE, comparing |-> FALSE, dialogs |-> {}]

EvReqNew(k) == [id |-> ops', k |-> k, blank |-> ev.sel = 0, st |-> "asked", got |-> NoResults]
EvAsk(k)     == evReqs' = evReqs \cup {EvReqNew(k)}
EvUsed(r)    == evReqs' = evReqs \ {r}
EvAsks(r, k) == evReqs' = (evReqs \ {r}) \cup {[r EXCEPT !.k = k, !.st = "asked"]}

EvHandles(r, kinds) == page = "agent" /\ r.k \in kinds /\ r.st # "asked" /\ Unattended
OnEval == OnAgent /\ ag.tab = "eval"
OnEvalList == OnEval /\ ev.dialogs = {} /\ ~ev.loading

\* The first data set is selected for an operator who had none selected when
\* the request was made.
Selected(sets, r) == IF sets > 0 /\ r.blank THEN 1 ELSE ev.sel

(***************************************************************************)
(* Entering a tab, and the answers.  The deployment tab fetches the runs   *)
(* as well, for the scores beside its canary; that fetch is left out.      *)
(***************************************************************************)
EvalTab(t) ==
    /\ evReqs' = evReqs \cup (IF t = "eval" THEN {EvReqNew("runs"), EvReqNew("sets")} ELSE {})
    /\ ev' = [ev EXCEPT !.loading = @ \/ t = "eval"]
    /\ UNCHANGED results

RunsArrive(r) ==
    /\ EvHandles(r, {"runs"})
    /\ ev' = [ev EXCEPT !.runs = IF r.st = "ok" THEN r.got.runs ELSE 0]
    /\ EvUsed(r) /\ UNCHANGED results

DatasetsArrive(r) ==
    /\ EvHandles(r, {"sets"})
    /\ ev' = [ev EXCEPT !.loading = FALSE,
                        !.sets = IF r.st = "ok" THEN r.got.sets ELSE 0,
                        !.sel = IF r.st = "ok" THEN Selected(r.got.sets, r) ELSE @]
    /\ EvUsed(r) /\ UNCHANGED results

SelectDataset(n) ==
    /\ OnEvalList /\ n \in 1..ev.sets /\ n # ev.sel
    /\ ev' = [ev EXCEPT !.sel = n]
    /\ UNCHANGED <<evReqs, results>>

\* The upload dialog can be closed, and opened again, during an upload.
UploadDialog ==
    /\ OnEval /\ "comparison" \notin ev.dialogs
    /\ ev' = [ev EXCEPT !.dialogs = IF @ = {} THEN {"upload"} ELSE {}]
    /\ UNCHANGED <<evReqs, results>>

UploadDataset ==
    /\ OnEval /\ ev.dialogs = {"upload"} /\ ~ev.uploading
    /\ ev' = [ev EXCEPT !.uploading = TRUE]
    /\ EvAsk("upload") /\ UNCHANGED results

\* The list is fetched again before the flag is cleared.
UploadReturns(r) ==
    /\ EvHandles(r, {"upload", "newSets"})
    /\ CASE r.st = "failed" ->
              EvUsed(r) /\ ev' = [ev EXCEPT !.uploading = FALSE]
         [] r.st = "ok" /\ r.k = "upload" ->
              EvAsks(r, "newSets") /\ ev' = [ev EXCEPT !.dialogs = @ \ {"upload"}]
         [] OTHER ->
              /\ EvUsed(r)
              /\ ev' = [ev EXCEPT !.uploading = FALSE, !.sets = r.got.sets,
                                  !.sel = Selected(r.got.sets, r)]
    /\ UNCHANGED results

\* Mutant: an evaluation can be triggered while another one is.
TriggerEvalAgain ==
    /\ OnEval /\ ev.dialogs = {} /\ ev.sel # 0
    /\ ev' = [ev EXCEPT !.triggering = TRUE]
    /\ EvAsk("trigger") /\ UNCHANGED results

TriggerEval ==
    /\ OnEval /\ ev.dialogs = {} /\ ~ev.triggering /\ ev.sel # 0
    /\ ev' = [ev EXCEPT !.triggering = TRUE]
    /\ EvAsk("trigger") /\ UNCHANGED results

TriggerReturns(r) ==
    /\ EvHandles(r, {"trigger", "newRuns"})
    /\ IF r.st = "ok" /\ r.k = "trigger"
       THEN EvAsks(r, "newRuns") /\ UNCHANGED ev
       ELSE /\ EvUsed(r)
            /\ ev' = [ev EXCEPT !.triggering = FALSE,
                                !.runs = IF r.st = "ok" THEN r.got.runs ELSE @]
    /\ UNCHANGED results

\* Mutant: a ticked run can be ticked again.
TickRunAgain(n) ==
    /\ OnEvalList /\ n \in 1..ev.runs
    /\ ev' = IF ev.a = 0 THEN [ev EXCEPT !.a = n] ELSE [ev EXCEPT !.b = n]
    /\ UNCHANGED <<evReqs, results>>

\* The tick box of a run: the first of two ticked runs gives way to the second.
TickRun(n) ==
    /\ OnEvalList /\ n \in 1..ev.runs
    /\ ev' = CASE ev.a = n -> [ev EXCEPT !.a = ev.b, !.b = 0]
               [] ev.b = n -> [ev EXCEPT !.b = 0]
               [] ev.a = 0 -> [ev EXCEPT !.a = n]
               [] OTHER    -> [ev EXCEPT !.b = IF @ = 0 THEN n ELSE @]
    /\ UNCHANGED <<evReqs, results>>

CompareRuns ==
    /\ OnEval /\ ev.dialogs = {} /\ ev.a # 0 /\ ev.b # 0 /\ ~ev.comparing
    /\ ev' = [ev EXCEPT !.comparing = TRUE]
    /\ EvAsk("compare") /\ UNCHANGED results

CompareReturns(r) ==
    /\ EvHandles(r, {"compare"})
    /\ ev' = [ev EXCEPT !.comparing = FALSE,
                        !.dialogs = IF r.st = "ok" THEN @ \cup {"comparison"} ELSE @]
    /\ EvUsed(r) /\ UNCHANGED results

\* Close forgets the two runs; a click beside the dialog does not.
ComparisonCloses ==
    /\ OnEval /\ "comparison" \in ev.dialogs
    /\ ev' \in {[ev EXCEPT !.dialogs = @ \ {"comparison"}],
                [ev EXCEPT !.dialogs = @ \ {"comparison"}, !.a = 0, !.b = 0]}
    /\ UNCHANGED <<evReqs, results>>

ClearComparison ==
    /\ OnEval /\ ev.dialogs = {} /\ ev.a # 0
    /\ ev' = [ev EXCEPT !.a = 0, !.b = 0]
    /\ UNCHANGED <<evReqs, results>>

(***************************************************************************)
(* The page /evaluations.                                                  *)
(***************************************************************************)
EvpClosed == [agent |-> 0, runsOf |-> 0, loading |-> FALSE, triggering |-> FALSE,
              a |-> 0, b |-> 0, crossed |-> FALSE]
OnEvaluations == On("evaluations") /\ Click
EvpHandles(r, kinds) == r.k \in kinds /\ r.st # "asked" /\ Unattended

EvpAsk(k, a) == evpReqs' = evpReqs \cup {[id |-> ops', k |-> k, agent |-> a, st |-> "asked"]}

\* Mutant: the runs are fetched for the first agent picked only.
PickAgentOnce(a) ==
    /\ OnEvaluations /\ a # evp.agent
    /\ evp' = [evp EXCEPT !.agent = a, !.a = 0, !.b = 0,
                          !.crossed = @ \/ evpReqs # {} \/ a = 0]
    /\ IF a = 0 \/ evp.runsOf # 0 THEN UNCHANGED evpReqs ELSE EvpAsk("load", a)

\* Picking no agent leaves the list and its request alone.
PickAgent(a) ==
    /\ OnEvaluations /\ a # evp.agent
    /\ evp' = [evp EXCEPT !.agent = a, !.a = 0, !.b = 0, !.loading = @ \/ a # 0,
                          !.crossed = @ \/ evpReqs # {} \/ a = 0]
    /\ IF a = 0 THEN UNCHANGED evpReqs ELSE EvpAsk("load", a)

\* loadRuns puts what it fetched on screen, whoever is picked by then.
LoadRuns(r) ==
    /\ EvpHandles(r, {"load", "reload"})
    /\ evp' = [evp EXCEPT !.runsOf = IF r.st = "ok" THEN r.agent ELSE 0, !.loading = FALSE,
                          !.triggering = @ /\ r.k # "reload"]
    /\ evpReqs' = evpReqs \ {r}

HandleTrigger ==
    /\ OnEvaluations /\ evp.agent # 0 /\ ~evp.triggering
    /\ evp' = [evp EXCEPT !.triggering = TRUE]
    /\ EvpAsk("trigger", evp.agent)

\* loadRuns of the agent that was picked at the click.
HandleTriggerReturns(r) ==
    /\ EvpHandles(r, {"trigger"})
    /\ IF r.st = "ok"
       THEN /\ evpReqs' = (evpReqs \ {r}) \cup {[r EXCEPT !.k = "reload", !.st = "asked"]}
            /\ evp' = [evp EXCEPT !.loading = TRUE]
       ELSE /\ evpReqs' = evpReqs \ {r}
            /\ evp' = [evp EXCEPT !.triggering = FALSE]

\* Two runs at most; a third starts over.
ToggleCompare(n) ==
    /\ OnEvaluations /\ evp.agent # 0 /\ evp.runsOf # 0 /\ ~evp.loading /\ n \in 1..MaxRuns
    /\ evp' = CASE evp.a = n -> [evp EXCEPT !.a = 0]
                [] evp.b = n -> [evp EXCEPT !.b = 0]
                [] evp.a # n /\ evp.b # n /\ evp.a = 0 -> [evp EXCEPT !.a = n]
                [] evp.a # n /\ evp.b # n /\ evp.a # 0 /\ evp.b = 0 -> [evp EXCEPT !.b = n]
                [] OTHER -> [evp EXCEPT !.a = n, !.b = 0]
    /\ UNCHANGED evpReqs

(***************************************************************************)
(* External: the API server.                                               *)
(***************************************************************************)
Grown(n) == IF n < MaxRuns THEN n + 1 ELSE n

EvServed(r) ==
    /\ r.st = "asked" /\ Unattended
    /\ \/ /\ results' = CASE r.k = "upload" -> [results EXCEPT !.sets = Grown(@)]
                          [] r.k = "trigger" -> [results EXCEPT !.runs = Grown(@)]
                          [] OTHER -> results
          /\ evReqs' = (evReqs \ {r}) \cup
                {[r EXCEPT !.st = "ok",
                           !.got.runs = IF r.k \in {"runs", "newRuns"} THEN results'.runs ELSE @,
                           !.got.sets = IF r.k \in {"sets", "newSets"} THEN results'.sets ELSE @]}
       \/ /\ evReqs' = (evReqs \ {r}) \cup {[r EXCEPT !.st = "failed"]}
          /\ UNCHANGED results
    /\ UNCHANGED ev

EvpServed(r) ==
    /\ r.st = "asked" /\ Unattended
    /\ \E a \in {"ok", "failed"} : evpReqs' = (evpReqs \ {r}) \cup {[r EXCEPT !.st = a]}
    /\ UNCHANGED evp

EvalStep ==
    /\ page = "agent"
    /\ \/ UploadDialog \/ UploadDataset \/ TriggerEval
       \/ CompareRuns \/ ComparisonCloses \/ ClearComparison
       \/ \E n \in 1..MaxRuns : SelectDataset(n) \/ TickRun(n)
       \/ \E r \in evReqs : \/ EvServed(r) \/ RunsArrive(r) \/ DatasetsArrive(r)
                            \/ UploadReturns(r) \/ TriggerReturns(r) \/ CompareReturns(r)

EvaluationsStep ==
    /\ page = "evaluations"
    /\ \/ HandleTrigger
       \/ \E a \in 0..2 : PickAgent(a)
       \/ \E n \in 1..MaxRuns : ToggleCompare(n)
       \/ \E r \in evpReqs : EvpServed(r) \/ LoadRuns(r) \/ HandleTriggerReturns(r)

\* A mount finds runs to compare, and a data set.
ResultsAt(p) == IF p = "agent" THEN [runs : {MaxRuns}, sets : {1}] ELSE {NoResults}

EvaluationsInit ==
    /\ ev = EvClosed /\ evReqs = {} /\ results \in ResultsAt(page)
    /\ evp = EvpClosed /\ evpReqs = {}

EvalSwitch ==
    IF Leaving("agent") \/ Entering("agent") \/ Reloading
    THEN /\ ev' = EvClosed /\ evReqs' = {}
         /\ results' \in ResultsAt(page')
    ELSE UNCHANGED evVars

EvaluationsSwitch ==
    IF Leaving("evaluations") \/ Entering("evaluations") \/ Reloading
    THEN evp' = EvpClosed /\ evpReqs' = {}
    ELSE UNCHANGED evpVars

(***************************************************************************)
(* Properties                                                              *)
(***************************************************************************)
\* Uploading, triggering and comparing exclude themselves: a flag is set as
\* long as exactly one chain of requests that will clear it is under way, also
\* while the dialog that started it is closed or the tab has been left.
EvalFlagsMatchRequests ==
    LET Chain(ks) == {r \in evReqs : r.k \in ks}
        Guards(flag, ks) == Cardinality(Chain(ks)) = (IF flag THEN 1 ELSE 0)
    IN  /\ Guards(ev.uploading, {"upload", "newSets"})
        /\ Guards(ev.triggering, {"trigger", "newRuns"})
        /\ Guards(ev.comparing, {"compare"})
        /\ ev.loading => Chain({"sets"}) # {}

\* A comparison is always between two different runs: no sequence of ticks,
\* late answers and clearings makes the two the same, and on the agent's page
\* there is never a second without a first.
ComparedRunsDistinct ==
    /\ ev.b # 0 => ev.a # 0 /\ ev.a # ev.b
    /\ evp.a # 0 => evp.a # evp.b

\* At rest the page lists the runs of the agent that is picked, unless another
\* one was picked while a request was in flight.
EvaluationsOfThePicked ==
    evpReqs = {} /\ ~evp.crossed => evp.runsOf \in {0, evp.agent}
=============================================================================
