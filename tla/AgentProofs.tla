---------------------------- MODULE AgentProofs ----------------------------
(***************************************************************************)
(* The proofs about the page of one agent: AgentPage and AgentRollout as   *)
(* part of the dashboard.  AgentInv and RolloutInv are inductive; that the *)
(* form survives a refresh follows from a single clause of theirs, that a  *)
(* request which loads the page is out only while the page shows its       *)
(* spinner.  Then the evaluations, on that page and on one of their own.   *)
(***************************************************************************)
EXTENDS DashboardProofs, FiniteSetTheorems

\* What any step may do to the agent's page.
LEMMA AgentMoves ==
  ASSUME ShellTypeOK, [Next]_vars
  PROVE  \/ UNCHANGED <<page, agVars, roVars>>
         \/ Stays /\ \/ (AgentStep \/ DeleteAgent) /\ UNCHANGED roVars
                     \/ \E t \in AgentTabs : AgentTab(t) /\ RolloutTab(t)
                     \/ RolloutStep /\ UNCHANGED <<ag, agReqs>>
         \/ \E r \in agReqs : Cleared(r)
         \/ \E done \in SUBSET agReqs : Moves(done)
<1>1. CASE Stays /\ AgentPageStep
  BY <1>1 DEF AgentPageStep, Stays, agVars, roVars
<1>2. CASE Stays /\ (ProviderStep \/ ChatPageStep \/ OtherPageStep \/ HandleSubmit \/ LoginFails)
  BY <1>2 DEF ProviderStep, OfProvider, ChatPageStep, OtherPageStep, HandleSubmit, LoginFails,
     Stays, agentFamily, agVars, roVars
<1>3. CASE UNCHANGED vars \/ Rings
  BY <1>3 DEF Rings, vars, Stays, shellVars, agentFamily, agVars, roVars
<1>. QED BY <1>1, <1>2, <1>3, StepCases

LEMMA AgReqTyped ==
  ASSUME NEW i \in Ids, NEW n \in 0..MaxReplicas,
         NEW k \in LockKinds \cup {"load", "refetch", "save", "delete"}
  PROVE  AgReqNew(i, k, n) \in AgReq
  BY AgentAssumption DEF AgReqNew, AgReq, BlankAgent, AgentState, Phases, Sizes, Versions

LEMMA ClosedTyped == AgentClosed \in AgPage /\ BlankAgent \in AgentState
  BY AgentAssumption DEF AgentClosed, AgPage, BlankAgent, AgentState, Phases, Sizes, Versions,
     MaxRetries, AgentTabs, LockKinds, AgentActions

LEMMA AgReqFields ==
  ASSUME NEW r \in AgReq
  PROVE  /\ r.id \in Ids /\ r.n \in 0..MaxReplicas /\ r.got \in AgentState
         /\ r.k \in LockKinds \cup {"load", "refetch", "save", "delete"}
         /\ r.got.replicas \in Sizes
         /\ [r EXCEPT !.st = "failed"] \in AgReq
         /\ \A s \in AgentState : [r EXCEPT !.st = "ok", !.got = s] \in AgReq
<1>1. /\ r.id \in Ids /\ r.n \in 0..MaxReplicas /\ r.got \in AgentState
      /\ r.k \in LockKinds \cup {"load", "refetch", "save", "delete"}
  BY DEF AgReq
<1>2. r.got.replicas \in Sizes
  BY <1>1 DEF AgentState
<1>3. [r EXCEPT !.st = "failed"] \in AgReq
  BY DEF AgReq
<1>4. ASSUME NEW s \in AgentState PROVE [r EXCEPT !.st = "ok", !.got = s] \in AgReq
  BY DEF AgReq
<1>. QED BY <1>1, <1>2, <1>3, <1>4

\* Sizes are asked for by name, and a page that is loading has one request out.
SizesNamed == \A r \in agReqs : r.k \in {"scale", "save"} => r.n \in Sizes

LoadsAreTheFirst ==
  \A r \in agReqs : r.k = "load" =>
     /\ page = "agent" /\ ag.load = "loading" /\ ag.tries < MaxRetries
     /\ \A q \in agReqs : q.k = "load" => q = r

LEMMA AgentStepTyped ==
  ASSUME ShellTypeOK', AgentTypeOK, SizesNamed, LoadsAreTheFirst,
         AgentStep \/ DeleteAgent \/ \E t \in AgentTabs : AgentTab(t)
  PROVE  AgentTypeOK'
<1>. USE DEF AgentTypeOK
<1>1. ops' \in Ids /\ 0 \in 0..MaxReplicas
  BY AgentAssumption DEF ShellTypeOK
<1>2. ASSUME NEW t \in AgentTabs, AgentTab(t) PROVE AgentTypeOK'
  BY <1>2 DEF AgentTab, AgPage
<1>3. CASE DeleteAgent
  BY <1>1, <1>3, AgReqTyped DEF DeleteAgent, AgAsk
<1>4. ASSUME NEW a \in AgentActions, HandleAgentAction(a) PROVE AgentTypeOK'
  BY <1>1, <1>4, AgReqTyped DEF HandleAgentAction, AgAsk, AgPage, LockKinds
<1>5. CASE ScaleOpen \/ ScaleCancel \/ ConfigEdit
  BY <1>5, AgentAssumption DEF ScaleOpen, ScaleCancel, ConfigEdit, AgPage, Sizes
<1>6. CASE HandleScale
  <2>1. ag' \in AgPage /\ ag.scale \in 0..MaxReplicas
    BY <1>6 DEF HandleScale, AgPage, LockKinds
  <2>2. AgReqNew(ops', "scale", ag.scale) \in AgReq
    BY <1>1, <2>1, AgReqTyped DEF LockKinds
  <2>. QED BY <1>6, <2>1, <2>2 DEF HandleScale, AgAsk
<1>7. CASE HandleConfigSave
  <2>1. ag' \in AgPage
    BY <1>7 DEF HandleConfigSave, AgPage
  <2>3. ag.form \in 0..MaxReplicas
    <3>1. ag.form \in Sizes
      BY DEF AgPage
    <3>. QED BY <3>1, AgentAssumption DEF Sizes
  <2>2. AgReqNew(ops', "save", ag.form) \in AgReq
    BY <1>1, <2>3, AgReqTyped
  <2>. QED BY <1>7, <2>1, <2>2 DEF HandleConfigSave, AgAsk
<1>8. ASSUME NEW r \in agReqs, AgServed(r) PROVE AgentTypeOK'
  <2>1. r \in AgReq
    OBVIOUS
  <2>2. r.k \in {"scale", "save"} => r.n \in Sizes
    BY DEF SizesNamed
  <2>3. Reacted(r) \in AgentState
    BY <2>1, <2>2 DEF Reacted, AgentState, Phases
  <2>4. \A p \in {remote.phase, Reacted(r).phase} : [Reacted(r) EXCEPT !.phase = p] \in AgentState
    BY <2>3 DEF AgentState
  <2>. QED BY <1>8, <2>1, <2>3, <2>4, AgReqFields DEF AgServed
<1>9. ASSUME NEW r \in agReqs, AgentLoaded(r) PROVE AgentTypeOK'
  <2>1. r.got \in AgentState /\ r.got.replicas \in Sizes
    BY AgReqFields
  <2>2. ag' \in AgPage
    <3>1. 0 \in 0..MaxRetries
      BY DEF MaxRetries
    <3>. QED BY <1>9, <2>1, <3>1 DEF AgentLoaded, AgPage
  <2>. QED BY <1>9, <2>2 DEF AgentLoaded, AgUsed
<1>10. ASSUME NEW r \in agReqs, AgentLoadFails(r) PROVE AgentTypeOK'
  <2>1. AgReqNew(r.id, "load", 0) \in AgReq
    BY <1>1, AgReqFields, AgReqTyped
  <2>2. ag.tries + 1 \in 0..MaxRetries
    BY <1>10 DEF AgentLoadFails, AgHandles, LoadsAreTheFirst, AgPage, MaxRetries
  <2>3. ag' \in AgPage
    BY <1>10, <2>2 DEF AgentLoadFails, AgPage
  <2>. QED BY <1>10, <2>1, <2>3 DEF AgentLoadFails
<1>11. ASSUME NEW r \in agReqs, AgentActionReturns(r) PROVE AgentTypeOK'
  <2>1. AgReqNew(r.id, "refetch", 0) \in AgReq /\ r.got \in AgentState
    BY <1>1, AgReqFields, AgReqTyped
  <2>2. ag' \in AgPage
    BY <1>11, <2>1 DEF AgentActionReturns, AgPage
  <2>. QED BY <1>11, <2>1, <2>2 DEF AgentActionReturns
<1>12. ASSUME NEW r \in agReqs, AgentRefetched(r) PROVE AgentTypeOK'
  <2>1. r.got \in AgentState
    BY AgReqFields
  <2>2. ag' \in AgPage
    BY <1>12, <2>1 DEF AgentRefetched, AgPage
  <2>. QED BY <1>12, <2>2 DEF AgentRefetched, AgUsed
<1>13. ASSUME NEW r \in agReqs, ScaleReturns(r) PROVE AgentTypeOK'
  <2>1. r.n \in Sizes
    BY <1>13 DEF ScaleReturns, AgHandles, SizesNamed
  <2>2. [ag.seen EXCEPT !.replicas = r.n] \in AgentState
    BY <2>1 DEF AgPage, AgentState
  <2>3. ag' \in AgPage
    <3>1. 0 \in 0..MaxReplicas
      BY <1>1
    <3>2. ag.seen \in AgentState /\ ag.seen.replicas \in Sizes
      BY DEF AgPage, AgentState
    <3>3. [ag.seen EXCEPT !.replicas = ag.seen.replicas] \in AgentState
      BY <3>2 DEF AgentState
    <3>. QED BY <1>13, <2>2, <3>1, <3>3 DEF ScaleReturns, AgPage
  <2>. QED BY <1>13, <2>3 DEF ScaleReturns, AgUsed
<1>14. ASSUME NEW r \in agReqs, ConfigSaveReturns(r) PROVE AgentTypeOK'
  <2>1. ag' \in AgPage
    BY <1>14 DEF ConfigSaveReturns, AgPage
  <2>. QED BY <1>14, <2>1 DEF ConfigSaveReturns, AgUsed
<1>15. ASSUME NEW r \in agReqs, AgentDeleteFails(r) PROVE AgentTypeOK'
  BY <1>15 DEF AgentDeleteFails, AgUsed
<1>. QED BY <1>2, <1>3, <1>4, <1>5, <1>6, <1>7, <1>8, <1>9, <1>10, <1>11, <1>12, <1>13, <1>14, <1>15
         DEF AgentStep

AgentInv == AgentTypeOK /\ SizesNamed /\ LoadsAreTheFirst /\ AgentLockHasRequest

\* An answer leaves what was asked alone.
LEMMA AnswersKeep ==
  ASSUME NEW r \in AgReq, NEW g, NEW s
  PROVE  /\ [r EXCEPT !.st = s, !.got = g].k = r.k
         /\ [r EXCEPT !.st = s, !.got = g].n = r.n
         /\ [r EXCEPT !.st = s].k = r.k /\ [r EXCEPT !.st = s].n = r.n
  BY DEF AgReq

LEMMA AskedFields ==
  ASSUME NEW i, NEW k, NEW n
  PROVE  AgReqNew(i, k, n).k = k /\ AgReqNew(i, k, n).n = n
  BY DEF AgReqNew

LEMMA Asked ==
  ASSUME NEW k, NEW n, AgAsk(k, n), SizesNamed, LoadsAreTheFirst, AgentLockHasRequest,
         k # "load", k \in {"scale", "save"} => n \in Sizes, page' = page,
         ag'.load = ag.load, ag'.tries = ag.tries,
         ag'.lock = ag.lock \/ k \in LockKinds, ag'.saving = ag.saving \/ k = "save"
  PROVE  SizesNamed' /\ LoadsAreTheFirst' /\ AgentLockHasRequest'
<1>1. PICK q : q = AgReqNew(ops', k, n)
  OBVIOUS
<1>2. agReqs' = agReqs \cup {q} /\ q.k = k /\ q.n = n
  BY <1>1, AskedFields DEF AgAsk
<1>. QED BY <1>2 DEF SizesNamed, LoadsAreTheFirst, AgentLockHasRequest

\* A flag is only set with its request, and cleared by its answer; no action
\* takes the page back to loading.
LEMMA AgentFlags ==
  ASSUME AgentInv, page' = page,
         AgentStep \/ DeleteAgent \/ \E t \in AgentTabs : AgentTab(t)
  PROVE  SizesNamed' /\ LoadsAreTheFirst' /\ AgentLockHasRequest'
<1>. DEFINE Goal == SizesNamed' /\ LoadsAreTheFirst' /\ AgentLockHasRequest'
<1>0. ag \in AgPage /\ agReqs \subseteq AgReq
  BY DEF AgentInv, AgentTypeOK
<1>. USE <1>0 DEF AgentInv, SizesNamed, LoadsAreTheFirst, AgentLockHasRequest
<1>1. CASE \/ ScaleOpen \/ ScaleCancel \/ ConfigEdit \/ \E t \in AgentTabs : AgentTab(t)
  BY <1>1 DEF ScaleOpen, ScaleCancel, ConfigEdit, AgentTab, AgPage
<1>2. CASE DeleteAgent
  BY <1>2 DEF DeleteAgent, AgAsk, AgReqNew
<1>3. ASSUME NEW a \in AgentActions, HandleAgentAction(a) PROVE Goal
  <2>1. a \in LockKinds /\ a \notin {"load", "scale", "save"}
    BY DEF LockKinds, AgentActions
  <2>2. ag'.load = ag.load /\ ag'.tries = ag.tries /\ ag'.saving = ag.saving
    BY <1>3 DEF HandleAgentAction, AgPage
  <2>3. AgAsk(a, 0)
    BY <1>3 DEF HandleAgentAction
  <2>. QED BY Asked, <2>1, <2>2, <2>3
<1>4. CASE HandleScale
  <2>1. ag.scale \in Sizes
    BY <1>4, AgentAssumption DEF HandleScale, AgPage, Sizes
  <2>2. ag'.load = ag.load /\ ag'.tries = ag.tries /\ ag'.saving = ag.saving
    BY <1>4 DEF HandleScale, AgPage
  <2>3. AgAsk("scale", ag.scale)
    BY <1>4 DEF HandleScale
  <2>. QED BY Asked, <2>1, <2>2, <2>3 DEF LockKinds
<1>5. CASE HandleConfigSave
  <2>1. ag.form \in Sizes
    BY DEF AgPage
  <2>2. ag'.load = ag.load /\ ag'.tries = ag.tries /\ ag'.lock = ag.lock
    BY <1>5 DEF HandleConfigSave, AgPage
  <2>3. AgAsk("save", ag.form)
    BY <1>5 DEF HandleConfigSave
  <2>. QED BY Asked, <2>1, <2>2, <2>3
<1>6. ASSUME NEW r \in agReqs, AgServed(r) PROVE Goal
  <2>1. \E q : agReqs' = (agReqs \ {r}) \cup {q} /\ q.k = r.k /\ q.n = r.n
    <3>1. ASSUME NEW s, NEW g
          PROVE  /\ [r EXCEPT !.st = s, !.got = g].k = r.k
                 /\ [r EXCEPT !.st = s, !.got = g].n = r.n
                 /\ [r EXCEPT !.st = s].k = r.k /\ [r EXCEPT !.st = s].n = r.n
      BY AnswersKeep
    <3>2. CASE agReqs' = (agReqs \ {r}) \cup {[r EXCEPT !.st = "failed"]}
      BY <3>1, <3>2
    <3>3. CASE \E p \in {remote.phase, Reacted(r).phase} :
               agReqs' = (agReqs \ {r}) \cup
                  {[r EXCEPT !.st = "ok", !.got = IF r.k \in {"scale", "save", "delete"} THEN @
                                                  ELSE [Reacted(r) EXCEPT !.phase = p]]}
      <4>1. PICK g : agReqs' = (agReqs \ {r}) \cup {[r EXCEPT !.st = "ok", !.got = g]}
        BY <3>3
      <4>2. PICK q : q = [r EXCEPT !.st = "ok", !.got = g]
        OBVIOUS
      <4>3. agReqs' = (agReqs \ {r}) \cup {q} /\ q.k = r.k /\ q.n = r.n
        BY <3>1, <4>1, <4>2
      <4>. QED BY <4>3
    <3>. QED BY <1>6, <3>2, <3>3 DEF AgServed
  <2>2. PICK q : agReqs' = (agReqs \ {r}) \cup {q} /\ q.k = r.k /\ q.n = r.n
    BY <2>1
  <2>3. ag' = ag
    BY <1>6 DEF AgServed
  <2>. QED BY <2>2, <2>3
<1>7. ASSUME NEW r \in agReqs, AgentLoaded(r) PROVE Goal
  BY <1>7 DEF AgentLoaded, AgHandles, AgUsed, AgPage, LockKinds, AgentActions
<1>8. ASSUME NEW r \in agReqs, AgentLoadFails(r) PROVE Goal
  <2>1. r.k = "load" /\ ag'.lock = ag.lock /\ ag'.saving = ag.saving
    BY <1>8 DEF AgentLoadFails, AgHandles, AgPage
  <2>2. CASE ag.tries + 1 < MaxRetries
    <3>1. PICK q : q = AgReqNew(r.id, "load", 0)
      OBVIOUS
    <3>3. agReqs' = (agReqs \ {r}) \cup {q} /\ q.k = "load"
      BY <1>8, <2>2, <3>1, AskedFields DEF AgentLoadFails
    <3>2. ag'.load = ag.load /\ ag'.tries < MaxRetries /\ page' = "agent"
      BY <1>8, <2>2 DEF AgentLoadFails, AgHandles, AgPage
    <3>. QED BY <2>1, <3>2, <3>3 DEF LockKinds, AgentActions
  <2>3. CASE ~(ag.tries + 1 < MaxRetries)
    <3>1. agReqs' = agReqs \ {r} /\ ag'.load = "gone"
      BY <1>8, <2>3 DEF AgentLoadFails, AgPage
    <3>. QED BY <2>1, <3>1 DEF LockKinds, AgentActions
  <2>. QED BY <2>2, <2>3
<1>9. ASSUME NEW r \in agReqs, AgentActionReturns(r) PROVE Goal
  BY <1>9 DEF AgentActionReturns, AgHandles, AgReqNew, AgPage, LockKinds, AgentActions
<1>10. ASSUME NEW r \in agReqs, AgentRefetched(r) \/ AgentDeleteFails(r) PROVE Goal
  BY <1>10 DEF AgentRefetched, AgentDeleteFails, AgHandles, AgUsed, AgPage, LockKinds, AgentActions
<1>11. ASSUME NEW r \in agReqs, ScaleReturns(r) PROVE Goal
  <2>1. /\ agReqs' = agReqs \ {r} /\ r.k = "scale" /\ ag'.lock = "no"
        /\ ag'.load = ag.load /\ ag'.tries = ag.tries /\ ag'.saving = ag.saving
    BY <1>11 DEF ScaleReturns, AgHandles, AgUsed, AgPage
  <2>. QED BY <2>1
<1>12. ASSUME NEW r \in agReqs, ConfigSaveReturns(r) PROVE Goal
  BY <1>12 DEF ConfigSaveReturns, AgHandles, AgUsed, AgPage, LockKinds, AgentActions
<1>. QED BY <1>1, <1>2, <1>3, <1>4, <1>5, <1>6, <1>7, <1>8, <1>9, <1>10, <1>11, <1>12 DEF AgentStep

(***************************************************************************)
(* The deployment and releases tabs.                                       *)
(***************************************************************************)
ReleasesNamed == \A r \in roReqs : r.k = "release" => r.v \in Versions

LEMMA RoReqFields ==
  ASSUME NEW r \in RoReq
  PROVE  /\ r.id \in Ids /\ r.v \in MaybeVersion /\ r.w \in Weights \cup {0}
         /\ r.got \in CanaryState /\ r.active \in MaybeVersion
         /\ [r EXCEPT !.st = "failed"] \in RoReq
         /\ [r EXCEPT !.k = "relist", !.st = "asked"] \in RoReq
         /\ \A g \in CanaryState, a \in MaybeVersion :
               [r EXCEPT !.st = "ok", !.got = g, !.active = a] \in RoReq
  BY DEF RoReq, DeployCommands

LEMMA RoReqTyped ==
  ASSUME ShellTypeOK', NEW v \in MaybeVersion, NEW w \in Weights \cup {0},
         NEW k \in StatusKinds \cup DeployCommands \cup {"list", "detail", "diff"}
  PROVE  RoReqNew(k, v, w) \in RoReq
  BY DEF RoReqNew, RoReq, NoCanary, CanaryState, MaybeVersion, Versions, ShellTypeOK

\* The API server's canary and agent stay what they are.
LEMMA RoEffectTyped ==
  ASSUME AgentTypeOK, RolloutTypeOK, NEW r \in roReqs, ReleasesNamed,
         RoEffect(r) \/ UNCHANGED <<canary, remote>>
  PROVE  canary' \in CanaryState /\ remote' \in AgentState
<1>1. /\ r.v \in MaybeVersion /\ r.w \in Weights \cup {0} /\ remote \in AgentState
      /\ canary \in CanaryState /\ canary.v \in MaybeVersion
  BY RoReqFields DEF RolloutTypeOK, AgentTypeOK, CanaryState
<1>2. \A v \in Versions : [remote EXCEPT !.version = v] \in AgentState
  BY <1>1 DEF AgentState
<1>3. /\ [canary EXCEPT !.w = r.w] \in CanaryState /\ NoCanary \in CanaryState
      /\ [v |-> r.v, w |-> r.w] \in CanaryState
  BY <1>1 DEF CanaryState, NoCanary, MaybeVersion
<1>4. canary.v # 0 => canary.v \in Versions
  BY <1>1 DEF MaybeVersion
<1>. QED BY <1>1, <1>2, <1>3, <1>4 DEF RoEffect, ReleasesNamed

LEMMA RoAskedFields ==
  ASSUME NEW k, NEW v, NEW w
  PROVE  RoReqNew(k, v, w).k = k /\ RoReqNew(k, v, w).v = v
  BY DEF RoReqNew

LEMMA RoAnswersKeep ==
  ASSUME NEW r \in RoReq, NEW g, NEW a, NEW s
  PROVE  /\ [r EXCEPT !.st = s, !.got = g, !.active = a].k = r.k
         /\ [r EXCEPT !.st = s, !.got = g, !.active = a].v = r.v
         /\ [r EXCEPT !.st = s].k = r.k /\ [r EXCEPT !.st = s].v = r.v
         /\ [r EXCEPT !.k = "relist", !.st = "asked"].k = "relist"
  BY DEF RoReq

\* The requests of the two tabs: what a click adds, and what an answer leaves.
LEMMA RoRequests ==
  ASSUME ShellTypeOK', AgentTypeOK, RolloutTypeOK, ReleasesNamed, RolloutStep
  PROVE  roReqs' \subseteq RoReq /\ ReleasesNamed'
<1>. DEFINE Goal == roReqs' \subseteq RoReq /\ ReleasesNamed'
<1>0. roReqs \subseteq RoReq /\ ro.canary.v \in MaybeVersion /\ ro.canary.w \in Weights \cup {0}
  BY DEF RolloutTypeOK, Rollout, CanaryState
<1>1. CASE WeightSlides \/ DiffCloses
  BY <1>0, <1>1 DEF WeightSlides, DiffCloses, ReleasesNamed
<1>2. ASSUME NEW k \in CanaryCommands, CanaryCommand(k) PROVE Goal
  <2>1. PICK w \in Weights \cup {0} : RoAsk(k, ro.canary.v, w)
    BY <1>0, <1>2 DEF CanaryCommand
  <2>2. RoReqNew(k, ro.canary.v, w) \in RoReq
    BY <1>0, RoReqTyped DEF StatusKinds
  <2>3. k # "release"
    BY DEF CanaryCommands
  <2>. QED BY <1>0, <2>1, <2>2, <2>3, RoAskedFields DEF RoAsk, ReleasesNamed
<1>3. ASSUME NEW v \in Versions, \/ DeployRelease(v) \/ StartCanary(v)
                                 \/ ToggleRelease(v) \/ DiffWithPrevious(v)
      PROVE  Goal
  <2>1. \/ roReqs' = roReqs
        \/ \E k \in DeployCommands \cup {"detail", "diff"}, w \in {0, 10} : RoAsk(k, v, w)
    BY <1>3 DEF DeployRelease, StartCanary, ToggleRelease, DiffWithPrevious, DeployCommands
  <2>2. \A k \in DeployCommands \cup {"detail", "diff"}, w \in {0, 10} :
           RoReqNew(k, v, w) \in RoReq
    BY RoReqTyped DEF MaybeVersion, Weights
  <2>. QED BY <1>0, <2>1, <2>2, RoAskedFields DEF RoAsk, ReleasesNamed
<1>4. ASSUME NEW r \in roReqs, RoServed(r) PROVE Goal
  <2>1. PICK g \in CanaryState, a \in MaybeVersion :
           \/ roReqs' = (roReqs \ {r}) \cup {[r EXCEPT !.st = "failed"]}
           \/ roReqs' = (roReqs \ {r}) \cup {[r EXCEPT !.st = "ok", !.got = g, !.active = a]}
    <3>1. canary' \in CanaryState /\ remote' \in AgentState
      BY <1>4, RoEffectTyped DEF RoServed
    <3>2. remote'.version \in MaybeVersion
      BY <3>1 DEF AgentState, MaybeVersion
    <3>. QED BY <1>0, <1>4, <3>1, <3>2, RoReqFields DEF RoServed
  <2>2. PICK q : q \in {[r EXCEPT !.st = "failed"], [r EXCEPT !.st = "ok", !.got = g, !.active = a]}
                 /\ roReqs' = (roReqs \ {r}) \cup {q}
    BY <2>1
  <2>3. q \in RoReq /\ q.k = r.k /\ q.v = r.v
    <3>1. r \in RoReq
      BY <1>0
    <3>2. CASE q = [r EXCEPT !.st = "failed"]
      BY <3>1, <3>2, RoReqFields, RoAnswersKeep
    <3>3. CASE q = [r EXCEPT !.st = "ok", !.got = g, !.active = a]
      <4>1. q \in RoReq
        BY <3>1, <3>3, RoReqFields
      <4>2. q.k = r.k /\ q.v = r.v
        BY <3>1, <3>3, RoAnswersKeep
      <4>. QED BY <4>1, <4>2
    <3>. QED BY <2>2, <3>2, <3>3
  <2>. QED BY <1>0, <2>2, <2>3 DEF ReleasesNamed
<1>5. ASSUME NEW r \in roReqs, ReleaseDeployed(r) PROVE Goal
  <2>1. PICK q : q = [r EXCEPT !.k = "relist", !.st = "asked"]
    OBVIOUS
  <2>2. q \in RoReq /\ q.k = "relist"
    BY <1>0, <2>1, RoReqFields, RoAnswersKeep
  <2>. QED BY <1>0, <1>5, <2>1, <2>2 DEF ReleaseDeployed, RoUsed, ReleasesNamed
<1>6. ASSUME NEW r \in roReqs,
             \/ StatusArrives(r) \/ ReleasesArrive(r) \/ AdjustReturns(r)
             \/ PromoteReturns(r) \/ RollbackReturns(r) \/ ReleasesRefetched(r)
             \/ CanaryStarted(r) \/ CanaryStartedQuietly(r) \/ DetailArrives(r) \/ DiffArrives(r)
      PROVE  Goal
  BY <1>0, <1>6 DEF StatusArrives, ReleasesArrive, AdjustReturns, PromoteReturns, RollbackReturns,
     ReleasesRefetched, CanaryStarted, CanaryStartedQuietly, DetailArrives, DiffArrives, RoUsed,
     ReleasesNamed
<1>. QED BY <1>1, <1>2, <1>3, <1>4, <1>5, <1>6 DEF RolloutStep

LEMMA RolloutTabTyped ==
  ASSUME ShellTypeOK', RolloutTypeOK, ReleasesNamed, NEW t \in AgentTabs, RolloutTab(t)
  PROVE  RolloutTypeOK' /\ ReleasesNamed'
<1>1. RoReqNew("status", 0, 0) \in RoReq /\ RoReqNew("list", 0, 0) \in RoReq
  BY RoReqTyped DEF MaybeVersion, StatusKinds
<1>2. roReqs' \subseteq roReqs \cup {RoReqNew("status", 0, 0), RoReqNew("list", 0, 0)}
  BY DEF RolloutTab, roVars
<1>3. roReqs' \subseteq RoReq /\ ReleasesNamed'
  BY <1>1, <1>2, RoAskedFields DEF RolloutTypeOK, ReleasesNamed
<1>4. ro' \in Rollout /\ canary' = canary
  BY DEF RolloutTab, RolloutTypeOK, Rollout, StatusUnderWay, roVars
<1>. QED BY <1>3, <1>4 DEF RolloutTypeOK

LEMMA RolloutStepTyped ==
  ASSUME ShellTypeOK', AgentTypeOK, RolloutTypeOK, ReleasesNamed, RolloutStep
  PROVE  RolloutTypeOK' /\ ReleasesNamed' /\ remote' \in AgentState
<1>. DEFINE Goal == ro' \in Rollout /\ canary' \in CanaryState /\ remote' \in AgentState
<1>0. /\ ro \in Rollout /\ roReqs \subseteq RoReq /\ canary \in CanaryState
      /\ remote \in AgentState /\ NoCanary \in CanaryState /\ ro.canary \in CanaryState
  BY DEF RolloutTypeOK, AgentTypeOK, NoCanary, CanaryState, MaybeVersion, Rollout
<1>. USE <1>0
<1>1. ASSUME WeightSlides \/ DiffCloses PROVE Goal
  <2>1. \A w \in Weights : [ro.canary EXCEPT !.w = w] \in CanaryState
    BY DEF CanaryState
  <2>2. CASE WeightSlides
    BY <2>1, <2>2 DEF WeightSlides, Rollout
  <2>3. CASE DiffCloses
    BY <2>3 DEF DiffCloses, Rollout, MaybeVersion
  <2>. QED BY <1>1, <2>2, <2>3
<1>2. ASSUME NEW k \in CanaryCommands, CanaryCommand(k) PROVE Goal
  BY <1>2 DEF CanaryCommand, Rollout, StatusUnderWay
<1>3. ASSUME NEW v \in Versions, \/ DeployRelease(v) \/ StartCanary(v)
                                 \/ ToggleRelease(v) \/ DiffWithPrevious(v)
      PROVE  Goal
  BY <1>3 DEF DeployRelease, StartCanary, ToggleRelease, DiffWithPrevious, Rollout,
     StatusUnderWay, MaybeVersion
<1>4. ASSUME NEW r \in roReqs, RoServed(r) PROVE Goal
  BY <1>4, RoEffectTyped DEF RoServed
<1>5. ASSUME NEW r \in roReqs, ReleaseDeployed(r) PROVE Goal
  BY <1>5 DEF ReleaseDeployed, Rollout, MaybeVersion
<1>6. ASSUME NEW r \in roReqs,
             \/ StatusArrives(r) \/ ReleasesArrive(r) \/ AdjustReturns(r)
             \/ PromoteReturns(r) \/ RollbackReturns(r)
      PROVE  Goal
  <2>1. r.got \in CanaryState /\ r.active \in MaybeVersion /\ 0 \in MaybeVersion
    BY RoReqFields DEF MaybeVersion
  <2>. QED BY <1>6, <2>1 DEF StatusArrives, ReleasesArrive, AdjustReturns, PromoteReturns,
           RollbackReturns, Rollout
<1>7. ASSUME NEW r \in roReqs,
             \/ ReleasesRefetched(r) \/ CanaryStarted(r) \/ CanaryStartedQuietly(r)
             \/ DetailArrives(r) \/ DiffArrives(r)
      PROVE  Goal
  <2>1. r.got \in CanaryState /\ r.v \in MaybeVersion /\ r.active \in MaybeVersion /\ 0 \in MaybeVersion
    BY RoReqFields DEF MaybeVersion
  <2>. QED BY <1>7, <2>1 DEF ReleasesRefetched, CanaryStarted, CanaryStartedQuietly,
           DetailArrives, DiffArrives, Rollout
<1>8. Goal
  <2>1. CASE \E r \in roReqs : RoServed(r) \/ ReleaseDeployed(r)
    BY <1>4, <1>5, <2>1
  <2>2. CASE \E r \in roReqs : \/ StatusArrives(r) \/ ReleasesArrive(r) \/ AdjustReturns(r)
                               \/ PromoteReturns(r) \/ RollbackReturns(r)
    BY <1>6, <2>2
  <2>3. CASE \E r \in roReqs : \/ ReleasesRefetched(r) \/ CanaryStarted(r)
                               \/ CanaryStartedQuietly(r) \/ DetailArrives(r) \/ DiffArrives(r)
    BY <1>7, <2>3
  <2>4. CASE (\E k \in CanaryCommands : CanaryCommand(k))
             \/ \E v \in Versions : \/ DeployRelease(v) \/ StartCanary(v)
                                    \/ ToggleRelease(v) \/ DiffWithPrevious(v)
    BY <1>2, <1>3, <2>4
  <2>. QED BY <1>1, <2>1, <2>2, <2>3, <2>4 DEF RolloutStep
<1>. QED BY <1>8, RoRequests DEF RolloutTypeOK

\* Behind each flag there is a request, and behind canaryLoading only one.
OneCommand ==
  /\ \A r, q \in roReqs : r.k \in CanaryCommands /\ q.k \in CanaryCommands => r = q
  /\ ro.busy <=> \E r \in roReqs : r.k \in CanaryCommands
  /\ ro.deploying # 0 => \E r \in roReqs : r.k \in DeployCommands

\* What the answer of the API server leaves of a request.
LEMMA RoServedKeeps ==
  ASSUME RolloutTypeOK, NEW r \in roReqs, RoServed(r)
  PROVE  /\ ro' = ro
         /\ \E q : /\ roReqs' = (roReqs \ {r}) \cup {q} /\ q.k = r.k /\ q.v = r.v
                   /\ r.st = "asked" /\ q.st \in {"ok", "failed"}
                   /\ q.st = "ok" /\ r.k \in {"status", "weight", "start"} => q.got = canary'
                   /\ q.st = "ok" => RoEffect(r)
<1>0. r \in RoReq
  BY DEF RolloutTypeOK
<1>1. CASE roReqs' = (roReqs \ {r}) \cup {[r EXCEPT !.st = "failed"]}
  <2>1. PICK q : q = [r EXCEPT !.st = "failed"]
    OBVIOUS
  <2>2. q.k = r.k /\ q.v = r.v /\ q.st = "failed"
    BY <1>0, <2>1 DEF RoReq
  <2>. QED BY <1>1, <2>1, <2>2 DEF RoServed
<1>2. CASE /\ RoEffect(r)
           /\ roReqs' = (roReqs \ {r}) \cup
             {[r EXCEPT !.st = "ok",
                        !.got = IF r.k \in {"status", "weight", "start"} THEN canary' ELSE @,
                        !.active = IF r.k \in {"list", "relist"} THEN remote'.version ELSE @]}
  <2>1. PICK q : q = [r EXCEPT !.st = "ok",
                        !.got = IF r.k \in {"status", "weight", "start"} THEN canary' ELSE @,
                        !.active = IF r.k \in {"list", "relist"} THEN remote'.version ELSE @]
    OBVIOUS
  <2>2. q.k = r.k /\ q.v = r.v /\ q.st = "ok"
    BY <1>0, <2>1 DEF RoReq
  <2>3. r.k \in {"status", "weight", "start"} => q.got = canary'
    BY <1>0, <2>1 DEF RoReq
  <2>. QED BY <1>2, <2>1, <2>2, <2>3 DEF RoServed
<1>. QED BY <1>1, <1>2 DEF RoServed

LEMMA RolloutFlags ==
  ASSUME RolloutTypeOK, OneCommand, RolloutStep
  PROVE  OneCommand'
<1>0. ro \in Rollout /\ roReqs \subseteq RoReq
  BY DEF RolloutTypeOK
<1>1. CASE WeightSlides \/ DiffCloses
  BY <1>0, <1>1 DEF WeightSlides, DiffCloses, Rollout, OneCommand
<1>2. ASSUME NEW k \in CanaryCommands, CanaryCommand(k) PROVE OneCommand'
  <2>1. ~ro.busy /\ ro'.busy /\ ro'.deploying = ro.deploying
    BY <1>0, <1>2 DEF CanaryCommand, Rollout
  <2>2. PICK q : q = RoReqNew(k, ro.canary.v, IF k = "weight" THEN ro.canary.w ELSE 0)
    OBVIOUS
  <2>3. roReqs' = roReqs \cup {q} /\ q.k = k
    BY <1>2, <2>2, RoAskedFields DEF CanaryCommand, RoAsk
  <2>. QED BY <2>1, <2>3 DEF OneCommand
<1>3. ASSUME NEW v \in Versions, DeployRelease(v) \/ StartCanary(v) PROVE OneCommand'
  <2>1. ro'.busy = ro.busy
    BY <1>0, <1>3 DEF DeployRelease, StartCanary, Rollout
  <2>2. PICK k \in DeployCommands, w \in {0, 10} : RoAsk(k, v, w)
    BY <1>3 DEF DeployRelease, StartCanary, DeployCommands
  <2>3. PICK q : q = RoReqNew(k, v, w)
    OBVIOUS
  <2>4. roReqs' = roReqs \cup {q} /\ q.k = k
    BY <2>2, <2>3, RoAskedFields DEF RoAsk
  <2>5. DeployCommands \cap CanaryCommands = {}
    BY DEF DeployCommands, CanaryCommands
  <2>. QED BY <2>1, <2>4, <2>5 DEF OneCommand
<1>4. ASSUME NEW v \in Versions, ToggleRelease(v) \/ DiffWithPrevious(v) PROVE OneCommand'
  <2>1. ro'.busy = ro.busy /\ ro'.deploying = ro.deploying
    BY <1>0, <1>4 DEF ToggleRelease, DiffWithPrevious, Rollout
  <2>2. roReqs' = roReqs \/ \E k \in {"detail", "diff"} : RoAsk(k, v, 0)
    BY <1>4 DEF ToggleRelease, DiffWithPrevious
  <2>3. roReqs' = roReqs \/ \E q : roReqs' = roReqs \cup {q} /\ q.k \in {"detail", "diff"}
    <3>1. ASSUME NEW k \in {"detail", "diff"}, RoAsk(k, v, 0)
          PROVE  \E q : roReqs' = roReqs \cup {q} /\ q.k \in {"detail", "diff"}
      <4>1. PICK q : q = RoReqNew(k, v, 0)
        OBVIOUS
      <4>. QED BY <3>1, <4>1, RoAskedFields DEF RoAsk
    <3>. QED BY <2>2, <3>1
  <2>. QED BY <2>1, <2>3 DEF OneCommand, CanaryCommands
<1>5. ASSUME NEW r \in roReqs, RoServed(r) PROVE OneCommand'
  <2>1. PICK q : roReqs' = (roReqs \ {r}) \cup {q} /\ q.k = r.k /\ ro' = ro
    BY <1>5, RoServedKeeps
  <2>. QED BY <2>1 DEF OneCommand
<1>6. ASSUME NEW r \in roReqs, ReleaseDeployed(r) PROVE OneCommand'
  <2>1. r.k = "release" /\ ro'.busy = ro.busy
    BY <1>0, <1>6 DEF ReleaseDeployed, RoHandles, Rollout
  <2>2. \/ roReqs' = roReqs \ {r} /\ ro'.deploying = 0
        \/ \E q : roReqs' = (roReqs \ {r}) \cup {q} /\ q.k = "relist"
    <3>1. PICK q : q = [r EXCEPT !.k = "relist", !.st = "asked"]
      OBVIOUS
    <3>2. q.k = "relist"
      BY <1>0, <3>1, RoAnswersKeep
    <3>. QED BY <1>0, <1>6, <3>1, <3>2 DEF ReleaseDeployed, RoUsed, Rollout
  <2>. QED BY <2>1, <2>2 DEF OneCommand, CanaryCommands, DeployCommands
<1>7. ASSUME NEW r \in roReqs, StatusArrives(r) \/ ReleasesArrive(r) \/ DetailArrives(r) \/ DiffArrives(r)
      PROVE  OneCommand'
  <2>1. /\ roReqs' = roReqs \ {r} /\ r.k \in {"status", "list", "detail", "diff"}
        /\ ro'.busy = ro.busy /\ ro'.deploying = ro.deploying
    BY <1>0, <1>7 DEF StatusArrives, ReleasesArrive, DetailArrives, DiffArrives, RoHandles,
       RoUsed, Rollout
  <2>. QED BY <2>1 DEF OneCommand, CanaryCommands, DeployCommands
<1>8. ASSUME NEW r \in roReqs, AdjustReturns(r) \/ PromoteReturns(r) \/ RollbackReturns(r)
      PROVE  OneCommand'
  <2>1. /\ roReqs' = roReqs \ {r} /\ r.k \in CanaryCommands
        /\ ~ro'.busy /\ ro'.deploying = ro.deploying
    BY <1>0, <1>8 DEF AdjustReturns, PromoteReturns, RollbackReturns, RoHandles,
       RoUsed, Rollout, CanaryCommands
  <2>. QED BY <2>1 DEF OneCommand, CanaryCommands, DeployCommands
<1>9. ASSUME NEW r \in roReqs, ReleasesRefetched(r) \/ CanaryStarted(r) \/ CanaryStartedQuietly(r)
      PROVE  OneCommand'
  <2>1. /\ roReqs' = roReqs \ {r} /\ r.k \in DeployCommands
        /\ ro'.busy = ro.busy /\ ro'.deploying = 0
    BY <1>0, <1>9 DEF ReleasesRefetched, CanaryStarted, CanaryStartedQuietly, RoHandles,
       RoUsed, Rollout, DeployCommands
  <2>. QED BY <2>1 DEF OneCommand, CanaryCommands, DeployCommands
<1>10. CASE \E r \in roReqs : RoServed(r) \/ ReleaseDeployed(r)
  BY <1>5, <1>6, <1>10
<1>11. CASE \E v \in Versions : DeployRelease(v) \/ StartCanary(v) \/ ToggleRelease(v)
                                \/ DiffWithPrevious(v)
  BY <1>3, <1>4, <1>11
<1>. QED BY <1>1, <1>2, <1>7, <1>8, <1>9, <1>10, <1>11 DEF RolloutStep

\* While no two requests about the canary overlapped and none failed, there is
\* one at most, and its answer is what the server runs.
PanelInv ==
  ~ro.blurred =>
     /\ \A r, q \in roReqs : r.k \in StatusKinds /\ q.k \in StatusKinds => r = q
     /\ \A r \in roReqs : r.st = "ok" =>
          /\ r.k \in {"status", "weight", "start"} => r.got.v = canary.v
          /\ r.k \in {"promote", "rollback"} => canary.v = 0
     /\ ~StatusUnderWay => ro.canary.v = canary.v

LEMMA PanelTab ==
  ASSUME RolloutTypeOK, PanelInv, NEW t \in AgentTabs, RolloutTab(t)
  PROVE  PanelInv'
<1>1. CASE t \notin {"deployment", "releases"}
  BY <1>1 DEF RolloutTab, roVars, PanelInv, StatusUnderWay
<1>2. CASE t \in {"deployment", "releases"}
  <2>1. PICK s, l : s = RoReqNew("status", 0, 0) /\ l = RoReqNew("list", 0, 0)
    OBVIOUS
  <2>2. s.k = "status" /\ s.st = "asked" /\ l.k = "list" /\ l.st = "asked"
    BY <2>1 DEF RoReqNew
  <2>3. /\ roReqs' \in {roReqs \cup {s}, roReqs \cup {s, l}}
        /\ ro'.blurred = StatusUnderWay /\ canary' = canary
    BY <1>2, <2>1 DEF RolloutTab, RolloutTypeOK, Rollout
  <2>4. ~ro'.blurred => \A r \in roReqs : r.k \notin StatusKinds
    BY <2>3 DEF StatusUnderWay
  <2>5. {"status", "weight", "start", "promote", "rollback"} \subseteq StatusKinds
        /\ "list" \notin StatusKinds
    BY DEF StatusKinds, CanaryCommands
  <2>. QED BY <2>2, <2>3, <2>4, <2>5 DEF PanelInv, StatusUnderWay
<1>. QED BY <1>1, <1>2

LEMMA RolloutPanel ==
  ASSUME RolloutTypeOK, PanelInv, RolloutStep
  PROVE  PanelInv'
<1>0. ro \in Rollout /\ roReqs \subseteq RoReq
  BY DEF RolloutTypeOK
<1>a. StatusKinds = {"weight", "promote", "rollback", "status", "start", "startQuietly"}
  BY DEF StatusKinds, CanaryCommands
<1>1. CASE WeightSlides \/ DiffCloses
  <2>1. ro'.blurred = ro.blurred /\ ro'.canary.v = ro.canary.v
    BY <1>0, <1>1 DEF WeightSlides, DiffCloses, Rollout, CanaryState
  <2>. QED BY <1>1, <2>1 DEF WeightSlides, DiffCloses, PanelInv, StatusUnderWay
<1>2. ASSUME NEW k \in CanaryCommands, CanaryCommand(k) PROVE PanelInv'
  <2>1. ro'.blurred = (ro.blurred \/ StatusUnderWay) /\ canary' = canary
    BY <1>0, <1>2 DEF CanaryCommand, Rollout
  <2>2. PICK q : q = RoReqNew(k, ro.canary.v, IF k = "weight" THEN ro.canary.w ELSE 0)
    OBVIOUS
  <2>3. roReqs' = roReqs \cup {q} /\ q.k = k /\ q.st = "asked"
    BY <1>2, <2>2 DEF CanaryCommand, RoAsk, RoReqNew
  <2>. QED BY <2>1, <2>3 DEF PanelInv, StatusUnderWay, StatusKinds
<1>3. ASSUME NEW v \in Versions, StartCanary(v) PROVE PanelInv'
  <2>1. ro'.blurred = (ro.blurred \/ StatusUnderWay) /\ canary' = canary
    BY <1>0, <1>3 DEF StartCanary, Rollout
  <2>2. PICK k \in {"start", "startQuietly"} : RoAsk(k, v, 10)
    BY <1>3 DEF StartCanary
  <2>3. PICK q : q = RoReqNew(k, v, 10)
    OBVIOUS
  <2>4. roReqs' = roReqs \cup {q} /\ q.k = k /\ q.st = "asked"
    BY <2>2, <2>3 DEF RoAsk, RoReqNew
  <2>. QED BY <1>a, <2>1, <2>4 DEF PanelInv, StatusUnderWay
<1>4. ASSUME NEW v \in Versions, DeployRelease(v) \/ ToggleRelease(v) \/ DiffWithPrevious(v)
      PROVE  PanelInv'
  <2>1. ro'.blurred = ro.blurred /\ ro'.canary = ro.canary /\ canary' = canary
    BY <1>0, <1>4 DEF DeployRelease, ToggleRelease, DiffWithPrevious, Rollout
  <2>2. roReqs' = roReqs \/ \E k \in {"release", "detail", "diff"} : RoAsk(k, v, 0)
    BY <1>4 DEF DeployRelease, ToggleRelease, DiffWithPrevious
  <2>3. ASSUME NEW k \in {"release", "detail", "diff"}, RoAsk(k, v, 0) PROVE PanelInv'
    <3>1. PICK q : q = RoReqNew(k, v, 0)
      OBVIOUS
    <3>2. roReqs' = roReqs \cup {q} /\ q.k = k
      BY <2>3, <3>1 DEF RoAsk, RoReqNew
    <3>. QED BY <1>a, <2>1, <3>2 DEF PanelInv, StatusUnderWay
  <2>4. CASE roReqs' = roReqs
    BY <2>1, <2>4 DEF PanelInv, StatusUnderWay
  <2>. QED BY <2>2, <2>3, <2>4
<1>5. ASSUME NEW r \in roReqs, RoServed(r) PROVE PanelInv'
  <2>0. ro' = ro
    BY <1>5, RoServedKeeps
  <2>1. PICK q : /\ roReqs' = (roReqs \ {r}) \cup {q} /\ q.k = r.k /\ q.v = r.v
                 /\ r.st = "asked" /\ q.st \in {"ok", "failed"}
                 /\ q.st = "ok" /\ r.k \in {"status", "weight", "start"} => q.got = canary'
                 /\ q.st = "ok" => RoEffect(r)
    BY <1>5, RoServedKeeps
  <2>2. r.k \notin StatusKinds => canary' = canary
    BY <1>5, <1>a DEF RoServed, RoEffect
  <2>3. q.st = "ok" /\ r.k \in {"promote", "rollback"} => canary'.v = 0
    <3>1. r.k \in {"promote", "rollback"} /\ RoEffect(r) => canary' = NoCanary
      BY DEF RoEffect
    <3>. QED BY <2>1, <3>1 DEF NoCanary
  <2>. QED BY <1>a, <2>0, <2>1, <2>2, <2>3 DEF PanelInv, StatusUnderWay
<1>6. ASSUME NEW r \in roReqs, ReleaseDeployed(r) PROVE PanelInv'
  <2>1. r.k = "release" /\ ro'.blurred = ro.blurred /\ ro'.canary = ro.canary /\ canary' = canary
    BY <1>0, <1>6 DEF ReleaseDeployed, RoHandles, Rollout
  <2>2. \/ roReqs' = roReqs \ {r}
        \/ \E q : roReqs' = (roReqs \ {r}) \cup {q} /\ q.k = "relist"
    <3>1. PICK q : q = [r EXCEPT !.k = "relist", !.st = "asked"]
      OBVIOUS
    <3>2. q.k = "relist"
      BY <1>0, <3>1, RoAnswersKeep
    <3>. QED BY <1>0, <1>6, <3>1, <3>2 DEF ReleaseDeployed, RoUsed
  <2>. QED BY <1>a, <2>1, <2>2 DEF PanelInv, StatusUnderWay
<1>7. ASSUME NEW r \in roReqs, \/ ReleasesArrive(r) \/ ReleasesRefetched(r)
                               \/ DetailArrives(r) \/ DiffArrives(r)
      PROVE  PanelInv'
  <2>1. /\ roReqs' = roReqs \ {r} /\ r.k \in {"list", "relist", "detail", "diff"}
        /\ ro'.blurred = ro.blurred /\ ro'.canary = ro.canary /\ canary' = canary
    BY <1>0, <1>7 DEF ReleasesArrive, ReleasesRefetched, DetailArrives, DiffArrives, RoHandles,
       RoUsed, Rollout
  <2>. QED BY <1>a, <2>1 DEF PanelInv, StatusUnderWay
<1>8. ASSUME NEW r \in roReqs, \/ StatusArrives(r) \/ AdjustReturns(r) \/ PromoteReturns(r)
                               \/ RollbackReturns(r) \/ CanaryStarted(r) \/ CanaryStartedQuietly(r)
      PROVE  PanelInv'
  <2>1. /\ roReqs' = roReqs \ {r} /\ r.k \in StatusKinds /\ canary' = canary
        /\ r.st \in {"ok", "failed"}
    BY <1>0, <1>8, <1>a DEF StatusArrives, AdjustReturns, PromoteReturns, RollbackReturns,
       CanaryStarted, CanaryStartedQuietly, RoHandles, RoUsed, RoReq
  <2>2. ~ro'.blurred => ~ro.blurred /\ r.st = "ok" /\ r.k # "startQuietly"
    <3>1. CASE StatusArrives(r) \/ CanaryStarted(r) \/ CanaryStartedQuietly(r)
      BY <1>0, <2>1, <3>1 DEF StatusArrives, CanaryStarted, CanaryStartedQuietly, RoHandles, Rollout
    <3>2. CASE AdjustReturns(r) \/ PromoteReturns(r) \/ RollbackReturns(r)
      BY <1>0, <2>1, <3>2 DEF AdjustReturns, PromoteReturns, RollbackReturns, RoHandles, Rollout
    <3>. QED BY <1>8, <3>1, <3>2
  <2>3. r.st = "ok" /\ r.k \in {"status", "weight", "start"} => ro'.canary = r.got
    <3>1. CASE StatusArrives(r) \/ AdjustReturns(r) \/ CanaryStarted(r)
      BY <1>0, <3>1 DEF StatusArrives, AdjustReturns, CanaryStarted, Rollout
    <3>2. CASE PromoteReturns(r) \/ RollbackReturns(r) \/ CanaryStartedQuietly(r)
      BY <3>2 DEF PromoteReturns, RollbackReturns, CanaryStartedQuietly, RoHandles
    <3>. QED BY <1>8, <3>1, <3>2
  <2>4. r.st = "ok" /\ r.k \in {"promote", "rollback"} => ro'.canary.v = 0
    <3>1. CASE PromoteReturns(r) \/ RollbackReturns(r)
      <4>1. r.st = "ok" => ro'.canary = NoCanary
        BY <1>0, <3>1 DEF PromoteReturns, RollbackReturns, Rollout
      <4>. QED BY <4>1 DEF NoCanary
    <3>2. CASE StatusArrives(r) \/ AdjustReturns(r) \/ CanaryStarted(r) \/ CanaryStartedQuietly(r)
      BY <3>2 DEF StatusArrives, AdjustReturns, CanaryStarted, CanaryStartedQuietly, RoHandles
    <3>. QED BY <1>8, <3>1, <3>2
  <2>. QED BY <1>a, <2>1, <2>2, <2>3, <2>4 DEF PanelInv, StatusUnderWay
<1>9. CASE \E r \in roReqs : RoServed(r) \/ ReleaseDeployed(r)
  BY <1>5, <1>6, <1>9
<1>10. CASE \E v \in Versions : StartCanary(v) \/ DeployRelease(v) \/ ToggleRelease(v)
                                \/ DiffWithPrevious(v)
  BY <1>3, <1>4, <1>10
<1>. QED BY <1>1, <1>2, <1>7, <1>8, <1>9, <1>10 DEF RolloutStep

\* Unless a row was opened over another fetch, the one fetch under way is that
\* of the open row, and none leaves another row's artifact behind.
DetailInv ==
  ~ro.crossed =>
     /\ \A r, q \in roReqs : r.k = "detail" /\ q.k = "detail" => r = q
     /\ \A r \in roReqs : r.k = "detail" => ro.open \in {0, r.v}
     /\ (\A r \in roReqs : r.k # "detail") => ro.detail \in {0, ro.open}

LEMMA DetailTab ==
  ASSUME RolloutTypeOK, DetailInv, NEW t \in AgentTabs, RolloutTab(t)
  PROVE  DetailInv'
<1>1. /\ ro'.crossed = ro.crossed /\ ro'.open = ro.open /\ ro'.detail = ro.detail
      /\ \E s, l : /\ s.k = "status" /\ l.k = "list"
                   /\ roReqs' \in {roReqs, roReqs \cup {s}, roReqs \cup {s, l}}
  <2>1. PICK s, l : s = RoReqNew("status", 0, 0) /\ l = RoReqNew("list", 0, 0)
    OBVIOUS
  <2>2. s.k = "status" /\ l.k = "list"
    BY <2>1 DEF RoReqNew
  <2>. QED BY <2>1, <2>2 DEF RolloutTab, roVars, RolloutTypeOK, Rollout
<1>. QED BY <1>1 DEF DetailInv

LEMMA RolloutDetail ==
  ASSUME RolloutTypeOK, DetailInv, RolloutStep
  PROVE  DetailInv'
<1>0. ro \in Rollout /\ roReqs \subseteq RoReq
  BY DEF RolloutTypeOK
<1>a. "detail" \notin CanaryCommands \cup DeployCommands
  BY DEF CanaryCommands, DeployCommands
<1>1. CASE WeightSlides \/ DiffCloses
  BY <1>0, <1>1 DEF WeightSlides, DiffCloses, Rollout, DetailInv
<1>2. ASSUME NEW k \in CanaryCommands, CanaryCommand(k) PROVE DetailInv'
  <2>1. ro'.crossed = ro.crossed /\ ro'.open = ro.open /\ ro'.detail = ro.detail
    BY <1>0, <1>2 DEF CanaryCommand, Rollout
  <2>2. PICK q : q = RoReqNew(k, ro.canary.v, IF k = "weight" THEN ro.canary.w ELSE 0)
    OBVIOUS
  <2>3. roReqs' = roReqs \cup {q} /\ q.k = k
    BY <1>2, <2>2, RoAskedFields DEF CanaryCommand, RoAsk
  <2>. QED BY <1>a, <2>1, <2>3 DEF DetailInv
<1>3. ASSUME NEW v \in Versions, DeployRelease(v) \/ StartCanary(v) \/ DiffWithPrevious(v)
      PROVE  DetailInv'
  <2>1. ro'.crossed = ro.crossed /\ ro'.open = ro.open /\ ro'.detail = ro.detail
    BY <1>0, <1>3 DEF DeployRelease, StartCanary, DiffWithPrevious, Rollout
  <2>2. PICK k \in DeployCommands \cup {"diff"}, w \in {0, 10} : RoAsk(k, v, w)
    BY <1>3 DEF DeployRelease, StartCanary, DiffWithPrevious, DeployCommands
  <2>3. PICK q : q = RoReqNew(k, v, w)
    OBVIOUS
  <2>4. roReqs' = roReqs \cup {q} /\ q.k = k
    BY <2>2, <2>3, RoAskedFields DEF RoAsk
  <2>. QED BY <1>a, <2>1, <2>4 DEF DetailInv
<1>4. ASSUME NEW v \in Versions, ToggleRelease(v) PROVE DetailInv'
  <2>1. CASE ro.open = v
    BY <1>0, <1>4, <2>1 DEF ToggleRelease, Rollout, DetailInv
  <2>2. CASE ro.open # v
    <3>1. ro'.open = v /\ (ro'.crossed <=> \E r \in roReqs : r.k = "detail")
      BY <1>0, <1>4, <2>2 DEF ToggleRelease, Rollout
    <3>2. PICK q : q = RoReqNew("detail", v, 0)
      OBVIOUS
    <3>3. roReqs' = roReqs \cup {q} /\ q.k = "detail" /\ q.v = v
      BY <1>4, <2>2, <3>2, RoAskedFields DEF ToggleRelease, RoAsk
    <3>. QED BY <3>1, <3>3 DEF DetailInv
  <2>. QED BY <2>1, <2>2
<1>5. ASSUME NEW r \in roReqs, RoServed(r) PROVE DetailInv'
  <2>1. PICK q : roReqs' = (roReqs \ {r}) \cup {q} /\ q.k = r.k /\ q.v = r.v /\ ro' = ro
    BY <1>5, RoServedKeeps
  <2>. QED BY <2>1 DEF DetailInv
<1>6. ASSUME NEW r \in roReqs, ReleaseDeployed(r) PROVE DetailInv'
  <2>1. /\ r.k = "release" /\ ro'.crossed = ro.crossed /\ ro'.open = ro.open
        /\ ro'.detail = ro.detail
    BY <1>0, <1>6 DEF ReleaseDeployed, RoHandles, Rollout
  <2>2. \/ roReqs' = roReqs \ {r}
        \/ \E q : roReqs' = (roReqs \ {r}) \cup {q} /\ q.k = "relist"
    <3>1. PICK q : q = [r EXCEPT !.k = "relist", !.st = "asked"]
      OBVIOUS
    <3>2. q.k = "relist"
      BY <1>0, <3>1, RoAnswersKeep
    <3>. QED BY <1>0, <1>6, <3>1, <3>2 DEF ReleaseDeployed, RoUsed
  <2>. QED BY <2>1, <2>2 DEF DetailInv
<1>7. ASSUME NEW r \in roReqs, \/ StatusArrives(r) \/ ReleasesArrive(r) \/ AdjustReturns(r)
                               \/ PromoteReturns(r) \/ RollbackReturns(r)
      PROVE  DetailInv'
  <2>1. /\ roReqs' = roReqs \ {r} /\ r.k # "detail"
        /\ ro'.crossed = ro.crossed /\ ro'.open = ro.open /\ ro'.detail = ro.detail
    BY <1>0, <1>7 DEF StatusArrives, ReleasesArrive, AdjustReturns, PromoteReturns,
       RollbackReturns, RoHandles, RoUsed, Rollout
  <2>. QED BY <2>1 DEF DetailInv
<1>8. ASSUME NEW r \in roReqs, \/ ReleasesRefetched(r) \/ CanaryStarted(r)
                               \/ CanaryStartedQuietly(r) \/ DiffArrives(r)
      PROVE  DetailInv'
  <2>1. /\ roReqs' = roReqs \ {r} /\ r.k # "detail"
        /\ ro'.crossed = ro.crossed /\ ro'.open = ro.open /\ ro'.detail = ro.detail
    BY <1>0, <1>8 DEF ReleasesRefetched, CanaryStarted, CanaryStartedQuietly, DiffArrives,
       RoHandles, RoUsed, Rollout
  <2>. QED BY <2>1 DEF DetailInv
<1>9. ASSUME NEW r \in roReqs, DetailArrives(r) PROVE DetailInv'
  <2>1. /\ roReqs' = roReqs \ {r} /\ r.k = "detail" /\ ro'.open = ro.open
        /\ ro'.crossed = (ro.crossed \/ ro.open = 0)
        /\ ro'.detail \in {0, r.v}
    BY <1>0, <1>9 DEF DetailArrives, RoHandles, RoUsed, Rollout
  <2>. QED BY <2>1 DEF DetailInv
<1>10. CASE \E r \in roReqs : RoServed(r) \/ ReleaseDeployed(r)
  BY <1>5, <1>6, <1>10
<1>11. CASE \E v \in Versions : DeployRelease(v) \/ StartCanary(v) \/ ToggleRelease(v)
                                \/ DiffWithPrevious(v)
  BY <1>3, <1>4, <1>11
<1>. QED BY <1>1, <1>2, <1>7, <1>8, <1>9, <1>10, <1>11 DEF RolloutStep

LEMMA FlagsTab ==
  ASSUME RolloutTypeOK, OneCommand, NEW t \in AgentTabs, RolloutTab(t)
  PROVE  OneCommand'
<1>1. /\ ro'.busy = ro.busy /\ ro'.deploying = ro.deploying
      /\ \E s, l : /\ s.k = "status" /\ l.k = "list"
                   /\ roReqs' \in {roReqs, roReqs \cup {s}, roReqs \cup {s, l}}
  <2>1. PICK s, l : s = RoReqNew("status", 0, 0) /\ l = RoReqNew("list", 0, 0)
    OBVIOUS
  <2>2. s.k = "status" /\ l.k = "list"
    BY <2>1 DEF RoReqNew
  <2>. QED BY <2>1, <2>2 DEF RolloutTab, roVars, RolloutTypeOK, Rollout
<1>. QED BY <1>1 DEF OneCommand, CanaryCommands

(***************************************************************************)
(* Mounting and unmounting.                                                *)
(***************************************************************************)
RolloutInv == RolloutTypeOK /\ ReleasesNamed /\ OneCommand /\ PanelInv /\ DetailInv

LEMMA RolloutBlank ==
  /\ RolloutClosed \in Rollout
  /\ \A p, s : Canaries(p, s) \subseteq CanaryState
  BY DEF RolloutClosed, Rollout, NoCanary, CanaryState, MaybeVersion, Versions, Weights, Canaries

LEMMA AgentMoved ==
  ASSUME ShellTypeOK', AgentInv, NEW done \in SUBSET agReqs, Moves(done)
  PROVE  AgentInv'
<1>1. done \subseteq {r \in agReqs : r.k = "delete"} /\ AgentSwitch(done)
  BY DEF Moves, PagesSwitch
<1>2. CASE Leaving("agent") \/ Entering("agent") \/ Reloading
  <2>1. PICK q : q = AgReqNew(ops', "load", 0)
    OBVIOUS
  <2>2. q \in AgReq /\ q.k = "load"
    BY <2>1, AgReqTyped, AskedFields, AgentAssumption DEF ShellTypeOK
  <2>3. /\ ag' = AgentClosed
        /\ agReqs' = AgentKept(done) \cup (IF page' = "agent" THEN {q} ELSE {})
        /\ remote' \in Remotes(page')
    BY <1>1, <1>2, <2>1 DEF AgentSwitch
  <2>4. AgentKept(done) \subseteq {r \in agReqs : r.k = "delete"}
    BY DEF AgentKept
  <2>5. Remotes(page') \subseteq AgentState
    BY ClosedTyped DEF Remotes, AgentState
  <2>6. AgentTypeOK'
    BY <2>2, <2>3, <2>4, <2>5, ClosedTyped DEF AgentInv, AgentTypeOK
  <2>7. /\ AgentClosed.load = "loading" /\ AgentClosed.tries = 0 /\ AgentClosed.lock = "no"
        /\ ~AgentClosed.saving /\ 0 < MaxRetries
    BY DEF AgentClosed, MaxRetries
  <2>. QED BY <2>2, <2>3, <2>4, <2>6, <2>7
           DEF AgentInv, SizesNamed, LoadsAreTheFirst, AgentLockHasRequest
<1>3. CASE ~(Leaving("agent") \/ Entering("agent") \/ Reloading)
  <2>1. /\ agReqs' = agReqs \ done /\ ag' = ag /\ remote' = remote
        /\ page # "agent" /\ page' # "agent"
    BY <1>1, <1>3 DEF AgentSwitch, Leaving, Entering, Reloading, Moves
  <2>. QED BY <1>1, <2>1 DEF AgentInv, AgentTypeOK, SizesNamed, LoadsAreTheFirst,
           AgentLockHasRequest, LockKinds, AgentActions
<1>. QED BY <1>2, <1>3

LEMMA RolloutMoved ==
  ASSUME RolloutInv, RolloutSwitch
  PROVE  RolloutInv'
<1>1. CASE UNCHANGED roVars
  BY <1>1 DEF roVars, RolloutInv, RolloutTypeOK, ReleasesNamed, OneCommand, PanelInv, DetailInv,
     StatusUnderWay
<1>2. CASE /\ ro' = RolloutClosed /\ roReqs' = {}
           /\ canary' \in Canaries(page', remote')
  <2>1. RolloutTypeOK'
    BY <1>2, RolloutBlank DEF RolloutTypeOK
  <2>2. /\ RolloutClosed.blurred /\ ~RolloutClosed.busy /\ RolloutClosed.deploying = 0
        /\ RolloutClosed.detail = 0
    BY DEF RolloutClosed
  <2>. QED BY <1>2, <2>1, <2>2 DEF RolloutInv, ReleasesNamed, OneCommand, PanelInv, DetailInv
<1>. QED BY <1>1, <1>2 DEF RolloutSwitch

LEMMA AgentStarts ==
  ASSUME Init
  PROVE  AgentInv /\ RolloutInv
<1>1. AgentInv
  <2>1. PICK q : q = AgReqNew(0, "load", 0)
    OBVIOUS
  <2>2. q \in AgReq /\ q.k = "load"
    BY <2>1, AgReqTyped, AskedFields, AgentAssumption, ShellAssumption DEF Ids
  <2>3. /\ ag = AgentClosed /\ remote \in Remotes(page)
        /\ agReqs = IF page = "agent" THEN {q} ELSE {}
    BY <2>1 DEF Init, AgentInit
  <2>4. Remotes(page) \subseteq AgentState
    BY ClosedTyped DEF Remotes, AgentState
  <2>5. /\ AgentClosed.load = "loading" /\ AgentClosed.tries = 0 /\ AgentClosed.lock = "no"
        /\ ~AgentClosed.saving /\ 0 < MaxRetries
    BY DEF AgentClosed, MaxRetries
  <2>. QED BY <2>2, <2>3, <2>4, <2>5, ClosedTyped
           DEF AgentInv, AgentTypeOK, SizesNamed, LoadsAreTheFirst, AgentLockHasRequest
<1>2. RolloutInv
  <2>1. /\ RolloutClosed.blurred /\ ~RolloutClosed.busy /\ RolloutClosed.deploying = 0
        /\ RolloutClosed.detail = 0
    BY DEF RolloutClosed
  <2>2. ro = RolloutClosed /\ roReqs = {} /\ canary \in CanaryState
    BY RolloutBlank DEF Init, RolloutInit
  <2>. QED BY <2>1, <2>2, RolloutBlank
           DEF RolloutInv, RolloutTypeOK, ReleasesNamed, OneCommand, PanelInv, DetailInv
<1>. QED BY <1>1, <1>2

LEMMA AgentInvKept == ShellTypeOK /\ AgentInv /\ RolloutInv /\ [Next]_vars => AgentInv' /\ RolloutInv'
<1>. SUFFICES ASSUME ShellTypeOK, AgentInv, RolloutInv, [Next]_vars PROVE AgentInv' /\ RolloutInv'
  OBVIOUS
<1>1. CASE UNCHANGED <<page, agVars, roVars>>
  <2>1. UNCHANGED <<page, ag, agReqs, remote, ro, roReqs, canary>>
    BY <1>1 DEF agVars, roVars
  <2>. QED BY <2>1 DEF AgentInv, AgentTypeOK, SizesNamed, LoadsAreTheFirst, AgentLockHasRequest,
           RolloutInv, RolloutTypeOK, ReleasesNamed, OneCommand, PanelInv, DetailInv, StatusUnderWay
<1>2. CASE Stays
  <2>0. ShellTypeOK' /\ page' = page
    BY <1>2, StaysTyped DEF Stays
  <2>1. CASE (AgentStep \/ DeleteAgent) /\ UNCHANGED roVars
    <3>1. AgentInv'
      BY <2>0, <2>1, AgentStepTyped, AgentFlags DEF AgentInv
    <3>2. UNCHANGED <<ro, roReqs, canary>>
      BY <2>1 DEF roVars
    <3>. QED BY <3>1, <3>2 DEF RolloutInv, RolloutTypeOK, ReleasesNamed, OneCommand, PanelInv,
             DetailInv, StatusUnderWay
  <2>2. CASE \E t \in AgentTabs : AgentTab(t) /\ RolloutTab(t)
    <3>1. PICK t \in AgentTabs : AgentTab(t) /\ RolloutTab(t)
      BY <2>2
    <3>2. AgentInv'
      BY <2>0, <3>1, AgentStepTyped, AgentFlags DEF AgentInv
    <3>. QED BY <2>0, <3>1, <3>2, RolloutTabTyped, FlagsTab, PanelTab, DetailTab DEF RolloutInv
  <2>3. CASE RolloutStep /\ UNCHANGED <<ag, agReqs>>
    <3>1. RolloutInv' /\ remote' \in AgentState
      BY <2>0, <2>3, RolloutStepTyped, RolloutFlags, RolloutPanel, RolloutDetail
         DEF RolloutInv, AgentInv
    <3>. QED BY <2>0, <2>3, <3>1
             DEF AgentInv, AgentTypeOK, SizesNamed, LoadsAreTheFirst, AgentLockHasRequest
  <2>4. CASE \E r \in agReqs : Cleared(r)
    <3>1. PICK r \in agReqs : Cleared(r)
      BY <2>4
    <3>2. /\ agReqs' = agReqs \ {r} /\ r.k = "delete"
          /\ UNCHANGED <<page, ag, remote, ro, roReqs, canary>>
      BY <3>1 DEF Cleared, Stays, AgentDeleted, roVars
    <3>. QED BY <3>2 DEF AgentInv, AgentTypeOK, SizesNamed, LoadsAreTheFirst, AgentLockHasRequest,
             LockKinds, AgentActions,
             RolloutInv, RolloutTypeOK, ReleasesNamed, OneCommand, PanelInv, DetailInv, StatusUnderWay
  <2>5. ASSUME NEW done \in SUBSET agReqs, Moves(done) PROVE AgentInv' /\ RolloutInv'
    BY <2>0, <2>5, AgentMoved, RolloutMoved DEF Moves, PagesSwitch
  <2>. QED BY <1>1, <2>1, <2>2, <2>3, <2>4, <2>5, AgentMoves
<1>3. ASSUME NEW done \in SUBSET agReqs, Moves(done) PROVE AgentInv' /\ RolloutInv'
  <2>1. ShellTypeOK'
    BY <1>3, StaysTyped
  <2>. QED BY <1>3, <2>1, AgentMoved, RolloutMoved DEF Moves, PagesSwitch
<1>. QED BY <1>1, <1>2, <1>3, AgentMoves DEF Cleared

THEOREM AgentSafe == Spec => [](AgentInv /\ RolloutInv)
<1>1. Init => AgentInv /\ RolloutInv
  BY AgentStarts
<1>. QED BY <1>1, ShellTyped, AgentInvKept, PTL DEF Spec

(***************************************************************************)
(* Theorems.                                                               *)
(***************************************************************************)
\* The agent's page and its two tabs never hold a value out of their range:
\* no size the form does not offer, no version that does not exist.
THEOREM AgentTyped == Spec => [](AgentTypeOK /\ RolloutTypeOK)
<1>1. AgentInv /\ RolloutInv => AgentTypeOK /\ RolloutTypeOK
  BY DEF AgentInv, RolloutInv
<1>. QED BY <1>1, AgentSafe, PTL

\* No button of the agent's page stays disabled without a request whose
\* answer will enable it, although four commands share one flag.
THEOREM AgentLocksReleased == Spec => []AgentLockHasRequest
<1>1. AgentInv => AgentLockHasRequest
  BY DEF AgentInv
<1>. QED BY <1>1, AgentSafe, PTL

\* Weight, promote and rollback exclude one another.
THEOREM CanaryCommandsExclude == Spec => []CanaryCommandsExclusive
<1>1. ASSUME RolloutInv PROVE CanaryCommandsExclusive
  <2>. DEFINE C == {r \in roReqs : r.k \in CanaryCommands}
  <2>1. CASE C = {}
    <3>1. Cardinality(C) = 0
      BY <2>1, FS_EmptySet
    <3>. QED BY <1>1, <3>1 DEF RolloutInv, OneCommand, CanaryCommandsExclusive
  <2>2. CASE C # {}
    <3>1. PICK r : r \in C
      BY <2>2
    <3>2. C = {r}
      BY <1>1, <3>1 DEF RolloutInv, OneCommand
    <3>3. Cardinality(C) = 1
      BY <3>2, FS_Singleton
    <3>. QED BY <1>1, <3>3 DEF RolloutInv, OneCommand, CanaryCommandsExclusive
  <2>. QED BY <2>1, <2>2
<1>. QED BY <1>1, AgentSafe, PTL

\* The canary shown is the one that runs, once nothing is in flight and
\* nothing overlapped or failed.
THEOREM CanaryPanelIsCurrent == Spec => []CanaryPanelCurrent
<1>1. RolloutInv => CanaryPanelCurrent
  BY DEF RolloutInv, PanelInv, CanaryPanelCurrent
<1>. QED BY <1>1, AgentSafe, PTL

\* An open release shows its own artifact.
THEOREM ReleaseDetailsSettle == Spec => []ReleaseDetailSettles
<1>1. RolloutInv => ReleaseDetailSettles
  BY DEF RolloutInv, DetailInv, ReleaseDetailSettles
<1>. QED BY <1>1, AgentSafe, PTL

LEMMA FormsChange ==
  ASSUME ShellTypeOK, AgentInv, AgentStep \/ DeleteAgent \/ \E t \in AgentTabs : AgentTab(t),
         ag'.form # ag.form
  PROVE  ag.load = "loading" \/ (ops' # ops /\ ag.tab = "config")
<1>0. ag \in AgPage /\ ops \in Nat
  BY ShellAssumption DEF AgentInv, AgentTypeOK, ShellTypeOK, Ids
<1>1. CASE ConfigEdit
  BY <1>0, <1>1 DEF ConfigEdit, OnAgent, Click
<1>2. CASE \E r \in agReqs : AgentLoaded(r)
  BY <1>2 DEF AgentLoaded, AgHandles, AgentInv, LoadsAreTheFirst
<1>3. CASE ScaleOpen \/ ScaleCancel \/ HandleScale \/ HandleConfigSave \/ DeleteAgent
           \/ (\E t \in AgentTabs : AgentTab(t)) \/ \E a \in AgentActions : HandleAgentAction(a)
  BY <1>0, <1>3 DEF ScaleOpen, ScaleCancel, HandleScale, HandleConfigSave, DeleteAgent, AgentTab,
     HandleAgentAction, AgPage
<1>4. CASE \E r \in agReqs : \/ AgServed(r) \/ AgentLoadFails(r) \/ AgentActionReturns(r)
                              \/ AgentRefetched(r) \/ ScaleReturns(r) \/ ConfigSaveReturns(r)
                              \/ AgentDeleteFails(r)
  BY <1>0, <1>4 DEF AgServed, AgentLoadFails, AgentActionReturns, AgentRefetched, ScaleReturns,
     ConfigSaveReturns, AgentDeleteFails, AgPage
<1>. QED BY <1>1, <1>2, <1>3, <1>4 DEF AgentStep

\* The configuration form is the operator's: a refetch, or an answer to a
\* command, leaves what was typed alone.
THEOREM EditsAreKept == Spec => EditsSurviveRefresh
<1>. DEFINE Kept == ag'.form # ag.form =>
                       \/ ag.load = "loading" \/ ag'.load = "loading"
                       \/ ops' # ops /\ ag.tab = "config"
<1>1. ASSUME ShellTypeOK, AgentInv, [Next]_vars PROVE Kept
  <2>1. CASE Stays /\ \/ AgentStep \/ DeleteAgent
                      \/ \E t \in AgentTabs : AgentTab(t) /\ RolloutTab(t)
    BY <1>1, <2>1, FormsChange
  <2>2. CASE UNCHANGED <<page, agVars, roVars>> \/ UNCHANGED <<ag, agReqs>>
             \/ \E r \in agReqs : Cleared(r)
    BY <2>2 DEF agVars, Cleared
  <2>3. ASSUME NEW done \in SUBSET agReqs, Moves(done) PROVE Kept
    BY <2>3 DEF Moves, PagesSwitch, AgentSwitch, AgentClosed
  <2>. QED BY <1>1, <2>1, <2>2, <2>3, AgentMoves
<1>2. ShellTypeOK /\ AgentInv /\ [Next]_vars => [Kept]_<<shellVars, agVars>>
  BY <1>1
<1>. QED BY <1>2, ShellTyped, AgentSafe, PTL DEF Spec, EditsSurviveRefresh

(***************************************************************************)
(* The evaluations: the evaluation tab of an agent's page and the page     *)
(* /evaluations, as parts of the dashboard.                                *)
(***************************************************************************)
\* What any step may do to the tab and to the page.
LEMMA EvaluationsMoves ==
  ASSUME ShellTypeOK, [Next]_vars
  PROVE  \/ UNCHANGED <<evVars, evpVars>>
         \/ Stays /\ \/ EvalStep /\ UNCHANGED evpVars
                     \/ (\E t \in AgentTabs : EvalTab(t)) /\ UNCHANGED evpVars
                     \/ EvaluationsStep /\ UNCHANGED evVars
         \/ \E done \in SUBSET agReqs : Moves(done)
<1>1. CASE Stays /\ AgentPageStep
  BY <1>1 DEF AgentPageStep, otherFamily
<1>2. CASE Stays /\ OtherPageStep
  BY <1>2 DEF OtherPageStep, agentFamily
<1>3. CASE Stays /\ (ProviderStep \/ ChatPageStep \/ HandleSubmit \/ LoginFails)
  BY <1>3 DEF ProviderStep, OfProvider, ChatPageStep, HandleSubmit, LoginFails, agentFamily, otherFamily
<1>4. CASE UNCHANGED vars \/ Rings \/ \E r \in agReqs : Cleared(r)
  BY <1>4 DEF Rings, Cleared, vars, agentFamily, otherFamily
<1>. QED BY <1>1, <1>2, <1>3, <1>4, StepCases

(***************************************************************************)
(* Requests.                                                               *)
(***************************************************************************)
EvKinds == {"runs", "sets", "upload", "newSets", "trigger", "newRuns", "compare"}

LEMMA CountsHold == 0 \in Counts /\ 1 \in Counts /\ MaxRuns \in Counts /\ NoResults \in Results
  BY EvaluationsAssumption DEF Counts, NoResults, Results

LEMMA EvReqTyped ==
  ASSUME ShellTypeOK', NEW k \in EvKinds
  PROVE  EvReqNew(k) \in EvReq /\ EvReqNew(k).k = k
  BY CountsHold DEF EvReqNew, EvReq, EvKinds, ShellTypeOK

LEMMA EvReqFields ==
  ASSUME NEW r \in EvReq
  PROVE  /\ r.k \in EvKinds /\ r.got \in Results /\ r.got.runs \in Counts /\ r.got.sets \in Counts
         /\ \A k \in EvKinds : /\ [r EXCEPT !.k = k, !.st = "asked"] \in EvReq
                               /\ [r EXCEPT !.k = k, !.st = "asked"].k = k
<1>1. r.k \in EvKinds /\ r.got \in Results
  BY DEF EvReq, EvKinds
<1>2. r.got.runs \in Counts /\ r.got.sets \in Counts
  BY <1>1 DEF Results
<1>3. \A k \in EvKinds : /\ [r EXCEPT !.k = k, !.st = "asked"] \in EvReq
                         /\ [r EXCEPT !.k = k, !.st = "asked"].k = k
  BY DEF EvReq, EvKinds
<1>. QED BY <1>1, <1>2, <1>3

\* The server's answer keeps the kind of a request.
LEMMA EvServedKeeps ==
  ASSUME NEW r \in EvReq, evReqs \subseteq EvReq, r \in evReqs, results \in Results, EvServed(r)
  PROVE  /\ ev' = ev /\ results' \in Results
         /\ \E q \in EvReq : evReqs' = (evReqs \ {r}) \cup {q} /\ q.k = r.k
<1>1. results' \in Results
  <2>1. Grown(results.runs) \in Counts /\ Grown(results.sets) \in Counts
    BY EvaluationsAssumption DEF Grown, Results, Counts
  <2>. QED BY <2>1 DEF EvServed, Results
<1>2. CASE evReqs' = (evReqs \ {r}) \cup {[r EXCEPT !.st = "failed"]}
  <2>1. [r EXCEPT !.st = "failed"] \in EvReq /\ [r EXCEPT !.st = "failed"].k = r.k
    BY DEF EvReq
  <2>. QED BY <1>1, <1>2, <2>1 DEF EvServed
<1>3. CASE evReqs' = (evReqs \ {r}) \cup
             {[r EXCEPT !.st = "ok",
                        !.got.runs = IF r.k \in {"runs", "newRuns"} THEN results'.runs ELSE @,
                        !.got.sets = IF r.k \in {"sets", "newSets"} THEN results'.sets ELSE @]}
  <2>1. PICK q : q = [r EXCEPT !.st = "ok",
                        !.got.runs = IF r.k \in {"runs", "newRuns"} THEN results'.runs ELSE @,
                        !.got.sets = IF r.k \in {"sets", "newSets"} THEN results'.sets ELSE @]
    OBVIOUS
  <2>2. q.k = r.k /\ q \in EvReq
    BY <1>1, <2>1, EvReqFields DEF EvReq, Results
  <2>. QED BY <1>1, <1>3, <2>1, <2>2 DEF EvServed
<1>. QED BY <1>2, <1>3 DEF EvServed

(***************************************************************************)
(* The evaluation tab.                                                     *)
(***************************************************************************)
TabTypeOK == ev \in EvTab /\ evReqs \subseteq EvReq /\ results \in Results

\* flag is set exactly as long as one request of the chain ks is under way.
OneChain(flag, ks) ==
  /\ \A r, q \in evReqs : r.k \in ks /\ q.k \in ks => r = q
  /\ flag <=> \E r \in evReqs : r.k \in ks

TabFlags ==
  /\ OneChain(ev.uploading, {"upload", "newSets"})
  /\ OneChain(ev.triggering, {"trigger", "newRuns"})
  /\ OneChain(ev.comparing, {"compare"})
  /\ ev.loading => \E r \in evReqs : r.k = "sets"

TabCompares == ev.b # 0 => ev.a # 0 /\ ev.a # ev.b

TabInv == TabTypeOK /\ TabFlags /\ TabCompares

LEMMA EvStepTyped ==
  ASSUME ShellTypeOK', TabTypeOK, EvalStep
  PROVE  TabTypeOK'
<1>0. ev \in EvTab /\ evReqs \subseteq EvReq /\ results \in Results
  BY DEF TabTypeOK
<1>. USE <1>0
<1>1. CASE UploadDataset \/ TriggerEval \/ CompareRuns
  <2>1. ev' \in EvTab
    BY <1>1 DEF UploadDataset, TriggerEval, CompareRuns, EvTab
  <2>2. \A k \in EvKinds : EvReqNew(k) \in EvReq
    BY EvReqTyped
  <2>. QED BY <1>1, <2>1, <2>2 DEF UploadDataset, TriggerEval, CompareRuns, EvAsk, EvKinds, TabTypeOK
<1>2. CASE UploadDialog \/ ComparisonCloses \/ ClearComparison
  <2>1. ev' \in EvTab
    BY <1>2, CountsHold DEF UploadDialog, ComparisonCloses, ClearComparison, EvTab
  <2>. QED BY <1>2, <2>1 DEF UploadDialog, ComparisonCloses, ClearComparison, TabTypeOK
<1>3. ASSUME NEW n \in 1..MaxRuns, SelectDataset(n) \/ TickRun(n) PROVE TabTypeOK'
  <2>1. n \in Counts
    BY EvaluationsAssumption DEF Counts
  <2>2. ev.a \in Counts /\ ev.b \in Counts
    BY DEF EvTab
  <2>3. CASE SelectDataset(n)
    BY <2>1, <2>3 DEF SelectDataset, EvTab, TabTypeOK
  <2>4. CASE TickRun(n)
    <3>1. ev' \in EvTab
      <4>1. ev' \in {[ev EXCEPT !.a = ev.b, !.b = 0], [ev EXCEPT !.b = 0], [ev EXCEPT !.a = n],
                     [ev EXCEPT !.b = n], [ev EXCEPT !.b = ev.b]}
        BY <2>4 DEF TickRun
      <4>. QED BY <2>1, <2>2, <4>1, CountsHold DEF EvTab
    <3>. QED BY <2>4, <3>1 DEF TickRun, TabTypeOK
  <2>. QED BY <1>3, <2>3, <2>4
<1>4. ASSUME NEW r \in evReqs, EvServed(r) PROVE TabTypeOK'
  BY <1>4, EvServedKeeps DEF TabTypeOK
<1>5. ASSUME NEW r \in evReqs, RunsArrive(r) \/ CompareReturns(r) PROVE TabTypeOK'
  <2>1. r.got.runs \in Counts
    BY EvReqFields
  <2>2. ev' \in EvTab
    <3>1. CASE RunsArrive(r)
      <4>1. PICK n \in Counts : n = IF r.st = "ok" THEN r.got.runs ELSE 0
        BY <2>1, CountsHold
      <4>2. ev' = [ev EXCEPT !.runs = n]
        BY <3>1, <4>1 DEF RunsArrive
      <4>. QED BY <4>2 DEF EvTab
    <3>2. CASE CompareReturns(r)
      <4>1. PICK d \in SUBSET {"upload", "comparison"} :
               d = IF r.st = "ok" THEN ev.dialogs \cup {"comparison"} ELSE ev.dialogs
        BY DEF EvTab
      <4>2. ev' = [ev EXCEPT !.comparing = FALSE, !.dialogs = d]
        BY <3>2, <4>1 DEF CompareReturns
      <4>. QED BY <4>2 DEF EvTab
    <3>. QED BY <1>5, <3>1, <3>2
  <2>. QED BY <1>5, <2>2 DEF RunsArrive, CompareReturns, EvUsed, TabTypeOK
<1>6. ASSUME NEW r \in evReqs, DatasetsArrive(r) PROVE TabTypeOK'
  <2>1. r.got.sets \in Counts /\ Selected(r.got.sets, r) \in Counts
    BY EvReqFields, CountsHold DEF Selected, EvTab
  <2>2. ev' \in EvTab
    BY <1>6, <2>1, CountsHold DEF DatasetsArrive, EvTab
  <2>. QED BY <1>6, <2>2 DEF DatasetsArrive, EvUsed, TabTypeOK
<1>7. ASSUME NEW r \in evReqs, UploadReturns(r) PROVE TabTypeOK'
  <2>1. r.got.sets \in Counts /\ Selected(r.got.sets, r) \in Counts
    BY EvReqFields, CountsHold DEF Selected, EvTab
  <2>2. [r EXCEPT !.k = "newSets", !.st = "asked"] \in EvReq
    BY EvReqFields DEF EvKinds
  <2>3. CASE EvUsed(r) /\ ev' = [ev EXCEPT !.uploading = FALSE]
    BY <1>7, <2>3 DEF UploadReturns, EvUsed, EvTab, TabTypeOK
  <2>4. CASE EvAsks(r, "newSets") /\ ev' = [ev EXCEPT !.dialogs = @ \ {"upload"}]
    BY <1>7, <2>2, <2>4 DEF UploadReturns, EvAsks, EvTab, TabTypeOK
  <2>5. CASE EvUsed(r) /\ ev' = [ev EXCEPT !.uploading = FALSE, !.sets = r.got.sets,
                                          !.sel = Selected(r.got.sets, r)]
    BY <1>7, <2>1, <2>5 DEF UploadReturns, EvUsed, EvTab, TabTypeOK
  <2>. QED BY <1>7, <2>3, <2>4, <2>5 DEF UploadReturns
<1>8. ASSUME NEW r \in evReqs, TriggerReturns(r) PROVE TabTypeOK'
  <2>1. r.got.runs \in Counts
    BY EvReqFields
  <2>2. [r EXCEPT !.k = "newRuns", !.st = "asked"] \in EvReq
    BY EvReqFields DEF EvKinds
  <2>. QED BY <1>8, <2>1, <2>2 DEF TriggerReturns, EvUsed, EvAsks, EvTab, TabTypeOK
<1>. QED BY <1>1, <1>2, <1>3, <1>4, <1>5, <1>6, <1>7, <1>8 DEF EvalStep

LEMMA EvStepFlags ==
  ASSUME ShellTypeOK', TabInv, EvalStep
  PROVE  TabFlags'
<1>0. ev \in EvTab /\ evReqs \subseteq EvReq /\ results \in Results /\ TabFlags
  BY DEF TabInv, TabTypeOK
<1>1. CASE UploadDataset
  <2>1. PICK q : q = EvReqNew("upload")
    OBVIOUS
  <2>2. evReqs' = evReqs \cup {q} /\ q.k = "upload"
    BY <1>1, <2>1, EvReqTyped DEF UploadDataset, EvAsk, EvKinds
  <2>3. /\ ~ev.uploading /\ ev'.uploading
        /\ ev'.triggering = ev.triggering /\ ev'.comparing = ev.comparing /\ ev'.loading = ev.loading
    BY <1>0, <1>1 DEF UploadDataset, EvTab
  <2>. QED BY <1>0, <2>2, <2>3 DEF TabFlags, OneChain
<1>2. CASE TriggerEval
  <2>1. PICK q : q = EvReqNew("trigger")
    OBVIOUS
  <2>2. evReqs' = evReqs \cup {q} /\ q.k = "trigger"
    BY <1>2, <2>1, EvReqTyped DEF TriggerEval, EvAsk, EvKinds
  <2>3. /\ ~ev.triggering /\ ev'.triggering
        /\ ev'.uploading = ev.uploading /\ ev'.comparing = ev.comparing /\ ev'.loading = ev.loading
    BY <1>0, <1>2 DEF TriggerEval, EvTab
  <2>. QED BY <1>0, <2>2, <2>3 DEF TabFlags, OneChain
<1>3. CASE CompareRuns
  <2>1. PICK q : q = EvReqNew("compare")
    OBVIOUS
  <2>2. evReqs' = evReqs \cup {q} /\ q.k = "compare"
    BY <1>3, <2>1, EvReqTyped DEF CompareRuns, EvAsk, EvKinds
  <2>3. /\ ~ev.comparing /\ ev'.comparing
        /\ ev'.uploading = ev.uploading /\ ev'.triggering = ev.triggering /\ ev'.loading = ev.loading
    BY <1>0, <1>3 DEF CompareRuns, EvTab
  <2>. QED BY <1>0, <2>2, <2>3 DEF TabFlags, OneChain
<1>4. CASE UploadDialog \/ ComparisonCloses \/ ClearComparison
           \/ \E n \in 1..MaxRuns : SelectDataset(n) \/ TickRun(n)
  <2>1. CASE UploadDialog \/ ComparisonCloses \/ ClearComparison
    <3>1. /\ evReqs' = evReqs /\ ev'.uploading = ev.uploading /\ ev'.triggering = ev.triggering
          /\ ev'.comparing = ev.comparing /\ ev'.loading = ev.loading
      BY <1>0, <2>1 DEF UploadDialog, ComparisonCloses, ClearComparison, EvTab
    <3>. QED BY <1>0, <3>1 DEF TabFlags, OneChain
  <2>2. ASSUME NEW n \in 1..MaxRuns, SelectDataset(n) PROVE TabFlags'
    <3>1. /\ evReqs' = evReqs /\ ev'.uploading = ev.uploading /\ ev'.triggering = ev.triggering
          /\ ev'.comparing = ev.comparing /\ ev'.loading = ev.loading
      BY <1>0, <2>2 DEF SelectDataset, EvTab
    <3>. QED BY <1>0, <3>1 DEF TabFlags, OneChain
  <2>3. ASSUME NEW n \in 1..MaxRuns, TickRun(n) PROVE TabFlags'
    <3>1. ev' \in {[ev EXCEPT !.a = ev.b, !.b = 0], [ev EXCEPT !.b = 0], [ev EXCEPT !.a = n],
                   [ev EXCEPT !.b = n], [ev EXCEPT !.b = ev.b]}
      BY <2>3 DEF TickRun
    <3>2. /\ evReqs' = evReqs /\ ev'.uploading = ev.uploading /\ ev'.triggering = ev.triggering
          /\ ev'.comparing = ev.comparing /\ ev'.loading = ev.loading
      BY <1>0, <2>3, <3>1 DEF TickRun, EvTab
    <3>. QED BY <1>0, <3>2 DEF TabFlags, OneChain
  <2>. QED BY <1>4, <2>1, <2>2, <2>3
<1>5. ASSUME NEW r \in evReqs, EvServed(r) PROVE TabFlags'
  <2>1. PICK q \in EvReq : evReqs' = (evReqs \ {r}) \cup {q} /\ q.k = r.k
    BY <1>0, <1>5, EvServedKeeps
  <2>2. ev' = ev
    BY <1>5 DEF EvServed
  <2>. QED BY <1>0, <2>1, <2>2 DEF TabFlags, OneChain
<1>6. ASSUME NEW r \in evReqs, RunsArrive(r) \/ DatasetsArrive(r) PROVE TabFlags'
  <2>1. /\ evReqs' = evReqs \ {r} /\ r.k \in {"runs", "sets"}
        /\ ev'.uploading = ev.uploading /\ ev'.triggering = ev.triggering
        /\ ev'.comparing = ev.comparing /\ (ev'.loading => ev.loading /\ r.k # "sets")
    BY <1>0, <1>6 DEF RunsArrive, DatasetsArrive, EvHandles, EvUsed, EvTab
  <2>. QED BY <1>0, <2>1 DEF TabFlags, OneChain
<1>7. ASSUME NEW r \in evReqs, UploadReturns(r) PROVE TabFlags'
  <2>0. r.k \in {"upload", "newSets"} /\ ev.uploading
    BY <1>0, <1>7 DEF UploadReturns, EvHandles, TabFlags, OneChain
  <2>1. CASE EvAsks(r, "newSets") /\ ev' = [ev EXCEPT !.dialogs = @ \ {"upload"}]
    <3>1. PICK q : q = [r EXCEPT !.k = "newSets", !.st = "asked"]
      OBVIOUS
    <3>2. evReqs' = (evReqs \ {r}) \cup {q} /\ q.k = "newSets"
      BY <1>0, <2>1, <3>1, EvReqFields DEF EvAsks, EvKinds
    <3>3. /\ ev'.uploading = ev.uploading /\ ev'.triggering = ev.triggering
          /\ ev'.comparing = ev.comparing /\ ev'.loading = ev.loading
      BY <1>0, <2>1 DEF EvTab
    <3>. QED BY <1>0, <2>0, <3>2, <3>3 DEF TabFlags, OneChain
  <2>2. CASE EvUsed(r) /\ ev' \in {[ev EXCEPT !.uploading = FALSE],
                                   [ev EXCEPT !.uploading = FALSE, !.sets = r.got.sets,
                                              !.sel = Selected(r.got.sets, r)]}
    <3>1. /\ evReqs' = evReqs \ {r} /\ ~ev'.uploading /\ ev'.triggering = ev.triggering
          /\ ev'.comparing = ev.comparing /\ ev'.loading = ev.loading
      BY <1>0, <2>2 DEF EvUsed, EvTab
    <3>. QED BY <1>0, <2>0, <3>1 DEF TabFlags, OneChain
  <2>. QED BY <1>7, <2>1, <2>2 DEF UploadReturns
<1>8. ASSUME NEW r \in evReqs, TriggerReturns(r) PROVE TabFlags'
  <2>0. r.k \in {"trigger", "newRuns"} /\ ev.triggering
    BY <1>0, <1>8 DEF TriggerReturns, EvHandles, TabFlags, OneChain
  <2>1. CASE EvAsks(r, "newRuns") /\ ev' = ev
    <3>1. PICK q : q = [r EXCEPT !.k = "newRuns", !.st = "asked"]
      OBVIOUS
    <3>2. evReqs' = (evReqs \ {r}) \cup {q} /\ q.k = "newRuns"
      BY <1>0, <2>1, <3>1, EvReqFields DEF EvAsks, EvKinds
    <3>. QED BY <1>0, <2>0, <2>1, <3>2 DEF TabFlags, OneChain
  <2>2. CASE EvUsed(r) /\ ev' = [ev EXCEPT !.triggering = FALSE,
                                          !.runs = IF r.st = "ok" THEN r.got.runs ELSE @]
    <3>1. /\ evReqs' = evReqs \ {r} /\ ~ev'.triggering /\ ev'.uploading = ev.uploading
          /\ ev'.comparing = ev.comparing /\ ev'.loading = ev.loading
      BY <1>0, <2>2 DEF EvUsed, EvTab
    <3>. QED BY <1>0, <2>0, <3>1 DEF TabFlags, OneChain
  <2>. QED BY <1>8, <2>1, <2>2 DEF TriggerReturns
<1>9. ASSUME NEW r \in evReqs, CompareReturns(r) PROVE TabFlags'
  <2>1. /\ evReqs' = evReqs \ {r} /\ r.k = "compare" /\ ~ev'.comparing
        /\ ev'.uploading = ev.uploading /\ ev'.triggering = ev.triggering
        /\ ev'.loading = ev.loading
    BY <1>0, <1>9 DEF CompareReturns, EvHandles, EvUsed, EvTab
  <2>. QED BY <1>0, <2>1 DEF TabFlags, OneChain
<1>. QED BY <1>1, <1>2, <1>3, <1>4, <1>5, <1>6, <1>7, <1>8, <1>9 DEF EvalStep

LEMMA EvStepCompares ==
  ASSUME TabInv, EvalStep
  PROVE  TabCompares'
<1>0. ev \in EvTab /\ TabCompares
  BY DEF TabInv, TabTypeOK
<1>1. CASE \E n \in 1..MaxRuns : TickRun(n)
  <2>1. PICK n \in 1..MaxRuns : TickRun(n)
    BY <1>1
  <2>2. n # 0
    OBVIOUS
  <2>3. CASE ev.a = n
    BY <1>0, <2>1, <2>2, <2>3 DEF TickRun, EvTab, TabCompares
  <2>4. CASE ev.a # n /\ ev.b = n
    BY <1>0, <2>1, <2>2, <2>4 DEF TickRun, EvTab, TabCompares
  <2>5. CASE ev.a # n /\ ev.b # n /\ ev.a = 0
    BY <1>0, <2>1, <2>2, <2>5 DEF TickRun, EvTab, TabCompares
  <2>6. CASE ev.a # n /\ ev.b # n /\ ev.a # 0
    BY <1>0, <2>1, <2>2, <2>6 DEF TickRun, EvTab, TabCompares
  <2>. QED BY <2>3, <2>4, <2>5, <2>6
<1>2. CASE \/ UploadDialog \/ UploadDataset \/ TriggerEval \/ CompareRuns \/ ComparisonCloses
           \/ ClearComparison \/ \E n \in 1..MaxRuns : SelectDataset(n)
  BY <1>0, <1>2 DEF UploadDialog, UploadDataset, TriggerEval, CompareRuns, ComparisonCloses,
     ClearComparison, SelectDataset, EvTab, TabCompares
<1>3. ASSUME NEW r \in evReqs, \/ EvServed(r) \/ RunsArrive(r) \/ DatasetsArrive(r)
                               \/ TriggerReturns(r) \/ CompareReturns(r)
      PROVE  TabCompares'
  BY <1>0, <1>3 DEF EvServed, RunsArrive, DatasetsArrive, TriggerReturns, CompareReturns,
     EvTab, TabCompares
<1>4. ASSUME NEW r \in evReqs, UploadReturns(r) PROVE TabCompares'
  BY <1>0, <1>4 DEF UploadReturns, EvTab, TabCompares
<1>. QED BY <1>1, <1>2, <1>3, <1>4 DEF EvalStep

\* Opening a tab asks for runs and data sets only.
LEMMA EvTabInv ==
  ASSUME ShellTypeOK', TabInv, NEW t \in AgentTabs, EvalTab(t)
  PROVE  TabInv'
<1>0. ev \in EvTab /\ evReqs \subseteq EvReq /\ results \in Results /\ TabFlags /\ TabCompares
  BY DEF TabInv, TabTypeOK
<1>1. PICK p, q : p = EvReqNew("runs") /\ q = EvReqNew("sets")
  OBVIOUS
<1>2. p \in EvReq /\ q \in EvReq /\ p.k = "runs" /\ q.k = "sets"
  BY <1>1, EvReqTyped DEF EvKinds
<1>3. /\ evReqs' = evReqs \cup (IF t = "eval" THEN {p, q} ELSE {})
      /\ ev' = [ev EXCEPT !.loading = ev.loading \/ t = "eval"] /\ results' = results
  BY <1>1 DEF EvalTab
<1>4. ev' \in EvTab
  BY <1>0, <1>3 DEF EvTab
<1>5. /\ ev'.uploading = ev.uploading /\ ev'.triggering = ev.triggering
      /\ ev'.comparing = ev.comparing /\ (ev'.loading <=> ev.loading \/ t = "eval")
      /\ ev'.a = ev.a /\ ev'.b = ev.b
  BY <1>0, <1>3 DEF EvTab
<1>6. TabFlags'
  BY <1>0, <1>2, <1>3, <1>5 DEF TabFlags, OneChain
<1>. QED BY <1>0, <1>2, <1>3, <1>4, <1>5, <1>6 DEF TabInv, TabTypeOK, TabCompares

(***************************************************************************)
(* The page /evaluations.                                                  *)
(***************************************************************************)
PageTypeOK == evp \in EvPage /\ evpReqs \subseteq EvpReq

\* While no agent was picked over a request, every request is about the agent
\* picked, and the runs of another one are only on screen until its answer.
Uncrossed ==
  ~evp.crossed => /\ \A r \in evpReqs : r.agent = evp.agent
                  /\ \/ evp.runsOf \in {0, evp.agent}
                     \/ \E r \in evpReqs : r.k = "load"

PageInv == PageTypeOK /\ Uncrossed /\ (evp.a # 0 => evp.a # evp.b)

EvpReqNew(i, k, a) == [id |-> i, k |-> k, agent |-> a, st |-> "asked"]

LEMMA EvpReqTyped ==
  ASSUME NEW i \in Ids, NEW k \in {"load", "trigger"}, NEW a \in 1..2
  PROVE  EvpReqNew(i, k, a) \in EvpReq /\ EvpReqNew(i, k, a).k = k /\ EvpReqNew(i, k, a).agent = a
  BY DEF EvpReqNew, EvpReq

LEMMA EvpStepInv ==
  ASSUME ShellTypeOK', PageInv, EvaluationsStep
  PROVE  PageInv'
<1>0. evp \in EvPage /\ evpReqs \subseteq EvpReq /\ Uncrossed /\ (evp.a # 0 => evp.a # evp.b)
  BY DEF PageInv, PageTypeOK
<1>1. CASE HandleTrigger
  <2>1. evp.agent \in 1..2 /\ ops' \in Ids
    BY <1>0, <1>1 DEF HandleTrigger, EvPage, ShellTypeOK
  <2>2. PICK q : q = EvpReqNew(ops', "trigger", evp.agent)
    OBVIOUS
  <2>3. evpReqs' = evpReqs \cup {q} /\ q \in EvpReq /\ q.agent = evp.agent
    BY <1>1, <2>1, <2>2, EvpReqTyped DEF HandleTrigger, EvpAsk, EvpReqNew
  <2>4. /\ evp' \in EvPage /\ evp'.a = evp.a /\ evp'.b = evp.b /\ evp'.agent = evp.agent
        /\ evp'.runsOf = evp.runsOf /\ evp'.crossed = evp.crossed
    BY <1>0, <1>1 DEF HandleTrigger, EvPage
  <2>. QED BY <1>0, <2>3, <2>4 DEF PageInv, PageTypeOK, Uncrossed
<1>2. ASSUME NEW a \in 0..2, PickAgent(a) PROVE PageInv'
  <2>1. /\ evp' \in EvPage /\ evp'.a = 0 /\ evp'.agent = a /\ evp'.runsOf = evp.runsOf
        /\ (evp'.crossed <=> evp.crossed \/ evpReqs # {} \/ a = 0)
    BY <1>0, <1>2, CountsHold DEF PickAgent, EvPage
  <2>2. CASE a = 0
    BY <1>0, <1>2, <2>1, <2>2 DEF PickAgent, PageInv, PageTypeOK, Uncrossed
  <2>3. CASE a # 0
    <3>1. a \in 1..2 /\ ops' \in Ids
      BY <2>3 DEF ShellTypeOK
    <3>2. PICK q : q = EvpReqNew(ops', "load", a)
      OBVIOUS
    <3>3. evpReqs' = evpReqs \cup {q} /\ q \in EvpReq /\ q.agent = a /\ q.k = "load"
      BY <1>2, <2>3, <3>1, <3>2, EvpReqTyped DEF PickAgent, EvpAsk, EvpReqNew
    <3>. QED BY <1>0, <2>1, <3>3 DEF PageInv, PageTypeOK, Uncrossed
  <2>. QED BY <2>2, <2>3
<1>3. ASSUME NEW n \in 1..MaxRuns, ToggleCompare(n) PROVE PageInv'
  <2>1. n \in Counts /\ n # 0
    BY EvaluationsAssumption DEF Counts
  <2>2. \/ evp' \in {[evp EXCEPT !.a = 0], [evp EXCEPT !.b = 0], [evp EXCEPT !.a = n, !.b = 0]}
        \/ evp.b # n /\ evp' = [evp EXCEPT !.a = n]
        \/ evp.a # n /\ evp' = [evp EXCEPT !.b = n]
    BY <1>3 DEF ToggleCompare
  <2>3. /\ evp' \in EvPage /\ (evp'.a # 0 => evp'.a # evp'.b) /\ evp'.agent = evp.agent
        /\ evp'.runsOf = evp.runsOf /\ evp'.crossed = evp.crossed
    BY <1>0, <2>1, <2>2, CountsHold DEF EvPage
  <2>. QED BY <1>0, <1>3, <2>3 DEF ToggleCompare, PageInv, PageTypeOK, Uncrossed
<1>4. ASSUME NEW r \in evpReqs, EvpServed(r) PROVE PageInv'
  <2>1. PICK s \in {"ok", "failed"} : evpReqs' = (evpReqs \ {r}) \cup {[r EXCEPT !.st = s]}
    BY <1>4 DEF EvpServed
  <2>2. PICK q : q = [r EXCEPT !.st = s]
    OBVIOUS
  <2>3. q \in EvpReq /\ q.k = r.k /\ q.agent = r.agent
    BY <1>0, <2>2 DEF EvpReq
  <2>. QED BY <1>0, <1>4, <2>1, <2>2, <2>3 DEF EvpServed, PageInv, PageTypeOK, Uncrossed
<1>5. ASSUME NEW r \in evpReqs, LoadRuns(r) PROVE PageInv'
  <2>1. r.agent \in 1..2
    BY <1>0 DEF EvpReq
  <2>2. PICK x \in {0, r.agent}, t \in BOOLEAN :
           evp' = [evp EXCEPT !.runsOf = x, !.loading = FALSE, !.triggering = t]
    <3>1. (evp.triggering /\ r.k # "reload") \in BOOLEAN
      OBVIOUS
    <3>. QED BY <1>5, <3>1 DEF LoadRuns
  <2>3. x \in 0..2
    BY <2>1
  <2>4. evp' \in EvPage
    BY <1>0, <2>2, <2>3 DEF EvPage
  <2>5. /\ evp'.a = evp.a /\ evp'.b = evp.b /\ evp'.agent = evp.agent
        /\ evp'.runsOf = x /\ evp'.crossed = evp.crossed
    BY <1>0, <2>2 DEF EvPage
  <2>. QED BY <1>0, <1>5, <2>4, <2>5 DEF LoadRuns, PageInv, PageTypeOK, Uncrossed
<1>6. ASSUME NEW r \in evpReqs, HandleTriggerReturns(r) PROVE PageInv'
  <2>1. PICK q : q = [r EXCEPT !.k = "reload", !.st = "asked"]
    OBVIOUS
  <2>2. q \in EvpReq /\ q.agent = r.agent
    BY <1>0, <2>1 DEF EvpReq
  <2>3. /\ evp' \in EvPage /\ evp'.a = evp.a /\ evp'.b = evp.b /\ evp'.agent = evp.agent
        /\ evp'.runsOf = evp.runsOf /\ evp'.crossed = evp.crossed
    BY <1>0, <1>6 DEF HandleTriggerReturns, EvPage
  <2>4. r.k = "trigger" /\ evpReqs' \in {evpReqs \ {r}, (evpReqs \ {r}) \cup {q}}
    BY <1>6, <2>1 DEF HandleTriggerReturns, EvpHandles
  <2>. QED BY <1>0, <2>2, <2>3, <2>4 DEF PageInv, PageTypeOK, Uncrossed
<1>. QED BY <1>1, <1>2, <1>3, <1>4, <1>5, <1>6 DEF EvaluationsStep

(***************************************************************************)
(* The inductive invariant.                                                *)
(***************************************************************************)
EvaluationsInv == TabInv /\ PageInv

LEMMA EvaluationsBlank ==
  /\ EvClosed \in EvTab /\ EvpClosed \in EvPage
  /\ \A p : ResultsAt(p) \subseteq Results
  /\ ~EvClosed.uploading /\ ~EvClosed.triggering /\ ~EvClosed.comparing /\ ~EvClosed.loading
  /\ EvClosed.b = 0 /\ EvpClosed.a = 0 /\ EvpClosed.runsOf = 0
  BY CountsHold DEF EvClosed, EvTab, EvpClosed, EvPage, ResultsAt, Results, NoResults

LEMMA EvaluationsStart ==
  ASSUME Init
  PROVE  EvaluationsInv
  BY EvaluationsBlank DEF Init, EvaluationsInit, EvaluationsInv, TabInv, TabTypeOK, TabFlags,
     OneChain, TabCompares, PageInv, PageTypeOK, Uncrossed

LEMMA EvaluationsInvKept == ShellTypeOK /\ EvaluationsInv /\ [Next]_vars => EvaluationsInv'
<1>. SUFFICES ASSUME ShellTypeOK, EvaluationsInv, [Next]_vars PROVE EvaluationsInv'
  OBVIOUS
<1>a. UNCHANGED evVars => TabInv'
  BY DEF evVars, EvaluationsInv, TabInv, TabTypeOK, TabFlags, OneChain, TabCompares
<1>b. UNCHANGED evpVars => PageInv'
  BY DEF evpVars, EvaluationsInv, PageInv, PageTypeOK, Uncrossed
<1>1. CASE UNCHANGED <<evVars, evpVars>>
  BY <1>a, <1>b, <1>1 DEF EvaluationsInv
<1>2. CASE Stays /\ EvalStep /\ UNCHANGED evpVars
  BY <1>b, <1>2, StaysTyped, EvStepTyped, EvStepFlags, EvStepCompares DEF EvaluationsInv, TabInv
<1>3. CASE Stays /\ (\E t \in AgentTabs : EvalTab(t)) /\ UNCHANGED evpVars
  BY <1>b, <1>3, StaysTyped, EvTabInv DEF EvaluationsInv
<1>4. CASE Stays /\ EvaluationsStep /\ UNCHANGED evVars
  BY <1>a, <1>4, StaysTyped, EvpStepInv DEF EvaluationsInv
<1>5. ASSUME NEW done \in SUBSET agReqs, Moves(done) PROVE EvaluationsInv'
  <2>1. EvalSwitch => TabInv'
    <3>1. CASE ev' = EvClosed /\ evReqs' = {} /\ results' \in ResultsAt(page')
      BY <3>1, EvaluationsBlank DEF TabInv, TabTypeOK, TabFlags, OneChain, TabCompares
    <3>. QED BY <1>a, <3>1 DEF EvalSwitch
  <2>2. EvaluationsSwitch => PageInv'
    <3>1. CASE evp' = EvpClosed /\ evpReqs' = {}
      BY <3>1, EvaluationsBlank DEF PageInv, PageTypeOK, Uncrossed
    <3>. QED BY <1>b, <3>1 DEF EvaluationsSwitch
  <2>. QED BY <1>5, <2>1, <2>2 DEF Moves, PagesSwitch, EvaluationsInv
<1>. QED BY <1>1, <1>2, <1>3, <1>4, <1>5, EvaluationsMoves

THEOREM EvaluationsSafe == Spec => []EvaluationsInv
<1>1. Init => EvaluationsInv
  BY EvaluationsStart
<1>. QED BY <1>1, ShellTyped, EvaluationsInvKept, PTL DEF Spec

(***************************************************************************)
(* Theorems.                                                               *)
(***************************************************************************)
\* Every value of the evaluation tab and of the page /evaluations is in range.
THEOREM EvaluationsTyped == Spec => []EvaluationsTypeOK
<1>1. EvaluationsInv => EvaluationsTypeOK
  BY DEF EvaluationsInv, TabInv, TabTypeOK, PageInv, PageTypeOK, EvaluationsTypeOK
<1>. QED BY <1>1, EvaluationsSafe, PTL

LEMMA ChainsCounted ==
  ASSUME NEW flag \in BOOLEAN, NEW ks, OneChain(flag, ks)
  PROVE  Cardinality({r \in evReqs : r.k \in ks}) = (IF flag THEN 1 ELSE 0)
<1>. DEFINE C == {r \in evReqs : r.k \in ks}
<1>1. CASE flag
  <2>1. PICK r : r \in C
    BY <1>1 DEF OneChain
  <2>2. C = {r}
    BY <2>1 DEF OneChain
  <2>. QED BY <1>1, <2>2, FS_Singleton
<1>2. CASE ~flag
  <2>1. C = {}
    BY <1>2 DEF OneChain
  <2>. QED BY <1>2, <2>1, FS_EmptySet
<1>. QED BY <1>1, <1>2

\* Uploading, triggering and comparing exclude themselves, tab or no tab: the
\* flag is set exactly as long as one chain of requests is under way.
THEOREM EvalFlagsMatch == Spec => []EvalFlagsMatchRequests
<1>1. ASSUME EvaluationsInv PROVE EvalFlagsMatchRequests
  <2>1. ev.uploading \in BOOLEAN /\ ev.triggering \in BOOLEAN /\ ev.comparing \in BOOLEAN
    BY <1>1 DEF EvaluationsInv, TabInv, TabTypeOK, EvTab
  <2>2. TabFlags
    BY <1>1 DEF EvaluationsInv, TabInv
  <2>3. /\ Cardinality({r \in evReqs : r.k \in {"upload", "newSets"}}) = (IF ev.uploading THEN 1 ELSE 0)
        /\ Cardinality({r \in evReqs : r.k \in {"trigger", "newRuns"}}) = (IF ev.triggering THEN 1 ELSE 0)
        /\ Cardinality({r \in evReqs : r.k \in {"compare"}}) = (IF ev.comparing THEN 1 ELSE 0)
    BY <2>1, <2>2, ChainsCounted DEF TabFlags
  <2>. QED BY <2>2, <2>3 DEF EvalFlagsMatchRequests, TabFlags
<1>. QED BY <1>1, EvaluationsSafe, PTL

\* A comparison is always between two different runs.
THEOREM ComparisonsDistinct == Spec => []ComparedRunsDistinct
<1>1. EvaluationsInv => ComparedRunsDistinct
  BY DEF EvaluationsInv, TabInv, TabCompares, PageInv, ComparedRunsDistinct
<1>. QED BY <1>1, EvaluationsSafe, PTL

\* At rest the page lists the runs of the agent picked, unless another agent
\* was picked over a request.
THEOREM RunsAreOfThePicked == Spec => []EvaluationsOfThePicked
<1>1. EvaluationsInv => EvaluationsOfThePicked
  BY DEF EvaluationsInv, PageInv, Uncrossed, EvaluationsOfThePicked
<1>. QED BY <1>1, EvaluationsSafe, PTL
=============================================================================
