----------------------------- MODULE Dashboard -----------------------------
(***************************************************************************)
(* The dashboard: its pages, the provider of notifications that outlives   *)
(* them, and the navigations between them.  A page acts while it is        *)
(* mounted; what it leaves in flight when the operator goes elsewhere is   *)
(* decided by the Switch of its module.                                    *)
(*                                                                         *)
(*   signing  the login page has sent its form                             *)
(*                                                                         *)
(* Three kinds of answer navigate by themselves, from whatever page the    *)
(* operator is on by then: an agent was deleted (softly), an agent was     *)
(* created, a knowledge base was created or deleted (by loading the        *)
(* document).  So does any answer 401.                                     *)
(***************************************************************************)
EXTENDS ComparePanel, SkillsPage

CONSTANTS
    MaxWaiting    \* bound: requests of an agent's tabs in flight when another tab is
                  \* opened, or the agent deleted

ASSUME DashboardAssumption == MaxWaiting \in Nat \ {0}

VARIABLES signing

chatFamily == <<chatVars, cmpVars>>
agentFamily == <<agVars, roVars, evVars>>
otherFamily == <<evpVars, wzVars, kpVars, knVars, ctVars, skVars>>
vars == <<shellVars, noteVars, chatFamily, agentFamily, otherFamily, signing>>

DashboardTypeOK ==
    /\ ShellTypeOK /\ NotificationsTypeOK /\ ChatTypeOK /\ CompareTypeOK
    /\ AgentTypeOK /\ RolloutTypeOK /\ EvaluationsTypeOK /\ WizardTypeOK
    /\ KnowledgeTypeOK /\ CatalogTypeOK /\ SkillsTypeOK
    /\ signing \in BOOLEAN

(***************************************************************************)
(* The page that is mounted, and the provider.                             *)
(***************************************************************************)
OfProvider(A) == A /\ UNCHANGED <<chatFamily, agentFamily, otherFamily, signing>>

ProviderStep == OfProvider(NotificationsNext)

ChatPageStep ==
    /\ \/ PlainChatStep /\ UNCHANGED cmpVars
       \/ CompareStep /\ UNCHANGED <<noteVars, chatVars>>
    /\ UNCHANGED <<agentFamily, otherFamily, signing>>

AgentPageStep ==
    /\ \/ /\ Cardinality(roReqs) + Cardinality(evReqs) < MaxWaiting
          /\ \/ \E t \in AgentTabs : AgentTab(t) /\ RolloutTab(t) /\ EvalTab(t)
             \/ DeleteAgent /\ UNCHANGED <<roVars, evVars>>
       \/ AgentStep /\ UNCHANGED <<roVars, evVars>>
       \/ RolloutStep /\ UNCHANGED <<ag, agReqs, evVars>>
       \/ EvalStep /\ UNCHANGED <<agVars, roVars>>
    /\ UNCHANGED <<noteVars, chatFamily, otherFamily, signing>>

OtherPageStep ==
    /\ \/ EvaluationsStep /\ UNCHANGED <<wzVars, kpVars, knVars, ctVars, skVars, signing>>
       \/ WizardStep /\ UNCHANGED <<evpVars, kpVars, knVars, ctVars, skVars, signing>>
       \/ KbStep /\ UNCHANGED <<evpVars, wzVars, ctVars, skVars, signing>>
       \/ CatalogStep /\ UNCHANGED <<evpVars, wzVars, kpVars, knVars, skVars, signing>>
       \/ SkillsStep /\ UNCHANGED <<evpVars, wzVars, kpVars, knVars, signing>>
    /\ UNCHANGED <<noteVars, chatFamily, agentFamily>>

(***************************************************************************)
(* The login page.                                                         *)
(***************************************************************************)
HandleSubmit ==
    /\ On("login") /\ Click /\ ~signing /\ signing' = TRUE
    /\ UNCHANGED <<noteVars, chatFamily, agentFamily, otherFamily>>

LoginFails ==
    /\ signing /\ signing' = FALSE /\ Unattended
    /\ UNCHANGED <<noteVars, chatFamily, agentFamily, otherFamily>>

(***************************************************************************)
(* Navigation.                                                             *)
(***************************************************************************)
\* What every page does when the mounted page, or the document, changes.
PagesSwitch(done) ==
    /\ ChatSwitch /\ CompareSwitch
    /\ AgentSwitch(done) /\ RolloutSwitch /\ EvalSwitch /\ EvaluationsSwitch
    /\ WizardSwitch /\ KbSwitch /\ CatalogSwitch /\ SkillsSwitch
    /\ signing' = FALSE

\* Mutant: the provider is mounted by the page.
ProviderSwitchAlways == ProviderBlank /\ UNCHANGED pendingCid

\* The provider keeps its state as long as the document lives.
ProviderSwitch ==
    /\ IF Reloading THEN ProviderBlank ELSE UNCHANGED bellVars
    /\ UNCHANGED pendingCid

\* A link of the sidebar or of a page, an entry of the command palette; to a
\* page where something can still be clicked.
GoTo(p) ==
    /\ Click /\ ops' < Clicks[p] /\ page # "login" /\ p # "login" /\ Soft(p)
    /\ ProviderSwitch /\ PagesSwitch({})

\* A click on a notice; on the chat page itself router.push does nothing.
GoToChat(n) ==
    /\ BellClick /\ FollowNotice(n) /\ UNCHANGED <<watched, ticks>>
    /\ IF page = "chat"
       THEN /\ UNCHANGED <<page, document, conv, activeId>>
            /\ UNCHANGED <<chatFamily, agentFamily, otherFamily, signing>>
       ELSE Soft("chat") /\ PagesSwitch({})

\* The operator loads the page again.
Refresh == Click /\ Hard(page) /\ ProviderSwitch /\ PagesSwitch({})

\* The topbar's log out.
LogOut == Click /\ page # "login" /\ Hard("login") /\ ProviderSwitch /\ PagesSwitch({})

\* apiFetch on an answer 401.
Unauthorized ==
    page # "login" /\ Hard("login") /\ UNCHANGED ops /\ ProviderSwitch /\ PagesSwitch({})

LoginSucceeds ==
    signing /\ Hard("agents") /\ UNCHANGED ops /\ ProviderSwitch /\ PagesSwitch({})

\* The answer to a deletion takes the operator to the list of agents.
AgentGone(r) ==
    /\ AgentDeleted(r) /\ UNCHANGED ops
    /\ IF page = "agents"
       THEN /\ UNCHANGED <<page, document, noteVars, chatFamily, ag, remote>>
            /\ agReqs' = agReqs \ {r}
            /\ UNCHANGED <<roVars, evVars, otherFamily, signing>>
       ELSE Soft("agents") /\ ProviderSwitch /\ PagesSwitch({r})

\* window.location after a creation, and after a command on a base.
AgentMade(o) ==
    /\ o.st = "leave" /\ Hard("agents") /\ UNCHANGED ops
    /\ ProviderSwitch /\ PagesSwitch({})

BaseLeft(o) ==
    /\ o.st = "leave" /\ Hard(o.to) /\ UNCHANGED ops
    /\ ProviderSwitch /\ PagesSwitch({})

Navigation ==
    \/ \E p \in Pages : GoTo(p)
    \/ \E n \in notices : GoToChat(n)
    \/ Refresh \/ LogOut \/ Unauthorized \/ LoginSucceeds
    \/ \E r \in agReqs : AgentGone(r)
    \/ \E o \in wzOut : AgentMade(o)
    \/ \E o \in kbOut : BaseLeft(o)

Init ==
    /\ ShellInit
    /\ NotificationsInit
    /\ ChatInit /\ CompareInit
    /\ AgentInit /\ RolloutInit /\ EvaluationsInit
    /\ WizardInit /\ KbInit /\ CatalogInit /\ SkillsInit
    /\ signing = FALSE

Next ==
    \/ ProviderStep \/ ChatPageStep \/ AgentPageStep \/ OtherPageStep
    \/ HandleSubmit \/ LoginFails \/ Navigation

Spec == Init /\ [][Next]_vars

(***************************************************************************)
(* Properties                                                              *)
(***************************************************************************)
\* Whoever leaves the chat page is told of the answer: a watch is only given
\* up when its end is announced, when the run that noticed the end began with
\* that conversation on screen, or when the document itself is loaded again.
\* No navigation between pages, and nothing done with the bell, drops one.
WatchEndsAnnounced ==
    [][\A c \in watched \ watched' :
          \/ document' # document
          \/ [cid |-> c, read |-> FALSE] \in notices'
          \/ [at |-> c, active |-> c] \in ticks]_vars
=============================================================================
