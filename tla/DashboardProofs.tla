-------------------------- MODULE DashboardProofs --------------------------
(***************************************************************************)
(* What every step of the dashboard does to the mounted page, and which    *)
(* part of the state it may touch.  The proofs about the single pages are  *)
(* built on the lemmas of this module; its own theorems are the type       *)
(* correctness of the frame and WatchEndsAnnounced.                        *)
(***************************************************************************)
EXTENDS Dashboard, TLAPS

\* A step of a mounted page, or of the provider, does not navigate.
Stays == UNCHANGED <<page, document>> /\ (ops' = ops \/ Click \/ BellClick)

\* Another page, or the same one in another document.
Moves(done) ==
    /\ page' \in Pages /\ document' \in {document, 1 - document}
    /\ page' # page \/ document' # document
    /\ ops' = ops \/ Click \/ BellClick
    /\ PagesSwitch(done)
    /\ done \subseteq {r \in agReqs : r.k = "delete"}

(***************************************************************************)
(* The steps of the pages.                                                 *)
(***************************************************************************)
LEMMA ChatStays ==
  ASSUME PlainChatStep \/ CompareStep
  PROVE  Stays
  BY DEF PlainChatStep, ChatStep, CompareStep, Stays, On, Unattended, shellVars,
     AgentsArrive, NewChat, SelectAgent, LoadConversation, DeleteConversation, DeleteServed,
     DeleteReturns, LoadServed, LoadApplied, PollAnswers, PollStep, PollFinal, SendMessage,
     MessageAccepted, MessageRefused, Token, Announce, Done, StreamEnds,
     CompareToggle, CompareSend, CompareOpens, CompareToken, CompareEnds

LEMMA ProviderStays ==
  ASSUME NotificationsNext
  PROVE  Stays
  BY DEF NotificationsNext, Stays, Unattended, shellVars, StatusAnswers, GenerationEnds,
     WatchEnds, BellToggle, BellReadTimer, ClearAll, Dismiss

LEMMA AgentStays ==
  ASSUME AgentStep \/ DeleteAgent \/ \E t \in AgentTabs : AgentTab(t)
  PROVE  Stays
  BY DEF AgentStep, AgentTab, Stays, On, Unattended, shellVars, OnAgent, AgHandles,
     HandleAgentAction, ScaleOpen, ScaleCancel, HandleScale, ConfigEdit, HandleConfigSave,
     DeleteAgent, AgServed, AgentLoaded, AgentLoadFails, AgentActionReturns, AgentRefetched,
     ScaleReturns, ConfigSaveReturns, AgentDeleteFails

LEMMA RolloutStays ==
  ASSUME RolloutStep
  PROVE  Stays
  BY DEF RolloutStep, Stays, On, Unattended, shellVars, OnAgent, OnCanaryPanel, OnReleases,
     RoHandles, WeightSlides, CanaryCommand, AdjustReturns, PromoteReturns, RollbackReturns,
     DeployRelease, ReleaseDeployed, ReleasesRefetched, StartCanary, CanaryStarted,
     CanaryStartedQuietly, ToggleRelease, DetailArrives, DiffWithPrevious, DiffArrives,
     DiffCloses, StatusArrives, ReleasesArrive, RoServed

LEMMA EvaluationsStays ==
  ASSUME EvalStep \/ EvaluationsStep
  PROVE  Stays
  BY DEF EvalStep, EvaluationsStep, Stays, On, Unattended, shellVars, OnAgent, OnEval, OnEvalList,
     EvHandles, UploadDialog, UploadDataset, TriggerEval, CompareRuns, ComparisonCloses,
     ClearComparison, SelectDataset, TickRun, EvServed, RunsArrive, DatasetsArrive,
     UploadReturns, TriggerReturns, CompareReturns, OnEvaluations, EvpHandles, HandleTrigger,
     PickAgent, ToggleCompare, EvpServed, LoadRuns, HandleTriggerReturns

LEMMA WizardStays ==
  ASSUME WizardStep
  PROVE  Stays
  BY DEF WizardStep, Stays, On, Unattended, shellVars, OnWizard, HandleTypeChange, NameStep,
     PromptStep, DeliveryStep, Fill, WizardNextStep, WizardBack, HandleCreate,
     HandleCreateReady, AutoDeployed, HandleCreateCustom

LEMMA KbStays ==
  ASSUME KbStep
  PROVE  Stays
  BY DEF KbStep, KbPageStep, Stays, On, Unattended, shellVars, OnKb, KpHandles, KbTab,
     PollRefresh, AddFiles, StartIngestion, RunRetrieval, HandleSettingsSave, RemoveFile,
     HandleDeleteDocument, DocumentIngested, UploadServed, IngestionStep, KpAnswered, KpFailed,
     FirstRefresh, PollRefreshed, IngestionEnds, DocumentDeleted, DeletionRefreshed,
     RetrievalReturns, SettingsSaved, DeleteKb, CreateKb, KbAnswered

LEMMA CatalogStays ==
  ASSUME CatalogStep
  PROVE  Stays
  BY DEF CatalogStep, MemoryStep, IntegrationsStep, TeamsStep, GovernanceStep, PromptsStep, Stays, On, Unattended, shellVars, OnCatalog, CtHandles, MemoryAgentsArrive,
     MemorySearch, ClearSearch, MemoryForm, MemoryAdd, IntegrationModal, IntegrationCreate,
     OnIntegrations, OnTeams, OnPolicies, TeamCreate, GovernanceTab, PolicyForm, PolicyCreate,
     PromptCreate, PickMemoryAgent, MemoryDelete, IntegrationDelete, IntegrationTest, TeamDelete,
     TeamToggle, PolicyDelete, PromptChange, MemberCommand, CtServed, MemoriesArrive,
     MemoryFound, MemoryAdded, MemoryDeleted, IntegrationsArrive, IntegrationCreated,
     IntegrationsReloaded, IntegrationDeleted, IntegrationTested, TeamsArrive, TeamCreated,
     TeamDeleted, MemberCommandReturns, MembersArrive, PoliciesArrive, PolicyCreated,
     PolicyDeleted, PromptsArrive, PromptSaved, AgentsListed, BasesListed

LEMMA SkillsStays ==
  ASSUME SkillsStep
  PROVE  Stays
  BY DEF SkillsStep, Stays, On, Unattended, shellVars, OnSkills, OnCatalog, CtHandles, OpenCreate,
     CloseModal, HandleSave, SkillsTab, HandleImport, OpenEdit, SkillDelete, SkillDetail,
     AssignSkill, SkillsArrive, SkillSaved, SkillDeleted, SkillImported, SkServed,
     SkillAssigned, SkillAgentsArrive

LEMMA PagesStay ==
  ASSUME ProviderStep \/ ChatPageStep \/ AgentPageStep \/ OtherPageStep \/ HandleSubmit \/ LoginFails
  PROVE  Stays
<1>1. ASSUME ProviderStep PROVE Stays
  BY <1>1, ProviderStays DEF ProviderStep, OfProvider
<1>2. ASSUME ChatPageStep PROVE Stays
  BY <1>2, ChatStays DEF ChatPageStep
<1>3. ASSUME AgentPageStep PROVE Stays
  BY <1>3, AgentStays, RolloutStays, EvaluationsStays DEF AgentPageStep
<1>4. ASSUME OtherPageStep PROVE Stays
  BY <1>4, EvaluationsStays, WizardStays, KbStays, CatalogStays, SkillsStays DEF OtherPageStep
<1>5. ASSUME HandleSubmit \/ LoginFails PROVE Stays
  BY <1>5 DEF HandleSubmit, LoginFails, Stays, On, Unattended, shellVars
<1>. QED BY <1>1, <1>2, <1>3, <1>4, <1>5

(***************************************************************************)
(* Navigation.                                                             *)
(***************************************************************************)
\* A click on a notice on the chat page itself, and the answer to a deletion
\* on the list of agents, navigate nowhere.
Rings ==
    /\ Stays
    /\ UNCHANGED <<conv, watched, activeId, ticks, chatFamily, agentFamily, otherFamily, signing>>

Cleared(r) ==
    /\ Stays
    /\ page = "agents" /\ r \in agReqs /\ AgentDeleted(r) /\ agReqs' = agReqs \ {r}
    /\ UNCHANGED <<noteVars, chatFamily, ag, remote, roVars, evVars, otherFamily, signing>>

LEMMA NavigationCases ==
  ASSUME ShellTypeOK, Navigation
  PROVE  Rings \/ (\E r \in agReqs : Cleared(r)) \/ (\E done \in SUBSET agReqs : Moves(done))
<1>. DEFINE Goal == Rings \/ (\E r \in agReqs : Cleared(r))
                          \/ (\E done \in SUBSET agReqs : Moves(done))
<1>1. ASSUME \E p \in Pages : GoTo(p) PROVE Moves({})
  BY <1>1 DEF GoTo, Soft, Moves, ShellTypeOK
<1>2. ASSUME NEW n \in notices, GoToChat(n) PROVE Rings \/ Moves({})
  <2>1. CASE page = "chat"
    BY <1>2, <2>1 DEF GoToChat, Rings, Stays, FollowNotice
  <2>2. CASE page # "chat"
    BY <1>2, <2>2 DEF GoToChat, Soft, Moves, ShellTypeOK
  <2>. QED BY <2>1, <2>2
<1>3. ASSUME Refresh \/ LogOut \/ Unauthorized \/ LoginSucceeds PROVE Moves({})
  BY <1>3 DEF Refresh, LogOut, Unauthorized, LoginSucceeds, Hard, Moves, ShellTypeOK
<1>4. ASSUME NEW r \in agReqs, AgentGone(r) PROVE Cleared(r) \/ Moves({r})
  <2>1. CASE page = "agents"
    BY <1>4, <2>1 DEF AgentGone, Cleared, Stays
  <2>2. CASE page # "agents"
    BY <1>4, <2>2 DEF AgentGone, AgentDeleted, Soft, Moves, ShellTypeOK
  <2>. QED BY <2>1, <2>2
<1>5. ASSUME (\E o \in wzOut : AgentMade(o)) \/ (\E o \in kbOut : BaseLeft(o)) PROVE Moves({})
  BY <1>5 DEF AgentMade, BaseLeft, Hard, Moves, ShellTypeOK
<1>. QED
  <2>1. {} \in SUBSET agReqs /\ \A r \in agReqs : {r} \in SUBSET agReqs
    OBVIOUS
  <2>. QED BY <1>1, <1>2, <1>3, <1>4, <1>5, <2>1 DEF Navigation

\* Every step is one of a page, or a navigation.
LEMMA StepCases ==
  ASSUME ShellTypeOK, [Next]_vars
  PROVE  \/ UNCHANGED vars
         \/ Stays /\ (\/ ProviderStep \/ ChatPageStep \/ AgentPageStep \/ OtherPageStep
                      \/ HandleSubmit \/ LoginFails)
         \/ Rings \/ (\E r \in agReqs : Cleared(r))
         \/ \E done \in SUBSET agReqs : Moves(done)
  BY PagesStay, NavigationCases DEF Next

(***************************************************************************)
(* The frame.                                                              *)
(***************************************************************************)
LEMMA StaysTyped ==
  ASSUME ShellTypeOK, Stays \/ \E done \in SUBSET agReqs : Moves(done)
  PROVE  ShellTypeOK'
  BY ShellAssumption DEF ShellTypeOK, Stays, Moves, Click, BellClick, Ids

\* The mounted page is one of the routes, and no more is clicked than counted.
THEOREM ShellTyped == Spec => []ShellTypeOK
<1>1. Init => ShellTypeOK
  BY ShellAssumption DEF Init, ShellInit, ShellTypeOK, Ids
<1>2. ShellTypeOK /\ [Next]_vars => ShellTypeOK'
  BY StepCases, StaysTyped DEF Rings, Cleared, vars, shellVars, ShellTypeOK
<1>. QED BY <1>1, <1>2, PTL DEF Spec

(***************************************************************************)
(* WatchEndsAnnounced.  Only a run of the polling callback, or a new       *)
(* document, takes a watch away; that the tick of such a run is the pair   *)
(* of its two fields is all the property needs to know of the state.       *)
(***************************************************************************)
TicksArePairs == \A t \in ticks : t = [at |-> t.at, active |-> t.active]

LEMMA ChatWatches ==
  ASSUME PlainChatStep
  PROVE  watched \subseteq watched' /\ ticks' = ticks
<1>1. CASE AgentsArrive \/ NewChat \/ (\E a \in Agents : SelectAgent(a))
           \/ \E c \in Conversations : LoadConversation(c) \/ DeleteConversation(c)
  BY <1>1 DEF AgentsArrive, NewChat, SelectAgent, LoadConversation, DeleteConversation,
     noteVars, bellVars
<1>2. CASE \/ \E d \in deletes : DeleteServed(d) \/ DeleteReturns(d)
           \/ \E l \in loads : LoadServed(l)
           \/ \E p \in polls : PollAnswers(p)
           \/ \E t \in pollTicks : PollStep(t) \/ PollFinal(t)
  BY <1>2 DEF DeleteServed, DeleteReturns, LoadServed, PollAnswers, PollStep, PollFinal,
     noteVars, bellVars
<1>3. CASE \E l \in loads : LoadApplied(l)
  <2>1. PICK l \in loads : LoadApplied(l)
    BY <1>3
  <2>. QED BY <2>1 DEF LoadApplied
<1>4. CASE SendMessage \/ \E s \in streams : \/ MessageAccepted(s) \/ MessageRefused(s) \/ Token(s)
                                            \/ Announce(s) \/ Done(s) \/ StreamEnds(s)
  BY <1>4 DEF SendMessage, MessageAccepted, MessageRefused, Token, Announce, Done, StreamEnds,
     noteVars, bellVars
<1>. QED BY <1>1, <1>2, <1>3, <1>4 DEF PlainChatStep, ChatStep

LEMMA NavigationWatches ==
  ASSUME ShellTypeOK, Navigation
  PROVE  UNCHANGED <<watched, ticks>> \/ (document' # document /\ ticks' = {})
<1>1. CASE (\E p \in Pages : GoTo(p)) \/ (\E n \in notices : GoToChat(n))
  BY <1>1 DEF GoTo, GoToChat, ProviderSwitch, ProviderBlank, Reloading, bellVars
<1>2. CASE Refresh \/ LogOut \/ Unauthorized \/ LoginSucceeds
  BY <1>2 DEF Refresh, LogOut, Unauthorized, LoginSucceeds, ProviderSwitch, ProviderBlank,
     Reloading, bellVars
<1>3. CASE \E r \in agReqs : AgentGone(r)
  BY <1>3 DEF AgentGone, ProviderSwitch, ProviderBlank, Reloading, bellVars, noteVars
<1>4. CASE (\E o \in wzOut : AgentMade(o)) \/ (\E o \in kbOut : BaseLeft(o))
  BY <1>4 DEF AgentMade, BaseLeft, ProviderSwitch, ProviderBlank, Reloading, bellVars
<1>. QED BY <1>1, <1>2, <1>3, <1>4 DEF Navigation

\* What any step may do to the watches.
LEMMA WatchSteps ==
  ASSUME ShellTypeOK, [Next]_vars
  PROVE  \/ watched \subseteq watched' /\ ticks' = ticks
         \/ \E c \in Conversations : StatusAnswers(c)
         \/ \E t \in ticks : WatchEnds(t)
         \/ document' # document /\ ticks' = {}
<1>1. CASE ProviderStep
  BY <1>1 DEF ProviderStep, OfProvider, NotificationsNext, GenerationEnds, BellToggle,
     BellReadTimer, ClearAll, Dismiss
<1>2. CASE ChatPageStep
  BY <1>2, ChatWatches DEF ChatPageStep, noteVars
<1>3. CASE AgentPageStep \/ OtherPageStep \/ HandleSubmit \/ LoginFails
  BY <1>3 DEF AgentPageStep, OtherPageStep, HandleSubmit, LoginFails, noteVars
<1>4. CASE Navigation
  BY <1>4, NavigationWatches
<1>5. CASE UNCHANGED vars
  BY <1>5 DEF vars, noteVars
<1>. QED BY <1>1, <1>2, <1>3, <1>4, <1>5 DEF Next

\* A tick always remembers its conversation and the one that was on screen.
LEMMA TicksStayPairs == TicksArePairs /\ ShellTypeOK /\ [Next]_vars => TicksArePairs'
<1>. SUFFICES ASSUME TicksArePairs, ShellTypeOK, [Next]_vars PROVE TicksArePairs'
  OBVIOUS
<1>1. CASE \E c \in Conversations : StatusAnswers(c)
  BY <1>1 DEF StatusAnswers, TicksArePairs
<1>2. CASE \E t \in ticks : WatchEnds(t)
  BY <1>2 DEF WatchEnds, TicksArePairs
<1>. QED BY <1>1, <1>2, WatchSteps DEF TicksArePairs

\* Whoever leaves the chat page is told of the answer: a watch is given up
\* only when its end is announced, when it was on screen for the run that
\* noticed the end, or with the document.
THEOREM WatchesEndAnnounced == Spec => WatchEndsAnnounced
<1>. DEFINE Announced ==
       \A c \in watched \ watched' :
          \/ document' # document
          \/ [cid |-> c, read |-> FALSE] \in notices'
          \/ [at |-> c, active |-> c] \in ticks
<1>1. Init => TicksArePairs
  BY DEF Init, NotificationsInit, TicksArePairs
<1>2. ASSUME ShellTypeOK, TicksArePairs, [Next]_vars PROVE Announced
  <2>1. CASE \E t \in ticks : WatchEnds(t)
    <3>1. PICK t \in ticks : WatchEnds(t)
      BY <2>1
    <3>2. watched \ watched' \subseteq {t.at}
      BY <3>1 DEF WatchEnds
    <3>3. CASE t.active = t.at
      BY <1>2, <3>2, <3>3 DEF TicksArePairs
    <3>4. CASE t.active # t.at
      BY <3>1, <3>2, <3>4 DEF WatchEnds
    <3>. QED BY <3>3, <3>4
  <2>2. CASE ~\E t \in ticks : WatchEnds(t)
    BY <1>2, <2>2, WatchSteps DEF StatusAnswers
  <2>. QED BY <2>1, <2>2
<1>3. ShellTypeOK /\ TicksArePairs /\ [Next]_vars => [Announced]_vars
  BY <1>2
<1>. QED BY <1>1, <1>3, ShellTyped, TicksStayPairs, PTL DEF Spec, WatchEndsAnnounced
=============================================================================
