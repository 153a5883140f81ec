----------------------------- MODULE PageProofs -----------------------------
(***************************************************************************)
(* The proofs about the pages that keep a form or a list: the wizard, the  *)
(* lists of things, the assignments of skills, and a knowledge base with   *)
(* its documents and its uploads; and, from these and from ChatProofs and  *)
(* AgentProofs, the types of the whole dashboard.                          *)
(***************************************************************************)
EXTENDS ChatProofs, AgentProofs, FiniteSetTheorems, NaturalsInduction, WellFoundedInduction,
        SequenceTheorems

(***************************************************************************)
(* The wizard.  canProceed looks at one step only; that all the earlier    *)
(* ones are filled at the review is an invariant of the walk: a step that  *)
(* was passed can only be emptied by going back to it.                     *)
(***************************************************************************)
PassedAreFilled ==
    /\ wz.step > 2 => "Name" \in wz.filled
    /\ wz.type = "ready" /\ wz.step > 4 => "Prompt" \in wz.filled
    /\ wz.type = "custom" /\ wz.step > 6 => "Delivery" \in wz.filled
    /\ wz.type = "custom" => wz.step <= 7

Mine == {o \in wzOut : o.own /\ o.st # "leave"}

WizardInv ==
    /\ WizardTypeOK /\ PassedAreFilled
    /\ wz.creating => \E o \in wzOut : Mine = {o}
    /\ ~wz.creating => Mine = {}
    /\ page # "wizard" => Mine = {}

\* What any step may do to the wizard.
LEMMA WizardMoves ==
  ASSUME ShellTypeOK, [Next]_vars
  PROVE  \/ UNCHANGED <<page, wzVars>>
         \/ Stays /\ WizardStep
         \/ WizardSwitch
<1>1. CASE Stays /\ OtherPageStep
  BY <1>1 DEF OtherPageStep, Stays
<1>2. CASE Stays /\ (ProviderStep \/ ChatPageStep \/ AgentPageStep \/ HandleSubmit \/ LoginFails)
  BY <1>2 DEF ProviderStep, OfProvider, ChatPageStep, AgentPageStep, HandleSubmit, LoginFails,
     otherFamily, Stays
<1>3. CASE UNCHANGED vars \/ Rings \/ \E r \in agReqs : Cleared(r)
  BY <1>3 DEF Rings, Cleared, vars, otherFamily, Stays, shellVars
<1>4. CASE \E done \in SUBSET agReqs : Moves(done)
  BY <1>4 DEF Moves, PagesSwitch
<1>. QED BY <1>1, <1>2, <1>3, <1>4, StepCases

LEMMA StepNames ==
  /\ Len(READY_STEPS) = 8 /\ Len(CUSTOM_STEPS) = 7
  /\ \A i \in 1..8 :
        /\ READY_STEPS[i] = "Review" <=> i = 8
        /\ READY_STEPS[i] = "Type" <=> i = 1
        /\ READY_STEPS[i] = "Name" <=> i = 2
        /\ READY_STEPS[i] = "Prompt" <=> i = 4
        /\ READY_STEPS[i] # "Delivery"
  /\ \A i \in 1..7 :
        /\ CUSTOM_STEPS[i] = "Review" <=> i = 7
        /\ CUSTOM_STEPS[i] = "Type" <=> i = 1
        /\ CUSTOM_STEPS[i] = "Name" <=> i = 2
        /\ CUSTOM_STEPS[i] = "Delivery" <=> i = 6
        /\ CUSTOM_STEPS[i] # "Prompt"
  BY DEF READY_STEPS, CUSTOM_STEPS

LEMMA WizardFields ==
  ASSUME WizardInv
  PROVE  /\ wz.type \in {"ready", "custom"} /\ wz.step \in 1..8 /\ wz.filled \subseteq Required
         /\ wz.creating \in BOOLEAN /\ wz.result \in BOOLEAN
         /\ wz.type = "custom" => wz.step \in 1..7
         /\ current = "Review" <=> wz.step = (IF wz.type = "ready" THEN 8 ELSE 7)
         /\ current = "Type" <=> wz.step = 1
         /\ current = "Name" <=> wz.step = 2
         /\ current = "Prompt" <=> (wz.type = "ready" /\ wz.step = 4)
         /\ current = "Delivery" <=> (wz.type = "custom" /\ wz.step = 6)
<1>1. /\ wz.type \in {"ready", "custom"} /\ wz.step \in 1..8 /\ wz.filled \subseteq Required
      /\ wz.creating \in BOOLEAN /\ wz.result \in BOOLEAN
  BY StepNames DEF WizardInv, WizardTypeOK, WizardState
<1>2. wz.type = "custom" => wz.step \in 1..7
  BY <1>1 DEF WizardInv, PassedAreFilled
<1>. QED BY <1>1, <1>2, StepNames DEF current, steps

\* The walk through the steps.
LEMMA WizardWalks ==
  ASSUME WizardInv,
         \/ \E t \in {"ready", "custom"} : HandleTypeChange(t)
         \/ NameStep \/ PromptStep \/ DeliveryStep \/ WizardNextStep \/ WizardBack
  PROVE  WizardInv'
<1>0. wz \in WizardState /\ wz.step \in 1..8 /\ Required = {"Name", "Prompt", "Delivery"}
  BY WizardFields DEF WizardInv, WizardTypeOK, Required
<1>1. wzOut' = wzOut /\ page' = page
  BY DEF OnWizard, On, HandleTypeChange, NameStep, PromptStep, DeliveryStep, Fill, WizardNextStep, WizardBack
<1>2. ASSUME wz' \in WizardState, PassedAreFilled', wz'.creating = wz.creating PROVE WizardInv'
  BY <1>1, <1>2 DEF WizardInv, WizardTypeOK, Mine
<1>3. ASSUME NEW t \in {"ready", "custom"}, HandleTypeChange(t) PROVE WizardInv'
  <2>1. wz.step = 1 /\ wz' = [wz EXCEPT !.type = t, !.result = FALSE]
    BY <1>3, WizardFields DEF HandleTypeChange
  <2>2. wz' \in WizardState /\ wz'.step = 1 /\ wz'.creating = wz.creating
    BY <1>0, <2>1 DEF WizardState
  <2>. QED BY <1>2, <2>2 DEF PassedAreFilled
<1>4. ASSUME NEW s \in Required, Fill(s), s = current PROVE WizardInv'
  <2>1. wz' = [wz EXCEPT !.filled = IF s \in @ THEN @ \ {s} ELSE @ \cup {s}]
    BY <1>4 DEF Fill
  <2>2. /\ wz' \in WizardState /\ wz'.type = wz.type /\ wz'.step = wz.step
        /\ wz'.creating = wz.creating /\ \A x \in wz.filled \ {s} : x \in wz'.filled
    BY <1>0, <2>1 DEF WizardState
  <2>3. PassedAreFilled'
    BY <1>0, <1>4, <2>2, WizardFields DEF WizardInv, PassedAreFilled
  <2>. QED BY <1>2, <2>2, <2>3
<1>5. CASE NameStep \/ PromptStep \/ DeliveryStep
  BY <1>0, <1>4, <1>5 DEF NameStep, PromptStep, DeliveryStep, Fill
<1>6. CASE WizardNextStep
  <2>1. current # "Review" /\ CanProceed /\ wz' = [wz EXCEPT !.step = @ + 1]
    BY <1>6 DEF WizardNextStep
  <2>2. wz.step + 1 \in 1..8 /\ (wz.type = "custom" => wz.step + 1 <= 7)
    BY <1>0, <2>1, WizardFields
  <2>3. /\ wz' \in WizardState /\ wz'.type = wz.type /\ wz'.step = wz.step + 1
        /\ wz'.creating = wz.creating /\ wz'.filled = wz.filled
    BY <1>0, <2>1, <2>2, StepNames DEF WizardState
  <2>4. PassedAreFilled'
    BY <1>0, <2>1, <2>2, <2>3, WizardFields DEF WizardInv, PassedAreFilled, CanProceed
  <2>. QED BY <1>2, <2>3, <2>4
<1>7. CASE WizardBack
  <2>1. wz.step > 1 /\ wz' = [wz EXCEPT !.step = @ - 1]
    BY <1>7 DEF WizardBack
  <2>2. /\ wz' \in WizardState /\ wz'.type = wz.type /\ wz'.step = wz.step - 1
        /\ wz'.creating = wz.creating /\ wz'.filled = wz.filled
    BY <1>0, <2>1, StepNames DEF WizardState
  <2>3. PassedAreFilled'
    BY <1>0, <2>2 DEF WizardInv, PassedAreFilled
  <2>. QED BY <1>2, <2>2, <2>3
<1>. QED BY <1>3, <1>5, <1>6, <1>7

LEMMA WizardCreates ==
  ASSUME WizardInv,
         \/ HandleCreate
         \/ \E o \in wzOut : HandleCreateReady(o) \/ AutoDeployed(o) \/ HandleCreateCustom(o)
  PROVE  WizardInv'
<1>0. wz \in WizardState /\ wzOut \subseteq Creation
  BY DEF WizardInv, WizardTypeOK
<1>1. ASSUME NEW w \in WizardState, w.step = wz.step, w.type = wz.type, w.filled = wz.filled,
             wz' = w, wzOut' \subseteq Creation,
             w.creating => \E o \in wzOut' : Mine' = {o},
             ~w.creating => Mine' = {},
             page # "wizard" => Mine' = {}
      PROVE  WizardInv'
  <2>1. page' = page
    BY DEF HandleCreate, HandleCreateReady, AutoDeployed, HandleCreateCustom, OnWizard, On,
       Unattended, shellVars
  <2>. QED BY <1>1, <2>1 DEF WizardInv, WizardTypeOK, PassedAreFilled
<1>2. /\ [wz EXCEPT !.creating = TRUE] \in WizardState
      /\ [wz EXCEPT !.creating = FALSE] \in WizardState
      /\ [wz EXCEPT !.creating = FALSE, !.result = TRUE] \in WizardState
  BY <1>0 DEF WizardState
<1>3. /\ [wz EXCEPT !.creating = TRUE].creating
      /\ ~[wz EXCEPT !.creating = FALSE].creating
      /\ ~[wz EXCEPT !.creating = FALSE, !.result = TRUE].creating
      /\ \A w \in {[wz EXCEPT !.creating = TRUE], [wz EXCEPT !.creating = FALSE],
                   [wz EXCEPT !.creating = FALSE, !.result = TRUE]} :
            w.step = wz.step /\ w.type = wz.type /\ w.filled = wz.filled
  BY <1>0 DEF WizardState
<1>4. CASE HandleCreate
  <2>1. PICK o : o = [st |-> IF wz.type = "ready" THEN "create" ELSE "scaffold", own |-> TRUE]
    OBVIOUS
  <2>2. /\ wzOut' = wzOut \cup {o} /\ wz' = [wz EXCEPT !.creating = TRUE] /\ ~wz.creating
        /\ o \in Creation /\ o.own /\ o.st # "leave"
    BY <1>4, <2>1 DEF HandleCreate, Creation
  <2>0. page = "wizard"
    BY <1>4 DEF HandleCreate, OnWizard, On
  <2>3. Mine' = {o}
    BY <2>2 DEF WizardInv, Mine
  <2>. QED BY <1>0, <1>1, <1>2, <1>3, <2>0, <2>2, <2>3
<1>5. ASSUME NEW o \in wzOut, HandleCreateReady(o) \/ AutoDeployed(o) \/ HandleCreateCustom(o)
      PROVE  WizardInv'
  <2>1. o \in Creation /\ o.own \in BOOLEAN /\ o.st # "leave"
    BY <1>0, <1>5 DEF Creation, HandleCreateReady, AutoDeployed, HandleCreateCustom
  <2>2. o.own => wz.creating /\ Mine = {o}
    BY <2>1 DEF WizardInv, Mine
  <2>3. ASSUME NEW x \in {"deploy", "leave"}
        PROVE  /\ [o EXCEPT !.st = x] \in Creation /\ [o EXCEPT !.st = x].st = x
               /\ [o EXCEPT !.st = x].own = o.own
    BY <2>1 DEF Creation
  <2>4. CASE wzOut' = (wzOut \ {o}) \cup {[o EXCEPT !.st = "deploy"]} /\ UNCHANGED wz
    <3>1. PICK p : p = [o EXCEPT !.st = "deploy"]
      OBVIOUS
    <3>2. p \in Creation /\ p.st = "deploy" /\ p.own = o.own /\ wzOut' = (wzOut \ {o}) \cup {p}
      BY <2>3, <2>4, <3>1
    <3>3. CASE o.own
      <4>1. Mine' = {p}
        BY <2>1, <2>2, <3>2, <3>3 DEF Mine
      <4>. QED BY <1>0, <1>1, <2>1, <2>2, <2>4, <3>2, <3>3, <4>1 DEF WizardInv
    <3>4. CASE ~o.own
      <4>1. Mine' = Mine
        BY <3>2, <3>4 DEF Mine
      <4>2. wz.creating => \E q \in wzOut' : Mine' = {q}
        BY <3>2, <3>4, <4>1 DEF WizardInv, Mine
      <4>. QED BY <1>0, <1>1, <2>4, <3>2, <4>1, <4>2 DEF WizardInv
    <3>. QED BY <2>1, <3>3, <3>4
  <2>5. ASSUME NEW w \in {[wz EXCEPT !.creating = FALSE], [wz EXCEPT !.creating = FALSE, !.result = TRUE]},
               wz' = Shown(o, w), wzOut' \subseteq Creation,
               \A q \in wzOut' : q \in wzOut \ {o} \/ q.st = "leave",
               \A q \in wzOut \ {o} : q \in wzOut'
        PROVE  WizardInv'
    <3>1. CASE o.own
      <4>1. Mine' = {} /\ wz' = w
        BY <2>2, <2>5, <3>1 DEF Mine, Shown
      <4>. QED BY <1>1, <1>2, <1>3, <2>5, <4>1 DEF WizardInv
    <3>2. CASE ~o.own
      <4>1. Mine' = Mine /\ wz' = wz
        BY <2>5, <3>2 DEF Mine, Shown
      <4>2. wz.creating => \E q \in wzOut' : Mine' = {q}
        BY <2>5, <3>2, <4>1 DEF WizardInv, Mine
      <4>. QED BY <1>0, <1>1, <2>5, <4>1, <4>2 DEF WizardInv
    <3>. QED BY <2>1, <3>1, <3>2
  <2>6. CASE HandleCreateReady(o)
    BY <1>0, <2>4, <2>5, <2>6 DEF HandleCreateReady
  <2>7. CASE AutoDeployed(o)
    <3>1. PICK p : p = [o EXCEPT !.st = "leave"]
      OBVIOUS
    <3>2. p \in Creation /\ p.st = "leave"
      BY <2>3, <3>1
    <3>3. wzOut' = (wzOut \ {o}) \cup {p} /\ wz' = Shown(o, [wz EXCEPT !.creating = FALSE])
      BY <2>7, <3>1 DEF AutoDeployed
    <3>. QED BY <1>0, <2>5, <3>2, <3>3
  <2>8. CASE HandleCreateCustom(o)
    BY <1>0, <2>5, <2>8 DEF HandleCreateCustom
  <2>. QED BY <1>5, <2>6, <2>7, <2>8
<1>. QED BY <1>4, <1>5

LEMMA WizardClosedKept ==
  /\ WizardClosed \in WizardState /\ ~WizardClosed.creating /\ WizardClosed.step = 1
  BY StepNames DEF WizardClosed, WizardState, Required

\* A creation that outlives its page is not the page's any more.
LEMMA WizardLeaves ==
  ASSUME WizardInv, WizardSwitch
  PROVE  WizardInv'
<1>0. wz \in WizardState /\ wzOut \subseteq Creation
  BY DEF WizardInv, WizardTypeOK
<1>1. CASE Leaving("wizard") \/ Entering("wizard") \/ Reloading
  <2>1. wz' = WizardClosed
    BY <1>1 DEF WizardSwitch
  <2>2. PassedAreFilled' /\ ~wz'.creating /\ wz' \in WizardState
    BY <2>1, WizardClosedKept DEF PassedAreFilled, WizardClosed
  <2>3. CASE Reloading \/ Leaving("wizard")
    <3>1. \A o \in {[p EXCEPT !.own = FALSE] : p \in {q \in wzOut : q.st # "scaffold"}} :
             o \in Creation /\ ~o.own
      BY <1>0 DEF Creation
    <3>2. wzOut' \subseteq Creation /\ Mine' = {}
      BY <2>3, <3>1 DEF WizardSwitch, Mine
    <3>. QED BY <2>2, <3>2 DEF WizardInv, WizardTypeOK
  <2>4. CASE ~Reloading /\ ~Leaving("wizard")
    <3>1. page # "wizard" /\ wzOut' = wzOut
      BY <1>1, <2>4 DEF WizardSwitch, Leaving, Entering, Reloading
    <3>2. Mine' = {}
      BY <3>1 DEF WizardInv, Mine
    <3>. QED BY <1>0, <2>2, <3>1, <3>2 DEF WizardInv, WizardTypeOK
  <2>. QED BY <2>3, <2>4
<1>2. CASE ~(Leaving("wizard") \/ Entering("wizard") \/ Reloading)
  <2>1. wz' = wz /\ wzOut' = wzOut
    BY <1>2 DEF WizardSwitch
  <2>2. page' # "wizard" => page # "wizard"
    BY <1>2 DEF Leaving
  <2>. QED BY <2>1, <2>2 DEF WizardInv, WizardTypeOK, PassedAreFilled, Mine
<1>. QED BY <1>1, <1>2

\* The inductive invariant of the wizard.
THEOREM WizardSafe == Spec => []WizardInv
<1>1. Init => WizardInv
  <2>. SUFFICES ASSUME Init PROVE WizardInv
    OBVIOUS
  <2>1. wz = WizardClosed /\ wzOut = {}
    BY DEF Init, WizardInit
  <2>. QED BY <2>1, WizardClosedKept DEF WizardInv, WizardTypeOK, PassedAreFilled, Mine
<1>2. ShellTypeOK /\ WizardInv /\ [Next]_vars => WizardInv'
  <2>. SUFFICES ASSUME ShellTypeOK, WizardInv, [Next]_vars PROVE WizardInv'
    OBVIOUS
  <2>1. CASE UNCHANGED <<page, wzVars>>
    BY <2>1 DEF wzVars, WizardInv, WizardTypeOK, PassedAreFilled, Mine
  <2>. QED BY <2>1, WizardMoves, WizardWalks, WizardCreates, WizardLeaves DEF WizardStep
<1>. QED BY <1>1, <1>2, ShellTyped, PTL DEF Spec

\* An agent is reviewed, and created, with all its required fields.
THEOREM ReviewedAgentsAreComplete == Spec => [](WizardTypeOK /\ ReviewIsComplete)
<1>1. ASSUME WizardInv PROVE WizardTypeOK /\ ReviewIsComplete
  BY <1>1, WizardFields DEF WizardInv, PassedAreFilled, ReviewIsComplete
<1>. QED BY <1>1, WizardSafe, PTL

\* The create button is locked exactly while the page has a creation out.
THEOREM CreationsExclude == Spec => []OneCreationAtATime
<1>1. ASSUME WizardInv PROVE OneCreationAtATime
  <2>1. CASE wz.creating
    <3>1. PICK o \in wzOut : Mine = {o}
      BY <1>1, <2>1 DEF WizardInv
    <3>. QED BY <2>1, <3>1, FS_Singleton DEF OneCreationAtATime, Mine
  <2>2. CASE ~wz.creating
    <3>1. Mine = {}
      BY <1>1, <2>2 DEF WizardInv
    <3>. QED BY <2>2, <3>1, FS_EmptySet DEF OneCreationAtATime, Mine
  <2>. QED BY <2>1, <2>2
<1>. QED BY <1>1, WizardSafe, PTL

(***************************************************************************)
(* The lists: types.                                                       *)
(***************************************************************************)
Kinds == ListKinds \cup Commands \cup MemberKinds

\* What any step may do to the lists, and to the skills.
LEMMA ListMoves ==
  ASSUME ShellTypeOK, [Next]_vars
  PROVE  \/ UNCHANGED <<page, ctVars, skVars>> /\ (ops' = ops \/ ops' = ops + 1)
         \/ Stays /\ CatalogStep /\ UNCHANGED skVars
         \/ Stays /\ SkillsStep
         \/ \E done \in SUBSET agReqs : Moves(done)
<1>0. Stays => page' = page /\ (ops' = ops \/ ops' = ops + 1)
  BY DEF Stays, Click, BellClick
<1>1. CASE Stays /\ OtherPageStep
  BY <1>0, <1>1 DEF OtherPageStep
<1>2. CASE Stays /\ (ProviderStep \/ ChatPageStep \/ AgentPageStep \/ HandleSubmit \/ LoginFails)
  BY <1>0, <1>2 DEF ProviderStep, OfProvider, ChatPageStep, AgentPageStep, HandleSubmit, LoginFails,
     otherFamily
<1>3. CASE UNCHANGED vars \/ Rings \/ \E r \in agReqs : Cleared(r)
  BY <1>0, <1>3 DEF Rings, Cleared, vars, otherFamily, shellVars
<1>. QED BY <1>1, <1>2, <1>3, StepCases

LEMMA Numbered ==
  ASSUME ShellTypeOK
  PROVE  /\ MaxOps \in Nat /\ ops \in Nat /\ ops \in Items /\ 0 \in Items /\ NoItem \in MaybeItems
         /\ NoItem \notin Items /\ Items \subseteq MaybeItems /\ Items \subseteq Nat
         /\ Items = 0..MaxOps /\ Ids = Items
  BY ShellAssumption DEF ShellTypeOK, Ids, Items, MaybeItems, NoItem

LEMMA NewRequest ==
  ASSUME NEW i, NEW k, NEW n, NEW s
  PROVE  /\ CtReqNew(i, k, n, s).id = i /\ CtReqNew(i, k, n, s).k = k
         /\ CtReqNew(i, k, n, s).n = n /\ CtReqNew(i, k, n, s).scope = s
         /\ CtReqNew(i, k, n, s).st = "asked" /\ CtReqNew(i, k, n, s).got = {}
         /\ i \in Ids /\ k \in Kinds /\ n \in MaybeItems /\ s \in 0..2
            => CtReqNew(i, k, n, s) \in CtReq
  BY DEF CtReqNew, CtReq, Kinds

LEMMA RequestFields ==
  ASSUME NEW r \in CtReq
  PROVE  /\ r.id \in Ids /\ r.k \in Kinds /\ r.n \in MaybeItems /\ r.scope \in 0..2
         /\ r.st \in {"asked", "ok", "failed"} /\ r.got \subseteq Items
         /\ [r EXCEPT !.scope = 0] \in CtReq
         /\ [r EXCEPT !.st = "failed"] \in CtReq
         /\ \A g \in SUBSET Items : [r EXCEPT !.st = "ok", !.got = g] \in CtReq
<1>1. /\ r.id \in Ids /\ r.k \in Kinds /\ r.n \in MaybeItems /\ r.scope \in 0..2
      /\ r.st \in {"asked", "ok", "failed"} /\ r.got \subseteq Items
  BY DEF CtReq, Kinds
<1>2. [r EXCEPT !.scope = 0] \in CtReq
  BY DEF CtReq
<1>3. [r EXCEPT !.st = "failed"] \in CtReq
  BY DEF CtReq
<1>4. ASSUME NEW g \in SUBSET Items PROVE [r EXCEPT !.st = "ok", !.got = g] \in CtReq
  BY DEF CtReq
<1>. QED BY <1>1, <1>2, <1>3, <1>4

LEMMA ListFields ==
  ASSUME NEW c \in CtState
  PROVE  /\ c.loading \in BOOLEAN /\ c.shown \subseteq Items /\ c.scope \in 0..2
         /\ c.searching \in BOOLEAN /\ c.dialog \in BOOLEAN /\ c.saving \in BOOLEAN
         /\ c.panel \in MaybeItems /\ c.members \subseteq Items /\ c.crossed \in BOOLEAN
         /\ \A b \in BOOLEAN : /\ [c EXCEPT !.loading = b] \in CtState
                               /\ [c EXCEPT !.searching = b] \in CtState
                               /\ [c EXCEPT !.dialog = b] \in CtState
                               /\ [c EXCEPT !.saving = b] \in CtState
                               /\ [c EXCEPT !.crossed = b] \in CtState
         /\ \A s \in 0..2 : [c EXCEPT !.scope = s] \in CtState
         /\ \A p \in MaybeItems : [c EXCEPT !.panel = p] \in CtState
         /\ \A x \in SUBSET Items : /\ [c EXCEPT !.shown = x] \in CtState
                                    /\ [c EXCEPT !.members = x] \in CtState
  BY DEF CtState

LEMMA AsksTyped ==
  ASSUME NEW rest \in SUBSET CtReq, NEW i \in Ids, NEW k \in Kinds, NEW s \in 0..2,
         NoItem \in MaybeItems, Asks(rest, i, k, s)
  PROVE  ctReqs' \subseteq CtReq /\ raced' \in BOOLEAN
  BY NewRequest DEF Asks

LEMMA CommandedTyped ==
  ASSUME CatalogTypeOK, ops' \in Ids, NEW k \in Kinds, NEW n \in MaybeItems, Commanded(k, n)
  PROVE  ctReqs' \subseteq CtReq /\ raced' \in BOOLEAN /\ UNCHANGED <<store, teamStore>>
<1>1. CtReqNew(ops', k, n, ct.scope) \in CtReq
  BY ListFields, NewRequest DEF CatalogTypeOK
<1>. QED BY <1>1 DEF Commanded, CatalogTypeOK

LEMMA SettlesTyped ==
  ASSUME CatalogTypeOK, NEW r \in ctReqs, NEW state \in CtState, NoItem \in MaybeItems,
         Settles(r, state) \/ SettlesAndReloads(r, state)
  PROVE  CatalogTypeOK'
<1>1. CASE Settles(r, state)
  BY <1>1 DEF Settles, CatalogTypeOK
<1>2. CASE SettlesAndReloads(r, state)
  <2>1. r.id \in Ids /\ r.scope \in 0..2 /\ ctReqs \ {r} \in SUBSET CtReq /\ "load" \in Kinds
    BY RequestFields DEF CatalogTypeOK, Kinds, ListKinds
  <2>2. CASE r.st = "ok"
    <3>1. Asks(ctReqs \ {r}, r.id, "load", r.scope) /\ ct' = state /\ UNCHANGED <<store, teamStore>>
      BY <1>2, <2>2 DEF SettlesAndReloads
    <3>2. ctReqs' \subseteq CtReq /\ raced' \in BOOLEAN
      BY <2>1, <3>1, AsksTyped
    <3>. QED BY <3>1, <3>2 DEF CatalogTypeOK
  <2>3. CASE r.st # "ok"
    BY <1>2, <2>3 DEF SettlesAndReloads, CatalogTypeOK
  <2>. QED BY <2>2, <2>3
<1>. QED BY <1>1, <1>2

LEMMA ShowsTyped ==
  ASSUME CatalogTypeOK, NEW r \in ctReqs, NEW x \in SUBSET Items
  PROVE  /\ Shows(r, x) \in CtState
         /\ Shows(r, x).scope = ct.scope /\ Shows(r, x).searching = ct.searching
         /\ Shows(r, x).panel = ct.panel /\ Shows(r, x).members = ct.members
         /\ Shows(r, x).crossed = ct.crossed /\ Shows(r, x).dialog = ct.dialog
         /\ r.st = "ok" => Shows(r, x).shown = r.got
         /\ r.st # "ok" => Shows(r, x).shown = x
<1>1. r.got \subseteq Items /\ ct \in CtState
  BY RequestFields DEF CatalogTypeOK
<1>. QED BY <1>1 DEF Shows, CtState

(***************************************************************************)
(* The lists: what is in flight.  While raced is FALSE either the list is  *)
(* asked for, alone, or commands are under way: things being created are   *)
(* not shown yet and nobody deletes them, and the list differs from the    *)
(* server's only in things whose command has been served.                  *)
(***************************************************************************)
Q == {r \in ctReqs : r.k \in ListKinds \cup Commands}
Creates == {"create", "import"}

\* Things are numbered by the click that created them.
Passed == 0..ops

NumbersPassed ==
    /\ ct.shown \subseteq Passed
    /\ \A s \in Scopes : store[s] \subseteq Passed
    /\ ct.panel \in Passed \cup {NoItem}
    /\ \A r \in Q : /\ r.k \in Creates \cup {"delete"} => r.n \in Passed
                    /\ r.k \in ListKinds => r.got \subseteq Passed

AskedAlone ==
    \A r \in Q : r.k \in ListKinds =>
       /\ Q = {r} /\ r.scope = ct.scope
       /\ r.k = "search" => ct.searching
       /\ r.st = "ok" /\ r.k # "search" => r.got = store[ct.scope]

CommandsApart ==
    \A r \in Q : r.k \in Commands =>
       /\ ListOf(r) = ct.scope /\ r.scope # 0
       /\ r.k \in Creates => /\ r.n \notin ct.shown /\ r.n # ct.panel
                             /\ \A q \in Q : q.k \in Creates /\ q.n = r.n => q = r
                             /\ \A q \in Q : q.k = "delete" => q.n # r.n
       /\ r.k \in Creates /\ r.st = "ok" => r.n \in store[ct.scope]
       /\ r.k = "delete" /\ r.st = "ok" => r.n \notin store[ct.scope]

DiffersByCommands ==
    ~ct.loading /\ ~ct.searching /\ (\A r \in Q : r.k \in Commands) =>
       \A i \in Items : \/ i \in ct.shown <=> i \in store[ct.scope]
                       \/ \E q \in Q : q.n = i /\ q.st # "asked"

Watched == page \in CatalogPages /\ ~raced /\ ct.scope # 0

ListInv == Watched => AskedAlone /\ CommandsApart /\ DiffersByCommands

\* On the page of memories, whatever is sent is sent for an agent.
ScopesKnown ==
    page = "memory" => /\ ct.searching => ct.scope # 0
                       /\ \A r \in Q : r.scope # 0

ScopeFits ==
    /\ ct.scope = 2 => page = "memory"
    /\ ct.scope = 0 => page \in {"memory", "governance"}

\* Before an agent is picked there is nothing to act on.
EmptyUnpicked == page = "memory" /\ ct.scope = 0 => ct.shown = {} /\ Q = {}

ListPart ==
    /\ CatalogTypeOK /\ ScopesKnown /\ EmptyUnpicked
    /\ ScopeFits
    /\ NumbersPassed /\ ListInv

LEMMA KindsApart ==
  /\ ListKinds \cap Commands = {} /\ (ListKinds \cup Commands) \cap MemberKinds = {}
  /\ Creates \subseteq Commands /\ "delete" \in Commands /\ "delete" \notin Creates
  /\ ListKinds \cup Commands \subseteq Kinds /\ MemberKinds \subseteq Kinds
  BY DEF ListKinds, Commands, MemberKinds, MemberLists, MemberCommands, Creates, Kinds

LEMMA PassedGrows ==
  ASSUME ShellTypeOK, ShellTypeOK', ops' \in {ops, ops + 1}
  PROVE  /\ Passed \subseteq Passed' /\ ops \in Passed /\ ops' \in Passed' /\ 0 \in Passed
         /\ ops' = ops + 1 => ops' \notin Passed
         /\ NoItem \notin Passed /\ NoItem \notin Passed' /\ Passed \subseteq Items
  BY ShellAssumption DEF Passed, ShellTypeOK, Ids, NoItem, Items

LEMMA ScopeIsList ==
  ASSUME ListPart, ct.scope # 0
  PROVE  /\ ct.scope \in Scopes
         /\ page # "memory" => ct.scope = 1
<1>1. ct.scope \in 0..2
  BY ListFields DEF ListPart, CatalogTypeOK
<1>2. ct.scope \in {1, 2}
  BY <1>1
<1>. QED BY <1>2 DEF Scopes, ListPart, ScopeFits

LEMMA PassedIsItems ==
  ASSUME ShellTypeOK
  PROVE  Passed \subseteq Items
  BY ShellAssumption DEF Passed, ShellTypeOK, Ids, Items

\* The list is asked for, perhaps over other requests.
LEMMA AskKept ==
  ASSUME ListPart, ShellTypeOK, ShellTypeOK', page' = page, ops' \in {ops, ops + 1},
         NEW q \in ctReqs', q.k \in ListKinds, q.st = "asked", q.got = {},
         Q' \subseteq Q \cup {q}, CatalogTypeOK',
         ~raced' => Q' = {q} /\ q.scope = ct'.scope,
         ct'.shown \subseteq ct.shown, ct'.panel \in {ct.panel, NoItem},
         ScopeFits', q.k = "search" => ct'.searching, store' = store,
         page = "memory" => q.scope # 0 /\ ct'.scope # 0
  PROVE  ListPart'
<1>1. NumbersPassed'
  BY KindsApart, PassedGrows DEF ListPart, NumbersPassed
<1>2. ListInv'
  BY KindsApart DEF ListInv, Watched, AskedAlone, CommandsApart, DiffersByCommands
<1>. QED BY <1>1, <1>2 DEF ListPart, ScopesKnown, EmptyUnpicked, ScopeFits

\* A command is sent.
LEMMA CommandKept ==
  ASSUME ListPart, ShellTypeOK, ShellTypeOK', page' = page, ops' = ops + 1,
         NEW q \in CtReq, q.st = "asked", q.k \in Commands, ctReqs' = ctReqs \cup {q},
         ct.scope # 0 => q.scope # 0 /\ (page = "memory" => q.scope = ct.scope),
         page = "memory" => q.scope # 0 /\ ct.scope # 0,
         q.k \in Creates => q.n = ops',
         q.k = "delete" => q.n \in ct.shown \/ (q.n = ct.panel /\ q.n # NoItem),
         raced' \in BOOLEAN, raced' <=> (raced \/ loadUnderWay), ct' \in CtState,
         ct'.shown = ct.shown, ct'.loading = ct.loading, ct'.scope = ct.scope,
         ct'.searching = ct.searching, ct'.panel = ct.panel, UNCHANGED <<store, teamStore>>
  PROVE  ListPart'
<1>1. Q' = Q \cup {q}
  BY DEF Q
<1>2. CatalogTypeOK'
  BY DEF ListPart, CatalogTypeOK
<1>3. /\ q.k = "delete" => q.n \in Passed
      /\ Passed \subseteq Passed' /\ ops' \in Passed' /\ ops' \notin Passed /\ NoItem # ops'
  BY PassedGrows DEF ListPart, NumbersPassed
<1>4. NumbersPassed'
  BY <1>1, <1>3, KindsApart DEF ListPart, NumbersPassed
<1>5. ASSUME Watched' PROVE AskedAlone' /\ CommandsApart' /\ DiffersByCommands'
  <2>1. Watched /\ CommandsApart /\ DiffersByCommands
    BY <1>5 DEF ListPart, ListInv, Watched
  <2>2. \A r \in Q : r.k \in Commands
    BY <1>5 DEF loadUnderWay, Q, Watched
  <2>3. AskedAlone'
    BY <1>1, <2>2, KindsApart DEF AskedAlone
  <2>4. DiffersByCommands'
    BY <1>1, <2>1, <2>2 DEF DiffersByCommands
  <2>5. ListOf(q)' = ct'.scope /\ q.scope # 0
    BY <2>1, ScopeIsList DEF Watched, ListOf
  <2>6. q.k \in Creates =>
           /\ q.n \notin ct.shown /\ q.n # ct.panel
           /\ \A r \in Q : r.k \in Creates \cup {"delete"} => r.n # q.n
    BY <1>3 DEF ListPart, NumbersPassed
  <2>7. \A r \in Q : r.k \in Creates /\ q.k = "delete" => r.n # q.n
    BY <2>1, KindsApart DEF CommandsApart
  <2>8. ASSUME NEW r \in Q'
        PROVE  /\ ListOf(r)' = ct'.scope /\ r.scope # 0
               /\ r.k \in Creates => /\ r.n \notin ct'.shown /\ r.n # ct'.panel
               /\ r.k \in Creates /\ r.st = "ok" => r.n \in store'[ct'.scope]
               /\ r.k = "delete" /\ r.st = "ok" => r.n \notin store'[ct'.scope]
    <3>1. CASE r = q
      BY <3>1, <2>5, <2>6
    <3>2. CASE r \in Q
      BY <3>2, <2>1, <2>2 DEF CommandsApart, ListOf
    <3>. QED BY <1>1, <3>1, <3>2
  <2>9. ASSUME NEW r \in Q', r.k \in Creates, NEW p \in Q'
        PROVE  /\ p.k \in Creates /\ p.n = r.n => p = r
               /\ p.k = "delete" => p.n # r.n
    <3>1. CASE r \in Q /\ p \in Q
      BY <3>1, <2>9, <2>1, KindsApart DEF CommandsApart
    <3>2. CASE r = q \/ p = q
      BY <3>2, <2>9, <1>1, <2>6, <2>7, KindsApart
    <3>. QED BY <1>1, <3>1, <3>2
  <2>10. CommandsApart'
    BY <2>8, <2>9 DEF CommandsApart
  <2>. QED BY <2>3, <2>4, <2>10
<1>. QED BY <1>1, <1>2, <1>4, <1>5 DEF ListPart, ListInv, ScopesKnown, EmptyUnpicked, ScopeFits

\* A dialog, a panel, or the members of a team: the list stays.
LEMMA EditKept ==
  ASSUME ListPart, ShellTypeOK, ShellTypeOK', page' = page, ops' \in {ops, ops + 1},
         CatalogTypeOK', Q' = Q, raced' = raced, store' = store,
         ct'.shown = ct.shown, ct'.loading = ct.loading, ct'.scope = ct.scope,
         ct'.searching = ct.searching, ct'.panel \in ct.shown \cup {ct.panel, NoItem}
  PROVE  ListPart'
<1>1. NumbersPassed'
  BY PassedGrows DEF ListPart, NumbersPassed
<1>2. ASSUME Watched' PROVE AskedAlone' /\ CommandsApart' /\ DiffersByCommands'
  <2>1. AskedAlone /\ CommandsApart /\ DiffersByCommands
    BY <1>2 DEF ListPart, ListInv, Watched
  <2>2. \A r \in Q : r.k \in Creates => r.n # NoItem
    BY PassedGrows DEF ListPart, NumbersPassed
  <2>3. AskedAlone'
    BY <2>1 DEF AskedAlone
  <2>4. CommandsApart'
    BY <2>1, <2>2 DEF CommandsApart, ListOf
  <2>. QED BY <2>1, <2>3, <2>4 DEF DiffersByCommands
<1>. QED BY <1>1, <1>2 DEF ListPart, ListInv, ScopesKnown, EmptyUnpicked, ScopeFits

\* The list arrives.
LEMMA ListArrives ==
  ASSUME ListPart, ShellTypeOK, ShellTypeOK', UNCHANGED <<page, ops>>, CatalogTypeOK',
         NEW r \in Q, r.k \in ListKinds, Q' = Q \ {r}, store' = store,
         raced' <=> (raced \/ r.st # "ok"),
         r.st = "ok" => ct'.shown = r.got, r.st # "ok" => ct'.shown \subseteq ct.shown,
         ct'.scope = ct.scope, ct'.searching = ct.searching, ct'.panel = ct.panel
  PROVE  ListPart'
<1>1. NumbersPassed'
  BY DEF ListPart, NumbersPassed, Passed
<1>2. ASSUME Watched' PROVE AskedAlone' /\ CommandsApart' /\ DiffersByCommands'
  <2>1. AskedAlone /\ r.st = "ok"
    BY <1>2 DEF ListPart, ListInv, Watched
  <2>2. Q' = {} /\ (ct.searching \/ r.got = store[ct.scope])
    BY <2>1 DEF AskedAlone
  <2>. QED BY <2>1, <2>2 DEF AskedAlone, CommandsApart, DiffersByCommands
<1>. QED BY <1>1, <1>2 DEF ListPart, ListInv, ScopesKnown, EmptyUnpicked, ScopeFits

\* A command's answer is handled by editing the copy.
LEMMA EditArrives ==
  ASSUME ListPart, ShellTypeOK, ShellTypeOK', UNCHANGED <<page, ops>>, CatalogTypeOK',
         NEW r \in Q, r.k \in {"create", "delete"}, Q' = Q \ {r}, store' = store,
         raced' <=> (raced \/ r.st # "ok"),
         r.st # "ok" => ct'.shown = ct.shown, ct'.shown \subseteq ct.shown \cup {r.n},
         r.st = "ok" /\ r.scope # 0 /\ r.k = "create" => ct'.shown = ct.shown \cup {r.n},
         r.st = "ok" /\ r.scope # 0 /\ r.k = "delete" => ct'.shown = ct.shown \ {r.n},
         ct'.loading = ct.loading, ct'.scope = ct.scope, ct'.searching = ct.searching,
         ct'.panel = ct.panel
  PROVE  ListPart'
<1>0. r.k \in Commands /\ (r.k # "delete" => r.k \in Creates)
  BY DEF Commands, Creates
<1>1. NumbersPassed'
  <2>1. ct'.shown \subseteq ct.shown \cup {r.n} /\ r.n \in Passed
    BY <1>0 DEF ListPart, NumbersPassed
  <2>. QED BY <2>1 DEF ListPart, NumbersPassed, Passed
<1>2. ASSUME Watched' PROVE AskedAlone' /\ CommandsApart' /\ DiffersByCommands'
  <2>1. AskedAlone /\ CommandsApart /\ DiffersByCommands /\ r.st = "ok"
    BY <1>2 DEF ListPart, ListInv, Watched
  <2>2. \A q \in Q : q.k \in Commands
    BY <1>0, <2>1, KindsApart DEF AskedAlone, Q
  <2>3. r.scope # 0
    BY <1>0, <2>1 DEF CommandsApart
  <2>4. AskedAlone'
    BY <2>2, KindsApart DEF AskedAlone
  <2>5. CommandsApart'
    <3>1. \A q \in Q' : q.k \in Creates => q.n # r.n
      BY <1>0, <2>1, <2>2, KindsApart DEF CommandsApart
    <3>2. ct'.shown \subseteq ct.shown \cup {r.n}
      BY <2>1, <2>3
    <3>. QED BY <2>1, <3>1, <3>2 DEF CommandsApart, ListOf
  <2>6. DiffersByCommands'
    <3>1. r.k = "create" => r.n \in store[ct.scope]
      BY <1>0, <2>1, KindsApart DEF CommandsApart
    <3>2. r.k = "delete" => r.n \notin store[ct.scope]
      BY <1>0, <2>1 DEF CommandsApart
    <3>3. ASSUME ~ct.loading, ~ct.searching, NEW i \in Items
          PROVE  \/ i \in ct'.shown <=> i \in store'[ct'.scope]
                 \/ \E q \in Q' : q.n = i /\ q.st # "asked"
      <4>1. CASE i = r.n
        BY <4>1, <3>1, <3>2, <2>1, <2>3
      <4>2. CASE i # r.n
        BY <4>2, <3>3, <2>1, <2>2, <2>3 DEF DiffersByCommands
      <4>. QED BY <4>1, <4>2
    <3>. QED BY <3>3 DEF DiffersByCommands
  <2>. QED BY <2>4, <2>5, <2>6
<1>. QED BY <1>1, <1>2 DEF ListPart, ListInv, ScopesKnown, EmptyUnpicked, ScopeFits

\* A command fails: the list may be out of date for good.
LEMMA RacedKept ==
  ASSUME ListPart, ShellTypeOK, ShellTypeOK', page' = page, ops' \in {ops, ops + 1},
         CatalogTypeOK', Q' \subseteq Q, raced', store' = store,
         ct'.shown \subseteq ct.shown, ct'.panel = ct.panel, ct'.scope = ct.scope,
         ct'.searching = ct.searching
  PROVE  ListPart'
<1>1. NumbersPassed'
  BY PassedGrows DEF ListPart, NumbersPassed
<1>. QED BY <1>1 DEF ListPart, ListInv, Watched, ScopesKnown, EmptyUnpicked, ScopeFits

LEMMA ScopeOfRequest ==
  ASSUME ListPart, NEW r \in Q
  PROVE  ListOf(r) \in Scopes
<1>1. r.scope \in 0..2
  BY RequestFields DEF ListPart, CatalogTypeOK, Q
<1>2. page = "memory" => r.scope # 0
  BY DEF ListPart, ScopesKnown
<1>. QED BY <1>1, <1>2 DEF ListOf, Scopes

\* The server: what a request does to the lists, and what it becomes.
LEMMA ServedRequest ==
  ASSUME ListPart, ShellTypeOK, NEW r \in ctReqs, CtServed(r), r \in Q
  PROVE  \E s \in CtReq :
           /\ s.k = r.k /\ s.n = r.n /\ s.scope = r.scope /\ s.st \in {"ok", "failed"}
           /\ s.st = "failed" => s.got = r.got
           /\ s.st = "ok" => /\ s.got \subseteq store'[ListOf(r)]
                             /\ r.k # "search" => s.got = store'[ListOf(r)]
           /\ s.st = "ok" => CtEffect(r)
           /\ CtEffect(r) \/ UNCHANGED <<store, teamStore>>
           /\ ctReqs' = (ctReqs \ {r}) \cup {s}
<1>1. r \in CtReq /\ r.k \notin MemberKinds
  BY KindsApart DEF ListPart, CatalogTypeOK, Q
<1>2. CASE CtEffect(r) /\ \E g \in Served(r) :
             ctReqs' = (ctReqs \ {r}) \cup {[r EXCEPT !.st = "ok", !.got = g]}
  <2>1. PICK g \in Served(r) : ctReqs' = (ctReqs \ {r}) \cup {[r EXCEPT !.st = "ok", !.got = g]}
    BY <1>2
  <2>2. g \subseteq store'[ListOf(r)] /\ (r.k # "search" => g = store'[ListOf(r)])
    BY <1>1, <2>1 DEF Served
  <2>3. PICK s : s = [r EXCEPT !.st = "ok", !.got = g]
    OBVIOUS
  <2>4. g \subseteq Items
    <3>1. ListOf(r) \in Scopes
      BY ScopeOfRequest
    <3>2. store \in [Scopes -> SUBSET Items] /\ (r.k \in Creates \cup {"delete"} => r.n \in Items)
      BY PassedIsItems DEF ListPart, CatalogTypeOK, NumbersPassed
    <3>3. store'[ListOf(r)] \subseteq Items
      BY <1>2, <3>1, <3>2 DEF CtEffect, Creates
    <3>. QED BY <2>2, <3>3
  <2>5. s \in CtReq
    BY <1>1, <2>3, <2>4, RequestFields
  <2>6. s.k = r.k /\ s.n = r.n /\ s.scope = r.scope /\ s.st = "ok" /\ s.got = g
    BY <1>1, <2>3 DEF CtReq
  <2>. QED BY <1>2, <2>1, <2>2, <2>3, <2>5, <2>6
<1>3. CASE /\ CtEffect(r) \/ UNCHANGED <<store, teamStore>>
           /\ ctReqs' = (ctReqs \ {r}) \cup {[r EXCEPT !.st = "failed"]}
  <2>1. PICK s : s = [r EXCEPT !.st = "failed"]
    OBVIOUS
  <2>2. s \in CtReq /\ s.k = r.k /\ s.n = r.n /\ s.scope = r.scope /\ s.st = "failed" /\ s.got = r.got
    BY <1>1, <2>1 DEF CtReq
  <2>. QED BY <1>3, <2>1, <2>2
<1>. QED BY <1>2, <1>3 DEF CtServed

\* What a command does to the one list it is about.
LEMMA EffectOnList ==
  ASSUME ListPart, ShellTypeOK, NEW r \in Q, CtEffect(r) \/ UNCHANGED <<store, teamStore>>
  PROVE  /\ store' \in [Scopes -> SUBSET Items] /\ teamStore' = teamStore
         /\ teamStore \subseteq Items
         /\ \A t \in Scopes : store'[t] \subseteq Passed
         /\ r.k \notin Creates \cup {"delete"} => store' = store
         /\ \A t \in Scopes : \A i : i # r.n => (i \in store'[t] <=> i \in store[t])
         /\ CtEffect(r) /\ ListOf(r) \in Scopes =>
               /\ r.k \in Creates => r.n \in store'[ListOf(r)]
               /\ r.k = "delete" => r.n \notin store'[ListOf(r)]
<1>1. /\ store \in [Scopes -> SUBSET Items] /\ teamStore \subseteq Items
      /\ \A t \in Scopes : store[t] \subseteq Passed
      /\ r.k \in Creates \cup {"delete"} => r.n \in Passed /\ r.n \in Items
      /\ r.k \notin MemberKinds
  BY PassedIsItems, KindsApart DEF ListPart, CatalogTypeOK, NumbersPassed, Q
<1>2. CASE UNCHANGED <<store, teamStore>> /\ ~CtEffect(r)
  BY <1>1, <1>2
<1>3. CASE CtEffect(r)
  <2>1. teamStore' = teamStore
    BY <1>1, <1>3 DEF CtEffect, MemberKinds, MemberCommands
  <2>2. CASE r.k \in Creates
    <3>1. store' = [store EXCEPT ![ListOf(r)] = @ \cup {r.n}]
      BY <1>3, <2>2 DEF CtEffect, Creates
    <3>. QED BY <1>1, <2>1, <2>2, <3>1, KindsApart
  <2>3. CASE r.k = "delete"
    <3>1. store' = [store EXCEPT ![ListOf(r)] = @ \ {r.n}]
      BY <1>3, <2>3 DEF CtEffect
    <3>. QED BY <1>1, <2>1, <2>3, <3>1, KindsApart
  <2>4. CASE r.k \notin Creates \cup {"delete"}
    BY <1>1, <1>3, <2>1, <2>4 DEF CtEffect, Creates
  <2>. QED BY <2>2, <2>3, <2>4
<1>. QED BY <1>2, <1>3

LEMMA EffectOnlyRemoves ==
  ASSUME ListPart, NEW r \in Q, r.k \notin Creates, CtEffect(r) \/ UNCHANGED <<store, teamStore>>
  PROVE  \A t \in Scopes : store'[t] \subseteq store[t]
<1>1. store \in [Scopes -> SUBSET Items]
  BY DEF ListPart, CatalogTypeOK
<1>. QED BY <1>1 DEF CtEffect, Creates

LEMMA ServedKept ==
  ASSUME ListPart, ShellTypeOK, NEW r \in Q, CtServed(r)
  PROVE  ListPart'
<1>1. PICK s \in CtReq :
         /\ s.k = r.k /\ s.n = r.n /\ s.scope = r.scope /\ s.st \in {"ok", "failed"}
         /\ s.st = "failed" => s.got = r.got
         /\ s.st = "ok" => /\ s.got \subseteq store'[ListOf(r)]
                           /\ r.k # "search" => s.got = store'[ListOf(r)]
         /\ s.st = "ok" => CtEffect(r)
         /\ CtEffect(r) \/ UNCHANGED <<store, teamStore>>
         /\ ctReqs' = (ctReqs \ {r}) \cup {s}
  BY ServedRequest DEF Q
<1>2. Q' = (Q \ {r}) \cup {s} /\ UNCHANGED <<page, ops, ct, raced>> /\ r.st = "asked"
      /\ r \in ctReqs /\ r.k \in ListKinds \cup Commands
  BY <1>1 DEF Q, CtServed, Unattended, shellVars
<1>3. ListOf(r) \in Scopes
  BY ScopeOfRequest
<1>4. CatalogTypeOK'
  BY <1>1, <1>2, EffectOnList DEF ListPart, CatalogTypeOK
<1>5. NumbersPassed'
  <2>1. s.k \in ListKinds => s.got \subseteq Passed
    BY <1>1, <1>3, EffectOnList DEF ListPart, NumbersPassed
  <2>2. s.k \in Creates \cup {"delete"} => s.n \in Passed
    BY <1>1 DEF ListPart, NumbersPassed
  <2>3. \A t \in Scopes : store'[t] \subseteq Passed
    BY <1>1, EffectOnList
  <2>. QED BY <1>2, <2>1, <2>2, <2>3 DEF ListPart, NumbersPassed, Passed
<1>6. ScopesKnown'
  BY <1>1, <1>2 DEF ListPart, ScopesKnown
<1>7. ASSUME Watched' PROVE AskedAlone' /\ CommandsApart' /\ DiffersByCommands'
  <2>1. AskedAlone /\ CommandsApart /\ DiffersByCommands /\ Watched
    BY <1>2, <1>7 DEF ListPart, ListInv, Watched
  <2>2. CASE r.k \in ListKinds
    <3>1. Q' = {s} /\ store' = store /\ r.scope = ct.scope
      BY <1>1, <1>2, <2>1, <2>2, EffectOnList, KindsApart DEF AskedAlone
    <3>2. ListOf(r) = ct.scope
      BY <2>1, <3>1, ScopeIsList DEF ListOf, Watched
    <3>. QED BY <1>1, <1>2, <2>1, <2>2, <3>1, <3>2, KindsApart
             DEF AskedAlone, CommandsApart, DiffersByCommands
  <2>3. CASE r.k \in Commands
    <3>1. (\A q \in Q : q.k \in Commands) /\ ListOf(r) = ct.scope /\ r.scope # 0
      BY <2>1, <2>3, KindsApart DEF AskedAlone, CommandsApart, Q
    <3>2. AskedAlone'
      BY <1>1, <1>2, <2>3, <3>1, KindsApart DEF AskedAlone
    <3>3. DiffersByCommands'
      <4>1. ASSUME ~ct.loading, ~ct.searching, NEW i \in Items
            PROVE  \/ i \in ct.shown <=> i \in store'[ct.scope]
                   \/ \E q \in Q' : q.n = i /\ q.st # "asked"
        <5>1. CASE i = r.n
          BY <5>1, <1>1, <1>2
        <5>2. CASE i # r.n
          <6>1. i \in store'[ct.scope] <=> i \in store[ct.scope]
            BY <1>1, <1>3, <3>1, <5>2, EffectOnList
          <6>2. \A q \in Q : q.st # "asked" => q \in Q'
            BY <1>2
          <6>. QED BY <2>1, <3>1, <4>1, <6>1, <6>2 DEF DiffersByCommands
        <5>. QED BY <5>1, <5>2
      <4>. QED BY <1>2, <4>1 DEF DiffersByCommands
    <3>4. CommandsApart'
      <4>1. ASSUME NEW q \in Q'
            PROVE  /\ ListOf(q)' = ct'.scope /\ q.scope # 0
                   /\ q.k \in Creates => q.n \notin ct'.shown /\ q.n # ct'.panel
        BY <1>1, <1>2, <2>1, <2>3, <3>1 DEF CommandsApart, ListOf
      <4>2. ASSUME NEW q \in Q', q.k \in Creates, NEW p \in Q'
            PROVE  /\ p.k \in Creates /\ p.n = q.n => p = q
                   /\ p.k = "delete" => p.n # q.n
        BY <1>1, <1>2, <2>1, <4>2, KindsApart DEF CommandsApart
      <4>3. ASSUME NEW q \in Q', q.st = "ok"
            PROVE  /\ q.k \in Creates => q.n \in store'[ct.scope]
                   /\ q.k = "delete" => q.n \notin store'[ct.scope]
        <5>1. CASE q = s
          BY <5>1, <1>1, <1>3, <3>1, <4>3, EffectOnList
        <5>2. CASE q \in Q \ {r} /\ q.n # r.n
          <6>1. q.n \in store'[ct.scope] <=> q.n \in store[ct.scope]
            BY <1>1, <1>3, <3>1, <5>2, EffectOnList
          <6>. QED BY <2>1, <4>3, <5>2, <6>1, KindsApart DEF CommandsApart
        <5>3. CASE q \in Q \ {r} /\ q.n = r.n /\ q.k = "delete"
          <6>1. r.k \notin Creates
            BY <2>1, <2>3, <5>3, KindsApart DEF CommandsApart
          <6>2. store'[ct.scope] \subseteq store[ct.scope]
            BY <1>1, <1>3, <3>1, <6>1, EffectOnlyRemoves
          <6>. QED BY <2>1, <4>3, <5>3, <6>2, KindsApart DEF CommandsApart
        <5>4. CASE q \in Q \ {r} /\ q.n = r.n /\ q.k \in Creates
          <6>1. r.k \notin Creates \cup {"delete"}
            BY <2>1, <2>3, <5>4, KindsApart DEF CommandsApart
          <6>2. store' = store
            BY <1>1, <6>1, EffectOnList
          <6>. QED BY <2>1, <4>3, <5>4, <6>2, KindsApart DEF CommandsApart
        <5>. QED BY <1>2, <5>1, <5>2, <5>3, <5>4
      <4>. QED BY <1>2, <4>1, <4>2, <4>3 DEF CommandsApart
    <3>. QED BY <3>2, <3>3, <3>4
  <2>. QED BY <1>2, <2>2, <2>3
<1>8. EmptyUnpicked' /\ ScopeFits'
  BY <1>2 DEF ListPart, EmptyUnpicked, ScopeFits
<1>. QED BY <1>2, <1>4, <1>5, <1>6, <1>7, <1>8 DEF ListPart, ListInv

(***************************************************************************)
(* The members of the open team: one request about them at a time, or they *)
(* are crossed.                                                            *)
(***************************************************************************)
MK == {r \in ctReqs : r.k \in MemberKinds}
M  == {r \in MK : r.scope = 1}

MembersInv ==
    page = "teams" /\ Panel(ct) # NoItem /\ ~ct.crossed =>
       /\ \A r, q \in M : r = q
       /\ M = {} => ct.members = teamStore
       /\ \A r \in M : r.k \in MemberLists /\ r.st = "ok" => r.got = teamStore

MembersPart ==
    /\ \A r \in MK : r.scope # 2 /\ (r.k = "join" => r.n \in Items)
    /\ MembersInv

ListsInv == ListPart /\ MembersPart

LEMMA MembersStay ==
  ASSUME MembersPart, page' = page, MK' = MK,
         page = "teams" => /\ UNCHANGED teamStore /\ ct'.shown = ct.shown /\ ct'.panel = ct.panel
                           /\ ct'.members = ct.members /\ ct'.crossed = ct.crossed
  PROVE  MembersPart'
  BY DEF MembersPart, MembersInv, M, Panel

(***************************************************************************)
(* The ways of a list keep the invariant.                                  *)
(***************************************************************************)
LEMMA AskedAgain ==
  ASSUME ListsInv, ShellTypeOK, ShellTypeOK', page' = page, ops' \in {ops, ops + 1},
         NEW rest \in SUBSET ctReqs, NEW i \in Ids, NEW k \in ListKinds, NEW s \in 0..2,
         Asks(rest, i, k, s), MK \subseteq rest,
         ct' \in CtState, ct'.shown \subseteq ct.shown, ct'.panel \in {ct.panel, NoItem},
         ScopeFits', k = "search" => ct'.searching,
         page = "memory" => s # 0 /\ ct'.scope # 0,
         page = "teams" => ct' = ct, UNCHANGED <<store, teamStore>>
  PROVE  ListsInv'
<1>1. PICK q : q = CtReqNew(i, k, NoItem, s)
  OBVIOUS
<1>2. /\ q.k = k /\ q.scope = s /\ q.st = "asked" /\ q.got = {} /\ q \in CtReq
      /\ ctReqs' = rest \cup {q} /\ raced' \in BOOLEAN
      /\ raced' <=> (s # ct'.scope \/ \E r \in rest : r.k \in ListKinds \cup Commands)
  <2>1. q.k = k /\ q.scope = s /\ q.st = "asked" /\ q.got = {}
    BY <1>1, NewRequest
  <2>2. q \in CtReq
    BY <1>1, KindsApart, Numbered, NewRequest
  <2>3. ctReqs' = rest \cup {q} /\ raced' = (s # ct'.scope \/ \E r \in rest : r.k \in ListKinds \cup Commands)
    BY <1>1 DEF Asks
  <2>. QED BY <2>1, <2>2, <2>3
<1>3. CatalogTypeOK'
  BY <1>2 DEF ListsInv, ListPart, CatalogTypeOK
<1>4. Q' \subseteq Q \cup {q} /\ (~raced' => Q' = {q} /\ q.scope = ct'.scope)
  BY <1>2 DEF Q
<1>5. MK' = MK
  BY <1>2, KindsApart DEF MK
<1>6. ListPart'
  BY <1>2, <1>3, <1>4, AskKept DEF ListsInv
<1>7. MembersPart'
  BY <1>5, MembersStay DEF ListsInv
<1>. QED BY <1>6, <1>7 DEF ListsInv

LEMMA Sent ==
  ASSUME ListsInv, ShellTypeOK, ShellTypeOK', page' = page, ops' = ops + 1,
         NEW k \in Commands, NEW n \in MaybeItems, Commanded(k, n),
         k \in Creates => n = ops',
         k = "delete" => n \in ct.shown \/ (n = ct.panel /\ n # NoItem),
         page = "memory" => ct.scope # 0, ct' \in CtState,
         ct'.shown = ct.shown, ct'.loading = ct.loading, ct'.scope = ct.scope,
         ct'.searching = ct.searching, ct'.panel = ct.panel, ct'.members = ct.members,
         ct'.crossed = ct.crossed
  PROVE  ListsInv'
<1>1. PICK q : q = CtReqNew(ops', k, n, ct.scope)
  OBVIOUS
<1>2. ct.scope \in 0..2 /\ ops' \in Ids /\ raced \in BOOLEAN
  BY ListFields DEF ListsInv, ListPart, CatalogTypeOK, ShellTypeOK
<1>3. /\ q.k = k /\ q.n = n /\ q.scope = ct.scope /\ q.st = "asked" /\ q \in CtReq
      /\ ctReqs' = ctReqs \cup {q} /\ raced' \in BOOLEAN /\ UNCHANGED <<store, teamStore>>
      /\ raced' <=> (raced \/ loadUnderWay)
  <2>1. q.k = k /\ q.n = n /\ q.scope = ct.scope /\ q.st = "asked"
    BY <1>1, NewRequest
  <2>2. q \in CtReq
    BY <1>1, <1>2, KindsApart, NewRequest
  <2>3. /\ ctReqs' = ctReqs \cup {q} /\ UNCHANGED <<store, teamStore>>
        /\ raced' = (raced \/ loadUnderWay)
    BY <1>1 DEF Commanded
  <2>4. loadUnderWay \in BOOLEAN
    BY DEF loadUnderWay
  <2>. QED BY <1>2, <2>1, <2>2, <2>3, <2>4
<1>4. ListPart'
  BY <1>3, CommandKept DEF ListsInv
<1>5. MK' = MK
  BY <1>3, KindsApart DEF MK
<1>6. MembersPart'
  BY <1>3, <1>5, MembersStay DEF ListsInv
<1>. QED BY <1>4, <1>6 DEF ListsInv

LEMMA Reloaded ==
  ASSUME ListsInv, ShellTypeOK, ShellTypeOK', UNCHANGED <<page, ops>>,
         NEW r \in ctReqs, r.k \in Commands, NEW state \in CtState,
         SettlesAndReloads(r, state), state.shown \subseteq ct.shown,
         state.panel = ct.panel, state.scope = ct.scope, state.searching = ct.searching,
         page = "teams" => state = ct
  PROVE  ListsInv'
<1>1. r \in CtReq /\ r.id \in Ids /\ r.scope \in 0..2 /\ "load" \in ListKinds /\ r \in Q
      /\ ctReqs \ {r} \in SUBSET ctReqs /\ MK \subseteq ctReqs \ {r}
  BY RequestFields, KindsApart DEF ListsInv, ListPart, CatalogTypeOK, ListKinds, MK, Q
<1>2. CASE r.st = "ok"
  <2>1. Asks(ctReqs \ {r}, r.id, "load", r.scope) /\ ct' = state /\ UNCHANGED <<store, teamStore>>
    BY <1>2 DEF SettlesAndReloads
  <2>2. /\ page = "memory" => r.scope # 0 /\ ct.scope # 0
        /\ ScopeFits
    BY <1>1 DEF ListsInv, ListPart, ScopesKnown, EmptyUnpicked
  <2>3. ScopeFits'
    BY <2>1, <2>2 DEF ScopeFits
  <2>. QED BY <1>1, <2>1, <2>2, <2>3, AskedAgain
<1>3. CASE r.st # "ok"
  <2>1. ct' = ct /\ ctReqs' = ctReqs \ {r} /\ raced' = TRUE /\ UNCHANGED <<store, teamStore>>
    BY <1>3 DEF SettlesAndReloads
  <2>2. Q' \subseteq Q /\ MK' = MK /\ CatalogTypeOK'
    BY <1>1, <2>1 DEF Q, MK, ListsInv, ListPart, CatalogTypeOK
  <2>3. ListPart'
    BY <2>1, <2>2, RacedKept DEF ListsInv
  <2>. QED BY <2>1, <2>2, <2>3, MembersStay DEF ListsInv
<1>. QED BY <1>2, <1>3

LEMMA ListAnswered ==
  ASSUME ListsInv, ShellTypeOK, ShellTypeOK', UNCHANGED <<page, ops>>,
         NEW r \in ctReqs, r.k \in ListKinds, r.st # "asked", NEW state \in CtState,
         Settles(r, state),
         r.st = "ok" => state.shown = r.got, r.st # "ok" => state.shown \subseteq ct.shown,
         state.panel = ct.panel, state.scope = ct.scope, state.searching = ct.searching,
         page # "teams"
  PROVE  ListsInv'
<1>1. r \in CtReq /\ r \in Q /\ r.st \in {"ok", "failed"} /\ raced \in BOOLEAN
  BY RequestFields DEF ListsInv, ListPart, CatalogTypeOK, Q
<1>2. ct' = state /\ Q' = Q \ {r} /\ MK' = MK /\ UNCHANGED <<store, teamStore>>
      /\ raced' \in BOOLEAN /\ (raced' <=> raced \/ r.st # "ok") /\ ctReqs' \subseteq ctReqs
  BY <1>1, KindsApart DEF Settles, Q, MK
<1>3. CatalogTypeOK'
  BY <1>2 DEF ListsInv, ListPart, CatalogTypeOK
<1>4. ListPart'
  BY <1>1, <1>2, <1>3, ListArrives DEF ListsInv
<1>5. MembersPart'
  BY <1>2, MembersStay DEF ListsInv
<1>. QED BY <1>4, <1>5 DEF ListsInv

LEMMA Edited ==
  ASSUME ListsInv, ShellTypeOK, ShellTypeOK', UNCHANGED <<page, ops>>,
         NEW r \in ctReqs, r.k \in {"create", "delete"}, r.st # "asked", NEW state \in CtState,
         Settles(r, state),
         r.st # "ok" => state.shown = ct.shown, state.shown \subseteq ct.shown \cup {r.n},
         r.st = "ok" /\ r.scope # 0 /\ r.k = "create" => state.shown = ct.shown \cup {r.n},
         r.st = "ok" /\ r.scope # 0 /\ r.k = "delete" => state.shown = ct.shown \ {r.n},
         state.loading = ct.loading, state.panel = ct.panel, state.scope = ct.scope,
         state.searching = ct.searching,
         page = "teams" => state = ct
  PROVE  ListsInv'
<1>1. r \in CtReq /\ r \in Q /\ r.st \in {"ok", "failed"} /\ raced \in BOOLEAN
  BY RequestFields DEF ListsInv, ListPart, CatalogTypeOK, Q, Commands
<1>2. ct' = state /\ Q' = Q \ {r} /\ MK' = MK /\ UNCHANGED <<store, teamStore>>
      /\ raced' \in BOOLEAN /\ (raced' <=> raced \/ r.st # "ok") /\ ctReqs' \subseteq ctReqs
  BY <1>1, KindsApart DEF Settles, Q, MK, Commands
<1>3. CatalogTypeOK'
  BY <1>2 DEF ListsInv, ListPart, CatalogTypeOK
<1>4. ListPart'
  BY <1>1, <1>2, <1>3, EditArrives DEF ListsInv
<1>. QED BY <1>2, <1>4, MembersStay DEF ListsInv

\* A dialog is opened or closed, a skill shown.
LEMMA DialogKept ==
  ASSUME ListsInv, ShellTypeOK, ShellTypeOK', page' = page, ops' \in {ops, ops + 1},
         NEW state \in CtState, Edits(state),
         state.shown = ct.shown, state.loading = ct.loading, state.scope = ct.scope,
         state.searching = ct.searching, state.panel \in ct.shown \cup {ct.panel, NoItem},
         page # "teams"
  PROVE  ListsInv'
<1>1. ct' = state /\ UNCHANGED <<ctReqs, raced, store, teamStore, Q, MK>>
  BY DEF Edits, Q, MK
<1>2. CatalogTypeOK'
  BY <1>1 DEF ListsInv, ListPart, CatalogTypeOK
<1>3. ListPart'
  BY <1>1, <1>2, EditKept DEF ListsInv
<1>. QED BY <1>1, <1>3, MembersStay DEF ListsInv

(***************************************************************************)
(* The pages.                                                              *)
(***************************************************************************)
LEMMA ClosedList ==
  ASSUME ShellTypeOK
  PROVE  /\ CtClosed \in CtState /\ [CtClosed EXCEPT !.scope = 0] \in CtState
         /\ CtClosed.shown = {} /\ CtClosed.panel = NoItem /\ CtClosed.scope = 1
         /\ CtClosed.searching = FALSE /\ CtClosed.loading /\ Panel(CtClosed) = NoItem
         /\ [CtClosed EXCEPT !.scope = 0].shown = {} /\ [CtClosed EXCEPT !.scope = 0].panel = NoItem
         /\ [CtClosed EXCEPT !.scope = 0].scope = 0
         /\ [CtClosed EXCEPT !.scope = 0].searching = FALSE
<1>1. CtClosed \in CtState
  BY Numbered DEF CtClosed, CtState
<1>2. /\ CtClosed.shown = {} /\ CtClosed.panel = NoItem /\ CtClosed.scope = 1
      /\ CtClosed.searching = FALSE /\ CtClosed.loading
  BY DEF CtClosed
<1>3. [CtClosed EXCEPT !.scope = 0] \in CtState
  BY <1>1 DEF CtState
<1>4. /\ [CtClosed EXCEPT !.scope = 0].shown = {} /\ [CtClosed EXCEPT !.scope = 0].panel = NoItem
      /\ [CtClosed EXCEPT !.scope = 0].scope = 0
      /\ [CtClosed EXCEPT !.scope = 0].searching = FALSE
  BY DEF CtClosed
<1>. QED BY <1>1, <1>2, <1>3, <1>4 DEF Panel

LEMMA ItemDeleted ==
  ASSUME ListsInv, ShellTypeOK, ShellTypeOK', UNCHANGED <<page, ops>>, page # "teams",
         NEW r \in ctReqs, r.k = "delete", r.st # "asked",
         Settles(r, [ct EXCEPT !.shown = IF r.st = "ok" THEN @ \ {r.n} ELSE @])
  PROVE  ListsInv'
<1>1. PICK state : state = [ct EXCEPT !.shown = IF r.st = "ok" THEN @ \ {r.n} ELSE @]
  OBVIOUS
<1>2. ct \in CtState
  BY DEF ListsInv, ListPart, CatalogTypeOK
<1>3. /\ state \in CtState /\ state.loading = ct.loading /\ state.panel = ct.panel
      /\ state.scope = ct.scope /\ state.searching = ct.searching
  BY <1>1, <1>2 DEF CtState
<1>4. /\ r.st # "ok" => state.shown = ct.shown
      /\ r.st = "ok" => state.shown = ct.shown \ {r.n}
  BY <1>1, <1>2 DEF CtState
<1>. QED BY <1>1, <1>3, <1>4, Edited

LEMMA ListShown ==
  ASSUME ListsInv, ShellTypeOK, ShellTypeOK', page # "teams",
         NEW p, NEW k \in ListKinds, NEW r \in ctReqs, CtHandles(p, r, k),
         NEW x \in SUBSET ct.shown, Settles(r, Shows(r, x))
  PROVE  ListsInv'
<1>1. PICK state : state = Shows(r, x)
  OBVIOUS
<1>2. x \subseteq Items
  BY ListFields DEF ListsInv, ListPart, CatalogTypeOK
<1>3. /\ state \in CtState /\ (r.st = "ok" => state.shown = r.got) /\ (r.st # "ok" => state.shown = x)
      /\ state.panel = ct.panel /\ state.scope = ct.scope /\ state.searching = ct.searching
  BY <1>1, <1>2, ShowsTyped DEF ListsInv, ListPart
<1>4. r.k = k /\ r.st # "asked" /\ UNCHANGED <<page, ops>>
  BY DEF CtHandles, Unattended, shellVars
<1>. QED BY <1>1, <1>3, <1>4, ListAnswered

LEMMA MemoryKept ==
  ASSUME ListsInv, ShellTypeOK, ShellTypeOK', MemoryStep
  PROVE  ListsInv'
<1>0. /\ page = "memory" /\ ct \in CtState /\ ctReqs \subseteq CtReq
      /\ "load" \in ListKinds /\ "search" \in ListKinds /\ ctReqs \in SUBSET ctReqs
      /\ ops \in Ids /\ ops' \in Ids /\ MK \subseteq ctReqs /\ "create" \in Commands
      /\ "delete" \in Commands /\ "create" # "delete" /\ "delete" \notin Creates
      /\ (ct.searching => ct.scope # 0) /\ ct.scope \in 0..2
  BY ListFields, KindsApart DEF MemoryStep, ListsInv, ListPart, CatalogTypeOK, ScopesKnown, ListKinds,
     Commands, ShellTypeOK, MK
<1>1. CASE MemoryAgentsArrive
  <2>1. /\ ct' \in CtState /\ ct'.shown = ct.shown /\ ct'.panel = ct.panel /\ ct'.scope = 1
        /\ page' = page /\ ops' = ops /\ Asks(ctReqs, ops, "load", 1) /\ UNCHANGED <<store, teamStore>>
    <3>1. /\ ct' = [ct EXCEPT !.scope = 1, !.loading = TRUE] /\ page' = page /\ ops' = ops
          /\ Asks(ctReqs, ops, "load", 1) /\ UNCHANGED <<store, teamStore>>
      BY <1>1 DEF MemoryAgentsArrive, Unattended, shellVars
    <3>0. 1 \in 0..2
      OBVIOUS
    <3>2. ct' \in CtState /\ ct'.shown = ct.shown /\ ct'.panel = ct.panel /\ ct'.scope = 1
      BY <1>0, <3>0, <3>1 DEF CtState
    <3>. QED BY <3>1, <3>2
  <2>2. ScopeFits'
    BY <1>0, <2>1 DEF ScopeFits
  <2>. QED BY <1>0, <2>1, <2>2, AskedAgain
<1>2. ASSUME NEW a \in Scopes, PickMemoryAgent(a) PROVE ListsInv'
  <2>1. /\ ct' \in CtState /\ ct'.shown = ct.shown /\ ct'.panel = ct.panel /\ ct'.scope = a
        /\ page' = page /\ ops' = ops + 1 /\ Asks(ctReqs, ops', "load", a) /\ UNCHANGED <<store, teamStore>>
        /\ a \in 0..2 /\ a # 0
    <3>1. /\ ct' = [ct EXCEPT !.scope = a, !.searching = FALSE, !.loading = TRUE]
          /\ page' = page /\ ops' = ops + 1
          /\ Asks(ctReqs, ops', "load", a) /\ UNCHANGED <<store, teamStore>>
      BY <1>2 DEF PickMemoryAgent, OnCatalog, On, Click
    <3>2. a \in 0..2 /\ a # 0
      BY DEF Scopes
    <3>3. ct' \in CtState /\ ct'.shown = ct.shown /\ ct'.panel = ct.panel /\ ct'.scope = a
      BY <1>0, <3>1, <3>2 DEF CtState
    <3>. QED BY <3>1, <3>2, <3>3
  <2>2. ScopeFits'
    BY <1>0, <2>1 DEF ScopeFits
  <2>. QED BY <1>0, <2>1, <2>2, AskedAgain
<1>3. CASE MemorySearch
  <2>1. /\ ct' \in CtState /\ ct'.shown = ct.shown /\ ct'.panel = ct.panel /\ ct'.scope = ct.scope
        /\ ct'.searching = TRUE /\ ct.scope # 0
        /\ page' = page /\ ops' = ops + 1 /\ Asks(ctReqs, ops', "search", ct.scope)
        /\ UNCHANGED <<store, teamStore>>
    BY <1>0, <1>3 DEF MemorySearch, OnCatalog, On, Click, CtState
  <2>2. ScopeFits'
    BY <1>0, <2>1 DEF ScopeFits
  <2>. QED BY <1>0, <2>1, <2>2, AskedAgain
<1>4. CASE ClearSearch
  <2>1. /\ ct' \in CtState /\ ct'.shown = ct.shown /\ ct'.panel = ct.panel /\ ct'.scope = ct.scope
        /\ ct.scope # 0
        /\ page' = page /\ ops' = ops + 1 /\ Asks(ctReqs, ops', "load", ct.scope)
        /\ UNCHANGED <<store, teamStore>>
    BY <1>0, <1>4 DEF ClearSearch, OnCatalog, On, Click, CtState
  <2>2. ScopeFits'
    BY <1>0, <2>1 DEF ScopeFits
  <2>. QED BY <1>0, <2>1, <2>2, AskedAgain
<1>5. CASE MemoryForm
  <2>1. PICK b \in BOOLEAN : b <=> ~ct.dialog
    OBVIOUS
  <2>2. PICK state : state = [ct EXCEPT !.dialog = ~@]
    OBVIOUS
  <2>3. /\ state \in CtState /\ state.shown = ct.shown /\ state.loading = ct.loading
        /\ state.scope = ct.scope /\ state.searching = ct.searching /\ state.panel = ct.panel
    BY <1>0, <2>2 DEF CtState
  <2>4. Edits(state) /\ page' = page /\ ops' = ops + 1
    BY <1>5, <2>2 DEF MemoryForm, OnCatalog, On, Click
  <2>. QED BY <1>0, <2>3, <2>4, DialogKept
<1>6. CASE MemoryAdd
  <2>1. Commanded("create", ops') /\ ct' = ct /\ ct.scope # 0 /\ page' = page /\ ops' = ops + 1
        /\ ops' \in MaybeItems
    BY <1>0, <1>6, Numbered DEF MemoryAdd, OnCatalog, On, Click, Ids, MaybeItems, Items
  <2>. QED BY <1>0, <2>1, Sent
<1>7. ASSUME NEW i \in Items, MemoryDelete(i) PROVE ListsInv'
  <2>1. Commanded("delete", i) /\ ct' = ct /\ i \in ct.shown /\ page' = page /\ ops' = ops + 1
        /\ i \in MaybeItems
    BY <1>7 DEF MemoryDelete, OnCatalog, On, Click, MaybeItems
  <2>2. ct.scope # 0
    BY <1>0, <1>7 DEF MemoryDelete, ListsInv, ListPart, EmptyUnpicked
  <2>. QED BY <1>0, <2>1, <2>2, Sent
<1>8. ASSUME NEW r \in ctReqs, MemoriesArrive(r) PROVE ListsInv'
  BY <1>0, <1>8, ListShown DEF MemoriesArrive
<1>9. ASSUME NEW r \in ctReqs, MemoryFound(r) PROVE ListsInv'
  BY <1>0, <1>9, ListShown DEF MemoryFound
<1>10. ASSUME NEW r \in ctReqs, MemoryAdded(r) PROVE ListsInv'
  <2>1. PICK state : state = [ct EXCEPT !.dialog = FALSE, !.loading = TRUE]
    OBVIOUS
  <2>2. /\ state \in CtState /\ state.shown = ct.shown /\ state.panel = ct.panel
        /\ state.scope = ct.scope /\ state.searching = ct.searching
    BY <1>0, <2>1 DEF CtState
  <2>3. SettlesAndReloads(r, state) /\ r.k = "create" /\ UNCHANGED <<page, ops>>
    BY <1>10, <2>1 DEF MemoryAdded, CtHandles, Unattended, shellVars
  <2>. QED BY <1>0, <2>2, <2>3, Reloaded
<1>11. ASSUME NEW r \in ctReqs, MemoryDeleted(r) PROVE ListsInv'
  BY <1>0, <1>11, ItemDeleted DEF MemoryDeleted, CtHandles, Unattended, shellVars
<1>. QED BY <1>1, <1>2, <1>3, <1>4, <1>5, <1>6, <1>7, <1>8, <1>9, <1>10, <1>11 DEF MemoryStep

LEMMA IntegrationsKept ==
  ASSUME ListsInv, ShellTypeOK, ShellTypeOK', IntegrationsStep
  PROVE  ListsInv'
<1>0. /\ page = "integrations" /\ ct \in CtState /\ ctReqs \subseteq CtReq
      /\ "load" \in ListKinds /\ "reload" \in ListKinds /\ ct.shown \subseteq ct.shown
      /\ ops \in Ids /\ ops' \in Ids /\ "create" \in Commands /\ "create" \in Creates
      /\ "delete" \in Commands /\ "change" \in Commands /\ "change" \notin Creates \cup {"delete"}
      /\ "create" # "delete" /\ "delete" \notin Creates
  BY KindsApart DEF IntegrationsStep, ListsInv, ListPart, CatalogTypeOK, ListKinds, Commands,
     ShellTypeOK, Creates
<1>1. CASE IntegrationModal
  <2>2. PICK state : state = [ct EXCEPT !.dialog = ~@]
    OBVIOUS
  <2>3. /\ state \in CtState /\ state.shown = ct.shown /\ state.loading = ct.loading
        /\ state.scope = ct.scope /\ state.searching = ct.searching /\ state.panel = ct.panel
    BY <1>0, <2>2 DEF CtState
  <2>4. Edits(state) /\ page' = page /\ ops' = ops + 1
    BY <1>1, <2>2 DEF IntegrationModal, OnIntegrations, OnCatalog, On, Click
  <2>. QED BY <1>0, <2>3, <2>4, DialogKept
<1>2. CASE IntegrationCreate
  <2>1. Commanded("create", ops') /\ ct' = [ct EXCEPT !.saving = TRUE] /\ page' = page /\ ops' = ops + 1
    BY <1>2 DEF IntegrationCreate, OnIntegrations, OnCatalog, On, Click
  <2>2. /\ ct' \in CtState /\ ct'.shown = ct.shown /\ ct'.loading = ct.loading /\ ct'.scope = ct.scope
        /\ ct'.searching = ct.searching /\ ct'.panel = ct.panel /\ ct'.members = ct.members
        /\ ct'.crossed = ct.crossed
    BY <1>0, <2>1 DEF CtState
  <2>3. ops' \in MaybeItems
    BY <1>0, Numbered DEF Ids, MaybeItems, Items
  <2>. QED BY <1>0, <2>1, <2>2, <2>3, Sent
<1>3. ASSUME NEW i \in Items, IntegrationDelete(i) \/ IntegrationTest(i) PROVE ListsInv'
  <2>1. /\ Commanded("delete", i) \/ Commanded("change", i)
        /\ ct' = ct /\ i \in ct.shown /\ page' = page /\ ops' = ops + 1 /\ i \in MaybeItems
    BY <1>3 DEF IntegrationDelete, IntegrationTest, OnIntegrations, OnCatalog, On, Click, MaybeItems
  <2>. QED BY <1>0, <2>1, Sent
<1>4. ASSUME NEW r \in ctReqs, IntegrationsArrive(r) PROVE ListsInv'
  BY <1>0, <1>4, ListShown DEF IntegrationsArrive
<1>5. ASSUME NEW r \in ctReqs, IntegrationsReloaded(r) PROVE ListsInv'
  <2>1. PICK state : state = [Shows(r, ct.shown) EXCEPT !.saving = FALSE]
    OBVIOUS
  <2>2. /\ Shows(r, ct.shown) \in CtState
        /\ r.st = "ok" => Shows(r, ct.shown).shown = r.got
        /\ r.st # "ok" => Shows(r, ct.shown).shown = ct.shown
        /\ Shows(r, ct.shown).panel = ct.panel /\ Shows(r, ct.shown).scope = ct.scope
        /\ Shows(r, ct.shown).searching = ct.searching
    <3>1. CatalogTypeOK /\ ct.shown \in SUBSET Items
      BY ListFields DEF ListsInv, ListPart, CatalogTypeOK
    <3>. QED BY <3>1, ShowsTyped
  <2>3. /\ state \in CtState /\ state.shown = Shows(r, ct.shown).shown
        /\ state.panel = ct.panel /\ state.scope = ct.scope /\ state.searching = ct.searching
    BY <2>1, <2>2 DEF CtState
  <2>4. Settles(r, state) /\ r.k = "reload" /\ r.st # "asked" /\ UNCHANGED <<page, ops>>
    BY <1>5, <2>1 DEF IntegrationsReloaded, CtHandles, Unattended, shellVars
  <2>. QED BY <1>0, <2>2, <2>3, <2>4, ListAnswered
<1>6. ASSUME NEW r \in ctReqs, IntegrationCreated(r) PROVE ListsInv'
  <2>0. r.k = "create" /\ r.st # "asked" /\ UNCHANGED <<page, ops>> /\ r.id \in Ids
    BY <1>0, <1>6, RequestFields DEF IntegrationCreated, CtHandles, Unattended, shellVars
  <2>1. CASE r.st = "ok"
    <3>1. /\ ct' = [ct EXCEPT !.dialog = FALSE] /\ UNCHANGED <<store, teamStore>>
          /\ Asks(ctReqs \ {r}, r.id, "reload", 1)
      BY <1>6, <2>1 DEF IntegrationCreated
    <3>2. ct' \in CtState /\ ct'.shown = ct.shown /\ ct'.panel = ct.panel /\ ct'.scope = ct.scope
      BY <1>0, <3>1 DEF CtState
    <3>3. ctReqs \ {r} \in SUBSET ctReqs /\ MK \subseteq ctReqs \ {r} /\ 1 \in 0..2
      BY <1>0, <2>0, KindsApart DEF MK
    <3>4. ScopeFits'
      BY <2>0, <3>2 DEF ListsInv, ListPart, ScopeFits
    <3>. QED BY <1>0, <2>0, <3>1, <3>2, <3>3, <3>4, AskedAgain
  <2>2. CASE r.st # "ok"
    <3>1. PICK state : state = [ct EXCEPT !.saving = FALSE]
      OBVIOUS
    <3>2. Settles(r, state)
      BY <1>6, <2>2, <3>1 DEF IntegrationCreated
    <3>3. /\ state \in CtState /\ state.shown = ct.shown /\ state.loading = ct.loading
          /\ state.scope = ct.scope /\ state.searching = ct.searching /\ state.panel = ct.panel
      BY <1>0, <3>1 DEF CtState
    <3>. QED BY <1>0, <2>0, <2>2, <3>2, <3>3, Edited
  <2>. QED BY <2>1, <2>2
<1>7. ASSUME NEW r \in ctReqs, IntegrationDeleted(r) PROVE ListsInv'
  BY <1>0, <1>7, ItemDeleted DEF IntegrationDeleted, CtHandles, Unattended, shellVars
<1>8. ASSUME NEW r \in ctReqs, IntegrationTested(r) PROVE ListsInv'
  BY <1>0, <1>8, Reloaded DEF IntegrationTested, CtHandles, Unattended, shellVars
<1>. QED BY <1>1, <1>2, <1>3, <1>4, <1>5, <1>6, <1>7, <1>8 DEF IntegrationsStep

LEMMA PromptsKept ==
  ASSUME ListsInv, ShellTypeOK, ShellTypeOK', PromptsStep
  PROVE  ListsInv'
<1>0. /\ page = "prompts" /\ ct \in CtState /\ "load" \in ListKinds
      /\ ops' \in Ids /\ ops' \in MaybeItems /\ "create" \in Commands /\ "create" # "delete"
      /\ "change" \in Commands /\ "change" \notin Creates \cup {"delete"}
  BY DEF PromptsStep, ListsInv, ListPart, CatalogTypeOK, ListKinds, Commands, ShellTypeOK, Creates,
     MaybeItems, Items
<1>1. CASE PromptCreate
  <2>1. Commanded("create", ops') /\ ct' = ct /\ page' = page /\ ops' = ops + 1
    BY <1>1 DEF PromptCreate, OnCatalog, On, Click
  <2>. QED BY <1>0, <2>1, Sent
<1>2. ASSUME NEW i \in Items, PromptChange(i) PROVE ListsInv'
  <2>1. Commanded("change", i) /\ ct' = ct /\ page' = page /\ ops' = ops + 1 /\ i \in MaybeItems
    BY <1>2 DEF PromptChange, OnCatalog, On, Click, MaybeItems
  <2>. QED BY <1>0, <2>1, Sent
<1>3. ASSUME NEW r \in ctReqs, PromptsArrive(r) PROVE ListsInv'
  BY <1>0, <1>3, ListShown DEF PromptsArrive
<1>4. ASSUME NEW r \in ctReqs, PromptSaved(r) PROVE ListsInv'
  BY <1>0, <1>4, Reloaded DEF PromptSaved, CtHandles, Unattended, shellVars
<1>. QED BY <1>1, <1>2, <1>3, <1>4 DEF PromptsStep

LEMMA GovernanceKept ==
  ASSUME ListsInv, ShellTypeOK, ShellTypeOK', GovernanceStep
  PROVE  ListsInv'
<1>0. /\ page = "governance" /\ ct \in CtState /\ ctReqs \subseteq CtReq /\ "load" \in ListKinds
      /\ ctReqs \in SUBSET ctReqs /\ MK \subseteq ctReqs
      /\ ops' \in Ids /\ ops' \in MaybeItems /\ "create" \in Commands /\ "create" \in Creates
      /\ "create" # "delete" /\ "delete" \in Commands /\ "delete" \notin Creates
      /\ ct.shown \subseteq Items
  BY ListFields DEF GovernanceStep, ListsInv, ListPart, CatalogTypeOK, ListKinds, Commands,
     ShellTypeOK, Creates, MaybeItems, Items, MK
<1>1. ASSUME GovernanceTab, ct.scope = 0 PROVE ListsInv'
  <2>1. /\ ct' = CtClosed /\ Asks(ctReqs, ops', "load", 1) /\ page' = page /\ ops' = ops + 1
        /\ UNCHANGED <<store, teamStore>>
    BY <1>1 DEF GovernanceTab, OnCatalog, On, Click
  <2>2. ScopeFits' /\ 1 \in 0..2 /\ {} \subseteq ct.shown
    BY <1>0, <2>1, ClosedList DEF ScopeFits
  <2>. QED BY <1>0, <2>1, <2>2, ClosedList, AskedAgain
<1>2. ASSUME GovernanceTab, ct.scope # 0 PROVE ListsInv'
  <2>1. /\ ct' = [CtClosed EXCEPT !.scope = 0] /\ page' = page /\ ops' = ops + 1
        /\ ctReqs' = {[r EXCEPT !.scope = 0] : r \in {q \in ctReqs : q.k # "load"}}
        /\ raced' = FALSE /\ UNCHANGED <<store, teamStore>>
    BY <1>2 DEF GovernanceTab, OnCatalog, On, Click
  <2>2. ASSUME NEW q \in ctReqs'
        PROVE  \E r \in ctReqs : /\ q = [r EXCEPT !.scope = 0] /\ r \in CtReq
    BY <1>0, <2>1
  <2>3. ASSUME NEW r \in CtReq, NEW q, q = [r EXCEPT !.scope = 0]
        PROVE  q \in CtReq /\ q.k = r.k /\ q.n = r.n /\ q.got = r.got /\ q.scope = 0
    BY <2>3 DEF CtReq
  <2>4. CatalogTypeOK'
    <3>1. ctReqs' \subseteq CtReq
      BY <2>2, <2>3
    <3>. QED BY <2>1, <3>1, ClosedList DEF ListsInv, ListPart, CatalogTypeOK
  <2>5. NumbersPassed'
    <3>1. ASSUME NEW q \in Q'
          PROVE  /\ q.k \in Creates \cup {"delete"} => q.n \in Passed
                 /\ q.k \in ListKinds => q.got \subseteq Passed
      <4>1. q \in ctReqs' /\ q.k \in ListKinds \cup Commands
        BY DEF Q
      <4>2. PICK r \in ctReqs : q = [r EXCEPT !.scope = 0] /\ r \in CtReq
        BY <2>2, <4>1
      <4>3. r \in Q /\ q.k = r.k /\ q.n = r.n /\ q.got = r.got
        BY <2>3, <4>1, <4>2 DEF Q
      <4>. QED BY <4>3 DEF ListsInv, ListPart, NumbersPassed
    <3>. QED BY <2>1, <3>1, PassedGrows, ClosedList DEF ListsInv, ListPart, NumbersPassed
  <2>6. MembersPart'
    <3>1. ASSUME NEW q \in MK' PROVE q.scope # 2 /\ (q.k = "join" => q.n \in Items)
      <4>1. q \in ctReqs' /\ q.k \in MemberKinds
        BY DEF MK
      <4>2. PICK r \in ctReqs : q = [r EXCEPT !.scope = 0] /\ r \in CtReq
        BY <2>2, <4>1
      <4>3. r \in MK /\ q.k = r.k /\ q.n = r.n /\ q.scope = 0
        BY <2>3, <4>1, <4>2 DEF MK
      <4>. QED BY <4>3 DEF ListsInv, MembersPart
    <3>. QED BY <1>0, <2>1, <3>1 DEF MembersPart, MembersInv
  <2>7. ListInv' /\ ScopeFits' /\ ScopesKnown' /\ EmptyUnpicked'
    BY <1>0, <2>1, ClosedList DEF ListInv, Watched, ScopeFits, ScopesKnown, EmptyUnpicked
  <2>. QED BY <2>4, <2>5, <2>6, <2>7 DEF ListsInv, ListPart
<1>3. CASE PolicyForm
  <2>2. PICK state : state = [ct EXCEPT !.dialog = ~@]
    OBVIOUS
  <2>3. /\ state \in CtState /\ state.shown = ct.shown /\ state.loading = ct.loading
        /\ state.scope = ct.scope /\ state.searching = ct.searching /\ state.panel = ct.panel
    BY <1>0, <2>2 DEF CtState
  <2>4. Edits(state) /\ page' = page /\ ops' = ops + 1
    BY <1>3, <2>2 DEF PolicyForm, OnPolicies, OnCatalog, On, Click
  <2>. QED BY <1>0, <2>3, <2>4, DialogKept
<1>4. CASE PolicyCreate
  <2>1. Commanded("create", ops') /\ ct' = ct /\ page' = page /\ ops' = ops + 1
    BY <1>4 DEF PolicyCreate, OnPolicies, OnCatalog, On, Click
  <2>. QED BY <1>0, <2>1, Sent
<1>5. ASSUME NEW i \in Items, PolicyDelete(i) PROVE ListsInv'
  <2>1. Commanded("delete", i) /\ ct' = ct /\ page' = page /\ ops' = ops + 1
        /\ i \in ct.shown /\ i \in MaybeItems
    BY <1>5 DEF PolicyDelete, OnPolicies, OnCatalog, On, Click, MaybeItems
  <2>. QED BY <1>0, <2>1, Sent
<1>6. ASSUME NEW r \in ctReqs, PoliciesArrive(r) PROVE ListsInv'
  BY <1>0, <1>6, ListShown DEF PoliciesArrive
<1>7. ASSUME NEW r \in ctReqs, PolicyCreated(r) PROVE ListsInv'
  <2>1. PICK state : state = (IF r.scope = 0 \/ r.st = "failed" THEN ct
                              ELSE [ct EXCEPT !.shown = @ \cup {r.n}, !.dialog = FALSE])
    OBVIOUS
  <2>2. Settles(r, state) /\ r.k = "create" /\ r.st # "asked" /\ UNCHANGED <<page, ops>>
    BY <1>7, <2>1 DEF PolicyCreated, CtHandles, Unattended, shellVars
  <2>3. r.n \in Items /\ r.st \in {"asked", "ok", "failed"}
    BY <1>0, <2>2, PassedIsItems, RequestFields DEF ListsInv, ListPart, NumbersPassed, Q
  <2>4. CASE r.scope = 0 \/ r.st = "failed"
    BY <1>0, <2>1, <2>2, <2>3, <2>4, Edited
  <2>5. CASE ~(r.scope = 0 \/ r.st = "failed")
    <3>1. /\ state \in CtState /\ state.shown = ct.shown \cup {r.n} /\ state.loading = ct.loading
          /\ state.scope = ct.scope /\ state.searching = ct.searching /\ state.panel = ct.panel
      BY <1>0, <2>1, <2>3, <2>5 DEF CtState
    <3>. QED BY <1>0, <2>2, <2>3, <2>5, <3>1, Edited
  <2>. QED BY <2>4, <2>5
<1>8. ASSUME NEW r \in ctReqs, PolicyDeleted(r) PROVE ListsInv'
  <2>1. PICK state : state = (IF r.scope = 0 \/ r.st = "failed" THEN ct
                              ELSE [ct EXCEPT !.shown = @ \ {r.n}])
    OBVIOUS
  <2>2. Settles(r, state) /\ r.k = "delete" /\ r.st # "asked" /\ UNCHANGED <<page, ops>>
    BY <1>8, <2>1 DEF PolicyDeleted, CtHandles, Unattended, shellVars
  <2>3. r.st \in {"asked", "ok", "failed"}
    BY <1>0, RequestFields
  <2>4. CASE r.scope = 0 \/ r.st = "failed"
    BY <1>0, <2>1, <2>2, <2>3, <2>4, Edited
  <2>5. CASE ~(r.scope = 0 \/ r.st = "failed")
    <3>1. /\ state \in CtState /\ state.shown = ct.shown \ {r.n} /\ state.loading = ct.loading
          /\ state.scope = ct.scope /\ state.searching = ct.searching /\ state.panel = ct.panel
      BY <1>0, <2>1, <2>5 DEF CtState
    <3>. QED BY <1>0, <2>2, <2>3, <2>5, <3>1, Edited
  <2>. QED BY <2>4, <2>5
<1>. QED BY <1>1, <1>2, <1>3, <1>4, <1>5, <1>6, <1>7, <1>8 DEF GovernanceStep

\* The page of teams shows another state; a panel may appear or go.
LEMMA TeamsShown ==
  ASSUME ListsInv, ShellTypeOK, page = "teams", page' = page,
         NEW rest \in SUBSET CtReq, {r \in rest : r.k \in MemberKinds} = MK,
         NEW i \in Ids, NEW state \in CtState,
         state.members = ct.members, state.crossed = ct.crossed, ShowsTeams(rest, i, state)
  PROVE  /\ ctReqs' \subseteq CtReq /\ Q' = {r \in rest : r.k \in ListKinds \cup Commands}
         /\ ct' \in CtState /\ ct'.shown = state.shown /\ ct'.panel = state.panel
         /\ ct'.loading = state.loading /\ ct'.scope = state.scope
         /\ ct'.searching = state.searching
         /\ teamStore' \subseteq Items /\ MembersPart'
<1>1. CASE Panel(state) = Panel(ct)
  <2>1. ct' = state /\ ctReqs' = rest /\ teamStore' = teamStore
    BY <1>1 DEF ShowsTeams
  <2>2. MK' = MK
    BY <2>1 DEF MK
  <2>3. MembersPart'
    BY <1>1, <2>1, <2>2 DEF ListsInv, MembersPart, MembersInv, M, Panel
  <2>. QED BY <2>1, <2>3 DEF Q, ListsInv, ListPart, CatalogTypeOK
<1>2. CASE Panel(state) # Panel(ct)
  <2>1. PICK moved : moved = {IF r.k \in MemberKinds THEN [r EXCEPT !.scope = 0] ELSE r : r \in rest}
    OBVIOUS
  <2>2. PICK new : new = IF Panel(state) = NoItem THEN {} ELSE {CtReqNew(i, "members", NoItem, 1)}
    OBVIOUS
  <2>3. /\ ct' = [state EXCEPT !.members = {}, !.crossed = FALSE] /\ ctReqs' = moved \cup new
        /\ teamStore' \in IF Panel(state) = NoItem THEN {{}} ELSE SUBSET {0}
    BY <1>2, <2>1, <2>2 DEF ShowsTeams
  <2>4. /\ ct' \in CtState /\ ct'.shown = state.shown /\ ct'.panel = state.panel
        /\ ct'.loading = state.loading /\ ct'.scope = state.scope
        /\ ct'.searching = state.searching
    BY <2>3 DEF CtState
  <2>5. teamStore' \subseteq Items
    BY <2>3, Numbered
  <2>6. new \subseteq CtReq /\ \A q \in new : /\ q.k = "members" /\ q.st = "asked" /\ q.scope = 1
                                              /\ \A p \in new : p = q
    <3>1. "members" \in MemberKinds /\ "members" \in Kinds /\ 1 \in 0..2
      BY DEF MemberKinds, MemberLists, Kinds
    <3>2. PICK q : q = CtReqNew(i, "members", NoItem, 1)
      OBVIOUS
    <3>3. q.k = "members" /\ q.st = "asked" /\ q.scope = 1
      BY <3>2, NewRequest
    <3>4. q \in CtReq
      BY <3>1, <3>2, Numbered, NewRequest
    <3>. QED BY <2>2, <3>2, <3>3, <3>4
  <2>7. ASSUME NEW q \in moved
        PROVE  /\ q \in CtReq
               /\ q.k \in MemberKinds => q.scope = 0 /\ \E r \in MK : q.k = r.k /\ q.n = r.n
               /\ q.k \notin MemberKinds => q \in rest
    <3>1. PICK r \in rest : q = IF r.k \in MemberKinds THEN [r EXCEPT !.scope = 0] ELSE r
      BY <2>1
    <3>2. CASE r.k \in MemberKinds
      <4>1. q = [r EXCEPT !.scope = 0] /\ r \in CtReq /\ r \in MK
        BY <3>1, <3>2
      <4>2. q \in CtReq /\ q.k = r.k /\ q.n = r.n /\ q.scope = 0
        BY <4>1 DEF CtReq
      <4>. QED BY <3>2, <4>1, <4>2
    <3>3. CASE r.k \notin MemberKinds
      BY <3>1, <3>3
    <3>. QED BY <3>2, <3>3
  <2>8. \A r \in rest : r.k \notin MemberKinds => r \in moved
    <3>1. ASSUME NEW r \in rest, r.k \notin MemberKinds PROVE r \in moved
      <4>1. r = IF r.k \in MemberKinds THEN [r EXCEPT !.scope = 0] ELSE r
        BY <3>1
      <4>. QED BY <2>1, <4>1
    <3>. QED BY <3>1
  <2>9. "members" \in MemberKinds /\ "members" # "join"
    BY DEF MemberKinds, MemberLists
  <2>10. Q' = {r \in rest : r.k \in ListKinds \cup Commands}
    BY <2>3, <2>6, <2>7, <2>8, <2>9, KindsApart DEF Q
  <2>11. \A q \in MK' : q.scope # 2 /\ (q.k = "join" => q.n \in Items)
    BY <2>3, <2>6, <2>7, <2>9 DEF MK, ListsInv, MembersPart
  <2>12. M' = new
    BY <2>3, <2>6, <2>7, <2>9 DEF M, MK
  <2>13. Panel(ct)' = Panel(state)
    BY <2>4 DEF Panel
  <2>14. MembersInv'
    BY <2>2, <2>6, <2>12, <2>13 DEF MembersInv
  <2>15. ctReqs' \subseteq CtReq
    BY <2>3, <2>6, <2>7
  <2>. QED BY <2>4, <2>5, <2>10, <2>11, <2>14, <2>15 DEF MembersPart
<1>. QED BY <1>1, <1>2

LEMMA TeamListsKept ==
  ASSUME ListsInv, ShellTypeOK, ShellTypeOK', page = "teams",
         \/ TeamCreate \/ \E i \in Items : TeamDelete(i) \/ TeamToggle(i)
         \/ \E r \in ctReqs : TeamsArrive(r) \/ TeamCreated(r) \/ TeamDeleted(r)
  PROVE  ListsInv'
<1>0. /\ ct \in CtState /\ ctReqs \subseteq CtReq /\ "load" \in ListKinds /\ raced \in BOOLEAN
      /\ store \in [Scopes -> SUBSET Items] /\ teamStore \subseteq Items
      /\ ops' \in Ids /\ ops' \in MaybeItems /\ "create" \in Commands /\ "create" # "delete"
      /\ "delete" \in Commands /\ "delete" \notin Creates /\ NoItem \in MaybeItems
      /\ ct.scope = 1
  <2>1. ct.scope \in 0..2 /\ ScopeFits
    BY ListFields DEF ListsInv, ListPart, CatalogTypeOK
  <2>. QED BY <2>1, Numbered DEF ListsInv, ListPart, CatalogTypeOK, ListKinds, Commands, ShellTypeOK,
     Creates, MaybeItems, Items, ScopeFits
<1>1. CASE TeamCreate
  <2>1. Commanded("create", ops') /\ ct' = ct /\ page' = page /\ ops' = ops + 1
    BY <1>1 DEF TeamCreate, OnCatalog, On, Click
  <2>. QED BY <1>0, <2>1, Sent
<1>2. ASSUME NEW i \in Items, TeamDelete(i) PROVE ListsInv'
  <2>1. PICK s : s = IF ct.panel = i THEN 2 ELSE 1
    OBVIOUS
  <2>2. PICK q : q = CtReqNew(ops', "delete", i, s)
    OBVIOUS
  <2>3. /\ ctReqs' = ctReqs \cup {q} /\ raced' = (raced \/ loadUnderWay) /\ i \in ct.shown
        /\ UNCHANGED <<ct, store, teamStore>> /\ page' = page /\ ops' = ops + 1
    BY <1>2, <2>1, <2>2 DEF TeamDelete, OnTeams, OnCatalog, On, Click
  <2>4. s \in 0..2 /\ s # 0
    BY <2>1
  <2>5. q.k = "delete" /\ q.n = i /\ q.scope = s /\ q.st = "asked"
    BY <2>2, NewRequest
  <2>6. q \in CtReq
    BY <1>0, <2>2, <2>4, KindsApart, NewRequest DEF MaybeItems
  <2>7. raced' \in BOOLEAN /\ (raced' <=> (raced \/ loadUnderWay))
    BY <1>0, <2>3 DEF loadUnderWay
  <2>8. ListPart'
    BY <1>0, <2>3, <2>4, <2>5, <2>6, <2>7, CommandKept DEF ListsInv
  <2>9. MK' = MK
    BY <2>3, <2>5, KindsApart DEF MK
  <2>. QED BY <2>3, <2>8, <2>9, MembersStay DEF ListsInv
<1>3. ASSUME NEW i \in Items, TeamToggle(i) PROVE ListsInv'
  <2>1. PICK state : state = [ct EXCEPT !.panel = IF @ = i THEN NoItem ELSE i]
    OBVIOUS
  <2>2. /\ ShowsTeams(ctReqs, ops', state) /\ UNCHANGED <<raced, store>> /\ i \in ct.shown
        /\ page' = page /\ ops' = ops + 1
    BY <1>3, <2>1 DEF TeamToggle, OnTeams, OnCatalog, On, Click
  <2>3. /\ state \in CtState /\ state.shown = ct.shown /\ state.loading = ct.loading
        /\ state.scope = ct.scope /\ state.searching = ct.searching
        /\ state.panel \in {NoItem, i} /\ state.members = ct.members /\ state.crossed = ct.crossed
    <3>1. i \in MaybeItems
      BY DEF MaybeItems
    <3>2. ct.panel = i => state = [ct EXCEPT !.panel = NoItem]
      BY <2>1
    <3>3. ct.panel # i => state = [ct EXCEPT !.panel = i]
      BY <2>1
    <3>. QED BY <1>0, <3>1, <3>2, <3>3 DEF CtState
  <2>4. /\ ctReqs' \subseteq CtReq /\ Q' = Q
        /\ ct' \in CtState /\ ct'.shown = state.shown /\ ct'.panel = state.panel
        /\ ct'.loading = state.loading /\ ct'.scope = state.scope
        /\ ct'.searching = state.searching
        /\ teamStore' \subseteq Items /\ MembersPart'
    BY <1>0, <2>2, <2>3, TeamsShown DEF Q, MK
  <2>5. CatalogTypeOK'
    BY <1>0, <2>2, <2>4 DEF CatalogTypeOK
  <2>6. ListPart'
    BY <2>2, <2>3, <2>4, <2>5, EditKept DEF ListsInv
  <2>. QED BY <2>4, <2>6 DEF ListsInv
<1>4. ASSUME NEW r \in ctReqs, TeamsArrive(r) PROVE ListsInv'
  <2>1. PICK state : state = Shows(r, {})
    OBVIOUS
  <2>2. /\ ShowsTeams(ctReqs \ {r}, r.id, state) /\ store' = store
        /\ r.k = "load" /\ r.st # "asked" /\ UNCHANGED <<page, ops>>
        /\ raced' = (raced \/ r.st = "failed")
    BY <1>4, <2>1 DEF TeamsArrive, CtHandles, Unattended, shellVars
  <2>3. /\ state \in CtState /\ state.scope = ct.scope /\ state.searching = ct.searching
        /\ state.panel = ct.panel /\ state.members = ct.members /\ state.crossed = ct.crossed
        /\ r.st = "ok" => state.shown = r.got
        /\ r.st # "ok" => state.shown = {}
    BY <2>1, ShowsTyped DEF ListsInv, ListPart
  <2>4. /\ r.id \in Ids /\ r.st \in {"ok", "failed"} /\ r \in Q /\ (ctReqs \ {r}) \in SUBSET CtReq
    BY <1>0, <2>2, RequestFields DEF Q
  <2>5. {q \in ctReqs \ {r} : q.k \in MemberKinds} = MK
    BY <1>0, <2>2, KindsApart DEF MK
  <2>6. /\ ctReqs' \subseteq CtReq /\ Q' = Q \ {r}
        /\ ct' \in CtState /\ ct'.shown = state.shown /\ ct'.panel = state.panel
        /\ ct'.scope = state.scope /\ ct'.searching = state.searching
        /\ teamStore' \subseteq Items /\ MembersPart'
    <3>1. PICK rest \in SUBSET CtReq : rest = ctReqs \ {r}
      BY <2>4
    <3>2. {q \in rest : q.k \in ListKinds \cup Commands} = Q \ {r}
      BY <3>1 DEF Q
    <3>3. {q \in rest : q.k \in MemberKinds} = MK /\ ShowsTeams(rest, r.id, state)
      BY <2>2, <2>5, <3>1
    <3>. QED BY <1>0, <2>2, <2>3, <2>4, <3>2, <3>3, TeamsShown
  <2>7. CatalogTypeOK' /\ (raced' <=> raced \/ r.st # "ok")
    BY <1>0, <2>2, <2>4, <2>6 DEF CatalogTypeOK
  <2>8. ListPart'
    BY <1>0, <2>2, <2>3, <2>4, <2>6, <2>7, ListArrives DEF ListsInv
  <2>. QED BY <2>6, <2>8 DEF ListsInv
<1>5. ASSUME NEW r \in ctReqs, TeamCreated(r) PROVE ListsInv'
  BY <1>0, <1>5, Reloaded DEF TeamCreated, CtHandles, Unattended, shellVars
<1>6. ASSUME NEW r \in ctReqs, TeamDeleted(r), r.st # "ok" PROVE ListsInv'
  BY <1>0, <1>6, Edited DEF TeamDeleted, CtHandles, Unattended, shellVars
<1>7. ASSUME NEW r \in ctReqs, TeamDeleted(r), r.st = "ok" PROVE ListsInv'
  <2>1. PICK state : state = [ct EXCEPT !.panel = IF r.scope = 2 THEN NoItem ELSE @]
    OBVIOUS
  <2>2. PICK q : q = CtReqNew(r.id, "load", NoItem, 1)
    OBVIOUS
  <2>3. PICK rest : rest = (ctReqs \ {r}) \cup {q}
    OBVIOUS
  <2>4. /\ ShowsTeams(rest, r.id, state) /\ store' = store
        /\ raced' = \E p \in ctReqs \ {r} : p.k \in ListKinds \cup Commands
        /\ r.k = "delete" /\ UNCHANGED <<page, ops>>
    BY <1>7, <2>1, <2>2, <2>3 DEF TeamDeleted, CtHandles, Unattended, shellVars
  <2>5. /\ state \in CtState /\ state.shown = ct.shown /\ state.loading = ct.loading
        /\ state.scope = ct.scope /\ state.searching = ct.searching
        /\ state.panel \in {ct.panel, NoItem} /\ state.members = ct.members
        /\ state.crossed = ct.crossed
    <3>1. r.scope = 2 => state = [ct EXCEPT !.panel = NoItem]
      BY <2>1
    <3>2. r.scope # 2 => state = ct
      BY <1>0, <2>1 DEF CtState
    <3>. QED BY <1>0, <3>1, <3>2 DEF CtState
  <2>6. r.id \in Ids /\ r \in CtReq
    BY <1>0, RequestFields
  <2>7. q.k = "load" /\ q.scope = 1 /\ q.st = "asked" /\ q.got = {}
    BY <2>2, NewRequest
  <2>8. q \in CtReq
    <3>1. 1 \in 0..2 /\ "load" \in Kinds
      BY <1>0, KindsApart
    <3>. QED BY <1>0, <2>2, <2>6, <3>1, NewRequest
  <2>9. rest \in SUBSET CtReq /\ {p \in rest : p.k \in MemberKinds} = MK
    BY <1>0, <2>3, <2>4, <2>7, <2>8, KindsApart DEF MK
  <2>10. /\ ctReqs' \subseteq CtReq /\ Q' = {p \in rest : p.k \in ListKinds \cup Commands}
         /\ ct' \in CtState /\ ct'.shown = state.shown /\ ct'.panel = state.panel
         /\ ct'.scope = state.scope /\ ct'.searching = state.searching
         /\ teamStore' \subseteq Items /\ MembersPart'
    BY <2>4, <2>5, <2>6, <2>9, TeamsShown
  <2>11. Q' \subseteq Q \cup {q} /\ q \in Q' /\ (~raced' => Q' = {q}) /\ q \in ctReqs'
    BY <1>0, <2>3, <2>4, <2>7, <2>10 DEF Q
  <2>12. CatalogTypeOK' /\ ScopeFits'
    BY <1>0, <2>4, <2>5, <2>10 DEF CatalogTypeOK, ScopeFits
  <2>13. ListPart'
    BY <1>0, <2>4, <2>5, <2>7, <2>10, <2>11, <2>12, AskKept DEF ListsInv
  <2>. QED BY <2>10, <2>13 DEF ListsInv
<1>. QED BY <1>1, <1>2, <1>3, <1>4, <1>5, <1>6, <1>7

LEMMA MembersKept ==
  ASSUME ListsInv, ShellTypeOK, ShellTypeOK', page = "teams",
         \/ \E i \in Items : \E k \in MemberCommands : MemberCommand(k, i)
         \/ \E r \in ctReqs : MemberCommandReturns(r) \/ MembersArrive(r)
  PROVE  ListsInv'
<1>0. /\ ct \in CtState /\ ctReqs \subseteq CtReq /\ raced \in BOOLEAN
      /\ store \in [Scopes -> SUBSET Items] /\ teamStore \subseteq Items
      /\ ops' \in Ids /\ NoItem \in MaybeItems /\ ct.scope = 1
      /\ MemberLists \subseteq MemberKinds /\ MemberCommands \subseteq MemberKinds
      /\ MemberLists \cap MemberCommands = {} /\ "join" \in MemberCommands
      /\ "members" \in MemberLists /\ "recount" \in MemberLists
  <2>1. ct.scope \in 0..2 /\ ScopeFits
    BY ListFields DEF ListsInv, ListPart, CatalogTypeOK
  <2>. QED BY <2>1, Numbered DEF ListsInv, ListPart, CatalogTypeOK, ShellTypeOK, ScopeFits,
     MemberKinds, MemberLists, MemberCommands
<1>1. ASSUME NEW i \in Items, NEW k \in MemberCommands, MemberCommand(k, i) PROVE ListsInv'
  <2>1. PICK q : q = CtReqNew(ops', k, i, 1)
    OBVIOUS
  <2>2. PICK b \in BOOLEAN : b <=> (ct.crossed \/ MembersUnderWay(ctReqs))
    OBVIOUS
  <2>3. /\ ctReqs' = ctReqs \cup {q} /\ UNCHANGED <<page, raced, store, teamStore>>
        /\ ops' = ops + 1 /\ ct' = [ct EXCEPT !.crossed = @ \/ MembersUnderWay(ctReqs)]
    BY <1>1, <2>1 DEF MemberCommand, OnTeams, OnCatalog, On, Click
  <2>4. /\ ct' \in CtState /\ ct'.shown = ct.shown /\ ct'.loading = ct.loading
        /\ ct'.scope = ct.scope /\ ct'.searching = ct.searching /\ ct'.panel = ct.panel
        /\ ct'.members = ct.members
    BY <1>0, <2>3 DEF CtState
  <2>5. ct'.crossed <=> (ct.crossed \/ MembersUnderWay(ctReqs))
    BY <1>0, <2>3 DEF CtState
  <2>6. q.k = k /\ q.n = i /\ q.scope = 1 /\ q.st = "asked"
    BY <2>1, NewRequest
  <2>7. q \in CtReq
    <3>1. k \in Kinds /\ i \in MaybeItems /\ 1 \in 0..2
      BY <1>0, KindsApart DEF MaybeItems
    <3>. QED BY <1>0, <2>1, <3>1, NewRequest
  <2>8. CatalogTypeOK' /\ Q' = Q
    BY <1>0, <2>3, <2>4, <2>6, <2>7, KindsApart DEF CatalogTypeOK, Q
  <2>9. ListPart'
    BY <2>3, <2>4, <2>8, EditKept DEF ListsInv
  <2>10. MK' = MK \cup {q} /\ M' = M \cup {q}
    BY <1>0, <2>3, <2>6 DEF MK, M
  <2>11. MembersUnderWay(ctReqs) <=> M # {}
    BY DEF MembersUnderWay, M, MK
  <2>12. MembersPart'
    BY <1>0, <2>3, <2>4, <2>5, <2>6, <2>10, <2>11 DEF ListsInv, MembersPart, MembersInv
  <2>. QED BY <2>9, <2>12 DEF ListsInv
<1>2. ASSUME NEW r \in ctReqs, MemberCommandReturns(r) PROVE ListsInv'
  <2>1. PICK q : q = [CtReqNew(r.id, IF r.k = "role" THEN "members" ELSE "recount", NoItem, r.scope)
                      EXCEPT !.st = "asked"]
    OBVIOUS
  <2>2. /\ r.k \in MemberCommands /\ r.st # "asked" /\ UNCHANGED <<page, ops, raced, store, teamStore>>
        /\ ctReqs' = (ctReqs \ {r}) \cup (IF r.st = "failed" THEN {} ELSE {q})
    BY <1>2, <2>1 DEF MemberCommandReturns, Unattended, shellVars
  <2>3. /\ r \in CtReq /\ r.id \in Ids /\ r.scope \in 0..2 /\ r \in MK /\ r.st \in {"ok", "failed"}
        /\ r.scope # 2
    <3>1. r \in MK
      BY <1>0, <2>2 DEF MK
    <3>. QED BY <1>0, <2>2, <3>1, RequestFields DEF ListsInv, MembersPart
  <2>4. /\ q.k \in MemberLists /\ q.scope = r.scope /\ q.st = "asked" /\ q \in CtReq
    <3>1. PICK k \in MemberLists : k = IF r.k = "role" THEN "members" ELSE "recount"
      BY <1>0
    <3>2. PICK p : p = CtReqNew(r.id, k, NoItem, r.scope)
      OBVIOUS
    <3>3. p.k = k /\ p.scope = r.scope /\ p.st = "asked"
      BY <3>2, NewRequest
    <3>4. k \in Kinds
      BY <1>0, KindsApart
    <3>5. p \in CtReq
      BY <1>0, <2>3, <3>2, <3>4, NewRequest
    <3>6. q = [p EXCEPT !.st = "asked"]
      BY <2>1, <3>1, <3>2
    <3>. QED BY <3>1, <3>3, <3>5, <3>6 DEF CtReq
  <2>5. /\ ct' \in CtState /\ ct'.shown = ct.shown /\ ct'.loading = ct.loading
        /\ ct'.scope = ct.scope /\ ct'.searching = ct.searching /\ ct'.panel = ct.panel
        /\ ct'.members = ct.members
        /\ r.scope = 0 => ct'.crossed = ct.crossed
        /\ r.scope # 0 => (ct'.crossed <=> (ct.crossed \/ r.st = "failed"
                                             \/ MembersUnderWay(ctReqs \ {r})))
    <3>1. r.scope = 0 => ct' = ct
      BY <1>2 DEF MemberCommandReturns
    <3>2. r.scope # 0 => ct' = [ct EXCEPT !.crossed = @ \/ r.st = "failed"
                                                        \/ MembersUnderWay(ctReqs \ {r})]
      BY <1>2 DEF MemberCommandReturns
    <3>3. CASE r.scope = 0
      BY <1>0, <3>1, <3>3
    <3>4. CASE r.scope # 0
      BY <1>0, <3>2, <3>4 DEF CtState
    <3>. QED BY <3>3, <3>4
  <2>6. CatalogTypeOK' /\ Q' = Q
    BY <1>0, <2>2, <2>4, <2>5, KindsApart DEF CatalogTypeOK, Q
  <2>7. ListPart'
    BY <2>2, <2>5, <2>6, EditKept DEF ListsInv
  <2>8. MK' = (MK \ {r}) \cup (IF r.st = "failed" THEN {} ELSE {q})
    BY <1>0, <2>2, <2>4 DEF MK
  <2>9. MembersUnderWay(ctReqs \ {r}) <=> M \ {r} # {}
    BY DEF MembersUnderWay, M, MK
  <2>10. q.k # "join" /\ \A p \in MK' : p.scope # 2 /\ (p.k = "join" => p.n \in Items)
    BY <1>0, <2>3, <2>4, <2>8 DEF ListsInv, MembersPart
  <2>11. MembersInv'
    <3>1. CASE r.scope = 0
      <4>1. M' = M
        BY <2>4, <2>8, <3>1 DEF M
      <4>. QED BY <2>2, <2>5, <3>1, <4>1 DEF ListsInv, MembersPart, MembersInv, Panel
    <3>2. CASE r.scope = 1
      <4>1. M' = (M \ {r}) \cup (IF r.st = "failed" THEN {} ELSE {q})
        BY <2>4, <2>8, <3>2 DEF M
      <4>. QED BY <2>2, <2>3, <2>4, <2>5, <2>9, <3>2, <4>1 DEF MembersInv
    <3>. QED BY <2>3, <3>1, <3>2
  <2>. QED BY <2>7, <2>10, <2>11 DEF ListsInv, MembersPart
<1>3. ASSUME NEW r \in ctReqs, MembersArrive(r) PROVE ListsInv'
  <2>2. /\ r.k \in MemberLists /\ r.st # "asked" /\ UNCHANGED <<page, ops, store, teamStore>>
    BY <1>3 DEF MembersArrive, Unattended, shellVars
  <2>3. /\ r \in CtReq /\ r.id \in Ids /\ r.scope \in 0..2 /\ r \in MK /\ r.st \in {"ok", "failed"}
        /\ r.scope # 2 /\ r.got \subseteq Items
    <3>1. r \in MK
      BY <1>0, <2>2 DEF MK
    <3>. QED BY <1>0, <2>2, <3>1, RequestFields DEF ListsInv, MembersPart
  <2>5. /\ ct' \in CtState /\ ct'.shown = ct.shown /\ ct'.loading = ct.loading
        /\ ct'.scope = ct.scope /\ ct'.searching = ct.searching /\ ct'.panel = ct.panel
        /\ r.scope = 0 => ct'.crossed = ct.crossed /\ ct'.members = ct.members
        /\ r.scope # 0 => /\ ct'.members = IF r.st = "ok" THEN r.got ELSE {}
                          /\ ct'.crossed <=> (ct.crossed \/ r.st = "failed")
    <3>1. r.scope = 0 => ct' = ct
      BY <1>3 DEF MembersArrive
    <3>2. r.scope # 0 => ct' = [ct EXCEPT !.members = IF r.st = "ok" THEN r.got ELSE {},
                                          !.crossed = @ \/ r.st = "failed"]
      BY <1>3 DEF MembersArrive
    <3>3. CASE r.scope = 0
      BY <1>0, <3>1, <3>3
    <3>4. CASE r.scope # 0
      BY <1>0, <2>3, <3>2, <3>4 DEF CtState
    <3>. QED BY <3>3, <3>4
  <2>6. ASSUME MK' = MK \ {r} PROVE MembersPart'
    <3>1. CASE r.scope = 0
      <4>1. M' = M
        BY <2>6, <3>1 DEF M
      <4>. QED BY <2>2, <2>5, <2>6, <3>1, <4>1 DEF ListsInv, MembersPart, MembersInv, Panel
    <3>2. CASE r.scope = 1
      <4>1. M' = M \ {r} /\ r \in M
        BY <2>3, <2>6, <3>2 DEF M
      <4>2. ASSUME Panel(ct)' # NoItem, ~ct'.crossed
            PROVE  M' = {} /\ ct'.members = teamStore'
        <5>1. Panel(ct) # NoItem /\ ~ct.crossed /\ r.st = "ok"
          BY <2>3, <2>5, <3>2, <4>2 DEF Panel
        <5>2. M = {r} /\ r.got = teamStore
          BY <2>2, <4>1, <5>1 DEF ListsInv, MembersPart, MembersInv
        <5>. QED BY <2>2, <2>5, <3>2, <4>1, <5>1, <5>2
      <4>3. MembersInv'
        BY <4>2 DEF MembersInv
      <4>. QED BY <2>6, <4>3 DEF ListsInv, MembersPart
    <3>. QED BY <2>3, <3>1, <3>2
  <2>7. CASE r.k # "recount"
    <3>1. ctReqs' = ctReqs \ {r} /\ raced' = raced
      BY <1>3, <2>7 DEF MembersArrive
    <3>2. CatalogTypeOK' /\ Q' = Q /\ MK' = MK \ {r}
      BY <1>0, <2>2, <2>5, <3>1, KindsApart DEF CatalogTypeOK, Q, MK
    <3>3. ListPart'
      BY <2>2, <2>5, <3>1, <3>2, EditKept DEF ListsInv
    <3>. QED BY <2>6, <3>2, <3>3 DEF ListsInv
  <2>8. CASE r.k = "recount"
    <3>1. PICK q : q = CtReqNew(r.id, "load", NoItem, 1)
      OBVIOUS
    <3>2. /\ ctReqs' = (ctReqs \ {r}) \cup {q}
          /\ raced' = (1 # ct'.scope \/ \E p \in ctReqs \ {r} : p.k \in ListKinds \cup Commands)
      BY <1>3, <2>8, <3>1 DEF MembersArrive, Asks
    <3>3. q.k = "load" /\ q.scope = 1 /\ q.st = "asked" /\ q.got = {} /\ "load" \in ListKinds
      BY <3>1, NewRequest DEF ListKinds
    <3>4. q \in CtReq
      <4>1. 1 \in 0..2 /\ "load" \in Kinds
        BY <3>3, KindsApart
      <4>. QED BY <1>0, <2>3, <3>1, <4>1, NewRequest
    <3>5. CatalogTypeOK'
      BY <1>0, <2>2, <2>5, <3>2, <3>4 DEF CatalogTypeOK
    <3>6. Q' = Q \cup {q} /\ (~raced' => Q' = {q}) /\ MK' = MK \ {r}
      BY <1>0, <2>2, <3>2, <3>3, KindsApart DEF Q, MK
    <3>7. ScopeFits' /\ q.scope = ct'.scope
      BY <1>0, <2>2, <2>5, <3>3 DEF ScopeFits
    <3>8. ListPart'
      BY <2>2, <2>5, <3>2, <3>3, <3>5, <3>6, <3>7, AskKept DEF ListsInv
    <3>. QED BY <2>6, <3>6, <3>8 DEF ListsInv
  <2>. QED BY <2>7, <2>8
<1>. QED BY <1>1, <1>2, <1>3

(***************************************************************************)
(* The API server.                                                         *)
(***************************************************************************)
LEMMA ServerKept ==
  ASSUME ListsInv, ShellTypeOK, NEW r \in ctReqs, CtServed(r)
  PROVE  ListsInv'
<1>0. /\ ct \in CtState /\ ctReqs \subseteq CtReq /\ raced \in BOOLEAN /\ r \in CtReq
      /\ store \in [Scopes -> SUBSET Items] /\ teamStore \subseteq Items
      /\ UNCHANGED <<page, ops, ct, raced>> /\ r.st = "asked"
      /\ MemberLists \subseteq MemberKinds /\ "join" \notin MemberLists /\ "part" \notin MemberLists
  BY DEF ListsInv, ListPart, CatalogTypeOK, CtServed, Unattended, shellVars, MemberLists, MemberKinds
<1>1. CASE r \in Q
  <2>1. ListPart'
    BY <1>1, ServedKept DEF ListsInv
  <2>2. PICK s \in CtReq : /\ s.k = r.k /\ ctReqs' = (ctReqs \ {r}) \cup {s}
                           /\ CtEffect(r) \/ UNCHANGED <<store, teamStore>>
    BY <1>1, ServedRequest DEF ListsInv
  <2>3. MK' = MK /\ teamStore' = teamStore
    BY <1>1, <2>2, EffectOnList, KindsApart DEF MK, Q, ListsInv
  <2>. QED BY <1>0, <2>1, <2>3, MembersStay DEF ListsInv
<1>2. CASE r \in MK
  <2>1. r.k \in MemberKinds /\ r.k \notin Creates \cup {"delete"} /\ r.scope # 2
        /\ (r.k = "join" => r.n \in Items)
    BY <1>2, KindsApart DEF MK, ListsInv, MembersPart
  <2>2. /\ store' = store /\ teamStore' \subseteq Items
        /\ ~(r.k \in {"join", "part"} /\ r.scope = 1) => teamStore' = teamStore
    <3>1. CASE CtEffect(r)
      BY <1>0, <2>1, <3>1 DEF CtEffect, Creates
    <3>2. CASE UNCHANGED <<store, teamStore>>
      BY <1>0, <3>2
    <3>. QED BY <3>1, <3>2 DEF CtServed
  <2>3. \E s \in CtReq : /\ s.k = r.k /\ s.n = r.n /\ s.scope = r.scope /\ s.st \in {"ok", "failed"}
                         /\ s.st = "ok" => s.got = teamStore'
                         /\ ctReqs' = (ctReqs \ {r}) \cup {s}
    <3>1. CASE CtEffect(r) /\ \E g \in Served(r) :
                 ctReqs' = (ctReqs \ {r}) \cup {[r EXCEPT !.st = "ok", !.got = g]}
      <4>1. ctReqs' = (ctReqs \ {r}) \cup {[r EXCEPT !.st = "ok", !.got = teamStore']}
        <5>1. Served(r) = {teamStore'}
          <6>1. r.k # "search"
            BY <2>1 DEF MemberKinds, MemberLists, MemberCommands
          <6>. QED BY <2>1, <6>1 DEF Served
        <5>2. PICK g \in Served(r) :
                ctReqs' = (ctReqs \ {r}) \cup {[r EXCEPT !.st = "ok", !.got = g]}
          BY <3>1
        <5>3. g = teamStore'
          BY <5>1, <5>2
        <5>. QED BY <5>2, <5>3
      <4>2. PICK s : s = [r EXCEPT !.st = "ok", !.got = teamStore']
        OBVIOUS
      <4>3. s \in CtReq /\ s.k = r.k /\ s.n = r.n /\ s.scope = r.scope /\ s.st = "ok"
            /\ s.got = teamStore'
        BY <1>0, <2>2, <4>2 DEF CtReq
      <4>. QED BY <4>1, <4>2, <4>3
    <3>2. CASE ctReqs' = (ctReqs \ {r}) \cup {[r EXCEPT !.st = "failed"]}
      <4>2. PICK s : s = [r EXCEPT !.st = "failed"]
        OBVIOUS
      <4>3. s \in CtReq /\ s.k = r.k /\ s.n = r.n /\ s.scope = r.scope /\ s.st = "failed"
        BY <1>0, <4>2 DEF CtReq
      <4>. QED BY <3>2, <4>2, <4>3
    <3>. QED BY <3>1, <3>2 DEF CtServed
  <2>4. PICK s \in CtReq : /\ s.k = r.k /\ s.n = r.n /\ s.scope = r.scope /\ s.st \in {"ok", "failed"}
                           /\ s.st = "ok" => s.got = teamStore'
                           /\ ctReqs' = (ctReqs \ {r}) \cup {s}
    BY <2>3
  <2>5. Q' = Q /\ CatalogTypeOK' /\ MK' = (MK \ {r}) \cup {s}
    BY <1>0, <2>1, <2>2, <2>4, KindsApart DEF Q, MK, CatalogTypeOK
  <2>6. ListPart'
    <3>1. ShellTypeOK'
      BY <1>0 DEF ShellTypeOK, CtServed, Unattended, shellVars
    <3>. QED BY <1>0, <2>2, <2>5, <3>1, EditKept DEF ListsInv
  <2>7. \A p \in MK' : p.scope # 2 /\ (p.k = "join" => p.n \in Items)
    BY <2>1, <2>4, <2>5 DEF ListsInv, MembersPart
  <2>8. MembersInv'
    <3>1. CASE r.scope = 1
      <4>1. M' = (M \ {r}) \cup {s} /\ r \in M
        BY <1>2, <2>4, <2>5, <3>1 DEF M
      <4>2. ASSUME page = "teams", Panel(ct) # NoItem, ~ct.crossed
            PROVE  M' = {s}
        BY <4>1, <4>2 DEF ListsInv, MembersPart, MembersInv
      <4>. QED BY <1>0, <2>4, <4>2 DEF MembersInv, Panel
    <3>2. CASE r.scope # 1
      <4>1. M' = M /\ teamStore' = teamStore
        BY <2>2, <2>4, <2>5, <3>2 DEF M
      <4>. QED BY <1>0, <4>1 DEF ListsInv, MembersPart, MembersInv, Panel
    <3>. QED BY <3>1, <3>2
  <2>. QED BY <2>6, <2>7, <2>8 DEF ListsInv, MembersPart
<1>. QED
  <2>1. r.k \in Kinds
    BY <1>0, RequestFields
  <2>. QED BY <1>1, <1>2, <2>1 DEF Q, MK, Kinds

(***************************************************************************)
(* The list of the page skills.                                            *)
(***************************************************************************)
LEMMA FrameKept ==
  ASSUME ListsInv, ShellTypeOK, ShellTypeOK', UNCHANGED <<ctVars, page>>, ops' \in {ops, ops + 1}
  PROVE  ListsInv'
<1>1. UNCHANGED <<ct, ctReqs, raced, store, teamStore, Q, MK>>
  BY DEF ctVars, Q, MK
<1>2. CatalogTypeOK'
  BY <1>1 DEF ListsInv, ListPart, CatalogTypeOK
<1>3. ListPart'
  BY <1>1, <1>2, EditKept DEF ListsInv
<1>. QED BY <1>1, <1>3, MembersStay DEF ListsInv

LEMMA SkillsReloaded ==
  ASSUME ListsInv, ShellTypeOK, ShellTypeOK', UNCHANGED <<page, ops>>, page = "skills",
         NEW r \in ctReqs, r.k \in Commands, NEW state \in CtState, SkillsReload(r, state),
         state.shown = ct.shown, state.panel \in {ct.panel, NoItem}, state.scope = ct.scope,
         state.searching = ct.searching
  PROVE  ListsInv'
<1>0. /\ r \in CtReq /\ r.id \in Ids /\ "load" \in ListKinds /\ 1 \in 0..2
      /\ ctReqs \ {r} \in SUBSET ctReqs /\ MK \subseteq ctReqs \ {r}
  <2>1. r \in CtReq /\ r.id \in Ids
    BY RequestFields DEF ListsInv, ListPart, CatalogTypeOK
  <2>2. "load" \in ListKinds /\ 1 \in 0..2
    BY DEF ListKinds
  <2>3. MK \subseteq ctReqs \ {r}
    BY KindsApart DEF MK
  <2>. QED BY <2>1, <2>2, <2>3
<1>1. CASE r.st = "ok"
  <2>1. /\ ct' = [state EXCEPT !.loading = TRUE] /\ Asks(ctReqs \ {r}, r.id, "load", 1)
        /\ UNCHANGED <<store, teamStore>>
    BY <1>1 DEF SkillsReload
  <2>2. /\ ct' \in CtState /\ ct'.shown = ct.shown /\ ct'.panel \in {ct.panel, NoItem}
        /\ ct'.scope = ct.scope
    BY <2>1 DEF CtState
  <2>3. ScopeFits'
    BY <2>2 DEF ListsInv, ListPart, ScopeFits
  <2>. QED BY <1>0, <2>1, <2>2, <2>3, AskedAgain
<1>2. CASE r.st # "ok"
  <2>1. ct' = ct /\ ctReqs' = ctReqs \ {r} /\ raced' = TRUE /\ UNCHANGED <<store, teamStore>>
    BY <1>2 DEF SkillsReload
  <2>2. Q' \subseteq Q /\ MK' = MK /\ CatalogTypeOK'
    BY <1>0, <2>1 DEF Q, MK, ListsInv, ListPart, CatalogTypeOK
  <2>3. ListPart'
    BY <2>1, <2>2, RacedKept DEF ListsInv
  <2>. QED BY <2>1, <2>2, <2>3, MembersStay DEF ListsInv
<1>. QED BY <1>1, <1>2

LEMMA SkillsListKept ==
  ASSUME ListsInv, ShellTypeOK, ShellTypeOK', SkillsTypeOK, SkillsStep
  PROVE  ListsInv'
<1>0. /\ page = "skills" /\ ct \in CtState /\ ctReqs \subseteq CtReq /\ "load" \in ListKinds
      /\ ops' \in Ids /\ ops' \in MaybeItems /\ "create" \in Commands /\ "create" \in Creates
      /\ "create" # "delete" /\ "delete" \in Commands /\ "delete" \notin Creates
      /\ "change" \in Commands /\ "change" \notin Creates \cup {"delete"}
      /\ "import" \in Commands /\ "import" # "delete" /\ {} \subseteq ct.shown
      /\ sk.editing \in MaybeItems /\ NoItem \in MaybeItems /\ Items \subseteq MaybeItems
  BY Numbered DEF SkillsStep, ListsInv, ListPart, CatalogTypeOK, ListKinds, Commands,
     ShellTypeOK, Creates, MaybeItems, Items, SkillsTypeOK, SkillsState
<1>1. ASSUME NEW d \in BOOLEAN, NEW p \in ct.shown \cup {ct.panel, NoItem}, page' = page,
             ops' = ops + 1, Edits([ct EXCEPT !.dialog = d, !.panel = p])
      PROVE  ListsInv'
  <2>1. PICK state : state = [ct EXCEPT !.dialog = d, !.panel = p]
    OBVIOUS
  <2>2. p \in MaybeItems
    BY <1>0, ListFields
  <2>3. /\ state \in CtState /\ state.shown = ct.shown /\ state.loading = ct.loading
        /\ state.scope = ct.scope /\ state.searching = ct.searching /\ state.panel = p
    BY <1>0, <2>1, <2>2 DEF CtState
  <2>. QED BY <1>0, <1>1, <2>1, <2>3, DialogKept
<1>2. CASE OpenCreate \/ \E i \in Items : OpenEdit(i)
  <2>1. page' = page /\ ops' = ops + 1 /\ Edits([ct EXCEPT !.dialog = TRUE, !.panel = NoItem])
    BY <1>2 DEF OpenCreate, OpenEdit, OnSkills, OnCatalog, On, Click
  <2>. QED BY <1>1, <2>1
<1>3. CASE CloseModal
  <2>1. page' = page /\ ops' = ops + 1 /\ Edits([ct EXCEPT !.dialog = FALSE])
    BY <1>3 DEF CloseModal, OnSkills, OnCatalog, On, Click
  <2>2. [ct EXCEPT !.dialog = FALSE] = [ct EXCEPT !.dialog = FALSE, !.panel = ct.panel]
    BY <1>0 DEF CtState
  <2>. QED BY <1>1, <2>1, <2>2
<1>4. ASSUME NEW i \in MaybeItems, SkillDetail(i) PROVE ListsInv'
  <2>1. page' = page /\ ops' = ops + 1 /\ Edits([ct EXCEPT !.panel = i])
        /\ i \in ct.shown \cup {NoItem}
    BY <1>4 DEF SkillDetail, OnSkills, OnCatalog, On, Click
  <2>2. [ct EXCEPT !.panel = i] = [ct EXCEPT !.dialog = ct.dialog, !.panel = i] /\ ct.dialog \in BOOLEAN
    BY <1>0 DEF CtState
  <2>. QED BY <1>1, <2>1, <2>2
<1>5. CASE HandleSave
  <2>1. /\ Commanded("create", ops') \/ Commanded("change", sk.editing)
        /\ ct' = ct /\ page' = page /\ ops' = ops + 1
    BY <1>5 DEF HandleSave, OnSkills, OnCatalog, On, Click
  <2>. QED BY <1>0, <2>1, Sent
<1>6. ASSUME NEW i \in Items, SkillDelete(i) PROVE ListsInv'
  <2>1. /\ Commanded("delete", i) /\ ct' = ct /\ page' = page /\ ops' = ops + 1
        /\ i \in ct.shown \/ i = ct.panel
    BY <1>6 DEF SkillDelete, OnSkill, OnSkills, OnCatalog, On, Click
  <2>2. i # NoItem
    BY Numbered
  <2>. QED BY <1>0, <2>1, <2>2, Sent
<1>7. CASE HandleImport
  <2>1. Commanded("import", ops') /\ ct' = ct /\ page' = page /\ ops' = ops + 1
    BY <1>7 DEF HandleImport, OnSkills, OnCatalog, On, Click
  <2>. QED BY <1>0, <2>1, Sent
<1>8. CASE SkillsTab \/ \E up \in BOOLEAN : AssignSkill(up)
  <2>1. UNCHANGED <<ctVars, page>> /\ ops' = ops + 1
    BY <1>8 DEF SkillsTab, AssignSkill, OnSkills, OnCatalog, On, Click
  <2>. QED BY <1>0, <2>1, FrameKept
<1>9. CASE \E r \in skReqs : SkServed(r) \/ SkillAssigned(r) \/ SkillAgentsArrive(r)
  <2>1. UNCHANGED <<ctVars, page, ops>>
    BY <1>9 DEF SkServed, SkillAssigned, SkillAgentsArrive, Unattended, shellVars
  <2>. QED BY <1>0, <2>1, FrameKept
<1>10. ASSUME NEW r \in ctReqs, SkillsArrive(r) PROVE ListsInv'
  BY <1>0, <1>10, ListShown DEF SkillsArrive
<1>11. ASSUME NEW r \in ctReqs, SkillSaved(r) PROVE ListsInv'
  <2>1. PICK state : state = [ct EXCEPT !.dialog = FALSE]
    OBVIOUS
  <2>2. SkillsReload(r, state) /\ r.k \in Commands /\ UNCHANGED <<page, ops>>
    BY <1>0, <1>11, <2>1 DEF SkillSaved, CtHandles, Unattended, shellVars
  <2>3. /\ state \in CtState /\ state.shown = ct.shown /\ state.scope = ct.scope
        /\ state.searching = ct.searching /\ state.panel = ct.panel
    BY <1>0, <2>1 DEF CtState
  <2>. QED BY <1>0, <2>2, <2>3, SkillsReloaded
<1>12. ASSUME NEW r \in ctReqs, SkillDeleted(r) PROVE ListsInv'
  <2>1. PICK state : state = [ct EXCEPT !.panel = NoItem]
    OBVIOUS
  <2>2. SkillsReload(r, state) /\ r.k \in Commands /\ UNCHANGED <<page, ops>>
    BY <1>0, <1>12, <2>1 DEF SkillDeleted, CtHandles, Unattended, shellVars
  <2>3. /\ state \in CtState /\ state.shown = ct.shown /\ state.scope = ct.scope
        /\ state.searching = ct.searching /\ state.panel = NoItem
    BY <1>0, <2>1 DEF CtState
  <2>. QED BY <1>0, <2>2, <2>3, SkillsReloaded
<1>13. ASSUME NEW r \in ctReqs, SkillImported(r) PROVE ListsInv'
  BY <1>0, <1>13, SkillsReloaded DEF SkillImported, CtHandles, Unattended, shellVars
<1>. QED BY <1>2, <1>3, <1>4, <1>5, <1>6, <1>7, <1>8, <1>9, <1>10, <1>11, <1>12, <1>13 DEF SkillsStep

(***************************************************************************)
(* The lists of agents and of knowledge bases, all pages together, and     *)
(* what a navigation does.                                                 *)
(***************************************************************************)
LEMMA CatalogKept ==
  ASSUME ListsInv, ShellTypeOK, ShellTypeOK', CatalogStep
  PROVE  ListsInv'
<1>0. {} \subseteq ct.shown /\ "load" \in ListKinds
  BY DEF ListKinds
<1>1. ASSUME NEW r \in ctReqs, AgentsListed(r) \/ BasesListed(r) PROVE ListsInv'
  <2>1. page # "teams"
    BY <1>1 DEF AgentsListed, BasesListed, CtHandles
  <2>2. CASE AgentsListed(r)
    BY <1>0, <2>1, <2>2, ListShown DEF AgentsListed
  <2>3. CASE BasesListed(r)
    BY <1>0, <2>1, <2>3, ListShown DEF BasesListed
  <2>. QED BY <1>1, <2>2, <2>3
<1>2. CASE TeamsStep
  BY <1>2, TeamListsKept, MembersKept DEF TeamsStep
<1>3. CASE \E r \in ctReqs : CtServed(r)
  BY <1>3, ServerKept
<1>. QED BY <1>1, <1>2, <1>3, MemoryKept, IntegrationsKept, GovernanceKept, PromptsKept DEF CatalogStep

JustOpened ==
    /\ ct = CtOpened(page) /\ \E i \in Ids : ctReqs = CtMounted(page, i)
    /\ raced = FALSE /\ store \in Stores(page) /\ teamStore = {}

LEMMA ListsOpened == ShellTypeOK /\ JustOpened => ListsInv
<1>. SUFFICES ASSUME ShellTypeOK, JustOpened PROVE ListsInv
  OBVIOUS
<1>. USE DEF JustOpened
<1>0. PICK i \in Ids : ctReqs = CtMounted(page, i)
  OBVIOUS
<1>1. /\ ct \in CtState /\ ct.shown = {} /\ ct.panel = NoItem /\ Panel(ct) = NoItem
      /\ ct.searching = FALSE /\ ct.loading
      /\ ct.scope = IF page \in {"memory", "governance"} THEN 0 ELSE 1
  <2>1. CASE page \in {"memory", "governance"}
    <3>1. ct = [CtClosed EXCEPT !.scope = 0]
      BY <2>1 DEF CtOpened
    <3>2. ct.loading
      BY <3>1 DEF CtClosed
    <3>. QED BY <2>1, <3>1, <3>2, ClosedList DEF Panel
  <2>2. CASE page \notin {"memory", "governance"}
    BY <2>2, ClosedList DEF CtOpened
  <2>. QED BY <2>1, <2>2
<1>2. /\ store \in [Scopes -> SUBSET Items] /\ \A s \in Scopes : store[s] \subseteq Passed
  <2>1. 0 \in Passed /\ 0 \in Items
    BY Numbered DEF Passed
  <2>2. CASE page = "memory"
    BY <2>1, <2>2 DEF Stores
  <2>3. CASE page \in CatalogPages \ {"memory"}
    <3>1. PICK x \in SUBSET {0} : store = [s \in Scopes |-> x]
      BY <2>3 DEF Stores
    <3>. QED BY <2>1, <3>1
  <2>4. CASE page \notin CatalogPages
    BY <2>4 DEF Stores, CatalogPages
  <2>. QED BY <2>2, <2>3, <2>4
<1>3. PICK q : q = CtReqNew(i, "load", NoItem, 1)
  OBVIOUS
<1>4. q.k = "load" /\ q.scope = 1 /\ q.st = "asked" /\ q.got = {} /\ "load" \in ListKinds
  BY <1>3, NewRequest DEF ListKinds
<1>5. q \in CtReq
  <2>1. 1 \in 0..2 /\ "load" \in Kinds
    BY <1>4, KindsApart
  <2>. QED BY <1>3, <2>1, Numbered, NewRequest
<1>6. ctReqs = IF page \in CatalogPages \ {"memory", "governance"} THEN {q} ELSE {}
  BY <1>0, <1>3 DEF CtMounted
<1>7. CatalogTypeOK
  BY <1>1, <1>2, <1>5, <1>6 DEF CatalogTypeOK
<1>8. ScopesKnown /\ EmptyUnpicked /\ ScopeFits
  BY <1>1, <1>6 DEF ScopesKnown, EmptyUnpicked, ScopeFits, Q
<1>9. NumbersPassed
  BY <1>1, <1>2, <1>4, <1>6, KindsApart DEF NumbersPassed, Q
<1>10. ListInv
  BY <1>1, <1>4, <1>6, KindsApart DEF ListInv, Watched, AskedAlone, CommandsApart, DiffersByCommands, Q
<1>11. MembersPart
  BY <1>1, <1>4, <1>6, KindsApart DEF MembersPart, MembersInv, MK
<1>. QED BY <1>7, <1>8, <1>9, <1>10, <1>11 DEF ListsInv, ListPart

LEMMA ListsReopened == (ShellTypeOK /\ JustOpened => ListsInv)'
BY ListsOpened, PTL

LEMMA ListsMoved ==
  ASSUME ListsInv, ShellTypeOK, ShellTypeOK', ops' \in {ops, ops + 1}, CatalogSwitch
  PROVE  ListsInv'
<1>1. CASE page \in CatalogPages \/ page' \in CatalogPages \/ Reloading
  <2>1. JustOpened'
    BY <1>1 DEF CatalogSwitch, ShellTypeOK, JustOpened
  <2>. QED BY <2>1, ListsReopened
<1>2. CASE ~(page \in CatalogPages \/ page' \in CatalogPages \/ Reloading)
  <2>1. UNCHANGED <<ct, ctReqs, raced, store, teamStore, Q, MK>>
    BY <1>2 DEF CatalogSwitch, ctVars, Q, MK
  <2>2. page \notin CatalogPages /\ page' \notin CatalogPages
        /\ "teams" \in CatalogPages /\ {"memory", "governance"} \subseteq CatalogPages
    BY <1>2 DEF CatalogPages
  <2>3. CatalogTypeOK' /\ MembersPart'
    BY <2>1, <2>2 DEF ListsInv, ListPart, CatalogTypeOK, MembersPart, MembersInv
  <2>4. NumbersPassed'
    BY <2>1, PassedGrows DEF ListsInv, ListPart, NumbersPassed
  <2>5. ScopesKnown' /\ EmptyUnpicked' /\ ListInv'
    BY <2>1, <2>2 DEF ScopesKnown, EmptyUnpicked, ListInv, Watched
  <2>6. ScopeFits'
    BY <2>1, <2>2 DEF ListsInv, ListPart, ScopeFits
  <2>. QED BY <2>3, <2>4, <2>5, <2>6 DEF ListsInv, ListPart
<1>. QED BY <1>1, <1>2
(***************************************************************************)
(* The assignments of skills.  While no assignment was made over another   *)
(* one, at most one request is out; what it sends is the server's list     *)
(* with one change, and without it the cached list is the server's.        *)
(***************************************************************************)
Change(list, r) == IF r.up THEN list \cup {r.n} ELSE list \ {r.n}

SumsUp ==
    ~sk.stale =>
       /\ assigned = sk.wanted
       /\ \A r, q \in skReqs : r = q
       /\ skReqs = {} /\ sk.known => sk.cached = assigned
       /\ \A r \in skReqs : /\ r.k = "put" /\ r.st = "asked" => r.list = Change(assigned, r)
                            /\ r.k = "agents" /\ r.st = "ok" => r.list = assigned

PutsNamed == \A r \in skReqs : r.k = "put" => r.n \in Items

SkillsInv == SkillsTypeOK /\ PutsNamed /\ SumsUp

LEMMA SkillFields ==
  ASSUME NEW s \in SkillsState
  PROVE  /\ s.known \in BOOLEAN /\ s.cached \subseteq Items /\ s.editing \in MaybeItems
         /\ s.importing \in BOOLEAN /\ s.wanted \subseteq Items /\ s.stale \in BOOLEAN
         /\ s.tab \in {"skills", "import"}
  BY DEF SkillsState

LEMMA FormsKept ==
  ASSUME SkillsInv, UNCHANGED <<skReqs, assigned>>, NEW s \in SkillsState, sk' = s,
         s.known = sk.known, s.cached = sk.cached, s.wanted = sk.wanted, s.stale = sk.stale
  PROVE  SkillsInv'
  BY DEF SkillsInv, SkillsTypeOK, PutsNamed, SumsUp, Change

LEMMA EditingKept ==
  ASSUME SkillsInv, UNCHANGED <<skReqs, assigned>>, NEW e \in MaybeItems, NEW b \in BOOLEAN,
         NEW t \in {"skills", "import"},
         sk' = [sk EXCEPT !.editing = e, !.importing = b, !.tab = t]
  PROVE  SkillsInv'
<1>1. PICK s : s = [sk EXCEPT !.editing = e, !.importing = b, !.tab = t]
  OBVIOUS
<1>2. /\ s \in SkillsState /\ s.known = sk.known /\ s.cached = sk.cached
      /\ s.wanted = sk.wanted /\ s.stale = sk.stale
  BY <1>1 DEF SkillsInv, SkillsTypeOK, SkillsState
<1>. QED BY <1>1, <1>2, FormsKept

LEMMA FormStepsKept ==
  ASSUME SkillsInv, ListsInv, ShellTypeOK,
         \/ OpenCreate \/ CloseModal \/ HandleSave \/ SkillsTab \/ HandleImport
         \/ \E i \in Items : OpenEdit(i) \/ SkillDelete(i)
         \/ \E i \in MaybeItems : SkillDetail(i)
         \/ \E r \in ctReqs : \/ SkillsArrive(r) \/ SkillSaved(r)
                              \/ SkillDeleted(r) \/ SkillImported(r)
  PROVE  SkillsInv'
<1>0. /\ sk \in SkillsState /\ sk.editing \in MaybeItems /\ sk.importing \in BOOLEAN
      /\ sk.tab \in {"skills", "import"} /\ NoItem \in MaybeItems /\ Items \subseteq MaybeItems
  BY Numbered, SkillFields DEF SkillsInv, SkillsTypeOK, PutsNamed
<1>1. ASSUME NEW e \in MaybeItems, sk' = [sk EXCEPT !.editing = e], UNCHANGED <<skReqs, assigned>>
      PROVE  SkillsInv'
  <2>1. sk' = [sk EXCEPT !.editing = e, !.importing = sk.importing, !.tab = sk.tab]
    BY <1>0, <1>1 DEF SkillsState
  <2>. QED BY <1>0, <1>1, <2>1, EditingKept
<1>2. ASSUME NEW b \in BOOLEAN, sk' = [sk EXCEPT !.importing = b], UNCHANGED <<skReqs, assigned>>
      PROVE  SkillsInv'
  <2>1. sk' = [sk EXCEPT !.editing = sk.editing, !.importing = b, !.tab = sk.tab]
    BY <1>0, <1>2 DEF SkillsState
  <2>. QED BY <1>0, <1>2, <2>1, EditingKept
<1>3. CASE OpenCreate \/ CloseModal \/ \E i \in Items : OpenEdit(i)
  BY <1>0, <1>1, <1>3 DEF OpenCreate, CloseModal, OpenEdit
<1>4. CASE SkillsTab
  <2>1. PICK t \in {"skills", "import"} : t = IF sk.tab = "skills" THEN "import" ELSE "skills"
    OBVIOUS
  <2>2. sk' = [sk EXCEPT !.editing = sk.editing, !.importing = FALSE, !.tab = t]
    BY <1>0, <1>4, <2>1 DEF SkillsTab, SkillsState
  <2>. QED BY <1>0, <1>4, <2>2, EditingKept DEF SkillsTab
<1>5. CASE HandleImport
  BY <1>2, <1>5 DEF HandleImport
<1>6. ASSUME UNCHANGED skVars PROVE SkillsInv'
  BY <1>0, <1>6, FormsKept DEF skVars
<1>7. CASE \/ HandleSave \/ (\E i \in Items : SkillDelete(i)) \/ (\E i \in MaybeItems : SkillDetail(i))
           \/ \E r \in ctReqs : SkillsArrive(r)
  BY <1>6, <1>7 DEF HandleSave, SkillDelete, SkillDetail, SkillsArrive
<1>8. ASSUME NEW r \in ctReqs, NEW state, SkillsReload(r, state) PROVE SkillsInv'
  <2>1. UNCHANGED <<skReqs, assigned>>
    BY <1>8 DEF SkillsReload
  <2>2. CASE r.st = "ok"
    <3>1. PICK e \in MaybeItems : e = IF state.dialog THEN sk.editing ELSE NoItem
      BY <1>0
    <3>2. sk' = [sk EXCEPT !.editing = e, !.importing = FALSE, !.tab = sk.tab]
      BY <1>0, <1>8, <2>2, <3>1 DEF SkillsReload, SkillsState
    <3>. QED BY <1>0, <2>1, <3>2, EditingKept
  <2>3. CASE r.st # "ok"
    <3>1. PICK b \in BOOLEAN : b = (sk.importing /\ r.k # "import")
      OBVIOUS
    <3>2. sk' = [sk EXCEPT !.importing = b]
      BY <1>8, <2>3, <3>1 DEF SkillsReload
    <3>. QED BY <1>2, <2>1, <3>2
  <2>. QED BY <2>2, <2>3
<1>9. CASE \E r \in ctReqs : SkillSaved(r) \/ SkillDeleted(r) \/ SkillImported(r)
  BY <1>8, <1>9 DEF SkillSaved, SkillDeleted, SkillImported
<1>. QED BY <1>3, <1>4, <1>5, <1>7, <1>9

LEMMA AssignmentSent ==
  ASSUME SkillsInv, ListsInv, ShellTypeOK, ShellTypeOK', NEW up \in BOOLEAN, AssignSkill(up)
  PROVE  SkillsInv'
<1>0. sk \in SkillsState /\ ops' \in Ids /\ ct.panel \in Items /\ sk.cached \subseteq Items
  <2>1. ct.panel \in MaybeItems /\ ct.panel # NoItem
    BY ListFields DEF AssignSkill, ListsInv, ListPart, CatalogTypeOK
  <2>. QED BY <2>1, SkillFields DEF SkillsInv, SkillsTypeOK, ShellTypeOK, MaybeItems, NoItem
<1>1. PICK q : q = [id |-> ops', k |-> "put", n |-> ct.panel, up |-> up,
                    list |-> NewSkills(ct.panel, up), st |-> "asked"]
  OBVIOUS
<1>2. NewSkills(ct.panel, up) \subseteq Items /\ ct.panel \in MaybeItems
  BY <1>0, Numbered DEF NewSkills
<1>3. q \in SkReq /\ q.k = "put" /\ q.n = ct.panel /\ q.list = Change(sk.cached, q)
  BY <1>0, <1>1, <1>2 DEF SkReq, NewSkills, Change
<1>4. PICK b \in BOOLEAN : b = (sk.stale \/ skReqs # {})
  OBVIOUS
<1>5. PICK s : s = [sk EXCEPT !.stale = b]
  OBVIOUS
<1>6. s \in SkillsState /\ s.stale = b /\ s.wanted = sk.wanted /\ s.known = sk.known /\ s.cached = sk.cached
  BY <1>0, <1>5 DEF SkillsState
<1>7. sk' = s /\ skReqs' = skReqs \cup {q} /\ assigned' = assigned /\ sk.known
  BY <1>1, <1>4, <1>5 DEF AssignSkill
<1>8. SkillsTypeOK' /\ PutsNamed'
  BY <1>0, <1>3, <1>6, <1>7 DEF SkillsInv, SkillsTypeOK, PutsNamed
<1>9. SumsUp'
  <2>1. SUFFICES ASSUME ~b PROVE SumsUp'
    BY <1>6, <1>7 DEF SumsUp
  <2>2. skReqs' = {q} /\ assigned = sk.wanted /\ sk.cached = assigned
    BY <1>4, <1>7, <2>1 DEF SkillsInv, SumsUp
  <2>. QED BY <1>3, <1>6, <1>7, <2>2 DEF SumsUp, Change
<1>. QED BY <1>8, <1>9 DEF SkillsInv

LEMMA AssignmentAnswered ==
  ASSUME SkillsInv, NEW r \in skReqs, SkillAssigned(r) \/ SkillAgentsArrive(r)
  PROVE  SkillsInv'
<1>0. sk \in SkillsState /\ r \in SkReq /\ r.id \in Ids /\ r.list \subseteq Items
      /\ assigned' = assigned
  BY DEF SkillsInv, SkillsTypeOK, SkReq, SkillAssigned, SkillAgentsArrive
<1>1. CASE SkillAssigned(r)
  <2>1. PICK b \in BOOLEAN : b = (sk.stale \/ r.st = "failed")
    OBVIOUS
  <2>2. PICK s : s = [sk EXCEPT !.stale = b]
    OBVIOUS
  <2>3. /\ s \in SkillsState /\ s.stale = b /\ s.wanted = sk.wanted /\ s.known = sk.known
        /\ s.cached = sk.cached
    BY <1>0, <2>2 DEF SkillsState
  <2>4. PICK q : q = AgentsAsked(r.id)
    OBVIOUS
  <2>5. q \in SkReq /\ q.k = "agents" /\ q.st = "asked"
    <3>1. NoItem \in MaybeItems
      BY DEF MaybeItems, NoItem
    <3>. QED BY <1>0, <2>4, <3>1 DEF AgentsAsked, SkReq
  <2>6. sk' = s /\ r.st # "asked"
    BY <1>1, <2>1, <2>2 DEF SkillAssigned
  <2>7. r.st \in {"ok", "failed"}
    BY <1>0, <2>6 DEF SkReq
  <2>8. CASE r.st = "failed"
    <3>1. skReqs' = skReqs \ {r} /\ b
      BY <1>1, <2>1, <2>8 DEF SkillAssigned
    <3>. QED BY <1>0, <2>3, <2>6, <3>1 DEF SkillsInv, SkillsTypeOK, PutsNamed, SumsUp
  <2>9. CASE r.st = "ok"
    <3>1. skReqs' = (skReqs \ {r}) \cup {q}
      BY <1>1, <2>4, <2>9 DEF SkillAssigned
    <3>2. SkillsTypeOK' /\ PutsNamed'
      BY <1>0, <2>3, <2>5, <2>6, <3>1 DEF SkillsInv, SkillsTypeOK, PutsNamed
    <3>3. SumsUp'
      <4>1. SUFFICES ASSUME ~b PROVE SumsUp'
        BY <2>3, <2>6 DEF SumsUp
      <4>2. skReqs' = {q} /\ assigned = sk.wanted
        BY <2>1, <3>1, <4>1 DEF SkillsInv, SumsUp
      <4>. QED BY <1>0, <2>3, <2>5, <2>6, <4>2 DEF SumsUp
    <3>. QED BY <3>2, <3>3 DEF SkillsInv
  <2>. QED BY <2>7, <2>8, <2>9
<1>2. CASE SkillAgentsArrive(r)
  <2>1. PICK s : s = [sk EXCEPT !.known = (r.st = "ok"), !.cached = IF r.st = "ok" THEN r.list ELSE {}]
    OBVIOUS
  <2>2. /\ s \in SkillsState /\ s.stale = sk.stale /\ s.wanted = sk.wanted /\ s.known = (r.st = "ok")
        /\ s.known => s.cached = r.list
    BY <1>0, <2>1 DEF SkillsState
  <2>3. sk' = s /\ skReqs' = skReqs \ {r} /\ r.k = "agents"
    BY <1>2, <2>1 DEF SkillAgentsArrive
  <2>4. SkillsTypeOK' /\ PutsNamed'
    BY <1>0, <2>2, <2>3 DEF SkillsInv, SkillsTypeOK, PutsNamed
  <2>5. SumsUp'
    <3>1. SUFFICES ASSUME ~sk.stale PROVE SumsUp'
      BY <2>2, <2>3 DEF SumsUp
    <3>2. skReqs' = {} /\ assigned = sk.wanted /\ (r.st = "ok" => r.list = assigned)
      BY <2>3, <3>1 DEF SkillsInv, SumsUp
    <3>. QED BY <1>0, <2>2, <2>3, <3>2 DEF SumsUp
  <2>. QED BY <2>4, <2>5 DEF SkillsInv
<1>. QED BY <1>1, <1>2

LEMMA AssignmentServed ==
  ASSUME SkillsInv, NEW r \in skReqs, SkServed(r)
  PROVE  SkillsInv'
<1>0. /\ sk \in SkillsState /\ r \in SkReq /\ r.list \subseteq Items /\ r.k \in {"put", "agents"}
      /\ r.up \in BOOLEAN /\ r.st = "asked" /\ assigned \subseteq Items /\ sk.wanted \subseteq Items
  BY SkillFields DEF SkillsInv, SkillsTypeOK, SkReq, SkServed
<1>1. PICK served \in SUBSET Items : served = IF r.k = "put" THEN r.list ELSE assigned
  BY <1>0
<1>2. CASE skReqs' = (skReqs \ {r}) \cup {[r EXCEPT !.st = "failed"]} /\ UNCHANGED <<assigned, sk>>
  <2>1. PICK q : q = [r EXCEPT !.st = "failed"]
    OBVIOUS
  <2>2. q \in SkReq /\ q.st = "failed" /\ q.k = r.k /\ q.n = r.n /\ skReqs' = (skReqs \ {r}) \cup {q}
    BY <1>0, <1>2, <2>1 DEF SkReq
  <2>3. ~sk.stale => skReqs' = {q}
    BY <2>2 DEF SkillsInv, SumsUp
  <2>4. SkillsTypeOK' /\ PutsNamed'
    BY <1>2, <2>2 DEF SkillsInv, SkillsTypeOK, PutsNamed
  <2>5. SumsUp'
    BY <1>2, <2>2, <2>3 DEF SkillsInv, SumsUp
  <2>. QED BY <2>4, <2>5 DEF SkillsInv
<1>3. CASE /\ assigned' = served
           /\ skReqs' = (skReqs \ {r}) \cup {[r EXCEPT !.st = "ok", !.list = served]}
           /\ sk' = IF r.k = "agents" THEN sk
                    ELSE [sk EXCEPT !.wanted = IF r.up THEN @ \cup {r.n} ELSE @ \ {r.n}]
  <2>1. PICK q : q = [r EXCEPT !.st = "ok", !.list = served]
    OBVIOUS
  <2>2. q \in SkReq /\ q.st = "ok" /\ q.k = r.k /\ q.n = r.n /\ q.list = served
        /\ skReqs' = (skReqs \ {r}) \cup {q}
    BY <1>0, <1>3, <2>1 DEF SkReq
  <2>3. CASE r.k = "agents"
    <3>1. sk' = sk /\ assigned' = assigned
      BY <1>1, <1>3, <2>3
    <3>2. SkillsTypeOK' /\ PutsNamed'
      BY <2>2, <3>1 DEF SkillsInv, SkillsTypeOK, PutsNamed
    <3>3. SumsUp'
      <4>1. SUFFICES ASSUME ~sk.stale PROVE SumsUp'
        BY <3>1 DEF SumsUp
      <4>2. skReqs' = {q} /\ assigned = sk.wanted
        BY <2>2, <4>1 DEF SkillsInv, SumsUp
      <4>. QED BY <1>3, <2>2, <3>1, <4>2 DEF SumsUp
    <3>. QED BY <3>2, <3>3 DEF SkillsInv
  <2>4. CASE r.k = "put"
    <3>1. PICK w : w = Change(sk.wanted, r)
      OBVIOUS
    <3>2. w \subseteq Items
      <4>1. r.up => r.n \in Items
        BY <2>4 DEF SkillsInv, PutsNamed
      <4>. QED BY <1>0, <3>1, <4>1 DEF Change
    <3>3. PICK s : s = [sk EXCEPT !.wanted = w]
      OBVIOUS
    <3>4. /\ s \in SkillsState /\ s.stale = sk.stale /\ s.wanted = w
      BY <1>0, <3>2, <3>3 DEF SkillsState
    <3>5. sk' = s
      BY <1>3, <2>4, <3>1, <3>3 DEF Change
    <3>6. SkillsTypeOK' /\ PutsNamed'
      BY <1>3, <2>2, <3>4, <3>5 DEF SkillsInv, SkillsTypeOK, PutsNamed
    <3>7. SumsUp'
      <4>1. SUFFICES ASSUME ~sk.stale PROVE SumsUp'
        BY <3>4, <3>5 DEF SumsUp
      <4>2. skReqs' = {q} /\ assigned = sk.wanted /\ r.list = Change(assigned, r)
        BY <1>0, <2>2, <2>4, <4>1 DEF SkillsInv, SumsUp
      <4>3. assigned' = w
        BY <1>1, <1>3, <2>4, <3>1, <4>2
      <4>. QED BY <1>3, <2>2, <3>4, <3>5, <4>2, <4>3 DEF SumsUp
    <3>. QED BY <3>6, <3>7 DEF SkillsInv
  <2>. QED BY <1>0, <2>3, <2>4
<1>. QED BY <1>1, <1>2, <1>3 DEF SkServed

JustShown ==
    /\ assigned \in {{}, {NoItem - 1}} /\ sk = SkClosed(assigned)
    /\ skReqs = {} \/ \E i \in Ids : skReqs = {AgentsAsked(i)}

LEMMA SkillsOpened == ShellTypeOK /\ JustShown => SkillsInv
<1>. SUFFICES ASSUME ShellTypeOK, JustShown PROVE SkillsInv
  OBVIOUS
<1>1. assigned \subseteq Items
  BY ShellAssumption DEF JustShown, NoItem, Items, Ids
<1>2. /\ sk \in SkillsState /\ sk.wanted = assigned /\ ~sk.known
  BY <1>1 DEF JustShown, SkClosed, SkillsState, MaybeItems, NoItem
<1>3. ASSUME NEW i \in Ids PROVE AgentsAsked(i) \in SkReq /\ AgentsAsked(i).k = "agents"
                                 /\ AgentsAsked(i).st = "asked"
  <2>1. NoItem \in MaybeItems
    BY DEF MaybeItems, NoItem
  <2>. QED BY <2>1 DEF AgentsAsked, SkReq
<1>. QED BY <1>1, <1>2, <1>3 DEF JustShown, SkillsInv, SkillsTypeOK, PutsNamed, SumsUp

LEMMA SkillsReopened == (ShellTypeOK /\ JustShown => SkillsInv)'
BY SkillsOpened, PTL

LEMMA SkillsMoved ==
  ASSUME SkillsInv, ShellTypeOK', SkillsSwitch
  PROVE  SkillsInv'
<1>1. CASE page = "skills" \/ page' = "skills" \/ Reloading
  <2>1. JustShown'
    BY <1>1 DEF SkillsSwitch, SkMounted, ShellTypeOK, JustShown
  <2>. QED BY <2>1, SkillsReopened
<1>2. CASE UNCHANGED skVars
  BY <1>2 DEF skVars, SkillsInv, SkillsTypeOK, PutsNamed, SumsUp, Change
<1>. QED BY <1>1, <1>2 DEF SkillsSwitch

LEMMA SkillsKept ==
  ASSUME SkillsInv, ListsInv, ShellTypeOK, ShellTypeOK', SkillsStep
  PROVE  SkillsInv'
  BY FormStepsKept, AssignmentSent, AssignmentAnswered, AssignmentServed DEF SkillsStep

\* The inductive invariant of the lists and of the assignments.
THEOREM ListsSafe == Spec => [](ListsInv /\ SkillsInv)
<1>1. Init => ListsInv /\ SkillsInv
  <2>. SUFFICES ASSUME Init PROVE ListsInv /\ SkillsInv
    OBVIOUS
  <2>1. ShellTypeOK /\ 0 \in Ids
    BY ShellAssumption DEF Init, ShellInit, ShellTypeOK, Ids
  <2>2. JustOpened
    BY <2>1 DEF Init, CatalogInit, JustOpened
  <2>3. JustShown
    BY <2>1 DEF Init, SkillsInit, JustShown
  <2>. QED BY <2>1, <2>2, <2>3, ListsOpened, SkillsOpened
<1>2. ShellTypeOK /\ ShellTypeOK' /\ ListsInv /\ SkillsInv /\ [Next]_vars => ListsInv' /\ SkillsInv'
  <2>. SUFFICES ASSUME ShellTypeOK, ShellTypeOK', ListsInv, SkillsInv, [Next]_vars
                PROVE  ListsInv' /\ SkillsInv'
    OBVIOUS
  <2>1. UNCHANGED skVars => SkillsInv'
    BY DEF skVars, SkillsInv, SkillsTypeOK, PutsNamed, SumsUp, Change
  <2>2. ops' \in {ops, ops + 1}
    <3>1. Stays \/ (\E done \in SUBSET agReqs : Moves(done)) => ops' \in {ops, ops + 1}
      BY DEF Stays, Moves, Click, BellClick
    <3>. QED BY <3>1, ListMoves
  <2>3. CASE UNCHANGED <<page, ctVars, skVars>>
    BY <2>1, <2>2, <2>3, FrameKept
  <2>4. CASE Stays /\ CatalogStep /\ UNCHANGED skVars
    BY <2>1, <2>4, CatalogKept
  <2>5. CASE Stays /\ SkillsStep
    BY <2>5, SkillsListKept, SkillsKept DEF SkillsInv
  <2>6. CASE \E done \in SUBSET agReqs : Moves(done)
    BY <2>2, <2>6, ListsMoved, SkillsMoved DEF Moves, PagesSwitch
  <2>. QED BY <2>3, <2>4, <2>5, <2>6, ListMoves
<1>. QED BY <1>1, <1>2, ShellTyped, PTL DEF Spec

\* Every list that is at rest shows what the server has.
THEOREM ListsSettle == Spec => [](CatalogTypeOK /\ ListsAtRest)
<1>1. ASSUME ListsInv PROVE CatalogTypeOK /\ ListsAtRest
  <2>1. CatalogTypeOK
    BY <1>1 DEF ListsInv, ListPart
  <2>2. ASSUME ~ct.loading, ~ct.searching, ~raced, ct.scope # 0, page \in CatalogPages,
               \A r \in ctReqs : r.k \notin ListKinds \cup Commands
        PROVE  ct.shown = store[ct.scope]
    <3>1. Q = {}
      BY <2>2 DEF Q
    <3>2. \A i \in Items : i \in ct.shown <=> i \in store[ct.scope]
      BY <1>1, <2>2, <3>1 DEF ListsInv, ListPart, ListInv, Watched, DiffersByCommands
    <3>3. ct.shown \subseteq Items /\ store[ct.scope] \subseteq Items
      BY <1>1, <2>1, <2>2, ScopeIsList, ListFields DEF ListsInv, CatalogTypeOK
    <3>. QED BY <3>2, <3>3
  <2>3. ASSUME Panel(ct) # NoItem, page = "teams", ~MembersUnderWay(ctReqs), ~ct.crossed
        PROVE  ct.members = teamStore
    <3>1. M = {}
      BY <2>3 DEF M, MK, MembersUnderWay
    <3>. QED BY <1>1, <2>3, <3>1 DEF ListsInv, MembersPart, MembersInv
  <2>. QED BY <2>1, <2>2, <2>3 DEF ListsAtRest
<1>. QED BY <1>1, ListsSafe, PTL

\* An agent's skills are what its assignments and removals add up to.
THEOREM AssignmentsKept == Spec => [](SkillsTypeOK /\ AssignmentsAddUp)
<1>1. SkillsInv => SkillsTypeOK /\ AssignmentsAddUp
  BY DEF SkillsInv, SumsUp, AssignmentsAddUp
<1>. QED BY <1>1, ListsSafe, PTL

(***************************************************************************)
(* The knowledge base: types, and the list of uploads as a sequence.       *)
(***************************************************************************)
RowStatus == {"queued", "uploading", "done", "error"}

\* KbPage, with as many uploads per file as there may be.
KbShape ==
    [loading : BOOLEAN, found : BOOLEAN, tab : {"documents", "upload", "retrieval", "settings"},
     docs : Docs, deleting : MaybeDocument, rows : Seq(Row), searching : BOOLEAN,
     results : Ids, saving : BOOLEAN, picked : 0..MaxFiles,
     sent : [Files -> Nat],
     muddled : BOOLEAN, shifted : BOOLEAN, doubled : BOOLEAN]

KbTyped ==
    /\ kp \in KbShape /\ kpReqs \subseteq KpReq /\ kpLoops \subseteq Loop /\ docStore \in Docs
    /\ \A l \in kpLoops : l.i \in 1..Len(l.plan)
    /\ \A r \in kpReqs : r.k = "remove" => r.f \in Documents

LEMMA RowsMarked ==
  ASSUME NEW rows \in Seq(Row), NEW i \in Nat, NEW st \in RowStatus
  PROVE  /\ Marked(rows, i, st) \in Seq(Row) /\ Len(Marked(rows, i, st)) = Len(rows)
         /\ \A j \in 1..Len(rows) : /\ Marked(rows, i, st)[j].f = rows[j].f
                                    /\ j # i => Marked(rows, i, st)[j] = rows[j]
         /\ i \in 1..Len(rows) => Marked(rows, i, st)[i].st = st
<1>1. CASE i \in 1..Len(rows)
  <2>1. PICK row : row = [rows[i] EXCEPT !.st = st]
    OBVIOUS
  <2>2. rows[i] \in Row
    BY <1>1
  <2>3. row \in Row /\ row.f = rows[i].f /\ row.st = st
    BY <2>1, <2>2 DEF Row, RowStatus
  <2>4. DOMAIN rows = 1..Len(rows)
    BY LenProperties
  <2>5. Marked(rows, i, st) = [rows EXCEPT ![i] = row]
    BY <1>1, <2>1, <2>4 DEF Marked
  <2>. QED BY <1>1, <2>3, <2>5, ExceptSeq
<1>2. CASE i \notin 1..Len(rows)
  BY <1>2 DEF Marked
<1>. QED BY <1>1, <1>2

LEMMA RowUploading ==
  ASSUME NEW was \in Seq(Row), NEW i \in 1..Len(was), NEW rows, rows = Marked(was, i, "uploading")
  PROVE  /\ rows \in Seq(Row) /\ Len(rows) = Len(was) /\ rows[i].st = "uploading"
         /\ \A j \in 1..Len(rows) : rows[j].f = was[j].f /\ (j # i => rows[j] = was[j])
<1>1. CASE i \in DOMAIN was
  <2>1. PICK row : row = [was[i] EXCEPT !.st = "uploading"]
    OBVIOUS
  <2>2. was[i] \in Row
    OBVIOUS
  <2>3. row \in Row /\ row.f = was[i].f /\ row.st = "uploading"
    BY <2>1, <2>2 DEF Row
  <2>4. rows = [was EXCEPT ![i] = row]
    BY <1>1, <2>1 DEF Marked
  <2>. QED BY <2>3, <2>4, ExceptSeq
<1>2. DOMAIN was = 1..Len(was)
  BY LenProperties
<1>. QED BY <1>1, <1>2

LEMMA RowsRemoved ==
  ASSUME NEW rows \in Seq(Row), NEW i \in 1..Len(rows), NEW left,
         left = SubSeq(rows, 1, i - 1) \o SubSeq(rows, i + 1, Len(rows))
  PROVE  /\ left \in Seq(Row) /\ Len(left) = Len(rows) - 1
         /\ \A j \in 1..Len(left) : left[j] = IF j < i THEN rows[j] ELSE rows[j + 1]
<1>1. PICK a : a = SubSeq(rows, 1, i - 1)
  OBVIOUS
<1>2. PICK b : b = SubSeq(rows, i + 1, Len(rows))
  OBVIOUS
<1>3. a \in Seq(Row) /\ Len(a) = i - 1 /\ \A j \in 1..(i - 1) : a[j] = rows[j]
  BY <1>1
<1>4. b \in Seq(Row) /\ Len(b) = Len(rows) - i /\ \A j \in 1..(Len(rows) - i) : b[j] = rows[i + j]
  BY <1>2
<1>5. left = a \o b
  BY <1>1, <1>2
<1>6. /\ left \in Seq(Row) /\ Len(left) = Len(rows) - 1
      /\ \A j \in 1..Len(left) : left[j] = IF j <= i - 1 THEN a[j] ELSE b[j - (i - 1)]
  <2>1. Len(rows) \in Nat
    BY LenProperties
  <2>2. Len(a) + Len(b) = Len(rows) - 1
    BY <1>3, <1>4, <2>1
  <2>3. left \in Seq(Row) /\ Len(left) = Len(a) + Len(b)
    BY <1>3, <1>4, <1>5, ConcatProperties
  <2>4. a \in Seq(Row) /\ b \in Seq(Row)
    BY <1>3, <1>4
  <2>5. \A j \in 1..Len(a) + Len(b) : left[j] = IF j <= Len(a) THEN a[j] ELSE b[j - Len(a)]
    BY <1>5, <2>4, ConcatProperties
  <2>6. \A j \in 1..Len(left) : left[j] = IF j <= i - 1 THEN a[j] ELSE b[j - (i - 1)]
    BY <1>3, <2>3, <2>5
  <2>. QED BY <2>2, <2>3, <2>6
<1>7. ASSUME NEW j \in 1..Len(left) PROVE left[j] = IF j < i THEN rows[j] ELSE rows[j + 1]
  <2>0. Len(rows) \in Nat /\ j \in Nat /\ j >= 1 /\ j <= Len(rows) - 1 /\ i \in Nat
    <3>1. Len(rows) \in Nat /\ Len(left) = Len(rows) - 1 /\ j \in 1..Len(left) /\ i \in 1..Len(rows)
      BY <1>6, LenProperties
    <3>2. PICK m \in Nat : m = Len(rows)
      BY <3>1
    <3>3. j \in 1..(m - 1) /\ i \in 1..m
      BY <3>1, <3>2
    <3>4. j \in Nat /\ j >= 1 /\ j <= m - 1 /\ i \in Nat
      BY <3>3
    <3>. QED BY <3>2, <3>4
  <2>3. left[j] = IF j <= i - 1 THEN a[j] ELSE b[j - (i - 1)]
    BY <1>6
  <2>1. CASE j < i
    BY <1>3, <2>0, <2>1, <2>3
  <2>2. CASE j >= i
    <3>1. left[j] = b[j - (i - 1)]
      <4>1. ~(j <= i - 1)
        BY <2>0, <2>2
      <4>. QED BY <2>3, <4>1
    <3>2. j - (i - 1) \in 1..(Len(rows) - i) /\ i + (j - (i - 1)) = j + 1
      BY <2>0, <2>2
    <3>. QED BY <1>4, <2>0, <2>2, <3>1, <3>2
  <2>. QED BY <2>0, <2>1, <2>2
<1>. QED BY <1>6, <1>7

LEMMA RowsAdded ==
  ASSUME NEW rows \in Seq(Row), NEW n \in Nat, NEW more \in [1..n -> Row]
  PROVE  /\ rows \o more \in Seq(Row) /\ Len(rows \o more) = Len(rows) + n
         /\ \A j \in 1..Len(rows) : (rows \o more)[j] = rows[j]
         /\ \A j \in 1..n : (rows \o more)[Len(rows) + j] = more[j]
<1>1. more \in Seq(Row) /\ Len(more) = n
  <2>1. more \in Seq(Row)
    OBVIOUS
  <2>2. DOMAIN more = 1..Len(more) /\ Len(more) \in Nat
    BY <2>1, LenProperties
  <2>. QED BY <2>1, <2>2
<1>2. PICK longer : longer = rows \o more
  OBVIOUS
<1>3. Len(rows) \in Nat
  BY LenProperties
<1>4. longer \in Seq(Row) /\ Len(longer) = Len(rows) + Len(more)
  BY <1>1, <1>2, ConcatProperties
<1>5. \A j \in 1..Len(rows) + Len(more) :
         longer[j] = IF j <= Len(rows) THEN rows[j] ELSE more[j - Len(rows)]
  BY <1>1, <1>2, ConcatProperties
<1>6. ASSUME NEW j \in 1..n PROVE longer[Len(rows) + j] = more[j]
  <2>1. Len(rows) + j \in 1..Len(rows) + Len(more) /\ ~(Len(rows) + j <= Len(rows))
        /\ Len(rows) + j - Len(rows) = j
    BY <1>1, <1>3
  <2>2. PICK e : e = Len(rows) + j
    OBVIOUS
  <2>3. longer[e] = more[e - Len(rows)]
    BY <1>5, <2>1, <2>2
  <2>. QED BY <2>1, <2>2, <2>3
<1>7. \A j \in 1..Len(rows) : longer[j] = rows[j]
  BY <1>1, <1>3, <1>5
<1>. QED BY <1>1, <1>2, <1>4, <1>6, <1>7

LEMMA FirstIsOne ==
  ASSUME NEW S \in SUBSET Nat, S # {}
  PROVE  First(S) \in S
<1>1. PICK R : R = {ss \in Nat \X Nat : ss[1] < ss[2]}
  OBVIOUS
<1>2. IsWellFoundedOn(R, Nat)
  BY <1>1, NatLessThanWellFounded DEF OpToRel
<1>3. PICK j \in S : \A k \in S : ~(<<k, j>> \in R)
  BY <1>2, WFMin
<1>4. ASSUME NEW k \in S PROVE j <= k
  <2>1. PICK ss : ss = <<k, j>>
    OBVIOUS
  <2>2. ss \in Nat \X Nat /\ ss[1] = k /\ ss[2] = j
    BY <2>1
  <2>3. ~(ss[1] < ss[2])
    BY <1>1, <1>3, <2>1, <2>2
  <2>. QED BY <2>2, <2>3
<1>. QED BY <1>4 DEF First

(***************************************************************************)
(* The documents.  While kp.muddled is FALSE nothing is uploaded and at    *)
(* most one request about the documents is out; an answer to it that has   *)
(* not been shown yet fits the server, and so does the page without it.    *)
(***************************************************************************)
D == {r \in kpReqs : r.k \in RefreshKinds \cup {"remove"}}

FitsAt(d, f) == /\ d[f] = "absent" <=> docStore[f] = "absent"
                /\ d[f] = "ready" => docStore[f] = "ready"
Fits(d) == \A f \in Documents : FitsAt(d, f)

DocsInv ==
    page = "kb" /\ ~kp.muddled =>
       /\ kpLoops = {}
       /\ \A r, q \in D : r = q
       /\ \A r \in D : r.k # "remove" /\ r.st = "ok" => Fits(r.got)
       /\ \A r \in D : r.k = "remove" =>
             /\ r.st # "ok" => Fits(kp.docs)
             /\ r.st = "ok" => /\ docStore[r.f] = "absent"
                               /\ \A f \in Documents \ {r.f} : FitsAt(kp.docs, f)
       /\ D = {} /\ ~kp.loading => Fits(kp.docs)

(***************************************************************************)
(* The uploads.  While no row was removed under a loop, files and rows go  *)
(* together in the list and in every loop's copy; while there is one loop, *)
(* what it has yet to send has not been sent.                              *)
(***************************************************************************)
LoopFits(l) ==
    /\ Len(l.plan) <= Len(kp.rows)
    /\ \A j \in 1..Len(l.plan) : l.plan[j].f = kp.rows[j].f
    /\ l.st = "ok" => kp.sent[l.plan[l.i].f] > 0

RowFits(i) ==
    /\ kp.rows[i].f <= kp.picked
    /\ \A j \in 1..Len(kp.rows) : kp.rows[i].f = kp.rows[j].f => i = j
    /\ kp.rows[i].st = "done" => kp.sent[kp.rows[i].f] > 0

Pending(l) ==
    /\ kp.rows[l.i].st = "uploading"
    /\ l.st = "asked" => kp.sent[l.plan[l.i].f] = 0
    /\ \A j \in 1..Len(l.plan) : j > l.i /\ l.plan[j].st = "queued" => kp.rows[j].st = "queued"

SentOnce ==
    /\ \A l, m \in kpLoops : l = m
    /\ \A f \in Files : kp.sent[f] <= 1 /\ (f > kp.picked => kp.sent[f] = 0)
    /\ \A i \in 1..Len(kp.rows) : kp.rows[i].st = "queued" => kp.sent[kp.rows[i].f] = 0
    /\ \A l \in kpLoops : Pending(l)

RowsInv ==
    ~kp.shifted => /\ \A i \in 1..Len(kp.rows) : RowFits(i)
                   /\ \A l \in kpLoops : LoopFits(l)
                   /\ ~kp.doubled => SentOnce

KbInv == KbTyped /\ DocsInv /\ RowsInv

LEMMA KbFields ==
  ASSUME NEW s \in KbShape
  PROVE  /\ s.loading \in BOOLEAN /\ s.found \in BOOLEAN /\ s.docs \in Docs
         /\ s.tab \in {"documents", "upload", "retrieval", "settings"}
         /\ s.deleting \in MaybeDocument /\ s.rows \in Seq(Row) /\ s.searching \in BOOLEAN
         /\ s.results \in Ids /\ s.saving \in BOOLEAN /\ s.picked \in 0..MaxFiles
         /\ s.sent \in [Files -> Nat] /\ s.muddled \in BOOLEAN /\ s.shifted \in BOOLEAN
         /\ s.doubled \in BOOLEAN
  BY DEF KbShape

DocsView == <<page, kp.loading, kp.docs, kp.muddled, D, kpLoops, docStore>>
RowsView == <<kp.rows, kp.picked, kp.sent, kp.shifted, kp.doubled, kpLoops>>

LEMMA DocsViewKept ==
  ASSUME DocsInv, UNCHANGED DocsView
  PROVE  DocsInv'
  BY DEF DocsInv, DocsView, Fits, FitsAt

LEMMA RowsViewKept ==
  ASSUME RowsInv, UNCHANGED RowsView
  PROVE  RowsInv'
  BY DEF RowsInv, RowsView, RowFits, LoopFits, SentOnce, Pending

AskKinds == {"first", "poll", "tab", "removed", "remove", "search", "save"}

LEMMA NewKpReq ==
  ASSUME NEW k \in AskKinds, NEW i \in Ids
  PROVE  KpReqNew(k, i) \in KpReq /\ KpReqNew(k, i).k = k /\ KpReqNew(k, i).st = "asked"
<1>1. 0 \in MaybeDocument /\ NoDocs \in Docs
  BY DEF MaybeDocument, NoDocs, Docs, DocStatus
<1>2. KpReqNew(k, i) \in KpReq
  BY <1>1 DEF KpReqNew, KpReq, RefreshKinds, AskKinds
<1>3. KpReqNew(k, i).k = k /\ KpReqNew(k, i).st = "asked"
  BY DEF KpReqNew
<1>. QED BY <1>2, <1>3

LEMMA SavedKpReq ==
  ASSUME NEW i \in Ids
  PROVE  /\ [KpReqNew("save", i) EXCEPT !.st = "ok"] \in KpReq
         /\ [KpReqNew("save", i) EXCEPT !.st = "ok"].k = "save"
<1>1. KpReqNew("save", i) \in KpReq /\ KpReqNew("save", i).k = "save"
  BY NewKpReq DEF AskKinds
<1>. QED BY <1>1 DEF KpReq

LEMMA ReqFields ==
  ASSUME NEW r \in KpReq
  PROVE  /\ r.k \in RefreshKinds \cup {"remove", "search", "save"} /\ r.id \in Ids
         /\ r.f \in MaybeDocument /\ r.st \in {"asked", "ok", "noDocs", "failed"} /\ r.got \in Docs
  BY DEF KpReq

LEMMA DocKinds ==
  /\ RefreshKinds = {"first", "poll", "tab", "removed"}
  /\ "search" \notin RefreshKinds \cup {"remove"} /\ "save" \notin RefreshKinds \cup {"remove"}
  /\ "remove" \notin RefreshKinds /\ Files \subseteq Documents /\ Documents \subseteq MaybeDocument
  BY DEF RefreshKinds, Documents, MaybeDocument

(***************************************************************************)
(* The forms: nothing about documents or uploads.                          *)
(***************************************************************************)
LEMMA KbFormsKept ==
  ASSUME KbInv, ShellTypeOK, ShellTypeOK',
         \/ \E t \in {"documents", "upload", "retrieval", "settings"} : KbTab(t)
         \/ RunRetrieval \/ HandleSettingsSave
         \/ \E r \in kpReqs : RetrievalReturns(r) \/ SettingsSaved(r)
  PROVE  KbInv'
<1>0. /\ kp \in KbShape /\ kpReqs \subseteq KpReq /\ ops' \in Ids /\ 0 \in Ids
  BY ShellAssumption DEF KbInv, KbTyped, ShellTypeOK, Ids
<1>1. ASSUME NEW s \in KbShape, kp' = s, page' = page, UNCHANGED <<kpLoops, docStore>>,
             kpReqs' \subseteq KpReq, D' = D,
             \A r \in kpReqs' : r \in kpReqs \/ r.k # "remove",
             s.loading = kp.loading, s.docs = kp.docs, s.muddled = kp.muddled, s.rows = kp.rows,
             s.picked = kp.picked, s.sent = kp.sent, s.shifted = kp.shifted, s.doubled = kp.doubled
      PROVE  KbInv'
  <2>1. KbTyped'
    BY <1>1 DEF KbInv, KbTyped
  <2>2. DocsInv' /\ RowsInv'
    BY <1>1, DocsViewKept, RowsViewKept DEF KbInv, DocsView, RowsView
  <2>. QED BY <2>1, <2>2 DEF KbInv
<1>2. ASSUME NEW t \in {"documents", "upload", "retrieval", "settings"}, NEW b \in BOOLEAN,
             NEW c \in BOOLEAN, NEW n \in Ids,
             kp' = [kp EXCEPT !.tab = t, !.searching = b, !.results = n, !.saving = c],
             page' = page, UNCHANGED <<kpLoops, docStore>>, kpReqs' \subseteq KpReq,
             D' = D, \A r \in kpReqs' : r \in kpReqs \/ r.k # "remove"
      PROVE  KbInv'
  <2>1. PICK s : s = [kp EXCEPT !.tab = t, !.searching = b, !.results = n, !.saving = c]
    OBVIOUS
  <2>2. s \in KbShape
    BY <1>0, <2>1 DEF KbShape
  <2>3. /\ s.loading = kp.loading /\ s.docs = kp.docs /\ s.muddled = kp.muddled
        /\ s.rows = kp.rows /\ s.picked = kp.picked /\ s.sent = kp.sent
        /\ s.shifted = kp.shifted /\ s.doubled = kp.doubled
    BY <1>0, <2>1 DEF KbShape
  <2>. QED BY <1>1, <1>2, <2>1, <2>2, <2>3
<1>3. /\ kp.tab \in {"documents", "upload", "retrieval", "settings"} /\ kp.searching \in BOOLEAN
      /\ kp.results \in Ids /\ kp.saving \in BOOLEAN
  BY <1>0, KbFields
<1>4. CASE \E t \in {"documents", "upload", "retrieval", "settings"} : KbTab(t)
  <2>1. PICK t \in {"documents", "upload", "retrieval", "settings"} : KbTab(t)
    BY <1>4
  <2>2. kp' = [kp EXCEPT !.tab = t, !.searching = kp.searching, !.results = kp.results, !.saving = kp.saving]
    BY <1>0, <2>1 DEF KbTab, KbShape
  <2>3. /\ page' = page /\ UNCHANGED <<kpLoops, docStore>> /\ kpReqs' = kpReqs
    BY <2>1 DEF KbTab, OnKb, On
  <2>4. D' = D
    BY <2>3 DEF D
  <2>. QED BY <1>0, <1>2, <1>3, <2>2, <2>3, <2>4
<1>5. CASE RunRetrieval
  <2>1. PICK q : q = KpReqNew("search", ops')
    OBVIOUS
  <2>2. q \in KpReq /\ q.k = "search"
    BY <1>0, <2>1, NewKpReq DEF AskKinds
  <2>3. /\ page' = page /\ UNCHANGED <<kpLoops, docStore>> /\ kpReqs' = kpReqs \cup {q}
        /\ kp' = [kp EXCEPT !.searching = TRUE, !.results = 0]
    BY <1>5, <2>1 DEF RunRetrieval, OnKb, On
  <2>4. D' = D
    BY <2>2, <2>3, DocKinds DEF D
  <2>5. kp' = [kp EXCEPT !.tab = kp.tab, !.searching = TRUE, !.results = 0, !.saving = kp.saving]
    BY <1>0, <2>3 DEF KbShape
  <2>. QED BY <1>0, <1>2, <1>3, <2>2, <2>3, <2>4, <2>5
<1>6. CASE HandleSettingsSave
  <2>1. PICK q : q = [KpReqNew("save", ops') EXCEPT !.st = "ok"]
    OBVIOUS
  <2>2. q \in KpReq /\ q.k = "save"
    BY <1>0, <2>1, SavedKpReq
  <2>3. /\ page' = page /\ UNCHANGED <<kpLoops, docStore>> /\ kpReqs' = kpReqs \cup {q}
        /\ kp' = [kp EXCEPT !.saving = TRUE]
    BY <1>6, <2>1 DEF HandleSettingsSave, OnKb, On
  <2>4. D' = D
    BY <2>2, <2>3, DocKinds DEF D
  <2>5. kp' = [kp EXCEPT !.tab = kp.tab, !.searching = kp.searching, !.results = kp.results, !.saving = TRUE]
    BY <1>0, <2>3 DEF KbShape
  <2>. QED BY <1>0, <1>2, <1>3, <2>2, <2>3, <2>4, <2>5
<1>7. ASSUME NEW r \in kpReqs, RetrievalReturns(r) \/ SettingsSaved(r) PROVE KbInv'
  <2>1. /\ page' = page /\ UNCHANGED <<kpLoops, docStore>> /\ kpReqs' = kpReqs \ {r}
        /\ r.k \in {"search", "save"}
    BY <1>7 DEF RetrievalReturns, SettingsSaved, KpHandles, Unattended, shellVars
  <2>2. D' = D
    BY <2>1, DocKinds DEF D
  <2>3. CASE RetrievalReturns(r)
    <3>1. PICK n \in Ids : n = IF r.st = "ok" THEN r.id ELSE 0
      BY <1>0, ReqFields
    <3>2. kp' = [kp EXCEPT !.tab = kp.tab, !.searching = FALSE, !.results = n, !.saving = kp.saving]
      BY <1>0, <2>3, <3>1 DEF RetrievalReturns, KbShape
    <3>. QED BY <1>0, <1>2, <1>3, <2>1, <2>2, <3>2
  <2>4. CASE SettingsSaved(r)
    <3>1. kp' = [kp EXCEPT !.tab = kp.tab, !.searching = kp.searching, !.results = kp.results, !.saving = FALSE]
      BY <1>0, <2>4 DEF SettingsSaved, KbShape
    <3>. QED BY <1>0, <1>2, <1>3, <2>1, <2>2, <3>1
  <2>. QED BY <1>7, <2>3, <2>4
<1>. QED BY <1>4, <1>5, <1>6, <1>7

(***************************************************************************)
(* Refreshing.                                                             *)
(***************************************************************************)
LEMMA ShownAgain ==
  ASSUME KbTyped, NEW r \in kpReqs, r.st # "asked"
  PROVE  /\ Refreshed(kp, r) \in KbShape
         /\ Refreshed(kp, r).loading = kp.loading /\ Refreshed(kp, r).rows = kp.rows
         /\ Refreshed(kp, r).picked = kp.picked /\ Refreshed(kp, r).sent = kp.sent
         /\ Refreshed(kp, r).shifted = kp.shifted /\ Refreshed(kp, r).doubled = kp.doubled
         /\ r.st # "ok" => Refreshed(kp, r).muddled
         /\ r.st = "ok" => Refreshed(kp, r).muddled = kp.muddled /\ Refreshed(kp, r).docs = r.got
<1>0. kp \in KbShape /\ r.got \in Docs /\ r.st \in {"ok", "noDocs", "failed"} /\ NoDocs \in Docs
  BY ReqFields DEF KbTyped, NoDocs, Docs, DocStatus
<1>1. CASE r.st = "ok"
  <2>1. Refreshed(kp, r) = [kp EXCEPT !.found = TRUE, !.docs = r.got]
    BY <1>1 DEF Refreshed
  <2>. QED BY <1>0, <1>1, <2>1 DEF KbShape
<1>2. CASE r.st = "noDocs"
  <2>1. Refreshed(kp, r) = [kp EXCEPT !.found = TRUE, !.docs = NoDocs, !.muddled = TRUE]
    BY <1>2 DEF Refreshed
  <2>. QED BY <1>0, <1>2, <2>1 DEF KbShape
<1>3. CASE r.st = "failed"
  <2>1. Refreshed(kp, r) = [kp EXCEPT !.muddled = TRUE]
    BY <1>3 DEF Refreshed
  <2>. QED BY <1>0, <1>3, <2>1 DEF KbShape
<1>. QED BY <1>0, <1>1, <1>2, <1>3

LEMMA DocsArrived ==
  ASSUME KbInv, NEW r \in kpReqs, KpHandles(r, RefreshKinds), NEW s \in KbShape, kp' = s,
         kpReqs' = kpReqs \ {r}, UNCHANGED <<kpLoops, docStore>>,
         s.docs = Refreshed(kp, r).docs, s.muddled = Refreshed(kp, r).muddled, s.rows = kp.rows,
         s.picked = kp.picked, s.sent = kp.sent, s.shifted = kp.shifted, s.doubled = kp.doubled
  PROVE  KbInv'
<1>0. KbTyped /\ r.k \in RefreshKinds /\ r.st # "asked" /\ page' = page
  BY DEF KbInv, KpHandles, Unattended, shellVars
<1>1. KbTyped'
  BY DEF KbInv, KbTyped
<1>2. RowsInv'
  BY RowsViewKept DEF KbInv, RowsView
<1>3. DocsInv'
  <2>1. SUFFICES ASSUME page = "kb", ~s.muddled PROVE DocsInv'
    BY <1>0 DEF DocsInv
  <2>2. r.st = "ok" /\ ~kp.muddled /\ s.docs = r.got
    BY <1>0, <2>1, ShownAgain
  <2>3. r \in D /\ r.k # "remove"
    BY <1>0, DocKinds DEF D
  <2>4. D' = D \ {r}
    BY DEF D
  <2>5. D' = {} /\ kpLoops = {} /\ Fits(r.got)
    BY <2>1, <2>2, <2>3, <2>4 DEF KbInv, DocsInv
  <2>6. Fits(kp.docs)'
    BY <2>2, <2>5 DEF Fits, FitsAt
  <2>. QED BY <2>5, <2>6 DEF DocsInv
<1>. QED BY <1>1, <1>2, <1>3 DEF KbInv

LEMMA RefreshesKept ==
  ASSUME KbInv, NEW r \in kpReqs,
         FirstRefresh(r) \/ PollRefreshed(r) \/ IngestionEnds(r) \/ DeletionRefreshed(r)
  PROVE  KbInv'
<1>0. /\ KpHandles(r, RefreshKinds) /\ kpReqs' = kpReqs \ {r} /\ UNCHANGED <<kpLoops, docStore>>
      /\ r.st # "asked" /\ KbTyped
  BY DocKinds DEF KbInv, FirstRefresh, PollRefreshed, IngestionEnds, DeletionRefreshed, KpHandles
<1>1. PICK state \in KbShape : state = Refreshed(kp, r)
  BY <1>0, ShownAgain
<1>2. /\ state.rows = kp.rows /\ state.picked = kp.picked /\ state.sent = kp.sent
      /\ state.shifted = kp.shifted /\ state.doubled = kp.doubled
  BY <1>0, <1>1, ShownAgain
<1>3. ASSUME NEW s \in KbShape, kp' = s, s.docs = state.docs, s.muddled = state.muddled,
             s.rows = state.rows, s.picked = state.picked, s.sent = state.sent,
             s.shifted = state.shifted, s.doubled = state.doubled
      PROVE  KbInv'
  BY <1>0, <1>1, <1>2, <1>3, DocsArrived
<1>4. CASE FirstRefresh(r)
  <2>1. PICK s : s = [state EXCEPT !.loading = FALSE]
    OBVIOUS
  <2>2. kp' = s
    BY <1>1, <1>4, <2>1 DEF FirstRefresh
  <2>3. /\ s \in KbShape /\ s.docs = state.docs /\ s.muddled = state.muddled
        /\ s.rows = state.rows /\ s.picked = state.picked /\ s.sent = state.sent
        /\ s.shifted = state.shifted /\ s.doubled = state.doubled
    BY <2>1 DEF KbShape
  <2>. QED BY <1>3, <2>2, <2>3
<1>5. CASE PollRefreshed(r)
  BY <1>1, <1>3, <1>5 DEF PollRefreshed
<1>6. CASE IngestionEnds(r)
  <2>1. PICK s : s = [state EXCEPT !.tab = "documents"]
    OBVIOUS
  <2>2. kp' = s
    BY <1>1, <1>6, <2>1 DEF IngestionEnds
  <2>3. /\ s \in KbShape /\ s.docs = state.docs /\ s.muddled = state.muddled
        /\ s.rows = state.rows /\ s.picked = state.picked /\ s.sent = state.sent
        /\ s.shifted = state.shifted /\ s.doubled = state.doubled
    BY <2>1 DEF KbShape
  <2>. QED BY <1>3, <2>2, <2>3
<1>7. CASE DeletionRefreshed(r)
  <2>1. PICK s : s = [state EXCEPT !.deleting = 0]
    OBVIOUS
  <2>2. kp' = s
    BY <1>1, <1>7, <2>1 DEF DeletionRefreshed
  <2>3. /\ s \in KbShape /\ s.docs = state.docs /\ s.muddled = state.muddled
        /\ s.rows = state.rows /\ s.picked = state.picked /\ s.sent = state.sent
        /\ s.shifted = state.shifted /\ s.doubled = state.doubled
    BY <2>1 DEF KbShape, MaybeDocument
  <2>. QED BY <1>3, <2>2, <2>3
<1>. QED BY <1>4, <1>5, <1>6, <1>7

LEMMA PollKept ==
  ASSUME KbInv, PollRefresh
  PROVE  KbInv'
<1>1. PICK q : q = KpReqNew("poll", 0)
  OBVIOUS
<1>2. q \in KpReq /\ q.k = "poll" /\ q.st = "asked" /\ q.k \in RefreshKinds
  <2>1. 0 \in Ids /\ "poll" \in RefreshKinds
    BY ShellAssumption DEF RefreshKinds, Ids
  <2>. QED BY <1>1, <2>1, NewKpReq DEF AskKinds
<1>3. PICK b \in BOOLEAN : b = DocsUnderWay
  BY DEF DocsUnderWay
<1>4. PICK s : s = [kp EXCEPT !.muddled = b]
  OBVIOUS
<1>5. /\ s \in KbShape /\ s.loading = kp.loading /\ s.docs = kp.docs /\ s.muddled = b
      /\ s.rows = kp.rows /\ s.picked = kp.picked /\ s.sent = kp.sent
      /\ s.shifted = kp.shifted /\ s.doubled = kp.doubled
  BY <1>4 DEF KbInv, KbTyped, KbShape
<1>6. kp' = s /\ kpReqs' = kpReqs \cup {q} /\ UNCHANGED <<page, kpLoops, docStore>>
  BY <1>1, <1>3, <1>4 DEF PollRefresh, Unattended, shellVars
<1>7. KbTyped'
  BY <1>2, <1>5, <1>6 DEF KbInv, KbTyped
<1>8. RowsInv'
  BY <1>5, <1>6, RowsViewKept DEF KbInv, RowsView
<1>9. DocsInv'
  <2>1. SUFFICES ASSUME ~b PROVE DocsInv'
    BY <1>5, <1>6 DEF DocsInv
  <2>2. D = {} /\ kpLoops = {}
    BY <1>3, <2>1 DEF DocsUnderWay, D
  <2>3. D' = {q}
    BY <1>2, <1>6, <2>2 DEF D
  <2>. QED BY <1>2, <1>6, <2>2, <2>3 DEF DocsInv
<1>. QED BY <1>7, <1>8, <1>9 DEF KbInv

(***************************************************************************)
(* Deleting a document.                                                    *)
(***************************************************************************)
LEMMA DocumentDeletion ==
  ASSUME KbInv, ShellTypeOK', NEW f \in Documents, HandleDeleteDocument(f)
  PROVE  KbInv'
<1>0. ops' \in Ids /\ kp \in KbShape /\ kp.muddled \in BOOLEAN
  BY KbFields DEF ShellTypeOK, KbInv, KbTyped
<1>1. PICK q : q = [KpReqNew("remove", ops') EXCEPT !.f = f]
  OBVIOUS
<1>2. q \in KpReq /\ q.k = "remove" /\ q.st = "asked" /\ q.f = f
  <2>1. PICK p : p = KpReqNew("remove", ops')
    OBVIOUS
  <2>2. p \in KpReq /\ p.k = "remove" /\ p.st = "asked"
    BY <1>0, <2>1, NewKpReq DEF AskKinds
  <2>3. f \in MaybeDocument /\ q = [p EXCEPT !.f = f]
    BY <1>1, <2>1 DEF MaybeDocument
  <2>. QED BY <2>2, <2>3 DEF KpReq
<1>3. PICK b \in BOOLEAN : b = (kp.muddled \/ DocsUnderWay)
  BY <1>0 DEF DocsUnderWay
<1>4. PICK s : s = [kp EXCEPT !.deleting = f, !.muddled = b]
  OBVIOUS
<1>5. /\ s \in KbShape /\ s.loading = kp.loading /\ s.docs = kp.docs /\ s.muddled = b
      /\ s.rows = kp.rows /\ s.picked = kp.picked /\ s.sent = kp.sent
      /\ s.shifted = kp.shifted /\ s.doubled = kp.doubled
  BY <1>0, <1>4, DocKinds DEF KbShape
<1>6. kp' = s /\ kpReqs' = kpReqs \cup {q} /\ UNCHANGED <<page, kpLoops, docStore>> /\ ~kp.loading
      /\ page = "kb"
  BY <1>1, <1>3, <1>4 DEF HandleDeleteDocument, OnKb, On
<1>7. KbTyped'
  BY <1>2, <1>5, <1>6 DEF KbInv, KbTyped
<1>8. RowsInv'
  BY <1>5, <1>6, RowsViewKept DEF KbInv, RowsView
<1>9. DocsInv'
  <2>1. SUFFICES ASSUME ~b PROVE DocsInv'
    BY <1>5, <1>6 DEF DocsInv
  <2>2. D = {} /\ kpLoops = {} /\ ~kp.muddled
    BY <1>3, <2>1 DEF DocsUnderWay, D
  <2>3. D' = {q}
    BY <1>2, <1>6, <2>2 DEF D
  <2>4. Fits(kp.docs)
    BY <1>6, <2>2 DEF KbInv, DocsInv
  <2>5. Fits(kp.docs)'
    BY <1>5, <1>6, <2>4 DEF Fits, FitsAt
  <2>. QED BY <1>2, <1>6, <2>2, <2>3, <2>5 DEF DocsInv
<1>. QED BY <1>7, <1>8, <1>9 DEF KbInv

LEMMA DeletionAnswered ==
  ASSUME KbInv, NEW r \in kpReqs, DocumentDeleted(r)
  PROVE  KbInv'
<1>0. /\ kp \in KbShape /\ kp.docs \in Docs /\ r \in KpReq /\ r.id \in Ids /\ r.k = "remove"
      /\ r.f \in Documents /\ r.st # "asked" /\ UNCHANGED <<page, kpLoops, docStore>>
  BY KbFields, ReqFields DEF KbInv, KbTyped, DocumentDeleted, KpHandles, Unattended, shellVars
<1>1. r \in D
  BY <1>0 DEF D
<1>2. CASE r.st = "ok"
  <2>1. PICK d : d = [kp.docs EXCEPT ![r.f] = "absent"]
    OBVIOUS
  <2>2. d \in Docs
    BY <1>0, <2>1 DEF Docs, DocStatus
  <2>3. PICK s : s = [kp EXCEPT !.docs = d]
    OBVIOUS
  <2>4. /\ s \in KbShape /\ s.loading = kp.loading /\ s.docs = d /\ s.muddled = kp.muddled
        /\ s.rows = kp.rows /\ s.picked = kp.picked /\ s.sent = kp.sent
        /\ s.shifted = kp.shifted /\ s.doubled = kp.doubled
    BY <1>0, <2>2, <2>3 DEF KbShape
  <2>5. PICK q : q = KpReqNew("removed", r.id)
    OBVIOUS
  <2>6. q \in KpReq /\ q.k = "removed" /\ q.st = "asked" /\ q.k \in RefreshKinds
    <3>1. "removed" \in RefreshKinds
      BY DEF RefreshKinds
    <3>. QED BY <1>0, <2>5, <3>1, NewKpReq DEF AskKinds
  <2>7. kp' = s /\ kpReqs' = (kpReqs \ {r}) \cup {q}
    BY <1>2, <2>1, <2>3, <2>5 DEF DocumentDeleted
  <2>8. KbTyped' /\ RowsInv'
    BY <1>0, <2>4, <2>6, <2>7, RowsViewKept DEF KbInv, KbTyped, RowsView
  <2>9. DocsInv'
    <3>1. SUFFICES ASSUME page = "kb", ~kp.muddled PROVE DocsInv'
      BY <1>0, <2>4, <2>7 DEF DocsInv
    <3>2. D = {r} /\ kpLoops = {}
      BY <1>1, <3>1 DEF KbInv, DocsInv
    <3>3. D' = (D \ {r}) \cup {q}
      BY <2>6, <2>7 DEF D
    <3>4. D' = {q}
      BY <3>2, <3>3
    <3>. QED BY <1>0, <2>6, <3>2, <3>4 DEF DocsInv
  <2>. QED BY <2>8, <2>9 DEF KbInv
<1>3. CASE r.st # "ok"
  <2>1. PICK s : s = [kp EXCEPT !.deleting = 0, !.muddled = TRUE]
    OBVIOUS
  <2>2. /\ s \in KbShape /\ s.muddled
        /\ s.rows = kp.rows /\ s.picked = kp.picked /\ s.sent = kp.sent
        /\ s.shifted = kp.shifted /\ s.doubled = kp.doubled
    BY <1>0, <2>1 DEF KbShape, MaybeDocument
  <2>3. kp' = s /\ kpReqs' = kpReqs \ {r}
    BY <1>3, <2>1 DEF DocumentDeleted
  <2>4. KbTyped' /\ RowsInv' /\ DocsInv'
    BY <1>0, <2>2, <2>3, RowsViewKept DEF KbInv, KbTyped, RowsView, DocsInv
  <2>. QED BY <2>4 DEF KbInv
<1>. QED BY <1>2, <1>3

(***************************************************************************)
(* The server.                                                             *)
(***************************************************************************)
LEMMA KpServed ==
  ASSUME KbInv, NEW r \in kpReqs, KpAnswered(r) \/ KpFailed(r)
  PROVE  KbInv'
<1>0. /\ r \in KpReq /\ r.st = "asked" /\ docStore \in Docs /\ UNCHANGED <<page, kp, kpLoops>>
      /\ (r.k = "remove" => r.f \in Documents)
  BY DEF KbInv, KbTyped, KpAnswered, KpFailed, Unattended, shellVars
<1>1. RowsInv'
  BY <1>0, RowsViewKept DEF KbInv, RowsView
<1>2. CASE KpFailed(r)
  <2>1. PICK a \in {"failed", "noDocs"} : kpReqs' = (kpReqs \ {r}) \cup {[r EXCEPT !.st = a]}
    BY <1>2 DEF KpFailed
  <2>2. PICK q : q = [r EXCEPT !.st = a]
    OBVIOUS
  <2>3. q \in KpReq /\ q.k = r.k /\ q.f = r.f /\ q.st = a
    BY <1>0, <2>1, <2>2 DEF KpReq
  <2>4. kpReqs' = (kpReqs \ {r}) \cup {q} /\ docStore' = docStore
    BY <1>2, <2>1, <2>2 DEF KpFailed
  <2>5. KbTyped'
    BY <1>0, <2>3, <2>4 DEF KbInv, KbTyped
  <2>6. CASE r \notin D
    <3>1. D' = D
      BY <2>3, <2>4, <2>6 DEF D
    <3>. QED BY <1>0, <1>1, <2>4, <2>5, <3>1, DocsViewKept DEF KbInv, DocsView
  <2>7. CASE r \in D
    <3>1. D' = (D \ {r}) \cup {q}
      BY <2>3, <2>4, <2>7 DEF D
    <3>2. DocsInv'
      <4>1. SUFFICES ASSUME page = "kb", ~kp.muddled PROVE DocsInv'
        BY <1>0 DEF DocsInv
      <4>2. D' = {q} /\ kpLoops = {} /\ (r.k = "remove" => Fits(kp.docs))
        BY <1>0, <2>7, <3>1, <4>1 DEF KbInv, DocsInv
      <4>3. r.k = "remove" => Fits(kp.docs)'
        BY <1>0, <2>4, <4>2 DEF Fits, FitsAt
      <4>. QED BY <1>0, <2>1, <2>3, <4>2, <4>3 DEF DocsInv
    <3>. QED BY <1>1, <2>5, <3>2 DEF KbInv
  <2>. QED BY <2>6, <2>7
<1>3. CASE KpAnswered(r)
  <2>1. PICK d \in Docs : d = IF r.k = "remove" THEN [docStore EXCEPT ![r.f] = "absent"] ELSE docStore
    BY <1>0 DEF Docs, DocStatus
  <2>2. PICK q : q = [r EXCEPT !.st = "ok", !.got = d]
    OBVIOUS
  <2>3. q \in KpReq /\ q.k = r.k /\ q.f = r.f /\ q.st = "ok" /\ q.got = d
    BY <1>0, <2>2 DEF KpReq
  <2>4. kpReqs' = (kpReqs \ {r}) \cup {q} /\ docStore' = d
    BY <1>3, <2>1, <2>2 DEF KpAnswered
  <2>5. KbTyped'
    BY <1>0, <2>3, <2>4 DEF KbInv, KbTyped
  <2>6. CASE r \notin D
    <3>1. D' = D /\ docStore' = docStore
      BY <2>1, <2>3, <2>4, <2>6 DEF D
    <3>. QED BY <1>0, <1>1, <2>5, <3>1, DocsViewKept DEF KbInv, DocsView
  <2>7. CASE r \in D
    <3>1. D' = (D \ {r}) \cup {q}
      BY <2>3, <2>4, <2>7 DEF D
    <3>2. DocsInv'
      <4>1. SUFFICES ASSUME page = "kb", ~kp.muddled PROVE DocsInv'
        BY <1>0 DEF DocsInv
      <4>2. D' = {q} /\ kpLoops = {} /\ (r.k = "remove" => Fits(kp.docs))
        BY <1>0, <2>7, <3>1, <4>1 DEF KbInv, DocsInv
      <4>3. Fits(q.got)'
        BY <2>3, <2>4 DEF Fits, FitsAt
      <4>4. r.k = "remove" => /\ docStore'[r.f] = "absent"
                              /\ \A f \in Documents \ {r.f} : docStore'[f] = docStore[f]
        BY <1>0, <2>1, <2>4 DEF Docs
      <4>5. r.k = "remove" => \A f \in Documents \ {r.f} : FitsAt(kp.docs, f)'
        BY <1>0, <4>2, <4>4 DEF Fits, FitsAt
      <4>. QED BY <1>0, <2>3, <4>2, <4>3, <4>4, <4>5 DEF DocsInv
    <3>. QED BY <1>1, <2>5, <3>2 DEF KbInv
  <2>. QED BY <2>6, <2>7
<1>. QED BY <1>2, <1>3

LEMMA IngestedKept ==
  ASSUME KbInv, NEW f \in Documents, DocumentIngested(f)
  PROVE  KbInv'
<1>0. /\ docStore \in Docs /\ docStore[f] = "processing" /\ UNCHANGED <<page, kp, kpReqs, kpLoops>>
      /\ docStore' = [docStore EXCEPT ![f] = "ready"]
  BY DEF KbInv, KbTyped, DocumentIngested, Unattended, shellVars
<1>1. /\ docStore' \in Docs /\ docStore'[f] = "ready"
      /\ \A g \in Documents : g # f => docStore'[g] = docStore[g]
  BY <1>0 DEF Docs, DocStatus
<1>2. \A d : \A g \in Documents : FitsAt(d, g) => FitsAt(d, g)'
  BY <1>0, <1>1 DEF FitsAt
<1>3. KbTyped' /\ RowsInv' /\ D' = D
  BY <1>0, <1>1, RowsViewKept DEF KbInv, KbTyped, RowsView, D
<1>4. DocsInv'
  <2>1. SUFFICES ASSUME page = "kb", ~kp.muddled PROVE DocsInv'
    BY <1>0 DEF DocsInv
  <2>2. ASSUME NEW r \in D, r.k # "remove", r.st = "ok" PROVE Fits(r.got)'
    BY <1>2, <2>1, <2>2 DEF KbInv, DocsInv, Fits
  <2>3. ASSUME NEW r \in D, r.k = "remove"
        PROVE  /\ r.st # "ok" => Fits(kp.docs)'
               /\ r.st = "ok" => /\ docStore'[r.f] = "absent"
                                 /\ \A g \in Documents \ {r.f} : FitsAt(kp.docs, g)'
    <3>1. r.f \in Documents
      BY <2>3 DEF KbInv, KbTyped, D
    <3>2. r.st # "ok" => Fits(kp.docs)'
      BY <1>0, <1>2, <2>1, <2>3 DEF KbInv, DocsInv, Fits
    <3>3. r.st = "ok" => /\ docStore'[r.f] = "absent"
                         /\ \A g \in Documents \ {r.f} : FitsAt(kp.docs, g)'
      BY <1>0, <1>1, <1>2, <2>1, <2>3, <3>1 DEF KbInv, DocsInv
    <3>. QED BY <3>2, <3>3
  <2>4. D = {} /\ ~kp.loading => Fits(kp.docs)'
    BY <1>0, <1>2, <2>1 DEF KbInv, DocsInv, Fits
  <2>5. kpLoops = {} /\ \A r, q \in D : r = q
    BY <2>1 DEF KbInv, DocsInv
  <2>. QED BY <1>0, <1>3, <2>2, <2>3, <2>4, <2>5 DEF DocsInv
<1>. QED BY <1>3, <1>4 DEF KbInv

(***************************************************************************)
(* The list of uploads.                                                    *)
(***************************************************************************)
LEMMA RowTypes ==
  ASSUME KbTyped
  PROVE  /\ kp.rows \in Seq(Row) /\ Len(kp.rows) \in Nat /\ kp.picked \in Nat /\ MaxFiles \in Nat
         /\ DOMAIN kp.rows = 1..Len(kp.rows) /\ kp.sent \in [Files -> Nat]
         /\ \A i \in 1..Len(kp.rows) : kp.rows[i].f \in Files /\ kp.rows[i].st \in RowStatus
         /\ \A l \in kpLoops : /\ l.plan \in Seq(Row) /\ Len(l.plan) \in Nat /\ l.id \in Ids
                               /\ l.i \in 1..Len(l.plan) /\ l.st \in {"asked", "ok", "failed"}
                               /\ \A j \in 1..Len(l.plan) : l.plan[j].f \in Files
<1>1. kp.rows \in Seq(Row) /\ kp.picked \in 0..MaxFiles /\ MaxFiles \in Nat /\ kp.sent \in [Files -> Nat]
  BY KbFields, KnowledgeAssumption DEF KbTyped
<1>2. Len(kp.rows) \in Nat /\ DOMAIN kp.rows = 1..Len(kp.rows)
  BY <1>1, LenProperties
<1>3. ASSUME NEW i \in 1..Len(kp.rows)
      PROVE  kp.rows[i].f \in Files /\ kp.rows[i].st \in RowStatus
  <2>1. kp.rows[i] \in Row
    BY <1>1, ElementOfSeq
  <2>. QED BY <2>1 DEF Row, RowStatus
<1>4. ASSUME NEW l \in kpLoops
      PROVE  /\ l.plan \in Seq(Row) /\ Len(l.plan) \in Nat /\ l.id \in Ids
             /\ l.i \in 1..Len(l.plan) /\ l.st \in {"asked", "ok", "failed"}
             /\ \A j \in 1..Len(l.plan) : l.plan[j].f \in Files
  <2>1. /\ l.plan \in Seq(Row) /\ l.id \in Ids /\ l.st \in {"asked", "ok", "failed"}
        /\ l.i \in 1..Len(l.plan)
    BY DEF KbTyped, Loop
  <2>2. ASSUME NEW j \in 1..Len(l.plan) PROVE l.plan[j].f \in Files
    <3>1. l.plan[j] \in Row
      BY <2>1, ElementOfSeq
    <3>. QED BY <3>1 DEF Row
  <2>. QED BY <2>1, <2>2, LenProperties
<1>. QED BY <1>1, <1>2, <1>3, <1>4

LEMMA AddKept ==
  ASSUME KbInv, AddFiles
  PROVE  KbInv'
<1>0. KbTyped /\ kp \in KbShape
  BY DEF KbInv, KbTyped
<1>1. PICK n \in 1..(MaxFiles - kp.picked) :
         kp' = [kp EXCEPT !.picked = @ + n,
                          !.rows = @ \o [i \in 1..n |-> [f |-> kp.picked + i, st |-> "queued"]]]
  BY DEF AddFiles
<1>2. PICK longer : longer = kp.rows \o [i \in 1..n |-> [f |-> kp.picked + i, st |-> "queued"]]
  OBVIOUS
<1>3. PICK p : p = kp.picked + n
  OBVIOUS
<1>4. n \in Nat /\ n >= 1 /\ kp.picked + n <= MaxFiles /\ p \in 0..MaxFiles /\ kp.picked \in Nat
  BY <1>0, <1>3, RowTypes
<1>5. /\ longer \in Seq(Row) /\ Len(longer) = Len(kp.rows) + n
      /\ \A j \in 1..Len(kp.rows) : longer[j] = kp.rows[j]
      /\ \A j \in 1..n : longer[Len(kp.rows) + j] = [f |-> kp.picked + j, st |-> "queued"]
  <2>1. PICK more : more = [i \in 1..n |-> [f |-> kp.picked + i, st |-> "queued"]]
    OBVIOUS
  <2>2. ASSUME NEW i \in 1..n PROVE [f |-> kp.picked + i, st |-> "queued"] \in Row
    <3>1. kp.picked + i \in Files
      BY <1>0, <1>4, RowTypes DEF Files
    <3>. QED BY <3>1 DEF Row
  <2>3. more \in [1..n -> Row] /\ \A i \in 1..n : more[i] = [f |-> kp.picked + i, st |-> "queued"]
    BY <2>1, <2>2
  <2>4. longer = kp.rows \o more /\ kp.rows \in Seq(Row)
    BY <1>0, <1>2, <2>1, RowTypes
  <2>. QED BY <1>4, <2>3, <2>4, RowsAdded
<1>6. PICK s : s = [kp EXCEPT !.picked = p, !.rows = longer]
  OBVIOUS
<1>7. /\ s \in KbShape /\ s.loading = kp.loading /\ s.docs = kp.docs /\ s.muddled = kp.muddled
      /\ s.rows = longer /\ s.picked = p /\ s.sent = kp.sent
      /\ s.shifted = kp.shifted /\ s.doubled = kp.doubled
  BY <1>0, <1>4, <1>5, <1>6 DEF KbShape
<1>8. kp' = s /\ UNCHANGED <<page, kpReqs, kpLoops, docStore>>
  BY <1>1, <1>2, <1>3, <1>6 DEF AddFiles, OnKb, On
<1>9. KbTyped' /\ DocsInv'
  <2>1. D' = D
    BY <1>8 DEF D
  <2>. QED BY <1>7, <1>8, <2>1, DocsViewKept DEF KbInv, KbTyped, DocsView
<1>10. RowsInv'
  <2>1. SUFFICES ASSUME ~kp.shifted PROVE RowsInv'
    BY <1>7, <1>8 DEF RowsInv
  <2>2. PICK m \in Nat : m = Len(kp.rows)
    BY <1>0, RowTypes
  <2>3. /\ Len(longer) = m + n /\ \A j \in 1..m : longer[j] = kp.rows[j]
        /\ \A j \in 1..n : longer[m + j].f = kp.picked + j /\ longer[m + j].st = "queued"
    <3>1. Len(longer) = m + n /\ \A j \in 1..m : longer[j] = kp.rows[j]
      BY <1>5, <2>2
    <3>2. ASSUME NEW j \in 1..n
          PROVE  longer[m + j].f = kp.picked + j /\ longer[m + j].st = "queued"
      <4>1. longer[m + j] = [f |-> kp.picked + j, st |-> "queued"]
        BY <1>5, <2>2
      <4>. QED BY <4>1
    <3>. QED BY <3>1, <3>2
  <2>4. \A j \in 1..(m + n) : j \in 1..m \/ \E k \in 1..n : j = m + k
    <3>1. ASSUME NEW j \in 1..(m + n), j > m PROVE j - m \in 1..n /\ j = m + (j - m)
      BY <1>4, <3>1
    <3>. QED BY <1>4, <3>1
  <2>5. \A i \in 1..m : /\ kp.rows[i].f \in Nat /\ kp.rows[i].f <= kp.picked
                        /\ \A j \in 1..m : kp.rows[i].f = kp.rows[j].f => i = j
                        /\ kp.rows[i].st = "done" => kp.sent[kp.rows[i].f] > 0
    BY <1>0, <2>1, <2>2, RowTypes DEF KbInv, RowsInv, RowFits, Files
  <2>6. ASSUME NEW i \in 1..(m + n)
        PROVE  /\ longer[i].f <= p
               /\ \A j \in 1..(m + n) : longer[i].f = longer[j].f => i = j
               /\ longer[i].st = "done" => kp.sent[longer[i].f] > 0
    <3>1. CASE i \in 1..m
      <4>1. longer[i].f <= p /\ (longer[i].st = "done" => kp.sent[longer[i].f] > 0)
        <5>1. longer[i] = kp.rows[i]
          BY <2>3, <3>1
        <5>2. kp.rows[i].f \in Nat /\ kp.rows[i].f <= kp.picked
          BY <2>5, <3>1
        <5>3. longer[i].f <= p
          BY <1>3, <1>4, <5>1, <5>2
        <5>. QED BY <2>5, <3>1, <5>1, <5>3
      <4>2. ASSUME NEW j \in 1..(m + n), longer[i].f = longer[j].f PROVE i = j
        <5>1. CASE j \in 1..m
          BY <2>3, <2>5, <3>1, <4>2, <5>1
        <5>2. ASSUME NEW k \in 1..n, j = m + k PROVE FALSE
          <6>1. longer[j].f = kp.picked + k /\ longer[i].f <= kp.picked /\ longer[i].f \in Nat
            BY <2>3, <2>5, <3>1, <5>2
          <6>. QED BY <1>4, <4>2, <6>1
        <5>. QED BY <2>4, <5>1, <5>2
      <4>. QED BY <4>1, <4>2
    <3>2. ASSUME NEW k \in 1..n, i = m + k
          PROVE  /\ longer[i].f <= p
                 /\ \A j \in 1..(m + n) : longer[i].f = longer[j].f => i = j
                 /\ longer[i].st = "done" => kp.sent[longer[i].f] > 0
      <4>1. longer[i].f = kp.picked + k /\ longer[i].st = "queued"
        BY <2>3, <3>2
      <4>2. longer[i].f <= p
        BY <1>3, <1>4, <4>1
      <4>3. ASSUME NEW j \in 1..(m + n), longer[i].f = longer[j].f PROVE i = j
        <5>1. CASE j \in 1..m
          <6>1. longer[j].f <= kp.picked /\ longer[j].f \in Nat
            BY <2>3, <2>5, <5>1
          <6>. QED BY <1>4, <4>1, <4>3, <6>1
        <5>2. ASSUME NEW h \in 1..n, j = m + h PROVE i = j
          <6>1. longer[j].f = kp.picked + h
            BY <2>3, <5>2
          <6>2. k = h
            BY <1>4, <4>1, <4>3, <6>1
          <6>. QED BY <3>2, <5>2, <6>2
        <5>. QED BY <2>4, <5>1, <5>2
      <4>. QED BY <4>1, <4>2, <4>3
    <3>. QED BY <2>4, <3>1, <3>2
  <2>7. ASSUME NEW l \in kpLoops PROVE LoopFits(l)'
    <3>1. LoopFits(l) /\ Len(l.plan) \in Nat
      BY <1>0, <2>1, RowTypes DEF KbInv, RowsInv
    <3>2. Len(l.plan) <= m /\ \A j \in 1..Len(l.plan) : l.plan[j].f = kp.rows[j].f
      BY <2>2, <3>1 DEF LoopFits
    <3>3. Len(l.plan) <= m + n
      BY <1>4, <3>1, <3>2
    <3>4. \A j \in 1..Len(l.plan) : l.plan[j].f = longer[j].f
      BY <2>3, <3>1, <3>2
    <3>. QED BY <1>7, <1>8, <2>3, <3>1, <3>3, <3>4 DEF LoopFits
  <2>8. ASSUME ~kp.doubled PROVE SentOnce'
    <3>0. SentOnce
      BY <2>1, <2>8 DEF KbInv, RowsInv
    <3>1. \A f \in Files : kp.sent[f] <= 1 /\ (f > p => kp.sent[f] = 0)
      BY <1>3, <1>4, <3>0 DEF SentOnce, Files
    <3>2. ASSUME NEW i \in 1..(m + n), longer[i].st = "queued" PROVE kp.sent[longer[i].f] = 0
      <4>1. CASE i \in 1..m
        BY <2>2, <2>3, <3>0, <3>2, <4>1 DEF SentOnce
      <4>2. ASSUME NEW k \in 1..n, i = m + k PROVE kp.sent[longer[i].f] = 0
        <5>1. longer[i].f = kp.picked + k
          BY <2>3, <4>2
        <5>2. kp.picked + k \in Files /\ kp.picked + k > kp.picked
          BY <1>0, <1>4, RowTypes DEF Files
        <5>. QED BY <3>0, <5>1, <5>2 DEF SentOnce
      <4>. QED BY <2>4, <4>1, <4>2
    <3>3. ASSUME NEW l \in kpLoops PROVE Pending(l)'
      <4>1. Pending(l) /\ LoopFits(l) /\ l.i \in 1..Len(l.plan) /\ Len(l.plan) \in Nat
        BY <1>0, <2>1, <3>0, RowTypes DEF KbInv, RowsInv, SentOnce
      <4>2. \A j \in 1..Len(l.plan) : longer[j] = kp.rows[j]
        BY <2>2, <2>3, <4>1 DEF LoopFits
      <4>. QED BY <1>7, <1>8, <4>1, <4>2 DEF Pending
    <3>. QED BY <1>7, <1>8, <2>3, <3>0, <3>1, <3>2, <3>3 DEF SentOnce
  <2>9. \A i \in 1..Len(longer) : RowFits(i)'
    BY <1>7, <1>8, <2>3, <2>6 DEF RowFits
  <2>. QED BY <1>7, <1>8, <2>7, <2>8, <2>9 DEF RowsInv
<1>. QED BY <1>9, <1>10 DEF KbInv

LEMMA RemoveKept ==
  ASSUME KbInv, NEW i \in 1..MaxFiles, RemoveFile(i)
  PROVE  KbInv'
<1>0. KbTyped /\ kp \in KbShape /\ i \in 1..Len(kp.rows) /\ kp.shifted \in BOOLEAN
  BY RowTypes, KbFields DEF KbInv, KbTyped, RemoveFile
<1>1. PICK left : left = SubSeq(kp.rows, 1, i - 1) \o SubSeq(kp.rows, i + 1, Len(kp.rows))
  OBVIOUS
<1>2. PICK b \in BOOLEAN : b = (kp.shifted \/ kpLoops # {})
  OBVIOUS
<1>3. /\ left \in Seq(Row) /\ Len(left) = Len(kp.rows) - 1
      /\ \A j \in 1..Len(left) : left[j] = IF j < i THEN kp.rows[j] ELSE kp.rows[j + 1]
  BY <1>0, <1>1, RowTypes, RowsRemoved
<1>4. PICK s : s = [kp EXCEPT !.rows = left, !.shifted = b]
  OBVIOUS
<1>5. /\ s \in KbShape /\ s.loading = kp.loading /\ s.docs = kp.docs /\ s.muddled = kp.muddled
      /\ s.rows = left /\ s.picked = kp.picked /\ s.sent = kp.sent
      /\ s.shifted = b /\ s.doubled = kp.doubled
  BY <1>0, <1>3, <1>4 DEF KbShape
<1>6. kp' = s /\ UNCHANGED <<page, kpReqs, kpLoops, docStore>>
  BY <1>1, <1>2, <1>4 DEF RemoveFile, OnKb, On
<1>7. KbTyped' /\ DocsInv'
  <2>1. D' = D
    BY <1>6 DEF D
  <2>. QED BY <1>5, <1>6, <2>1, DocsViewKept DEF KbInv, KbTyped, DocsView
<1>8. RowsInv'
  <2>1. SUFFICES ASSUME ~b PROVE RowsInv'
    BY <1>5, <1>6 DEF RowsInv
  <2>2. ~kp.shifted /\ kpLoops = {} /\ \A j \in 1..Len(kp.rows) : RowFits(j)
    BY <1>2, <2>1 DEF KbInv, RowsInv
  <2>3. PICK m \in Nat : m = Len(kp.rows)
    BY <1>0, RowTypes
  <2>4. PICK old : old = [j \in 1..(m - 1) |-> IF j < i THEN j ELSE j + 1]
    OBVIOUS
  <2>5. \A j \in 1..(m - 1) : left[j] = kp.rows[old[j]] /\ old[j] \in 1..m
    BY <1>0, <1>3, <2>3, <2>4
  <2>6. \A j, k \in 1..(m - 1) : old[j] = old[k] => j = k
    BY <1>0, <2>3, <2>4
  <2>7. \A j \in 1..(m - 1) :
           /\ left[j].f <= kp.picked
           /\ \A k \in 1..(m - 1) : left[j].f = left[k].f => j = k
           /\ left[j].st = "done" => kp.sent[left[j].f] > 0
    <3>1. ASSUME NEW j \in 1..(m - 1)
          PROVE  left[j].f <= kp.picked /\ (left[j].st = "done" => kp.sent[left[j].f] > 0)
      <4>1. RowFits(old[j]) /\ left[j] = kp.rows[old[j]]
        BY <2>2, <2>3, <2>5
      <4>. QED BY <4>1 DEF RowFits
    <3>2. ASSUME NEW j \in 1..(m - 1), NEW k \in 1..(m - 1), left[j].f = left[k].f PROVE j = k
      <4>1. RowFits(old[j]) /\ left[j] = kp.rows[old[j]] /\ left[k] = kp.rows[old[k]]
            /\ old[k] \in 1..Len(kp.rows)
        BY <2>2, <2>3, <2>5
      <4>2. old[j] = old[k]
        BY <3>2, <4>1 DEF RowFits
      <4>. QED BY <2>6, <4>2
    <3>. QED BY <3>1, <3>2
  <2>8. \A j \in 1..Len(left) : RowFits(j)'
    BY <1>3, <1>5, <1>6, <2>3, <2>7 DEF RowFits
  <2>9. ~kp.doubled => SentOnce'
    <3>1. SUFFICES ASSUME ~kp.doubled PROVE SentOnce'
      OBVIOUS
    <3>2. SentOnce
      BY <2>2, <3>1 DEF KbInv, RowsInv
    <3>3. \A j \in 1..(m - 1) : left[j].st = "queued" => kp.sent[left[j].f] = 0
      BY <2>3, <2>5, <3>2 DEF SentOnce
    <3>. QED BY <1>3, <1>5, <1>6, <2>2, <2>3, <3>2, <3>3 DEF SentOnce
  <2>. QED BY <1>5, <1>6, <2>2, <2>8, <2>9 DEF RowsInv
<1>. QED BY <1>7, <1>8 DEF KbInv

(***************************************************************************)
(* The loops of uploads.                                                   *)
(***************************************************************************)
LEMMA NextAhead ==
  ASSUME NEW plan \in Seq(Row), NEW i \in Nat, Ahead(plan, i) # {}
  PROVE  /\ First(Ahead(plan, i)) \in 1..Len(plan) /\ First(Ahead(plan, i)) > i
         /\ plan[First(Ahead(plan, i))].st = "queued"
<1>1. DOMAIN plan = 1..Len(plan) /\ Len(plan) \in Nat
  BY LenProperties
<1>2. PICK S : S = Ahead(plan, i)
  OBVIOUS
<1>3. S \subseteq {j \in 1..Len(plan) : j > i /\ plan[j].st = "queued"}
  BY <1>1, <1>2 DEF Ahead
<1>4. S \in SUBSET Nat /\ S # {}
  BY <1>1, <1>2, <1>3
<1>5. First(S) \in S
  BY <1>4, FirstIsOne
<1>. QED BY <1>2, <1>3, <1>5

\* Marking a row moves no file.
LEMMA MarkingFits ==
  ASSUME KbTyped, NEW rows \in Seq(Row), Len(rows) = Len(kp.rows), kp'.rows = rows,
         kp'.picked = kp.picked, kp'.sent = kp.sent,
         \A k \in 1..Len(rows) : /\ rows[k].f = kp.rows[k].f /\ RowFits(k)
                                 /\ rows[k].st = "done" => kp.sent[rows[k].f] > 0
  PROVE  /\ \A k \in 1..Len(kp'.rows) : RowFits(k)'
         /\ \A l \in kpLoops : LoopFits(l) => LoopFits(l)'
<1>1. ASSUME NEW k \in 1..Len(rows) PROVE RowFits(k)'
  BY <1>1 DEF RowFits
<1>2. ASSUME NEW l \in kpLoops, LoopFits(l) PROVE LoopFits(l)'
  <2>1. Len(l.plan) \in Nat /\ Len(rows) \in Nat
    BY RowTypes
  <2>2. \A j \in 1..Len(l.plan) : l.plan[j].f = rows[j].f
    BY <1>2, <2>1 DEF LoopFits
  <2>. QED BY <1>2, <2>2 DEF LoopFits
<1>. QED BY <1>1, <1>2

LEMMA StartKept ==
  ASSUME KbInv, ShellTypeOK', StartIngestion
  PROVE  KbInv'
<1>0. KbTyped /\ kp \in KbShape /\ ops' \in Ids /\ kp.doubled \in BOOLEAN
  BY KbFields DEF KbInv, KbTyped, ShellTypeOK
<1>1. PICK i : i = First(Ahead(kp.rows, 0))
  OBVIOUS
<1>2. i \in 1..Len(kp.rows) /\ kp.rows[i].st = "queued" /\ kp.rows \in Seq(Row) /\ i \in Nat
      /\ Len(kp.rows) \in Nat
  BY <1>0, <1>1, NextAhead, RowTypes DEF StartIngestion
<1>3. PICK rows : rows = Marked(kp.rows, i, "uploading")
  OBVIOUS
<1>4. /\ rows \in Seq(Row) /\ Len(rows) = Len(kp.rows) /\ rows[i].st = "uploading"
      /\ \A j \in 1..Len(rows) : rows[j].f = kp.rows[j].f /\ (j # i => rows[j] = kp.rows[j])
  BY <1>2, <1>3, RowUploading
<1>5. PICK b \in BOOLEAN : b = (kp.doubled \/ kpLoops # {})
  OBVIOUS
<1>6. PICK s : s = [kp EXCEPT !.rows = rows, !.muddled = TRUE, !.doubled = b]
  OBVIOUS
<1>7. /\ s \in KbShape /\ s.muddled /\ s.rows = rows /\ s.picked = kp.picked /\ s.sent = kp.sent
      /\ s.shifted = kp.shifted /\ s.doubled = b
  BY <1>0, <1>4, <1>6 DEF KbShape
<1>8. PICK q : q = [id |-> ops', plan |-> kp.rows, i |-> i, st |-> "asked"]
  OBVIOUS
<1>9. q \in Loop /\ q.plan = kp.rows /\ q.i = i /\ q.st = "asked"
  BY <1>0, <1>2, <1>8 DEF Loop
<1>10. kp' = s /\ kpLoops' = kpLoops \cup {q} /\ UNCHANGED <<page, kpReqs, docStore>>
  BY <1>1, <1>3, <1>5, <1>6, <1>8 DEF StartIngestion, OnKb, On
<1>11. KbTyped' /\ DocsInv'
  BY <1>0, <1>2, <1>7, <1>9, <1>10 DEF KbTyped, DocsInv
<1>12. RowsInv'
  <2>1. SUFFICES ASSUME ~kp.shifted PROVE RowsInv'
    BY <1>7, <1>10 DEF RowsInv
  <2>2. \A k \in 1..Len(rows) : RowFits(k) /\ (rows[k].st = "done" => kp.sent[rows[k].f] > 0)
    BY <1>4, <2>1 DEF KbInv, RowsInv, RowFits
  <2>3. /\ \A k \in 1..Len(kp'.rows) : RowFits(k)'
        /\ \A l \in kpLoops : LoopFits(l) => LoopFits(l)'
    BY <1>0, <1>4, <1>7, <1>10, <2>2, MarkingFits
  <2>4. LoopFits(q)'
    BY <1>2, <1>4, <1>7, <1>9, <1>10 DEF LoopFits
  <2>5. ASSUME ~b PROVE SentOnce'
    <3>1. SentOnce /\ kpLoops' = {q}
      BY <1>5, <1>10, <2>1, <2>5 DEF KbInv, RowsInv
    <3>2. \A k \in 1..Len(rows) : rows[k].st = "queued" => kp.sent[rows[k].f] = 0
      BY <1>4, <3>1 DEF SentOnce
    <3>3. kp.sent[kp.rows[i].f] = 0
      BY <1>2, <3>1 DEF SentOnce
    <3>4. \A j \in 1..Len(kp.rows) : j > i /\ kp.rows[j].st = "queued" => rows[j].st = "queued"
      BY <1>2, <1>4
    <3>5. Pending(q)'
      BY <1>4, <1>7, <1>9, <1>10, <3>3, <3>4 DEF Pending
    <3>. QED BY <1>7, <1>10, <3>1, <3>2, <3>5 DEF SentOnce
  <2>. QED BY <1>7, <1>10, <2>1, <2>3, <2>4, <2>5 DEF KbInv, RowsInv
<1>. QED BY <1>11, <1>12 DEF KbInv

\* The row of an upload that came back; then the next one, or none.
LEMMA StepKept ==
  ASSUME KbInv, NEW l \in kpLoops, IngestionStep(l)
  PROVE  KbInv'
<1>0. /\ KbTyped /\ kp \in KbShape /\ l \in Loop /\ l.st \in {"ok", "failed"} /\ page = "kb"
      /\ UNCHANGED <<page, docStore>> /\ kp.rows \in Seq(Row) /\ l.plan \in Seq(Row)
      /\ l.i \in 1..Len(l.plan) /\ Len(l.plan) \in Nat /\ Len(kp.rows) \in Nat /\ l.i \in Nat
      /\ l.id \in Ids /\ kp.muddled
  <2>1. KbTyped /\ kp \in KbShape /\ l \in Loop /\ l.st # "asked" /\ page = "kb"
        /\ UNCHANGED <<page, docStore>>
    BY DEF KbInv, KbTyped, IngestionStep, Unattended, shellVars
  <2>2. kp.muddled
    BY <2>1 DEF KbInv, DocsInv
  <2>3. l.st \in {"ok", "failed"}
    BY <2>1 DEF Loop
  <2>. QED BY <2>1, <2>2, <2>3, RowTypes
<1>1. PICK st \in {"done", "error"} : st = IF l.st = "ok" THEN "done" ELSE "error"
  OBVIOUS
<1>2. PICK rows : rows = Marked(kp.rows, l.i, st)
  OBVIOUS
<1>3. /\ rows \in Seq(Row) /\ Len(rows) = Len(kp.rows)
      /\ \A j \in 1..Len(rows) : rows[j].f = kp.rows[j].f /\ (j # l.i => rows[j] = kp.rows[j])
      /\ l.i \in 1..Len(kp.rows) => rows[l.i].st = st
  BY <1>0, <1>2, RowsMarked DEF RowStatus
<1>4. ASSUME ~kp.shifted
      PROVE  /\ l.i \in 1..Len(kp.rows) /\ LoopFits(l)
             /\ \A k \in 1..Len(rows) : RowFits(k) /\ (rows[k].st = "done" => kp.sent[rows[k].f] > 0)
  <2>1. LoopFits(l) /\ \A k \in 1..Len(rows) : RowFits(k)
    BY <1>3, <1>4 DEF KbInv, RowsInv
  <2>2. l.i \in 1..Len(kp.rows) /\ l.plan[l.i].f = kp.rows[l.i].f
    BY <1>0, <2>1 DEF LoopFits
  <2>3. ASSUME NEW k \in 1..Len(rows), rows[k].st = "done" PROVE kp.sent[rows[k].f] > 0
    <3>1. CASE k = l.i
      <4>1. l.st = "ok"
        BY <1>0, <1>1, <1>3, <2>2, <2>3, <3>1
      <4>. QED BY <1>3, <2>1, <2>2, <3>1, <4>1 DEF LoopFits
    <3>2. CASE k # l.i
      BY <1>3, <2>1, <2>3, <3>2 DEF RowFits
    <3>. QED BY <3>1, <3>2
  <2>. QED BY <2>1, <2>2, <2>3
<1>5. CASE Ahead(l.plan, l.i) # {}
  <2>1. PICK j : j = First(Ahead(l.plan, l.i))
    OBVIOUS
  <2>2. j \in 1..Len(l.plan) /\ j > l.i /\ l.plan[j].st = "queued" /\ j \in Nat
    BY <1>0, <1>5, <2>1, NextAhead
  <2>3. PICK more : more = Marked(rows, j, "uploading")
    OBVIOUS
  <2>4. /\ more \in Seq(Row) /\ Len(more) = Len(kp.rows)
        /\ \A k \in 1..Len(more) : more[k].f = rows[k].f /\ (k # j => more[k] = rows[k])
        /\ j \in 1..Len(kp.rows) => more[j].st = "uploading"
    BY <1>3, <2>2, <2>3, RowsMarked DEF RowStatus
  <2>5. PICK s : s = [kp EXCEPT !.rows = more]
    OBVIOUS
  <2>6. /\ s \in KbShape /\ s.muddled /\ s.rows = more /\ s.picked = kp.picked /\ s.sent = kp.sent
        /\ s.shifted = kp.shifted /\ s.doubled = kp.doubled
    BY <1>0, <2>4, <2>5 DEF KbShape
  <2>7. PICK q : q = [l EXCEPT !.i = j, !.st = "asked"]
    OBVIOUS
  <2>8. q \in Loop /\ q.plan = l.plan /\ q.i = j /\ q.st = "asked"
    BY <1>0, <2>2, <2>7 DEF Loop
  <2>9. kp' = s /\ kpLoops' = (kpLoops \ {l}) \cup {q} /\ kpReqs' = kpReqs
    BY <1>1, <1>2, <1>5, <2>1, <2>3, <2>5, <2>7 DEF IngestionStep
  <2>10. KbTyped' /\ DocsInv'
    BY <1>0, <2>2, <2>6, <2>8, <2>9 DEF KbTyped, DocsInv
  <2>11. RowsInv'
    <3>1. SUFFICES ASSUME ~kp.shifted PROVE RowsInv'
      BY <2>6, <2>9 DEF RowsInv
    <3>2. j \in 1..Len(kp.rows)
      BY <1>0, <1>4, <2>2, <3>1 DEF LoopFits
    <3>3. ASSUME NEW k \in 1..Len(more)
          PROVE  /\ more[k].f = kp.rows[k].f /\ RowFits(k)
                 /\ more[k].st = "done" => kp.sent[more[k].f] > 0
      <4>1. more[k].f = rows[k].f /\ rows[k].f = kp.rows[k].f /\ RowFits(k)
        BY <1>3, <1>4, <2>4, <3>1
      <4>2. more[k].st = "done" => more[k] = rows[k]
        BY <2>4, <3>2
      <4>. QED BY <1>3, <1>4, <2>4, <3>1, <4>1, <4>2
    <3>4. /\ \A k \in 1..Len(kp'.rows) : RowFits(k)'
          /\ \A m \in kpLoops : LoopFits(m) => LoopFits(m)'
      BY <1>0, <2>4, <2>6, <2>9, <3>3, MarkingFits
    <3>5. LoopFits(q)'
      <4>1. LoopFits(l)'
        BY <1>4, <3>1, <3>4
      <4>. QED BY <2>8, <4>1 DEF LoopFits
    <3>6. ASSUME ~kp.doubled PROVE SentOnce'
      <4>1. SentOnce /\ Pending(l)
        BY <3>1, <3>6 DEF KbInv, RowsInv, SentOnce
      <4>2. kpLoops' = {q}
        BY <2>9, <4>1 DEF SentOnce
      <4>3. ASSUME NEW k \in 1..Len(more), more[k].st = "queued"
            PROVE  kp.rows[k].st = "queued" /\ kp.sent[more[k].f] = 0
        <5>1. k # j /\ k # l.i
          BY <1>1, <1>3, <1>4, <2>4, <3>1, <3>2, <4>3
        <5>2. more[k] = kp.rows[k]
          BY <1>3, <2>4, <5>1
        <5>. QED BY <2>4, <4>1, <4>3, <5>2 DEF SentOnce
      <4>4. kp.rows[j].st = "queued" /\ l.plan[j].f = kp.rows[j].f
        BY <1>4, <2>2, <3>1, <4>1 DEF Pending, LoopFits
      <4>5. kp.sent[l.plan[j].f] = 0
        BY <3>2, <4>1, <4>4 DEF SentOnce
      <4>6. ASSUME NEW k \in 1..Len(l.plan), k > j, l.plan[k].st = "queued" PROVE more[k].st = "queued"
        <5>1. k > l.i /\ k # j /\ k # l.i /\ k \in 1..Len(kp.rows)
          BY <1>0, <1>4, <2>2, <3>1, <4>6 DEF LoopFits
        <5>2. more[k] = kp.rows[k]
          BY <1>3, <2>4, <5>1
        <5>. QED BY <4>1, <4>6, <5>1, <5>2 DEF Pending
      <4>7. Pending(q)'
        BY <2>4, <2>6, <2>8, <2>9, <3>2, <4>5, <4>6 DEF Pending
      <4>. QED BY <2>6, <2>9, <4>1, <4>2, <4>3, <4>7 DEF SentOnce
    <3>. QED BY <2>6, <2>9, <3>1, <3>4, <3>5, <3>6 DEF KbInv, RowsInv
  <2>. QED BY <2>10, <2>11 DEF KbInv
<1>6. CASE Ahead(l.plan, l.i) = {}
  <2>1. PICK b \in BOOLEAN : b = (kpLoops \ {l} # {} \/ \E r \in kpReqs : r.k \in RefreshKinds \cup {"remove"})
    OBVIOUS
  <2>2. PICK s : s = [kp EXCEPT !.rows = rows, !.muddled = b]
    OBVIOUS
  <2>3. /\ s \in KbShape /\ s.muddled = b /\ s.rows = rows /\ s.picked = kp.picked
        /\ s.sent = kp.sent /\ s.shifted = kp.shifted /\ s.doubled = kp.doubled
    BY <1>0, <1>3, <2>2 DEF KbShape
  <2>4. PICK q : q = KpReqNew("tab", l.id)
    OBVIOUS
  <2>5. q \in KpReq /\ q.k = "tab" /\ q.st = "asked" /\ q.k \in RefreshKinds
    <3>1. "tab" \in RefreshKinds
      BY DEF RefreshKinds
    <3>. QED BY <1>0, <2>4, <3>1, NewKpReq DEF AskKinds
  <2>6. kp' = s /\ kpLoops' = kpLoops \ {l} /\ kpReqs' = kpReqs \cup {q}
    BY <1>1, <1>2, <1>6, <2>1, <2>2, <2>4 DEF IngestionStep
  <2>7. KbTyped'
    BY <1>0, <2>3, <2>5, <2>6 DEF KbTyped
  <2>8. DocsInv'
    <3>1. SUFFICES ASSUME ~b PROVE DocsInv'
      BY <2>3, <2>6 DEF DocsInv
    <3>2. D = {} /\ kpLoops' = {}
      BY <2>1, <2>6, <3>1 DEF D
    <3>3. D' = {q}
      BY <2>5, <2>6, <3>2 DEF D
    <3>. QED BY <2>5, <3>2, <3>3 DEF DocsInv
  <2>9. RowsInv'
    <3>1. SUFFICES ASSUME ~kp.shifted PROVE RowsInv'
      BY <2>3, <2>6 DEF RowsInv
    <3>2. /\ \A k \in 1..Len(kp'.rows) : RowFits(k)'
          /\ \A m \in kpLoops : LoopFits(m) => LoopFits(m)'
      BY <1>0, <1>3, <1>4, <2>3, <2>6, <3>1, MarkingFits
    <3>3. ASSUME ~kp.doubled PROVE SentOnce'
      <4>1. SentOnce
        BY <3>1, <3>3 DEF KbInv, RowsInv
      <4>2. kpLoops' = {}
        BY <2>6, <4>1 DEF SentOnce
      <4>3. \A k \in 1..Len(rows) : rows[k].st = "queued" => kp.sent[rows[k].f] = 0
        BY <1>1, <1>3, <1>4, <3>1, <4>1 DEF SentOnce
      <4>. QED BY <2>3, <2>6, <4>1, <4>2, <4>3 DEF SentOnce
    <3>. QED BY <2>3, <2>6, <3>1, <3>2, <3>3 DEF KbInv, RowsInv
  <2>. QED BY <2>7, <2>8, <2>9 DEF KbInv
<1>. QED BY <1>5, <1>6

LEMMA UploadKept ==
  ASSUME KbInv, NEW l \in kpLoops, page = "kb", UploadServed(l)
  PROVE  KbInv'
<1>0. /\ KbTyped /\ kp \in KbShape /\ l \in Loop /\ l.st = "asked" /\ kp.muddled
      /\ UNCHANGED <<page, kpReqs>> /\ docStore \in Docs /\ kp.sent \in [Files -> Nat]
      /\ l.plan[l.i].f \in Files /\ l.i \in 1..Len(l.plan) /\ Len(l.plan) \in Nat
  <2>1. KbTyped /\ kp \in KbShape /\ l \in Loop /\ l.st = "asked" /\ UNCHANGED <<page, kpReqs>>
        /\ docStore \in Docs
    BY DEF KbInv, KbTyped, UploadServed, Unattended, shellVars
  <2>2. kp.muddled
    BY DEF KbInv, DocsInv
  <2>. QED BY <2>1, <2>2, RowTypes
<1>1. PICK f \in Files : f = l.plan[l.i].f
  BY <1>0
<1>2. ASSUME NEW st \in {"ok", "failed"}, NEW q, q = [l EXCEPT !.st = st]
      PROVE  q \in Loop /\ q.plan = l.plan /\ q.i = l.i /\ q.st = st
  BY <1>0, <1>2 DEF Loop
<1>3. CASE kpLoops' = (kpLoops \ {l}) \cup {[l EXCEPT !.st = "failed"]} /\ UNCHANGED <<docStore, kp>>
  <2>1. PICK q : q = [l EXCEPT !.st = "failed"]
    OBVIOUS
  <2>2. q \in Loop /\ q.plan = l.plan /\ q.i = l.i /\ q.st = "failed"
    BY <1>2, <2>1
  <2>3. kpLoops' = (kpLoops \ {l}) \cup {q} /\ UNCHANGED <<docStore, kp>>
    BY <1>3, <2>1
  <2>4. KbTyped' /\ DocsInv'
    BY <1>0, <2>2, <2>3 DEF KbTyped, DocsInv
  <2>5. RowsInv'
    <3>1. SUFFICES ASSUME ~kp.shifted PROVE RowsInv'
      BY <2>3 DEF RowsInv
    <3>2. \A k \in 1..Len(kp.rows) : RowFits(k)'
      BY <2>3, <3>1 DEF KbInv, RowsInv, RowFits
    <3>3. \A m \in kpLoops' : LoopFits(m)'
      BY <2>2, <2>3, <3>1 DEF KbInv, RowsInv, LoopFits
    <3>4. ASSUME ~kp.doubled PROVE SentOnce'
      <4>1. SentOnce /\ Pending(l)
        BY <3>1, <3>4 DEF KbInv, RowsInv, SentOnce
      <4>2. kpLoops' = {q}
        BY <2>3, <4>1 DEF SentOnce
      <4>3. Pending(q)'
        BY <2>2, <2>3, <4>1 DEF Pending
      <4>. QED BY <2>3, <4>1, <4>2, <4>3 DEF SentOnce
    <3>. QED BY <2>3, <3>2, <3>3, <3>4 DEF RowsInv
  <2>. QED BY <2>4, <2>5 DEF KbInv
<1>4. CASE /\ docStore' = [docStore EXCEPT ![f] = "processing"]
           /\ kp' = [kp EXCEPT !.sent[f] = @ + 1]
           /\ kpLoops' = (kpLoops \ {l}) \cup {[l EXCEPT !.st = "ok"]}
  <2>1. PICK q : q = [l EXCEPT !.st = "ok"]
    OBVIOUS
  <2>2. q \in Loop /\ q.plan = l.plan /\ q.i = l.i /\ q.st = "ok"
    BY <1>2, <2>1
  <2>3. PICK sent : sent = [kp.sent EXCEPT ![f] = @ + 1]
    OBVIOUS
  <2>4. /\ sent \in [Files -> Nat] /\ sent[f] = kp.sent[f] + 1 /\ sent[f] > 0
        /\ \A g \in Files : sent[g] >= kp.sent[g] /\ (g # f => sent[g] = kp.sent[g])
    BY <1>0, <2>3
  <2>5. PICK s : s = [kp EXCEPT !.sent = sent]
    OBVIOUS
  <2>6. /\ s \in KbShape /\ s.muddled /\ s.rows = kp.rows /\ s.picked = kp.picked /\ s.sent = sent
        /\ s.shifted = kp.shifted /\ s.doubled = kp.doubled
    BY <1>0, <2>4, <2>5 DEF KbShape
  <2>7. kp' = s /\ kpLoops' = (kpLoops \ {l}) \cup {q}
    BY <1>4, <2>1, <2>3, <2>5
  <2>8. docStore' \in Docs
    BY <1>0, <1>4, DocKinds DEF Docs, DocStatus
  <2>9. KbTyped' /\ DocsInv'
    BY <1>0, <2>2, <2>6, <2>7, <2>8 DEF KbTyped, DocsInv
  <2>10. RowsInv'
    <3>1. SUFFICES ASSUME ~kp.shifted PROVE RowsInv'
      BY <2>6, <2>7 DEF RowsInv
    <3>2. \A k \in 1..Len(kp.rows) : RowFits(k) /\ kp.rows[k].f \in Files
      BY <1>0, <3>1, RowTypes DEF KbInv, RowsInv
    <3>3. ASSUME NEW k \in 1..Len(kp.rows) PROVE RowFits(k)'
      <4>1. RowFits(k) /\ kp.rows[k].f \in Files /\ kp.sent[kp.rows[k].f] \in Nat
        BY <1>0, <3>2
      <4>2. kp.rows[k].st = "done" => sent[kp.rows[k].f] > 0
        BY <2>4, <4>1 DEF RowFits
      <4>. QED BY <2>6, <2>7, <4>1, <4>2 DEF RowFits
    <3>4. ASSUME NEW m \in kpLoops \ {l} PROVE LoopFits(m)'
      <4>1. LoopFits(m) /\ m.plan[m.i].f \in Files
        BY <1>0, <3>1, RowTypes DEF KbInv, RowsInv
      <4>2. m.st = "ok" => sent[m.plan[m.i].f] > 0
        BY <1>0, <2>4, <4>1 DEF LoopFits
      <4>. QED BY <2>6, <2>7, <4>1, <4>2 DEF LoopFits
    <3>5. LoopFits(l)
      BY <3>1 DEF KbInv, RowsInv
    <3>6. LoopFits(q)'
      BY <1>1, <2>2, <2>4, <2>6, <2>7, <3>5 DEF LoopFits
    <3>7. ASSUME ~kp.doubled PROVE SentOnce'
      <4>1. SentOnce /\ Pending(l)
        BY <3>1, <3>7 DEF KbInv, RowsInv, SentOnce
      <4>2. kpLoops' = {q}
        BY <2>7, <4>1 DEF SentOnce
      <4>3. l.i \in 1..Len(kp.rows) /\ kp.rows[l.i].f = f
        BY <1>0, <1>1, <3>5, RowTypes DEF LoopFits
      <4>4. kp.sent[f] = 0 /\ sent[f] = 1 /\ f <= kp.picked
        BY <1>0, <1>1, <2>4, <3>2, <4>1, <4>3 DEF Pending, RowFits
      <4>5. ASSUME NEW g \in Files PROVE sent[g] <= 1 /\ (g > kp.picked => sent[g] = 0)
        <5>1. CASE g = f
          <6>1. f \in Nat /\ kp.picked \in Nat
            BY <1>0, RowTypes DEF Files
          <6>. QED BY <4>4, <5>1, <6>1
        <5>2. CASE g # f
          BY <2>4, <4>1, <5>2 DEF SentOnce
        <5>. QED BY <5>1, <5>2
      <4>6. ASSUME NEW k \in 1..Len(kp.rows), kp.rows[k].st = "queued" PROVE sent[kp.rows[k].f] = 0
        <5>1. k # l.i
          BY <4>1, <4>6 DEF Pending
        <5>2. kp.rows[k].f # f
          BY <3>2, <4>3, <5>1 DEF RowFits
        <5>. QED BY <2>4, <3>2, <4>1, <4>6, <5>2 DEF SentOnce
      <4>7. Pending(q)'
        BY <2>2, <2>6, <2>7, <4>1 DEF Pending
      <4>. QED BY <2>6, <2>7, <4>2, <4>5, <4>6, <4>7 DEF SentOnce
    <3>. QED BY <2>6, <2>7, <3>3, <3>4, <3>6, <3>7 DEF RowsInv
  <2>. QED BY <2>9, <2>10 DEF KbInv
<1>. QED BY <1>1, <1>3, <1>4 DEF UploadServed

(***************************************************************************)
(* The whole dashboard.                                                    *)
(***************************************************************************)
LEMMA KbMoves ==
  ASSUME ShellTypeOK, [Next]_vars
  PROVE  \/ UNCHANGED <<page, kpVars>>
         \/ Stays /\ KbStep
         \/ KbSwitch
<1>1. CASE Stays /\ OtherPageStep
  BY <1>1 DEF OtherPageStep, Stays
<1>2. CASE Stays /\ (ProviderStep \/ ChatPageStep \/ AgentPageStep \/ HandleSubmit \/ LoginFails)
  BY <1>2 DEF ProviderStep, OfProvider, ChatPageStep, AgentPageStep, HandleSubmit, LoginFails,
     otherFamily, Stays
<1>3. CASE UNCHANGED vars \/ Rings \/ \E r \in agReqs : Cleared(r)
  BY <1>3 DEF Rings, Cleared, vars, otherFamily, Stays, shellVars
<1>4. CASE \E done \in SUBSET agReqs : Moves(done)
  BY <1>4 DEF Moves, PagesSwitch
<1>. QED BY <1>1, <1>2, <1>3, <1>4, StepCases

LEMMA KbFrameKept ==
  ASSUME KbInv, UNCHANGED kpVars, page' = page \/ page' # "kb"
  PROVE  KbInv'
<1>1. UNCHANGED <<kp, kpReqs, kpLoops, docStore>>
  BY DEF kpVars
<1>2. KbTyped'
  BY <1>1 DEF KbInv, KbTyped
<1>3. RowsInv'
  BY <1>1, RowsViewKept DEF KbInv, RowsView
<1>4. DocsInv'
  <2>1. CASE page' = page
    <3>1. D' = D
      BY <1>1 DEF D
    <3>. QED BY <1>1, <2>1, <3>1, DocsViewKept DEF KbInv, DocsView
  <2>2. CASE page' # "kb"
    BY <2>2 DEF DocsInv
  <2>. QED BY <2>1, <2>2
<1>. QED BY <1>2, <1>3, <1>4 DEF KbInv

JustMounted ==
    /\ kp = KbClosed /\ kpLoops = {} /\ kpReqs \in {{}, KbMounted}
    /\ docStore \in Docs /\ 0 \in Ids

LEMMA KbOpened == JustMounted => KbInv
<1>. SUFFICES ASSUME JustMounted PROVE KbInv
  OBVIOUS
<1>1. PICK q : q = KpReqNew("first", 0)
  OBVIOUS
<1>2. q \in KpReq /\ q.k = "first" /\ q.st = "asked"
  BY <1>1, NewKpReq DEF JustMounted, AskKinds
<1>3. /\ kp \in KbShape /\ kp.loading /\ kp.rows = <<>> /\ ~kp.shifted /\ ~kp.doubled
      /\ kp.sent = [f \in Files |-> 0] /\ kp.picked = 0
  <2>1. NoDocs \in Docs /\ 0 \in MaybeDocument /\ 0 \in 0..MaxFiles
    BY KnowledgeAssumption DEF NoDocs, Docs, DocStatus, MaybeDocument
  <2>2. [f \in Files |-> 0] \in [Files -> Nat]
    OBVIOUS
  <2>. QED BY <2>1, <2>2 DEF JustMounted, KbClosed, KbShape
<1>4. kpReqs \subseteq {q}
  BY <1>1 DEF JustMounted, KbMounted
<1>5. KbTyped
  BY <1>2, <1>3, <1>4 DEF JustMounted, KbTyped
<1>6. DocsInv
  <2>1. \A r \in D : r = q
    BY <1>4 DEF D
  <2>. QED BY <1>2, <1>3, <2>1 DEF JustMounted, DocsInv
<1>7. RowsInv
  <2>1. Len(kp.rows) = 0
    BY <1>3
  <2>2. \A i \in 1..Len(kp.rows) : FALSE
    BY <2>1
  <2>3. \A f \in Files : kp.sent[f] = 0
    BY <1>3
  <2>. QED BY <2>2, <2>3 DEF JustMounted, RowsInv, SentOnce
<1>. QED BY <1>5, <1>6, <1>7 DEF KbInv

LEMMA KbReopened == (JustMounted => KbInv)'
BY KbOpened, PTL

LEMMA DocsMounted ==
  ASSUME NEW p
  PROVE  DocsAt(p) \subseteq Docs
<1>1. NoDocs \in Docs
  BY DEF NoDocs, Docs, DocStatus
<1>2. ASSUME NEW s \in DocStatus PROVE [NoDocs EXCEPT ![Old] = s] \in Docs
  BY <1>1 DEF Docs
<1>. QED BY <1>2 DEF DocsAt, DocStatus

LEMMA KbMoved ==
  ASSUME KbInv, KbSwitch
  PROVE  KbInv'
<1>1. CASE Leaving("kb") \/ Entering("kb") \/ Reloading
  <2>1. 0 \in Ids
    BY ShellAssumption DEF Ids
  <2>2. kp' = KbClosed /\ kpLoops' = {} /\ kpReqs' \in {{}, KbMounted} /\ docStore' \in Docs
    BY <1>1, DocsMounted DEF KbSwitch
  <2>3. JustMounted'
    BY <2>1, <2>2 DEF JustMounted, KbClosed, KbMounted, KpReqNew
  <2>. QED BY <2>3, KbReopened
<1>2. CASE ~(Leaving("kb") \/ Entering("kb") \/ Reloading)
  <2>1. UNCHANGED kpVars /\ (page' = page \/ page' # "kb")
    BY <1>2 DEF KbSwitch, Entering
  <2>. QED BY <2>1, KbFrameKept
<1>. QED BY <1>1, <1>2

LEMMA KbStepKept ==
  ASSUME KbInv, ShellTypeOK, ShellTypeOK', Stays, KbStep
  PROVE  KbInv'
<1>1. CASE KbPageStep
  <2>1. CASE \/ \E t \in {"documents", "upload", "retrieval", "settings"} : KbTab(t)
             \/ RunRetrieval \/ HandleSettingsSave
             \/ \E r \in kpReqs : RetrievalReturns(r) \/ SettingsSaved(r)
    BY <2>1, KbFormsKept
  <2>2. CASE PollRefresh \/ AddFiles \/ StartIngestion
    BY <2>2, PollKept, AddKept, StartKept
  <2>3. CASE \E i \in 1..MaxFiles : RemoveFile(i)
    BY <2>3, RemoveKept
  <2>4. CASE \E f \in Documents : HandleDeleteDocument(f) \/ DocumentIngested(f)
    BY <2>4, DocumentDeletion, IngestedKept
  <2>5. CASE \E l \in kpLoops : UploadServed(l) \/ IngestionStep(l)
    BY <1>1, <2>5, UploadKept, StepKept DEF KbPageStep
  <2>6. CASE \E r \in kpReqs : KpAnswered(r) \/ KpFailed(r)
    BY <2>6, KpServed
  <2>7. CASE \E r \in kpReqs :
                \/ FirstRefresh(r) \/ PollRefreshed(r) \/ IngestionEnds(r) \/ DeletionRefreshed(r)
    BY <2>7, RefreshesKept
  <2>8. CASE \E r \in kpReqs : DocumentDeleted(r)
    BY <2>8, DeletionAnswered
  <2>. QED BY <1>1, <2>1, <2>2, <2>3, <2>4, <2>5, <2>6, <2>7, <2>8 DEF KbPageStep
<1>2. CASE DeleteKb \/ CreateKb \/ \E o \in kbOut : KbAnswered(o)
  BY <1>2, KbFrameKept DEF DeleteKb, CreateKb, KbAnswered, Stays
<1>. QED BY <1>1, <1>2 DEF KbStep

\* The inductive invariant of the page of a knowledge base.
THEOREM KbSafe == Spec => []KbInv
<1>1. Init => KbInv
  <2>. SUFFICES ASSUME Init PROVE KbInv
    OBVIOUS
  <2>1. 0 \in Ids
    BY ShellAssumption DEF Ids
  <2>2. kp = KbClosed /\ kpLoops = {} /\ kpReqs \in {{}, KbMounted} /\ docStore \in Docs
    BY DocsMounted DEF Init, KbInit
  <2>. QED BY <2>1, <2>2, KbOpened DEF JustMounted
<1>2. ShellTypeOK /\ ShellTypeOK' /\ KbInv /\ [Next]_vars => KbInv'
  BY KbMoves, KbFrameKept, KbStepKept, KbMoved
<1>. QED BY <1>1, <1>2, ShellTyped, PTL DEF Spec

\* A row of the upload list that says done was accepted by the server, and no
\* file was sent twice, unless the list shifted under a loop or it was doubled.
THEOREM UploadsTruthful == Spec => []UploadRowsTruthful
<1>1. ASSUME KbInv PROVE UploadRowsTruthful
  <2>1. KbTyped
    BY <1>1 DEF KbInv
  <2>2. DOMAIN kp.rows = 1..Len(kp.rows)
    BY <2>1, RowTypes, LenProperties
  <2>3. ~kp.shifted => \A i \in 1..Len(kp.rows) : RowFits(i)
    BY <1>1 DEF KbInv, RowsInv
  <2>4. ~kp.shifted /\ ~kp.doubled => \A f \in Files : kp.sent[f] <= 1
    BY <1>1 DEF KbInv, RowsInv, SentOnce
  <2>. QED BY <2>2, <2>3, <2>4 DEF UploadRowsTruthful, RowFits
<1>. QED BY <1>1, KbSafe, PTL

\* The documents shown at rest are those of the server.
THEOREM DocumentsSettle == Spec => []KbListSettles
<1>1. ASSUME KbInv PROVE KbListSettles
  <2>1. ASSUME page = "kb", ~kp.loading, ~DocsUnderWay, ~kp.muddled
        PROVE  Fits(kp.docs)
    <3>1. D = {}
      BY <2>1 DEF D, DocsUnderWay
    <3>. QED BY <1>1, <2>1, <3>1 DEF KbInv, DocsInv
  <2>. QED BY <2>1 DEF KbListSettles, Fits, FitsAt
<1>. QED BY <1>1, KbSafe, PTL

(***************************************************************************)
(* How often a file is accepted.  KbInv bounds kp.sent only while no row   *)
(* was removed and ingestion not started twice; in general a file may be   *)
(* sent by every loop that copied it, once by each, and a loop costs a     *)
(* click.  So the uploads accepted, and the loops that may still send the  *)
(* file, are never more than the clicks: SendInv.                          *)
(***************************************************************************)
Apart(rows) == \A i, j \in 1..Len(rows) : rows[i].f = rows[j].f => i = j

ToSend(l, f) == \/ l.st = "asked" /\ l.plan[l.i].f = f
                \/ \E j \in Ahead(l.plan, l.i) : l.plan[j].f = f
Senders(f) == {l \in kpLoops : ToSend(l, f)}

SendInv ==
    /\ Apart(kp.rows)
    /\ \A i \in 1..Len(kp.rows) : kp.rows[i].f <= kp.picked
    /\ \A l \in kpLoops : Apart(l.plan)
    /\ IsFiniteSet(kpLoops)
    /\ \A f \in Files : kp.sent[f] + Cardinality(Senders(f)) <= ops

SendView == <<kp.rows, kp.picked, kp.sent, kpLoops>>

LEMMA SendViewKept ==
  ASSUME KbTyped, SendInv, UNCHANGED SendView, ops \in Nat, ops' \in {ops, ops + 1}
  PROVE  SendInv'
<1>1. kp'.rows = kp.rows /\ kp'.picked = kp.picked /\ kp'.sent = kp.sent /\ kpLoops' = kpLoops
  BY DEF SendView
<1>2. ASSUME NEW f \in Files PROVE kp'.sent[f] + Cardinality(Senders(f)') <= ops'
  <2>1. Senders(f)' = Senders(f)
    BY <1>1 DEF Senders, ToSend
  <2>2. IsFiniteSet(Senders(f))
    BY FS_Subset DEF SendInv, Senders
  <2>3. Cardinality(Senders(f)) \in Nat /\ kp.sent[f] \in Nat
    BY <2>2, FS_CardinalityType, RowTypes
  <2>. QED BY <1>1, <2>1, <2>3 DEF SendInv
<1>. QED BY <1>1, <1>2 DEF SendInv, Apart

LEMMA Successor ==
  ASSUME NEW S, IsFiniteSet(S), NEW l \in S, NEW m, NEW T, T \subseteq (S \ {l}) \cup {m}
  PROVE  IsFiniteSet(T) /\ Cardinality(T) \in Nat /\ Cardinality(T) <= Cardinality(S)
<1>1. IsFiniteSet(S \ {l}) /\ Cardinality(S \ {l}) = Cardinality(S) - 1 /\ Cardinality(S) \in Nat
  BY FS_RemoveElement, FS_CardinalityType
<1>2. PICK R : R = S \ {l}
  OBVIOUS
<1>3. IsFiniteSet(R \cup {m}) /\ Cardinality(R \cup {m}) <= Cardinality(S)
  <2>1. IsFiniteSet(R) /\ Cardinality(R) = Cardinality(S) - 1 /\ Cardinality(S) \in Nat
    BY <1>1, <1>2
  <2>2. /\ IsFiniteSet(R \cup {m})
        /\ Cardinality(R \cup {m}) = IF m \in R THEN Cardinality(R) ELSE Cardinality(R) + 1
    BY <2>1, FS_AddElement
  <2>. QED BY <2>1, <2>2
<1>4. PICK more : more = R \cup {m}
  OBVIOUS
<1>5. IsFiniteSet(T) /\ Cardinality(T) <= Cardinality(more) /\ Cardinality(more) \in Nat
  BY <1>2, <1>3, <1>4, FS_Subset, FS_CardinalityType
<1>. QED BY <1>1, <1>3, <1>4, <1>5, FS_CardinalityType

\* A loop that goes on to send nothing its predecessor would not have sent.
LEMMA LoopGoesOn ==
  ASSUME SendInv, NEW l \in kpLoops, NEW m, NEW f \in Files,
         kpLoops' = (kpLoops \ {l}) \cup {m}, ToSend(m, f) => ToSend(l, f)
  PROVE  Cardinality(Senders(f)') \in Nat /\ Cardinality(Senders(f)') <= Cardinality(Senders(f))
<1>1. IsFiniteSet(Senders(f)) /\ Cardinality(Senders(f)) \in Nat
  BY FS_Subset, FS_CardinalityType DEF SendInv, Senders
<1>2. \A n : n \in Senders(f)' <=> n \in (kpLoops \ {l}) \cup {m} /\ ToSend(n, f)
  BY DEF Senders, ToSend
<1>3. CASE ToSend(l, f)
  <2>1. l \in Senders(f) /\ Senders(f)' \subseteq (Senders(f) \ {l}) \cup {m}
    BY <1>2, <1>3 DEF Senders
  <2>. QED BY <1>1, <2>1, Successor
<1>4. CASE ~ToSend(l, f)
  <2>1. Senders(f)' \subseteq Senders(f)
    BY <1>2, <1>4 DEF Senders
  <2>. QED BY <1>1, <2>1, FS_Subset, FS_CardinalityType
<1>. QED BY <1>3, <1>4

\* A loop that has sent the file, or ends.
LEMMA LoopIsThrough ==
  ASSUME SendInv, NEW l \in kpLoops, NEW f \in Files, ToSend(l, f), NEW m, ~ToSend(m, f),
         kpLoops' = (kpLoops \ {l}) \cup {m}
  PROVE  Cardinality(Senders(f)') \in Nat /\ Cardinality(Senders(f)') <= Cardinality(Senders(f)) - 1
<1>1. IsFiniteSet(Senders(f)) /\ l \in Senders(f)
  BY FS_Subset DEF SendInv, Senders
<1>2. \A n : n \in Senders(f)' <=> n \in (kpLoops \ {l}) \cup {m} /\ ToSend(n, f)
  BY DEF Senders, ToSend
<1>3. Senders(f)' \subseteq Senders(f) \ {l}
  BY <1>2 DEF Senders
<1>4. IsFiniteSet(Senders(f) \ {l}) /\ Cardinality(Senders(f) \ {l}) = Cardinality(Senders(f)) - 1
  BY <1>1, FS_RemoveElement
<1>. QED BY <1>3, <1>4, FS_Subset, FS_CardinalityType

LEMMA FilesSent ==
  ASSUME KbTyped, SendInv, NEW f \in Files
  PROVE  /\ IsFiniteSet(Senders(f)) /\ Cardinality(Senders(f)) \in Nat
         /\ kp.sent[f] \in Nat /\ kp.sent[f] + Cardinality(Senders(f)) <= ops
BY FS_Subset, FS_CardinalityType, RowTypes DEF SendInv, Senders

LEMMA AddSends ==
  ASSUME KbTyped, SendInv, ops \in Nat, AddFiles
  PROVE  SendInv'
<1>0. kp \in KbShape
  BY DEF KbTyped
<1>1. PICK n \in 1..(MaxFiles - kp.picked) :
         kp' = [kp EXCEPT !.picked = @ + n,
                          !.rows = @ \o [i \in 1..n |-> [f |-> kp.picked + i, st |-> "queued"]]]
  BY DEF AddFiles
<1>2. PICK more : more = [i \in 1..n |-> [f |-> kp.picked + i, st |-> "queued"]]
  OBVIOUS
<1>3. PICK longer : longer = kp.rows \o more
  OBVIOUS
<1>4. n \in Nat /\ n >= 1 /\ kp.picked + n <= MaxFiles /\ kp.picked \in Nat
  BY RowTypes
<1>5. ASSUME NEW i \in 1..n PROVE [f |-> kp.picked + i, st |-> "queued"] \in Row
  <2>1. kp.picked + i \in Files
    BY <1>4, RowTypes DEF Files
  <2>. QED BY <2>1 DEF Row
<1>6. more \in [1..n -> Row] /\ \A i \in 1..n : more[i] = [f |-> kp.picked + i, st |-> "queued"]
  BY <1>2, <1>5
<1>7. PICK m \in Nat : m = Len(kp.rows)
  BY RowTypes
<1>8. /\ longer \in Seq(Row) /\ Len(longer) = m + n
      /\ \A j \in 1..m : longer[j] = kp.rows[j]
      /\ \A j \in 1..n : longer[m + j] = more[j]
  BY <1>3, <1>4, <1>6, <1>7, RowsAdded, RowTypes
<1>9. \A j \in 1..n : longer[m + j].f = kp.picked + j
  <2>1. ASSUME NEW j \in 1..n PROVE longer[m + j].f = kp.picked + j
    <3>1. longer[m + j] = [f |-> kp.picked + j, st |-> "queued"]
      BY <1>6, <1>8
    <3>. QED BY <3>1
  <2>. QED BY <2>1
<1>10. \A j \in 1..m : kp.rows[j].f \in Nat /\ longer[j].f = kp.rows[j].f /\ kp.rows[j].f <= kp.picked
  BY <1>7, <1>8, RowTypes DEF SendInv, Files
<1>11. \A j \in 1..(m + n) : j \in 1..m \/ \E k \in 1..n : j = m + k
  <2>1. ASSUME NEW j \in 1..(m + n), j > m PROVE j - m \in 1..n /\ j = m + (j - m)
    BY <1>4, <2>1
  <2>. QED BY <1>4, <2>1
<1>12. ASSUME NEW i \in 1..(m + n) PROVE longer[i].f <= kp.picked + n
  BY <1>4, <1>9, <1>10, <1>11
<1>13. ASSUME NEW i \in 1..(m + n), NEW j \in 1..(m + n), longer[i].f = longer[j].f PROVE i = j
  <2>1. CASE i \in 1..m /\ j \in 1..m
    BY <1>7, <1>10, <1>13, <2>1 DEF SendInv, Apart
  <2>2. ASSUME NEW k \in 1..n, i = m + k, j \in 1..m PROVE FALSE
    BY <1>4, <1>9, <1>10, <1>13, <2>2
  <2>3. ASSUME NEW k \in 1..n, j = m + k, i \in 1..m PROVE FALSE
    BY <1>4, <1>9, <1>10, <1>13, <2>3
  <2>4. ASSUME NEW k \in 1..n, NEW h \in 1..n, i = m + k, j = m + h PROVE i = j
    <3>1. kp.picked + k = kp.picked + h
      BY <1>9, <1>13, <2>4
    <3>. QED BY <1>4, <2>4, <3>1
  <2>. QED BY <1>11, <2>1, <2>2, <2>3, <2>4
<1>14. kp'.rows = longer /\ kp'.picked = kp.picked + n /\ kp'.sent = kp.sent
  BY <1>0, <1>1, <1>2, <1>3 DEF KbShape
<1>15. kpLoops' = kpLoops /\ ops' = ops + 1
  BY DEF AddFiles, OnKb, Click
<1>16. ASSUME NEW f \in Files PROVE kp'.sent[f] + Cardinality(Senders(f)') <= ops'
  <2>1. Senders(f)' = Senders(f)
    BY <1>15 DEF Senders, ToSend
  <2>. QED BY <1>14, <1>15, <2>1, FilesSent
<1>17. Apart(longer)
  BY <1>8, <1>13 DEF Apart
<1>18. Apart(kp.rows)'
  BY <1>14, <1>17 DEF Apart
<1>. QED BY <1>8, <1>12, <1>14, <1>15, <1>16, <1>18 DEF SendInv, Apart

LEMMA RemoveSends ==
  ASSUME KbTyped, SendInv, ops \in Nat, NEW i \in 1..MaxFiles, RemoveFile(i)
  PROVE  SendInv'
<1>0. kp \in KbShape /\ i \in 1..Len(kp.rows)
  BY RowTypes DEF KbTyped, RemoveFile
<1>1. PICK left : left = SubSeq(kp.rows, 1, i - 1) \o SubSeq(kp.rows, i + 1, Len(kp.rows))
  OBVIOUS
<1>2. PICK m \in Nat : m = Len(kp.rows)
  BY RowTypes
<1>3. /\ left \in Seq(Row) /\ Len(left) = m - 1 /\ i \in 1..m
      /\ \A j \in 1..(m - 1) : left[j] = IF j < i THEN kp.rows[j] ELSE kp.rows[j + 1]
  <2>1. /\ left \in Seq(Row) /\ Len(left) = Len(kp.rows) - 1
        /\ \A j \in 1..Len(left) : left[j] = IF j < i THEN kp.rows[j] ELSE kp.rows[j + 1]
    BY <1>0, <1>1, RowTypes, RowsRemoved
  <2>. QED BY <1>0, <1>2, <2>1
<1>4. PICK old : old = [j \in 1..(m - 1) |-> IF j < i THEN j ELSE j + 1]
  OBVIOUS
<1>5. \A j \in 1..(m - 1) : left[j] = kp.rows[old[j]] /\ old[j] \in 1..m
  BY <1>3, <1>4
<1>6. \A j, k \in 1..(m - 1) : old[j] = old[k] => j = k
  BY <1>3, <1>4
<1>7. Apart(left) /\ \A j \in 1..Len(left) : left[j].f <= kp.picked
  <2>1. ASSUME NEW j \in 1..(m - 1), NEW k \in 1..(m - 1), left[j].f = left[k].f PROVE j = k
    <3>1. /\ kp.rows[old[j]].f = kp.rows[old[k]].f
          /\ old[j] \in 1..Len(kp.rows) /\ old[k] \in 1..Len(kp.rows)
      BY <1>2, <1>5, <2>1
    <3>2. old[j] = old[k]
      BY <3>1 DEF SendInv, Apart
    <3>. QED BY <1>6, <3>2
  <2>2. Apart(left)
    BY <1>3, <2>1 DEF Apart
  <2>3. ASSUME NEW j \in 1..(m - 1) PROVE left[j].f <= kp.picked
    <3>1. left[j] = kp.rows[old[j]] /\ old[j] \in 1..Len(kp.rows)
      BY <1>2, <1>5
    <3>. QED BY <3>1 DEF SendInv
  <2>. QED BY <1>3, <2>2, <2>3
<1>8. kp'.rows = left /\ kp'.picked = kp.picked /\ kp'.sent = kp.sent
  BY <1>0, <1>1 DEF RemoveFile, KbShape
<1>9. kpLoops' = kpLoops /\ ops' = ops + 1
  BY DEF RemoveFile, OnKb, Click
<1>10. ASSUME NEW f \in Files PROVE kp'.sent[f] + Cardinality(Senders(f)') <= ops'
  <2>1. Senders(f)' = Senders(f)
    BY <1>9 DEF Senders, ToSend
  <2>. QED BY <1>8, <1>9, <2>1, FilesSent
<1>11. Apart(kp.rows)'
  BY <1>7, <1>8 DEF Apart
<1>. QED BY <1>7, <1>8, <1>9, <1>10, <1>11 DEF SendInv, Apart

LEMMA StartSends ==
  ASSUME KbTyped, SendInv, ops \in Nat, StartIngestion
  PROVE  SendInv'
<1>0. kp \in KbShape /\ kp.rows \in Seq(Row) /\ 0 \in Nat
  BY RowTypes DEF KbTyped
<1>1. PICK i : i = First(Ahead(kp.rows, 0))
  OBVIOUS
<1>2. i \in 1..Len(kp.rows)
  BY <1>0, <1>1, NextAhead DEF StartIngestion
<1>3. PICK rows : rows = Marked(kp.rows, i, "uploading")
  OBVIOUS
<1>4. Len(rows) = Len(kp.rows) /\ \A j \in 1..Len(rows) : rows[j].f = kp.rows[j].f
  BY <1>0, <1>2, <1>3, RowUploading
<1>5. PICK q : q = [id |-> ops', plan |-> kp.rows, i |-> i, st |-> "asked"]
  OBVIOUS
<1>6. kp'.rows = rows /\ kp'.picked = kp.picked /\ kp'.sent = kp.sent
  BY <1>0, <1>1, <1>3 DEF StartIngestion, KbShape
<1>7. kpLoops' = kpLoops \cup {q} /\ ops' = ops + 1 /\ q.plan = kp.rows
  BY <1>1, <1>5 DEF StartIngestion, OnKb, Click
<1>8. ASSUME NEW f \in Files PROVE kp'.sent[f] + Cardinality(Senders(f)') <= ops'
  <2>1. Senders(f)' \subseteq Senders(f) \cup {q}
    BY <1>7 DEF Senders, ToSend
  <2>2. /\ IsFiniteSet(Senders(f) \cup {q})
        /\ Cardinality(Senders(f) \cup {q}) \in Nat
        /\ Cardinality(Senders(f) \cup {q}) <= Cardinality(Senders(f)) + 1
    <3>1. IsFiniteSet(Senders(f)) /\ Cardinality(Senders(f)) \in Nat
      BY FilesSent
    <3>2. /\ IsFiniteSet(Senders(f) \cup {q})
          /\ Cardinality(Senders(f) \cup {q}) \in {Cardinality(Senders(f)), Cardinality(Senders(f)) + 1}
      BY <3>1, FS_AddElement
    <3>. QED BY <3>1, <3>2
  <2>3. /\ Cardinality(Senders(f)') \in Nat
        /\ Cardinality(Senders(f)') <= Cardinality(Senders(f) \cup {q})
    BY <2>1, <2>2, FS_Subset, FS_CardinalityType
  <2>. QED BY <1>6, <1>7, <2>2, <2>3, FilesSent
<1>9. Apart(rows) /\ Apart(kp.rows)
  BY <1>4 DEF SendInv, Apart
<1>10. \A l \in kpLoops' : Apart(l.plan)
  BY <1>7, <1>9 DEF SendInv
<1>11. IsFiniteSet(kpLoops')
  BY <1>7, FS_AddElement DEF SendInv
<1>12. Apart(kp.rows)' /\ \A l \in kpLoops' : Apart(l.plan)'
  BY <1>6, <1>9, <1>10 DEF Apart
<1>13. \A j \in 1..Len(kp'.rows) : kp'.rows[j].f <= kp'.picked
  BY <1>4, <1>6 DEF SendInv
<1>. QED BY <1>8, <1>11, <1>12, <1>13 DEF SendInv

\* What remains ahead of a later row was ahead before.
LEMMA AheadShrinks ==
  ASSUME NEW l \in Loop, l.i \in 1..Len(l.plan), NEW m, m.plan = l.plan,
         (m.i = l.i /\ m.st # "asked") \/ m.i \in Ahead(l.plan, l.i), NEW f, ToSend(m, f)
  PROVE  \E j \in Ahead(l.plan, l.i) : l.plan[j].f = f
<1>1. l.plan \in Seq(Row) /\ DOMAIN l.plan = 1..Len(l.plan) /\ Len(l.plan) \in Nat
  BY LenProperties DEF Loop
<1>2. \A j \in Ahead(l.plan, m.i) : j \in Ahead(l.plan, l.i)
  BY <1>1 DEF Ahead
<1>. QED BY <1>2 DEF ToSend, Ahead

LEMMA UploadSends ==
  ASSUME KbTyped, SendInv, ops \in Nat, NEW l \in kpLoops, UploadServed(l)
  PROVE  SendInv'
<1>0. /\ kp \in KbShape /\ l \in Loop /\ l.st = "asked" /\ ops' = ops /\ Apart(l.plan)
      /\ l.plan[l.i].f \in Files /\ l.i \in 1..Len(l.plan) /\ Len(l.plan) \in Nat
      /\ l.plan \in Seq(Row) /\ kp.sent \in [Files -> Nat]
  BY RowTypes DEF KbTyped, SendInv, UploadServed, Unattended, shellVars
<1>1. PICK g \in Files : g = l.plan[l.i].f
  BY <1>0
<1>2. PICK st \in {"ok", "failed"} :
         /\ kpLoops' = (kpLoops \ {l}) \cup {[l EXCEPT !.st = st]}
         /\ st = "ok" => kp' = [kp EXCEPT !.sent[g] = @ + 1]
         /\ st = "failed" => kp' = kp
  BY <1>1 DEF UploadServed
<1>3. PICK m : m = [l EXCEPT !.st = st]
  OBVIOUS
<1>4. m.plan = l.plan /\ m.i = l.i /\ m.st = st
  BY <1>0, <1>3 DEF Loop
<1>5. kpLoops' = (kpLoops \ {l}) \cup {m}
  BY <1>2, <1>3
<1>6. /\ kp'.rows = kp.rows /\ kp'.picked = kp.picked
      /\ \A f \in Files : kp'.sent[f] = IF st = "ok" /\ f = g THEN kp.sent[f] + 1 ELSE kp.sent[f]
  <2>1. CASE st = "failed"
    BY <1>2, <2>1
  <2>2. CASE st = "ok"
    <3>1. PICK sent : sent = [kp.sent EXCEPT ![g] = @ + 1]
      OBVIOUS
    <3>2. kp' = [kp EXCEPT !.sent = sent]
      BY <1>2, <2>2, <3>1
    <3>3. kp'.rows = kp.rows /\ kp'.picked = kp.picked /\ kp'.sent = sent
      BY <1>0, <3>2 DEF KbShape
    <3>. QED BY <1>0, <2>2, <3>1, <3>3
  <2>. QED BY <2>1, <2>2
<1>7. ToSend(l, g)
  BY <1>0, <1>1 DEF ToSend
<1>8. \A f \in Files : ToSend(m, f) => ToSend(l, f)
  BY <1>0, <1>4, AheadShrinks DEF ToSend
<1>9. ~ToSend(m, g)
  <2>1. SUFFICES ASSUME ToSend(m, g) PROVE FALSE
    OBVIOUS
  <2>2. PICK j \in Ahead(l.plan, l.i) : l.plan[j].f = g
    BY <1>0, <1>4, <2>1, AheadShrinks
  <2>3. j \in 1..Len(l.plan) /\ j > l.i
    BY <1>0, LenProperties DEF Ahead
  <2>4. j = l.i
    BY <1>0, <1>1, <2>2, <2>3 DEF Apart
  <2>. QED BY <1>0, <2>3, <2>4
<1>10. ASSUME NEW f \in Files PROVE kp'.sent[f] + Cardinality(Senders(f)') <= ops'
  <2>1. CASE f = g
    <3>1. Cardinality(Senders(f)') \in Nat /\ Cardinality(Senders(f)') <= Cardinality(Senders(f)) - 1
      BY <1>5, <1>7, <1>9, <2>1, LoopIsThrough
    <3>2. kp'.sent[f] = kp.sent[f] \/ kp'.sent[f] = kp.sent[f] + 1
      BY <1>6
    <3>3. /\ Cardinality(Senders(f)) \in Nat /\ kp.sent[f] \in Nat
          /\ kp.sent[f] + Cardinality(Senders(f)) <= ops
      BY FilesSent
    <3>. QED BY <1>0, <3>1, <3>2, <3>3
  <2>2. CASE f # g
    <3>1. Cardinality(Senders(f)') \in Nat /\ Cardinality(Senders(f)') <= Cardinality(Senders(f))
      BY <1>5, <1>8, LoopGoesOn
    <3>2. kp'.sent[f] = kp.sent[f]
      BY <1>6, <2>2
    <3>. QED BY <1>0, <3>1, <3>2, FilesSent
  <2>. QED BY <2>1, <2>2
<1>11. IsFiniteSet(kpLoops') /\ \A n \in kpLoops' : Apart(n.plan)
  BY <1>0, <1>4, <1>5, FS_AddElement, FS_RemoveElement DEF SendInv
<1>12. \A n \in kpLoops' : Apart(n.plan)'
  BY <1>11 DEF Apart
<1>13. Apart(kp.rows)' /\ \A j \in 1..Len(kp'.rows) : kp'.rows[j].f <= kp'.picked
  BY <1>6 DEF SendInv, Apart
<1>. QED BY <1>10, <1>11, <1>12, <1>13 DEF SendInv

LEMMA StepSends ==
  ASSUME KbTyped, SendInv, ops \in Nat, NEW l \in kpLoops, IngestionStep(l)
  PROVE  SendInv'
<1>0. /\ kp \in KbShape /\ l \in Loop /\ l.st # "asked" /\ ops' = ops /\ Apart(l.plan)
      /\ l.i \in 1..Len(l.plan) /\ l.i \in Nat /\ l.plan \in Seq(Row) /\ kp.rows \in Seq(Row)
      /\ l.st \in {"ok", "failed"}
  BY RowTypes DEF KbTyped, SendInv, IngestionStep, Unattended, shellVars
<1>1. PICK rows : rows = Marked(kp.rows, l.i, IF l.st = "ok" THEN "done" ELSE "error")
  OBVIOUS
<1>2. /\ rows \in Seq(Row) /\ Len(rows) = Len(kp.rows)
      /\ \A k \in 1..Len(rows) : rows[k].f = kp.rows[k].f
  <2>1. PICK st \in {"done", "error"} : st = IF l.st = "ok" THEN "done" ELSE "error"
    OBVIOUS
  <2>2. rows = Marked(kp.rows, l.i, st)
    BY <1>1, <2>1
  <2>. QED BY <1>0, <2>2, RowsMarked DEF RowStatus
<1>3. ASSUME NEW more, Len(more) = Len(kp.rows), \A k \in 1..Len(more) : more[k].f = kp.rows[k].f,
             kp'.rows = more, kp'.picked = kp.picked, kp'.sent = kp.sent,
             IsFiniteSet(kpLoops'), \A n \in kpLoops' : Apart(n.plan),
             \A f \in Files : /\ Cardinality(Senders(f)') \in Nat
                              /\ Cardinality(Senders(f)') <= Cardinality(Senders(f))
      PROVE  SendInv'
  <2>1. Apart(more) /\ \A k \in 1..Len(more) : more[k].f <= kp.picked
    BY <1>3 DEF SendInv, Apart
  <2>2. Apart(kp.rows)' /\ (\A n \in kpLoops' : Apart(n.plan)')
    BY <1>3, <2>1 DEF Apart
  <2>3. ASSUME NEW f \in Files PROVE kp'.sent[f] + Cardinality(Senders(f)') <= ops'
    BY <1>0, <1>3, FilesSent
  <2>. QED BY <1>3, <2>1, <2>2, <2>3 DEF SendInv
<1>4. CASE Ahead(l.plan, l.i) # {}
  <2>1. PICK j : j = First(Ahead(l.plan, l.i))
    OBVIOUS
  <2>2. j \in 1..Len(l.plan) /\ j \in Ahead(l.plan, l.i) /\ j \in Nat
    <3>1. j \in 1..Len(l.plan) /\ j > l.i /\ l.plan[j].st = "queued"
      BY <1>0, <1>4, <2>1, NextAhead
    <3>2. DOMAIN l.plan = 1..Len(l.plan)
      BY <1>0, LenProperties
    <3>. QED BY <3>1, <3>2 DEF Ahead
  <2>3. PICK m : m = [l EXCEPT !.i = j, !.st = "asked"]
    OBVIOUS
  <2>4. m.plan = l.plan /\ m.i = j
    BY <1>0, <2>3 DEF Loop
  <2>5. PICK more : more = Marked(rows, j, "uploading")
    OBVIOUS
  <2>6. Len(more) = Len(kp.rows) /\ \A k \in 1..Len(more) : more[k].f = kp.rows[k].f
    BY <1>2, <2>2, <2>5, RowsMarked DEF RowStatus
  <2>7. /\ kp' = [kp EXCEPT !.rows = more] /\ kpLoops' = (kpLoops \ {l}) \cup {m}
    BY <1>1, <1>4, <2>1, <2>3, <2>5 DEF IngestionStep
  <2>8. kp'.rows = more /\ kp'.picked = kp.picked /\ kp'.sent = kp.sent
    BY <1>0, <2>7 DEF KbShape
  <2>9. \A f \in Files : ToSend(m, f) => ToSend(l, f)
    <3>1. ASSUME NEW f \in Files, ToSend(m, f) PROVE ToSend(l, f)
      <4>1. \E k \in Ahead(l.plan, l.i) : l.plan[k].f = f
        BY <1>0, <2>2, <2>4, <3>1, AheadShrinks
      <4>. QED BY <4>1 DEF ToSend
    <3>. QED BY <3>1
  <2>10. \A f \in Files : /\ Cardinality(Senders(f)') \in Nat
                          /\ Cardinality(Senders(f)') <= Cardinality(Senders(f))
    BY <2>7, <2>9, LoopGoesOn
  <2>11. IsFiniteSet(kpLoops') /\ \A n \in kpLoops' : Apart(n.plan)
    BY <1>0, <2>4, <2>7, FS_AddElement, FS_RemoveElement DEF SendInv
  <2>. QED BY <1>3, <2>6, <2>8, <2>10, <2>11
<1>5. CASE Ahead(l.plan, l.i) = {}
  <2>1. kp'.rows = rows /\ kp'.picked = kp.picked /\ kp'.sent = kp.sent /\ kpLoops' = kpLoops \ {l}
    BY <1>0, <1>1, <1>5 DEF IngestionStep, KbShape
  <2>2. IsFiniteSet(kpLoops') /\ \A n \in kpLoops' : Apart(n.plan)
    BY <2>1, FS_RemoveElement DEF SendInv
  <2>3. ASSUME NEW f \in Files
        PROVE  /\ Cardinality(Senders(f)') \in Nat
               /\ Cardinality(Senders(f)') <= Cardinality(Senders(f))
    <3>1. Senders(f)' \subseteq Senders(f)
      BY <2>1 DEF Senders, ToSend
    <3>. QED BY <3>1, FilesSent, FS_Subset, FS_CardinalityType
  <2>. QED BY <1>2, <1>3, <2>1, <2>2, <2>3
<1>. QED BY <1>4, <1>5

LEMMA SendOpened ==
  ASSUME JustMounted, ops \in Nat
  PROVE  SendInv
<1>1. kp.rows = <<>> /\ kpLoops = {} /\ kp.sent = [f \in Files |-> 0]
  BY DEF JustMounted, KbClosed
<1>2. Len(kp.rows) = 0
  BY <1>1
<1>3. Apart(kp.rows) /\ \A i \in 1..Len(kp.rows) : kp.rows[i].f <= kp.picked
  BY <1>2 DEF Apart
<1>4. ASSUME NEW f \in Files PROVE kp.sent[f] + Cardinality(Senders(f)) <= ops
  <2>1. Senders(f) = {}
    BY <1>1 DEF Senders
  <2>2. Cardinality(Senders(f)) = 0
    BY <2>1, FS_EmptySet
  <2>3. kp.sent[f] = 0
    BY <1>1
  <2>. QED BY <2>2, <2>3
<1>5. IsFiniteSet(kpLoops)
  BY <1>1, FS_EmptySet
<1>. QED BY <1>1, <1>3, <1>4, <1>5 DEF SendInv

LEMMA SendReopened == (JustMounted /\ ops \in Nat => SendInv)'
<1>1. JustMounted /\ ops \in Nat => SendInv
  BY SendOpened
<1>. QED BY <1>1, PTL

LEMMA SendStepKept ==
  ASSUME KbTyped, SendInv, ops \in Nat, ops' \in {ops, ops + 1}, KbStep
  PROVE  SendInv'
<1>0. kp \in KbShape
  BY DEF KbTyped
<1>1. ASSUME \/ UNCHANGED <<kp, kpLoops>>
             \/ /\ UNCHANGED kpLoops
                /\ UNCHANGED <<kp.rows, kp.picked, kp.sent>>
      PROVE  SendInv'
  BY <1>1, SendViewKept DEF SendView
<1>2. CASE KbPageStep
  <2>1. CASE AddFiles \/ StartIngestion
    BY <2>1, AddSends, StartSends
  <2>2. CASE \E i \in 1..MaxFiles : RemoveFile(i)
    BY <2>2, RemoveSends
  <2>3. CASE \E l \in kpLoops : UploadServed(l) \/ IngestionStep(l)
    BY <2>3, UploadSends, StepSends
  <2>4. CASE \/ \E t \in {"documents", "upload", "retrieval", "settings"} : KbTab(t)
             \/ PollRefresh \/ RunRetrieval \/ HandleSettingsSave
             \/ \E f \in Documents : HandleDeleteDocument(f) \/ DocumentIngested(f)
    BY <1>0, <1>1, <2>4 DEF KbTab, PollRefresh, RunRetrieval, HandleSettingsSave,
       HandleDeleteDocument, DocumentIngested, KbShape
  <2>5. CASE \E r \in kpReqs : KpAnswered(r) \/ KpFailed(r)
    BY <1>1, <2>5 DEF KpAnswered, KpFailed
  <2>6. CASE \E r \in kpReqs : RetrievalReturns(r) \/ SettingsSaved(r) \/ DocumentDeleted(r)
    BY <1>0, <1>1, <2>6 DEF RetrievalReturns, SettingsSaved, DocumentDeleted, KbShape
  <2>7. ASSUME NEW r \in kpReqs, FirstRefresh(r) \/ PollRefreshed(r) \/ IngestionEnds(r) \/ DeletionRefreshed(r)
        PROVE  SendInv'
    <3>1. PICK s : s = Refreshed(kp, r)
      OBVIOUS
    <3>2. r.got \in Docs /\ NoDocs \in Docs
      BY DEF KbTyped, KpReq, NoDocs, Docs, DocStatus
    <3>3. s \in KbShape /\ s.rows = kp.rows /\ s.picked = kp.picked /\ s.sent = kp.sent
      BY <1>0, <3>1, <3>2 DEF Refreshed, KbShape
    <3>4. kp' \in {s, [s EXCEPT !.loading = FALSE], [s EXCEPT !.tab = "documents"], [s EXCEPT !.deleting = 0]}
          /\ kpLoops' = kpLoops
      BY <2>7, <3>1 DEF FirstRefresh, PollRefreshed, IngestionEnds, DeletionRefreshed
    <3>5. UNCHANGED <<kp.rows, kp.picked, kp.sent>>
      BY <3>3, <3>4 DEF KbShape
    <3>. QED BY <1>1, <3>4, <3>5
  <2>. QED BY <1>2, <2>1, <2>2, <2>3, <2>4, <2>5, <2>6, <2>7 DEF KbPageStep
<1>3. CASE DeleteKb \/ CreateKb \/ \E o \in kbOut : KbAnswered(o)
  BY <1>1, <1>3 DEF DeleteKb, CreateKb, KbAnswered, kpVars
<1>. QED BY <1>2, <1>3 DEF KbStep

\* The clicks only grow.
LEMMA ClicksCount ==
  ASSUME ShellTypeOK, [Next]_vars
  PROVE  ops \in Nat /\ ops' \in {ops, ops + 1}
BY StepCases, ShellAssumption DEF Stays, Moves, Click, BellClick, Rings, Cleared, vars, shellVars, ShellTypeOK, Ids

\* No file is accepted more often than the operator clicked.
THEOREM SendsCounted == Spec => []SendInv
<1>1. Init => SendInv
  <2>. SUFFICES ASSUME Init PROVE SendInv
    OBVIOUS
  <2>1. 0 \in Ids /\ ops \in Nat
    BY ShellAssumption DEF Ids, Init, ShellInit
  <2>2. kp = KbClosed /\ kpLoops = {} /\ kpReqs \in {{}, KbMounted} /\ docStore \in Docs
    BY DocsMounted DEF Init, KbInit
  <2>. QED BY <2>1, <2>2, SendOpened DEF JustMounted
<1>2. ASSUME ShellTypeOK, ShellTypeOK', KbInv, KbInv', SendInv, [Next]_vars PROVE SendInv'
  <2>1. KbTyped /\ ops \in Nat /\ ops' \in Nat /\ ops' \in {ops, ops + 1}
    BY <1>2, ClicksCount DEF KbInv
  <2>2. CASE UNCHANGED <<page, kpVars>>
    BY <1>2, <2>1, <2>2, SendViewKept DEF SendView, kpVars
  <2>3. CASE KbStep
    BY <1>2, <2>1, <2>3, SendStepKept
  <2>4. CASE KbSwitch
    <3>1. CASE Leaving("kb") \/ Entering("kb") \/ Reloading
      <4>1. 0 \in Ids
        BY ShellAssumption DEF Ids
      <4>2. kp' = KbClosed /\ kpLoops' = {} /\ kpReqs' \in {{}, KbMounted} /\ docStore' \in Docs
        BY <2>4, <3>1, DocsMounted DEF KbSwitch
      <4>3. JustMounted'
        BY <4>1, <4>2 DEF JustMounted, KbClosed, KbMounted, KpReqNew
      <4>. QED BY <2>1, <4>3, SendReopened
    <3>2. CASE ~(Leaving("kb") \/ Entering("kb") \/ Reloading)
      BY <1>2, <2>1, <2>4, <3>2, SendViewKept DEF KbSwitch, SendView, kpVars
    <3>. QED BY <3>1, <3>2
  <2>. QED BY <1>2, <2>2, <2>3, <2>4, KbMoves
<1>3. ShellTypeOK /\ ShellTypeOK' /\ KbInv /\ KbInv' /\ SendInv /\ [Next]_vars => SendInv'
  BY <1>2
<1>. QED BY <1>1, <1>3, ShellTyped, KbSafe, PTL DEF Spec

(***************************************************************************)
(* The types of the whole dashboard: those of the pages, proved above and  *)
(* in ChatProofs and AgentProofs, and what is left of them, the forms and  *)
(* commands on bases and the login page.                                   *)
(***************************************************************************)
KbCommand == [st : {"delete", "create", "leave"}, to : {"kb", "kbs"}, own : BOOLEAN]
FormsTypeOK == kn \in BOOLEAN /\ kbOut \subseteq KbCommand /\ signing \in BOOLEAN

LEMMA FormsMoves ==
  ASSUME ShellTypeOK, [Next]_vars
  PROVE  /\ signing' \in {signing, TRUE, FALSE}
         /\ \/ UNCHANGED knVars
            \/ DeleteKb \/ CreateKb \/ \E o \in kbOut : KbAnswered(o)
            \/ KbSwitch
<1>1. CASE OtherPageStep
  BY <1>1 DEF OtherPageStep, KbStep
<1>2. CASE ProviderStep \/ ChatPageStep \/ AgentPageStep \/ HandleSubmit \/ LoginFails
  BY <1>2 DEF ProviderStep, OfProvider, ChatPageStep, AgentPageStep, HandleSubmit, LoginFails, otherFamily
<1>3. CASE UNCHANGED vars \/ Rings \/ \E r \in agReqs : Cleared(r)
  BY <1>3 DEF Rings, Cleared, vars, otherFamily
<1>4. CASE \E done \in SUBSET agReqs : Moves(done)
  BY <1>4 DEF Moves, PagesSwitch
<1>. QED BY <1>1, <1>2, <1>3, <1>4, StepCases

LEMMA FormsTyped == Spec => []FormsTypeOK
<1>1. Init => FormsTypeOK
  BY DEF Init, KbInit, FormsTypeOK
<1>2. ASSUME ShellTypeOK, FormsTypeOK, [Next]_vars PROVE FormsTypeOK'
  <2>1. signing' \in BOOLEAN
    BY <1>2, FormsMoves DEF FormsTypeOK
  <2>2. CASE UNCHANGED knVars
    BY <1>2, <2>1, <2>2 DEF FormsTypeOK, knVars
  <2>3. CASE DeleteKb \/ CreateKb
    <3>1. /\ [st |-> "delete", to |-> "kbs", own |-> TRUE] \in KbCommand
          /\ [st |-> "create", to |-> "kb", own |-> TRUE] \in KbCommand
      BY DEF KbCommand
    <3>2. kn' \in BOOLEAN /\ kbOut' \subseteq KbCommand
      BY <1>2, <2>3, <3>1 DEF FormsTypeOK, DeleteKb, CreateKb
    <3>. QED BY <2>1, <3>2 DEF FormsTypeOK
  <2>4. ASSUME NEW o \in kbOut, KbAnswered(o) PROVE FormsTypeOK'
    <3>1. o \in KbCommand /\ [o EXCEPT !.st = "leave"] \in KbCommand
      BY <1>2 DEF FormsTypeOK, KbCommand
    <3>. QED BY <1>2, <2>1, <2>4, <3>1 DEF FormsTypeOK, KbAnswered
  <2>5. CASE KbSwitch
    <3>1. ASSUME NEW o \in kbOut, NEW b \in BOOLEAN PROVE [o EXCEPT !.own = b] \in KbCommand
      BY <1>2 DEF FormsTypeOK, KbCommand
    <3>2. ASSUME NEW o \in kbOut
          PROVE  [o EXCEPT !.own = @ /\ ~(Leaving("kb") \/ Leaving("kbNew"))] \in KbCommand
      <4>1. PICK b \in BOOLEAN : b = (o.own /\ ~(Leaving("kb") \/ Leaving("kbNew")))
        OBVIOUS
      <4>. QED BY <3>1, <4>1
    <3>3. kbOut' \subseteq KbCommand
      BY <2>5, <3>2 DEF KbSwitch
    <3>4. kn' \in BOOLEAN
      BY <1>2, <2>5 DEF KbSwitch, FormsTypeOK
    <3>. QED BY <2>1, <3>3, <3>4 DEF FormsTypeOK
  <2>. QED BY <1>2, <2>2, <2>3, <2>4, <2>5, FormsMoves
<1>3. ShellTypeOK /\ FormsTypeOK /\ [Next]_vars => FormsTypeOK'
  BY <1>2
<1>. QED BY <1>1, <1>3, ShellTyped, PTL DEF Spec

LEMMA KnowledgeTyped == Spec => []KnowledgeTypeOK
<1>1. ASSUME ShellTypeOK, KbInv, SendInv, FormsTypeOK PROVE KnowledgeTypeOK
  <2>1. /\ kp \in KbShape /\ kpReqs \subseteq KpReq /\ kpLoops \subseteq Loop /\ docStore \in Docs
        /\ KbTyped
    BY <1>1 DEF KbInv, KbTyped
  <2>2. ASSUME NEW f \in Files PROVE kp.sent[f] \in Ids
    <3>1. /\ Cardinality(Senders(f)) \in Nat /\ kp.sent[f] \in Nat
          /\ kp.sent[f] + Cardinality(Senders(f)) <= ops
      BY <1>1, <2>1, FilesSent
    <3>. QED BY <1>1, <3>1, ShellAssumption DEF ShellTypeOK, Ids
  <2>3. kp.sent \in [Files -> Ids]
    BY <2>1, <2>2, KbFields
  <2>4. kp \in KbPage
    BY <2>1, <2>3 DEF KbShape, KbPage
  <2>. QED BY <1>1, <2>1, <2>4 DEF KnowledgeTypeOK, FormsTypeOK, KbCommand
<1>. QED BY <1>1, ShellTyped, KbSafe, SendsCounted, FormsTyped, PTL

\* Every page of the dashboard, and what it leaves in flight, is of its type,
\* whatever is clicked and whatever answers, on any number of pages visited.
THEOREM DashboardTyped == Spec => []DashboardTypeOK
<1>1. ASSUME ShellTypeOK, NotificationsTypeOK /\ ChatTypeOK /\ CompareTypeOK,
             AgentTypeOK /\ RolloutTypeOK, EvaluationsTypeOK, WizardTypeOK /\ ReviewIsComplete,
             KnowledgeTypeOK, CatalogTypeOK /\ ListsAtRest, SkillsTypeOK /\ AssignmentsAddUp,
             FormsTypeOK
      PROVE  DashboardTypeOK
  BY <1>1 DEF DashboardTypeOK, FormsTypeOK
<1>. QED BY <1>1, ShellTyped, ChatPageTyped, AgentTyped, EvaluationsTyped,
            ReviewedAgentsAreComplete, KnowledgeTyped, ListsSettle, AssignmentsKept, FormsTyped, PTL
=============================================================================
