---------------------------- MODULE AgentWizard ----------------------------
(***************************************************************************)
(* The wizard agents/new: two sequences of steps, a Next button that asks  *)
(* canProceed, and the creation, which ends by loading the document of     *)
(* /agents from whichever page the operator is on by then.                 *)
(*                                                                         *)
(*   wz     the wizard's state.  filled: the steps whose required fields   *)
(*          are valid                                                      *)
(*   wzOut  creations under way and their stage: POST agents, POST deploy, *)
(*          window.location assigned, POST scaffold; own: the page that    *)
(*          started it is still mounted                                    *)
(*                                                                         *)
(* The wizard is finite: its clicks are not counted.  The provider, its    *)
(* model and the framework are left out: canProceed asks for them, and     *)
(* they start with a value and are only ever given another.                *)
(***************************************************************************)
EXTENDS Evaluations, Sequences

VARIABLES wz, wzOut

wzVars == <<wz, wzOut>>

READY_STEPS == <<"Type", "Name", "Provider", "Prompt", "Tools", "Skills", "Channel", "Review">>
CUSTOM_STEPS == <<"Type", "Name", "Framework", "Capabilities", "Channel", "Delivery", "Review">>
Required == {"Name", "Prompt", "Delivery"}

WizardState == [type : {"ready", "custom"}, step : 1..Len(READY_STEPS), filled : SUBSET Required,
                creating : BOOLEAN, result : BOOLEAN]

Creation == [st : {"create", "deploy", "leave", "scaffold"}, own : BOOLEAN]

WizardTypeOK == wz \in WizardState /\ wzOut \subseteq Creation

\* No name yet; a default prompt; delivery by GitHub without its fields.
WizardClosed == [type |-> "ready", step |-> 1, filled |-> {"Prompt"},
                 creating |-> FALSE, result |-> FALSE]

WizardInit == wz = WizardClosed /\ wzOut = {}

steps == IF wz.type = "ready" THEN READY_STEPS ELSE CUSTOM_STEPS
current == steps[wz.step]

OnWizard == On("wizard") /\ UNCHANGED ops

HandleTypeChange(t) ==
    /\ OnWizard /\ current = "Type"
    /\ wz' = [wz EXCEPT !.type = t, !.result = FALSE]
    /\ UNCHANGED wzOut

\* Typing into, or emptying, the required fields of a step.
Fill(step) ==
    /\ OnWizard /\ current = step
    /\ wz' = [wz EXCEPT !.filled = IF step \in @ THEN @ \ {step} ELSE @ \cup {step}]
    /\ UNCHANGED wzOut

NameStep     == Fill("Name")
PromptStep   == Fill("Prompt")
DeliveryStep == Fill("Delivery")

\* Mutant: only the name is required.
CanProceedNamed == current = "Name" => current \in wz.filled

CanProceed == current \in Required => current \in wz.filled

WizardNextStep ==
    /\ OnWizard /\ current # "Review" /\ CanProceed
    /\ wz' = [wz EXCEPT !.step = @ + 1]
    /\ UNCHANGED wzOut

WizardBack ==
    /\ OnWizard /\ wz.step > 1
    /\ wz' = [wz EXCEPT !.step = @ - 1]
    /\ UNCHANGED wzOut

\* Mutant: the button is not disabled.
HandleCreateUnlocked ==
    /\ OnWizard /\ current = "Review"
    /\ ~wz.creating /\ ~wz.result
    /\ wzOut' = wzOut \cup
          {[st |-> IF wz.type = "ready" THEN "create" ELSE "scaffold", own |-> TRUE]}
    /\ UNCHANGED wz

HandleCreate ==
    /\ OnWizard /\ current = "Review"
    /\ ~wz.creating /\ ~wz.result
    /\ wz' = [wz EXCEPT !.creating = TRUE]
    /\ wzOut' = wzOut \cup
          {[st |-> IF wz.type = "ready" THEN "create" ELSE "scaffold", own |-> TRUE]}

\* What follows an await writes to the page only if that is still mounted.
Shown(o, state) == IF o.own THEN state ELSE wz

\* handleCreateReady: an identifier in the answer is deployed (the outcome is
\* ignored) and the document left; without one, "Created!" or an error shows.
HandleCreateReady(o) ==
    /\ o.st = "create" /\ Unattended
    /\ \/ wzOut' = (wzOut \ {o}) \cup {[o EXCEPT !.st = "deploy"]} /\ UNCHANGED wz
       \/ /\ wzOut' = wzOut \ {o}
          /\ wz' = Shown(o, [wz EXCEPT !.creating = FALSE, !.result = TRUE])

\* finally re-enables the button before the browser has left the document.
AutoDeployed(o) ==
    /\ o.st = "deploy" /\ Unattended
    /\ wzOut' = (wzOut \ {o}) \cup {[o EXCEPT !.st = "leave"]}
    /\ wz' = Shown(o, [wz EXCEPT !.creating = FALSE])

HandleCreateCustom(o) ==
    /\ o.st = "scaffold" /\ Unattended
    /\ wzOut' = wzOut \ {o}
    /\ wz' = Shown(o, [wz EXCEPT !.creating = FALSE, !.result = TRUE])

WizardStep ==
    \/ \E t \in {"ready", "custom"} : HandleTypeChange(t)
    \/ NameStep \/ PromptStep \/ DeliveryStep \/ WizardNextStep \/ WizardBack \/ HandleCreate
    \/ \E o \in wzOut : HandleCreateReady(o) \/ AutoDeployed(o) \/ HandleCreateCustom(o)

\* A creation outlives its page but not its document.
WizardSwitch ==
    /\ wz' = IF Leaving("wizard") \/ Entering("wizard") \/ Reloading THEN WizardClosed ELSE wz
    /\ wzOut' = CASE Reloading -> {}
                  [] ~Reloading /\ Leaving("wizard") ->
                        {[o EXCEPT !.own = FALSE] : o \in {p \in wzOut : p.st # "scaffold"}}
                  [] OTHER -> wzOut

(***************************************************************************)
(* Properties                                                              *)
(***************************************************************************)
\* The review is only reached with every required field of its type filled:
\* going back, emptying a field and switching the type do not get an
\* incomplete agent past canProceed.
ReviewIsComplete ==
    current = "Review" =>
       {"Name", IF wz.type = "ready" THEN "Prompt" ELSE "Delivery"} \subseteq wz.filled

\* On the mounted page one creation is under way at a time, and the button is
\* locked exactly as long; only a document that is already being left offers
\* it again.
OneCreationAtATime ==
    LET mine == {o \in wzOut : o.own /\ o.st # "leave"}
    IN  Cardinality(mine) = (IF wz.creating THEN 1 ELSE 0)
=============================================================================
