--------------------------- MODULE Notifications ---------------------------
(***************************************************************************)
(* NotificationProvider and the notification bell.  The provider lives in  *)
(* the layout: it survives soft navigation and dies with the document.     *)
(*                                                                         *)
(*   watched    pendingRef: the generations the chat page asked to watch   *)
(*   activeId   the conversation the chat page says it is showing          *)
(*   ticks      answers to the polling callback that say an agent is done *)
(*              and have not been handled; a run of the callback keeps the *)
(*              activeConversationId of the effect that made its interval  *)
(*   notices    the bell's list                                            *)
(*   pendingCid localStorage, the conversation a clicked notice asks for   *)
(*   conv       external: what the agents' servers say of a conversation   *)
(***************************************************************************)
EXTENDS Shell

CONSTANTS
    Conversations,
    None,
    MaxTicks    \* bound: such answers in flight at a time

ASSUME NotificationsAssumption == None \notin Conversations /\ MaxTicks \in Nat \ {0}

VARIABLES conv, watched, activeId, ticks, notices, bellOpen, pendingCid

bellVars == <<watched, ticks, notices, bellOpen>>
noteVars == <<conv, watched, activeId, ticks, notices, bellOpen, pendingCid>>

MaybeConversation == Conversations \cup {None}
Notice == [cid : Conversations, read : BOOLEAN]
Tick   == [at : Conversations, active : MaybeConversation]

NotificationsTypeOK ==
    /\ conv \in [Conversations -> {"none", "generating", "idle", "deleted"}]
    /\ watched \subseteq Conversations
    /\ activeId \in MaybeConversation
    /\ ticks \subseteq Tick
    /\ notices \subseteq Notice
    /\ bellOpen \in BOOLEAN
    /\ pendingCid \in MaybeConversation

NotificationsInit ==
    /\ watched = {} /\ ticks = {} /\ notices = {} /\ bellOpen = FALSE
    /\ pendingCid = None

\* A fresh provider.
ProviderBlank ==
    watched' = {} /\ ticks' = {} /\ notices' = {} /\ bellOpen' = FALSE

unread == {n \in notices : ~n.read}

(***************************************************************************)
(* The polling callback: every second it asks for the status of what is    *)
(* watched, one conversation after the other, and a slow run is joined by  *)
(* the next.  Only the answer that an agent is done does anything: the     *)
(* others, and failures, leave the watch to the next run.                  *)
(***************************************************************************)
StatusAnswers(c) ==
    /\ c \in watched /\ conv[c] # "generating"
    /\ Cardinality(ticks) < MaxTicks
    /\ ticks' = ticks \cup {[at |-> c, active |-> activeId]}
    /\ Unattended
    /\ UNCHANGED <<conv, watched, activeId, notices, bellOpen, pendingCid>>

\* The watch is dropped and, unless the conversation is the one this run
\* believes to be on screen, announced.
WatchEnds(t) ==
    /\ ticks' = ticks \ {t}
    /\ watched' = watched \ {t.at}
    /\ notices' = IF t.active = t.at THEN notices
                  ELSE notices \cup {[cid |-> t.at, read |-> FALSE]}
    /\ Unattended
    /\ UNCHANGED <<conv, activeId, bellOpen, pendingCid>>

\* External: an agent finishes the response it was generating.
GenerationEnds(c) ==
    /\ conv[c] = "generating"
    /\ conv' = [conv EXCEPT ![c] = "idle"]
    /\ Unattended
    /\ UNCHANGED <<watched, activeId, ticks, notices, bellOpen, pendingCid>>

\* The bound of a page's clicks does not hold for a bell with notices in it.
BellClick ==
    /\ ops < Clicks[page] \/ (notices # {} /\ ops < MaxOps)
    /\ ops' = ops + 1

(***************************************************************************)
(* The bell.  A click beside its dropdown closes it: a BellToggle of its   *)
(* own, before the click, which the keyboard does without.                 *)
(***************************************************************************)
BellToggle ==
    /\ page # "login" /\ BellClick /\ UNCHANGED <<page, document>>
    /\ bellOpen' = ~bellOpen
    /\ UNCHANGED <<conv, watched, activeId, ticks, notices, pendingCid>>

\* Two seconds with the dropdown open and unread notices in it.
BellReadTimer ==
    /\ bellOpen /\ unread # {}
    /\ notices' = {[n EXCEPT !.read = TRUE] : n \in notices}
    /\ Unattended
    /\ UNCHANGED <<conv, watched, activeId, ticks, bellOpen, pendingCid>>

Dismiss(n) ==
    /\ bellOpen /\ BellClick /\ UNCHANGED <<page, document>>
    /\ notices' = notices \ {n}
    /\ UNCHANGED <<conv, watched, activeId, ticks, bellOpen, pendingCid>>

ClearAll ==
    /\ bellOpen /\ notices # {} /\ BellClick /\ UNCHANGED <<page, document>>
    /\ notices' = {}
    /\ UNCHANGED <<conv, watched, activeId, ticks, bellOpen, pendingCid>>

\* What a click on a notice does besides router.push("/chat"): the chat page
\* finds the conversation in localStorage when it next selects an agent.
FollowNotice(n) ==
    /\ bellOpen /\ n \in notices
    /\ notices' = (notices \ {n}) \cup {[n EXCEPT !.read = TRUE]}
    /\ bellOpen' = FALSE
    /\ pendingCid' = n.cid

NotificationsNext ==
    \/ \E c \in Conversations : StatusAnswers(c) \/ GenerationEnds(c)
    \/ \E t \in ticks : WatchEnds(t)
    \/ BellToggle \/ BellReadTimer \/ ClearAll
    \/ \E n \in notices : Dismiss(n)
=============================================================================
