------------------------------ MODULE ChatPage ------------------------------
(***************************************************************************)
(* The chat page: one conversation on screen, fed by at most one response  *)
(* stream or one poller, and a conversation list that can be clicked at    *)
(* any time.  Every request is split from its answer; what an answer does  *)
(* is what the code after the await does, with the values its closure      *)
(* captured.                                                               *)
(*                                                                         *)
(*   chat     the page's state and refs (a record, below)                  *)
(*   streams  POST .../chat/stream calls whose reader loop has not ended   *)
(*   loads    GETs of loadConversation in flight                           *)
(*   polls    live setInterval pollers, pollTicks answers to them that     *)
(*            have not been handled (at most one per poller)               *)
(*   deletes  DELETE requests in flight                                    *)
(*   owner    external: the agent that keeps a conversation                *)
(*                                                                         *)
(* The saved conversation of localStorage is not a variable: the persist   *)
(* effect keeps it equal to chat.cid while the page is mounted, and erases *)
(* it when the page mounts, before the agents have been fetched.  The two  *)
(* knowledge-base toggles, copying and feedback leave this state alone.    *)
(***************************************************************************)
EXTENDS Notifications

CONSTANTS
    Agents,
    MaxPolls    \* bound: pollers alive at a time

ASSUME ChatAssumption == None \notin Agents /\ Agents # {} /\ MaxPolls \in Nat

VARIABLES chat, streams, loads, polls, pollTicks, deletes, owner

chatVars == <<chat, streams, loads, polls, pollTicks, deletes, owner>>
requestVars == <<streams, loads, polls, pollTicks, deletes>>

FirstAgent == CHOOSE a \in Agents : TRUE
MaybeAgent == Agents \cup {None}

\* tail: the last bubble on screen; of: the conversation the bubbles belong
\* to (None: the unsaved new chat).  sending, ref, abort, poll are the code's.
\* stale, overlap, lost record history for the properties: bubbles
\* of another conversation were put on screen; two streams were open at once;
\* a poller's final request was lost.
Chat == [agent : MaybeAgent, known : SUBSET Agents, cid : MaybeConversation,
         of : MaybeConversation, tail : {"none", "empty", "text"},
         sending : BOOLEAN, ref : MaybeConversation, abort : Ids, poll : Ids,
         stale : BOOLEAN, overlap : BOOLEAN, lost : BOOLEAN]

\* cid0: the conversation the message was sent in (activeCid); cid: the one
\* the server answers in; own: the bubbles on screen are still those of the
\* send; dead: the page that opened it is unmounted.
Stream == [id : Ids, agent : Agents, cid0 : MaybeConversation, cid : MaybeConversation,
           st : {"sent", "open", "done", "failed"}, told : BOOLEAN,
           own : BOOLEAN, dead : BOOLEAN]
Load   == [id : Ids, cid : Conversations, agent : Agents,
           answer : {"asked", "missing", "generating", "complete"}]
Poll   == [id : Ids, cid : Conversations, agent : Agents]
PollTick == [id : Ids, cid : Conversations, agent : Agents,
             answer : {"generating", "finished", "final"}]
Delete == [cid : Conversations, open : BOOLEAN, answered : BOOLEAN]

ChatTypeOK ==
    /\ chat \in Chat
    /\ streams \subseteq Stream /\ loads \subseteq Load
    /\ polls \subseteq Poll /\ pollTicks \subseteq PollTick /\ deletes \subseteq Delete
    /\ owner \in [Conversations -> MaybeAgent]

ChatClosed ==
    [agent |-> None, known |-> {}, cid |-> None, of |-> None, tail |-> "none",
     sending |-> FALSE, ref |-> None, abort |-> 0, poll |-> 0,
     stale |-> FALSE, overlap |-> FALSE, lost |-> FALSE]

NoRequests == streams' = {} /\ loads' = {} /\ polls' = {} /\ pollTicks' = {} /\ deletes' = {}

live == {s \in streams : ~s.dead}

\* The stream may touch the screen: streamingCidRef.current === activeCid.
Matches(s) == ~s.dead /\ chat.ref = s.cid0

\* Other bubbles come on screen.
Swept(ss) == {[s EXCEPT !.own = FALSE] : s \in ss}

(***************************************************************************)
(* Selecting an agent, opening, starting and deleting conversations.       *)
(***************************************************************************)

\* Mutants: the lock of the previous conversation is kept; its stream goes on;
\* its bubbles stay.
QuietLocked(screen) == [screen EXCEPT !.ref = None, !.abort = 0, !.poll = 0]
StopPollingOnly ==
    /\ streams' = Swept(streams)
    /\ polls' = {p \in polls : p.id # chat.poll}
EmptiedTail(screen) == [screen EXCEPT !.tail = "none", !.stale = FALSE]

\* abortRef.abort(); stopPolling(); the aborted reader loop ends silently.
StopFeeds ==
    /\ streams' = Swept({s \in streams : s.dead \/ s.id # chat.abort})
    /\ polls' = {p \in polls : p.id # chat.poll}

Quiet(screen) == [screen EXCEPT !.sending = FALSE, !.ref = None, !.abort = 0, !.poll = 0]
Emptied(screen) == [screen EXCEPT !.of = None, !.tail = "none", !.stale = FALSE]

AskLoad(c, a) == loads' = loads \cup {[id |-> ops', cid |-> c, agent |-> a, answer |-> "asked"]}

\* The two effects of a new selectedAgent: the conversation a clicked notice
\* left in localStorage is opened, or else the one saved there, which is
\* still the one that was open before the selection.
Restore(a, screen, saved) ==
    LET c == IF pendingCid # None THEN pendingCid ELSE saved
        new == [screen EXCEPT !.agent = a, !.known = @ \cup {a}, !.cid = c]
    IN  /\ chat' = new
        /\ activeId' = c
        /\ pendingCid' = None
        /\ IF c = None THEN UNCHANGED loads ELSE AskLoad(c, a)

\* The fetch of the agents returns: the agent of last time (localStorage), or
\* the first; agents are alike, and one of them stands for it.
AgentsArrive ==
    /\ On("chat") /\ chat.agent = None /\ UNCHANGED ops
    /\ Restore(FirstAgent, chat, None)
    /\ UNCHANGED <<streams, polls, pollTicks, deletes, owner, conv, bellVars>>

SelectAgent(a) ==
    /\ On("chat") /\ Click
    /\ chat.agent # None /\ a # chat.agent
    /\ StopFeeds
    /\ Restore(a, Emptied(Quiet(chat)), chat.cid)
    /\ UNCHANGED <<pollTicks, deletes, owner, conv, bellVars>>

\* What the list offers to open and to delete: conversations of an agent
\* selected since the mount (the list of the previous agent stays until the
\* next one arrives).
Listed(c) == conv[c] \in {"generating", "idle"} /\ owner[c] \in chat.known

LoadConversation(c) ==
    /\ On("chat") /\ Click
    /\ chat.agent # None /\ Listed(c)
    /\ StopFeeds
    /\ chat' = [Quiet(chat) EXCEPT !.cid = c]
    /\ activeId' = c
    /\ AskLoad(c, chat.agent)
    /\ UNCHANGED <<pollTicks, deletes, owner, conv, bellVars, pendingCid>>

NewChat ==
    /\ On("chat") /\ Click
    /\ StopFeeds
    /\ chat' = [Emptied(Quiet(chat)) EXCEPT !.cid = None]
    /\ activeId' = None
    /\ UNCHANGED <<loads, pollTicks, deletes, owner, conv, bellVars, pendingCid>>

DeleteConversation(c) ==
    /\ On("chat") /\ Click /\ Listed(c)
    /\ deletes' = deletes \cup {[cid |-> c, open |-> chat.cid = c, answered |-> FALSE]}
    /\ UNCHANGED <<chat, streams, loads, polls, pollTicks, owner, noteVars>>

DeleteServed(d) ==
    /\ ~d.answered /\ Unattended
    /\ conv' = [conv EXCEPT ![d.cid] = "deleted"]
    /\ deletes' = (deletes \ {d}) \cup {[d EXCEPT !.answered = TRUE]}
    /\ UNCHANGED <<chat, streams, loads, polls, pollTicks, owner,
                   watched, activeId, ticks, notices, bellOpen, pendingCid>>

\* The handler compares with the conversation that was open at the click.
DeleteReturns(d) ==
    /\ d.answered /\ Unattended
    /\ deletes' = deletes \ {d}
    /\ IF d.open
       THEN /\ chat' = [Emptied(chat) EXCEPT !.cid = None]
            /\ streams' = Swept(streams)
            /\ activeId' = None
       ELSE UNCHANGED <<chat, streams, activeId>>
    /\ UNCHANGED <<loads, polls, pollTicks, owner, conv, bellVars, pendingCid>>

(***************************************************************************)
(* loadConversation after its await: nothing checks that the conversation  *)
(* is still the open one.                                                  *)
(***************************************************************************)
LoadServed(l) ==
    /\ l.answer = "asked" /\ Unattended
    /\ \E a \in {"missing",   \* not ok, or the network failed
                 CASE conv[l.cid] = "generating" /\ owner[l.cid] = l.agent -> "generating"
                   [] conv[l.cid] = "idle" /\ owner[l.cid] = l.agent -> "complete"
                   [] OTHER -> "missing"} :
          loads' = (loads \ {l}) \cup {[l EXCEPT !.answer = a]}
    /\ UNCHANGED <<chat, streams, polls, pollTicks, deletes, owner, noteVars>>

LoadApplied(l) ==
    /\ l.answer # "asked" /\ Unattended
    /\ loads' = loads \ {l}
    /\ streams' = Swept(streams)
    /\ \/ /\ l.answer = "missing"
          /\ chat' = Emptied(chat)
          /\ UNCHANGED <<polls, watched>>
       \/ /\ l.answer = "complete"
          /\ chat' = [chat EXCEPT !.of = l.cid, !.tail = "text", !.stale = l.cid # chat.cid]
          /\ UNCHANGED <<polls, watched>>
       \/ /\ l.answer = "generating"
          /\ Cardinality(polls) < MaxPolls
          /\ chat' = [chat EXCEPT !.of = l.cid, !.tail = "empty", !.sending = TRUE,
                                  !.poll = l.id, !.stale = l.cid # chat.cid]
          /\ polls' = polls \cup {[id |-> l.id, cid |-> l.cid, agent |-> l.agent]}
          /\ watched' = watched \cup {l.cid}
    /\ UNCHANGED <<pollTicks, deletes, owner, conv, activeId, ticks,
                   notices, bellOpen, pendingCid>>

(***************************************************************************)
(* The poller of a conversation that was still generating when loaded; an  *)
(* answer that is lost, or not ok, is waited out.                          *)
(***************************************************************************)
PollAnswers(p) ==
    /\ Unattended
    /\ \A t \in pollTicks : t.id # p.id
    /\ pollTicks' = pollTicks \cup
          {[id |-> p.id, cid |-> p.cid, agent |-> p.agent,
            answer |-> IF conv[p.cid] = "generating" THEN "generating" ELSE "finished"]}
    /\ UNCHANGED <<chat, streams, loads, polls, deletes, owner, noteVars>>

\* Partial text replaces the last agent bubble; an answer that says the
\* response is complete stops the poller of pollRef, whichever that is now.
PollStep(t) ==
    /\ Unattended
    /\ CASE t.answer = "generating" ->
              /\ pollTicks' = pollTicks \ {t}
              /\ chat' = IF chat.tail = "none" THEN chat
                         ELSE [chat EXCEPT !.tail = "text",
                                           !.stale = @ \/ t.cid # chat.of]
              /\ UNCHANGED polls
         [] t.answer = "finished" ->
              /\ pollTicks' = (pollTicks \ {t}) \cup {[t EXCEPT !.answer = "final"]}
              /\ polls' = {p \in polls : p.id # chat.poll}
              /\ chat' = [chat EXCEPT !.poll = 0]
         [] OTHER -> FALSE
    /\ UNCHANGED <<streams, loads, deletes, owner, noteVars>>

\* The poller's last request: the stored conversation, an answer that is not
\* ok, or none at all, which the catch takes for a reason to poll again.
PollFinal(t) ==
    /\ t.answer = "final" /\ Unattended
    /\ pollTicks' = pollTicks \ {t}
    /\ \/ /\ conv[t.cid] \in {"idle", "generating"} /\ owner[t.cid] = t.agent
          /\ chat' = [chat EXCEPT !.of = t.cid, !.tail = "text", !.sending = FALSE,
                                  !.stale = t.cid # chat.cid]
          /\ streams' = Swept(streams)
       \/ /\ chat' = [chat EXCEPT !.sending = FALSE]
          /\ UNCHANGED streams
       \/ /\ chat' = [chat EXCEPT !.lost = TRUE]
          /\ UNCHANGED streams
    /\ UNCHANGED <<loads, polls, deletes, owner, noteVars>>

(***************************************************************************)
(* sendMessage and its reader loop.                                        *)
(***************************************************************************)
\* The input and its button, which a comparison replaces (ComparePanel).
MaySend == chat.agent # None /\ ~chat.sending

SendMessage ==
    /\ On("chat") /\ Click /\ MaySend
    /\ chat' = [chat EXCEPT !.tail = "empty", !.sending = TRUE, !.ref = chat.cid,
                            !.abort = ops', !.overlap = @ \/ live # {}]
    /\ streams' = streams \cup
          {[id |-> ops', agent |-> chat.agent, cid0 |-> chat.cid, cid |-> chat.cid,
            st |-> "sent", told |-> FALSE, own |-> TRUE, dead |-> FALSE]}
    /\ watched' = watched \cup ({chat.cid} \ {None})
    /\ UNCHANGED <<loads, polls, pollTicks, deletes, owner, conv, activeId,
                   ticks, notices, bellOpen, pendingCid>>

\* External: the agent accepts a message in a conversation of its own or in a
\* new one and starts generating, whether or not anyone reads the stream.
MessageAccepted(s) ==
    /\ s.st = "sent" /\ Unattended
    /\ \E c \in Conversations :
          /\ IF s.cid0 = None THEN conv[c] = "none"
             ELSE c = s.cid0 /\ conv[c] \in {"idle", "generating"} /\ owner[c] = s.agent
          /\ conv' = [conv EXCEPT ![c] = "generating"]
          /\ owner' = [owner EXCEPT ![c] = s.agent]
          /\ streams' = (streams \ {s}) \cup {[s EXCEPT !.st = "open", !.cid = c]}
    /\ UNCHANGED <<chat, loads, polls, pollTicks, deletes, watched, activeId,
                   ticks, notices, bellOpen, pendingCid>>

MessageRefused(s) ==
    /\ s.st = "sent" /\ Unattended
    /\ streams' = (streams \ {s}) \cup {[s EXCEPT !.st = "failed"]}
    /\ UNCHANGED <<chat, loads, polls, pollTicks, deletes, owner, noteVars>>

\* A token, its sources, a component, a confirmation or an error event.
Token(s) ==
    /\ s.st = "open" /\ Unattended
    /\ Matches(s) /\ chat.tail # "none"
    /\ chat' = [chat EXCEPT !.tail = "text"]
    /\ UNCHANGED <<requestVars, owner, noteVars>>

\* The conversation_id event: the page adopts a new conversation, and the
\* first one of a new chat registers the watch, also after an unmount.
Announce(s) ==
    /\ s.st = "open" /\ ~s.told /\ Unattended
    /\ streams' = (streams \ {s}) \cup
          (IF s.dead THEN {} ELSE {[s EXCEPT !.told = TRUE]})
    /\ IF Matches(s)
       THEN /\ chat' = [chat EXCEPT !.cid = s.cid, !.of = IF s.own THEN s.cid ELSE @]
            /\ activeId' = s.cid
       ELSE UNCHANGED <<chat, activeId>>
    /\ watched' = IF s.cid0 = None THEN watched \cup {s.cid} ELSE watched
    /\ UNCHANGED <<loads, polls, pollTicks, deletes, owner, conv, ticks,
                   notices, bellOpen, pendingCid>>

\* The done event unlocks the input; the connection stays open for the trace
\* id and the suggestions.
Done(s) ==
    /\ s.st = "open" /\ s.told /\ conv[s.cid] # "generating" /\ Unattended
    /\ streams' = (streams \ {s}) \cup {[s EXCEPT !.st = "done"]}
    /\ chat' = IF Matches(s) THEN [chat EXCEPT !.sending = FALSE] ELSE chat
    /\ UNCHANGED <<loads, polls, pollTicks, deletes, owner, noteVars>>

\* The connection closes, early or not; catch and finally.
StreamEnds(s) ==
    /\ s.st # "sent" /\ Unattended
    /\ streams' = streams \ {s}
    /\ chat' = IF s.dead THEN chat
               ELSE IF ~Matches(s) THEN [chat EXCEPT !.abort = 0]
               ELSE [chat EXCEPT !.tail = IF @ = "empty" /\ s.st = "failed" THEN "text" ELSE @,
                                 !.sending = FALSE, !.ref = None, !.abort = 0]
    /\ UNCHANGED <<loads, polls, pollTicks, deletes, owner, noteVars>>

(***************************************************************************)
(* Mounting and unmounting.  The page does not abort its stream when it    *)
(* unmounts: a reader loop whose new conversation has no watch yet goes on *)
(* to register it.  A deletion goes on at the server.                      *)
(***************************************************************************)
Outliving == {[s EXCEPT !.dead = TRUE, !.own = FALSE, !.told = FALSE] :
                 s \in {r \in streams : r.cid0 = None /\ ~r.told /\ r.st # "failed"}}

\* What the agents keep is found in any state; what nothing here refers to is
\* forgotten.
Referred == watched' \cup {t.at : t \in ticks'} \cup {n.cid : n \in notices'}
            \cup {s.cid : s \in streams'} \cup {pendingCid'}
Unknown == [is |-> "none", of |-> None]
Found(p) == {Unknown} \cup
            (IF p = "chat" THEN [is : {"idle", "generating"}, of : Agents] ELSE {})

ChatSwitch ==
    IF Leaving("chat") \/ Entering("chat") \/ Reloading
    THEN /\ chat' = ChatClosed
         /\ streams' = IF Reloading THEN {} ELSE Outliving
         /\ loads' = {} /\ polls' = {} /\ pollTicks' = {} /\ deletes' = {}
         /\ activeId' = None
         /\ \E found \in [Conversations -> Found(page')] :
               /\ conv' = [c \in Conversations |->
                             CASE c \notin Referred -> found[c].is
                               [] c \in Referred /\ (\E d \in deletes : d.cid = c) -> "deleted"
                               [] OTHER -> conv[c]]
               /\ owner' = [c \in Conversations |->
                              IF c \in Referred THEN owner[c] ELSE found[c].of]
    ELSE UNCHANGED <<chatVars, conv, activeId>>

ChatStep ==
    \/ AgentsArrive \/ NewChat
    \/ \E a \in Agents : SelectAgent(a)
    \/ \E c \in Conversations : LoadConversation(c) \/ DeleteConversation(c)
    \/ \E d \in deletes : DeleteServed(d) \/ DeleteReturns(d)
    \/ \E l \in loads : LoadServed(l) \/ LoadApplied(l)
    \/ \E p \in polls : PollAnswers(p)
    \/ \E t \in pollTicks : PollStep(t) \/ PollFinal(t)
    \/ \E s \in streams : \/ MessageAccepted(s) \/ MessageRefused(s) \/ Token(s)
                          \/ Announce(s) \/ Done(s) \/ StreamEnds(s)

ChatInit ==
    /\ chat = ChatClosed
    /\ streams = {} /\ loads = {} /\ polls = {} /\ pollTicks = {} /\ deletes = {}
    /\ activeId = None
    /\ \E found \in [Conversations -> Found(page)] :
          /\ conv = [c \in Conversations |-> found[c].is]
          /\ owner = [c \in Conversations |-> found[c].of]

(***************************************************************************)
(* Properties                                                              *)
(***************************************************************************)
\* The input is never locked for good: while the page refuses to send
\* (sending), a stream that may still write to the screen, a poller, or a
\* poller's final request is there to release it.  Switching conversation,
\* selecting an agent, deleting and late answers all pass the lock from one
\* to the other; the one hole, a final request that fails, is chat.lost.
ChatLockHasWorker ==
    chat.sending /\ ~chat.lost =>
       \/ \E s \in streams : Matches(s)
       \/ polls # {}
       \/ \E t \in pollTicks : t.answer = "final"

\* The streamingCidRef test keeps a response out of every chat but its own:
\* as long as no late answer has put foreign bubbles on screen and no second
\* message was sent over an open stream, a stream that may write finds the
\* bubbles it was sent from, or those of its own conversation.
TokensStayInTheirChat ==
    \A s \in streams :
       s.st \in {"sent", "open"} /\ Matches(s) /\ chat.tail # "none" /\ ~chat.stale /\ ~chat.overlap
       => s.own \/ (s.cid # None /\ chat.of = s.cid)

\* The bubbles on screen are those of the open conversation once no load is
\* in flight, unless an answer that arrived late has replaced them, or a
\* second message was sent over an open stream: of two, only the last can be
\* stopped, and the other goes on to name the chat it finds.
OnlyLateAnswersMisplace ==
    loads = {} /\ ~chat.stale /\ ~chat.overlap /\ chat.of # None => chat.of = chat.cid
=============================================================================
