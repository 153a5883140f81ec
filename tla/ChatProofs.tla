----------------------------- MODULE ChatProofs -----------------------------
(***************************************************************************)
(* The proofs about the chat page, ChatPage and ComparePanel as parts of   *)
(* the dashboard, and about the provider's types, which the chat shares.   *)
(*                                                                         *)
(* The lock and the columns of the comparison are inductive once the types *)
(* are known.  What keeps a response in its own chat is an argument about  *)
(* one stream: as long as no two were ever open at once, the open one is   *)
(* the one abortRef can stop, streamingCidRef is the conversation it was   *)
(* sent in, and the page shows that conversation, the one the server named *)
(* since, or none (OneFeed).                                               *)
(***************************************************************************)
EXTENDS DashboardProofs, FiniteSetTheorems

\* What any step may do to the chat page.
LEMMA ChatMoves ==
  ASSUME ShellTypeOK, [Next]_vars
  PROVE  \/ UNCHANGED <<chatVars, cmpVars>>
         \/ Stays /\ PlainChatStep /\ UNCHANGED cmpVars
         \/ Stays /\ CompareStep /\ UNCHANGED <<noteVars, chatVars>>
         \/ \E done \in SUBSET agReqs : Moves(done)
<1>1. CASE Stays /\ ChatPageStep
  BY <1>1 DEF ChatPageStep
<1>2. CASE \/ Stays /\ (ProviderStep \/ AgentPageStep \/ OtherPageStep \/ HandleSubmit \/ LoginFails)
           \/ UNCHANGED vars \/ Rings \/ \E r \in agReqs : Cleared(r)
  BY <1>2 DEF ProviderStep, OfProvider, AgentPageStep, OtherPageStep, HandleSubmit, LoginFails,
     Rings, Cleared, vars, chatFamily
<1>. QED BY <1>1, <1>2, StepCases

(***************************************************************************)
(* Types.                                                                  *)
(***************************************************************************)
LEMMA StreamFields ==
  ASSUME NEW s \in Stream
  PROVE  /\ s.id \in Ids /\ s.agent \in Agents
         /\ s.cid0 \in MaybeConversation /\ s.cid \in MaybeConversation
         /\ s.st \in {"sent", "open", "done", "failed"}
         /\ s.told \in BOOLEAN /\ s.own \in BOOLEAN /\ s.dead \in BOOLEAN
         /\ [s EXCEPT !.own = FALSE] \in Stream
         /\ [s EXCEPT !.told = TRUE] \in Stream
         /\ [s EXCEPT !.dead = TRUE, !.own = FALSE, !.told = FALSE] \in Stream
         /\ \A st \in {"done", "failed"} : [s EXCEPT !.st = st] \in Stream
         /\ \A c \in Conversations : [s EXCEPT !.st = "open", !.cid = c] \in Stream
  BY DEF Stream, MaybeConversation

\* Bubbles are swept from streams, and nothing else of them.
LEMMA SweptStreams ==
  ASSUME NEW ss \in SUBSET Stream
  PROVE  /\ Swept(ss) \subseteq Stream
         /\ \A s \in ss : [s EXCEPT !.own = FALSE] \in Swept(ss)
         /\ \A t \in Swept(ss) : \E s \in ss :
               /\ t = [s EXCEPT !.own = FALSE]
               /\ t.id = s.id /\ t.cid0 = s.cid0 /\ t.cid = s.cid /\ t.st = s.st
               /\ t.told = s.told /\ t.dead = s.dead /\ ~t.own
<1>1. ASSUME NEW s \in Stream, NEW t, t = [s EXCEPT !.own = FALSE]
      PROVE  /\ t \in Stream /\ ~t.own
             /\ t.id = s.id /\ t.cid0 = s.cid0 /\ t.cid = s.cid /\ t.st = s.st
             /\ t.told = s.told /\ t.dead = s.dead
  BY <1>1, StreamFields DEF Stream
<1>2. /\ \A s \in ss : [s EXCEPT !.own = FALSE] \in Swept(ss)
      /\ \A t \in Swept(ss) : \E s \in ss : t = [s EXCEPT !.own = FALSE]
  BY DEF Swept
<1>3. ASSUME NEW t \in Swept(ss)
      PROVE  \E s \in ss :
                /\ t = [s EXCEPT !.own = FALSE] /\ t \in Stream
                /\ t.id = s.id /\ t.cid0 = s.cid0 /\ t.cid = s.cid /\ t.st = s.st
                /\ t.told = s.told /\ t.dead = s.dead /\ ~t.own
  <2>1. PICK s \in ss : t = [s EXCEPT !.own = FALSE]
    BY <1>2
  <2>. QED BY <2>1, <1>1
<1>. QED BY <1>2, <1>3

LEMMA RequestsTyped ==
  ASSUME NEW i \in Ids, NEW c \in Conversations, NEW a \in Agents
  PROVE  /\ [id |-> i, cid |-> c, agent |-> a, answer |-> "asked"] \in Load
         /\ [id |-> i, cid |-> c, agent |-> a] \in Poll
         /\ \A x \in {"generating", "finished"} :
               [id |-> i, cid |-> c, agent |-> a, answer |-> x] \in PollTick
         /\ \A b \in BOOLEAN : [cid |-> c, open |-> b, answered |-> FALSE] \in Delete
         /\ \A m \in MaybeConversation :
               [id |-> i, agent |-> a, cid0 |-> m, cid |-> m, st |-> "sent", told |-> FALSE,
                own |-> TRUE, dead |-> FALSE] \in Stream
  BY DEF Load, Poll, PollTick, Delete, Stream

LEMMA ChatFields ==
  ASSUME chat \in Chat
  PROVE  /\ chat.agent \in MaybeAgent /\ chat.known \in SUBSET Agents
         /\ chat.cid \in MaybeConversation /\ chat.of \in MaybeConversation
         /\ chat.ref \in MaybeConversation /\ chat.tail \in {"none", "empty", "text"}
         /\ chat.sending \in BOOLEAN /\ chat.stale \in BOOLEAN
         /\ chat.overlap \in BOOLEAN /\ chat.lost \in BOOLEAN
         /\ Quiet(chat) \in Chat /\ Emptied(chat) \in Chat /\ Emptied(Quiet(chat)) \in Chat
<1>1. ASSUME NEW screen \in Chat PROVE Quiet(screen) \in Chat /\ Emptied(screen) \in Chat
  <2>1. Quiet(screen) \in Chat
    <3>1. 0 \in Ids /\ None \in MaybeConversation
      BY ShellAssumption DEF Ids, MaybeConversation
    <3>. QED BY <3>1 DEF Chat, Quiet
  <2>2. Emptied(screen) \in Chat
    BY DEF Chat, Emptied, MaybeConversation
  <2>. QED BY <2>1, <2>2
<1>2. /\ chat.agent \in MaybeAgent /\ chat.known \in SUBSET Agents
      /\ chat.cid \in MaybeConversation /\ chat.of \in MaybeConversation
      /\ chat.ref \in MaybeConversation /\ chat.tail \in {"none", "empty", "text"}
      /\ chat.sending \in BOOLEAN /\ chat.stale \in BOOLEAN
      /\ chat.overlap \in BOOLEAN /\ chat.lost \in BOOLEAN
  BY DEF Chat
<1>. QED BY <1>1, <1>2

LEMMA FirstIsAgent == FirstAgent \in Agents
  BY ChatAssumption DEF FirstAgent

\* The types of the provider and of the page, which it shares.
ChatTyped == NotificationsTypeOK /\ ChatTypeOK

\* What restoring a conversation puts on the page.
LEMMA RestoreTyped ==
  ASSUME NEW a \in Agents, NEW screen \in Chat, NEW saved \in MaybeConversation,
         ShellTypeOK', ChatTyped, Restore(a, screen, saved)
  PROVE  /\ chat' \in Chat /\ chat'.agent = a
         /\ chat'.sending = screen.sending /\ chat'.ref = screen.ref
         /\ chat'.of = screen.of /\ chat'.tail = screen.tail
         /\ chat'.stale = screen.stale /\ chat'.overlap = screen.overlap
         /\ chat'.lost = screen.lost
         /\ activeId' \in MaybeConversation /\ pendingCid' = None
         /\ loads' \subseteq Load
         /\ loads \subseteq loads'
         /\ chat'.cid \in MaybeConversation
         /\ chat'.cid # None => loads' # {}
<1>. DEFINE c == IF pendingCid # None THEN pendingCid ELSE saved
<1>1. c \in MaybeConversation
  BY DEF ChatTyped, NotificationsTypeOK
<1>2. chat' = [screen EXCEPT !.agent = a, !.known = @ \cup {a}, !.cid = c]
      /\ activeId' = c /\ pendingCid' = None
  BY DEF Restore
<1>3. /\ chat' \in Chat /\ chat'.agent = a /\ chat'.cid = c
      /\ chat'.sending = screen.sending /\ chat'.ref = screen.ref
      /\ chat'.of = screen.of /\ chat'.tail = screen.tail
      /\ chat'.stale = screen.stale /\ chat'.overlap = screen.overlap
      /\ chat'.lost = screen.lost
  BY <1>1, <1>2 DEF Chat, MaybeAgent
<1>4. CASE c = None
  BY <1>1, <1>2, <1>3, <1>4 DEF Restore, ChatTyped, ChatTypeOK
<1>5. CASE c # None
  <2>1. PICK l : l = [id |-> ops', cid |-> c, agent |-> a, answer |-> "asked"]
    OBVIOUS
  <2>2. l \in Load
    BY <1>1, <1>5, <2>1, RequestsTyped DEF ShellTypeOK, MaybeConversation
  <2>3. loads' = loads \cup {l}
    BY <1>5, <2>1 DEF Restore, AskLoad
  <2>. QED BY <1>1, <1>2, <1>3, <1>5, <2>2, <2>3 DEF ChatTyped, ChatTypeOK
<1>. QED BY <1>4, <1>5

\* The screen of an agent, conversation or chat just selected: no feed, no
\* bubbles of a stream.
LEMMA StoppedFeeds ==
  ASSUME ChatTyped, StopFeeds
  PROVE  /\ streams' \subseteq Stream /\ polls' \subseteq Poll
         /\ \A t \in streams' : \E s \in streams :
               /\ s.dead \/ s.id # chat.abort
               /\ t = [s EXCEPT !.own = FALSE]
               /\ t.id = s.id /\ t.cid0 = s.cid0 /\ t.cid = s.cid /\ t.st = s.st
               /\ t.told = s.told /\ t.dead = s.dead /\ ~t.own
<1>. DEFINE ss == {s \in streams : s.dead \/ s.id # chat.abort}
<1>1. ss \in SUBSET Stream /\ streams' = Swept(ss) /\ polls' \subseteq Poll
  BY DEF StopFeeds, ChatTyped, ChatTypeOK
<1>. QED BY <1>1, SweptStreams

LEMMA SweptOnly ==
  ASSUME ChatTyped, streams' = Swept(streams)
  PROVE  /\ streams' \subseteq Stream
         /\ \A s \in streams : [s EXCEPT !.own = FALSE] \in streams'
         /\ \A t \in streams' : \E s \in streams :
               /\ t = [s EXCEPT !.own = FALSE]
               /\ t.id = s.id /\ t.cid0 = s.cid0 /\ t.cid = s.cid /\ t.st = s.st
               /\ t.told = s.told /\ t.dead = s.dead /\ ~t.own
  BY SweptStreams DEF ChatTyped, ChatTypeOK

LEMMA OperatorTypes ==
  ASSUME ShellTypeOK, ShellTypeOK', ChatTyped,
         \/ AgentsArrive \/ NewChat \/ \E a \in Agents : SelectAgent(a)
         \/ \E c \in Conversations : LoadConversation(c) \/ DeleteConversation(c)
         \/ SendMessage
  PROVE  ChatTyped'
<1>1. CASE AgentsArrive
  <2>1. Restore(FirstAgent, chat, None)
    BY <1>1 DEF AgentsArrive
  <2>2. chat' \in Chat /\ activeId' \in MaybeConversation /\ pendingCid' = None
        /\ loads' \subseteq Load
    BY <2>1, FirstIsAgent, RestoreTyped DEF MaybeConversation, ChatTyped, ChatTypeOK
  <2>. QED BY <1>1, <2>2 DEF AgentsArrive, ChatTyped, ChatTypeOK, NotificationsTypeOK,
       bellVars, MaybeConversation
<1>2. CASE NewChat
  <2>1. [Emptied(Quiet(chat)) EXCEPT !.cid = None] \in Chat
    BY ChatFields DEF ChatTyped, ChatTypeOK, Chat, MaybeConversation
  <2>. QED BY <1>2, <2>1, StoppedFeeds DEF NewChat, ChatTyped, ChatTypeOK, NotificationsTypeOK,
       bellVars, MaybeConversation
<1>3. ASSUME NEW a \in Agents, SelectAgent(a) PROVE ChatTyped'
  <2>1. Restore(a, Emptied(Quiet(chat)), chat.cid)
    BY <1>3 DEF SelectAgent
  <2>2. chat' \in Chat /\ activeId' \in MaybeConversation /\ pendingCid' = None
        /\ loads' \subseteq Load
    BY <2>1, ChatFields, RestoreTyped DEF ChatTyped, ChatTypeOK
  <2>. QED BY <1>3, <2>2, StoppedFeeds DEF SelectAgent, ChatTyped, ChatTypeOK,
       NotificationsTypeOK, bellVars, MaybeConversation
<1>4. ASSUME NEW c \in Conversations, LoadConversation(c) PROVE ChatTyped'
  <2>1. [Quiet(chat) EXCEPT !.cid = c] \in Chat
    BY ChatFields DEF ChatTyped, ChatTypeOK, Chat, MaybeConversation
  <2>2. PICK l : l = [id |-> ops', cid |-> c, agent |-> chat.agent, answer |-> "asked"]
    OBVIOUS
  <2>3. l \in Load /\ loads' = loads \cup {l}
    BY <1>4, <2>2, ChatFields, RequestsTyped
    DEF LoadConversation, AskLoad, ChatTyped, ChatTypeOK, ShellTypeOK, MaybeAgent
  <2>. QED BY <1>4, <2>1, <2>3, StoppedFeeds DEF LoadConversation, ChatTyped, ChatTypeOK,
       NotificationsTypeOK, bellVars, MaybeConversation
<1>5. ASSUME NEW c \in Conversations, DeleteConversation(c) PROVE ChatTyped'
  <2>1. PICK b \in BOOLEAN : b <=> chat.cid = c
    OBVIOUS
  <2>2. PICK d : d = [cid |-> c, open |-> chat.cid = c, answered |-> FALSE]
    OBVIOUS
  <2>3. d \in Delete
    BY <2>2 DEF Delete
  <2>4. deletes' = deletes \cup {d}
    BY <1>5, <2>2 DEF DeleteConversation
  <2>. QED BY <1>5, <2>3, <2>4 DEF DeleteConversation, ChatTyped, ChatTypeOK,
       NotificationsTypeOK, noteVars
<1>6. CASE SendMessage
  <2>1. PICK s : s = [id |-> ops', agent |-> chat.agent, cid0 |-> chat.cid, cid |-> chat.cid,
                      st |-> "sent", told |-> FALSE, own |-> TRUE, dead |-> FALSE]
    OBVIOUS
  <2>2. s \in Stream /\ streams' = streams \cup {s}
    <3>1. chat.agent \in Agents /\ ops' \in Ids /\ chat.cid \in MaybeConversation
      BY <1>6, ChatFields DEF SendMessage, MaySend, ChatTyped, ChatTypeOK, ShellTypeOK, MaybeAgent
    <3>2. s \in Stream
      BY <2>1, <3>1 DEF Stream
    <3>. QED BY <1>6, <2>1, <3>2 DEF SendMessage
  <2>3. PICK b \in BOOLEAN : b <=> (chat.overlap \/ live # {})
    OBVIOUS
  <2>4. chat' \in Chat
    <3>1. chat' = [chat EXCEPT !.tail = "empty", !.sending = TRUE, !.ref = chat.cid,
                               !.abort = ops', !.overlap = @ \/ live # {}]
      BY <1>6 DEF SendMessage
    <3>. QED BY <3>1, ChatFields DEF ChatTyped, ChatTypeOK, Chat, ShellTypeOK
  <2>5. watched' \subseteq Conversations
    BY <1>6, ChatFields DEF SendMessage, ChatTyped, ChatTypeOK, NotificationsTypeOK, MaybeConversation
  <2>. QED BY <1>6, <2>2, <2>4, <2>5 DEF SendMessage, ChatTyped, ChatTypeOK, NotificationsTypeOK
<1>. QED BY <1>1, <1>2, <1>3, <1>4, <1>5, <1>6

\* A response names its conversation once the agent has accepted the message,
\* and keeps the one it was sent in.
StreamsNamed ==
    \A s \in streams :
       /\ s.st \in {"open", "done"} => s.cid \in Conversations
       /\ s.st = "sent" \/ s.cid0 # None => s.cid = s.cid0

LEMMA AnswerTypes ==
  ASSUME ShellTypeOK, ShellTypeOK', ChatTyped,
         \/ \E d \in deletes : DeleteServed(d) \/ DeleteReturns(d)
         \/ \E l \in loads : LoadServed(l) \/ LoadApplied(l)
         \/ \E p \in polls : PollAnswers(p)
         \/ \E t \in pollTicks : PollStep(t) \/ PollFinal(t)
  PROVE  ChatTyped'
<1>1. ASSUME NEW d \in deletes, DeleteServed(d) PROVE ChatTyped'
  <2>1. PICK e : e = [d EXCEPT !.answered = TRUE]
    OBVIOUS
  <2>2. e \in Delete /\ d.cid \in Conversations
    BY <2>1 DEF ChatTyped, ChatTypeOK, Delete
  <2>3. deletes' = (deletes \ {d}) \cup {e}
    BY <1>1, <2>1 DEF DeleteServed
  <2>4. conv' \in [Conversations -> {"none", "generating", "idle", "deleted"}]
    BY <1>1, <2>2 DEF DeleteServed, ChatTyped, NotificationsTypeOK
  <2>. QED BY <1>1, <2>2, <2>3, <2>4 DEF DeleteServed, ChatTyped, ChatTypeOK, NotificationsTypeOK
<1>2. ASSUME NEW d \in deletes, DeleteReturns(d) PROVE ChatTyped'
  <2>1. [Emptied(chat) EXCEPT !.cid = None] \in Chat
    BY ChatFields DEF ChatTyped, ChatTypeOK, Chat, MaybeConversation
  <2>. QED BY <1>2, <2>1, SweptOnly DEF DeleteReturns, ChatTyped, ChatTypeOK, NotificationsTypeOK,
       bellVars, MaybeConversation
<1>3. ASSUME NEW l \in loads, LoadServed(l) PROVE ChatTyped'
  <2>1. PICK x \in {"missing", "generating", "complete"} :
             loads' = (loads \ {l}) \cup {[l EXCEPT !.answer = x]}
    BY <1>3 DEF LoadServed
  <2>2. [l EXCEPT !.answer = x] \in Load
    BY DEF ChatTyped, ChatTypeOK, Load
  <2>. QED BY <1>3, <2>1, <2>2 DEF LoadServed, ChatTyped, ChatTypeOK, NotificationsTypeOK, noteVars
<1>4. ASSUME NEW l \in loads, LoadApplied(l) PROVE ChatTyped'
  <2>1. l.cid \in Conversations /\ l.id \in Ids /\ l.agent \in Agents
    BY DEF ChatTyped, ChatTypeOK, Load
  <2>2. PICK p : p = [id |-> l.id, cid |-> l.cid, agent |-> l.agent]
    OBVIOUS
  <2>3. p \in Poll
    BY <2>1, <2>2, RequestsTyped
  <2>4. chat' \in Chat
    <3>1. CASE chat' = Emptied(chat)
      BY <3>1, ChatFields DEF ChatTyped, ChatTypeOK
    <3>2. CASE chat' = [chat EXCEPT !.of = l.cid, !.tail = "text", !.stale = l.cid # chat.cid]
      BY <2>1, <3>2 DEF ChatTyped, ChatTypeOK, Chat, MaybeConversation
    <3>3. CASE chat' = [chat EXCEPT !.of = l.cid, !.tail = "empty", !.sending = TRUE,
                                    !.poll = l.id, !.stale = l.cid # chat.cid]
      BY <2>1, <3>3 DEF ChatTyped, ChatTypeOK, Chat, MaybeConversation
    <3>. QED BY <1>4, <3>1, <3>2, <3>3 DEF LoadApplied
  <2>5. polls' = polls \/ polls' = polls \cup {p}
    BY <1>4, <2>2 DEF LoadApplied
  <2>6. watched' = watched \/ watched' = watched \cup {l.cid}
    BY <1>4 DEF LoadApplied
  <2>7. streams' \subseteq Stream
    BY <1>4, SweptOnly DEF LoadApplied
  <2>. QED BY <1>4, <2>1, <2>3, <2>4, <2>5, <2>6, <2>7
       DEF LoadApplied, ChatTyped, ChatTypeOK, NotificationsTypeOK
<1>5. ASSUME NEW p \in polls, PollAnswers(p) PROVE ChatTyped'
  <2>1. p.cid \in Conversations /\ p.id \in Ids /\ p.agent \in Agents
    BY DEF ChatTyped, ChatTypeOK, Poll
  <2>2. PICK x \in {"generating", "finished"} :
             x = IF conv[p.cid] = "generating" THEN "generating" ELSE "finished"
    OBVIOUS
  <2>3. PICK t : t = [id |-> p.id, cid |-> p.cid, agent |-> p.agent, answer |-> x]
    OBVIOUS
  <2>4. t \in PollTick
    BY <2>1, <2>3, RequestsTyped
  <2>5. pollTicks' = pollTicks \cup {t}
    BY <1>5, <2>2, <2>3 DEF PollAnswers
  <2>. QED BY <1>5, <2>4, <2>5 DEF PollAnswers, ChatTyped, ChatTypeOK, NotificationsTypeOK, noteVars
<1>6. ASSUME NEW t \in pollTicks, PollStep(t) PROVE ChatTyped'
  <2>1. [t EXCEPT !.answer = "final"] \in PollTick /\ t.answer \in {"generating", "finished", "final"}
    BY DEF ChatTyped, ChatTypeOK, PollTick
  <2>2. CASE t.answer = "generating"
    <3>1. PICK b \in BOOLEAN : b <=> (chat.stale \/ t.cid # chat.of)
      OBVIOUS
    <3>2. [chat EXCEPT !.tail = "text", !.stale = @ \/ t.cid # chat.of] \in Chat
      BY ChatFields DEF ChatTyped, ChatTypeOK, Chat
    <3>. QED BY <1>6, <2>2, <3>2 DEF PollStep, ChatTyped, ChatTypeOK, NotificationsTypeOK, noteVars
  <2>3. CASE t.answer = "finished"
    <3>1. 0 \in Ids
      BY ShellAssumption DEF Ids
    <3>2. [chat EXCEPT !.poll = 0] \in Chat
      BY <3>1 DEF ChatTyped, ChatTypeOK, Chat
    <3>. QED BY <1>6, <2>1, <2>3, <3>2 DEF PollStep, ChatTyped, ChatTypeOK, NotificationsTypeOK, noteVars
  <2>. QED BY <1>6, <2>1, <2>2, <2>3 DEF PollStep
<1>7. ASSUME NEW t \in pollTicks, PollFinal(t) PROVE ChatTyped'
  <2>1. t.cid \in Conversations
    BY DEF ChatTyped, ChatTypeOK, PollTick
  <2>2. chat' \in Chat
    <3>1. CASE chat' = [chat EXCEPT !.of = t.cid, !.tail = "text", !.sending = FALSE,
                                    !.stale = t.cid # chat.cid]
      BY <2>1, <3>1 DEF ChatTyped, ChatTypeOK, Chat, MaybeConversation
    <3>2. CASE chat' = [chat EXCEPT !.sending = FALSE] \/ chat' = [chat EXCEPT !.lost = TRUE]
      BY <3>2 DEF ChatTyped, ChatTypeOK, Chat
    <3>. QED BY <1>7, <3>1, <3>2 DEF PollFinal
  <2>3. streams' \subseteq Stream
    BY <1>7, SweptOnly DEF PollFinal, ChatTyped, ChatTypeOK
  <2>. QED BY <1>7, <2>2, <2>3 DEF PollFinal, ChatTyped, ChatTypeOK, NotificationsTypeOK, noteVars
<1>. QED BY <1>1, <1>2, <1>3, <1>4, <1>5, <1>6, <1>7

LEMMA StreamTypes ==
  ASSUME ChatTyped, StreamsNamed, NEW s \in streams,
         \/ MessageAccepted(s) \/ MessageRefused(s) \/ Token(s)
         \/ Announce(s) \/ Done(s) \/ StreamEnds(s)
  PROVE  ChatTyped'
<1>0. s \in Stream
  BY DEF ChatTyped, ChatTypeOK
<1>1. CASE MessageAccepted(s)
  <2>1. PICK c \in Conversations :
             /\ conv' = [conv EXCEPT ![c] = "generating"]
             /\ owner' = [owner EXCEPT ![c] = s.agent]
             /\ streams' = (streams \ {s}) \cup {[s EXCEPT !.st = "open", !.cid = c]}
    BY <1>1 DEF MessageAccepted
  <2>2. [s EXCEPT !.st = "open", !.cid = c] \in Stream /\ s.agent \in Agents
    BY <1>0, StreamFields
  <2>. QED BY <1>1, <2>1, <2>2 DEF MessageAccepted, ChatTyped, ChatTypeOK, NotificationsTypeOK, MaybeAgent
<1>2. CASE MessageRefused(s)
  BY <1>0, <1>2, StreamFields DEF MessageRefused, ChatTyped, ChatTypeOK, NotificationsTypeOK, noteVars
<1>3. CASE Token(s)
  <2>1. [chat EXCEPT !.tail = "text"] \in Chat
    BY DEF ChatTyped, ChatTypeOK, Chat
  <2>. QED BY <1>3, <2>1 DEF Token, ChatTyped, ChatTypeOK, NotificationsTypeOK, noteVars, requestVars
<1>4. CASE Announce(s)
  <2>1. s.cid \in Conversations /\ [s EXCEPT !.told = TRUE] \in Stream
    BY <1>0, <1>4, StreamFields DEF Announce, StreamsNamed
  <2>2. [chat EXCEPT !.cid = s.cid, !.of = IF s.own THEN s.cid ELSE @] \in Chat
    BY <2>1 DEF ChatTyped, ChatTypeOK, Chat, MaybeConversation
  <2>3. chat' \in Chat /\ activeId' \in MaybeConversation
    BY <1>4, <2>1, <2>2 DEF Announce, ChatTyped, ChatTypeOK, NotificationsTypeOK, MaybeConversation
  <2>4. streams' \subseteq Stream
    BY <1>4, <2>1 DEF Announce, ChatTyped, ChatTypeOK
  <2>5. watched' \subseteq Conversations
    BY <1>4, <2>1 DEF Announce, ChatTyped, NotificationsTypeOK
  <2>. QED BY <1>4, <2>3, <2>4, <2>5 DEF Announce, ChatTyped, ChatTypeOK, NotificationsTypeOK
<1>5. CASE Done(s)
  <2>1. [chat EXCEPT !.sending = FALSE] \in Chat
    BY DEF ChatTyped, ChatTypeOK, Chat
  <2>. QED BY <1>0, <1>5, <2>1, StreamFields DEF Done, ChatTyped, ChatTypeOK, NotificationsTypeOK, noteVars
<1>6. CASE StreamEnds(s)
  <2>1. 0 \in Ids /\ None \in MaybeConversation
    BY ShellAssumption DEF Ids, MaybeConversation
  <2>2. [chat EXCEPT !.abort = 0] \in Chat
    BY <2>1 DEF ChatTyped, ChatTypeOK, Chat
  <2>3. [chat EXCEPT !.tail = IF @ = "empty" /\ s.st = "failed" THEN "text" ELSE @,
                     !.sending = FALSE, !.ref = None, !.abort = 0] \in Chat
    BY <2>1 DEF ChatTyped, ChatTypeOK, Chat
  <2>. QED BY <1>6, <2>2, <2>3 DEF StreamEnds, ChatTyped, ChatTypeOK, NotificationsTypeOK, noteVars
<1>. QED BY <1>1, <1>2, <1>3, <1>4, <1>5, <1>6

\* The steps of the chat page keep the types ...
LEMMA PlainTypes ==
  ASSUME ShellTypeOK, ShellTypeOK', ChatTyped, StreamsNamed, PlainChatStep
  PROVE  ChatTyped'
  BY OperatorTypes, AnswerTypes, StreamTypes DEF PlainChatStep, ChatStep

\* ... so do those of the provider ...
LEMMA ProviderTypes ==
  ASSUME NotificationsTypeOK, NotificationsNext
  PROVE  NotificationsTypeOK'
<1>1. ASSUME NEW c \in Conversations, StatusAnswers(c) PROVE NotificationsTypeOK'
  <2>1. [at |-> c, active |-> activeId] \in Tick
    BY DEF NotificationsTypeOK, Tick
  <2>. QED BY <1>1, <2>1 DEF StatusAnswers, NotificationsTypeOK
<1>2. ASSUME NEW c \in Conversations, GenerationEnds(c) PROVE NotificationsTypeOK'
  BY <1>2 DEF GenerationEnds, NotificationsTypeOK
<1>3. ASSUME NEW t \in ticks, WatchEnds(t) PROVE NotificationsTypeOK'
  <2>1. [cid |-> t.at, read |-> FALSE] \in Notice
    BY DEF NotificationsTypeOK, Tick, Notice
  <2>. QED BY <1>3, <2>1 DEF WatchEnds, NotificationsTypeOK
<1>4. CASE BellToggle \/ ClearAll \/ \E n \in notices : Dismiss(n)
  BY <1>4 DEF BellToggle, ClearAll, Dismiss, NotificationsTypeOK
<1>5. CASE BellReadTimer
  <2>1. \A n \in notices : [n EXCEPT !.read = TRUE] \in Notice
    BY DEF NotificationsTypeOK, Notice
  <2>. QED BY <1>5, <2>1 DEF BellReadTimer, NotificationsTypeOK
<1>. QED BY <1>1, <1>2, <1>3, <1>4, <1>5 DEF NotificationsNext

LEMMA FollowTypes ==
  ASSUME NotificationsTypeOK, NEW n \in notices, FollowNotice(n)
  PROVE  notices' \subseteq Notice /\ bellOpen' \in BOOLEAN /\ pendingCid' \in MaybeConversation
<1>1. [n EXCEPT !.read = TRUE] \in Notice /\ n.cid \in Conversations
  BY DEF NotificationsTypeOK, Notice
<1>. QED BY <1>1 DEF FollowNotice, NotificationsTypeOK, MaybeConversation

\* ... and a navigation, which replaces the page's part.
LEMMA SwitchTypes ==
  ASSUME ChatTyped, CompareTypeOK, PagesSwitch({}) \/ \E done \in SUBSET agReqs : PagesSwitch(done)
  PROVE  /\ ChatTypeOK'
         /\ conv' \in [Conversations -> {"none", "generating", "idle", "deleted"}]
         /\ activeId' \in MaybeConversation
         /\ CompareTypeOK'
<1>0. ChatSwitch /\ CompareSwitch
  BY DEF PagesSwitch
<1>1. CompareTypeOK'
  <2>1. NoCompare \in [on : BOOLEAN, sending : SUBSET Variants,
                        tail : [Variants -> {"none", "empty", "text"}], reset : BOOLEAN]
    BY DEF NoCompare
  <2>. QED BY <1>0, <2>1 DEF CompareSwitch, CompareTypeOK, cmpVars
<1>2. CASE UNCHANGED <<chatVars, conv, activeId>>
  BY <1>1, <1>2 DEF ChatTyped, ChatTypeOK, NotificationsTypeOK, chatVars
<1>3. CASE ~UNCHANGED <<chatVars, conv, activeId>>
  <2>1. /\ chat' = ChatClosed
        /\ streams' = {} \/ streams' = Outliving
        /\ loads' = {} /\ polls' = {} /\ pollTicks' = {} /\ deletes' = {}
        /\ activeId' = None
    BY <1>0, <1>3 DEF ChatSwitch
  <2>2. PICK found \in [Conversations -> Found(page')] :
             /\ conv' = [c \in Conversations |->
                           CASE c \notin Referred -> found[c].is
                             [] c \in Referred /\ (\E d \in deletes : d.cid = c) -> "deleted"
                             [] OTHER -> conv[c]]
             /\ owner' = [c \in Conversations |->
                            IF c \in Referred THEN owner[c] ELSE found[c].of]
    BY <1>0, <1>3 DEF ChatSwitch
  <2>3. ASSUME NEW c \in Conversations
        PROVE  found[c].is \in {"none", "generating", "idle"} /\ found[c].of \in MaybeAgent
    BY DEF Found, Unknown, MaybeAgent
  <2>4. conv' \in [Conversations -> {"none", "generating", "idle", "deleted"}]
    BY <2>2, <2>3 DEF ChatTyped, NotificationsTypeOK
  <2>5. owner' \in [Conversations -> MaybeAgent]
    BY <2>2, <2>3 DEF ChatTyped, ChatTypeOK
  <2>6. ChatClosed \in Chat
    <3>1. 0 \in Ids /\ None \in MaybeConversation /\ None \in MaybeAgent
      BY ShellAssumption DEF Ids, MaybeConversation, MaybeAgent
    <3>. QED BY <3>1 DEF Chat, ChatClosed
  <2>7. Outliving \subseteq Stream
    BY StreamFields DEF ChatTyped, ChatTypeOK, Outliving
  <2>. QED BY <1>1, <2>1, <2>4, <2>5, <2>6, <2>7 DEF ChatTypeOK, MaybeConversation
<1>. QED BY <1>2, <1>3

LEMMA NavigationTypes ==
  ASSUME ShellTypeOK, ChatTyped, CompareTypeOK, Navigation
  PROVE  NotificationsTypeOK'
<1>. DEFINE Kept == /\ watched' \subseteq Conversations /\ ticks' \subseteq Tick
                    /\ notices' \subseteq Notice /\ bellOpen' \in BOOLEAN
                    /\ pendingCid' \in MaybeConversation
<1>. DEFINE Switched == \/ UNCHANGED <<conv, activeId>>
                        \/ PagesSwitch({}) \/ \E done \in SUBSET agReqs : PagesSwitch(done)
<1>1. ASSUME ProviderSwitch PROVE Kept
  BY <1>1 DEF ProviderSwitch, ProviderBlank, bellVars, ChatTyped, NotificationsTypeOK
<1>2. ASSUME Kept, Switched PROVE NotificationsTypeOK'
  BY <1>2, SwitchTypes DEF ChatTyped, NotificationsTypeOK
<1>3. ASSUME NEW n \in notices, GoToChat(n) PROVE NotificationsTypeOK'
  <2>1. Kept
    BY <1>3, FollowTypes DEF GoToChat, ChatTyped, NotificationsTypeOK
  <2>2. Switched
    BY <1>3 DEF GoToChat
  <2>. QED BY <1>2, <2>1, <2>2
<1>4. ASSUME NEW r \in agReqs, AgentGone(r) PROVE NotificationsTypeOK'
  <2>1. CASE page = "agents"
    BY <1>4, <2>1 DEF AgentGone, noteVars, ChatTyped, NotificationsTypeOK
  <2>2. CASE page # "agents"
    <3>1. {r} \in SUBSET agReqs
      OBVIOUS
    <3>. QED BY <1>1, <1>2, <1>4, <2>2, <3>1 DEF AgentGone
  <2>. QED BY <2>1, <2>2
<1>5. ASSUME \/ \E p \in Pages : GoTo(p)
             \/ Refresh \/ LogOut \/ Unauthorized \/ LoginSucceeds
             \/ \E o \in wzOut : AgentMade(o)
             \/ \E o \in kbOut : BaseLeft(o)
      PROVE  NotificationsTypeOK'
  <2>1. ProviderSwitch /\ PagesSwitch({})
    BY <1>5 DEF GoTo, Refresh, LogOut, Unauthorized, LoginSucceeds, AgentMade, BaseLeft
  <2>. QED BY <1>1, <1>2, <2>1
<1>. QED BY <1>3, <1>4, <1>5 DEF Navigation

(***************************************************************************)
(* The comparison.  Either column is answered by one stream while it is    *)
(* locked, and by none otherwise, as long as no columns were cleared under *)
(* a running stream.                                                       *)
(***************************************************************************)
ColumnsAnswered ==
    /\ \A v \in cmp.sending : \E s \in cmpStreams : s.v = v
    /\ ~cmp.reset => /\ \A s \in cmpStreams : s.v \in cmp.sending
                     /\ \A s, t \in cmpStreams : s.v = t.v => s = t

CompareInv == CompareTypeOK /\ ColumnsAnswered

LEMMA CompareStreamFields ==
  ASSUME NEW s \in CmpStream
  PROVE  /\ s.v \in Variants /\ s.st \in {"sent", "open", "failed"}
         /\ \A r \in {"open", "failed"} :
               [s EXCEPT !.st = r] \in CmpStream /\ [s EXCEPT !.st = r].v = s.v
  BY DEF CmpStream

LEMMA ComparisonKept ==
  ASSUME ShellTypeOK, ShellTypeOK', CompareInv, CompareStep
  PROVE  CompareInv'
<1>0. /\ cmp.on \in BOOLEAN /\ cmp.sending \subseteq Variants /\ cmp.reset \in BOOLEAN
      /\ cmp.tail \in [Variants -> {"none", "empty", "text"}] /\ cmpStreams \subseteq CmpStream
  BY DEF CompareInv, CompareTypeOK
<1>1. CASE CompareToggle
  <2>1. CASE cmp.on
    <3>1. cmp' = [cmp EXCEPT !.on = FALSE] /\ cmpStreams' = cmpStreams
      BY <1>1, <2>1 DEF CompareToggle
    <3>2. cmp'.sending = cmp.sending /\ cmp'.reset = cmp.reset
      BY <3>1 DEF CompareInv, CompareTypeOK
    <3>3. CompareTypeOK'
      BY <3>1 DEF CompareInv, CompareTypeOK
    <3>. QED BY <3>1, <3>2, <3>3 DEF CompareInv, ColumnsAnswered
  <2>2. CASE ~cmp.on
    <3>1. PICK b \in BOOLEAN : b <=> (cmp.reset \/ cmpStreams # {})
      OBVIOUS
    <3>2. cmp' = [NoCompare EXCEPT !.on = TRUE, !.reset = cmp.reset \/ cmpStreams # {}]
          /\ cmpStreams' = cmpStreams
      BY <1>1, <2>2 DEF CompareToggle
    <3>3. /\ cmp' \in [on : BOOLEAN, sending : SUBSET Variants,
                       tail : [Variants -> {"none", "empty", "text"}], reset : BOOLEAN]
          /\ cmp'.sending = {} /\ (cmp'.reset <=> (cmp.reset \/ cmpStreams # {}))
      BY <1>0, <3>2 DEF NoCompare
    <3>. QED BY <1>0, <3>2, <3>3 DEF CompareInv, CompareTypeOK, ColumnsAnswered
  <2>. QED BY <2>1, <2>2
<1>2. CASE CompareSend
  <2>1. /\ cmp.sending = {} /\ ops' \in Ids
        /\ cmp' = [cmp EXCEPT !.sending = Variants, !.tail = [v \in Variants |-> "empty"]]
        /\ cmpStreams' = cmpStreams \cup [id : {ops'}, v : Variants, st : {"sent"}]
    BY <1>2 DEF CompareSend, CompareMaySend, ShellTypeOK
  <2>2. /\ cmp' \in [on : BOOLEAN, sending : SUBSET Variants,
                     tail : [Variants -> {"none", "empty", "text"}], reset : BOOLEAN]
        /\ cmp'.sending = Variants /\ cmp'.reset = cmp.reset
    BY <2>1 DEF CompareInv, CompareTypeOK
  <2>3. \A s \in [id : {ops'}, v : Variants, st : {"sent"}] :
           /\ s \in CmpStream /\ s.v \in Variants
           /\ s = [id |-> ops', v |-> s.v, st |-> "sent"]
    BY <2>1 DEF CmpStream
  <2>4. \A v \in Variants :
           LET s == [id |-> ops', v |-> v, st |-> "sent"]
           IN  s \in [id : {ops'}, v : Variants, st : {"sent"}] /\ s.v = v
    OBVIOUS
  <2>5. ~cmp.reset => cmpStreams = {}
    BY <2>1 DEF CompareInv, ColumnsAnswered
  <2>6. CompareTypeOK'
    BY <1>0, <2>1, <2>2, <2>3 DEF CompareTypeOK
  <2>7. \A v \in cmp'.sending : \E s \in cmpStreams' : s.v = v
    <3>. SUFFICES ASSUME NEW v \in Variants PROVE \E s \in cmpStreams' : s.v = v
      BY <2>2
    <3>1. PICK s : s = [id |-> ops', v |-> v, st |-> "sent"]
      OBVIOUS
    <3>2. s \in cmpStreams' /\ s.v = v
      BY <2>1, <2>4, <3>1
    <3>. QED BY <3>2
  <2>. QED BY <2>1, <2>2, <2>3, <2>5, <2>6, <2>7 DEF CompareInv, ColumnsAnswered
<1>3. ASSUME NEW s \in cmpStreams, CompareOpens(s) PROVE CompareInv'
  <2>1. PICK r \in {"open", "failed"} : cmpStreams' = (cmpStreams \ {s}) \cup {[s EXCEPT !.st = r]}
    BY <1>3 DEF CompareOpens
  <2>2. PICK t : t = [s EXCEPT !.st = r]
    OBVIOUS
  <2>3. t \in CmpStream /\ t.v = s.v
    BY <1>0, <2>2, CompareStreamFields
  <2>4. cmp' = cmp /\ cmpStreams' = (cmpStreams \ {s}) \cup {t}
    BY <1>3, <2>1, <2>2 DEF CompareOpens
  <2>. QED BY <1>0, <2>3, <2>4 DEF CompareInv, CompareTypeOK, ColumnsAnswered
<1>4. ASSUME NEW s \in cmpStreams, CompareToken(s) PROVE CompareInv'
  <2>1. cmp' = [cmp EXCEPT !.tail[s.v] = "text"] /\ cmpStreams' = cmpStreams
    BY <1>4 DEF CompareToken
  <2>2. /\ cmp' \in [on : BOOLEAN, sending : SUBSET Variants,
                     tail : [Variants -> {"none", "empty", "text"}], reset : BOOLEAN]
        /\ cmp'.sending = cmp.sending /\ cmp'.reset = cmp.reset
    BY <2>1 DEF CompareInv, CompareTypeOK
  <2>. QED BY <1>0, <2>1, <2>2 DEF CompareInv, CompareTypeOK, ColumnsAnswered
<1>5. ASSUME NEW s \in cmpStreams, CompareEnds(s) PROVE CompareInv'
  <2>1. /\ cmpStreams' = cmpStreams \ {s}
        /\ cmp' = [cmp EXCEPT !.sending = @ \ {s.v},
                   !.tail[s.v] = IF s.st = "failed" /\ @ = "empty" THEN "text" ELSE @]
    BY <1>5 DEF CompareEnds
  <2>2. /\ cmp' \in [on : BOOLEAN, sending : SUBSET Variants,
                     tail : [Variants -> {"none", "empty", "text"}], reset : BOOLEAN]
        /\ cmp'.sending = cmp.sending \ {s.v} /\ cmp'.reset = cmp.reset
    BY <1>0, <2>1 DEF CompareInv, CompareTypeOK
  <2>. QED BY <1>0, <2>1, <2>2 DEF CompareInv, CompareTypeOK, ColumnsAnswered
<1>. QED BY <1>1, <1>2, <1>3, <1>4, <1>5 DEF CompareStep

LEMMA ColumnsCounted == CompareInv => CompareColumnHasItsStream
<1>. SUFFICES ASSUME CompareInv, NEW v \in Variants
              PROVE  LET mine == {s \in cmpStreams : s.v = v}
                     IN  /\ v \in cmp.sending => mine # {}
                         /\ ~cmp.reset => Cardinality(mine) <= (IF v \in cmp.sending THEN 1 ELSE 0)
  BY DEF CompareColumnHasItsStream
<1>. DEFINE mine == {s \in cmpStreams : s.v = v}
<1>1. v \in cmp.sending => mine # {}
  BY DEF CompareInv, ColumnsAnswered
<1>2. CASE mine = {}
  BY <1>1, <1>2, FS_EmptySet
<1>3. ASSUME NEW s \in mine, ~cmp.reset
      PROVE  v \in cmp.sending /\ Cardinality(mine) = 1
  <2>1. mine = {s} /\ v \in cmp.sending
    BY <1>3 DEF CompareInv, ColumnsAnswered
  <2>. QED BY <2>1, FS_Singleton
<1>. QED BY <1>1, <1>2, <1>3

(***************************************************************************)
(* The chat's feeds.                                                       *)
(***************************************************************************)
\* Nothing feeds a page that has no agent yet.
NoAgentNoFeed ==
    chat.agent = None =>
       live = {} /\ loads = {} /\ polls = {} /\ pollTicks = {} /\ chat.of = None

\* One response at a time: as long as no second message went over an open
\* stream, the open one is the one the page can stop, and the page shows its
\* conversation, the unsaved new chat, or nothing.
OneFeed ==
    ~chat.overlap =>
       /\ \A s, t \in live : s = t
       /\ \A s \in live :
             /\ s.id = chat.abort /\ chat.ref = s.cid0 /\ chat.cid \in {None, s.cid}
             /\ s.cid0 = None /\ ~s.told => chat.cid = None

ChatInv ==
    /\ ChatTyped /\ StreamsNamed /\ NoAgentNoFeed /\ OneFeed
    /\ ChatLockHasWorker /\ TokensStayInTheirChat /\ OnlyLateAnswersMisplace

\* All that ChatInv says of streams, of which only the bubbles are swept.
LEMMA SweptKeeps ==
  ASSUME ChatTyped, streams' = Swept(streams)
  PROVE  /\ StreamsNamed => StreamsNamed'
         /\ live = {} => live' = {}
         /\ (\A s, t \in live : s = t) => \A s, t \in live' : s = t
         /\ \A t \in live' : \E s \in live :
               /\ t.id = s.id /\ t.cid0 = s.cid0 /\ t.cid = s.cid /\ t.st = s.st
               /\ t.told = s.told /\ ~t.own
         /\ \A s \in live : \E t \in live' : t.cid0 = s.cid0
<1>1. \A t \in streams' : \E s \in streams :
         /\ t = [s EXCEPT !.own = FALSE]
         /\ t.id = s.id /\ t.cid0 = s.cid0 /\ t.cid = s.cid /\ t.st = s.st
         /\ t.told = s.told /\ t.dead = s.dead /\ ~t.own
  BY SweptOnly
<1>2. StreamsNamed => StreamsNamed'
  BY <1>1 DEF StreamsNamed
<1>3. \A t \in live' : \E s \in live :
         /\ t = [s EXCEPT !.own = FALSE]
         /\ t.id = s.id /\ t.cid0 = s.cid0 /\ t.cid = s.cid /\ t.st = s.st
         /\ t.told = s.told /\ ~t.own
  BY <1>1 DEF live
<1>4. ASSUME NEW s \in live PROVE \E t \in live' : t.cid0 = s.cid0
  <2>1. PICK t : t = [s EXCEPT !.own = FALSE]
    OBVIOUS
  <2>2. s \in Stream /\ t \in streams'
    BY <2>1, SweptOnly DEF live, ChatTyped, ChatTypeOK
  <2>3. t.cid0 = s.cid0 /\ t.dead = s.dead
    BY <2>1, <2>2 DEF Stream
  <2>. QED BY <2>2, <2>3 DEF live
<1>5. ASSUME \A s, t \in live : s = t, NEW x \in live', NEW y \in live' PROVE x = y
  <2>1. PICK s \in live : x = [s EXCEPT !.own = FALSE]
    BY <1>3
  <2>2. PICK t \in live : y = [t EXCEPT !.own = FALSE]
    BY <1>3
  <2>3. s = t
    BY <1>5
  <2>. QED BY <2>1, <2>2, <2>3
<1>6. live = {} => live' = {}
  BY <1>3
<1>. QED BY <1>2, <1>3, <1>4, <1>5, <1>6

\* Selecting, opening or starting a conversation leaves the screen without a
\* feed, or at most with one that a second message left behind.
LEMMA StoppedKeeps ==
  ASSUME ChatInv, StopFeeds
  PROVE  /\ StreamsNamed'
         /\ ~chat.overlap => live' = {}
         /\ live = {} => live' = {}
<1>1. \A t \in streams' : \E s \in streams :
         /\ s.dead \/ s.id # chat.abort
         /\ t.cid0 = s.cid0 /\ t.cid = s.cid /\ t.st = s.st /\ t.dead = s.dead
  BY StoppedFeeds DEF ChatInv
<1>2. StreamsNamed'
  BY <1>1 DEF ChatInv, StreamsNamed
<1>3. ASSUME ~chat.overlap PROVE live' = {}
  BY <1>1, <1>3 DEF ChatInv, OneFeed, live
<1>4. live = {} => live' = {}
  BY <1>1 DEF live
<1>. QED BY <1>2, <1>3, <1>4

\* What follows for a page with no feed, and no lock, after the step.
LEMMA FeedlessKept ==
  ASSUME ~chat'.overlap => live' = {}, ~chat'.sending,
         loads' = {} /\ ~chat'.stale /\ ~chat'.overlap /\ chat'.of # None => chat'.of = chat'.cid
  PROVE  /\ OneFeed' /\ ChatLockHasWorker'
         /\ TokensStayInTheirChat' /\ OnlyLateAnswersMisplace'
  BY DEF OneFeed, ChatLockHasWorker, TokensStayInTheirChat, OnlyLateAnswersMisplace, Matches, live

LEMMA OperatorKeeps ==
  ASSUME ShellTypeOK, ShellTypeOK', ChatInv,
         \/ AgentsArrive \/ NewChat \/ \E a \in Agents : SelectAgent(a)
         \/ \E c \in Conversations : LoadConversation(c) \/ DeleteConversation(c)
         \/ SendMessage
  PROVE  ChatInv'
<1>0. ChatTyped' /\ chat \in Chat
  BY OperatorTypes DEF ChatInv, ChatTyped, ChatTypeOK
<1>1. CASE AgentsArrive
  <2>1. /\ Restore(FirstAgent, chat, None) /\ chat.agent = None
        /\ UNCHANGED <<streams, polls, pollTicks>>
    BY <1>1 DEF AgentsArrive
  <2>2. /\ chat'.agent # None /\ chat'.sending = chat.sending /\ chat'.ref = chat.ref
        /\ chat'.of = chat.of /\ chat'.lost = chat.lost
        /\ chat'.cid # None => loads' # {}
    BY <2>1, <1>0, FirstIsAgent, RestoreTyped, ChatAssumption DEF ChatInv, MaybeConversation
  <2>3. live = {} /\ polls = {} /\ pollTicks = {} /\ chat.of = None
    BY <2>1 DEF ChatInv, NoAgentNoFeed
  <2>4. live' = {}
    BY <2>1, <2>3 DEF live
  <2>5. ~chat.sending \/ chat.lost
    BY <2>3 DEF ChatInv, ChatLockHasWorker, Matches, live
  <2>. QED BY <1>0, <2>1, <2>2, <2>3, <2>4, <2>5
       DEF ChatInv, StreamsNamed, NoAgentNoFeed, OneFeed, ChatLockHasWorker,
           TokensStayInTheirChat, OnlyLateAnswersMisplace, Matches, live
<1>2. CASE NewChat
  <2>1. /\ StopFeeds /\ chat' = [Emptied(Quiet(chat)) EXCEPT !.cid = None]
        /\ loads' = loads /\ pollTicks' = pollTicks
    BY <1>2 DEF NewChat
  <2>2. /\ ~chat'.sending /\ chat'.of = None /\ chat'.agent = chat.agent
        /\ chat'.overlap = chat.overlap
    BY <1>0, <2>1 DEF Chat, Emptied, Quiet
  <2>3. NoAgentNoFeed'
    BY <2>1, <2>2, StoppedKeeps DEF ChatInv, NoAgentNoFeed, StopFeeds
  <2>. QED BY <1>0, <2>1, <2>2, <2>3, StoppedKeeps, FeedlessKept DEF ChatInv
<1>3. ASSUME NEW a \in Agents, SelectAgent(a) PROVE ChatInv'
  <2>1. StopFeeds /\ Restore(a, Emptied(Quiet(chat)), chat.cid)
    BY <1>3 DEF SelectAgent
  <2>2. /\ ~Emptied(Quiet(chat)).sending /\ Emptied(Quiet(chat)).of = None
        /\ Emptied(Quiet(chat)).overlap = chat.overlap
    BY <1>0 DEF Chat, Emptied, Quiet
  <2>3. Emptied(Quiet(chat)) \in Chat /\ chat.cid \in MaybeConversation
    BY <1>0, ChatFields
  <2>4. /\ chat'.agent # None /\ ~chat'.sending /\ chat'.of = None
        /\ chat'.overlap = chat.overlap
    BY <2>1, <2>2, <2>3, RestoreTyped, ChatAssumption DEF ChatInv
  <2>. QED BY <1>0, <2>1, <2>4, StoppedKeeps, FeedlessKept DEF ChatInv, NoAgentNoFeed
<1>4. ASSUME NEW c \in Conversations, LoadConversation(c) PROVE ChatInv'
  <2>1. /\ StopFeeds /\ chat' = [Quiet(chat) EXCEPT !.cid = c] /\ chat.agent # None
        /\ AskLoad(c, chat.agent)
    BY <1>4 DEF LoadConversation
  <2>2. ~chat'.sending /\ chat'.agent = chat.agent /\ chat'.overlap = chat.overlap
    BY <1>0, <2>1 DEF Chat, Quiet
  <2>3. loads' # {}
    BY <2>1 DEF AskLoad
  <2>. QED BY <1>0, <2>1, <2>2, <2>3, StoppedKeeps, FeedlessKept DEF ChatInv, NoAgentNoFeed
<1>5. ASSUME NEW c \in Conversations, DeleteConversation(c) PROVE ChatInv'
  BY <1>0, <1>5 DEF DeleteConversation, ChatInv, StreamsNamed, NoAgentNoFeed, OneFeed,
     ChatLockHasWorker, TokensStayInTheirChat, OnlyLateAnswersMisplace, Matches, live
<1>6. CASE SendMessage
  <2>1. PICK s : s = [id |-> ops', agent |-> chat.agent, cid0 |-> chat.cid, cid |-> chat.cid,
                      st |-> "sent", told |-> FALSE, own |-> TRUE, dead |-> FALSE]
    OBVIOUS
  <2>2. /\ s.id = ops' /\ s.cid0 = chat.cid /\ s.cid = chat.cid /\ s.st = "sent"
        /\ ~s.told /\ s.own /\ ~s.dead
    BY <2>1
  <2>3. streams' = streams \cup {s} /\ loads' = loads /\ chat.agent # None
    BY <1>6, <2>1 DEF SendMessage, MaySend
  <2>4. /\ chat'.agent = chat.agent /\ chat'.ref = chat.cid /\ chat'.abort = ops'
        /\ chat'.cid = chat.cid /\ chat'.of = chat.of /\ chat'.stale = chat.stale
        /\ chat'.overlap <=> (chat.overlap \/ live # {})
    BY <1>0, <1>6 DEF SendMessage, Chat
  <2>5. live' = live \cup {s}
    BY <2>2, <2>3 DEF live
  <2>6. StreamsNamed'
    BY <2>2, <2>3 DEF ChatInv, StreamsNamed
  <2>7. OneFeed'
    BY <2>2, <2>4, <2>5 DEF OneFeed
  <2>8. ChatLockHasWorker'
    BY <2>2, <2>3, <2>4 DEF ChatLockHasWorker, Matches
  <2>9. TokensStayInTheirChat'
    BY <2>2, <2>4, <2>5 DEF TokensStayInTheirChat, Matches, live
  <2>. QED BY <1>0, <2>3, <2>4, <2>6, <2>7, <2>8, <2>9
       DEF ChatInv, NoAgentNoFeed, OnlyLateAnswersMisplace
<1>. QED BY <1>1, <1>2, <1>3, <1>4, <1>5, <1>6

\* An answer that puts a conversation, or nothing, on the screen.
LEMMA SweptAnswer ==
  ASSUME ChatInv, ChatTyped', streams' = Swept(streams), chat.agent # None,
         chat'.agent = chat.agent, chat'.overlap = chat.overlap,
         chat'.abort = chat.abort, chat'.ref = chat.ref, ChatLockHasWorker',
         \/ chat'.of = None /\ chat'.tail = "none" /\ chat'.cid \in {None, chat.cid}
         \/ /\ chat'.cid = chat.cid /\ chat'.of \in Conversations
            /\ chat'.stale <=> chat'.of # chat.cid
  PROVE  ChatInv'
<1>1. /\ StreamsNamed' /\ chat.cid \in MaybeConversation
      /\ (\A s, t \in live : s = t) => \A s, t \in live' : s = t
      /\ \A t \in live' : \E s \in live :
            /\ t.id = s.id /\ t.cid0 = s.cid0 /\ t.cid = s.cid /\ t.st = s.st
            /\ t.told = s.told /\ ~t.own
  BY SweptKeeps, ChatFields DEF ChatInv, ChatTyped, ChatTypeOK
<1>2. OneFeed'
  <2>1. ASSUME ~chat.overlap, NEW t \in live'
        PROVE  /\ t.id = chat'.abort /\ chat'.ref = t.cid0 /\ chat'.cid \in {None, t.cid}
               /\ t.cid0 = None /\ ~t.told => chat'.cid = None
    BY <1>1, <2>1 DEF ChatInv, OneFeed
  <2>. QED BY <1>1, <2>1 DEF ChatInv, OneFeed
<1>3. TokensStayInTheirChat'
  <2>1. ASSUME NEW t \in live', ~chat'.overlap, ~chat'.stale, chat'.tail # "none"
        PROVE  t.cid # None /\ chat'.of = t.cid
    BY <1>2, <2>1, NotificationsAssumption DEF OneFeed
  <2>. QED BY <2>1 DEF TokensStayInTheirChat, Matches, live
<1>4. OnlyLateAnswersMisplace'
  BY DEF OnlyLateAnswersMisplace
<1>5. NoAgentNoFeed'
  BY DEF NoAgentNoFeed
<1>. QED BY <1>1, <1>2, <1>3, <1>4, <1>5 DEF ChatInv

\* An answer that leaves the bubbles, the streams and their refs alone.
LEMMA QuietAnswer ==
  ASSUME ChatInv, ChatTyped', streams' = streams, chat.agent # None, loads = {} => loads' = {},
         loads' = {} => loads = {},
         chat'.agent = chat.agent, chat'.overlap = chat.overlap,
         chat'.abort = chat.abort, chat'.ref = chat.ref, chat'.cid = chat.cid,
         chat'.of = chat.of, chat'.tail = "none" <=> chat.tail = "none",
         chat.stale => chat'.stale, ChatLockHasWorker'
  PROVE  ChatInv'
<1>1. live' = live
  BY DEF live
<1>. QED BY <1>1 DEF ChatInv, StreamsNamed, NoAgentNoFeed, OneFeed, TokensStayInTheirChat,
     OnlyLateAnswersMisplace, Matches, live

LEMMA AnswerKeeps ==
  ASSUME ShellTypeOK, ShellTypeOK', ChatInv,
         \/ \E d \in deletes : DeleteServed(d) \/ DeleteReturns(d)
         \/ \E l \in loads : LoadServed(l) \/ LoadApplied(l)
         \/ \E p \in polls : PollAnswers(p)
         \/ \E t \in pollTicks : PollStep(t) \/ PollFinal(t)
  PROVE  ChatInv'
<1>0. ChatTyped' /\ chat \in Chat
  BY AnswerTypes DEF ChatInv, ChatTyped, ChatTypeOK
<1>1. ASSUME NEW d \in deletes, DeleteServed(d) PROVE ChatInv'
  BY <1>0, <1>1 DEF DeleteServed, ChatInv, StreamsNamed, NoAgentNoFeed, OneFeed,
     ChatLockHasWorker, TokensStayInTheirChat, OnlyLateAnswersMisplace, Matches, live
<1>2. ASSUME NEW d \in deletes, DeleteReturns(d) PROVE ChatInv'
  <2>1. CASE d.open
    <3>1. /\ chat' = [Emptied(chat) EXCEPT !.cid = None] /\ streams' = Swept(streams)
          /\ UNCHANGED <<loads, polls, pollTicks>>
      BY <1>2, <2>1 DEF DeleteReturns
    <3>2. /\ chat'.of = None /\ chat'.tail = "none" /\ chat'.cid = None
          /\ chat'.agent = chat.agent /\ chat'.overlap = chat.overlap /\ chat'.lost = chat.lost
          /\ chat'.abort = chat.abort /\ chat'.ref = chat.ref /\ chat'.sending = chat.sending
      BY <1>0, <3>1 DEF Chat, Emptied
    <3>3. ChatLockHasWorker'
      <4>1. \A s \in live : \E t \in live' : t.cid0 = s.cid0
        BY <3>1, SweptKeeps DEF ChatInv
      <4>. QED BY <3>1, <3>2, <4>1 DEF ChatInv, ChatLockHasWorker, Matches, live
    <3>4. CASE chat.agent = None
      <4>1. live = {} /\ chat.of = None
        BY <3>4 DEF ChatInv, NoAgentNoFeed
      <4>2. live' = {} /\ StreamsNamed'
        BY <3>1, <4>1, SweptKeeps DEF ChatInv
      <4>. QED BY <1>0, <3>1, <3>2, <3>3, <3>4, <4>2
           DEF ChatInv, NoAgentNoFeed, OneFeed, TokensStayInTheirChat, OnlyLateAnswersMisplace,
               Matches, live
    <3>. QED BY <1>0, <3>1, <3>2, <3>3, <3>4, SweptAnswer
  <2>2. CASE ~d.open
    BY <1>0, <1>2, <2>2 DEF DeleteReturns, ChatInv, StreamsNamed, NoAgentNoFeed, OneFeed,
       ChatLockHasWorker, TokensStayInTheirChat, OnlyLateAnswersMisplace, Matches, live
  <2>. QED BY <2>1, <2>2
<1>3. ASSUME NEW l \in loads, LoadServed(l) PROVE ChatInv'
  <2>1. loads' # {} /\ UNCHANGED <<chat, streams, polls, pollTicks>> /\ chat.agent # None
    BY <1>3 DEF LoadServed, ChatInv, NoAgentNoFeed
  <2>2. ChatLockHasWorker'
    BY <2>1 DEF ChatInv, ChatLockHasWorker, Matches
  <2>. QED BY <1>0, <2>1, <2>2, QuietAnswer
<1>4. ASSUME NEW l \in loads, LoadApplied(l) PROVE ChatInv'
  <2>0. chat.agent # None /\ l.cid \in Conversations
    BY DEF ChatInv, NoAgentNoFeed, ChatTyped, ChatTypeOK, Load
  <2>1. streams' = Swept(streams) /\ pollTicks' = pollTicks
    BY <1>4 DEF LoadApplied
  <2>2. \A s \in live : \E t \in live' : t.cid0 = s.cid0
    BY <2>1, SweptKeeps DEF ChatInv
  <2>3. CASE chat' = Emptied(chat) /\ polls' = polls
    <3>1. /\ chat'.of = None /\ chat'.tail = "none" /\ chat'.cid = chat.cid
          /\ chat'.agent = chat.agent /\ chat'.overlap = chat.overlap /\ chat'.lost = chat.lost
          /\ chat'.abort = chat.abort /\ chat'.ref = chat.ref /\ chat'.sending = chat.sending
      BY <1>0, <2>3 DEF Chat, Emptied
    <3>2. ChatLockHasWorker'
      BY <2>1, <2>2, <2>3, <3>1 DEF ChatInv, ChatLockHasWorker, Matches, live
    <3>. QED BY <1>0, <2>0, <2>1, <3>1, <3>2, SweptAnswer
  <2>4. CASE /\ chat' = [chat EXCEPT !.of = l.cid, !.tail = "text", !.stale = l.cid # chat.cid]
             /\ polls' = polls
    <3>1. /\ chat'.of = l.cid /\ chat'.cid = chat.cid /\ (chat'.stale <=> l.cid # chat.cid)
          /\ chat'.agent = chat.agent /\ chat'.overlap = chat.overlap /\ chat'.lost = chat.lost
          /\ chat'.abort = chat.abort /\ chat'.ref = chat.ref /\ chat'.sending = chat.sending
      BY <1>0, <2>4 DEF Chat
    <3>2. ChatLockHasWorker'
      BY <2>1, <2>2, <2>4, <3>1 DEF ChatInv, ChatLockHasWorker, Matches, live
    <3>. QED BY <1>0, <2>0, <2>1, <3>1, <3>2, SweptAnswer
  <2>5. CASE /\ chat' = [chat EXCEPT !.of = l.cid, !.tail = "empty", !.sending = TRUE,
                                     !.poll = l.id, !.stale = l.cid # chat.cid]
             /\ polls' # {}
    <3>1. /\ chat'.of = l.cid /\ chat'.cid = chat.cid /\ (chat'.stale <=> l.cid # chat.cid)
          /\ chat'.agent = chat.agent /\ chat'.overlap = chat.overlap
          /\ chat'.abort = chat.abort /\ chat'.ref = chat.ref
      BY <1>0, <2>5 DEF Chat
    <3>2. ChatLockHasWorker'
      BY <2>5 DEF ChatLockHasWorker
    <3>. QED BY <1>0, <2>0, <2>1, <3>1, <3>2, SweptAnswer
  <2>. QED BY <1>4, <2>3, <2>4, <2>5 DEF LoadApplied
<1>5. ASSUME NEW p \in polls, PollAnswers(p) PROVE ChatInv'
  <2>1. chat.agent # None /\ UNCHANGED <<chat, streams, loads, polls>> /\ pollTicks \subseteq pollTicks'
    BY <1>5 DEF PollAnswers, ChatInv, NoAgentNoFeed
  <2>2. ChatLockHasWorker'
    BY <2>1 DEF ChatInv, ChatLockHasWorker, Matches
  <2>. QED BY <1>0, <2>1, <2>2, QuietAnswer
<1>6. ASSUME NEW t \in pollTicks, PollStep(t) PROVE ChatInv'
  <2>0. chat.agent # None /\ UNCHANGED <<streams, loads>>
    BY <1>6 DEF PollStep, ChatInv, NoAgentNoFeed
  <2>1. CASE t.answer = "generating"
    <3>1. /\ pollTicks' = pollTicks \ {t} /\ polls' = polls
          /\ chat' = IF chat.tail = "none" THEN chat
                     ELSE [chat EXCEPT !.tail = "text", !.stale = @ \/ t.cid # chat.of]
      BY <1>6, <2>1 DEF PollStep
    <3>2. /\ chat'.agent = chat.agent /\ chat'.overlap = chat.overlap /\ chat'.lost = chat.lost
          /\ chat'.abort = chat.abort /\ chat'.ref = chat.ref /\ chat'.sending = chat.sending
          /\ chat'.cid = chat.cid /\ chat'.of = chat.of
          /\ chat'.tail = "none" <=> chat.tail = "none"
          /\ chat.stale => chat'.stale
      BY <1>0, <3>1 DEF Chat
    <3>3. ChatLockHasWorker'
      BY <2>0, <2>1, <3>1, <3>2 DEF ChatInv, ChatLockHasWorker, Matches
    <3>. QED BY <1>0, <2>0, <3>2, <3>3, QuietAnswer
  <2>2. CASE t.answer = "finished"
    <3>1. /\ pollTicks' = (pollTicks \ {t}) \cup {[t EXCEPT !.answer = "final"]}
          /\ chat' = [chat EXCEPT !.poll = 0]
      BY <1>6, <2>2 DEF PollStep
    <3>2. /\ chat'.agent = chat.agent /\ chat'.overlap = chat.overlap
          /\ chat'.abort = chat.abort /\ chat'.ref = chat.ref
          /\ chat'.cid = chat.cid /\ chat'.of = chat.of /\ chat'.tail = chat.tail
          /\ chat'.stale = chat.stale
      BY <1>0, <3>1 DEF Chat
    <3>3. [t EXCEPT !.answer = "final"].answer = "final"
      BY DEF ChatInv, ChatTyped, ChatTypeOK, PollTick
    <3>4. ChatLockHasWorker'
      BY <3>1, <3>3 DEF ChatLockHasWorker
    <3>. QED BY <1>0, <2>0, <3>2, <3>4, QuietAnswer
  <2>. QED BY <1>6, <2>1, <2>2 DEF PollStep
<1>7. ASSUME NEW t \in pollTicks, PollFinal(t) PROVE ChatInv'
  <2>0. chat.agent # None /\ t.cid \in Conversations /\ UNCHANGED <<loads, polls>>
    BY <1>7 DEF PollFinal, ChatInv, NoAgentNoFeed, ChatTyped, ChatTypeOK, PollTick
  <2>1. CASE /\ chat' = [chat EXCEPT !.of = t.cid, !.tail = "text", !.sending = FALSE,
                                     !.stale = t.cid # chat.cid]
             /\ streams' = Swept(streams)
    <3>1. /\ chat'.of = t.cid /\ chat'.cid = chat.cid /\ (chat'.stale <=> t.cid # chat.cid)
          /\ chat'.agent = chat.agent /\ chat'.overlap = chat.overlap /\ ~chat'.sending
          /\ chat'.abort = chat.abort /\ chat'.ref = chat.ref
      BY <1>0, <2>1 DEF Chat
    <3>2. ChatLockHasWorker'
      BY <3>1 DEF ChatLockHasWorker
    <3>. QED BY <1>0, <2>0, <2>1, <3>1, <3>2, SweptAnswer
  <2>2. CASE /\ chat' = [chat EXCEPT !.sending = FALSE] \/ chat' = [chat EXCEPT !.lost = TRUE]
             /\ streams' = streams
    <3>1. /\ chat'.agent = chat.agent /\ chat'.overlap = chat.overlap
          /\ chat'.abort = chat.abort /\ chat'.ref = chat.ref
          /\ chat'.cid = chat.cid /\ chat'.of = chat.of /\ chat'.tail = chat.tail
          /\ chat'.stale = chat.stale /\ (~chat'.sending \/ chat'.lost)
      BY <1>0, <2>2 DEF Chat
    <3>2. ChatLockHasWorker'
      BY <3>1 DEF ChatLockHasWorker
    <3>. QED BY <1>0, <2>0, <2>2, <3>1, <3>2, QuietAnswer
  <2>. QED BY <1>7, <2>1, <2>2 DEF PollFinal
<1>. QED BY <1>1, <1>2, <1>3, <1>4, <1>5, <1>6, <1>7

\* One stream takes a step, and may unlock the input; the others, which feed
\* the screen only if a second message was sent, stay as they are.
LEMMA StreamKeeps ==
  ASSUME ChatInv, NEW s \in streams,
         \/ MessageAccepted(s) \/ MessageRefused(s) \/ Token(s)
         \/ Announce(s) \/ Done(s) \/ StreamEnds(s)
  PROVE  ChatInv'
<1>0. ChatTyped' /\ chat \in Chat /\ s \in Stream /\ UNCHANGED <<loads, polls, pollTicks>>
  <2>1. UNCHANGED <<loads, polls, pollTicks>>
    BY DEF MessageAccepted, MessageRefused, Token, Announce, Done, StreamEnds, requestVars
  <2>. QED BY <2>1, StreamTypes DEF ChatInv, ChatTyped, ChatTypeOK
<1>1. ASSUME NEW t, streams' = (streams \ {s}) \cup {t},
             t.id = s.id, t.cid0 = s.cid0, t.own = s.own, t.dead = s.dead, s.told => t.told,
             t.cid = s.cid \/ (s.st = "sent" /\ s.cid0 = None),
             t.st \in {"sent", "open"} => s.st \in {"sent", "open"},
             t.st \in {"open", "done"} => t.cid \in Conversations,
             t.st = "sent" \/ t.cid0 # None => t.cid = t.cid0,
             \/ UNCHANGED chat
             \/ chat' = [chat EXCEPT !.sending = FALSE]
      PROVE  ChatInv'
  <2>1. /\ chat'.agent = chat.agent /\ chat'.overlap = chat.overlap /\ chat'.lost = chat.lost
        /\ chat'.abort = chat.abort /\ chat'.ref = chat.ref /\ chat'.cid = chat.cid
        /\ chat'.of = chat.of /\ chat'.tail = chat.tail /\ chat'.stale = chat.stale
        /\ ~chat'.sending \/ (chat'.sending <=> chat.sending)
    BY <1>0, <1>1 DEF Chat
  <2>2. StreamsNamed'
    BY <1>1 DEF ChatInv, StreamsNamed
  <2>3. (s.dead => live' = live) /\ (~s.dead => s \in live /\ live' = (live \ {s}) \cup {t})
    BY <1>1 DEF live
  <2>4. s.st = "sent" => s.cid = s.cid0
    BY DEF ChatInv, StreamsNamed
  <2>5. OneFeed'
    BY <1>1, <2>1, <2>3, <2>4 DEF ChatInv, OneFeed
  <2>6. ChatLockHasWorker'
    BY <1>0, <1>1, <2>1 DEF ChatInv, ChatLockHasWorker, Matches
  <2>7. TokensStayInTheirChat'
    BY <1>1, <2>1, <2>4 DEF ChatInv, TokensStayInTheirChat, Matches
  <2>. QED BY <1>0, <2>1, <2>2, <2>3, <2>5, <2>6, <2>7
       DEF ChatInv, NoAgentNoFeed, OnlyLateAnswersMisplace
<1>2. CASE MessageAccepted(s)
  <2>1. PICK c \in Conversations :
             /\ s.cid0 # None => c = s.cid0
             /\ streams' = (streams \ {s}) \cup {[s EXCEPT !.st = "open", !.cid = c]}
    BY <1>2 DEF MessageAccepted
  <2>2. PICK t : t = [s EXCEPT !.st = "open", !.cid = c]
    OBVIOUS
  <2>3. /\ t.id = s.id /\ t.cid0 = s.cid0 /\ t.own = s.own /\ t.dead = s.dead /\ t.told = s.told
        /\ t.cid = c /\ t.st = "open" /\ s.st = "sent" /\ chat' = chat
    BY <1>0, <1>2, <2>2 DEF MessageAccepted, Stream
  <2>4. s.cid = s.cid0
    BY <2>3 DEF ChatInv, StreamsNamed
  <2>. QED BY <1>1, <2>1, <2>2, <2>3, <2>4
<1>3. CASE MessageRefused(s)
  <2>1. PICK t : t = [s EXCEPT !.st = "failed"]
    OBVIOUS
  <2>2. /\ t.id = s.id /\ t.cid0 = s.cid0 /\ t.own = s.own /\ t.dead = s.dead /\ t.told = s.told
        /\ t.cid = s.cid /\ t.st = "failed" /\ s.st = "sent" /\ chat' = chat
    BY <1>0, <1>3, <2>1 DEF MessageRefused, Stream
  <2>3. s.cid = s.cid0
    BY <2>2 DEF ChatInv, StreamsNamed
  <2>. QED BY <1>1, <1>3, <2>1, <2>2, <2>3 DEF MessageRefused
<1>4. CASE Token(s)
  <2>1. /\ streams' = streams /\ chat.tail # "none" /\ chat' = [chat EXCEPT !.tail = "text"]
    BY <1>4 DEF Token, requestVars
  <2>2. /\ chat'.agent = chat.agent /\ chat'.overlap = chat.overlap /\ chat'.lost = chat.lost
        /\ chat'.abort = chat.abort /\ chat'.ref = chat.ref /\ chat'.cid = chat.cid
        /\ chat'.of = chat.of /\ chat'.tail = "text" /\ chat'.stale = chat.stale
        /\ chat'.sending = chat.sending
    BY <1>0, <2>1 DEF Chat
  <2>. QED BY <1>0, <2>1, <2>2 DEF ChatInv, StreamsNamed, NoAgentNoFeed, OneFeed,
       ChatLockHasWorker, TokensStayInTheirChat, OnlyLateAnswersMisplace, Matches, live
<1>5. CASE Done(s)
  <2>1. PICK t : t = [s EXCEPT !.st = "done"]
    OBVIOUS
  <2>2. /\ t.id = s.id /\ t.cid0 = s.cid0 /\ t.own = s.own /\ t.dead = s.dead /\ t.told = s.told
        /\ t.cid = s.cid /\ t.st = "done" /\ s.st = "open"
    BY <1>0, <1>5, <2>1 DEF Done, Stream
  <2>3. s.cid \in Conversations /\ (s.cid0 # None => s.cid = s.cid0)
    BY <2>2 DEF ChatInv, StreamsNamed
  <2>4. streams' = (streams \ {s}) \cup {t}
        /\ (UNCHANGED chat \/ chat' = [chat EXCEPT !.sending = FALSE])
    BY <1>5, <2>1 DEF Done
  <2>. QED BY <1>1, <2>2, <2>3, <2>4
<1>6. CASE Announce(s)
  <2>1. s.st = "open" /\ ~s.told /\ s.cid \in Conversations /\ (s.cid0 # None => s.cid = s.cid0)
    BY <1>6 DEF Announce, ChatInv, StreamsNamed
  <2>2. CASE s.dead
    <3>1. streams' = streams \ {s} /\ chat' = chat
      BY <1>6, <2>2 DEF Announce, Matches
    <3>2. live' = live
      BY <2>2, <3>1 DEF live
    <3>. QED BY <1>0, <2>2, <3>1, <3>2 DEF ChatInv, StreamsNamed, NoAgentNoFeed, OneFeed,
         ChatLockHasWorker, TokensStayInTheirChat, OnlyLateAnswersMisplace, Matches
  <2>3. CASE ~s.dead
    <3>1. PICK t : t = [s EXCEPT !.told = TRUE]
      OBVIOUS
    <3>2. /\ t.id = s.id /\ t.cid0 = s.cid0 /\ t.own = s.own /\ t.dead = s.dead /\ t.told
          /\ t.cid = s.cid /\ t.st = "open"
      BY <1>0, <2>1, <3>1 DEF Stream
    <3>3. streams' = (streams \ {s}) \cup {t}
      BY <1>6, <2>3, <3>1 DEF Announce
    <3>4. CASE ~Matches(s)
      BY <1>1, <1>6, <2>1, <3>2, <3>3, <3>4 DEF Announce
    <3>5. CASE Matches(s)
      <4>1. chat' = [chat EXCEPT !.cid = s.cid, !.of = IF s.own THEN s.cid ELSE @]
        BY <1>6, <3>5 DEF Announce
      <4>2. /\ chat'.agent = chat.agent /\ chat'.overlap = chat.overlap /\ chat'.lost = chat.lost
            /\ chat'.abort = chat.abort /\ chat'.ref = chat.ref /\ chat'.cid = s.cid
            /\ chat'.of = (IF s.own THEN s.cid ELSE chat.of) /\ chat'.tail = chat.tail
            /\ chat'.stale = chat.stale /\ chat'.sending = chat.sending
        BY <1>0, <4>1 DEF Chat
      <4>3. live' = (live \ {s}) \cup {t} /\ s \in live
        BY <2>3, <3>2, <3>3 DEF live
      <4>4. StreamsNamed'
        BY <2>1, <3>2, <3>3 DEF ChatInv, StreamsNamed
      <4>5. OneFeed'
        BY <2>1, <3>2, <4>2, <4>3 DEF ChatInv, OneFeed
      <4>6. ChatLockHasWorker'
        BY <1>0, <3>2, <3>3, <4>2 DEF ChatInv, ChatLockHasWorker, Matches
      <4>7. OnlyLateAnswersMisplace'
        BY <1>0, <4>2, <4>3 DEF ChatInv, OneFeed, OnlyLateAnswersMisplace
      <4>8. TokensStayInTheirChat'
        <5>1. ~chat.overlap => live' = {t}
          BY <4>3 DEF ChatInv, OneFeed
        <5>2. ~chat.stale /\ ~chat.overlap /\ chat.tail # "none" => s.own \/ chat.of = s.cid
          BY <2>1, <3>5 DEF ChatInv, TokensStayInTheirChat
        <5>. QED BY <2>1, <3>2, <4>2, <5>1, <5>2, NotificationsAssumption
             DEF TokensStayInTheirChat, Matches, live
      <4>9. NoAgentNoFeed'
        BY <4>2, <4>3 DEF ChatInv, NoAgentNoFeed
      <4>. QED BY <1>0, <4>4, <4>5, <4>6, <4>7, <4>8, <4>9 DEF ChatInv
    <3>. QED BY <3>4, <3>5
  <2>. QED BY <2>2, <2>3
<1>7. CASE StreamEnds(s)
  <2>1. streams' = streams \ {s}
    BY <1>7 DEF StreamEnds
  <2>2. live' = live \ {s} /\ StreamsNamed'
    BY <2>1 DEF live, ChatInv, StreamsNamed
  <2>3. CASE s.dead
    <3>1. chat' = chat /\ live' = live
      BY <1>7, <2>2, <2>3 DEF StreamEnds, live
    <3>. QED BY <1>0, <2>1, <2>2, <2>3, <3>1 DEF ChatInv, NoAgentNoFeed, OneFeed,
         ChatLockHasWorker, TokensStayInTheirChat, OnlyLateAnswersMisplace, Matches
  <2>4. CASE ~s.dead
    <3>1. ~chat.overlap => live' = {} /\ Matches(s)
      BY <2>2, <2>4 DEF ChatInv, OneFeed, Matches, live
    <3>2. /\ chat'.agent = chat.agent /\ chat'.overlap = chat.overlap /\ chat'.lost = chat.lost
          /\ chat'.cid = chat.cid /\ chat'.of = chat.of /\ chat'.stale = chat.stale
          /\ \/ ~chat'.sending
             \/ ~Matches(s) /\ chat'.sending = chat.sending /\ chat'.ref = chat.ref
      BY <1>0, <1>7, <2>4 DEF StreamEnds, Chat
    <3>3. ChatLockHasWorker'
      BY <1>0, <2>1, <3>2 DEF ChatInv, ChatLockHasWorker, Matches
    <3>. QED BY <1>0, <2>2, <3>1, <3>2, <3>3 DEF ChatInv, NoAgentNoFeed, OneFeed,
         TokensStayInTheirChat, OnlyLateAnswersMisplace, Matches, live
  <2>. QED BY <2>3, <2>4
<1>. QED BY <1>2, <1>3, <1>4, <1>5, <1>6, <1>7

\* A page that is left takes its lock and its bubbles with it; a reader loop
\* that outlives it is dead.
LEMMA SwitchKeeps ==
  ASSUME ChatInv, ChatTyped', ChatSwitch
  PROVE  ChatInv'
<1>1. CASE UNCHANGED <<chatVars, conv, activeId>>
  BY <1>1 DEF ChatInv, chatVars, StreamsNamed, NoAgentNoFeed, OneFeed, ChatLockHasWorker,
     TokensStayInTheirChat, OnlyLateAnswersMisplace, Matches, live
<1>2. CASE ~UNCHANGED <<chatVars, conv, activeId>>
  <2>1. /\ chat' = ChatClosed
        /\ streams' = {} \/ streams' = Outliving
        /\ loads' = {} /\ polls' = {} /\ pollTicks' = {}
    BY <1>2 DEF ChatSwitch
  <2>2. \A t \in Outliving : \E s \in streams :
           t.dead /\ t.cid0 = s.cid0 /\ t.cid = s.cid /\ t.st = s.st
    BY DEF Outliving, ChatInv, ChatTyped, ChatTypeOK, Stream
  <2>3. live' = {} /\ StreamsNamed'
    BY <2>1, <2>2 DEF live, ChatInv, StreamsNamed
  <2>4. ~chat'.sending /\ chat'.of = None
    BY <2>1 DEF ChatClosed
  <2>. QED BY <2>1, <2>3, <2>4 DEF ChatInv, NoAgentNoFeed, OneFeed, ChatLockHasWorker,
       TokensStayInTheirChat, OnlyLateAnswersMisplace, Matches, live
<1>. QED BY <1>1, <1>2

(***************************************************************************)
(* Every step, and the theorems.                                           *)
(***************************************************************************)
LEMMA NotesTyped ==
  ASSUME ShellTypeOK, ChatInv, CompareInv, [Next]_vars
  PROVE  NotificationsTypeOK'
<1>1. CASE ProviderStep
  BY <1>1, ProviderTypes DEF ProviderStep, OfProvider, ChatInv, ChatTyped
<1>2. CASE ChatPageStep
  <2>1. ASSUME PlainChatStep PROVE NotificationsTypeOK'
    <3>1. ShellTypeOK'
      BY <2>1, ChatStays, StaysTyped
    <3>. QED BY <2>1, <3>1, PlainTypes DEF ChatInv, ChatTyped
  <2>. QED BY <1>2, <2>1 DEF ChatPageStep, noteVars, ChatInv, ChatTyped, NotificationsTypeOK
<1>3. CASE AgentPageStep \/ OtherPageStep \/ HandleSubmit \/ LoginFails
  BY <1>3 DEF AgentPageStep, OtherPageStep, HandleSubmit, LoginFails, noteVars, ChatInv, ChatTyped,
     NotificationsTypeOK
<1>4. CASE Navigation
  BY <1>4, NavigationTypes DEF ChatInv, CompareInv
<1>5. CASE UNCHANGED vars
  BY <1>5 DEF vars, noteVars, ChatInv, ChatTyped, NotificationsTypeOK
<1>. QED BY <1>1, <1>2, <1>3, <1>4, <1>5 DEF Next

LEMMA ChatKept ==
  ShellTypeOK /\ ChatInv /\ CompareInv /\ [Next]_vars => ChatInv' /\ CompareInv'
<1>. SUFFICES ASSUME ShellTypeOK, ChatInv, CompareInv, [Next]_vars PROVE ChatInv' /\ CompareInv'
  OBVIOUS
<1>0. NotificationsTypeOK'
  BY NotesTyped
<1>1. ASSUME UNCHANGED chatVars PROVE ChatInv'
  BY <1>0, <1>1 DEF ChatInv, ChatTyped, ChatTypeOK, chatVars, StreamsNamed, NoAgentNoFeed, OneFeed,
     ChatLockHasWorker, TokensStayInTheirChat, OnlyLateAnswersMisplace, Matches, live
<1>2. ASSUME UNCHANGED cmpVars PROVE CompareInv'
  BY <1>2 DEF CompareInv, CompareTypeOK, ColumnsAnswered, cmpVars
<1>3. CASE Stays /\ PlainChatStep /\ UNCHANGED cmpVars
  <2>1. ShellTypeOK'
    BY <1>3, StaysTyped
  <2>2. ChatInv'
    BY <1>3, <2>1, OperatorKeeps, AnswerKeeps, StreamKeeps DEF PlainChatStep, ChatStep
  <2>. QED BY <1>2, <1>3, <2>2
<1>4. CASE Stays /\ CompareStep /\ UNCHANGED <<noteVars, chatVars>>
  <2>1. ShellTypeOK'
    BY <1>4, StaysTyped
  <2>. QED BY <1>1, <1>4, <2>1, ComparisonKept
<1>5. ASSUME NEW done \in SUBSET agReqs, Moves(done) PROVE ChatInv' /\ CompareInv'
  <2>1. PagesSwitch(done) /\ ChatSwitch /\ CompareSwitch
    BY <1>5 DEF Moves, PagesSwitch
  <2>2. ChatTyped' /\ CompareTypeOK'
    BY <1>0, <2>1, SwitchTypes DEF ChatInv, CompareInv, ChatTyped
  <2>3. ColumnsAnswered'
    BY <2>1 DEF CompareSwitch, CompareInv, ColumnsAnswered, NoCompare, cmpVars
  <2>. QED BY <2>1, <2>2, <2>3, SwitchKeeps DEF CompareInv
<1>. QED BY <1>1, <1>2, <1>3, <1>4, <1>5, ChatMoves

LEMMA ChatStarts == Init => ChatInv /\ CompareInv
<1>. SUFFICES ASSUME Init PROVE ChatInv /\ CompareInv
  OBVIOUS
<1>1. /\ chat = ChatClosed
      /\ streams = {} /\ loads = {} /\ polls = {} /\ pollTicks = {} /\ deletes = {}
      /\ activeId = None /\ NotificationsInit /\ CompareInit
  BY DEF Init, ChatInit
<1>2. PICK found \in [Conversations -> Found(page)] :
           /\ conv = [c \in Conversations |-> found[c].is]
           /\ owner = [c \in Conversations |-> found[c].of]
  BY DEF Init, ChatInit
<1>3. ASSUME NEW c \in Conversations
      PROVE  found[c].is \in {"none", "generating", "idle"} /\ found[c].of \in MaybeAgent
  BY DEF Found, Unknown, MaybeAgent
<1>4. /\ conv \in [Conversations -> {"none", "generating", "idle", "deleted"}]
      /\ owner \in [Conversations -> MaybeAgent]
  BY <1>2, <1>3
<1>5. NotificationsTypeOK
  BY <1>1, <1>4 DEF NotificationsInit, NotificationsTypeOK, MaybeConversation
<1>6. ChatClosed \in Chat
  <2>1. 0 \in Ids /\ None \in MaybeConversation /\ None \in MaybeAgent
    BY ShellAssumption DEF Ids, MaybeConversation, MaybeAgent
  <2>. QED BY <2>1 DEF Chat, ChatClosed
<1>7. ChatTyped
  BY <1>1, <1>4, <1>5, <1>6 DEF ChatTyped, ChatTypeOK
<1>8. StreamsNamed /\ NoAgentNoFeed /\ OneFeed /\ ChatLockHasWorker
      /\ TokensStayInTheirChat /\ OnlyLateAnswersMisplace
  BY <1>1 DEF ChatClosed, StreamsNamed, NoAgentNoFeed, OneFeed, ChatLockHasWorker,
     TokensStayInTheirChat, OnlyLateAnswersMisplace, live
<1>9. CompareInv
  <2>1. NoCompare \in [on : BOOLEAN, sending : SUBSET Variants,
                       tail : [Variants -> {"none", "empty", "text"}], reset : BOOLEAN]
    BY DEF NoCompare
  <2>2. cmp = NoCompare /\ cmpStreams = {} /\ cmp.sending = {}
    BY <1>1 DEF CompareInit, NoCompare
  <2>. QED BY <2>1, <2>2 DEF CompareInv, CompareTypeOK, ColumnsAnswered
<1>. QED BY <1>7, <1>8, <1>9 DEF ChatInv

\* The inductive invariant of the chat page, its comparison and the provider.
THEOREM ChatSafe == Spec => [](ChatInv /\ CompareInv)
BY ChatStarts, ChatKept, ShellTyped, PTL DEF Spec

\* The provider, the chat page and its comparison keep their types.
THEOREM ChatPageTyped == Spec => [](NotificationsTypeOK /\ ChatTypeOK /\ CompareTypeOK)
<1>1. ChatInv /\ CompareInv => NotificationsTypeOK /\ ChatTypeOK /\ CompareTypeOK
  BY DEF ChatInv, ChatTyped, CompareInv
<1>. QED BY <1>1, ChatSafe, PTL

\* The chat's input is never locked without something left to unlock it.
THEOREM ChatLocksReleased == Spec => []ChatLockHasWorker
<1>1. ChatInv => ChatLockHasWorker
  BY DEF ChatInv
<1>. QED BY <1>1, ChatSafe, PTL

\* A response is written to no chat but its own.
THEOREM TokensKeptApart == Spec => []TokensStayInTheirChat
<1>1. ChatInv => TokensStayInTheirChat
  BY DEF ChatInv
<1>. QED BY <1>1, ChatSafe, PTL

\* The bubbles are those of the open conversation, late answers apart.
THEOREM BubblesAreOfTheOpen == Spec => []OnlyLateAnswersMisplace
<1>1. ChatInv => OnlyLateAnswersMisplace
  BY DEF ChatInv
<1>. QED BY <1>1, ChatSafe, PTL

\* A locked column of a comparison is being answered, by one stream.
THEOREM ColumnsHaveTheirStream == Spec => []CompareColumnHasItsStream
BY ChatSafe, ColumnsCounted, PTL
=============================================================================
