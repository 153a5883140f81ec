---------------------------- MODULE ComparePanel ----------------------------
(***************************************************************************)
(* The A/B test of the chat page: one question sent to the stable and to   *)
(* the canary variant of an agent, each answered by a stream of its own.   *)
(* The streams cannot be stopped: compareAbortRef is written and never     *)
(* used, neither by the toggle, nor by an unmount, nor by another agent.   *)
(*                                                                         *)
(*   cmp         compareMode, compareSending (the variants still answering)*)
(*               and, per column, the last bubble; reset records that the  *)
(*               columns were cleared while a stream was open              *)
(*   cmpStreams  reader loops that have not ended                          *)
(***************************************************************************)
EXTENDS ChatPage

VARIABLES cmp, cmpStreams

cmpVars == <<cmp, cmpStreams>>

Variants == {"stable", "canary"}
CmpStream == [id : Ids, v : Variants, st : {"sent", "open", "failed"}]

CompareTypeOK ==
    /\ cmp \in [on : BOOLEAN, sending : SUBSET Variants,
                tail : [Variants -> {"none", "empty", "text"}], reset : BOOLEAN]
    /\ cmpStreams \subseteq CmpStream

NoCompare == [on |-> FALSE, sending |-> {}, tail |-> [v \in Variants |-> "none"], reset |-> FALSE]

CompareInit == cmp = NoCompare /\ cmpStreams = {}

\* The button of the agent's card: switching the mode on clears the columns
\* and the locks, whatever is still streaming.
CompareToggle ==
    /\ On("chat") /\ Click /\ chat.agent # None
    /\ cmp' = IF cmp.on THEN [cmp EXCEPT !.on = FALSE]
              ELSE [NoCompare EXCEPT !.on = TRUE, !.reset = cmp.reset \/ cmpStreams # {}]
    /\ UNCHANGED cmpStreams

CompareMaySend == cmp.on /\ chat.agent # None /\ cmp.sending = {}

CompareSend ==
    /\ On("chat") /\ Click /\ CompareMaySend
    /\ cmp' = [cmp EXCEPT !.sending = Variants, !.tail = [v \in Variants |-> "empty"]]
    /\ cmpStreams' = cmpStreams \cup [id : {ops'}, v : Variants, st : {"sent"}]

\* The response's status arrives, then its tokens, which go into the last
\* bubble of the column, and the end of the stream, which unlocks the column.
CompareOpens(s) ==
    /\ s.st = "sent" /\ Unattended
    /\ \E r \in {"open", "failed"} : cmpStreams' = (cmpStreams \ {s}) \cup {[s EXCEPT !.st = r]}
    /\ UNCHANGED cmp

CompareToken(s) ==
    /\ s.st = "open" /\ cmp.tail[s.v] # "none" /\ Unattended
    /\ cmp' = [cmp EXCEPT !.tail[s.v] = "text"]
    /\ UNCHANGED cmpStreams

\* Mutant: the first variant to finish unlocks both columns.
CompareEndsBoth(s) ==
    /\ s.st # "sent" /\ Unattended
    /\ cmpStreams' = cmpStreams \ {s}
    /\ cmp' = [cmp EXCEPT !.sending = {}]

CompareEnds(s) ==
    /\ s.st # "sent" /\ Unattended
    /\ cmpStreams' = cmpStreams \ {s}
    /\ cmp' = [cmp EXCEPT !.sending = @ \ {s.v},
                          !.tail[s.v] = IF s.st = "failed" /\ @ = "empty" THEN "text" ELSE @]

\* The chat's own input is there while nothing is compared; its bubbles go on
\* changing behind the columns.
PlainChatStep == ChatStep \/ (~cmp.on /\ SendMessage)

CompareStep ==
    /\ page = "chat"
    /\ \/ CompareToggle \/ CompareSend
       \/ \E s \in cmpStreams : CompareOpens(s) \/ CompareToken(s) \/ CompareEnds(s)

\* A loop that outlives its page writes to nothing.
CompareSwitch ==
    IF Leaving("chat") \/ Entering("chat") \/ Reloading
    THEN cmp' = NoCompare /\ cmpStreams' = {}
    ELSE UNCHANGED cmpVars

\* A column that is locked is being answered; and a column is answered by one
\* stream at a time, so that its text is the answer to its last question,
\* unless the columns were cleared under a running stream.
CompareColumnHasItsStream ==
    \A v \in Variants :
       LET mine == {s \in cmpStreams : s.v = v}
       IN  /\ v \in cmp.sending => mine # {}
           /\ ~cmp.reset => Cardinality(mine) <= (IF v \in cmp.sending THEN 1 ELSE 0)
=============================================================================
