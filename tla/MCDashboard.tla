----------------------------- MODULE MCDashboard -----------------------------
(* Instances of Dashboard for TLC. *)
EXTENDS Dashboard, TLC

CONSTANTS c1, c2, a1, a2

\* Conversations are alike, whichever agent keeps them.
ConversationSymmetry == Permutations(Conversations)

AllPages == {"chat", "agent", "wizard", "kb", "kbNew", "evaluations", "skills",
             "memory", "integrations", "teams", "governance", "prompts", "agents", "kbs", "login"}

\* Clicks after which nothing more is clicked: as many as a page's hazards
\* take from its mount (a tab and two commands, a file, its upload and one
\* more, ...).  The wizard's own clicks are not counted.
MCClicks == [p \in AllPages |->
    CASE p = "governance" -> 4
      [] p \in {"agent", "kb", "integrations", "evaluations", "skills", "agents"} -> 3
      [] OTHER -> 2]
=============================================================================
