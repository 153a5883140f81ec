----------------------------- MODULE SkillsPage -----------------------------
(***************************************************************************)
(* The page skills.  The list itself is a catalogue like the others (ct of *)
(* Catalog: dialog is the modal, panel the skill in the detail panel); in  *)
(* addition the page assigns skills to agents by sending an agent's whole  *)
(* list, computed from the agents it fetched.  One agent stands for all.   *)
(*                                                                         *)
(*   sk        cached: the agent's skills as last fetched, known: there is *)
(*             an agent to show; editing: the skill in the modal; tab and  *)
(*             importing: the import tab and its lock; wanted, stale: what *)
(*             the operator's commands add up to, and whether one was      *)
(*             given while another was under way                           *)
(*   skReqs    PUTs of an agent's list, and fetches of the agents          *)
(*   assigned  external: the agent's skills at the server                  *)
(***************************************************************************)
EXTENDS Catalog

VARIABLES sk, skReqs, assigned

skVars == <<sk, skReqs, assigned>>

SkillsState == [known : BOOLEAN, cached : SUBSET Items, editing : MaybeItems,
                tab : {"skills", "import"}, importing : BOOLEAN,
                wanted : SUBSET Items, stale : BOOLEAN]

\* list: what is sent or was fetched; n: the skill concerned, up: assigned.
SkReq == [id : Ids, k : {"put", "agents"}, n : MaybeItems, up : BOOLEAN,
          list : SUBSET Items, st : {"asked", "ok", "failed"}]

SkillsTypeOK == sk \in SkillsState /\ skReqs \subseteq SkReq /\ assigned \subseteq Items

SkClosed(list) == [known |-> FALSE, cached |-> {}, editing |-> NoItem, tab |-> "skills",
                   importing |-> FALSE, wanted |-> list, stale |-> FALSE]

AgentsAsked(i) == [id |-> i, k |-> "agents", n |-> NoItem, up |-> FALSE, list |-> {}, st |-> "asked"]

OnSkills == OnCatalog("skills")
Behind == ct.dialog \/ ct.panel # NoItem      \* an overlay covers the page

\* loadSkills: the list is replaced by a placeholder, and with it the import
\* tab, whose lock is gone when it appears again.
SkillsReload(r, state) ==
    /\ IF r.st = "ok"
       THEN /\ ct' = [state EXCEPT !.loading = TRUE]
            /\ Asks(ctReqs \ {r}, r.id, "load", 1)
            /\ sk' = [sk EXCEPT !.importing = FALSE, !.editing = IF state.dialog THEN @ ELSE NoItem]
       ELSE /\ ct' = ct /\ ctReqs' = ctReqs \ {r} /\ raced' = TRUE
            /\ sk' = [sk EXCEPT !.importing = @ /\ r.k # "import"]
    /\ UNCHANGED <<store, teamStore, skReqs, assigned>>

SkillsArrive(r) ==
    /\ CtHandles("skills", r, "load")
    /\ Settles(r, Shows(r, {})) /\ UNCHANGED skVars

\* Create, and Clone, from a card or from the panel.
OpenCreate ==
    /\ OnSkills /\ ~ct.dialog
    /\ Edits([ct EXCEPT !.dialog = TRUE, !.panel = NoItem])
    /\ sk' = [sk EXCEPT !.editing = NoItem] /\ UNCHANGED <<skReqs, assigned>>

\* Skill 0 is built in: it can be cloned, not edited nor deleted.
OnSkill(i) ==
    /\ i # 0
    /\ \/ ~Behind /\ ~ct.loading /\ sk.tab = "skills" /\ i \in ct.shown
       \/ ~ct.dialog /\ ct.panel = i

OpenEdit(i) ==
    /\ OnSkills /\ OnSkill(i)
    /\ Edits([ct EXCEPT !.dialog = TRUE, !.panel = NoItem])
    /\ sk' = [sk EXCEPT !.editing = i] /\ UNCHANGED <<skReqs, assigned>>

CloseModal ==
    /\ OnSkills /\ ct.dialog
    /\ Edits([ct EXCEPT !.dialog = FALSE])
    /\ sk' = [sk EXCEPT !.editing = NoItem] /\ UNCHANGED <<skReqs, assigned>>

\* Save does not lock; its answer closes whatever modal is open.
HandleSave ==
    /\ OnSkills /\ ct.dialog
    /\ IF sk.editing = NoItem THEN Commanded("create", ops') ELSE Commanded("change", sk.editing)
    /\ UNCHANGED <<ct, skVars>>

SkillSaved(r) ==
    /\ CtHandles("skills", r, "create") \/ CtHandles("skills", r, "change")
    /\ SkillsReload(r, [ct EXCEPT !.dialog = FALSE])

SkillDelete(i) ==
    /\ OnSkills /\ OnSkill(i)
    /\ Commanded("delete", i) /\ UNCHANGED <<ct, skVars>>

SkillDeleted(r) ==
    /\ CtHandles("skills", r, "delete")
    /\ SkillsReload(r, [ct EXCEPT !.panel = NoItem])

SkillDetail(i) ==
    /\ OnSkills
    /\ \/ ct.panel # NoItem /\ i = NoItem
       \/ ~Behind /\ ~ct.loading /\ sk.tab = "skills" /\ i \in ct.shown
    /\ Edits([ct EXCEPT !.panel = i]) /\ UNCHANGED skVars

SkillsTab ==
    /\ OnSkills /\ ~Behind
    /\ sk' = [sk EXCEPT !.tab = IF @ = "skills" THEN "import" ELSE "skills", !.importing = FALSE]
    /\ UNCHANGED <<ctVars, skReqs, assigned>>

HandleImport ==
    /\ OnSkills /\ ~Behind /\ ~ct.loading /\ sk.tab = "import" /\ ~sk.importing
    /\ Commanded("import", ops')
    /\ sk' = [sk EXCEPT !.importing = TRUE]
    /\ UNCHANGED <<ct, skReqs, assigned>>

SkillImported(r) == CtHandles("skills", r, "import") /\ SkillsReload(r, ct)

(***************************************************************************)
(* handleAssignAgent and handleUnassignAgent.                              *)
(***************************************************************************)
\* Mutant: an assignment sends the new skill only.
NewSkillOnly(i, up) == IF up THEN {i} ELSE sk.cached \ {i}

NewSkills(i, up) == IF up THEN sk.cached \cup {i} ELSE sk.cached \ {i}

AssignSkill(up) ==
    /\ OnSkills /\ ~ct.dialog /\ ct.panel # NoItem
    /\ sk.known /\ (ct.panel \in sk.cached <=> ~up)
    /\ skReqs' = skReqs \cup {[id |-> ops', k |-> "put", n |-> ct.panel, up |-> up,
                               list |-> NewSkills(ct.panel, up), st |-> "asked"]}
    /\ sk' = [sk EXCEPT !.stale = @ \/ skReqs # {}]
    /\ UNCHANGED <<ctVars, assigned>>

\* loadAgents, after an assignment that was accepted.
SkillAssigned(r) ==
    /\ page = "skills" /\ r.k = "put" /\ r.st # "asked" /\ Unattended
    /\ skReqs' = (skReqs \ {r}) \cup (IF r.st = "ok" THEN {AgentsAsked(r.id)} ELSE {})
    /\ sk' = [sk EXCEPT !.stale = @ \/ r.st = "failed"]
    /\ UNCHANGED <<ctVars, assigned>>

SkillAgentsArrive(r) ==
    /\ page = "skills" /\ r.k = "agents" /\ r.st # "asked" /\ Unattended
    /\ skReqs' = skReqs \ {r}
    /\ sk' = [sk EXCEPT !.known = r.st = "ok", !.cached = IF r.st = "ok" THEN r.list ELSE {}]
    /\ UNCHANGED <<ctVars, assigned>>

\* External: the API server stores the list it is sent.
SkServed(r) ==
    /\ r.st = "asked" /\ Unattended
    /\ \/ /\ assigned' = IF r.k = "put" THEN r.list ELSE assigned
          /\ skReqs' = (skReqs \ {r}) \cup {[r EXCEPT !.st = "ok", !.list = assigned']}
          /\ sk' = IF r.k = "agents" THEN sk
                   ELSE [sk EXCEPT !.wanted = IF r.up THEN @ \cup {r.n} ELSE @ \ {r.n}]
       \/ /\ skReqs' = (skReqs \ {r}) \cup {[r EXCEPT !.st = "failed"]}
          /\ UNCHANGED <<assigned, sk>>
    /\ UNCHANGED ctVars

SkillsStep ==
    /\ page = "skills"
    /\ \/ OpenCreate \/ CloseModal \/ HandleSave \/ SkillsTab \/ HandleImport
       \/ \E i \in Items : OpenEdit(i) \/ SkillDelete(i)
       \/ \E i \in MaybeItems : SkillDetail(i)
       \/ \E up \in BOOLEAN : AssignSkill(up)
       \/ \E r \in ctReqs : \/ SkillsArrive(r) \/ SkillSaved(r)
                            \/ SkillDeleted(r) \/ SkillImported(r)
       \/ \E r \in skReqs : SkServed(r) \/ SkillAssigned(r) \/ SkillAgentsArrive(r)

SkMounted(p) ==
    /\ assigned' \in (IF p = "skills" THEN {{}, {NoItem - 1}} ELSE {{}})
    /\ sk' = SkClosed(assigned')
    /\ skReqs' = IF p = "skills" THEN {AgentsAsked(ops')} ELSE {}

SkillsInit ==
    /\ assigned \in (IF page = "skills" THEN {{}, {NoItem - 1}} ELSE {{}})
    /\ sk = SkClosed(assigned)
    /\ skReqs = IF page = "skills" THEN {AgentsAsked(0)} ELSE {}

SkillsSwitch ==
    IF page = "skills" \/ page' = "skills" \/ Reloading THEN SkMounted(page') ELSE UNCHANGED skVars

(***************************************************************************)
(* Properties                                                              *)
(***************************************************************************)
\* Assigning a skill never loses another one: although each assignment sends
\* the agent's whole list, the server's list is what the accepted assignments
\* and removals add up to, as long as none was made while the previous one,
\* or the fetch after it, was under way, and none was lost.
AssignmentsAddUp == ~sk.stale => assigned = sk.wanted
=============================================================================
