------------------------------ MODULE Catalog ------------------------------
(***************************************************************************)
(* The pages that keep a list of things at the server: memory,             *)
(* integrations, teams, governance policies, prompts, skills, agents and   *)
(* knowledge bases.  Each fetches its list when mounted and brings it up   *)
(* to date after its own commands, either by fetching it again (reload) or *)
(* by editing the copy it shows.  One of them is mounted at a time, so one *)
(* variable serves them all.                                               *)
(*                                                                         *)
(*   ct      shown: the list; scope: the agent whose memories are listed   *)
(*           (1 on the other pages; 0 before the agents are known, and on  *)
(*           the tab of governance that shows no policies);                *)
(*           searching: search results are shown; dialog: the form or      *)
(*           modal is open; saving disables its button; panel: the team    *)
(*           that is open (the skill, on the skills page), members: those  *)
(*           shown; crossed: the members were asked for, or changed, over  *)
(*           another request, or a request about them failed               *)
(*   raced   the list was asked for, or changed, over another request, or  *)
(*           a request about it failed: it may be out of date for good     *)
(*   ctReqs  requests in flight                                            *)
(*   store, teamStore  external: the lists, and a team's members, at the   *)
(*           server                                                        *)
(*                                                                         *)
(* Things are numbered by the click that created them.                     *)
(***************************************************************************)
EXTENDS KnowledgePage

VARIABLES ct, ctReqs, raced, store, teamStore

ctVars == <<ct, ctReqs, raced, store, teamStore>>

CatalogPages == {"memory", "integrations", "teams", "governance", "prompts", "skills", "agents", "kbs"}
Items == Ids
Scopes == {1, 2}
MaybeItems == Items \cup {MaxOps + 1}   \* MaxOps + 1: none
NoItem == MaxOps + 1

CtState == [loading : BOOLEAN, shown : SUBSET Items, scope : 0..2, searching : BOOLEAN,
            dialog : BOOLEAN, saving : BOOLEAN, panel : MaybeItems, members : SUBSET Items,
            crossed : BOOLEAN]

ListKinds == {"load", "search", "reload"}
Commands == {"create", "delete", "change", "import"}
MemberLists == {"members", "recount"}
MemberCommands == {"join", "part", "role"}
MemberKinds == MemberLists \cup MemberCommands
CtReq == [id : Ids, k : ListKinds \cup Commands \cup MemberKinds, n : MaybeItems, scope : 0..2,
          st : {"asked", "ok", "failed"}, got : SUBSET Items]

CatalogTypeOK ==
    /\ ct \in CtState /\ ctReqs \subseteq CtReq /\ raced \in BOOLEAN
    /\ store \in [Scopes -> SUBSET Items] /\ teamStore \subseteq Items

CtClosed == [loading |-> TRUE, shown |-> {}, scope |-> 1, searching |-> FALSE,
             dialog |-> FALSE, saving |-> FALSE, panel |-> NoItem, members |-> {},
             crossed |-> FALSE]

CtReqNew(i, k, n, s) == [id |-> i, k |-> k, n |-> n, scope |-> s, st |-> "asked", got |-> {}]

loadUnderWay == \E r \in ctReqs : r.k \in ListKinds

OnCatalog(p) == On(p) /\ Click
CtHandles(p, r, k) == page = p /\ r.k = k /\ r.st # "asked" /\ Unattended

(***************************************************************************)
(* The ways of a list.                                                     *)
(***************************************************************************)
\* Ask for the list, again (i numbers the request, s is the scope).
Asks(rest, i, k, s) ==
    /\ ctReqs' = rest \cup {CtReqNew(i, k, NoItem, s)}
    /\ raced' = (s # ct'.scope \/ \E r \in rest : r.k \in ListKinds \cup Commands)

\* A command to the server.
Commanded(k, n) ==
    /\ ctReqs' = ctReqs \cup {CtReqNew(ops', k, n, ct.scope)}
    /\ raced' = (raced \/ loadUnderWay)
    /\ UNCHANGED <<store, teamStore>>

\* The answer to r is handled: state is what the page shows then.
Settles(r, state) ==
    /\ ct' = state
    /\ ctReqs' = ctReqs \ {r}
    /\ raced' = (raced \/ r.st = "failed")
    /\ UNCHANGED <<store, teamStore>>

\* Mutant: the list is not fetched again.
SettlesOnly(r, state) ==
    /\ ct' = state /\ ctReqs' = ctReqs \ {r} /\ raced' = (raced \/ r.st = "failed")
    /\ UNCHANGED <<store, teamStore>>

\* ... and the list is fetched again, of the scope the handler closed over.
SettlesAndReloads(r, state) ==
    /\ IF r.st = "ok"
       THEN ct' = state /\ Asks(ctReqs \ {r}, r.id, "load", r.scope)
       ELSE ct' = ct /\ ctReqs' = ctReqs \ {r} /\ raced' = TRUE
    /\ UNCHANGED <<store, teamStore>>

Edits(state) == ct' = state /\ UNCHANGED <<ctReqs, raced, store, teamStore>>

Shows(r, onError) ==
    [ct EXCEPT !.loading = FALSE, !.shown = IF r.st = "ok" THEN r.got ELSE onError]

(***************************************************************************)
(* memory: the memories of the agent picked in a list.                     *)
(***************************************************************************)
\* The first agent is picked.
MemoryAgentsArrive ==
    /\ page = "memory" /\ ct.scope = 0 /\ Unattended
    /\ ct' = [ct EXCEPT !.scope = 1, !.loading = TRUE]
    /\ Asks(ctReqs, ops, "load", 1)
    /\ UNCHANGED <<store, teamStore>>

PickMemoryAgent(a) ==
    /\ OnCatalog("memory") /\ ct.scope \notin {0, a}
    /\ ct' = [ct EXCEPT !.scope = a, !.searching = FALSE, !.loading = TRUE]
    /\ Asks(ctReqs, ops', "load", a)
    /\ UNCHANGED <<store, teamStore>>

MemoriesArrive(r) == CtHandles("memory", r, "load") /\ Settles(r, Shows(r, {}))

MemorySearch ==
    /\ OnCatalog("memory") /\ ct.scope # 0
    /\ ct' = [ct EXCEPT !.searching = TRUE, !.loading = TRUE]
    /\ Asks(ctReqs, ops', "search", ct.scope)
    /\ UNCHANGED <<store, teamStore>>

MemoryFound(r) == CtHandles("memory", r, "search") /\ Settles(r, Shows(r, ct.shown))

ClearSearch ==
    /\ OnCatalog("memory") /\ ct.searching
    /\ ct' = [ct EXCEPT !.searching = FALSE, !.loading = TRUE]
    /\ Asks(ctReqs, ops', "load", ct.scope)
    /\ UNCHANGED <<store, teamStore>>

MemoryForm == OnCatalog("memory") /\ Edits([ct EXCEPT !.dialog = ~@])

MemoryAdd ==
    /\ OnCatalog("memory") /\ ct.dialog /\ ct.scope # 0
    /\ Commanded("create", ops') /\ UNCHANGED ct

MemoryAdded(r) ==
    /\ CtHandles("memory", r, "create")
    /\ SettlesAndReloads(r, [ct EXCEPT !.dialog = FALSE, !.loading = TRUE])

MemoryDelete(i) ==
    /\ OnCatalog("memory") /\ ~ct.loading /\ ~ct.dialog /\ i \in ct.shown
    /\ Commanded("delete", i) /\ UNCHANGED ct

MemoryDeleted(r) ==
    /\ CtHandles("memory", r, "delete")
    /\ Settles(r, [ct EXCEPT !.shown = IF r.st = "ok" THEN @ \ {r.n} ELSE @])

(***************************************************************************)
(* integrations: a modal in two steps; a test fetches the list again.      *)
(***************************************************************************)
OnIntegrations == OnCatalog("integrations") /\ ~ct.loading

IntegrationsArrive(r) == CtHandles("integrations", r, "load") /\ Settles(r, Shows(r, ct.shown))

IntegrationModal == OnIntegrations /\ Edits([ct EXCEPT !.dialog = ~@])

IntegrationCreate ==
    /\ OnIntegrations /\ ct.dialog /\ ~ct.saving
    /\ ct' = [ct EXCEPT !.saving = TRUE]
    /\ Commanded("create", ops')

\* The modal closes, and the button is released when the list has come back.
IntegrationCreated(r) ==
    /\ CtHandles("integrations", r, "create")
    /\ IF r.st = "ok"
       THEN /\ ct' = [ct EXCEPT !.dialog = FALSE]
            /\ Asks(ctReqs \ {r}, r.id, "reload", 1)
            /\ UNCHANGED <<store, teamStore>>
       ELSE Settles(r, [ct EXCEPT !.saving = FALSE])

IntegrationsReloaded(r) ==
    /\ CtHandles("integrations", r, "reload")
    /\ Settles(r, [Shows(r, ct.shown) EXCEPT !.saving = FALSE])

IntegrationDelete(i) ==
    /\ OnIntegrations /\ ~ct.dialog /\ i \in ct.shown
    /\ Commanded("delete", i) /\ UNCHANGED ct

IntegrationDeleted(r) ==
    /\ CtHandles("integrations", r, "delete")
    /\ Settles(r, [ct EXCEPT !.shown = IF r.st = "ok" THEN @ \ {r.n} ELSE @])

IntegrationTest(i) ==
    /\ OnIntegrations /\ ~ct.dialog /\ i \in ct.shown
    /\ Commanded("change", i) /\ UNCHANGED ct

IntegrationTested(r) == CtHandles("integrations", r, "change") /\ SettlesAndReloads(r, ct)

(***************************************************************************)
(* teams: a list of teams and, below the one that is open, its members.    *)
(* The default team (0) has no delete button.  The panel of members is     *)
(* mounted when its team is open and listed; requests of a panel that is   *)
(* gone have scope 0.                                                      *)
(***************************************************************************)
Panel(state) == IF state.panel \in state.shown THEN state.panel ELSE NoItem

\* The page shows state; a panel that appears fetches its members.
ShowsTeams(rest, i, state) ==
    IF Panel(state) = Panel(ct)
    THEN ct' = state /\ ctReqs' = rest /\ UNCHANGED teamStore
    ELSE /\ ct' = [state EXCEPT !.members = {}, !.crossed = FALSE]
         /\ ctReqs' = {IF r.k \in MemberKinds THEN [r EXCEPT !.scope = 0] ELSE r : r \in rest}
                      \cup (IF Panel(state) = NoItem THEN {} ELSE {CtReqNew(i, "members", NoItem, 1)})
         /\ teamStore' \in IF Panel(state) = NoItem THEN {{}} ELSE SUBSET {0}

TeamsArrive(r) ==
    /\ CtHandles("teams", r, "load")
    /\ ShowsTeams(ctReqs \ {r}, r.id, Shows(r, {}))
    /\ raced' = (raced \/ r.st = "failed")
    /\ UNCHANGED store

TeamCreate == OnCatalog("teams") /\ Commanded("create", ops') /\ UNCHANGED ct

TeamCreated(r) == CtHandles("teams", r, "create") /\ SettlesAndReloads(r, ct)

OnTeams == OnCatalog("teams") /\ ~ct.loading

\* scope 2: the team is open when its deletion is clicked.
TeamDelete(i) ==
    /\ OnTeams /\ i \in ct.shown \ {0}
    /\ ctReqs' = ctReqs \cup {CtReqNew(ops', "delete", i, IF ct.panel = i THEN 2 ELSE 1)}
    /\ raced' = (raced \/ loadUnderWay)
    /\ UNCHANGED <<ct, store, teamStore>>

\* What was open at the click decides whether the panel open now is closed.
TeamDeleted(r) ==
    /\ CtHandles("teams", r, "delete")
    /\ IF r.st = "ok"
       THEN /\ ShowsTeams((ctReqs \ {r}) \cup {CtReqNew(r.id, "load", NoItem, 1)}, r.id,
                          [ct EXCEPT !.panel = IF r.scope = 2 THEN NoItem ELSE @])
            /\ raced' = \E q \in ctReqs \ {r} : q.k \in ListKinds \cup Commands
            /\ UNCHANGED store
       ELSE Settles(r, ct)

TeamToggle(i) ==
    /\ OnTeams /\ i \in ct.shown
    /\ ShowsTeams(ctReqs, ops', [ct EXCEPT !.panel = IF @ = i THEN NoItem ELSE i])
    /\ UNCHANGED <<raced, store>>

MembersUnderWay(rest) == \E r \in rest : r.k \in MemberKinds /\ r.scope = 1

\* Adding a user to the open team, removing one, changing a role.
MemberCommand(k, n) ==
    /\ OnTeams /\ Panel(ct) # NoItem
    /\ k # "join" => n \in ct.members
    /\ k = "join" => n = ops'
    /\ ctReqs' = ctReqs \cup {CtReqNew(ops', k, n, 1)}
    /\ ct' = [ct EXCEPT !.crossed = @ \/ MembersUnderWay(ctReqs)]
    /\ UNCHANGED <<raced, store, teamStore>>

\* The members are fetched again by the panel, mounted or not.
MemberCommandReturns(r) ==
    /\ page = "teams" /\ r.k \in MemberCommands /\ r.st # "asked" /\ Unattended
    /\ ctReqs' = (ctReqs \ {r}) \cup
          (IF r.st = "failed" THEN {}
           ELSE {[CtReqNew(r.id, IF r.k = "role" THEN "members" ELSE "recount", NoItem, r.scope)
                  EXCEPT !.st = "asked"]})
    /\ ct' = IF r.scope = 0 THEN ct
             ELSE [ct EXCEPT !.crossed = @ \/ r.st = "failed" \/ MembersUnderWay(ctReqs \ {r})]
    /\ UNCHANGED <<raced, store, teamStore>>

\* After an addition or a removal the teams are fetched, too.
MembersArrive(r) ==
    /\ page = "teams" /\ r.k \in MemberLists /\ r.st # "asked" /\ Unattended
    /\ ct' = IF r.scope = 0 THEN ct
             ELSE [ct EXCEPT !.members = IF r.st = "ok" THEN r.got ELSE {},
                             !.crossed = @ \/ r.st = "failed"]
    /\ IF r.k = "recount" THEN Asks(ctReqs \ {r}, r.id, "load", 1)
       ELSE ctReqs' = ctReqs \ {r} /\ UNCHANGED raced
    /\ UNCHANGED <<store, teamStore>>

(***************************************************************************)
(* governance: the policies are a tab; leaving it forgets everything but   *)
(* the commands sent (scope 0).  The list is fetched once.                 *)
(***************************************************************************)
OnPolicies == OnCatalog("governance") /\ ct.scope = 1 /\ ~ct.loading

GovernanceTab ==
    /\ OnCatalog("governance")
    /\ IF ct.scope = 0 THEN ct' = CtClosed /\ Asks(ctReqs, ops', "load", 1)
       ELSE /\ ct' = [CtClosed EXCEPT !.scope = 0]
            /\ ctReqs' = {[r EXCEPT !.scope = 0] : r \in {q \in ctReqs : q.k # "load"}}
            /\ raced' = FALSE
    /\ UNCHANGED <<store, teamStore>>

PoliciesArrive(r) == CtHandles("governance", r, "load") /\ Settles(r, Shows(r, ct.shown))

PolicyForm == OnPolicies /\ Edits([ct EXCEPT !.dialog = ~@])

PolicyCreate == OnPolicies /\ ct.dialog /\ Commanded("create", ops') /\ UNCHANGED ct

PolicyCreated(r) ==
    /\ CtHandles("governance", r, "create")
    /\ Settles(r, IF r.scope = 0 \/ r.st = "failed" THEN ct
                  ELSE [ct EXCEPT !.shown = @ \cup {r.n}, !.dialog = FALSE])

PolicyDelete(i) == OnPolicies /\ i \in ct.shown /\ Commanded("delete", i) /\ UNCHANGED ct

PolicyDeleted(r) ==
    /\ CtHandles("governance", r, "delete")
    /\ Settles(r, IF r.scope = 0 \/ r.st = "failed" THEN ct ELSE [ct EXCEPT !.shown = @ \ {r.n}])

(***************************************************************************)
(* prompts: the form is always there; an alias or a new version of a       *)
(* prompt, like a new prompt, is followed by a fetch of the list.          *)
(***************************************************************************)
PromptsArrive(r) == CtHandles("prompts", r, "load") /\ Settles(r, Shows(r, {}))

PromptCreate == OnCatalog("prompts") /\ Commanded("create", ops') /\ UNCHANGED ct

PromptChange(i) ==
    /\ OnCatalog("prompts") /\ ~ct.loading /\ i \in ct.shown
    /\ Commanded("change", i) /\ UNCHANGED ct

PromptSaved(r) ==
    /\ CtHandles("prompts", r, "create") \/ CtHandles("prompts", r, "change")
    /\ SettlesAndReloads(r, ct)

(***************************************************************************)
(* agents and knowledge bases: lists that are fetched when mounted.        *)
(***************************************************************************)
AgentsListed(r) == CtHandles("agents", r, "load") /\ Settles(r, Shows(r, {}))
BasesListed(r)  == CtHandles("kbs", r, "load") /\ Settles(r, Shows(r, {}))

(***************************************************************************)
(* External: the API server.  An answer may be lost after its command has  *)
(* been carried out.                                                       *)
(***************************************************************************)
ListOf(r) == IF page = "memory" THEN r.scope ELSE 1

CtEffect(r) ==
    /\ store' = CASE r.k \in {"create", "import"} -> [store EXCEPT ![ListOf(r)] = @ \cup {r.n}]
                  [] r.k = "delete" -> [store EXCEPT ![ListOf(r)] = @ \ {r.n}]
                  [] OTHER -> store
    /\ teamStore' = CASE r.k = "join" /\ r.scope = 1 -> teamStore \cup {r.n}
                      [] r.k = "part" /\ r.scope = 1 -> teamStore \ {r.n}
                      [] OTHER -> teamStore

Served(r) ==
    CASE r.k \in MemberKinds -> {teamStore'}
      [] r.k = "search" -> SUBSET store'[ListOf(r)]
      [] OTHER -> {store'[ListOf(r)]}

CtServed(r) ==
    /\ r.st = "asked" /\ Unattended
    /\ \/ /\ CtEffect(r)
          /\ \E g \in Served(r) : ctReqs' = (ctReqs \ {r}) \cup {[r EXCEPT !.st = "ok", !.got = g]}
       \/ /\ CtEffect(r) \/ UNCHANGED <<store, teamStore>>
          /\ ctReqs' = (ctReqs \ {r}) \cup {[r EXCEPT !.st = "failed"]}
    /\ UNCHANGED <<ct, raced>>

MemoryStep ==
    /\ page = "memory"
    /\ \/ MemoryAgentsArrive \/ MemorySearch \/ ClearSearch \/ MemoryForm \/ MemoryAdd
       \/ \E a \in Scopes : PickMemoryAgent(a)
       \/ \E i \in Items : MemoryDelete(i)
       \/ \E r \in ctReqs : \/ MemoriesArrive(r) \/ MemoryFound(r)
                            \/ MemoryAdded(r) \/ MemoryDeleted(r)

IntegrationsStep ==
    /\ page = "integrations"
    /\ \/ IntegrationModal \/ IntegrationCreate
       \/ \E i \in Items : IntegrationDelete(i) \/ IntegrationTest(i)
       \/ \E r \in ctReqs : \/ IntegrationsArrive(r) \/ IntegrationCreated(r)
                            \/ IntegrationsReloaded(r) \/ IntegrationDeleted(r)
                            \/ IntegrationTested(r)

TeamsStep ==
    /\ page = "teams"
    /\ \/ TeamCreate
       \/ \E i \in Items : \/ TeamDelete(i) \/ TeamToggle(i)
                           \/ \E k \in MemberCommands : MemberCommand(k, i)
       \/ \E r \in ctReqs : \/ TeamsArrive(r) \/ TeamCreated(r) \/ TeamDeleted(r)
                            \/ MemberCommandReturns(r) \/ MembersArrive(r)

GovernanceStep ==
    /\ page = "governance"
    /\ \/ GovernanceTab \/ PolicyForm \/ PolicyCreate
       \/ \E i \in Items : PolicyDelete(i)
       \/ \E r \in ctReqs : PoliciesArrive(r) \/ PolicyCreated(r) \/ PolicyDeleted(r)

PromptsStep ==
    /\ page = "prompts"
    /\ \/ PromptCreate
       \/ \E i \in Items : PromptChange(i)
       \/ \E r \in ctReqs : PromptsArrive(r) \/ PromptSaved(r)

CatalogStep ==
    \/ MemoryStep \/ IntegrationsStep \/ TeamsStep \/ GovernanceStep \/ PromptsStep
    \/ \E r \in ctReqs : CtServed(r) \/ AgentsListed(r) \/ BasesListed(r)

\* A page mounts with its list asked for, except those that wait for a tab or
\* for the agents; what a page had sent when it unmounted is done by then.
CtMounted(p, i) ==
    IF p \in CatalogPages \ {"memory", "governance"} THEN {CtReqNew(i, "load", NoItem, 1)} ELSE {}
CtOpened(p) ==
    IF p \in {"memory", "governance"} THEN [CtClosed EXCEPT !.scope = 0] ELSE CtClosed
Stores(p) ==
    CASE p = "memory" -> [Scopes -> SUBSET {0}]
      [] p \in CatalogPages \ {"memory"} -> {[s \in Scopes |-> x] : x \in SUBSET {0}}
      [] OTHER -> {[s \in Scopes |-> {}]}

CatalogInit ==
    /\ ct = CtOpened(page) /\ ctReqs = CtMounted(page, 0) /\ raced = FALSE
    /\ store \in Stores(page) /\ teamStore = {}

CatalogSwitch ==
    IF page \in CatalogPages \/ page' \in CatalogPages \/ Reloading
    THEN /\ ct' = CtOpened(page') /\ ctReqs' = CtMounted(page', ops') /\ raced' = FALSE
         /\ store' \in Stores(page') /\ teamStore' = {}
    ELSE UNCHANGED ctVars

(***************************************************************************)
(* Properties                                                              *)
(***************************************************************************)
\* Once nothing about it is in flight, a list shows what the server has, on
\* every page and whether the page fetches again or edits its copy, unless
\* two of the requests overlapped or one failed; so do the members of a team.
ListsAtRest ==
    /\ /\ ~ct.loading /\ ~ct.searching /\ ~raced /\ ct.scope # 0
       /\ page \in CatalogPages
       /\ \A r \in ctReqs : r.k \notin ListKinds \cup Commands
       => ct.shown = store[ct.scope]
    /\ Panel(ct) # NoItem /\ page = "teams" /\ ~MembersUnderWay(ctReqs) /\ ~ct.crossed
       => ct.members = teamStore
=============================================================================
