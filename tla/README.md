# Récif, specified

This directory holds a TLA+ specification of the parts of Récif in which several
things happen at once: how a configuration of an agent becomes a release, passes
its evaluation and is deployed, while requests race, fail and are cut off; how a
release is tried as a canary beside the stable one; how documents are uploaded
and ingested into a knowledge base; and what the pages of the dashboard do while their
requests, streams, timers and uploads answer in any order, late, or never. Each part is a
module that follows the code call by call, small instances of it are checked with
TLC, and the invariants that matter most are proved with TLAPS for every value of
the constants.

Contents: [the system](#the-system), [the modules](#the-modules) and how they
correspond to the code, [the runs](#the-runs), [the proofs](#the-proofs),
[findings](#findings), [observations about the dashboard](#observations-about-the-dashboard),
[what is not modelled](#what-is-not-modelled), [running it](#running-it). Paths of Go files are
relative to `src/internal/`, those of pages to `src/dashboard/src/app/(dashboard)/`.

## The system

Récif is an API server (Go) with a dashboard (Next.js). It keeps almost nothing
in its own memory. Its state is elsewhere:

| where | what | who writes it |
|---|---|---|
| a GitHub repository, `recif-state` | per agent `releases/v<n>.yaml` and `current.yaml` | the release handlers, through `gitstate.Client` |
| the Kubernetes API | Agent CRDs; deployments, services and routes of canaries | agent handlers, the release deploy, Sync |
| Postgres | knowledge bases, documents, chunks, teams, users, skills, integrations | the respective stores; Marée |
| MLflow | evaluation runs, prompts | the evaluation handlers, Corail |
| disk | uploads, per knowledge base | the knowledge base handler |
| memory | datasets and risk profiles, policies, platform configuration, canary weights, gRPC connections | their handlers, under a mutex each |

Two programs outside the repository take part: **Corail**, the runtime of an
agent, which evaluates it and posts the outcome back, and **Marée**, the command
that ingests documents.

Go's HTTP server runs each request in a goroutine of its own and the API server
may be replicated. Nothing serialises two requests about the same agent or the
same knowledge base: no lock, no queue, no transaction spans two calls. What the
code has instead is GitHub's check of a file's SHA, single SQL statements, and
the order in which it makes its calls. That is why the modules are written at the
granularity of one call to the outside.

### Components

**Release pipeline** (`release/handler.go`, `gitstate/artifact.go`).
State: the files of an agent in the state repository. Operations: create (by
request, or on the events AgentCreated and AgentConfigChanged), the evaluation's
trigger and callback, approve, reject, deploy (also used for a rollback), the
tombstone on AgentDeleted; list, get and diff read. Interacts with GitHub, with the
CRD (reading the agent, patching it on deploy), with Corail, with the event bus.
Hard: the next version number comes from a listing that other requests make
stale; an approval is two writes, each a GET and a PUT, and ignores their errors; a
callback may come late or twice; a crash leaves an approval half done. Correct
when: version numbers have no gap, a release file is never replaced, pointers name
files that exist, nothing is active without a passing evaluation where one is
required, every release left to the evaluation is decided, a deleted agent stays
archived.

**Git state client** (`gitstate/client.go`). State: repository, branch and token,
behind a lock. Operations: read, write (GET the SHA, PUT with it), list. Hard: the
configuration can change between GET and PUT; a lost reply leaves the caller not
knowing whether the write happened. Correct when a write based on an outdated SHA
is refused, and when its callers find out.

**Agent registry handler** (`agent/handler.go`), **repository and CRD access**
(`agent/k8s_*.go`, `agent/config_*.go`). State: the Agent CRD. Operations: create
(or patch, when it is there), delete, configure, read with `Enrich`. Hard: a
configuration travels request -> agent -> CRD -> `Enrich` -> artifact -> CRD, with a
mapping of fields at every arrow; the CRD lags behind what was just written.
Correct when a field that is set survives the round trip, and an older value never
overwrites a newer one.

**State repository sync** (`platform/sync.go`). Stateless; reads every
`current.yaml` and creates or updates agents. Hard: reading the tombstone, looking
the agent up and creating it are three calls. Correct when it does not revive a
deleted agent.

**Event bus** (`eventbus/eventbus.go`). State: handlers by event. Delivery runs on the
emitting goroutine, so that an event is part of the request that causes it.

**Agent lifecycle, deploy handler** (`agent/lifecycle.go`, `agent/deploy_handler.go`).
The status graph that `ValidateTransition` accepts; deploy, stop, restart, scale.
Correct when no operation leaves the graph.

**Canary** (`agent/canary_handler.go`, `agent/k8s_writer.go`). State, all of it in the
cluster: the canary section of the CRD, a second ConfigMap, Deployment and Service, a
DestinationRule and a VirtualService. Operations: start, promote, roll back, set the
weight; Flagger's gate and the status only read. Hard: each operation is a sequence of
up to seven calls with no compensation, most of whose failures are logged and ignored;
the next operation finds whatever the last one left; two operations interleave.
Correct when the mesh sends no traffic to a canary that is not there, when a request
that met no failure and no other request has its whole effect, and when nothing is left
after a cleanup.

**Proxy** (`agent/proxy.go`). State: in memory, canary weights for ten seconds. Hard: of two
refreshes the one that read first may store last.

**gRPC proxy and control clients** (`agent/grpc_proxy.go`, `grpc/client.go`, ...).
State: a map of connections. Correct when one connection per agent is kept and the
others are closed.

**Evaluation store** (`eval/`) and **feedback** (`feedback/`). State: datasets,
results and risk profiles in memory. Hard: seeds whose ids are prefixes of an agent's
id, an append to "the first" dataset of a map, score arithmetic over mixed metrics.

**Knowledge bases** (`kb/`). State: rows of knowledge bases and documents in Postgres,
chunks, the upload directory, ingestion goroutines. Operations: create, upload (save
the file, insert the row, start the ingestion), delete a document or a whole knowledge
base, search. Hard: the statements that record the start and the failure of an
ingestion are per knowledge base while ingestions are per document; an upload is
stored under the name the client gave it; a crash loses the goroutine. Correct when a
document's chunks come from its own upload, its file is kept until it was read, a
ready document stays ready, and every document settles.

**Platform configuration** (`platform/handler.go`). State: the configuration, behind
a lock; a file or ConfigMap; the clients it is propagated to. Hard: the snapshot is
persisted and propagated outside the lock.

**Governance, teams, users, skills, integrations, prompts, radar, audit, server**:
CRUD with one call or one statement per request, or derived data.

**Dashboard** (`src/dashboard/`). A single-page application in a browser tab: Next.js mounts one page
at a time inside a layout that stays. It has no store: every page keeps what it shows in hooks of its own, fetches it
when it is mounted and brings it up to date after its own commands; the layout holds one provider, for
notifications. JavaScript runs one callback at a time, so that what interleaves are callbacks: what follows
an `await` runs after anything that happened meanwhile, with the values its closure captured when the operator
clicked. Its parts:

* *Frame* (`layout.tsx`, sidebar, topbar, command palette, `login`, `lib/auth.ts`, `lib/api.ts`). State: the mounted
  page, the document, a session. Operations: links, `router.push`, loads of the document, log in and out. Hard: an
  answer may navigate from whatever page the operator is on by then; a load of the document loses everything in memory.
* *Notifications* (`lib/notifications.tsx`, notification bell). State: the conversations watched, the notices. Operations: a
  callback every second that asks for the status of what is watched, the bell. Hard: runs of the callback overlap,
  and each believes the conversation on screen to be the one of the effect that made its interval.
* *Chat* (`chat/page.tsx`). State: the selected agent and conversation, the bubbles on screen, a lock of the input, and
  three references (the stream's controller, the conversation being streamed, the poller). Operations: open, start,
  delete and continue conversations, compare two variants of an agent. Hard: streams, pollers and loads of several
  conversations are in flight over one set of bubbles and one lock. Correct when the lock is released, and the bubbles
  are those of the conversation that is open.
* *Agent page* (`agents/[id]/page.tsx`). State: the agent as last fetched, a form, the flags that disable buttons, the canary's
  status, the releases and one artifact, runs, data sets and a comparison. Operations: deploy, stop, restart, scale, save,
  delete; weight, promotion and roll-back of a canary; deploying a release or starting it as a canary; evaluations. Hard:
  one flag serves several commands, one status is fetched from several places. Correct when flags are
  released, what excludes itself does, and what is shown is current at rest.
* *Evaluations* (`evaluations/page.tsx`). State: the agent picked, its runs. Hard: runs of an agent picked earlier arrive later.
* *Wizard* (`agents/new/page.tsx`). State: a step, the fields, a creation. Hard: two sequences of steps share one counter; a creation
  is several calls long and ends by leaving the document.
* *Knowledge base* (`knowledge/[id]/page.tsx`, `knowledge/new`). State: documents, a list of uploads. Operations: upload, delete,
  retrieve, save, and a refresh every two seconds while a document is being ingested. Hard: the upload loop works on a copy of
  the list while the operator edits the list; refreshes overlap with commands. Correct when the list says what was
  uploaded, and the documents at rest are those of the server.
* *Lists* (`memory`, `integrations`, `teams`, `governance`, `prompts`, `skills`, `agents`, `knowledge`). State: a list, a form. Operations:
  add, change, delete, test, search. Hard: some pages fetch again after a command, others edit their copy, and
  neither looks at what else is in flight; skills are assigned by sending a whole list computed from a fetched copy.
* *Tools, radar, settings*: one fetch, one form.

## The modules

| module | what it is |
|---|---|
| `ReleasePipeline` | the release pipeline of one agent, call by call |
| `ReleaseLedger` | what the state repository promises: an append-only ledger |
| `ReleasePipelineLedger` | the refinement mapping from the former to the latter |
| `ReleasePipelineProofs` | the inductive invariants and theorems about the pipeline |
| `ReleaseLedgerProofs` | what it promises where its known races and failures are excluded; the refinement |
| `MCReleasePipeline` | its instances for TLC |
| `KBIngestion` | the documents of one knowledge base, statement by statement |
| `KBIngestionProofs` | the theorems about it |
| `MCKBIngestion` | its instances for TLC |
| `Canary` | the canary of one agent, call by call |
| `CanaryProofs` | the theorems about it |
| `MCCanary` | its instances for TLC |
| `Shell` | the frame of the dashboard: the mounted page, clicks, loads of the document |
| `Notifications` | the notification provider and its bell |
| `ChatPage`, `ComparePanel` | the chat page; its comparison of two variants |
| `AgentPage`, `AgentRollout` | the page of an agent: commands and form; its canary panel and releases |
| `Evaluations` | the evaluation tab of that page, and the page /evaluations |
| `AgentWizard` | the creation of an agent |
| `KnowledgePage` | the page of a knowledge base, and the form of a new one |
| `Catalog`, `SkillsPage` | the pages that keep a list; what the skills page adds |
| `Dashboard` | all of these composed by the navigations between them |
| `MCDashboard` | its instance for TLC |
| `DashboardProofs` | what any step may do to a page; the theorem about notifications |
| `AgentProofs`, `ChatProofs`, `PageProofs` | the theorems about the pages; `PageProofs` also has the types of the whole dashboard |

Some definitions are followed or preceded by one whose comment begins with
"Mutant": the same definition with a plausible mistake. They are not used by the
specification. Substituted for the definition they vary, they show that the
property they belong to does depend on it (`mutants` in `PROJECT.json`).

### ReleasePipeline

One agent, its directory in the state repository, and goroutines `Procs`. A
goroutine's program counter `pc[p]` names the call to GitHub or Kubernetes it makes
next, so that calls of different goroutines interleave and the steps between two
calls of one goroutine are part of the action of the first. `op[p]` is the operation
it runs, `ver[p]` and `buf[p]` the version and the artifact its handler holds in local
variables, `sha[p]` the SHA its next PUT carries.

| code | actions |
|---|---|
| `agent.Handler.Create`, then AgentCreated or AgentConfigChanged | `RegisterAgent` |
| `release.Handler.Create`, or AgentConfigChanged from a configuration save | `StartCreate` |
| `createReleaseForAgent` | `ListReleases`, `GetReleaseSHA`, `PutRelease`, and `AfterReleaseWrite` for the gate |
| `triggerEvaluation`, a goroutine of its own | `TriggerEvaluation` |
| `EvalResult` | `EvalCallback`, or `EvalLost` where it never takes effect |
| `approveRelease`, `rejectRelease` | `ReadRelease`, `GetReleaseSHA`, `PutRelease`, and for the former `GetCurrentSHA`, `PutCurrent` |
| `Deploy` | `StartDeploy`, `ReadRelease`, `GetCurrentSHA`, `PutCurrent`, `PatchCRD` |
| `agent.Handler.Delete`, then `onAgentDeleted` | `DeleteAgent`, `ReadCurrent`, `GetCurrentSHA`, `PutCurrent` |
| `SyncHandler.syncAgent` | `StartSync`, `ReadCurrent`, `ApplySync` |
| `gitstate.Client.WriteFile` | the pairs `GetReleaseSHA`/`PutRelease` and `GetCurrentSHA`/`PutCurrent` |

An artifact keeps the fields the pipeline reads or rewrites: `version`, `status`, a
`payload` that stands for everything recorded once (configuration, changelog,
timestamps), and `notes`, the number of marks that rejections and deletions have
appended to the changelog, because these change the file's SHA. GitHub's SHA is that
of the blob, a hash of its content; the content stands for it. Two artifacts with one
payload are therefore byte for byte the same file, which is the case that matters for
SHAs; runs about replaced payloads use two of them.

A failed listing counts as an empty directory (`NextVersions`), as in the code. With
`Faults` a request may fail before it has an effect, or take effect and lose its reply
(the two disjuncts of `PutRelease` and `PutCurrent`). `Crashes` adds a restart in
any state: every goroutine and unposted trigger is gone, the rest stays. Corail may
report late (nothing forces `EvalCallback`), never (`EvalLost`) or, with `Redelivery`, more
than once.

### ReleaseLedger

The abstract specification: a sequence of entries and a pointer. Releases are appended,
each is decided at most once, its payload never changes, the pointer is a copy of an
entry or the tombstone of one. `ReleasePipelineLedger` maps the release files to the
entries and `current.yaml` to the pointer; every call of the pipeline must be one step
of the ledger or invisible to it.

### KBIngestion

One knowledge base and the set `Docs` of uploads it ever gets, each with a name
`FileOf[d]`. `step[d]` is what the upload's request, and then its ingestion goroutine,
does next.

| code | actions |
|---|---|
| `kb.Handler.Ingest` | `StartUpload`, `CreateFile`, `CopyBytes`, `InsertDocument` |
| `triggerIngestion` | `MarkProcessing`, then Marée, then `MarkError` if it failed |
| the command `maree ingest` (external) | `MareeReads`, `MareeSucceeds`, `MareeFails` |
| `DeleteDocument` | `DeleteDocument`, `RemoveUpload` |
| `Create`, `Delete` | `CreateKB`, `DeleteKB`, `ClearUploads` |

A file is the set of uploads whose bytes it may hold, and the set of requests that still
have it open: creating a file that is there truncates it, a removed file is written to no
purpose. `Transition` is the one UPDATE statement, over the whole knowledge base. Of Marée
the model assumes what its arguments say: it reads `--source`, writes the chunks of
`--document-id` and marks that row ready, or exits with an error. When the server stops, a
Marée it started may go on (`orphans`): it can still succeed, but nobody records its failure.
The variable `lost` records that a crash or a failed UPDATE has happened after which the
code promises nothing about statuses.

### Canary

One agent, the objects its canary consists of, and the goroutines `Procs`; `req[p].call` is the
call that the request of `p` makes next, and `After` the order of the calls.

| code | actions |
|---|---|
| `CanaryHandler.Start` | `Start`, then `Announce`, `Configure`, `Deploy`, `Serve`, and `ApplyTrafficSplit` |
| `UpdateWeight` | `UpdateWeight`, `Adjust`, then `ApplyTrafficSplit` |
| `ApplyTrafficSplit` | `Read`, `WriteSubsets`, `Read`, `WriteSplit` |
| `Promote`, `Rollback` | `Unsplit`, `Unsubset`, `Undeploy`, `Unconfigure`, `Unserve`, `Unannounce` |
| `agent.Handler.Delete` | `Undeploy`, `Unserve`, `Unconfigure`, `Unsplit`, `Unsubset`, `Unregister` |
| Kubernetes (external) | `StartPods`: a pod reads the ConfigMap when it starts |

Each call either does what it is for, and the request goes on, or fails. Whether a failure ends the request
or is only logged is the code's (`Stops`, `GoesOn`). `Deploy` fails when the Deployment exists. An update of a
routing object fails when the object has changed since its GET (`seen`); writing the same content again keeps
the `resourceVersion`. Deletions of what is not there count as done.

`req[p].clean` is history: no call of this request failed and no other request was under way with it. The properties
about requests speak of clean ones only: for the others the code promises nothing, since nothing undoes a failed call and
nothing serialises requests. What a clean request finds is arbitrary, though: whatever crashed, failed and overlapping requests
have left. `damaged` is the same for the whole canary, until the next clean cleanup.

Assumed: the CRD keeps `spec.canary` and `spec.version`. The schema in `charts/recif/crds` lists neither, and a cluster with
exactly this schema prunes them. Pods go with their Deployment in one step. Promote and Rollback differ in the event they emit;
`AgentCanaryPromoted` has no subscriber, so there is no stable release in the model that a promotion could change.

### The dashboard's modules

Nine modules model pages and EXTEND one another only so that they can share the frame; `Dashboard` composes them. What they
have in common:

*A handler is cut at its awaits.* The part before the first `await` is one action, a click, which puts a request into
the page's set of requests; the server's step (`...Served`, external) gives it an answer, or an error; the part after the `await` is
one action per request, which may find the page in any state by then. A request carries what the closure captured: the
conversation that was open at the click, the copy of the upload list, the list of an agent's skills. A timer (three
seconds after a command, 600 ms after saving settings, the two seconds of the bell) is a request too, whose answer comes by itself.

*Clicks are counted.* `ops` counts the operator's clicks and lends its number to what a click creates: the identity of a stream
or of an interval, or the thing a form creates. Only clicks are bounded; answers, ticks of intervals and tokens are not.

*Pages come and go.* Each module has a `...Switch`: what its page does when the operator leaves it, comes to it, or the document is
loaded again. A page that is mounted starts blank and asks for its data; what it has left in flight goes on only as far as it
has an effect outside the page: a stream of a new conversation still announces itself to the provider, a creation still loads
/agents, an answer to a deletion still pushes /agents. What the server holds is anything when a page is mounted (`Remotes`, `Canaries`, `ResultsAt`, `DocsAt`,
`Stores`, `Found`), since other clients change it; while a page is mounted nobody else changes it, except that generations end and
documents are ingested.

*History.* A few fields record that something happened after which the code promises less, so that a property can be stated for
everything else: `chat.stale` (bubbles of another conversation were put on screen), `chat.overlap` (two streams are open), `chat.lost` (a poller's last
request failed), `cmp.reset`, `ro.blurred`, `ro.crossed`, `evp.crossed`, `kp.muddled`, `kp.shifted`, `kp.doubled`, `raced`, `ct.crossed`, `sk.stale`. No action reads them. Each is
set where two requests about the same thing overlap, or one fails, and cleared, where it is, when the thing is fetched alone again.

**Shell.** `page` is the mounted route, `document` alternates with every load of it. `Soft` is what links and `router.push` do, `Hard` what
`window.location`, a refresh and an answer 401 do.

**Notifications** (`src/dashboard/src/lib/notifications.tsx`, `components/custom/notification-bell.tsx`).

| code | actions |
|---|---|
| the callback of the interval, up to the status | `StatusAnswers` |
| its rest, with the `activeConversationId` of its effect | `WatchEnds` |
| the bell: open, two seconds, dismiss, clear, click | `BellToggle`, `BellReadTimer`, `Dismiss`, `ClearAll`, `FollowNotice` |
| an agent ends its response (external) | `GenerationEnds` |

**ChatPage, ComparePanel** (`chat/page.tsx`). `chat.sending`, `ref`, `abort` and `poll` are `sending`, `streamingCidRef`, `abortRef` and `pollRef`. The bubbles are
abstracted to the conversation they belong to (`of`) and the last one (`tail`), which is where text is written.

| code | actions |
|---|---|
| the fetch of the agents, the effects of `selectedAgent` | `AgentsArrive`, `SelectAgent`, `Restore` |
| `loadConversation` | `LoadConversation`, `LoadServed`, `LoadApplied` |
| its poller, `stopPolling` | `PollAnswers`, `PollStep`, `PollFinal`, `StopFeeds` |
| `newChat`, `deleteConversation` | `NewChat`, `DeleteConversation`, `DeleteServed`, `DeleteReturns` |
| `sendMessage` | `SendMessage`, `MessageAccepted`, `MessageRefused`, `Token`, `Announce`, `Done`, `StreamEnds` |
| the comparison | `CompareToggle`, `CompareSend`, `CompareOpens`, `CompareToken`, `CompareEnds` |

**AgentPage, AgentRollout, Evaluations** (`agents/[id]/page.tsx`, `evaluations/page.tsx`).

| code | actions |
|---|---|
| `loadAgent` with its retries, the fetches after a command | `AgentLoaded`, `AgentLoadFails`, `AgentRefetched` |
| `handleAgentAction`, `handleScale` | `HandleAgentAction`, `AgentActionReturns`, `ScaleOpen`, `ScaleCancel`, `HandleScale`, `ScaleReturns` |
| the configuration form, by its replicas | `ConfigEdit`, `HandleConfigSave`, `ConfigSaveReturns` |
| deletion | `DeleteAgent`, `AgentDeleteFails`, and `AgentGone` in `Dashboard` |
| the tabs and what entering one fetches | `AgentTab`, `RolloutTab`, `EvalTab` |
| the canary panel | `WeightSlides`, `CanaryCommand`, `AdjustReturns`, `PromoteReturns`, `RollbackReturns`, `StatusArrives` |
| the releases | `DeployRelease`, `ReleaseDeployed`, `ReleasesRefetched`, `StartCanary`, `CanaryStarted`, `CanaryStartedQuietly`, `ToggleRelease`, `DetailArrives`, `DiffWithPrevious`, `DiffArrives`, `DiffCloses` |
| the evaluation tab | `UploadDataset`, `TriggerEval`, `TickRun`, `CompareRuns`, `SelectDataset` and the answers to them |
| /evaluations | `PickAgent`, `LoadRuns`, `HandleTrigger`, `ToggleCompare` and the answers |

**AgentWizard** (`agents/new/page.tsx`). `HandleTypeChange`, `NameStep`, `PromptStep`, `Fill`, `DeliveryStep` are the fields, `WizardNextStep` and `WizardBack` the buttons,
`HandleCreate` the click, `HandleCreateReady`, `AutoDeployed` and `HandleCreateCustom` what follows the awaits. A field is abstracted to
whether `canProceed` accepts it (`wz.filled`).

**KnowledgePage** (`knowledge/[id]/page.tsx`, `knowledge/new/page.tsx`).

| code | actions |
|---|---|
| `refresh` at the mount, in the interval, after commands | `FirstRefresh`, `PollRefresh`, `PollRefreshed`, `IngestionEnds`, `DeletionRefreshed`, `Refreshed` |
| the list of files | `AddFiles`, `RemoveFile` |
| `startIngestion`, one upload after the other | `StartIngestion`, `UploadServed`, `IngestionStep` |
| deletion of a document | `HandleDeleteDocument`, `DocumentDeleted` |
| retrieval, settings | `RunRetrieval`, `RetrievalReturns`, `HandleSettingsSave`, `SettingsSaved` |
| deletion and creation of a base | `DeleteKb`, `CreateKb`, `KbAnswered`, and `BaseLeft` in `Dashboard` |

**Catalog, SkillsPage** (`memory`, `integrations`, `teams`, `governance`, `prompts`, `skills`, `agents`, `knowledge`). The eight pages keep the same kind of
state in hooks of their own, and one of them is mounted at a time: `ct` serves them all. What differs stays apart, in one group of actions
per page (`MemoryStep`, ..., `PromptsStep`): which buttons `loading` hides, whether an answer edits the copy (`Shows`, `Edits`) or fetches again
(`SettlesAndReloads`), whether a failed fetch empties the list. `MemberCommand` and `MembersArrive` are the members of an open team. `AssignSkill` sends the
list that `NewSkills` computes from the agents fetched earlier.

**Dashboard.** `Navigation` has one action for each way to change the page: `GoTo` (links), `GoToChat` (a notice), `Refresh`, `LogOut`, `Unauthorized`, `LoginSucceeds`,
`AgentGone`, `AgentMade`, `BaseLeft` (the three answers that navigate). Each is taken together with `PagesSwitch`, the switches of all pages. The page that is mounted
acts, with two exceptions that outlive it: the provider, and what a page has left in flight.

## The runs

| run | module | states | what it checks |
|---|---|---|---|
| `release_faults` | `ReleasePipeline` | 1.8 million | `TypeOK`, `VersionsContiguous`, `CurrentPointsToRelease`, `GateHolds` with two goroutines, faults and crashes |
| `release_ledger` | `ReleasePipelineLedger` | 1.2 million | `ImplementsLedger`, `ActiveWasEvaluated`, `SyncSkipsDeleted` with requests one after the other, crashes, repeated callbacks |
| `release_live` | `ReleasePipeline` | 21,000 | `PendingIsDecided`, `ActiveImpliesCurrent` with two goroutines under fairness |
| `kb_ingest` | `KBIngestion` | 9,200 | its type invariant, four safety properties and `Settles`, with faults and crashes |
| `canary` | `Canary` | 930,000 | its type invariant, `MeshIsBacked`, and that clean requests have their effect, with two goroutines, faults and crashes |
| `dashboard` | `Dashboard` | 367,000 | the dashboard's type invariant and nineteen properties of its pages, under all navigations |
| `release_race_version`, `release_gate_deploy`, `release_approval_lost`, `release_tombstone_race`, `kb_shared_name`, `canary_display_name` | | | a violation each, see [findings](#findings) |

*release_faults.* Whatever creates, deploys, deletions and callbacks do to each other: the
release files of an agent are always `v1..v<n>`; each holds the artifact of its own version;
`current.yaml` and `spec.version` name a version whose file exists; and where every payload
is governed no file says `active` without a passing score for its version. The last is not
obvious, because `approveRelease` and `Deploy` write copies that they read several calls before, a
create can replace a file (see the first finding), and a failed listing makes a create start over
at version 1. It holds because a release is approved only by a callback with a passing score, and
everything else that writes `active` copies an artifact that was active.

*release_ledger.* Where requests do not overlap and GitHub answers, the pipeline is an
append-only ledger, even if the server stops between any two calls and Corail repeats its
results (a repeated rejection rewrites only the changelog, and a late approval of a rejected
release would be a second decision: a verdict of one evaluation cannot be both). Sync never
registers an agent whose `current.yaml` says deleted.

*release_live.* A release that waits is decided unless the agent is deleted, although a second
create may have taken its version, replaced its file, and made the first verdict's PUT fail: the
second trigger brings a second verdict. `ActiveImpliesCurrent` says the two writes of an approval
end with a `current.yaml` whenever no request runs.

*kb_ingest.* Uploads with names of their own. `IngestsOwnUpload`, `UploadKeptUntilRead` and
`ReadyStays` hold in every state; `ProcessingHasWorker` (what the dashboard shows as processing
is being processed) and `Settles` (nothing stays pending or processing for ever) hold unless
`lost`, and are about the fact that one ingestion's statements change the rows of the others.

*canary.* `CleanupIsComplete`: a clean Promote, Rollback or Delete removes all, because it makes each of its calls
although others find nothing to delete. `StartTakesEffect`: a clean Start leaves what was asked for, and never pods of an
earlier canary's release: a Deployment that is still there makes it fail, and pods are gone with theirs.
`WeightTakesEffect`: CRD and mesh agree. `MeshIsBacked`: wherever the server stops, the VirtualService points to
a canary only when the DestinationRule, Deployment, ConfigMap and Service are there, because Start writes it last and Rollback
deletes it first. Delete does it the other way round, which is why a deletion counts as damage.

*dashboard.* All pages, all navigations, any order of answers. What the properties say, page by page:

* `WatchEndsAnnounced`: who leaves the chat while an agent answers is told when it has answered. Nothing done on other pages or in the bell drops a watch; only
  the load of a document does, or a run of the callback that believes its conversation to be on screen.
* `ChatLockHasWorker`: the input is never locked without something that will release it. The lock is handed over between streams, loads and pollers
  of several conversations, by code that looks at one reference each.
* `TokensStayInTheirChat`, `OnlyLateAnswersMisplace`: text goes to the conversation it belongs to, and the bubbles on screen are those of the open conversation; the
  premises name the cases where the code does not ensure it (see the observations).
* `CompareColumnHasItsStream`: the same for the two columns of a comparison, whose streams cannot be stopped.
* `AgentLockHasRequest`, `CanaryCommandsExclusive`, `EvalFlagsMatchRequests`: flags that disable buttons. The first is one-sided, since Scale and
  the other commands share a flag and overlap; the others are exact.
* `CanaryPanelCurrent`, `ReleaseDetailSettles`, `EvaluationsOfThePicked`, `KbListSettles`, `ListsAtRest`: once nothing is in flight, what is shown is what the server has
  (for the release detail: what is open), unless requests overlapped or failed.
* `EditsSurviveRefresh`: nothing but the operator changes the form after the first fetch, although the agent is fetched again after every command.
* `ComparedRunsDistinct`, `ReviewIsComplete`, `OneCreationAtATime`: no sequence of clicks compares a run with itself, creates an agent with an empty field, or
  creates two.
* `UploadRowsTruthful`: the list of uploads says of a file that it is done only if the server took it, and no file is sent twice, although rows are
  marked by their index in a list that changes.
* `AssignmentsAddUp`: an agent's skills are the sum of what was assigned and removed, although each command sends the whole list.

### Bounds

Every bound is a constant. `MaxVersion` bounds version numbers: a create starts only where
its version is sure to fit (`RoomForVersion`), so that no request is cut off in the middle.
`MaxEdits` bounds rejections and deletions, which otherwise append notes for ever.
`Offered` names the optional operations clients ask for. Two goroutines and two versions are
enough for every race between two requests: two creates of one version, a create and an
approval of the version it replaces, an approval and a deploy, an approval and a deletion. Races
of three requests are out of the runs' reach; the proofs have no bound. `release_ledger` has
three versions, so that a release can be overtaken by two others before it is decided or
deployed again. `kb_ingest` has two documents; every statement about the interference of
documents is about a pair, and the model with three (390,000 states) gives the same results.
`canary` has two goroutines (the theorems about the
same properties have any number), two releases, so that an old one and a new one meet, and the weights 0 (invalid,
replaced by 10 or refused) and 20. `release_faults` and `canary` take goroutines as symmetric; the liveness runs use no symmetry.

`dashboard` has four clicks (`MaxOps`). `Clicks` bounds further, page by page, how many clicks a behaviour may have had while the operator still acts on
the page: four on governance, three on the pages with the longest hazards (agent, knowledge base, integrations, evaluations, skills, the list of agents), two
on the others; the wizard, which is finite, and the bell are not bounded by it. Every page is mounted initially in some behaviour, so that all of its
clicks are available there; the remaining ones are for the navigation away and what happens then. Three clicks make every pair of
requests overlap, with a command, a tab or a third request between them; four are needed where the first one opens a tab. Two conversations, two agents, two versions, two runs, two files and
an old document: all these properties are about one or a pair. `MaxTicks` = 1, `MaxPolls` = 2, `MaxRefreshes` = 1 bound what intervals have in flight, `MaxWaiting` = 2 the
requests of an agent's tabs at the moment another tab is opened. Conversations are taken as symmetric: no definition chooses between them. The theorems about
the same properties have no bounds, and this mattered once: `OnlyLateAnswersMisplace` held in the run without its premise `~chat.overlap`, but could not be
proved; the counterexample takes two overlapping loads that leak a poller, a new chat, a message, the leaked poller that unlocks the input, a second
message, and a conversation opened over both, more clicks than the run has.

The runs switch deadlock checking off, except for `canary`, whose clients are not bounded: a server with nothing
to do, a bounded client with nothing left to ask, and an operator who has stopped clicking have stopped rightly.

### Fairness

In `ReleasePipeline`, weak fairness of `Call(p)`: a goroutine whose next call is possible makes it
(Go's scheduler; every call has a disjunct that is enabled). Weak fairness of each
`TriggerEvaluation(e)`: it is a goroutine that only posts. Strong fairness of the delivery of
each verdict: in the model a callback needs one of the finite `Procs` to be idle, while the server
starts a goroutine for every request it receives; without strong fairness the model could keep all
its goroutines busy with other requests, which is an artefact of `Procs`. That Corail
finishes and reports is an assumption about the runtime, made where neither faults nor crashes
are on. Nothing is assumed of clients.

In `KBIngestion`, weak fairness of the steps of each request and goroutine and of each Marée,
which ends in one way or the other. No fairness for deletions, for clients or for Marée's success.

`Dashboard` states no fairness and has no liveness property: a request may never be answered, a browser suspends the timers of
a tab in the background, and the operator need not click. What a liveness property would say of it ("the button becomes usable
again") is said as safety: a lock that is set is held by a request or a stream whose answer releases it (`ChatLockHasWorker`, `AgentLockHasRequest`,
`EvalFlagsMatchRequests`, `CompareColumnHasItsStream`, `OneCreationAtATime`).

## The proofs

`tlapm` checks the eight proof modules without any assumption except those stated on the constants:
`ConstantsAssumption` of each of the server's modules, `NoFileAssumption` of `KBIngestion` (the marker of an absent
file is not a file), `PointerAssumption` of `ReleasePipelineLedger` (nor is it what the ledger sees of a `current.yaml`), and for the dashboard `ShellAssumption`, `NotificationsAssumption`, `ChatAssumption`, `AgentAssumption`,
`EvaluationsAssumption`, `KnowledgeAssumption` and `DashboardAssumption`, which say that bounds are numbers, that there is an
agent, and that the marker None is neither an agent nor a conversation. In particular nothing bounds the goroutines, payloads, versions or documents, and
faults, crashes and repeated callbacks are arbitrary; nor does anything bound the clicks, requests, streams, pollers, conversations, runs and
files of the dashboard.

| theorem | statement |
|---|---|
| `ReleasePipelineProofs!TypeCorrect` | `Spec => []TypeOK` |
| `ReleasePipelineProofs!VersionsStayContiguous` | `Spec => []VersionsContiguous` |
| `ReleasePipelineProofs!PointersStayValid` | `Spec => []CurrentPointsToRelease` |
| `ReleasePipelineProofs!GateAlwaysHolds` | `Spec => []GateHolds` |
| `ReleaseLedgerProofs!LedgerIsImplemented` | `~Faults /\ Spec /\ []NoOverlap => ImplementsLedger` |
| `ReleaseLedgerProofs!SyncLeavesDeleted` | `~Faults /\ Spec /\ []NoOverlap => SyncSkipsDeleted` |
| `ReleaseLedgerProofs!ActiveIsEvaluated` | `~Faults /\ Spec /\ []OneCreate => []ActiveWasEvaluated` |
| `ReleaseLedgerProofs!ApprovalsLeaveCurrent` | `~Faults /\ ~Crashes /\ Spec => []ActiveImpliesCurrent` |
| `ReleaseLedgerProofs!ReleasesAreImmutable` | `~Faults /\ Spec /\ []OneCreate => ReleaseImmutable` |
| `ReleaseLedgerProofs!GateWithoutDeploy` | `~Faults /\ "deploy" \notin Offered /\ Spec /\ []OneCreate => []CurrentPassedGate` |
| `ReleaseLedgerProofs!ApprovalsTakeEffect` | `~Faults /\ ~Crashes /\ Spec /\ []NoOverlap => ApprovalTakesEffect` |
| `ReleaseLedgerProofs!DeletionsArchive` | `~Faults /\ ~Crashes /\ Spec /\ []NoOverlap => []DeletedIsArchived` |
| `KBIngestionProofs!TypeCorrect` | `Spec => []TypeOK` |
| `KBIngestionProofs!ChunksComeFromUpload` | `Spec => [](Distinct => IngestsOwnUpload)` |
| `KBIngestionProofs!ReadyIsFinal` | `Spec => ReadyStays` |
| `KBIngestionProofs!UploadsAreKept` | `Spec => []UploadKeptUntilRead` |
| `KBIngestionProofs!ProcessingIsWorkedOn` | `Spec => []ProcessingHasWorker` |
| `CanaryProofs!TypeCorrect` | `Spec => []TypeOK` |
| `CanaryProofs!MeshStaysBacked` | `Spec => []MeshIsBacked` |
| `CanaryProofs!CleanupCompletes` | `Spec => CleanupIsComplete` |
| `CanaryProofs!StartIsEffective` | `Spec => StartTakesEffect` |
| `CanaryProofs!WeightIsEffective` | `NameIsSlug /\ Spec => WeightTakesEffect` |
| `DashboardProofs!WatchesEndAnnounced` | `Spec => WatchEndsAnnounced` |
| `ChatProofs!ChatPageTyped` | `Spec => [](NotificationsTypeOK /\ ChatTypeOK /\ CompareTypeOK)` |
| `ChatProofs!ChatLocksReleased` | `Spec => []ChatLockHasWorker` |
| `ChatProofs!TokensKeptApart` | `Spec => []TokensStayInTheirChat` |
| `ChatProofs!BubblesAreOfTheOpen` | `Spec => []OnlyLateAnswersMisplace` |
| `ChatProofs!ColumnsHaveTheirStream` | `Spec => []CompareColumnHasItsStream` |
| `AgentProofs!AgentTyped` | `Spec => [](AgentTypeOK /\ RolloutTypeOK)` |
| `AgentProofs!AgentLocksReleased` | `Spec => []AgentLockHasRequest` |
| `AgentProofs!CanaryCommandsExclude` | `Spec => []CanaryCommandsExclusive` |
| `AgentProofs!CanaryPanelIsCurrent` | `Spec => []CanaryPanelCurrent` |
| `AgentProofs!ReleaseDetailsSettle` | `Spec => []ReleaseDetailSettles` |
| `AgentProofs!EditsAreKept` | `Spec => EditsSurviveRefresh` |
| `AgentProofs!EvaluationsTyped` | `Spec => []EvaluationsTypeOK` |
| `AgentProofs!EvalFlagsMatch` | `Spec => []EvalFlagsMatchRequests` |
| `AgentProofs!ComparisonsDistinct` | `Spec => []ComparedRunsDistinct` |
| `AgentProofs!RunsAreOfThePicked` | `Spec => []EvaluationsOfThePicked` |
| `PageProofs!ReviewedAgentsAreComplete` | `Spec => [](WizardTypeOK /\ ReviewIsComplete)` |
| `PageProofs!CreationsExclude` | `Spec => []OneCreationAtATime` |
| `PageProofs!ListsSettle` | `Spec => [](CatalogTypeOK /\ ListsAtRest)` |
| `PageProofs!AssignmentsKept` | `Spec => [](SkillsTypeOK /\ AssignmentsAddUp)` |
| `PageProofs!UploadsTruthful` | `Spec => []UploadRowsTruthful` |
| `PageProofs!DocumentsSettle` | `Spec => []KbListSettles` |
| `PageProofs!DashboardTyped` | `Spec => []DashboardTypeOK` |

**The release pipeline.** None of the invariants is inductive: each is about the files only, and a
write puts into them what a goroutine holds. `IInv` therefore says what every goroutine knows at the
call it is about to make (`ProcInv`). The heart is `WritesNext`: a goroutine about to write release `v` holds an
artifact of version `v`, every smaller version exists, and `v` itself exists unless it is being
created. Because files are never removed this stays true while others act (`OtherProc`, `SameFiles`), and it makes
the write keep the files contiguous. It also explains why a failed listing is harmless to contiguity: it yields 1, and
every version below 1 exists. `Refers` does the same for copies on their way to `current.yaml` and the CRD.
For the gate, `GateInv` adds that a goroutine which is to approve has a scored version and that an artifact in
a local variable says `active` only if its version is scored. One lemma per action for each of the two
invariants, then the theorems. `current.yaml` may hold a copy that is out of date; nothing stronger than these holds without
premises, as the findings show.

**The release pipeline without its races.** `ReleaseLedgerProofs` proves what is left when the causes of the findings are excluded, one premise
at a time. `~Faults` and `~Crashes` switch off failures; `OneCreate` says that no two requests create releases at a time, `NoOverlap` that no two requests about
the agent run at a time. They are premises about behaviours and not about the specification: the theorems are about the same `Spec` as all the others, and hold
in an installation whose clients happen to behave so.

* `ApprovalsLeaveCurrent` needs no premise about races. `PromotedInv`: when something says active there is a `current.yaml`, or an approval on its way to write one. GitHub may refuse
  that write, but only when there is one already: a `current.yaml` whose SHA was read is never removed.
* `ActiveIsEvaluated`, `ReleasesAreImmutable`, `GateWithoutDeploy` rest on `ReleasesOwn`: a trigger, an outcome or a score names a version *and* the payload its release file has
  (`OwnVerdicts`), and a goroutine about to write a release file writes a new one or one with the payload that is there (`OwnProc`). `OneCreate` is exactly what makes the
  second true: of two creates with one version, the later one holds another payload. `DecidedInv` adds that nothing but a deploy brings a
  copy to `current.yaml` that is neither approved nor a tombstone.
* `LedgerIsImplemented` is the refinement. Its invariant `LInv` says of the one goroutine that runs how its copy relates to the file it read, at every call (`AtRelease` and
  `AtCurrent`): since nobody else writes, the copy is still the file's. A crash may stop it anywhere; what it has written is a step of the ledger already. `EvalsInv` says that each release is asked about once, that
  all outcomes outstanding for it agree, and that it is undecided or decided as they say, so that a repeated callback decides nothing twice.
  One lemma for each call shows it to be a step of the ledger (append, decide, point, archive) or to leave `entries` and `pointer` alone.
  `SyncLeavesDeleted` and `ApprovalsTakeEffect` follow from `LInv` alone; `DeletionsArchive` needs `ArchiveInv`, that an agent which is gone has its tombstone or a request
  that will write it.

**The knowledge base.** `OwnInv`: what is in a file, what Marée read and what it stored come from uploads of
one name, whether or not names are distinct; distinctness then gives the property. `ReadyIsFinal` needs to know that an upload
whose row is still to be inserted has none (`StagesInv`), since inserting is what makes a row pending.
`KeptInv` follows an upload's file from its creation to the end of its copy, where it holds no bytes but its own;
it needs `StagesInv` to know that a removal under way belongs to a document that is gone.
`WorkerInv` asks more than `ProcessingHasWorker`, that a *pending* document has a worker too: one ingestion's start marks the pending
documents of the whole knowledge base, so the property is not inductive without it; nor without the absence of orphans, whose failure nobody records.

**The canary.** `Progress` says of each clean request what its calls so far have achieved, for example that `split` is
`None` and the routing rule gone when Rollback is about to delete the Deployment. Others cannot undo it because two requests that
overlap are both unclean (`Alone`). Kubernetes can start pods, but only from a Deployment and with the ConfigMap that the request has
written (`PodsHaveDeployment`); registering an agent does not touch an announced canary. What a request achieves is
`Progress` at its last call (`LastAnswer`, `EndsInCall`). Without damage every request is clean (`Intact`), from which `MeshIsBacked`
follows at the one call that could break it, the write of the VirtualService, and at the deletions. `AnswerInv` reduces every call to what it
does to the objects; one lemma per group of calls does the rest.

**The dashboard: any step, one page.** A theorem about one page must hold while all the others act. `DashboardProofs` shows once that every step of a mounted page or of the provider
leaves the page and the document alone (`PagesStay`), that every navigation is one of three kinds (`NavigationCases`), and hence what a step may be (`StepCases`). Each proof module derives from
it which steps touch its variables (`WizardMoves`, `ListMoves`, `KbMoves`, ...), and is then about these.

**The chat.** `OneFeed` is the heart of `ChatInv`: who may have the lock, and which of the references name it. It says how streams, pollers and loads relate to `sending`, `ref`, `abort` and
`poll` in every state, with `NoAgentNoFeed` for a page that has not been given an agent and `StreamsNamed` for what a stream's two conversations may be. From it,
each action keeps the three properties, which are conjuncts of the invariant themselves. `ColumnsAnswered` is the same for comparisons.

**The agent page and evaluations.** `AgentLockHasRequest` is inductive with the types of what requests carry. `PanelInv` says that while the status is
not blurred there is at most one request about it, and its answer, if it has one, is what the server still has; `DetailInv` the same for an open release. `OneChain` counts
the requests behind a flag: an upload is two requests, one after the other.

**The wizard.** Neither `canProceed` nor the review looks at earlier steps. `PassedAreFilled` says that a step behind the current one is filled; it holds because only the current
step's field can be emptied, for both sequences of steps and across a change of type, which keeps the step.

**The lists.** `ListInv` is one invariant for eight pages: while no request overtook another, a fetch in flight is alone, commands in flight are about different things, and
the list differs from the server's by nothing but the commands that have been carried out there and not been answered here (`DiffersByCommands`). A thing's number is the click that made it, so that
a creation in flight cannot meet its like (`NumbersPassed`). `MembersInv` is the same for a team's members, and `SumsUp` for assignments.

**The knowledge base.** `RowsInv`: while no row was removed under a loop, the list and every loop's copy agree on which file is in which row, files are in one row each, and a row that is done was
accepted; while there is one loop only, what it has yet to send has not been sent, and the row it sends is marked so (`SentOnce`, `Pending`). This is what the marking by index relies on, and what the two premises of
`UploadRowsTruthful` exclude. Rows are sequences of any length; removing, adding and marking one are the lemmas `RowsRemoved`, `RowsAdded`, `RowsMarked`. `DocsInv` says
that while nothing is muddled, at most one request is out about the documents, and page and server differ by its deletion at most.

The bound on how often a file is accepted, part of the types, is not one of the page but of the operator's patience: with rows removed and ingestion started again while loops run, a
file is sent by every loop that copied it. `SendInv` counts: the uploads of a file that were accepted, together with the loops that may still send it (`Senders`), are never more than the
clicks, since starting a loop is one, a loop holds a file once (`Apart`) and no longer has it ahead after sending it (`AheadShrinks`). With it `DashboardTyped` is complete; the other pages' types are conjuncts of their invariants.

Model-checked only: the liveness properties `PendingIsDecided` and `Settles`, which are out of the prover's reach, as is `ENABLED` and hence anything about fairness. The
properties of the runs that end in a violation are false without premises; where a premise makes them true (findings 1 to 5 and the canary's weight) the table above has the theorem.

## Findings

Each is a property that a comment or the documentation of Récif states and the code does not have; the run named
shows a shortest behaviour.

1. *Two creates share a version* (`release_race_version`, `ReleaseImmutable`). `release/handler.go:198` calls a
   release file immutable. The next version is taken from a listing; a second create that lists before
   the first has written takes the same number, then reads the SHA of the first's file just before
   its own PUT, and replaces it.
2. *Deploy ignores the gate* (`release_gate_deploy`, `CurrentPassedGate`). `src/README.md:115` says releases are
   blocked until scores pass. `Deploy` never looks at the release's status.
3. *An approval is lost* (`release_approval_lost`, `ApprovalTakesEffect`). `approveRelease` "promotes a release to active
   in the audit log", and ignores the errors of both writes: a concurrent deploy that changes `current.yaml` between its GET
   and its PUT makes the promotion disappear, with a success reported to Corail.
4. *A deleted agent is not archived* (`release_tombstone_race`, `DeletedIsArchived`). `onAgentDeleted` writes the tombstone "so
   the agent is archived"; an approval in flight writes `current.yaml` after the deletion looked for it, and Sync imports the agent again.
5. *Uploads share a file* (`kb_shared_name`, `IngestsOwnUpload`). `kb/handler.go:283` passes the file's path "so Marée processes only what
   was just uploaded"; two uploads with one name have one path.

6. *A weight that only the CRD knows* (`canary_display_name`, `WeightTakesEffect`). `canary_handler.go:453` updates the "Istio traffic split"
   under `agent.Name`, the display name, where every other call uses the slug. The mesh keeps its old weight, the request answers 200.

## Observations about the dashboard

What the code of the pages does and its authors may not have meant. The properties above name these cases in their premises; none of them has a run that
shows it as a violation, because hardly any contradicts what a comment says. Lines are of the page named.

*Chat.*
* The effect at 340-348 saves the open conversation for a refresh and, while there is none, erases what is saved. It runs when the page is mounted, before the agents arrive, so that
  the effect at 301 never finds a saved conversation after a refresh: the comments at 300 and 339 ("refresh persistence", "persist for refresh") describe what does not happen. What it does find is, on selecting another
  agent, the conversation of the previous one, which it opens under the new agent.
* Nothing after the await of `loadConversation` looks at which conversation is open by then: a late answer puts its messages under another conversation (`chat.stale`).
* Two overlapping loads of conversations that are being generated start two pollers, and `pollRef` knows one of them. The other goes on, unlocks the input when it is done, and then a second message can be
  sent over an open stream. Of two streams one cannot be stopped, and names the chat it finds (`chat.overlap`). The `finally` of the older one also resets the reference to the newer one's controller.
* A poller whose last request fails leaves the input locked (`chat.lost`).
* The status poll may hear "not generating" before the agent has begun with a message that was just sent.
* A notice clicked on /chat itself leaves `recif-chat-pending-cid` behind, which the next agent selected opens.
* `compareAbortRef` is never used: neither the toggle nor leaving the page stops a comparison's streams.

*Agent page.*
* Scale's Apply is enabled during other commands; the flag they share is cleared by whichever answers first.
* Saving the configuration sends the form's replicas, which a scale since then has changed: it is reverted.
* A status that cannot be fetched counts as no canary and hides a running one, with its buttons.
* `deployingVersion` holds one version: deploying a second one enables the first one's button again.
* The artifact of a release that was closed, or replaced by another, is shown under the one that is open when it arrives (`ro.crossed`).
* The answer to a deletion pushes /agents, whatever page the operator has gone to.
* A second fetch of the data sets sets the selection back to the first.

*Wizard.* The comment at 232 says that a change of type resets the step; the code keeps it. An answer with an HTTP error says "Created!". `finally` unlocks the button before the document is
left. Leaving the document loses what notifications watch.

*Knowledge base.* Documents that cannot be fetched count as none, which stops the interval that would fetch them again. Enter starts a search over a running one, although the button is disabled. Removing a row while
uploads run shifts the marks of the rows behind it, and a second click on the button after adding files starts a second loop.

*Skills.* The message and the lock of an import are lost when its reload shows the loading screen. A save that answers late closes a modal opened since, a deletion the panel. Assignments computed from cached agents
lose each other.

*Login* ignores the parameter `next` that `middleware.ts` sets.

## What is not modelled

* The contents of artifacts, CRDs and configurations, and the mappings between them (`Enrich`, `applyConfigToAgent`, `BuildArtifact`, `applyCRD`). In `ReleasePipeline` they are
  opaque payloads: which field survives which mapping is a table, better checked by a round-trip test than by interleavings. With them go the informer's lag and the order in which two deploys
  write `current.yaml` and the CRD; the latter is the one hazard in `PROJECT.json` that no property covers, as the order of the two is not part of what the code states.
* Several agents: they share nothing in the state repository but the commit history, which the code does not read.
  (GitHub may refuse a PUT when the branch moved; this is among the failures of `Faults`.)
* Flagger's gate: its webhook changes nothing, its verdict is a pure function of one run's metrics.
* The proxy's cache of canary weights, and the connections of the gRPC proxy: each is a map guarded by one mutex inside one function, and what a stale weight may
  do is bounded by ten seconds, which is time and not order.
* The evaluation store, feedback, governance: maps under one mutex each, and figures derived from them. The pages that show them take any answer.
* Platform configuration: a record, its file, and clients that are handed a copy. Two updates may persist their copies in the other order; nothing in the repository says which should win.
* Agent lifecycle and the deploy handler: one status write per request.
* Teams, users, authentication, skills, integrations, prompts, radar, audit on the server: one call or one statement per request.
* Search in knowledge bases: it reads.
* Of the dashboard: the pages for tools, radar and settings (one fetch and one form each); the creation of users on the page of teams; the cookie and the middleware; themes and layout; the palette's search; the providers and models of
  the wizard, which are never empty; the overview, the events and the scores beside the canary on the agent's page, which are fetched and shown; the chat code of that page, which no tab reaches. An agent's commands that are in flight when
  the operator leaves and comes back: their answers go to a component that is gone. Other clients that change a list while a page shows it.
* The server under the dashboard: `Dashboard` and the server's modules are not composed. The pages see an API whose calls are answered, fail, or are lost; the interleavings inside a call are the
  subject of the other modules, and a page cannot tell them apart.
* Generated code, migrations, Helm charts, the documentation site.

## Running it

    tlc -workers 2 -config release_faults.cfg MCReleasePipeline.tla
    tlc -workers 2 -config kb_ingest.cfg MCKBIngestion.tla
    tlc -workers 2 -config canary.cfg MCCanary.tla
    tlc -workers 2 -config dashboard.cfg MCDashboard.tla
    tlapm ReleasePipelineProofs.tla
    tlapm ReleaseLedgerProofs.tla
    tlapm KBIngestionProofs.tla
    tlapm CanaryProofs.tla
    tlapm DashboardProofs.tla
    tlapm AgentProofs.tla
    tlapm ChatProofs.tla
    tlapm PageProofs.tla

The configuration of a run has its name; those that begin with `release_` belong to `MCReleasePipeline`, those with
`kb_` to `MCKBIngestion`, with `canary` to `MCCanary`, and `dashboard` to `MCDashboard`. `release_faults`, `release_ledger` and `dashboard` take between one and
three minutes, the others seconds. `PageProofs` takes about fifteen minutes from nothing, the other proofs less.
