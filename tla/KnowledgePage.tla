---------------------------- MODULE KnowledgePage ----------------------------
(***************************************************************************)
(* The page of one knowledge base, knowledge/[id], and the form            *)
(* knowledge/new.  The page refreshes itself every two seconds while it    *)
(* shows a document that is being ingested, uploads files one after the    *)
(* other, and deletes documents.                                           *)
(*                                                                         *)
(*   kp       docs: the status shown per document; rows: the upload list;  *)
(*            found: kb # null; muddled records that the documents were    *)
(*            asked for over another request, or in vain; shifted that a   *)
(*            row was removed, doubled that ingestion was started again,   *)
(*            while a loop of uploads was running; sent counts per file    *)
(*            the uploads the server accepted                              *)
(*   kpReqs   requests in flight                                           *)
(*   kpLoops  running calls of startIngestion: plan is the closure's copy  *)
(*            of the list, i the row being sent                            *)
(*   kn       knowledge/new: saving                                        *)
(*   kbOut    deletions and creations of knowledge bases under way, and    *)
(*            documents about to be loaded, page or no page                *)
(*   docStore external: the documents at the server                        *)
(***************************************************************************)
EXTENDS AgentWizard

CONSTANTS
    MaxFiles,       \* bound: files the operator uploads; file f becomes document f
    MaxRefreshes    \* bound: refreshes of the interval in flight

ASSUME KnowledgeAssumption == MaxFiles \in Nat /\ MaxRefreshes \in Nat \ {0}

VARIABLES kp, kpReqs, kpLoops, kn, kbOut, docStore

kpVars == <<kp, kpReqs, kpLoops, docStore>>
knVars == <<kn, kbOut>>

Files == 1..MaxFiles
Old == MaxFiles + 1        \* a document that was there before
Documents == Files \cup {Old}
MaybeDocument == Documents \cup {0}
DocStatus == {"absent", "processing", "ready"}
Docs == [Documents -> DocStatus]
Row == [f : Files, st : {"queued", "uploading", "done", "error"}]

KbPage == [loading : BOOLEAN, found : BOOLEAN, tab : {"documents", "upload", "retrieval", "settings"},
           docs : Docs, deleting : MaybeDocument, rows : Seq(Row), searching : BOOLEAN,
           results : Ids, saving : BOOLEAN, picked : 0..MaxFiles,
           sent : [Files -> Ids],
           muddled : BOOLEAN, shifted : BOOLEAN, doubled : BOOLEAN]

\* k: what the answer is for.  A refresh of kind "tab" ends an ingestion.
RefreshKinds == {"first", "poll", "tab", "removed"}
KpReq == [k : RefreshKinds \cup {"remove", "search", "save"}, id : Ids, f : MaybeDocument,
          st : {"asked", "ok", "noDocs", "failed"}, got : Docs]
Loop == [id : Ids, plan : Seq(Row), i : Nat, st : {"asked", "ok", "failed"}]

KnowledgeTypeOK ==
    /\ kp \in KbPage /\ kpReqs \subseteq KpReq /\ kpLoops \subseteq Loop
    /\ kn \in BOOLEAN
    /\ kbOut \subseteq [st : {"delete", "create", "leave"}, to : {"kb", "kbs"}, own : BOOLEAN]
    /\ docStore \in Docs

NoDocs == [f \in Documents |-> "absent"]

KbClosed == [loading |-> TRUE, found |-> FALSE, tab |-> "documents", docs |-> NoDocs,
             deleting |-> 0, rows |-> <<>>, searching |-> FALSE, results |-> 0,
             saving |-> FALSE, picked |-> 0, sent |-> [f \in Files |-> 0],
             muddled |-> FALSE, shifted |-> FALSE, doubled |-> FALSE]

KpReqNew(k, i) == [k |-> k, id |-> i, f |-> 0, st |-> "asked", got |-> NoDocs]
OnKb == On("kb") /\ Click /\ ~kp.loading /\ kp.found
KpHandles(r, kinds) == page = "kb" /\ r.k \in kinds /\ r.st # "asked" /\ Unattended

\* Requests that read or change the documents.
DocsUnderWay == kpLoops # {} \/ \E r \in kpReqs : r.k \in RefreshKinds \cup {"remove"}

hasActive == \E f \in Documents : kp.docs[f] = "processing"

(***************************************************************************)
(* refresh: the base and its documents.  Documents that cannot be fetched  *)
(* are taken for none; a base that cannot be fetched leaves both alone.    *)
(***************************************************************************)
Refreshed(state, r) ==
    CASE r.st = "ok"     -> [state EXCEPT !.found = TRUE, !.docs = r.got]
      [] r.st = "noDocs" -> [state EXCEPT !.found = TRUE, !.docs = NoDocs, !.muddled = TRUE]
      [] OTHER           -> [state EXCEPT !.muddled = TRUE]

FirstRefresh(r) ==
    /\ KpHandles(r, {"first"})
    /\ kp' = [Refreshed(kp, r) EXCEPT !.loading = FALSE]
    /\ kpReqs' = kpReqs \ {r}
    /\ UNCHANGED <<kpLoops, docStore>>

\* The interval lives as long as a document shown is active.
PollRefresh ==
    /\ page = "kb" /\ hasActive /\ Unattended
    /\ Cardinality({r \in kpReqs : r.k = "poll"}) < MaxRefreshes
    /\ KpReqNew("poll", 0) \notin kpReqs
    /\ kpReqs' = kpReqs \cup {KpReqNew("poll", 0)}
    /\ kp' = [kp EXCEPT !.muddled = DocsUnderWay]
    /\ UNCHANGED <<kpLoops, docStore>>

PollRefreshed(r) ==
    /\ KpHandles(r, {"poll"})
    /\ kp' = Refreshed(kp, r)
    /\ kpReqs' = kpReqs \ {r}
    /\ UNCHANGED <<kpLoops, docStore>>

KbTab(t) ==
    /\ OnKb /\ t # kp.tab
    /\ kp' = [kp EXCEPT !.tab = t]
    /\ UNCHANGED <<kpReqs, kpLoops, docStore>>

(***************************************************************************)
(* The upload list.                                                        *)
(***************************************************************************)
AddFiles ==
    /\ OnKb /\ kp.tab = "upload"
    /\ \E n \in 1..(MaxFiles - kp.picked) :
          kp' = [kp EXCEPT !.picked = @ + n,
                           !.rows = @ \o [i \in 1..n |-> [f |-> kp.picked + i, st |-> "queued"]]]
    /\ UNCHANGED <<kpReqs, kpLoops, docStore>>

\* Rows are removed by their place in the list.
RemoveFile(i) ==
    /\ OnKb /\ kp.tab = "upload"
    /\ i \in DOMAIN kp.rows /\ kp.rows[i].st = "queued"
    /\ kp' = [kp EXCEPT !.rows = SubSeq(@, 1, i - 1) \o SubSeq(@, i + 1, Len(@)),
                        !.shifted = @ \/ kpLoops # {}]
    /\ UNCHANGED <<kpReqs, kpLoops, docStore>>

Marked(rows, i, st) == IF i \in DOMAIN rows THEN [rows EXCEPT ![i].st = st] ELSE rows

\* The rows a loop still has to send, by its own copy of the list.
Ahead(plan, i) == {j \in DOMAIN plan : j > i /\ plan[j].st = "queued"}
First(S) == CHOOSE j \in S : \A k \in S : j <= k

StartIngestion ==
    /\ OnKb /\ kp.tab = "upload" /\ Ahead(kp.rows, 0) # {}
    /\ LET i == First(Ahead(kp.rows, 0))
       IN  /\ kp' = [kp EXCEPT !.rows = Marked(@, i, "uploading"),
                               !.muddled = TRUE, !.doubled = @ \/ kpLoops # {}]
           /\ kpLoops' = kpLoops \cup {[id |-> ops', plan |-> kp.rows, i |-> i, st |-> "asked"]}
    /\ UNCHANGED <<kpReqs, docStore>>

\* Mutant: an upload that failed is marked done.
IngestionDone(l) ==
    /\ page = "kb" /\ l.st # "asked" /\ Unattended
    /\ kpLoops' = kpLoops \ {l}
    /\ kp' = [kp EXCEPT !.rows = Marked(@, l.i, "done")]
    /\ kpReqs' = kpReqs \cup {KpReqNew("tab", l.id)}
    /\ UNCHANGED docStore

\* One upload returns; the next one starts, or the documents are fetched.
IngestionStep(l) ==
    /\ page = "kb" /\ l.st # "asked" /\ Unattended
    /\ LET rows == Marked(kp.rows, l.i, IF l.st = "ok" THEN "done" ELSE "error")
           j == First(Ahead(l.plan, l.i))
       IN  IF Ahead(l.plan, l.i) # {}
           THEN /\ kp' = [kp EXCEPT !.rows = Marked(rows, j, "uploading")]
                /\ kpLoops' = (kpLoops \ {l}) \cup {[l EXCEPT !.i = j, !.st = "asked"]}
                /\ UNCHANGED kpReqs
           ELSE /\ kpLoops' = kpLoops \ {l}
                /\ kp' = [kp EXCEPT !.rows = rows, !.muddled = kpLoops' # {} \/
                             \E r \in kpReqs : r.k \in RefreshKinds \cup {"remove"}]
                /\ kpReqs' = kpReqs \cup {KpReqNew("tab", l.id)}
    /\ UNCHANGED docStore

\* Mutant: the tab is changed, and the documents are not.
IngestionShows(r) ==
    /\ KpHandles(r, {"tab"})
    /\ kp' = [kp EXCEPT !.tab = "documents"]
    /\ kpReqs' = kpReqs \ {r}
    /\ UNCHANGED <<kpLoops, docStore>>

\* setTab("documents"), wherever the operator has gone in the meantime.
IngestionEnds(r) ==
    /\ KpHandles(r, {"tab"})
    /\ kp' = [Refreshed(kp, r) EXCEPT !.tab = "documents"]
    /\ kpReqs' = kpReqs \ {r}
    /\ UNCHANGED <<kpLoops, docStore>>

(***************************************************************************)
(* Deleting a document: the row goes at once, then everything is fetched.  *)
(***************************************************************************)
HandleDeleteDocument(f) ==
    /\ OnKb /\ kp.tab = "documents"
    /\ kp.docs[f] # "absent" /\ kp.deleting # f
    /\ kp' = [kp EXCEPT !.deleting = f, !.muddled = @ \/ DocsUnderWay]
    /\ kpReqs' = kpReqs \cup {[KpReqNew("remove", ops') EXCEPT !.f = f]}
    /\ UNCHANGED <<kpLoops, docStore>>

DocumentDeleted(r) ==
    /\ KpHandles(r, {"remove"})
    /\ kpReqs' = (kpReqs \ {r}) \cup (IF r.st = "ok" THEN {KpReqNew("removed", r.id)} ELSE {})
    /\ kp' = IF r.st = "ok" THEN [kp EXCEPT !.docs[r.f] = "absent"]
             ELSE [kp EXCEPT !.deleting = 0, !.muddled = TRUE]
    /\ UNCHANGED <<kpLoops, docStore>>

DeletionRefreshed(r) ==
    /\ KpHandles(r, {"removed"})
    /\ kp' = [Refreshed(kp, r) EXCEPT !.deleting = 0]
    /\ kpReqs' = kpReqs \ {r}
    /\ UNCHANGED <<kpLoops, docStore>>

(***************************************************************************)
(* The retrieval test (Enter searches also while a search is under way)    *)
(* and the settings, which nothing stores: saving waits 600 ms.            *)
(***************************************************************************)
RunRetrieval ==
    /\ OnKb /\ kp.tab = "retrieval"
    /\ kp' = [kp EXCEPT !.searching = TRUE, !.results = 0]
    /\ kpReqs' = kpReqs \cup {KpReqNew("search", ops')}
    /\ UNCHANGED <<kpLoops, docStore>>

RetrievalReturns(r) ==
    /\ KpHandles(r, {"search"})
    /\ kp' = [kp EXCEPT !.searching = FALSE, !.results = IF r.st = "ok" THEN r.id ELSE 0]
    /\ kpReqs' = kpReqs \ {r}
    /\ UNCHANGED <<kpLoops, docStore>>

HandleSettingsSave ==
    /\ OnKb /\ kp.tab = "settings" /\ ~kp.saving
    /\ kp' = [kp EXCEPT !.saving = TRUE]
    /\ kpReqs' = kpReqs \cup {[KpReqNew("save", ops') EXCEPT !.st = "ok"]}
    /\ UNCHANGED <<kpLoops, docStore>>

SettingsSaved(r) ==
    /\ KpHandles(r, {"save"})
    /\ kp' = [kp EXCEPT !.saving = FALSE]
    /\ kpReqs' = kpReqs \ {r}
    /\ UNCHANGED <<kpLoops, docStore>>

(***************************************************************************)
(* Deleting a base and creating one end in a new document, whatever page   *)
(* the operator is on by then; the answer to a deletion is not looked at.  *)
(***************************************************************************)
DeleteKb ==
    /\ OnKb
    /\ kbOut' = kbOut \cup {[st |-> "delete", to |-> "kbs", own |-> TRUE]}
    /\ UNCHANGED <<kn, kpVars>>

CreateKb ==
    /\ On("kbNew") /\ Click /\ ~kn
    /\ kn' = TRUE
    /\ kbOut' = kbOut \cup {[st |-> "create", to |-> "kb", own |-> TRUE]}
    /\ UNCHANGED kpVars

KbAnswered(o) ==
    /\ o.st # "leave" /\ Unattended
    /\ \/ kbOut' = (kbOut \ {o}) \cup {[o EXCEPT !.st = "leave"]}
       \/ kbOut' = kbOut \ {o}
    /\ kn' = (kn /\ ~(o.st = "create" /\ o.own))
    /\ UNCHANGED kpVars

(***************************************************************************)
(* External: the API server, and its ingestion, which ends.                *)
(***************************************************************************)
KpAnswered(r) ==
    /\ r.st = "asked" /\ Unattended
    /\ docStore' = IF r.k = "remove" THEN [docStore EXCEPT ![r.f] = "absent"] ELSE docStore
    /\ kpReqs' = (kpReqs \ {r}) \cup {[r EXCEPT !.st = "ok", !.got = docStore']}
    /\ UNCHANGED <<kp, kpLoops>>

KpFailed(r) ==
    /\ r.st = "asked" /\ Unattended
    /\ \E a \in {"failed"} \cup (IF r.k \in RefreshKinds THEN {"noDocs"} ELSE {}) :
          kpReqs' = (kpReqs \ {r}) \cup {[r EXCEPT !.st = a]}
    /\ UNCHANGED <<kp, kpLoops, docStore>>

UploadServed(l) ==
    /\ l.st = "asked" /\ Unattended
    /\ \/ /\ docStore' = [docStore EXCEPT ![l.plan[l.i].f] = "processing"]
          /\ kp' = [kp EXCEPT !.sent[l.plan[l.i].f] = @ + 1]
          /\ kpLoops' = (kpLoops \ {l}) \cup {[l EXCEPT !.st = "ok"]}
       \/ /\ kpLoops' = (kpLoops \ {l}) \cup {[l EXCEPT !.st = "failed"]}
          /\ UNCHANGED <<docStore, kp>>
    /\ UNCHANGED kpReqs

DocumentIngested(f) ==
    /\ docStore[f] = "processing" /\ Unattended
    /\ docStore' = [docStore EXCEPT ![f] = "ready"]
    /\ UNCHANGED <<kp, kpReqs, kpLoops>>

KbPageStep ==
    /\ page = "kb"
    /\ \/ \E t \in {"documents", "upload", "retrieval", "settings"} : KbTab(t)
       \/ PollRefresh \/ AddFiles \/ StartIngestion \/ RunRetrieval \/ HandleSettingsSave
       \/ \E i \in 1..MaxFiles : RemoveFile(i)
       \/ \E f \in Documents : HandleDeleteDocument(f) \/ DocumentIngested(f)
       \/ \E l \in kpLoops : UploadServed(l) \/ IngestionStep(l)
       \/ \E r \in kpReqs :
             \/ KpAnswered(r) \/ KpFailed(r) \/ FirstRefresh(r) \/ PollRefreshed(r) \/ IngestionEnds(r)
             \/ DocumentDeleted(r) \/ DeletionRefreshed(r) \/ RetrievalReturns(r) \/ SettingsSaved(r)

KbStep ==
    \/ KbPageStep /\ UNCHANGED knVars
    \/ DeleteKb \/ CreateKb
    \/ \E o \in kbOut : KbAnswered(o)

KbMounted == {KpReqNew("first", 0)}

\* A mount finds a base with one document, in any state, or none.
DocsAt(p) ==
    {[NoDocs EXCEPT ![Old] = s] : s \in IF p = "kb" THEN DocStatus ELSE {"absent"}}

KbInit ==
    /\ docStore \in DocsAt(page)
    /\ kp = KbClosed
    /\ kpReqs = IF page = "kb" THEN KbMounted ELSE {}
    /\ kpLoops = {} /\ kn = FALSE /\ kbOut = {}

KbSwitch ==
    /\ IF Leaving("kb") \/ Entering("kb") \/ Reloading
       THEN /\ kp' = KbClosed /\ kpLoops' = {}
            /\ kpReqs' = IF page' = "kb" THEN KbMounted ELSE {}
            /\ docStore' \in DocsAt(page')
       ELSE UNCHANGED kpVars
    /\ kn' = (kn /\ ~(Leaving("kbNew") \/ Reloading))
    /\ kbOut' = IF Reloading THEN {} ELSE
                {[o EXCEPT !.own = @ /\ ~(Leaving("kb") \/ Leaving("kbNew"))] : o \in kbOut}

(***************************************************************************)
(* Properties                                                              *)
(***************************************************************************)
\* The list of uploads tells the truth: a row that says done was accepted by
\* the server, and no file was accepted twice, unless a row was removed or
\* ingestion started again while a loop was running.
UploadRowsTruthful ==
    /\ ~kp.shifted => \A i \in DOMAIN kp.rows :
                         kp.rows[i].st = "done" => kp.sent[kp.rows[i].f] > 0
    /\ ~kp.shifted /\ ~kp.doubled => \A f \in Files : kp.sent[f] <= 1

\* At rest the documents shown are those of the server, and none is shown
\* ready before it is, when the last refresh was asked for alone and answered.
KbListSettles ==
    page = "kb" /\ ~kp.loading /\ ~DocsUnderWay /\ ~kp.muddled =>
       \A f \in Documents : /\ kp.docs[f] = "absent" <=> docStore[f] = "absent"
                            /\ kp.docs[f] = "ready" => docStore[f] = "ready"
=============================================================================
