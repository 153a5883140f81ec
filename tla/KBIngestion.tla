----------------------------- MODULE KBIngestion -----------------------------
(***************************************************************************)
(* The documents of one knowledge base: internal/kb/handler.go and the     *)
(* statements of internal/kb/store.go it runs.  An upload is saved under   *)
(* the name the client gave it, gets a row in kb_documents, and is then    *)
(* ingested in the background by the Maree command, which reads the file,  *)
(* writes chunks and marks the row ready.                                  *)
(*                                                                         *)
(* Each document stands for one upload.  Its request and its ingestion are *)
(* one sequence of steps, a step per statement sent to Postgres and per    *)
(* operation on the upload directory, and the steps of different documents *)
(* interleave.  Maree is not in this repository: of it the model knows the *)
(* arguments it is given and that it reports failure by its exit code.     *)
(*                                                                         *)
(*   kb        the row in knowledge_bases                                  *)
(*   doc       the status of each row in kb_documents                      *)
(*   chunks    the uploads whose text is in the chunks of the document     *)
(*   file      the upload directory: per name the uploads whose bytes the  *)
(*             file may hold, and those that still write to it             *)
(*   step      per document, what its goroutine does next                  *)
(*   read      what Maree has read for the document                        *)
(*   orphans   documents whose Maree outlived the server that started it   *)
(*   removing  deleted documents whose file is not removed yet             *)
(*   clearing  the knowledge base is deleted, its directory not yet        *)
(*   lost      history: the server stopped, or an error was not recorded   *)
(***************************************************************************)
CONSTANTS
    Docs,     \* documents, each uploaded at most once
    Names,    \* file names
    FileOf,   \* the name each document is uploaded with
    NoFile,   \* "this path does not exist"
    Faults,   \* statements and file operations may fail
    Crashes   \* the API server may crash and restart

ASSUME ConstantsAssumption ==
    /\ FileOf \in [Docs -> Names]
    /\ Faults \in BOOLEAN
    /\ Crashes \in BOOLEAN

Upload == [bytes : SUBSET Docs, open : SUBSET Docs]

ASSUME NoFileAssumption == NoFile \notin Upload

Status == {"pending", "processing", "ready", "error"}

\* Steps of the request and the goroutine it starts, and of Maree.
ServerSteps == {"checked", "opened", "saved", "mark", "failed"}
MareeSteps == {"maree", "ingest"}

VARIABLES kb, doc, chunks, file, step, read, orphans, removing, clearing, lost

rows == <<kb, doc, chunks>>
cleanup == <<removing, clearing>>
vars == <<rows, file, step, read, orphans, cleanup, lost>>

Goto(d, s) == step' = [step EXCEPT ![d] = s]

HasRow(d) == doc[d] \in Status

\* Mutant: a status that the store does not know.
TransitionUnknown(to, from) ==
    doc' = [d \in Docs |-> IF doc[d] \notin from THEN doc[d]
                           ELSE IF to = "error" THEN "failed" ELSE to]

\* transitionDocumentStatus: one UPDATE over the whole knowledge base.
Transition(to, from) ==
    doc' = [d \in Docs |-> IF doc[d] \in from THEN to ELSE doc[d]]

Init ==
    /\ kb = "absent"
    /\ doc = [d \in Docs |-> "none"]
    /\ chunks = [d \in Docs |-> {}]
    /\ file = [n \in Names |-> NoFile]
    /\ step = [d \in Docs |-> "idle"]
    /\ read = [d \in Docs |-> {}]
    /\ orphans = {}
    /\ removing = {}
    /\ clearing = FALSE
    /\ lost = FALSE

CreateKB ==
    /\ kb = "absent"
    /\ kb' = "present"
    /\ UNCHANGED <<doc, chunks, file, step, read, orphans, cleanup, lost>>

-----------------------------------------------------------------------------
(* Ingest: the request. *)

\* The knowledge base is looked up.
StartUpload(d) ==
    /\ step[d] = "idle"
    /\ kb = "present"
    /\ Goto(d, "checked")
    /\ UNCHANGED <<rows, file, read, orphans, cleanup, lost>>

\* MkdirAll and os.Create, which empties a file that is there.
CreateFile(d) ==
    /\ step[d] = "checked"
    /\ \/ /\ file' = [file EXCEPT ![FileOf[d]] =
                        [bytes |-> {},
                         open |-> {d} \cup (IF @ = NoFile THEN {} ELSE @.open)]]
          /\ Goto(d, "opened")
       \/ /\ Faults \/ kb = "deleted"
          /\ Goto(d, "done")
          /\ UNCHANGED file
    /\ UNCHANGED <<rows, read, orphans, cleanup, lost>>

\* The file with what d has copied into it; a file that was removed meanwhile
\* is written to no purpose.
Copied(d) ==
    LET f == file[FileOf[d]] IN
    IF f # NoFile /\ d \in f.open
    THEN [file EXCEPT ![FileOf[d]] =
            [bytes |-> f.bytes \cup {d}, open |-> f.open \ {d}]]
    ELSE file

\* io.Copy.  Another upload of that name may write the same file.
CopyBytes(d) ==
    /\ step[d] = "opened"
    /\ file' = Copied(d)
    /\ Goto(d, "saved") \/ (Faults /\ Goto(d, "done"))
    /\ UNCHANGED <<rows, read, orphans, cleanup, lost>>

\* CreateDocument, which the foreign key refuses once the knowledge base is
\* gone; the ingestion goroutine starts.
InsertDocument(d) ==
    /\ step[d] = "saved"
    /\ \/ /\ kb = "present"
          /\ doc' = [doc EXCEPT ![d] = "pending"]
          /\ Goto(d, "mark")
       \/ /\ Faults \/ kb = "deleted"
          /\ Goto(d, "done")
          /\ UNCHANGED doc
    /\ UNCHANGED <<kb, chunks, file, read, orphans, cleanup, lost>>

-----------------------------------------------------------------------------
(* triggerIngestion. *)

\* Mutant: a failed document is shown as processing again.
MarkProcessingAgain(d) ==
    /\ step[d] = "mark"
    /\ Transition("processing", {"pending", "error"}) \/ (Faults /\ UNCHANGED doc)
    /\ Goto(d, "maree")
    /\ UNCHANGED <<kb, chunks, file, read, orphans, cleanup, lost>>

\* MarkDocumentsProcessing; its error is only logged.
MarkProcessing(d) ==
    /\ step[d] = "mark"
    /\ Transition("processing", {"pending"}) \/ (Faults /\ UNCHANGED doc)
    /\ Goto(d, "maree")
    /\ UNCHANGED <<kb, chunks, file, read, orphans, cleanup, lost>>

\* Mutant: Maree is given the directory.
SourceDirectory(d) == {n \in Names : file[n] # NoFile}

\* What --source names: the file of this upload.
Source(d) == {FileOf[d]} \cap {n \in Names : file[n] # NoFile}

\* Maree reads its source.
MareeReads(d) ==
    /\ step[d] = "maree"
    /\ Source(d) # {}
    /\ read' = [read EXCEPT ![d] = UNION {file[n].bytes : n \in Source(d)}]
    /\ Goto(d, "ingest")
    /\ UNCHANGED <<rows, file, orphans, cleanup, lost>>

\* Maree stores the chunks and updates the row it was given.
MareeSucceeds(d) ==
    /\ step[d] = "ingest"
    /\ HasRow(d)
    /\ doc' = [doc EXCEPT ![d] = "ready"]
    /\ chunks' = [chunks EXCEPT ![d] = read[d]]
    /\ Goto(d, "done")
    /\ orphans' = orphans \ {d}
    /\ UNCHANGED <<kb, file, read, cleanup, lost>>

\* Maree exits with an error, which concerns the server that waits for it.
MareeFails(d) ==
    /\ step[d] \in MareeSteps
    /\ Goto(d, IF d \in orphans THEN "done" ELSE "failed")
    /\ orphans' = orphans \ {d}
    /\ UNCHANGED <<rows, file, read, cleanup, lost>>

\* Mutant: a failed ingestion marks every document of the knowledge base.
MarkErrorAll(d) ==
    /\ step[d] = "failed"
    /\ \/ Transition("error", Status) /\ UNCHANGED lost
       \/ Faults /\ lost' = TRUE /\ UNCHANGED doc
    /\ Goto(d, "done")
    /\ UNCHANGED <<kb, chunks, file, read, orphans, cleanup>>

\* Mutant: it marks those that are processing, while marking them as such may
\* have failed.
MarkErrorProcessing(d) ==
    /\ step[d] = "failed"
    /\ \/ Transition("error", {"processing"}) /\ UNCHANGED lost
       \/ Faults /\ lost' = TRUE /\ UNCHANGED doc
    /\ Goto(d, "done")
    /\ UNCHANGED <<kb, chunks, file, read, orphans, cleanup>>

\* MarkDocumentsError; its error is only logged.
MarkError(d) ==
    /\ step[d] = "failed"
    /\ \/ Transition("error", {"pending", "processing"}) /\ UNCHANGED lost
       \/ Faults /\ lost' = TRUE /\ UNCHANGED doc
    /\ Goto(d, "done")
    /\ UNCHANGED <<kb, chunks, file, read, orphans, cleanup>>

-----------------------------------------------------------------------------
(* Deletion: the row first, with its chunks (ON DELETE CASCADE), then the  *)
(* file, best effort.                                                      *)

DeleteDocument(d) ==
    /\ HasRow(d)
    /\ doc' = [doc EXCEPT ![d] = "deleted"]
    /\ chunks' = [chunks EXCEPT ![d] = {}]
    /\ removing' = removing \cup {d}
    /\ UNCHANGED <<kb, file, step, read, orphans, clearing, lost>>

\* Mutant: the directory goes with the document.
RemoveUploads(d) ==
    /\ d \in removing
    /\ removing' = removing \ {d}
    /\ file' = [n \in Names |-> NoFile]
    /\ UNCHANGED <<rows, step, read, orphans, clearing, lost>>

RemoveUpload(d) ==
    /\ d \in removing
    /\ removing' = removing \ {d}
    /\ \/ file' = [file EXCEPT ![FileOf[d]] = NoFile]
       \/ Faults /\ UNCHANGED file
    /\ UNCHANGED <<rows, step, read, orphans, clearing, lost>>

DeleteKB ==
    /\ kb = "present"
    /\ kb' = "deleted"
    /\ doc' = [d \in Docs |-> IF HasRow(d) THEN "deleted" ELSE doc[d]]
    /\ chunks' = [d \in Docs |-> {}]
    /\ clearing' = TRUE
    /\ UNCHANGED <<file, step, read, orphans, removing, lost>>

ClearUploads ==
    /\ clearing
    /\ clearing' = FALSE
    /\ \/ file' = [n \in Names |-> NoFile]
       \/ Faults /\ UNCHANGED file
    /\ UNCHANGED <<rows, step, read, orphans, removing, lost>>

-----------------------------------------------------------------------------
\* The API server stops and starts again: requests and goroutines are lost, and
\* nothing resumes an ingestion; a running Maree may survive as an orphan.
Crash ==
    /\ Crashes
    /\ \E alive \in SUBSET {d \in Docs : step[d] \in MareeSteps} :
        /\ orphans' = alive
        /\ step' = [d \in Docs |->
                        IF step[d] = "idle" \/ d \in alive THEN step[d] ELSE "done"]
    /\ file' = [n \in Names |-> IF file[n] = NoFile THEN NoFile
                                ELSE [file[n] EXCEPT !.open = {}]]
    /\ removing' = {}
    /\ clearing' = FALSE
    /\ lost' = TRUE
    /\ UNCHANGED <<rows, read>>

Proceed(d) ==
    \/ CreateFile(d)
    \/ CopyBytes(d)
    \/ InsertDocument(d)
    \/ MarkProcessing(d)
    \/ MarkError(d)

Maree(d) == MareeReads(d) \/ MareeSucceeds(d) \/ MareeFails(d)

Next ==
    \/ CreateKB
    \/ \E d \in Docs :
        \/ StartUpload(d)
        \/ Proceed(d)
        \/ Maree(d)
        \/ DeleteDocument(d)
        \/ RemoveUpload(d)
    \/ DeleteKB
    \/ ClearUploads
    \/ Crash

Spec == Init /\ [][Next]_vars

\* The goroutine of an upload goes on, and the command it waits for ends.
Fairness == \A d \in Docs : WF_vars(Proceed(d)) /\ WF_vars(Maree(d))

FairSpec == Spec /\ Fairness

-----------------------------------------------------------------------------
(* Properties. *)

\* Every document has one of the four statuses of the store, or no row.
TypeOK ==
    /\ kb \in {"absent", "present", "deleted"}
    /\ doc \in [Docs -> Status \cup {"none", "deleted"}]
    /\ chunks \in [Docs -> SUBSET Docs]
    /\ file \in [Names -> Upload \cup {NoFile}]
    /\ step \in [Docs -> ServerSteps \cup MareeSteps \cup {"idle", "done"}]
    /\ read \in [Docs -> SUBSET Docs]
    /\ orphans \subseteq Docs
    /\ removing \subseteq Docs
    /\ clearing \in BOOLEAN
    /\ lost \in BOOLEAN

\* A document's chunks come from its own upload: Maree "processes only what was
\* just uploaded", as the comment in Ingest says.
IngestsOwnUpload == \A d \in Docs : chunks[d] \subseteq {d}

Distinct == \A d, e \in Docs : FileOf[d] = FileOf[e] => d = e

\* Where uploads have different names, the bytes of a document stay on disk as
\* they were uploaded until Maree has read them: no upload, deletion or failure
\* of another document touches them.
UploadKeptUntilRead ==
    Distinct => \A d \in Docs :
        HasRow(d) /\ step[d] \in {"mark", "maree"}
            => file[FileOf[d]] # NoFile /\ file[FileOf[d]].bytes = {d}

\* A document that is ready stays ready until it is deleted: the failure of an
\* ingestion, which marks documents of the whole knowledge base, spares it.
ReadyStays ==
    [][\A d \in Docs : doc[d] = "ready" => doc'[d] \in {"ready", "deleted"}]_vars

\* A document that is shown as processing is being processed, unless a crash or
\* a failed statement has lost it, although one ingestion's start marks the
\* documents of the others.
ProcessingHasWorker ==
    ~lost => \A d \in Docs :
        doc[d] = "processing" => step[d] \in MareeSteps \cup {"mark", "failed"}

\* Every document that is pending or processing is ready, in error or deleted in
\* the end, unless a crash or a failed statement has lost it.
Settles ==
    \A d \in Docs :
        doc[d] \in {"pending", "processing"}
            ~> (doc[d] \notin {"pending", "processing"} \/ lost)
=============================================================================
