-------------------------- MODULE KBIngestionProofs --------------------------
(***************************************************************************)
(* Proofs about KBIngestion for any documents, names and uploads.          *)
(*                                                                         *)
(* IngestsOwnUpload rests on the fact that a name keeps uploads apart:     *)
(* what is in a file, what Maree has read from it and what it stored all   *)
(* comes from uploads of that name (OwnInv).  UploadKeptUntilRead needs    *)
(* the stages an upload goes through before its row exists (KeptInv), and  *)
(* ProcessingHasWorker that a pending row has a worker too, because one    *)
(* ingestion's start marks the rows of the others (WorkerInv).             *)
(***************************************************************************)
EXTENDS KBIngestion, TLAPS

SameName(d) == {e \in Docs : FileOf[e] = FileOf[d]}

\* Files, reads and chunks hold only uploads of one name.
FilesOwn ==
    \A n \in Names : file[n] # NoFile => \A e \in file[n].bytes : FileOf[e] = n
ReadsOwn == \A d \in Docs : read[d] \subseteq SameName(d)
ChunksOwn == \A d \in Docs : chunks[d] \subseteq SameName(d)

OwnInv == TypeOK /\ FilesOwn /\ ReadsOwn /\ ChunksOwn

USE ConstantsAssumption, NoFileAssumption

-----------------------------------------------------------------------------
(* Types. *)

LEMMA CopiedType ==
    ASSUME TypeOK, NEW d \in Docs
    PROVE  Copied(d) \in [Names -> Upload \cup {NoFile}]
<1>1. CASE file[FileOf[d]] # NoFile /\ d \in file[FileOf[d]].open
  <2>1. file[FileOf[d]] \in Upload /\ FileOf[d] \in Names
    BY <1>1 DEF TypeOK
  <2>2. [bytes |-> file[FileOf[d]].bytes \cup {d},
         open |-> file[FileOf[d]].open \ {d}] \in Upload
    BY <2>1 DEF Upload
  <2> QED BY <1>1, <2>1, <2>2 DEF TypeOK, Copied
<1>2. CASE ~(file[FileOf[d]] # NoFile /\ d \in file[FileOf[d]].open)
  BY <1>2 DEF TypeOK, Copied
<1> QED BY <1>1, <1>2

LEMMA InitType == Init => TypeOK
BY DEF Init, TypeOK, Upload, Status, ServerSteps, MareeSteps

\* The steps of one document that touch no file.
LEMMA RowsType ==
    ASSUME TypeOK, NEW d \in Docs,
           \/ StartUpload(d) \/ InsertDocument(d) \/ MarkProcessing(d)
           \/ MareeSucceeds(d) \/ MareeFails(d) \/ MarkError(d)
           \/ DeleteDocument(d)
    PROVE  TypeOK'
<1> USE DEF TypeOK, Goto, rows, cleanup
<1>1. CASE StartUpload(d)
  BY <1>1 DEF StartUpload, ServerSteps
<1>2. CASE InsertDocument(d)
  BY <1>2 DEF InsertDocument, Status, ServerSteps
<1>3. CASE MarkProcessing(d)
  BY <1>3 DEF MarkProcessing, Transition, Status, MareeSteps
<1>4. CASE MareeSucceeds(d)
  BY <1>4 DEF MareeSucceeds, Status
<1>5. CASE MareeFails(d)
  BY <1>5 DEF MareeFails, ServerSteps
<1>6. CASE MarkError(d)
  BY <1>6 DEF MarkError, Transition, Status
<1>7. CASE DeleteDocument(d)
  BY <1>7 DEF DeleteDocument
<1> QED BY <1>1, <1>2, <1>3, <1>4, <1>5, <1>6, <1>7

\* The steps of one document that read or write a file.
LEMMA FilesType ==
    ASSUME TypeOK, NEW d \in Docs,
           CreateFile(d) \/ CopyBytes(d) \/ MareeReads(d) \/ RemoveUpload(d)
    PROVE  TypeOK'
<1>1. CASE CreateFile(d)
  <2> DEFINE new == [bytes |-> {},
                     open |-> {d} \cup (IF file[FileOf[d]] = NoFile THEN {}
                                        ELSE file[FileOf[d]].open)]
  <2>1. new \in Upload
    BY DEF Upload, TypeOK
  <2>2. file' \in [Names -> Upload \cup {NoFile}]
    BY <1>1, <2>1 DEF CreateFile, TypeOK
  <2> QED BY <1>1, <2>2 DEF CreateFile, TypeOK, Goto, rows, cleanup, ServerSteps
<1>2. CASE CopyBytes(d)
  BY <1>2, CopiedType DEF CopyBytes, TypeOK, Goto, rows, cleanup, ServerSteps
<1>3. CASE MareeReads(d)
  <2>1. \A n \in Source(d) : file[n].bytes \subseteq Docs
    BY DEF Source, TypeOK, Upload
  <2>2. read' \in [Docs -> SUBSET Docs]
    BY <1>3, <2>1 DEF MareeReads, TypeOK
  <2> QED BY <1>3, <2>2 DEF MareeReads, TypeOK, Goto, rows, cleanup, MareeSteps
<1>4. CASE RemoveUpload(d)
  BY <1>4 DEF RemoveUpload, TypeOK, rows, cleanup
<1> QED BY <1>1, <1>2, <1>3, <1>4

LEMMA CrashType == TypeOK /\ Crash => TypeOK'
<1> SUFFICES ASSUME TypeOK, Crash PROVE TypeOK'
  OBVIOUS
<1>1. file' \in [Names -> Upload \cup {NoFile}]
  BY DEF Crash, TypeOK, Upload
<1>2. step' \in [Docs -> ServerSteps \cup MareeSteps \cup {"idle", "done"}]
  BY DEF Crash, TypeOK
<1>3. orphans' \subseteq Docs
  BY DEF Crash
<1> QED BY <1>1, <1>2, <1>3 DEF Crash, TypeOK, rows

LEMMA WholeType ==
    TypeOK /\ (CreateKB \/ DeleteKB \/ ClearUploads) => TypeOK'
BY DEF TypeOK, CreateKB, DeleteKB, ClearUploads, rows, cleanup

LEMMA NextType == TypeOK /\ [Next]_vars => TypeOK'
<1>1. CASE UNCHANGED vars
  BY <1>1 DEF TypeOK, vars, rows, cleanup
<1> QED BY <1>1, RowsType, FilesType, CrashType, WholeType DEF Next, Proceed, Maree

\* TypeOK: every document has a status the store knows, or no row.
THEOREM TypeCorrect == Spec => []TypeOK
BY InitType, NextType, PTL DEF Spec

-----------------------------------------------------------------------------
(* A name keeps uploads apart. *)

\* Creating and filling a file: only an upload of its name gets into it.
LEMMA WriteOwn ==
    ASSUME OwnInv, NEW d \in Docs, CreateFile(d) \/ CopyBytes(d)
    PROVE  FilesOwn'
<1>1. CASE CreateFile(d)
  BY <1>1 DEF OwnInv, FilesOwn, CreateFile, TypeOK
<1>2. CASE CopyBytes(d)
  <2>1. CASE file' = file
    BY <2>1 DEF OwnInv, FilesOwn
  <2>2. CASE file[FileOf[d]] # NoFile /\ d \in file[FileOf[d]].open
    <3> DEFINE n == FileOf[d]
               f == [bytes |-> file[n].bytes \cup {d}, open |-> file[n].open \ {d}]
    <3>1. file' = [file EXCEPT ![n] = f]
      BY <1>2, <2>2 DEF CopyBytes, Copied
    <3>2. n \in Names /\ file'[n] = f
      BY <3>1 DEF OwnInv, TypeOK
    <3>3. \A m \in Names : m # n => file'[m] = file[m]
      BY <3>1 DEF OwnInv, TypeOK
    <3>4. \A e \in f.bytes : FileOf[e] = n
      BY <2>2, <3>2 DEF OwnInv, FilesOwn
    <3> QED BY <3>2, <3>3, <3>4 DEF OwnInv, FilesOwn
  <2> QED BY <1>2, <2>1, <2>2 DEF CopyBytes, Copied
<1> QED BY <1>1, <1>2

\* Maree reads one file, whose uploads have the name of the document.
LEMMA ReadOwn ==
    ASSUME OwnInv, NEW d \in Docs, MareeReads(d)
    PROVE  ReadsOwn'
<1>1. \A n \in Source(d) : n = FileOf[d] /\ n \in Names /\ file[n] # NoFile
  BY DEF Source
<1>2. \A n \in Source(d) : file[n].bytes \subseteq SameName(d)
  <2> SUFFICES ASSUME NEW n \in Source(d) PROVE file[n].bytes \subseteq SameName(d)
    OBVIOUS
  <2>1. file[n] \in Upload
    BY <1>1 DEF OwnInv, TypeOK
  <2>2. file[n].bytes \subseteq Docs
    BY <2>1 DEF Upload
  <2> QED BY <1>1, <2>2 DEF OwnInv, FilesOwn, SameName
<1>3. read'[d] \subseteq SameName(d)
  BY <1>2 DEF MareeReads, OwnInv, TypeOK
<1>4. \A e \in Docs : e # d => read'[e] = read[e]
  BY DEF MareeReads, OwnInv, TypeOK
<1> QED BY <1>3, <1>4 DEF OwnInv, ReadsOwn, SameName

\* What Maree stores is what it has read.
LEMMA StoreOwn ==
    ASSUME OwnInv, NEW d \in Docs, MareeSucceeds(d)
    PROVE  ChunksOwn'
BY DEF MareeSucceeds, OwnInv, TypeOK, ReadsOwn, ChunksOwn, SameName

\* Removing files and closing them adds no upload to any.
LEMMA RemoveOwn ==
    ASSUME OwnInv,
           \/ \E d \in Docs : RemoveUpload(d)
           \/ ClearUploads
           \/ Crash
    PROVE  FilesOwn'
<1>1. ASSUME NEW d \in Docs, RemoveUpload(d) PROVE FilesOwn'
  BY <1>1 DEF RemoveUpload, OwnInv, TypeOK, FilesOwn
<1>2. CASE ClearUploads
  BY <1>2 DEF ClearUploads, OwnInv, FilesOwn
<1>3. CASE Crash
  <2>1. \A n \in Names : file'[n] # NoFile =>
            file[n] # NoFile /\ file'[n].bytes = file[n].bytes
    BY <1>3 DEF Crash, OwnInv, TypeOK, Upload
  <2> QED BY <2>1 DEF OwnInv, FilesOwn
<1> QED BY <1>1, <1>2, <1>3

LEMMA NextOwn == OwnInv /\ [Next]_vars => OwnInv'
<1> SUFFICES ASSUME OwnInv, [Next]_vars PROVE FilesOwn' /\ ReadsOwn' /\ ChunksOwn'
  BY NextType DEF OwnInv
<1>1. CASE UNCHANGED file
  <2>1. FilesOwn'
    BY <1>1 DEF OwnInv, FilesOwn
  <2>2. CASE UNCHANGED <<read, chunks>>
    BY <2>1, <2>2 DEF OwnInv, ReadsOwn, ChunksOwn
  <2>3. CASE \E d \in Docs : MareeReads(d)
    BY <2>1, <2>3, ReadOwn DEF MareeReads, OwnInv, ChunksOwn, rows
  <2>4. CASE \E d \in Docs : MareeSucceeds(d)
    BY <2>1, <2>4, StoreOwn DEF MareeSucceeds, OwnInv, ReadsOwn
  <2>5. CASE \E d \in Docs : DeleteDocument(d)
    BY <2>1, <2>5 DEF DeleteDocument, OwnInv, TypeOK, ReadsOwn, ChunksOwn
  <2>6. CASE DeleteKB
    BY <2>1, <2>6 DEF DeleteKB, OwnInv, TypeOK, ReadsOwn, ChunksOwn
  <2> QED BY <2>2, <2>3, <2>4, <2>5, <2>6
          DEF Next, Proceed, Maree, vars, rows, cleanup, CreateKB, StartUpload,
              CreateFile, CopyBytes, InsertDocument, MarkProcessing, MarkError,
              MareeFails, RemoveUpload, ClearUploads, Crash
<1>2. CASE /\ \/ \E d \in Docs : CreateFile(d) \/ CopyBytes(d) \/ RemoveUpload(d)
              \/ ClearUploads
              \/ Crash
           /\ FilesOwn'
  <2>1. UNCHANGED <<read, chunks>>
    BY <1>2 DEF CreateFile, CopyBytes, RemoveUpload, ClearUploads, Crash, rows
  <2> QED BY <1>2, <2>1 DEF OwnInv, ReadsOwn, ChunksOwn
<1>3. \/ UNCHANGED file
      \/ \E d \in Docs : CreateFile(d) \/ CopyBytes(d) \/ RemoveUpload(d)
      \/ ClearUploads
      \/ Crash
  BY DEF Next, Proceed, Maree, vars, CreateKB, StartUpload, InsertDocument,
         MarkProcessing, MarkError, MareeReads, MareeSucceeds, MareeFails,
         DeleteDocument, DeleteKB
<1> QED BY <1>1, <1>2, <1>3, WriteOwn, RemoveOwn

LEMMA InitOwn == Init => OwnInv
BY InitType DEF Init, OwnInv, FilesOwn, ReadsOwn, ChunksOwn

\* IngestsOwnUpload: where uploads have different names, the chunks of a
\* document come from its own upload only, whatever else is uploaded, deleted,
\* fails or crashes meanwhile.
THEOREM ChunksComeFromUpload == Spec => [](Distinct => IngestsOwnUpload)
<1>1. OwnInv => (Distinct => IngestsOwnUpload)
  BY DEF OwnInv, ChunksOwn, SameName, IngestsOwnUpload, Distinct
<1> QED BY <1>1, InitOwn, NextOwn, PTL DEF Spec

-----------------------------------------------------------------------------
(* The stages of an upload. *)

\* Stages before the row exists, and after.
BeforeRow == {"idle", "checked", "opened", "saved"}

\* A document has no row before the last stage of its request, nothing happens
\* before the knowledge base is created or after it is deleted, and a file is
\* removed for a deleted document only.
StagesInv ==
    /\ \A d \in Docs : step[d] \in BeforeRow => doc[d] = "none"
    /\ \A d \in removing : doc[d] = "deleted"
    /\ kb = "absent" => \A d \in Docs : step[d] = "idle"
    /\ kb = "deleted" => \A d \in Docs : ~HasRow(d)
    /\ clearing => kb = "deleted"

LEMMA InitStages == Init => StagesInv
BY DEF Init, StagesInv, HasRow, Status

LEMMA NextStages == TypeOK /\ StagesInv /\ [Next]_vars => StagesInv'
<1> SUFFICES ASSUME TypeOK, StagesInv, [Next]_vars PROVE StagesInv'
  OBVIOUS
<1> USE DEF TypeOK, StagesInv, HasRow, Status, BeforeRow, Goto, rows, cleanup
<1>1. CASE UNCHANGED vars
  BY <1>1 DEF vars
<1>2. CASE CreateKB
  BY <1>2 DEF CreateKB
<1>3. CASE DeleteKB
  BY <1>3 DEF DeleteKB
<1>4. CASE ClearUploads
  BY <1>4 DEF ClearUploads
<1>5. CASE Crash
  BY <1>5 DEF Crash, MareeSteps
<1>6. ASSUME NEW d \in Docs, StartUpload(d) \/ CreateFile(d) \/ CopyBytes(d)
      PROVE  StagesInv'
  BY <1>6 DEF StartUpload, CreateFile, CopyBytes
<1>7. ASSUME NEW d \in Docs, InsertDocument(d) PROVE StagesInv'
  BY <1>7 DEF InsertDocument
<1>8. ASSUME NEW d \in Docs, MarkProcessing(d) \/ MarkError(d) PROVE StagesInv'
  BY <1>8 DEF MarkProcessing, MarkError, Transition
<1>9. ASSUME NEW d \in Docs, Maree(d) PROVE StagesInv'
  BY <1>9 DEF Maree, MareeReads, MareeSucceeds, MareeFails, MareeSteps
<1>10. ASSUME NEW d \in Docs, DeleteDocument(d) \/ RemoveUpload(d) PROVE StagesInv'
  BY <1>10 DEF DeleteDocument, RemoveUpload
<1> QED BY <1>1, <1>2, <1>3, <1>4, <1>5, <1>6, <1>7, <1>8, <1>9, <1>10
        DEF Next, Proceed

LEMMA SpecStages == Spec => [](TypeOK /\ StagesInv)
BY InitType, InitStages, NextType, NextStages, PTL DEF Spec

\* ReadyStays: no step takes a document that is ready back, but its deletion and
\* that of the knowledge base.
THEOREM ReadyIsFinal == Spec => ReadyStays
<1> DEFINE Stays == \A d \in Docs : doc[d] = "ready" => doc'[d] \in {"ready", "deleted"}
<1>1. TypeOK /\ StagesInv /\ [Next]_vars => [Stays]_vars
  <2> SUFFICES ASSUME TypeOK, StagesInv, [Next]_vars PROVE Stays
    OBVIOUS
  <2>1. CASE UNCHANGED doc
    BY <2>1
  <2>2. CASE \E d \in Docs : MarkProcessing(d) \/ MarkError(d)
    BY <2>2 DEF MarkProcessing, MarkError, Transition, TypeOK
  <2>3. CASE \E d \in Docs : InsertDocument(d)
    BY <2>3 DEF InsertDocument, TypeOK, StagesInv, BeforeRow
  <2>4. CASE \E d \in Docs : MareeSucceeds(d) \/ DeleteDocument(d)
    BY <2>4 DEF MareeSucceeds, DeleteDocument, TypeOK
  <2>5. CASE DeleteKB
    BY <2>5 DEF DeleteKB, TypeOK
  <2> QED BY <2>1, <2>2, <2>3, <2>4, <2>5
          DEF Next, Proceed, Maree, vars, rows, CreateKB, StartUpload, CreateFile,
              CopyBytes, MareeReads, MareeFails, RemoveUpload, ClearUploads, Crash
<1> QED BY <1>1, SpecStages, PTL DEF Spec, ReadyStays

-----------------------------------------------------------------------------
(* The bytes of an upload. *)

Kept(d) == file[FileOf[d]] # NoFile /\ file[FileOf[d]].bytes = {d}

\* The file of an upload from its creation until Maree has read it.
KeptInv ==
    \A d \in Docs :
        /\ step[d] = "opened" /\ kb = "present" =>
                /\ file[FileOf[d]] # NoFile
                /\ file[FileOf[d]].bytes = {}
                /\ d \in file[FileOf[d]].open
        /\ step[d] = "saved" /\ kb = "present" => Kept(d)
        /\ HasRow(d) /\ step[d] \in {"mark", "maree"} => Kept(d)

FullInv == TypeOK /\ StagesInv /\ KeptInv

LEMMA InitKept == Init => KeptInv
BY DEF Init, KeptInv, HasRow, Status

\* Where names differ, the steps of one upload keep the files of the others.
LEMMA CreateKept ==
    ASSUME FullInv, Distinct, NEW d \in Docs, CreateFile(d)
    PROVE  KeptInv'
<1> USE DEF FullInv, TypeOK
<1>1. \A e \in Docs : e # d => file'[FileOf[e]] = file[FileOf[e]]
  BY DEF CreateFile, Distinct
<1>2. \A e \in Docs : e # d => step'[e] = step[e]
  BY DEF CreateFile, Goto
<1>3. step'[d] = "opened" =>
        /\ file'[FileOf[d]] # NoFile
        /\ file'[FileOf[d]].bytes = {}
        /\ d \in file'[FileOf[d]].open
  <2> DEFINE new == [bytes |-> {},
                     open |-> {d} \cup (IF file[FileOf[d]] = NoFile THEN {}
                                        ELSE file[FileOf[d]].open)]
  <2>1. new \in Upload
    BY DEF Upload
  <2>2. step'[d] = "opened" => file' = [file EXCEPT ![FileOf[d]] = new]
    BY DEF CreateFile, Goto
  <2>3. step'[d] = "opened" => file'[FileOf[d]] = new
    BY <2>2
  <2>4. new # NoFile
    BY <2>1
  <2>5. new.bytes = {} /\ d \in new.open
    OBVIOUS
  <2> QED BY <2>3, <2>4, <2>5
<1>4. step'[d] \in {"opened", "done"} /\ UNCHANGED rows
  BY DEF CreateFile, Goto
<1>5. kb' = kb /\ doc' = doc
  BY <1>4 DEF rows
<1>6. ASSUME NEW e \in Docs, e # d, Kept(e) PROVE Kept(e)'
  BY <1>1, <1>6 DEF Kept
<1> SUFFICES ASSUME NEW e \in Docs
             PROVE  /\ step'[e] = "opened" /\ kb' = "present" =>
                         /\ file'[FileOf[e]] # NoFile
                         /\ file'[FileOf[e]].bytes = {}
                         /\ e \in file'[FileOf[e]].open
                    /\ step'[e] = "saved" /\ kb' = "present" => Kept(e)'
                    /\ HasRow(e)' /\ step'[e] \in {"mark", "maree"} => Kept(e)'
  BY DEF KeptInv
<1>7. CASE e = d
  BY <1>3, <1>4, <1>7
<1>8. CASE e # d
  <2>1. HasRow(e)' => HasRow(e)
    BY <1>5 DEF HasRow
  <2> QED BY <1>1, <1>2, <1>5, <1>6, <1>8, <2>1 DEF KeptInv
<1> QED BY <1>7, <1>8

LEMMA CopyKept ==
    ASSUME FullInv, Distinct, NEW d \in Docs, CopyBytes(d)
    PROVE  KeptInv'
<1> USE DEF FullInv, TypeOK
<1>1. \A e \in Docs : e # d => file'[FileOf[e]] = file[FileOf[e]]
  BY DEF CopyBytes, Copied, Distinct
<1>2. \A e \in Docs : e # d => step'[e] = step[e]
  BY DEF CopyBytes, Goto
<1>3. ASSUME kb = "present" PROVE Kept(d)'
  <2> DEFINE f == [bytes |-> file[FileOf[d]].bytes \cup {d},
                   open |-> file[FileOf[d]].open \ {d}]
  <2>1. /\ file[FileOf[d]] # NoFile
        /\ file[FileOf[d]].bytes = {}
        /\ d \in file[FileOf[d]].open
    BY <1>3 DEF CopyBytes, KeptInv
  <2>2. file' = [file EXCEPT ![FileOf[d]] = f]
    BY <2>1 DEF CopyBytes, Copied
  <2>3. file'[FileOf[d]] = f
    BY <2>2
  <2>4. f \in Upload
    BY <2>1 DEF Upload
  <2>5. f.bytes = {d}
    BY <2>1
  <2>6. f # NoFile
    BY <2>4
  <2> QED BY <2>3, <2>5, <2>6 DEF Kept
<1>4. step'[d] \in {"saved", "done"} /\ UNCHANGED rows
  BY DEF CopyBytes, Goto
<1>5. kb' = kb /\ doc' = doc
  BY <1>4 DEF rows
<1>6. kb' = "present" => Kept(d)'
  BY <1>3, <1>5
<1>7. ASSUME NEW e \in Docs, e # d, Kept(e) PROVE Kept(e)'
  BY <1>1, <1>7 DEF Kept
<1> QED BY <1>1, <1>2, <1>4, <1>5, <1>6, <1>7 DEF KeptInv, HasRow

\* A file is removed for a deleted document, whose upload is past its stages.
LEMMA RemoveKept ==
    ASSUME FullInv, Distinct, NEW d \in Docs, RemoveUpload(d)
    PROVE  KeptInv'
<1> USE DEF FullInv, TypeOK
<1>1. \A e \in Docs : e # d => file'[FileOf[e]] = file[FileOf[e]]
  BY DEF RemoveUpload, Distinct
<1>2. step[d] \notin {"opened", "saved"} /\ ~HasRow(d)
  BY DEF RemoveUpload, StagesInv, BeforeRow, HasRow, Status
<1>3. UNCHANGED <<rows, step>>
  BY DEF RemoveUpload
<1> QED BY <1>1, <1>2, <1>3 DEF KeptInv, Kept, HasRow, rows

LEMMA CrashKept ==
    ASSUME FullInv, Crash
    PROVE  KeptInv'
<1> USE DEF FullInv, TypeOK
<1>1. \A d \in Docs : Kept(d) => Kept(d)'
  BY DEF Crash, Kept, Upload
<1>2. \A d \in Docs : step'[d] \in {step[d], "done"} /\ step'[d] \notin {"opened", "saved"}
  BY DEF Crash, MareeSteps
<1>3. kb' = kb /\ doc' = doc
  BY DEF Crash, rows
<1>4. ASSUME NEW d \in Docs, HasRow(d)', step'[d] \in {"mark", "maree"}
      PROVE  Kept(d)'
  <2>1. HasRow(d) /\ step[d] \in {"mark", "maree"}
    BY <1>2, <1>3, <1>4 DEF HasRow
  <2> QED BY <1>1, <2>1 DEF KeptInv
<1> QED BY <1>2, <1>4 DEF KeptInv

LEMMA NextKept == FullInv /\ Distinct /\ [Next]_vars => KeptInv'
<1> SUFFICES ASSUME FullInv, Distinct, [Next]_vars PROVE KeptInv'
  OBVIOUS
<1>1. CASE UNCHANGED vars
  BY <1>1 DEF FullInv, KeptInv, Kept, HasRow, vars, rows
<1>2. CASE CreateKB \/ DeleteKB \/ ClearUploads
  BY <1>2 DEF FullInv, TypeOK, StagesInv, KeptInv, Kept, HasRow, Status, rows,
              CreateKB, DeleteKB, ClearUploads
<1>3. ASSUME NEW d \in Docs,
             StartUpload(d) \/ InsertDocument(d) \/ MarkProcessing(d) \/ MarkError(d)
      PROVE  KeptInv'
  BY <1>3 DEF FullInv, TypeOK, StagesInv, BeforeRow, KeptInv, Kept, HasRow, Status,
              Goto, rows, Transition, StartUpload, InsertDocument, MarkProcessing,
              MarkError
<1>4. ASSUME NEW d \in Docs, Maree(d) \/ DeleteDocument(d) PROVE KeptInv'
  BY <1>4 DEF FullInv, TypeOK, KeptInv, Kept, HasRow, Status, Goto, rows, Maree,
              MareeReads, MareeSucceeds, MareeFails, MareeSteps, DeleteDocument
<1> QED BY <1>1, <1>2, <1>3, <1>4, CreateKept, CopyKept, RemoveKept, CrashKept
        DEF Next, Proceed

\* UploadKeptUntilRead: where uploads have different names, the bytes of a
\* document are on disk, whole and unmixed, until Maree has read them.
THEOREM UploadsAreKept == Spec => []UploadKeptUntilRead
<1> DEFINE K == Distinct => KeptInv
<1>1. Init => K
  BY InitKept
<1>2. TypeOK /\ StagesInv /\ K /\ [Next]_vars => K'
  BY NextKept DEF FullInv
<1>3. K => UploadKeptUntilRead
  BY DEF KeptInv, Kept, UploadKeptUntilRead
<1> QED BY <1>1, <1>2, <1>3, SpecStages, PTL DEF Spec
-----------------------------------------------------------------------------
(* The worker of a document. *)

\* Until something is lost, no Maree is an orphan and whatever waits for an
\* ingestion has one.
WorkerInv ==
    ~lost => /\ orphans = {}
             /\ \A d \in Docs : doc[d] \in {"pending", "processing"} =>
                    step[d] \in MareeSteps \cup {"mark", "failed"}

LEMMA InitWorker == Init => WorkerInv
BY DEF Init, WorkerInv

LEMMA NextWorker == TypeOK /\ StagesInv /\ WorkerInv /\ [Next]_vars => WorkerInv'
<1> SUFFICES ASSUME TypeOK, StagesInv, WorkerInv, [Next]_vars PROVE WorkerInv'
  OBVIOUS
<1> USE DEF TypeOK, WorkerInv, MareeSteps, Goto, rows, cleanup
<1>1. CASE UNCHANGED vars
  BY <1>1 DEF vars
<1>2. CASE CreateKB \/ DeleteKB \/ ClearUploads
  BY <1>2 DEF CreateKB, DeleteKB, ClearUploads
<1>3. CASE Crash
  BY <1>3 DEF Crash
\* A stage before the row touches no document that waits.
<1>4. ASSUME NEW d \in Docs, StartUpload(d) \/ CreateFile(d) \/ CopyBytes(d)
      PROVE  WorkerInv'
  BY <1>4 DEF StartUpload, CreateFile, CopyBytes, StagesInv, BeforeRow
<1>5. ASSUME NEW d \in Docs, InsertDocument(d) PROVE WorkerInv'
  BY <1>5 DEF InsertDocument, StagesInv, BeforeRow
\* Whoever marks the rows of the others, they were pending and had a worker.
<1>6. ASSUME NEW d \in Docs, MarkProcessing(d) PROVE WorkerInv'
  BY <1>6 DEF MarkProcessing, Transition
<1>7. ASSUME NEW d \in Docs, MarkError(d) PROVE WorkerInv'
  BY <1>7 DEF MarkError, Transition
<1>8. ASSUME NEW d \in Docs, MareeReads(d) \/ MareeFails(d) PROVE WorkerInv'
  BY <1>8 DEF MareeReads, MareeFails
<1>9. ASSUME NEW d \in Docs, MareeSucceeds(d) PROVE WorkerInv'
  BY <1>9 DEF MareeSucceeds
<1>10. ASSUME NEW d \in Docs, DeleteDocument(d) \/ RemoveUpload(d) PROVE WorkerInv'
  BY <1>10 DEF DeleteDocument, RemoveUpload
<1> QED BY <1>1, <1>2, <1>3, <1>4, <1>5, <1>6, <1>7, <1>8, <1>9, <1>10
        DEF Next, Proceed, Maree

\* ProcessingHasWorker: a document that is shown as processing is being
\* processed, whatever the ingestions of the same knowledge base mark, until a
\* crash or a statement that fails loses it.
THEOREM ProcessingIsWorkedOn == Spec => []ProcessingHasWorker
<1>1. WorkerInv => ProcessingHasWorker
  BY DEF WorkerInv, ProcessingHasWorker
<1> QED BY <1>1, SpecStages, InitWorker, NextWorker, PTL DEF Spec
=============================================================================
