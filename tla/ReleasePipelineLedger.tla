------------------------ MODULE ReleasePipelineLedger ------------------------
(***************************************************************************)
(* The release pipeline as an implementation of ReleaseLedger: the release *)
(* files are the entries, current.yaml the pointer.  It is one as long as  *)
(* no two requests about the agent overlap and no request to GitHub fails; *)
(* the run release_race_version shows how it stops being one otherwise.    *)
(***************************************************************************)
EXTENDS ReleasePipeline

Ledger == INSTANCE ReleaseLedger WITH
    None <- NoFile,
    entries <- [v \in 1..HighestVersion |->
                    [payload |-> release[v].payload,
                     status |-> release[v].status]],
    pointer <- IF current = NoFile THEN NoFile
               ELSE [version |-> current.version,
                     payload |-> current.payload,
                     status |-> current.status]

\* "No file" is not what a current.yaml shows to the ledger.
ASSUME PointerAssumption ==
    NoFile \notin [version : Nat, payload : Payloads, status : Status]

\* Every step of the pipeline is a step of the ledger or invisible to it:
\* releases are appended with the next version, keep their payload, are
\* decided once even if Corail repeats a result, and current.yaml is a copy of
\* a release file or its tombstone, also when the server crashes anywhere.
ImplementsLedger == Ledger!Spec
=============================================================================
