------------------------------- MODULE Shell -------------------------------
(***************************************************************************)
(* The frame of the dashboard.  Next.js mounts one page at a time inside   *)
(* the layout of (dashboard); the layout and its providers stay mounted    *)
(* while links and router.push swap the page (a soft navigation), and      *)
(* everything the browser tab holds in memory is lost when the document    *)
(* itself is loaded again (window.location, a refresh, a 401).             *)
(*                                                                         *)
(* ops counts the operator's clicks; a click lends its number to what it   *)
(* creates (a stream, an interval, a request).  MaxOps bounds a behaviour, *)
(* Clicks[p] how many clicks it may have made while it still acts on p.    *)
(***************************************************************************)
EXTENDS Integers, FiniteSets

CONSTANTS
    Pages,      \* the routes modelled
    MaxOps,     \* bound: clicks of the operator in one behaviour
    Clicks      \* bound: clicks after which nothing more is clicked on a page

ASSUME ShellAssumption == MaxOps \in Nat /\ Clicks \in [Pages -> 0..MaxOps]

VARIABLES
    page,       \* the mounted page
    ops,        \* clicks so far
    document    \* alternates with every load of the document

Ids == 0..MaxOps

shellVars == <<page, ops, document>>

ShellTypeOK == page \in Pages /\ ops \in Ids /\ document \in {0, 1}

ShellInit == page \in Pages /\ ops = 0 /\ document = 0

\* One more click of the operator.
Click == ops < Clicks[page] /\ ops' = ops + 1

\* A handler of a mounted page that neither navigates nor reloads.
On(p) == page = p /\ UNCHANGED <<page, document>>

\* Something that happens without the operator.
Unattended == UNCHANGED shellVars

Soft(p) == p \in Pages \ {page} /\ page' = p /\ UNCHANGED document
Hard(p) == p \in Pages /\ page' = p /\ document' = 1 - document

Entering(p) == page' = p /\ (page # p \/ document' # document)
Leaving(p)  == page = p /\ (page' # p \/ document' # document)
Reloading   == document' # document
=============================================================================
