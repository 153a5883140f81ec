---------------------------- MODULE ReleaseLedger ----------------------------
(***************************************************************************)
(* What the state repository promises about the releases of one agent: an  *)
(* append-only ledger.  The n-th entry is release n.  Its payload is never *)
(* rewritten, it is decided at most once, and a pointer names the release  *)
(* that is current by a copy of its entry, or says that the agent is       *)
(* deleted.  ("an audit trail (one-way write)", "immutable, status=        *)
(* pending_eval" in release/handler.go; "immutable release artifact" and   *)
(* the list of statuses in gitstate/artifact.go.)                          *)
(***************************************************************************)
EXTENDS Naturals, Sequences

CONSTANTS Payloads,  \* what a release may record
          None       \* no release is current

VARIABLES entries,   \* the releases, in the order of their versions
          pointer    \* what current.yaml says

vars == <<entries, pointer>>

Init == entries = <<>> /\ pointer = None

\* A release is appended, to be decided later.
Publish(c) ==
    /\ entries' = Append(entries, [payload |-> c, status |-> "pending_eval"])
    /\ UNCHANGED pointer

\* A release that waits is approved or rejected, once.
Decide(v, s) ==
    /\ entries[v].status = "pending_eval"
    /\ entries' = [entries EXCEPT ![v].status = s]
    /\ UNCHANGED pointer

\* A release becomes current.
PointTo(v) ==
    /\ pointer' = [version |-> v, payload |-> entries[v].payload,
                   status |-> entries[v].status]
    /\ UNCHANGED entries

\* The agent is deleted; its releases stay.
Archive ==
    /\ pointer # None
    /\ pointer' = [pointer EXCEPT !.status = "deleted"]
    /\ UNCHANGED entries

Next ==
    \/ \E c \in Payloads : Publish(c)
    \/ \E v \in DOMAIN entries :
        PointTo(v) \/ \E s \in {"active", "rejected"} : Decide(v, s)
    \/ Archive

Spec == Init /\ [][Next]_vars
=============================================================================
