---------------------------- MODULE MCKBIngestion ----------------------------
(* Instances of KBIngestion for TLC. *)
EXTENDS KBIngestion

CONSTANTS d1, d2, n1

\* Every upload has a name of its own.
OwnNames == [d \in Docs |-> d]

\* All uploads have the same name.
OneName == [d \in Docs |-> n1]
=============================================================================
