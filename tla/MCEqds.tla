------------------------------- MODULE MCEqds -------------------------------
(* EQDS between two hosts, in units of a sixty-fourth of the code's bytes. *)
EXTENDS Eqds

CONSTANTS f1, h1, h2

MCFrom == [f \in Flow |-> h1]
MCTo == [f \in Flow |-> h2]
MCSize == [f \in Flow |-> 2]
\* A flow that its initial window of speculative credit sends whole.
MCSizeShort == [f \in Flow |-> 1]
=============================================================================
