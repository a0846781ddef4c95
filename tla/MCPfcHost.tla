----------------------------- MODULE MCPfcHost -----------------------------
(* The packets of a host for model checking: one flow of low priority that *)
(* is sprayed over all egress queues, or two flows, one of each priority.  *)
EXTENDS PfcHost

SprayedFlow == [flow : {1}, prio : {0}, to : Egress]

TwoFlows == {k \in [flow : {1, 2}, prio : {0, 2}, to : Egress] : k.prio = 2 * (k.flow - 1)}
=============================================================================
