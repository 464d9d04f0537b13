-------------------------- MODULE MC_ConfigBuilder --------------------------
(* Model-checking instance of ConfigBuilder: two certificate chains, two   *)
(* callback categories with two handlers, the real limit of four default   *)
(* chains and room for five owned references.                              *)
EXTENDS ConfigBuilderProofs, TLC

CONSTANTS c1, c2, verify_host, session_ticket, hA, hB

MC_Chains == {c1, c2}
MC_Categories == {verify_host, session_ticket}
MC_Handlers == {hA, hB}
=============================================================================
