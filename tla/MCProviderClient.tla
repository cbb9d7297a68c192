-------------------------- MODULE MCProviderClient --------------------------
(***************************************************************************)
(* Small instances of ProviderClient for TLC.                              *)
(***************************************************************************)
EXTENDS ProviderClientProperties

CONSTANTS c1, c2
=============================================================================
