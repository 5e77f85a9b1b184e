---------------------------- MODULE MCChainCache ----------------------------
(* Two calls at a time and two versions: one call can bring back a       *)
(* version that the other has already replaced.                            *)
EXTENDS ChainCache
=============================================================================
