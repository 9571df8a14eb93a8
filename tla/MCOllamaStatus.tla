--------------------------- MODULE MCOllamaStatus ---------------------------
(***************************************************************************)
(* Two callers of one ollama adapter, two calls each; a status of every    *)
(* class wrapErr knows.                                                    *)
(***************************************************************************)
EXTENDS OllamaStatus, TLC

Symmetry == Permutations(Callers)
=============================================================================
