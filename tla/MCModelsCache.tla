---------------------------- MODULE MCModelsCache ----------------------------
(* Instances of ModelsCache: one with an id of the first provider that reads *)
(* like a model of the second, and one without.                              *)
EXTENDS ModelsCache, TLC

CONSTANTS gpt, slashed

ReadsLikeSecond == slashed :> <<2, gpt>>
ReadsLikeNone == <<>>

Interchangeable == Permutations(Callers)
=============================================================================
