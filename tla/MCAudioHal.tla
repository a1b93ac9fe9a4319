----------------------------- MODULE MCAudioHal -----------------------------
(***************************************************************************)
(* AudioHal for TLC: the threads are interchangeable.                      *)
(***************************************************************************)
EXTENDS AudioHal, TLC

Symmetry == Permutations(Threads) \union Permutations(Refs)
              \union Permutations(Outs) \union Permutations(Ins)
=============================================================================
