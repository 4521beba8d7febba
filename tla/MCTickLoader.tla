---------------------------- MODULE MCTickLoader ----------------------------
(* Small instances of TickLoader *)
EXTENDS TickLoader

\* the application treats its instruments alike
SwapSymbols == Permutations(Symbols)
=============================================================================
