-------------------------- MODULE MCSessionHandler --------------------------
(* Small instances of SessionHandler *)
EXTENDS SessionHandler, TLC

\* threads of the application, and streams, are alike
SwapAll == Permutations(Clients) \cup Permutations(Keys)
=============================================================================
