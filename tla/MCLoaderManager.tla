-------------------------- MODULE MCLoaderManager --------------------------
(* Instances of LoaderManager for TLC.                                      *)
EXTENDS LoaderManager, TLC

CONSTANTS l1, l2, t1, t2

\* a loader and its thread each
OneOwner == l1 :> {t1} @@ l2 :> {t2}

\* the two pairs can be told apart by nothing
SwapPairs == {l1 :> l2 @@ l2 :> l1 @@ t1 :> t2 @@ t2 :> t1}

OneLoader == l1 :> {t1}
=============================================================================
