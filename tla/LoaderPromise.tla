--------------------------- MODULE LoaderPromise ---------------------------
(***************************************************************************)
(* What a tick loader promises to the application, whatever it buffers:    *)
(* the messages the application ended reach the server once, in order and  *)
(* without a gap, and all of them when finish() succeeds.  When the        *)
(* connection breaks or the server ends the upload a part may be lost, but *)
(* still nothing is repeated, reordered or invented.                       *)
(***************************************************************************)
EXTENDS Integers, Sequences, SequencesExt

VARIABLES accepted,   \* the messages the application ended
          delivered,  \* the messages handed to the connection
          status      \* of the upload

vars == <<accepted, delivered, status>>

\* sub is what is left of seq after dropping some of its elements
IsSubsequence(sub, seq) ==
    \E f \in [DOMAIN sub -> DOMAIN seq] :
        \A i, j \in DOMAIN sub :
            sub[i] = seq[f[i]] /\ (i < j => f[i] < f[j])

Init == accepted = <<>> /\ delivered = <<>> /\ status = "open"

\* one call of the application: it may end a message, and send some
Write ==
    /\ status = "open" /\ status' \in {"open", "complete"}
    /\ IsPrefix(accepted, accepted') /\ IsPrefix(delivered, delivered')
    /\ IsPrefix(delivered', accepted')
    /\ status' = "complete" => delivered' = accepted'

Fail == status = "open" /\ status' = "failed" /\ UNCHANGED <<accepted, delivered>>

WriteFailed ==
    /\ status = "failed" /\ UNCHANGED status
    /\ IsPrefix(accepted, accepted') /\ IsPrefix(delivered, delivered')
    /\ IsSubsequence(delivered', accepted')

Next == Write \/ Fail \/ WriteFailed

Spec == Init /\ [][Next]_vars
=============================================================================
