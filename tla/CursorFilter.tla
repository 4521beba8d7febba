---------------------------- MODULE CursorFilter ----------------------------
(***************************************************************************)
(* The filters a cursor keeps for names of one kind, entities or message   *)
(* types: the lookup tables of dynamic_lut.h, the names that wait to be    *)
(* met in isUnregistered...Skipped_, and how the calls that change a       *)
(* subscription and the blocks of the server change them                   *)
(* (tickcursor_subscriptions.cpp, tickcursor_http.cpp).                    *)
(*                                                                         *)
(* The server numbers the names it sends from 0; here a name is numbered   *)
(* by its place in "names".  A message is skipped if its number is.        *)
(***************************************************************************)
EXTENDS Naturals, Sequences

\* what a call is given: NULL, for everything, or an array of names
Everything == [all |-> TRUE, names |-> {}]
Only(ns)   == [all |-> FALSE, names |-> ns]

\* the subscription S of names out of All, after a call
Subscribed(S, action, list, All) ==
    LET named == IF list.all THEN All ELSE list.names IN
    CASE action = "SET"    -> named
      [] action = "ADD"    -> S \cup named
      [] action = "REMOVE" -> S \ named

-----------------------------------------------------------------------------

\* names:   the names met, by number
\* default: for numbers that are not in the table
\* data:    the table; the default only changes when it is cleared, so that
\*          the entries VectorLUT fills in below a new one say what it says
\* later:   the names named by a call before they were met
NewFilter == [names |-> <<>>, default |-> FALSE, data |-> <<>>, later |-> <<>>]

Cleared(f, skipping) ==
    [f EXCEPT !.default = skipping, !.data = <<>>, !.later = <<>>]

Numbers(f, n) == {i \in DOMAIN f.names : f.names[i] = n}
Skipped(f, i) == IF i \in DOMAIN f.data THEN f.data[i] ELSE f.default

\* the table t, with x in the places S
Put(t, S, x) == [i \in DOMAIN t \cup S |-> IF i \in S THEN x ELSE t[i]]
Without(t, n) == [m \in DOMAIN t \ {n} |-> t[m]]

\* a call first clears the filter, if it is given NULL or says SET
Base(f, action, list) ==
    IF list.all \/ action = "SET" THEN Cleared(f, action # "ADD") ELSE f

Unmet(f, list) == {n \in list.names : Numbers(f, n) = {}}

Modify(f, action, list) ==
    LET b        == Base(f, action, list)
        removing == action = "REMOVE"
        met      == {i \in DOMAIN f.names : f.names[i] \in list.names}
    IN  [b EXCEPT !.data  = Put(b.data, met, removing),
                  !.later = IF b.default = removing THEN b.later
                            ELSE Put(b.later, Unmet(f, list), removing)]

\* the names for which Modify does nothing although an earlier call left word
\* of the opposite
Wavering(f, action, list) ==
    LET b == Base(f, action, list) IN
    IF b.default = (action = "REMOVE") THEN Unmet(f, list) \cap DOMAIN b.later
    ELSE {}

RegisterInstrument(f, n) ==
    LET i == Len(f.names) + 1
        g == [f EXCEPT !.names = Append(f.names, n)]
    IN  IF n \in DOMAIN f.later
        THEN [g EXCEPT !.data  = Put(f.data, {i}, f.later[n]),
                       !.later = Without(f.later, n)]
        ELSE g

\* several message types have one name; a new one follows the last of them
RegisterMessageType(f, n) ==
    LET i        == Len(f.names) + 1
        siblings == Numbers(f, n)
        skipped  == IF n \in DOMAIN f.later THEN f.later[n]
                    ELSE IF siblings = {} THEN f.default
                    ELSE \E j \in siblings :
                            (\A k \in siblings : k <= j) /\ Skipped(f, j)
    IN  [f EXCEPT !.names = Append(f.names, n),
                  !.data  = Put(f.data, {i}, skipped),
                  !.later = Without(f.later, n)]
=============================================================================
