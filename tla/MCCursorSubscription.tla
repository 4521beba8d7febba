------------------------ MODULE MCCursorSubscription ------------------------
(* Small instances of CursorSubscription *)
EXTENDS CursorSubscription, TLC

\* entities are alike, and so are the two copies
SwapAll == Permutations(Entities) \cup Permutations(SubStates)

-----------------------------------------------------------------------------
(* The filter alone, against what a subscription is: all sequences of four *)
(* calls and names met, of two names.                                      *)

Names == {"a", "b"}

Changes ==
    [action : {"ADD", "REMOVE", "SET"}, list : {Everything} \cup {Only({n}) : n \in Names}]
    \cup {[action |-> "SET", list |-> Only({})], [action |-> "ADD", list |-> Only(Names)]}

Start == [filter |-> NewFilter, subscribed |-> Names, unsure |-> {}]

\* a call given NULL for SET is the one the filter takes for "none"
After(x, c) ==
    [filter     |-> Modify(x.filter, c.action, c.list),
     subscribed |-> IF c.action = "SET" /\ c.list.all THEN {}
                    ELSE Subscribed(x.subscribed, c.action, c.list, Names),
     unsure     |-> x.unsure \cup Wavering(x.filter, c.action, c.list)]

AfterInstrument(x, n) ==
    IF Numbers(x.filter, n) # {} THEN x
    ELSE [x EXCEPT !.filter = RegisterInstrument(@, n)]

AfterType(x, n) == [x EXCEPT !.filter = RegisterMessageType(@, n)]

Agrees(x) ==
    \A i \in DOMAIN x.filter.names :
        x.filter.names[i] \notin x.unsure =>
            Skipped(x.filter, i) = (x.filter.names[i] \notin x.subscribed)

MetNames == [met : Names]
Steps    == Changes \cup MetNames

AfterSteps(Met(_, _), steps) ==
    LET x[i \in 0..Len(steps)] ==
            IF i = 0 THEN Start
            ELSE IF "met" \in DOMAIN steps[i] THEN Met(x[i - 1], steps[i].met)
            ELSE After(x[i - 1], steps[i])
    IN x[Len(steps)]

\* A message is skipped exactly if its name is not subscribed to, whatever the
\* order of calls and of names met (wavering names aside).
ASSUME FilterAgrees ==
    \A steps \in [1..4 -> Steps] :
        /\ Agrees(AfterSteps(AfterInstrument, steps))
        /\ Agrees(AfterSteps(AfterType, steps))
=============================================================================
