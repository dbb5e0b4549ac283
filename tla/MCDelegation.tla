---------------------------- MODULE MCDelegation ----------------------------
(***************************************************************************)
(* Delegation with a racket that is affordable and one that is not, two    *)
(* shops and two agents, on intents that differ in what limits them.       *)
(***************************************************************************)
EXTENDS Delegation

Limit(min, payees) ==
    [min |-> min, max |-> 3, payees |-> payees, budget |-> Absent, extra |-> Absent]

Open(pairs) ==
    [open |-> TRUE, agent |-> "agent", shops |-> <<"babolat", "warehouse">>, items |-> <<"aero">>,
     pairs |-> pairs]

OneList == Open(<<Limit(1, <<<<"warehouse">>>>)>>)

TwoLists == Open(<<Limit(1, <<<<"warehouse", "babolat">>, <<"warehouse">>>>)>>)

Special == Open(<<[Limit(1, <<<<"warehouse">>>>) EXCEPT !.extra = "loyalty"]>>)

\* A second pair that allows what the first does not.
TwoPairs ==
    Open(<<[Limit(1, <<<<"warehouse">>>>) EXCEPT !.budget = 5], [Limit(4, <<>>) EXCEPT !.max = 4]>>)

Confirmed == [open |-> FALSE, cart |-> "aero", payee |-> "warehouse"]

MCPrice == [cart \in {"aero", "gold"} |-> IF cart = "aero" THEN 3 ELSE 4]

MCIntents == {OneList, TwoPairs, Special, Confirmed}

ListIntents == {OneList, TwoLists}
===============================================================================
