----------------------------- MODULE MCLineItems -----------------------------
(***************************************************************************)
(* Calls of ConstraintChecker with one line_items constraint of up to two  *)
(* entries with overlapping, wildcard, undisclosed and faulty lists, in    *)
(* each match mode, against every cart of up to two lines over a catalogue *)
(* of lines.                                                               *)
(***************************************************************************)
EXTENDS ConstraintRefinement

Product(id, sku, titled) == [ref |-> FALSE, id |-> id, sku |-> sku, titled |-> titled]

A == Product("a", Absent, TRUE)
B == Product(Absent, "b", TRUE)
Unseen == [ref |-> TRUE, id |-> Absent, sku |-> Absent, titled |-> FALSE]

Lines(acceptable, quantity) == [named |-> TRUE, acceptable |-> acceptable, quantity |-> quantity]

\* In order, with the quantities at the bounds.
GoodEntries ==
    {Lines(list, q) : list \in {<<A>>, <<A, B>>, <<B, Unseen>>, <<Unseen>>, <<>>}, q \in 1..2}
        \cup {Lines(<<Product("c", "a", TRUE)>>, 1)}

FaultyEntries ==
    { Malformed, [Lines(<<A>>, 1) EXCEPT !.named = FALSE], Lines(Absent, 1), Lines(Malformed, 1),
      Lines(<<A>>, Absent), Lines(<<A>>, 0), Lines(<<Product("a", Absent, FALSE)>>, 1),
      Lines(<<A, Product(Malformed, "b", TRUE)>>, 1) }

Of(items, mode) == [type |-> "line_items", items |-> items, match_mode |-> mode]

Two(S, T) == {<<x, y>> : x \in S, y \in T}

LineItems ==
    {Of(items, mode) : items \in {<<x>> : x \in GoodEntries} \cup Two(GoodEntries, GoodEntries),
                       mode \in {"minimum", "exact"}}
    \cup {Of(items, "minimum") : items \in {<<>>} \cup Two(FaultyEntries, {Lines(<<B>>, 1), Lines(<<>>, 1)})}
    \cup {Of(<<Lines(<<A>>, 1)>>, Malformed)}

Units(id, q) == [id |-> id, sku |-> Absent, quantity |-> q]

GoodLines ==
    {Units(id, q) : id \in {"a", "b"}, q \in 0..2} \cup {Units("c", 1)}

FaultyLines == {Malformed, Units(Absent, 1), Units("a", Malformed), Units("a", -1), Units("a", Absent),
                [id |-> Absent, sku |-> "b", quantity |-> 1], Units(Malformed, 1)}

Carts == {<<>>, Malformed} \cup {<<x>> : x \in GoodLines} \cup Two(GoodLines, GoodLines)
         \cup Two(FaultyLines, {Units("a", 1)})

\* The calls of MCConstraints with one line_items constraint.
CartChecks ==
    {[constraints |-> <<c>>,
      fulfillment |-> [paid |-> Absent, payee |-> Absent, merchant |-> Absent,
                       allowed_merchants |-> <<>>, line_items |-> cart],
      mode |-> "permissive", is_open_mandate |-> FALSE, policy |-> [t \in UnknownTypes |-> Absent]] :
        c \in LineItems, cart \in Carts}
================================================================================
