-------------------------- MODULE ConstraintRefinement --------------------------
(***************************************************************************)
(* ConstraintChecker implements ConstraintSpec, and what the answers mean  *)
(* for a cart.                                                             *)
(***************************************************************************)
EXTENDS ConstraintChecker

Verdict ==
    CASE stage = "done" -> IF result.satisfied THEN "satisfied" ELSE "violated"
      [] stage = "raised" -> "raised"
      [] OTHER -> "pending"

Unjudged == IF stage = "done" THEN result.skipped \cup result.unopened ELSE {}

Promise == INSTANCE ConstraintSpec WITH verdict <- Verdict, unjudged <- Unjudged

------------------------------------------------------------------------------
(* Properties. *)

\* Every variable has its type; the loop positions stay in their lists; and the
\* result is "satisfied" exactly while no violation was recorded.
TypeOK ==
    /\ check \in Check
    /\ stage \in {"constraints", "entries", "cart", "done", "raised"}
    /\ k \in Nat \ {0} /\ n \in Nat \ {0}
    /\ stage \in {"entries", "cart"} => k <= Len(check.constraints)
    /\ stage = "entries" => n <= Len(This.items) + 1
    /\ stage = "cart" => n <= Len(f.line_items) + 1
    /\ allows \in [ids: SUBSET Products, cap: [Products -> Nat], total: Nat,
                   listing: BOOLEAN, wildcard: BOOLEAN]
    /\ bought \in [Products -> Nat]
    /\ result.satisfied <=> result.violations = {}
    /\ result.checked \subseteq Registry /\ result.skipped \subseteq UnknownTypes
    /\ result.unopened \subseteq result.checked

\* Whatever the order of the constraints, the faults found on the way and the
\* point at which a handler gives up: the answer is "satisfied" exactly when
\* each constraint admits the values, what was not held against the values is
\* said to be so, and every call is answered.
AnswersAsPromised == Promise!Spec

\* What is satisfied keeps within every amount_range by the letter of the document:
\* a non-negative amount, within the bounds, in the constraint's currency
\* (spec/constraints.md, section 4.4).
AmountRuleFollowed ==
    stage = "done" /\ result.satisfied =>
        \A c \in Range(check.constraints) : TypeOf(c) = "amount_range" => Promise!AmountAdmitted(c, f)

\* A finished call that held a well-formed cart against a well-formed line_items
\* constraint, and nothing else, with no entry that stands for any product.
CartCall ==
    /\ stage = "done" /\ Looping /\ Len(check.constraints) = 1
    /\ TypeOf(check.constraints[1]) = "line_items"
    /\ check.constraints[1].items \notin {Malformed, <<>>} /\ check.constraints[1].match_mode # Malformed
    /\ \A entry \in Range(check.constraints[1].items) :
          Promise!WellFormed(entry) /\ ItemIds(entry) # {}
    /\ f.line_items \notin {Malformed, <<>>}
    /\ \A line \in Range(f.line_items) : Promise!GoodLine(line)

Entries == check.constraints[1].items

Exact == check.constraints[1].match_mode = "exact"

Purchased == {KeyOf(line) : line \in Range(f.line_items)}

\* The ways to put the units of the cart on the lines of the constraint.
Allotments ==
    LET total == SumFunction(Promise!Ordered(f.line_items))
    IN  {split \in [DOMAIN Entries -> [Purchased -> 0..total]] :
            \A p \in Purchased :
                /\ SumFunction([j \in DOMAIN Entries |-> split[j][p]]) = Promise!Bought(f.line_items, p)
                /\ \A j \in DOMAIN Entries : split[j][p] > 0 => p \in ItemIds(Entries[j])}

OnLine(split, j) == SumFunction(split[j])

Fits(split, j) == OnLine(split, j) <= Entries[j].quantity

\* A cart, every line of which buys something, that can be spread over the lines
\* of the constraint, within the quantity of each and, in exact mode, with
\* something on every line, is never reported: adding quantities up by product
\* refuses no purchase of this kind.
FeasibleAccepted ==
    CartCall /\ (\A line \in Range(f.line_items) : QuantityOf(line) > 0) =>
        ((\E split \in Allotments : \A j \in DOMAIN Entries :
            Fits(split, j) /\ (Exact => OnLine(split, j) > 0))
         => result.satisfied)
===============================================================================
