---------------------------- MODULE MCConstraints ----------------------------
(***************************************************************************)
(* ConstraintChecker on every list of up to two constraints of a catalogue *)
(* that covers the registry and its malformed forms, against the final     *)
(* values at and around each bound, in every strictness mode; and on the   *)
(* carts of MCLineItems.  AmountChecks are calls of their own, for the     *)
(* rule on amounts.                                                        *)
(***************************************************************************)
EXTENDS MCLineItems

Amount(min, max, currency) == [type |-> "amount_range", min |-> min, max |-> max, currency |-> currency]

Shop(id, name, site) == [id |-> id, name |-> name, website |-> site]
InList(m) == [ref |-> FALSE, id |-> m.id, name |-> m.name, website |-> m.website]

Acme == Shop("m1", "acme", "acme.com")
AcmeOrg == Shop(Absent, "acme", "acme.org")
Renamed == Shop("m1", "new", "new.com")
Nobody == Shop(Absent, Absent, "acme.com")
Hidden == [ref |-> TRUE, id |-> Absent, name |-> Absent, website |-> Absent]

Allow(type, list) == [type |-> type, allowed |-> list]

Anything == [named |-> TRUE, acceptable |-> <<>>, quantity |-> 1]

Catalogue ==
    { Malformed, Amount(1, 2, Absent), Amount(Absent, 2, "EUR"), Amount(2, 1, "USD"),
      Amount(Malformed, 2, "USD"), Amount(1, Malformed, Absent), Amount(Absent, Absent, Absent),
      Allow("allowed_payees", Malformed), Allow("allowed_payees", <<>>),
      Allow("allowed_payees", <<Hidden>>), Allow("allowed_payees", <<Hidden, InList(Nobody)>>),
      Allow("allowed_payees", <<Hidden, InList(Acme)>>), Allow("allowed_payees", <<InList(AcmeOrg)>>),
      Allow("allowed_merchants", <<InList(AcmeOrg), InList(Renamed)>>),
      Allow("allowed_merchants", <<Hidden, Hidden>>),
      [type |-> "line_items", items |-> <<Anything>>, match_mode |-> "exact"],
      [type |-> "line_items", items |-> Malformed, match_mode |-> "minimum"], [type |-> "unhashable"],
      [type |-> "reference"], [type |-> "recurrence"], [type |-> "loyalty"], [type |-> "gift"],
      [type |-> "budget", min |-> Absent, max |-> 1], [type |-> "budget", min |-> 0, max |-> 1],
      [type |-> "budget", min |-> Absent, max |-> 0] }

Values(paid, payee, merchant, resolved) ==
    [paid |-> paid, payee |-> payee, merchant |-> merchant, allowed_merchants |-> resolved,
     line_items |-> <<[id |-> "a", sku |-> Absent, quantity |-> 1]>>]

Paid(amount, currency) == [amount |-> amount, currency |-> currency]

Fulfillments ==
    { Malformed, Values(Absent, Absent, Acme, <<>>), Values(Paid(Absent, Absent), Nobody, Nobody, <<>>),
      Values(Paid(0, "USD"), Acme, Renamed, <<>>), Values(Paid(-1, "EUR"), Acme, AcmeOrg, <<>>),
      Values(Paid(1, Absent), AcmeOrg, AcmeOrg, <<>>),
      Values(Paid(2, "EUR"), Renamed, AcmeOrg, <<Acme>>),
      Values(Paid(2, "USD"), AcmeOrg, Absent, <<Nobody, Acme>>),
      Values(Paid(3, "USD"), Shop(Absent, "acme", "acme.com"), Acme, <<AcmeOrg>>),
      Values(Paid(Malformed, "USD"), Acme, Acme, <<AcmeOrg, Acme>>) }

Lists == {Malformed, <<>>} \cup {<<c>> : c \in Catalogue} \cup {<<c, d>> : c, d \in Catalogue}

\* How unknown types are treated: by mode, by a policy that says otherwise for
\* one type, or by the mandate being open.
Attitudes ==
    {<<mode, open, [t \in UnknownTypes |-> IF t = "gift" THEN gift ELSE Absent]>> :
        mode \in Strictness, open \in BOOLEAN, gift \in OrAbsent(Strictness)}

MCChecks ==
    CartChecks
    \cup
    {[constraints |-> list, fulfillment |-> values, mode |-> a[1], is_open_mandate |-> a[2],
      policy |-> a[3]] : list \in Lists, values \in Fulfillments,
                         a \in {<<"permissive", FALSE, [t \in UnknownTypes |-> Absent]>>}}
    \cup
    {[constraints |-> list, fulfillment |-> values, mode |-> a[1], is_open_mandate |-> a[2],
      policy |-> a[3]] : list \in {<<[type |-> s], [type |-> t]>> : s, t \in UnknownTypes \cup {"reference"}},
                         values \in {Values(Paid(1, Absent), AcmeOrg, AcmeOrg, <<>>)},
                         a \in Attitudes}

\* A limit in euros, held against a payment that keeps within it and one that says
\* neither a sensible amount nor a currency.
AmountChecks ==
    {[constraints |-> <<Amount(Absent, 2, "EUR")>>, fulfillment |-> Values(paid, Acme, Acme, <<>>),
      mode |-> "strict", is_open_mandate |-> FALSE, policy |-> [t \in UnknownTypes |-> Absent]] :
        paid \in {Paid(2, "EUR"), Paid(-1, Absent)}}
================================================================================
