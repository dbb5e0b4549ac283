----------------------------- MODULE Constraints -----------------------------
(***************************************************************************)
(* The data the constraint checker works on: the constraints of a Layer 2  *)
(* mandate as parse_constraint hands them over, and the final values of a  *)
(* Layer 3 mandate they are held against.  A value of the wrong JSON type  *)
(* is Malformed, one that is missing or empty is Absent; a constraint that *)
(* is no object at all is Malformed as well.  An empty value is treated as *)
(* a missing one wherever the code does; a currency that is empty or null  *)
(* is one like any other.                                                  *)
(***************************************************************************)
EXTENDS Integers, Sequences, FiniteSets, Functions

CONSTANTS
    Products,              \* product identifiers
    Ids, Names, Websites,  \* what merchants are identified by
    Currencies,
    UnknownTypes,          \* constraint types outside the registry
    Absent, Malformed

OrAbsent(S) == S \cup {Absent}

Loose(S) == S \cup {Absent, Malformed}

\* One of these is the currency of a constraint that names none.
Dollar == "USD"

Merchant == [id: OrAbsent(Ids), name: OrAbsent(Names), website: OrAbsent(Websites)]

\* An element of an allowlist: a merchant, or a reference that was not opened.
Listed == [ref: BOOLEAN, id: OrAbsent(Ids), name: OrAbsent(Names), website: OrAbsent(Websites)]

\* An element of acceptable_items, and a line of a cart.
Item == [ref: BOOLEAN, id: Loose(Products), sku: Loose(Products), titled: BOOLEAN]

Line == [id: Loose(Products), sku: Loose(Products), quantity: Loose(Int)]

\* A line-item entry; "named" says that it has an id of its own.
Entry == [named: BOOLEAN, acceptable: Loose(Seq(Item)), quantity: Loose(Int)]

\* Types whose constraint is enforced elsewhere: by the integrity checks, or by
\* a network that keeps state across fulfilments.
ElsewhereTypes == {"reference", "recurrence", "agent_recurrence"}

\* "items" is Malformed when it cannot be iterated over; what is no list but can
\* be (a string, an object) is a list of malformed entries.  The "unhashable" type
\* is a list or an object where a name should be.  A bound of a budget that is a
\* Boolean is the number 0 or 1 to the comparisons made with it.
Constraint ==
    [type: {"amount_range"}, min: Loose(Int), max: Loose(Int), currency: OrAbsent(Currencies)]
        \cup [type: {"allowed_payees", "allowed_merchants"}, allowed: {Malformed} \cup Seq(Listed)]
        \cup [type: {"line_items"}, items: {Malformed} \cup Seq(Entry \cup {Malformed}),
              match_mode: {"minimum", "exact", Malformed}]
        \cup [type: {"budget"}, min: Loose(Int), max: Loose(Int)]
        \cup [type: ElsewhereTypes \cup UnknownTypes \cup {"unhashable"}]
        \cup {Malformed}

\* "paid" is payment_amount; allowed_merchants are the allowlist entries the
\* caller could open.
Fulfillment ==
    [paid: OrAbsent([amount: Loose(Int), currency: OrAbsent(Currencies)]),
     payee: OrAbsent(Merchant), merchant: OrAbsent(Merchant),
     allowed_merchants: Seq(Merchant),
     line_items: {Malformed} \cup Seq(Line \cup {Malformed})]

Strictness == {"permissive", "strict"}

\* The arguments of check_constraints.
Check ==
    [constraints: {Malformed} \cup Seq(Constraint), fulfillment: {Malformed} \cup Fulfillment,
     mode: Strictness, is_open_mandate: BOOLEAN,
     policy: [UnknownTypes -> OrAbsent(Strictness)]]

\* Nothing that is missing or of the wrong type is a value.
ASSUME NothingIsAValue ==
    Absent # Malformed /\ {Absent, Malformed} \cap (Products \cup Ids \cup Names \cup Websites \cup Currencies) = {}

ASSUME UnknownTypesAreUnknown ==
    UnknownTypes \cap (ElsewhereTypes \cup {"amount_range", "allowed_payees", "allowed_merchants",
                                            "line_items", "budget", "malformed", "unhashable"}) = {}

------------------------------------------------------------------------------
\* The identifier a product is known by: its id or, without one, its sku.
KeyOf(item) == IF item.id # Absent THEN item.id ELSE item.sku
==============================================================================
