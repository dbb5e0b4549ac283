---------------------------- MODULE ConstraintSpec ----------------------------
(***************************************************************************)
(* What check_constraints promises, without its loops and its bookkeeping: *)
(* every call is answered, and the answer is "satisfied" when each         *)
(* constraint, taken by itself, admits the final values.  The rules are    *)
(* those of spec/constraints.md, sections 4.1 to 4.4 and 5.  Where the     *)
(* code lets through what the document refuses, the deviation has a name   *)
(* of its own: AmountLetThrough.                                           *)
(***************************************************************************)
EXTENDS Constraints

VARIABLES check, verdict, unjudged

------------------------------------------------------------------------------
IsNumber(x) == x \notin {Absent, Malformed}

WithinBounds(c, f) ==
    /\ f.paid # Absent /\ IsNumber(f.paid.amount)
    /\ c.min # Absent => IsNumber(c.min) /\ f.paid.amount >= c.min
    /\ c.max # Absent => IsNumber(c.max) /\ f.paid.amount <= c.max

CurrencyOf(c) == IF c.currency = Absent THEN Dollar ELSE c.currency

\* Section 4.4: a non-negative amount within the bounds, in the right currency.
AmountAdmitted(c, f) ==
    WithinBounds(c, f) /\ f.paid.amount >= 0 /\ f.paid.currency = CurrencyOf(c)

\* What the code accepts beyond that: a payment that names no currency counts as
\* one in the right currency, and an amount below zero is held against the bounds
\* like any other.
AmountLetThrough(c, f) ==
    /\ WithinBounds(c, f) /\ f.paid.currency \in {Absent, CurrencyOf(c)}
    /\ f.paid.currency = Absent \/ f.paid.amount < 0

\* id is the key where both have one; otherwise name and website together.
SameMerchant(a, b) ==
    IF Absent \notin {a.id, b.id} THEN a.id = b.id
    ELSE Absent \notin {a.name, a.website} /\ <<a.name, a.website>> = <<b.name, b.website>>

\* An allowlist none of whose references this verifier can open says nothing to
\* it; one that is empty or unreadable admits nobody.
Closed(c, f) ==
    /\ c.allowed \notin {Malformed, <<>>} /\ f.allowed_merchants = <<>>
    /\ \A n \in DOMAIN c.allowed : c.allowed[n].ref

PartyAdmitted(c, f, party) ==
    LET own == {m \in Range(c.allowed) : ~m.ref /\ {m.id, m.name} # {Absent}}
    IN  /\ party # Absent /\ c.allowed \notin {Malformed, <<>>}
        /\ \/ Closed(c, f)
           \/ \E m \in IF f.allowed_merchants = <<>> THEN own ELSE Range(f.allowed_merchants) :
                SameMerchant(m, party)

Allowlists == {"allowed_payees", "allowed_merchants"}

PartyOf(c, f) == IF c.type = "allowed_payees" THEN f.payee ELSE f.merchant

\* The products an entry lists, as far as they are disclosed; none when it
\* stands for any product or is malformed.
Offers(entry) ==
    IF entry = Malformed \/ entry.acceptable \in {Absent, Malformed} THEN {}
    ELSE {KeyOf(item) : item \in {x \in Range(entry.acceptable) : ~x.ref}} \ {Absent, Malformed}

WellFormed(entry) ==
    /\ entry # Malformed
    /\ entry.named /\ entry.acceptable \notin {Absent, Malformed}
    /\ IsNumber(entry.quantity) /\ entry.quantity > 0
    /\ \A item \in Range(entry.acceptable) : ~item.ref => item.titled /\ KeyOf(item) # Malformed

AnyProduct(entry) == entry.acceptable = <<>>

GoodLine(line) ==
    /\ line # Malformed /\ KeyOf(line) \notin {Absent, Malformed}
    /\ line.quantity # Malformed /\ (line.quantity = Absent \/ line.quantity >= 0)

Units(line) == IF line.quantity = Absent THEN 0 ELSE line.quantity

Ordered(cart) == [n \in DOMAIN cart |-> Units(cart[n])]

Bought(cart, product) ==
    SumFunctionOnSet(Ordered(cart), {n \in DOMAIN cart : KeyOf(cart[n]) = product})

Allowance(entries, ns) == SumFunctionOnSet([n \in DOMAIN entries |-> entries[n].quantity], ns)

CartAdmitted(c, f) ==
    LET entries == c.items
        listing(product) == {n \in DOMAIN entries : product \in Offers(entries[n])}
        products == {KeyOf(line) : line \in Range(f.line_items)}
    IN  /\ entries # <<>> /\ \A entry \in Range(entries) : WellFormed(entry)
        /\ \E entry \in Range(entries) : AnyProduct(entry) \/ Offers(entry) # {}
        /\ f.line_items \notin {Malformed, <<>>} /\ \A line \in Range(f.line_items) : GoodLine(line)
        /\ \A p \in products : listing(p) # {} \/ \E entry \in Range(entries) : AnyProduct(entry)
        /\ SumFunction(Ordered(f.line_items)) <= Allowance(entries, DOMAIN entries)
        /\ \A p \in products :
             listing(p) # {} => Bought(f.line_items, p) <= Allowance(entries, listing(p))
        /\ c.match_mode # Malformed
        /\ c.match_mode = "exact" => \A entry \in Range(entries) :
             Offers(entry) = {} \/ \E p \in Offers(entry) : Bought(f.line_items, p) > 0

Tolerated(type, k) ==
    ~k.is_open_mandate /\ (IF k.policy[type] = Absent THEN k.mode ELSE k.policy[type]) = "permissive"

Admitted(c, k) ==
    /\ c # Malformed
    /\ CASE c.type = "amount_range" -> \/ AmountAdmitted(c, k.fulfillment)
                                      \/ AmountLetThrough(c, k.fulfillment)
         [] c.type \in Allowlists -> PartyAdmitted(c, k.fulfillment, PartyOf(c, k.fulfillment))
         [] c.type = "line_items" -> CartAdmitted(c, k.fulfillment)
         [] c.type \in UnknownTypes -> Tolerated(c.type, k)
         [] OTHER -> TRUE

\* A budget that is not positive cannot even be read, nor can entries that are no
\* collection, or a type that is no name.
Unreadable(c) ==
    /\ c # Malformed
    /\ \/ c.type = "unhashable"
       \/ c.type = "line_items" /\ c.items = Malformed
       \/ /\ c.type = "budget"
          /\ \/ ~IsNumber(c.max) \/ c.max <= 0
             \/ c.min # Absent /\ (~IsNumber(c.min) \/ c.min <= 0)

Judgement(k) ==
    IF Malformed \in {k.constraints, k.fulfillment} THEN "violated"
    ELSE IF \E c \in Range(k.constraints) : Unreadable(c) THEN "raised"
    ELSE IF \A c \in Range(k.constraints) : Admitted(c, k) THEN "satisfied" ELSE "violated"

\* The constraints the answer owns up to not having held the values against.
Unjudged(k) ==
    IF Malformed \in {k.constraints, k.fulfillment} THEN {}
    ELSE {c.type : c \in {d \in Range(k.constraints) \ {Malformed} :
            \/ d.type \in UnknownTypes /\ Tolerated(d.type, k)
            \/ /\ d.type \in Allowlists /\ Closed(d, k.fulfillment)
               /\ PartyOf(d, k.fulfillment) # Absent}}

------------------------------------------------------------------------------
vars == <<check, verdict, unjudged>>

Init == check \in Check /\ verdict = "pending" /\ unjudged = {}

Answer ==
    /\ verdict = "pending"
    /\ verdict' = Judgement(check)
    /\ unjudged' = IF verdict' = "raised" THEN {} ELSE Unjudged(check)
    /\ UNCHANGED check

Safety == Init /\ [][Answer]_vars

\* Every call is answered.
Spec == Safety /\ WF_vars(Answer)
==============================================================================
