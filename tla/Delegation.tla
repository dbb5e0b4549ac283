------------------------------ MODULE Delegation ------------------------------
(***************************************************************************)
(* The parties of a purchase and what they hand each other: a user signs   *)
(* intents, final or open; agents sign fulfilments of the open ones; the   *)
(* payment network and the merchant each verify a presentation made for    *)
(* their eyes.  Nobody keeps a message from arriving late, twice, out of   *)
(* order or next to a credential it does not belong to: a verifier may be  *)
(* handed any credentials that exist, at any time.  An agent may buy what  *)
(* it was not asked to; the verifiers are there to refuse it.              *)
(*                                                                         *)
(* verify_chain is ChainSpec's Authorized and check_constraints is         *)
(* ConstraintSpec's Judgement, which ChainVerifier and ConstraintChecker   *)
(* implement.                                                              *)
(***************************************************************************)
EXTENDS Integers, Sequences, SequencesExt, Functions

CONSTANTS
    Intents,       \* the UserMandates the user may sign
    Shops, Products, Agents,
    Price,         \* the catalogue
    CardLife, MandateLife, FulfilmentLife,  \* exp - iat of L1, L2 and L3
    Skew, MaxLifetime,                      \* of verify_chain
    MaxMandates, MaxPurchases, MaxClock,    \* bounds
    Absent, Malformed

OrAbsent(S) == S \cup {Absent}

Kinds == {"payment", "checkout"}

\* What limits a payment: an amount_range, any number of allowed_payees, a budget,
\* and a constraint of an unregistered type.
Limits ==
    [min: Int, max: Int, payees: Seq(Seq(Shops)), budget: OrAbsent(Int),
     extra: OrAbsent({"loyalty"})]

\* An open intent: "shops" and "items" are the mandate's merchants and
\* acceptable_items.  create_layer2_autonomous makes one pair of mandates; the
\* verifiers take a Layer 2 with several.
OpenIntent ==
    [open: {TRUE}, agent: Agents, shops: Seq(Shops), items: Seq(Products), pairs: Seq(Limits)]

FinalIntent == [open: {FALSE}, cart: Products, payee: Shops]

\* A Layer 2 is known by what it says and when it was signed.
Layer2s == [intent: Intents, at: 0..MaxClock]

\* What an agent signs for one purchase, L3a and L3b: the L2 disclosures it binds
\* them to ("side" is the mandate it takes for the payment's), and final values.
Purchase ==
    [agent: Agents, l2: {s \in Layer2s : s.intent.open}, side: Kinds, pair: Nat,
     shop: Nat, item: Nat, cart: Products, payee: Shops, at: 0..MaxClock]

Networks == {"validate_intent", "network_validation", "autonomous_flow"}

ASSUME IntentsAreIntents == Intents \subseteq OpenIntent \cup FinalIntent

ASSUME PayeesAreShops ==
    \A i \in Intents : i.open =>
        \A j \in DOMAIN i.pairs : \A n \in DOMAIN i.pairs[j].payees :
            Range(i.pairs[j].payees[n]) \subseteq Range(i.shops)

ASSUME EverythingHasAPrice == Price \in [Products -> Int]

ASSUME BoundsAreNumbers ==
    {CardLife, MandateLife, FulfilmentLife, Skew, MaxLifetime, MaxMandates, MaxPurchases, MaxClock}
        \subseteq Nat

VARIABLES
    clock,
    signed,  \* Layer 2 credentials
    made,    \* purchases signed by agents
    paid,    \* payments some network accepted
    sold     \* checkouts the merchant accepted

vars == <<clock, signed, made, paid, sold>>

------------------------------------------------------------------------------
(* The credentials. *)

\* create_layer1: the issuer signs, once, that the card is the user's.
Layer1 ==
    [jwt |-> [signer |-> "issuer", formed |-> TRUE, iat |-> 0, exp |-> CardLife,
              key |-> "user", card |-> Absent],
     discs |-> <<>>]

Disclosure(s, kind, n) == [of |-> s, kind |-> kind, n |-> n]

AllDiscs == [of: Layer2s, kind: Kinds \cup {"merchants", "items"}, n: Nat]

PairCount(i) == IF i.open THEN Len(i.pairs) ELSE 1

Pairs(i) == 1..PairCount(i)

\* The disclosures of the mandates, as delegate_payload refers to them.
Mandates(s) ==
    [n \in 1..(2 * PairCount(s.intent)) |->
        Disclosure(s, IF n % 2 = 1 THEN "checkout" ELSE "payment", (n + 1) \div 2)]

Listing(s, kind, length) == [n \in 1..length |-> Disclosure(s, kind, n)]

Merchants(s) == Listing(s, "merchants", Len(s.intent.shops))

Items(s) == Listing(s, "items", Len(s.intent.items))

\* The disclosures of a Layer 2, in the order they are created.
DiscsOf(s) == (IF s.intent.open THEN Merchants(s) \o Items(s) ELSE <<>>) \o Mandates(s)

Final(kind, cart) ==
    [kind |-> kind, open |-> FALSE, complete |-> TRUE, link |-> cart,
     content |-> IF kind = "checkout" THEN cart ELSE Absent, key |-> Absent, kid |-> Absent,
     instrument |-> IF kind = "payment" THEN "card" ELSE Absent]

Other ==
    [kind |-> "other", open |-> FALSE, complete |-> TRUE, link |-> Absent, content |-> Absent,
     key |-> Absent, kid |-> Absent, instrument |-> Absent]

\* The mandate inside a disclosure.
Content(d) ==
    IF d.kind \notin Kinds THEN Other
    ELSE IF ~d.of.intent.open THEN Final(d.kind, d.of.intent.cart)
    ELSE [Final(d.kind, Absent) EXCEPT
            !.open = TRUE, !.key = d.of.intent.agent, !.kid = "agent-key-1",
            !.link = IF d.kind = "payment" THEN Disclosure(d.of, "checkout", d.n) ELSE Absent]

\* Layer 2, of which these disclosures are shown.
Show(s, discs) ==
    [jwt |-> [signer |-> "user", formed |-> TRUE, iat |-> s.at, exp |-> s.at + MandateLife,
              aud |-> Absent, nonce |-> Absent,
              typ |-> IF s.intent.open THEN "kb-sd-jwt+kb" ELSE "kb-sd-jwt",
              sd_hash |-> Layer1,
              delegates |-> [n \in DOMAIN Mandates(s) |->
                               [disc |-> Mandates(s)[n], inline |-> FALSE]]],
     discs |-> discs]

\* build_selective_presentation, as each of the two Layer 3 credentials is bound to it.
PaymentView(b) ==
    Show(b.l2, <<Disclosure(b.l2, b.side, b.pair), Disclosure(b.l2, "merchants", b.shop)>>)

CheckoutView(b) ==
    Show(b.l2, <<Disclosure(b.l2, "checkout", b.pair), Disclosure(b.l2, "items", b.item)>>)

Fulfilment(b, view, mandates) ==
    [signer |-> b.agent, formed |-> TRUE, iat |-> b.at, exp |-> b.at + FulfilmentLife,
     aud |-> Absent, nonce |-> Absent, kid |-> "agent-key-1", cnf |-> FALSE,
     sd_hash |-> view, mandates |-> mandates]

\* create_layer3_payment: the merchant and the final payment.
PaymentCredential(b) == Fulfilment(b, PaymentView(b), <<Other, Final("payment", b.cart)>>)

\* create_layer3_checkout: the cart the merchant signed, and its hash.
CheckoutCredential(b) == Fulfilment(b, CheckoutView(b), <<Final("checkout", b.cart)>>)

\* The presentations of Layer 2, and the Layer 3 credentials.
Views == [jwt: {Show(s, <<>>).jwt : s \in Layer2s}, discs: Seq(AllDiscs)]

Fulfilments ==
    [signer: Agents, formed: {TRUE}, iat: Nat, exp: Nat, aud: {Absent}, nonce: {Absent},
     kid: {"agent-key-1"}, cnf: {FALSE}, sd_hash: Views,
     mandates: Seq({Other} \cup {Final(kind, cart) : kind \in Kinds, cart \in Products})]

ASSUME AbsentIsNothing ==
    Absent \notin Int \cup Shops \cup AllDiscs \cup Purchase \cup Views \cup Fulfilments

------------------------------------------------------------------------------
(* What build_role_presentations shows to whom. *)

\* The disclosures of one role, in their order of creation; a final Layer 2 has
\* no open mandate to show and is refused.
RolePresentation(s, role) ==
    Show(s, (IF role = "payment" THEN Merchants(s) ELSE Items(s)) \o Listing(s, role, Len(s.intent.pairs)))

Whole(s) == Show(s, DiscsOf(s))

\* What an agent may hand the network of this Layer 2.
Presentations(s) ==
    {Whole(s)} \cup (IF s.intent.open THEN {RolePresentation(s, role) : role \in Kinds} ELSE {})
      \cup {PaymentView(b) : b \in {x \in made : x.l2 = s}}

------------------------------------------------------------------------------
(* The verifiers. *)

Chain == INSTANCE ChainSpec
    WITH Disc <- AllDiscs, MandateOf <- [d \in AllDiscs |-> Content(d)],
         Keys <- Agents \cup {"issuer", "user"}, Kids <- {"agent-key-1"},
         Instruments <- {"card"}, Values <- Products, Strings <- {},
         Calls <- {}, call <- Absent, asked <- 0, verdict <- "none"

Rules == INSTANCE ConstraintSpec
    WITH Ids <- Shops, Names <- Shops, Websites <- Shops, Currencies <- {"USD"},
         UnknownTypes <- {"loyalty"},
         check <- Absent, verdict <- "pending", unjudged <- {}

NoSides == [kind \in Kinds |-> Absent]

OneSide(kind, value) == [NoSides EXCEPT ![kind] = value]

\* The arguments the parties call verify_chain with.
Ask(shown, l3s, whole, serialized) ==
    LET anything == [aud |-> Absent, nonce |-> Absent]
    IN  [form |-> "single", l1 |-> Layer1, l2 |-> shown, l3s |-> l3s,
         l1_serialized |-> Layer1, l2_serialized |-> whole, serialized |-> serialized,
         issuer_key |-> "issuer", skip_issuer |-> FALSE,
         expected_l2 |-> anything, expected_l3 |-> [kind \in Kinds |-> anything]]

Only(kind, l3) == <<[l3 |-> OneSide(kind, l3), serialized |-> NoSides]>>

Party(shop) == [id |-> shop, name |-> shop, website |-> shop]

\* The constraints of an open payment, as the verifier finds them: the elements
\* of an allowlist are references.  The last one was added by the library.
PaymentConstraints(limits) ==
    LET hidden == [ref |-> TRUE, id |-> Absent, name |-> Absent, website |-> Absent]
    IN  <<[type |-> "amount_range", min |-> limits.min, max |-> limits.max, currency |-> "USD"]>>
        \o [n \in DOMAIN limits.payees |->
              [type |-> "allowed_payees", allowed |-> [m \in DOMAIN limits.payees[n] |-> hidden]]]
        \o (IF limits.budget = Absent THEN <<>>
            ELSE <<[type |-> "budget", min |-> Absent, max |-> limits.budget]>>)
        \o (IF limits.extra = Absent THEN <<>> ELSE <<[type |-> limits.extra]>>)
        \o <<[type |-> "reference"]>>

PaymentsShown(s, p) ==
    {n \in Pairs(s.intent) : Disclosure(s, "payment", n) \in Range(p.discs)}

\* Mutant: the first payment mandate of Layer 2, shown or not.
EnforcedMutant(s, p) == s.intent.pairs[1]

\* The limits enforced are those of the first payment mandate that is shown.
Enforced(s, p) == s.intent.pairs[Min(PaymentsShown(s, p))]

\* Whether this presentation discloses the shop.
ShopShown(s, p, shop) ==
    \E n \in DOMAIN s.intent.shops :
        s.intent.shops[n] = shop /\ Disclosure(s, "merchants", n) \in Range(p.discs)

\* The references of the first allowed_payees that this presentation discloses.
AllowedMerchants(s, p) ==
    IF Enforced(s, p).payees = <<>> THEN {}
    ELSE {shop \in Range(Enforced(s, p).payees[1]) : ShopShown(s, p, shop)}

\* check_constraints, on the payment of b as this presentation lets it be seen.
\* It looks for the payee among the resolved merchants, in any order.
Satisfied(s, p, b, mode) ==
    Rules!Judgement(
        [constraints |-> PaymentConstraints(Enforced(s, p)),
         fulfillment |-> [paid |-> [amount |-> Price[b.cart], currency |-> "USD"],
                          payee |-> Party(b.payee), merchant |-> Absent,
                          allowed_merchants |-> SetToSeq({Party(m) : m \in AllowedMerchants(s, p)}),
                          line_items |-> <<>>],
         mode |-> mode, is_open_mandate |-> FALSE,
         policy |-> [t \in {"loyalty"} |-> Absent]]) = "satisfied"

\* verify_chain, called with these arguments, which TLC computes once as x.
ChainAccepts(c) == \E x \in {c} : Chain!Authorized(x, clock)

\* validate_intent: the network has the presentation it was sent and nothing else.
\* A payment that is shown is never without constraints, so that the two tests
\* for missing ones reject nothing more.
ValidIntent(s, p, b) ==
    /\ ChainAccepts(Ask(p, IF b = Absent THEN <<>> ELSE Only("payment", PaymentCredential(b)),
                        p, NoSides))
    /\ s.intent.open => b # Absent
    /\ b # Absent => PaymentsShown(s, p) # {}
    /\ b # Absent => Satisfied(s, p, b, "strict")

\* Mutant: the network takes the whole Layer 2 to be what L3a is bound to.
ValidStagedMutant(s, b, mode) ==
    /\ ChainAccepts(Ask(Whole(s), Only("payment", PaymentCredential(b)), Whole(s), NoSides))
    /\ Satisfied(s, Whole(s), b, mode)

\* network_validation and autonomous_flow: the network has the whole of Layer 2,
\* and the view L3a is bound to beside it.
ValidStaged(s, b, mode) ==
    /\ ChainAccepts(Ask(Whole(s), Only("payment", PaymentCredential(b)), Whole(s),
                        OneSide("payment", PaymentView(b))))
    /\ Satisfied(s, Whole(s), b, mode)

\* The merchant is shown its role's disclosures, and handed the view L3b is bound to.
ValidCheckout(s, b) ==
    ChainAccepts(Ask(RolePresentation(s, "checkout"), Only("checkout", CheckoutCredential(b)),
                     Whole(s), OneSide("checkout", CheckoutView(b))))

------------------------------------------------------------------------------
Init == clock = 0 /\ signed = {} /\ made = {} /\ paid = {} /\ sold = {}

Tick == clock < MaxClock /\ clock' = clock + 1 /\ UNCHANGED <<signed, made, paid, sold>>

\* create_layer2_autonomous or create_layer2_immediate.
Authorise ==
    /\ Cardinality(signed) < MaxMandates
    /\ \E i \in Intents : signed' = signed \cup {[intent |-> i, at |-> clock]}
    /\ UNCHANGED <<clock, made, paid, sold>>

\* Mutant: the item is looked up among the shops.
FulfilMutant ==
    /\ Cardinality(made) < MaxPurchases
    /\ \E s \in {x \in signed : x.intent.open}, agent \in Agents, side \in Kinds,
          cart \in Products, payee \in Shops :
          \E pair \in DOMAIN s.intent.pairs, shop, item \in DOMAIN s.intent.shops :
             made' = made \cup {[agent |-> agent, l2 |-> s, side |-> side, pair |-> pair,
                                 shop |-> shop, item |-> item, cart |-> cart, payee |-> payee,
                                 at |-> clock]}
    /\ UNCHANGED <<clock, signed, paid, sold>>

\* An agent picks a product and a shop, has the shop make a cart of it, and signs
\* both halves of the purchase.
Fulfil ==
    /\ Cardinality(made) < MaxPurchases
    /\ \E s \in {x \in signed : x.intent.open}, agent \in Agents, side \in Kinds,
          cart \in Products, payee \in Shops :
          \E pair \in DOMAIN s.intent.pairs, shop \in DOMAIN s.intent.shops,
             item \in DOMAIN s.intent.items :
             made' = made \cup {[agent |-> agent, l2 |-> s, side |-> side, pair |-> pair,
                                 shop |-> shop, item |-> item, cart |-> cart, payee |-> payee,
                                 at |-> clock]}
    /\ UNCHANGED <<clock, signed, paid, sold>>

Pay(by, s, b) ==
    /\ paid' = paid \cup {[by |-> by, l2 |-> s, purchase |-> b]}
    /\ UNCHANGED <<clock, signed, made, sold>>

\* A refusal changes nothing: the verifiers keep no record of what they were asked.
ValidateIntent(b) ==
    \E s \in signed : \E p \in Presentations(s) :
        ValidIntent(s, p, b) /\ Pay("validate_intent", s, b)

ValidateStaged(b, by, mode) ==
    \E s \in {x \in signed : x.intent.open} : ValidStaged(s, b, mode) /\ Pay(by, s, b)

VerifyCheckout(b) ==
    /\ \E s \in {x \in signed : x.intent.open} :
          ValidCheckout(s, b) /\ sold' = sold \cup {[l2 |-> s, purchase |-> b]}
    /\ UNCHANGED <<clock, signed, made, paid>>

NetworkValidation(b) == ValidateStaged(b, "network_validation", "strict")

AutonomousFlow(b) == ValidateStaged(b, "autonomous_flow", "permissive")

Next ==
    \/ Tick \/ Authorise \/ Fulfil
    \/ ValidateIntent(Absent)
    \/ \E b \in made : \/ ValidateIntent(b) \/ NetworkValidation(b)
                       \/ AutonomousFlow(b) \/ VerifyCheckout(b)

Spec == Init /\ [][Next]_vars

------------------------------------------------------------------------------
(* Fairness: what a purchase that is in order needs is done, sooner or later. *)

\* The agent the user named buys what the user asked for, where it may, and binds
\* its credentials to what the verifiers have to see.
InOrder(b) ==
    LET i == b.l2.intent
        limits == i.pairs[b.pair]
    IN  /\ b.agent = i.agent /\ b.side = "payment"
        /\ i.shops[b.shop] = b.payee /\ i.items[b.item] = b.cart
        /\ Price[b.cart] \in limits.min..limits.max
        /\ \A n \in DOMAIN limits.payees : b.payee \in Range(limits.payees[n])
        /\ limits.extra = Absent

Alive(s, b) ==
    /\ clock <= CardLife + Skew /\ clock <= s.at + MandateLife + Skew
    /\ b # Absent => clock <= b.at + FulfilmentLife + Skew

ServedBy(b, by) == [by |-> by, l2 |-> b.l2, purchase |-> b] \in paid

Sold(b) == [l2 |-> b.l2, purchase |-> b] \in sold

\* One of the three verifiers that has not accepted b yet is called with it, in time.
Serve ==
    \E b \in made :
        /\ InOrder(b) /\ Alive(b.l2, b)
        /\ \/ ~Sold(b) /\ VerifyCheckout(b)
           \/ ~ServedBy(b, "network_validation") /\ NetworkValidation(b)
           \/ ~ServedBy(b, "validate_intent") /\ ValidateIntent(b)

\* In the flows the verifiers are called as soon as the agent has signed.
FairSpec == Spec /\ WF_vars(Serve)

------------------------------------------------------------------------------
(* Properties. *)

\* Every variable has its type; an agent buys on a Layer 2 that is signed by
\* then, with disclosures that Layer 2 has; what was accepted was made.
TypeOK ==
    /\ clock \in 0..MaxClock
    /\ signed \subseteq Layer2s /\ \A s \in signed : s.at <= clock
    /\ made \subseteq Purchase
    /\ \A b \in made : /\ b.l2 \in signed /\ b.l2.at <= b.at /\ b.at <= clock
                       /\ b.pair \in DOMAIN b.l2.intent.pairs
                       /\ b.shop \in DOMAIN b.l2.intent.shops
                       /\ b.item \in DOMAIN b.l2.intent.items
    /\ paid \subseteq [by: Networks, l2: signed, purchase: OrAbsent(made)]
    /\ sold \subseteq [l2: signed, purchase: made]

LimitsOf(o) == o.l2.intent.pairs[o.purchase.pair]

\* A shop of the list was shown to the network, or the network sees all of them.
ListShown(o) ==
    \/ o.by # "validate_intent"
    \/ o.l2.intent.shops[o.purchase.shop] \in Range(LimitsOf(o).payees[1])

WithinLimits(o) ==
    /\ Price[o.purchase.cart] \in LimitsOf(o).min..LimitsOf(o).max
    /\ LimitsOf(o).payees # <<>> /\ ListShown(o) =>
            o.purchase.payee \in Range(LimitsOf(o).payees[1])
    /\ o.by # "autonomous_flow" => LimitsOf(o).extra = Absent

\* What the user signed and the agent fulfilled, both still alive.
Delegated(s, b) ==
    s.intent.open /\ b # Absent /\ b.l2 = s /\ b.agent = s.intent.agent /\ b.side = "payment"

\* Whatever credentials are handed over, next to whatever others, in whatever
\* presentation and however late: a network that accepts a payment, and a
\* merchant that accepts a checkout, accepts one under a live Layer 2 of the
\* user, either final and with no Layer 3 or fulfilled, while it lasts, by the
\* agent that Layer 2 names; and the payment keeps to the limits of the very pair
\* it was signed for: to the amounts, to the first list of payees as far as it is
\* shown, and to no constraint nobody knows.
AcceptedWithinIntent ==
    [][/\ \A o \in paid' \ paid :
            /\ Alive(o.l2, o.purchase)
            /\ IF o.l2.intent.open THEN Delegated(o.l2, o.purchase) /\ WithinLimits(o)
               ELSE o.purchase = Absent
       /\ \A o \in sold' \ sold :
            Alive(o.l2, o.purchase) /\ Delegated(o.l2, [o.purchase EXCEPT !.side = "payment"])]_vars

\* A purchase that is in order is accepted by the networks and by the merchant,
\* each with the view of Layer 2 it is given, unless time runs out first.  Of a
\* Layer 2 with several pairs a whole view needs a Layer 3 for each, so that only
\* validate_intent, which is shown one, can accept it.
InOrderServed ==
    []<>(\A b \in made : InOrder(b) /\ Alive(b.l2, b) =>
            /\ ServedBy(b, "validate_intent")
            /\ Len(b.l2.intent.pairs) = 1 => /\ ServedBy(b, "network_validation")
                                             /\ Sold(b))

\* spec/constraints.md: several constraints of the same type are each validated,
\* here by a network that sees every shop.
EveryListRespected ==
    \A o \in paid :
        o.by = "network_validation" =>
            \A n \in DOMAIN LimitsOf(o).payees : o.purchase.payee \in Range(LimitsOf(o).payees[n])

\* agent.py: the sd_hash of L3a binds to Layer 2 as seen by the network, which
\* gets the presentation build_role_presentations makes for it: a purchase in
\* order is accepted with that presentation.
RoleViewAccepted ==
    \A b \in made :
        InOrder(b) /\ Alive(b.l2, b) => ValidIntent(b.l2, RolePresentation(b.l2, "payment"), b)
===============================================================================
