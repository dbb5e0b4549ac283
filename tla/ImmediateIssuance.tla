-------------------------- MODULE ImmediateIssuance --------------------------
(***************************************************************************)
(* create_layer2_immediate, on mandate objects the user keeps, combines    *)
(* and edits.  A call writes checkout_hash and transaction_id into the     *)
(* objects it is given, unless they have one already, and signs what they  *)
(* then hold: a value written for one cart may be signed with another.     *)
(* What verify_chain makes of the credential is asked of ChainSpec.        *)
(***************************************************************************)
EXTENDS Integers, Sequences

CONSTANTS
    Checkouts, Payments,  \* CheckoutMandate and PaymentMandate objects
    Carts,                \* checkout_jwt contents; the hash of one is itself
    Absent, Malformed

OrAbsent(S) == S \cup {Absent}

ASSUME AbsentIsNothing ==
    /\ Absent \notin Checkouts \cup Payments \cup Carts
    /\ Absent \notin {"issuer", "user", "card"}
    /\ Absent \notin [jwt: OrAbsent(Carts), hash: OrAbsent(Carts)] \cup [txid: OrAbsent(Carts)]

ASSUME MalformedIsNoTime == Malformed \notin Nat

ASSUME ObjectsHaveOneKind == Checkouts \cap Payments = {}

VARIABLES
    cart,     \* checkout_jwt of each checkout object
    hash,     \* its checkout_hash
    txid,     \* transaction_id of each payment object
    meant,    \* history: the cart each object was first signed for, since reset
    last      \* the credential signed last, with what meant was then

vars == <<cart, hash, txid, meant, last>>

Objects == Checkouts \cup Payments

------------------------------------------------------------------------------
Init ==
    /\ cart \in [Checkouts -> OrAbsent(Carts)]
    /\ hash = [c \in Checkouts |-> Absent] /\ txid = [p \in Payments |-> Absent]
    /\ meant = [o \in Objects |-> Absent] /\ last = Absent

\* The user puts another cart into a checkout object, or takes it out.
SetCart ==
    /\ \E c \in Checkouts, jwt \in OrAbsent(Carts) : cart' = [cart EXCEPT ![c] = jwt]
    /\ UNCHANGED <<hash, txid, meant, last>>

\* The user clears checkout_hash or transaction_id, or makes the object anew.
Reset ==
    /\ \/ \E c \in Checkouts : /\ hash' = [hash EXCEPT ![c] = Absent]
                               /\ meant' = [meant EXCEPT ![c] = Absent]
                               /\ UNCHANGED txid
       \/ \E p \in Payments : /\ txid' = [txid EXCEPT ![p] = Absent]
                              /\ meant' = [meant EXCEPT ![p] = Absent]
                              /\ UNCHANGED hash
    /\ UNCHANGED <<cart, last>>

\* computed_hash, when there is anything to hash.
Computed(c) == IF c = Absent THEN Absent ELSE cart[c]

\* Mutant: nobody asks whether the mandate has this object.
FilledMutant(old, object, value) ==
    [o \in DOMAIN old \cup {object} |->
        IF o \notin DOMAIN old \/ (o = object /\ old[o] = Absent) THEN value ELSE old[o]]

\* old, with the empty value of this object replaced by the computed one.
Filled(old, object, value) ==
    [o \in DOMAIN old |-> IF o = object /\ old[o] = Absent THEN value ELSE old[o]]

\* Mutant: the checkout is serialised before its hash is computed.
IssueMutant(c, p) ==
    /\ hash' = Filled(hash, c, Computed(c))
    /\ txid' = Filled(txid, p, Computed(c))
    /\ meant' = Filled(Filled(meant, c, Computed(c)), p, Computed(c))
    /\ last' = [checkout |-> IF c = Absent THEN Absent ELSE [jwt |-> cart[c], hash |-> hash[c]],
                payment |-> IF p = Absent THEN Absent ELSE [txid |-> txid'[p]],
                meant |-> {meant'[o] : o \in {c, p} \ {Absent}}]
    /\ UNCHANGED cart

\* One call, with the objects of this mandate; neither need be there.
Issue(c, p) ==
    /\ hash' = Filled(hash, c, Computed(c))
    /\ txid' = Filled(txid, p, Computed(c))
    /\ meant' = Filled(Filled(meant, c, Computed(c)), p, Computed(c))
    /\ last' = [checkout |-> IF c = Absent THEN Absent ELSE [jwt |-> cart[c], hash |-> hash'[c]],
                payment |-> IF p = Absent THEN Absent ELSE [txid |-> txid'[p]],
                meant |-> {meant'[o] : o \in {c, p} \ {Absent}}]
    /\ UNCHANGED cart

Next == SetCart \/ Reset \/ \E c \in OrAbsent(Checkouts), p \in OrAbsent(Payments) : Issue(c, p)

Spec == Init /\ [][Next]_vars

------------------------------------------------------------------------------
(* The credential as the verifier gets it. *)

Final(kind, link, content) ==
    [kind |-> kind, open |-> FALSE, complete |-> TRUE, link |-> link, content |-> content,
     key |-> Absent, kid |-> Absent, instrument |-> IF kind = "payment" THEN "card" ELSE Absent]

FinalMandates ==
    {Final("checkout", link, content) : link \in OrAbsent(Carts), content \in OrAbsent(Carts)}
        \cup {Final("payment", link, Absent) : link \in OrAbsent(Carts)}

\* The mandate disclosures, in the order delegate_payload refers to them.
Disclosures(credential) ==
    (IF credential.checkout = Absent THEN <<>>
     ELSE <<Final("checkout", credential.checkout.hash, credential.checkout.jwt)>>)
    \o (IF credential.payment = Absent THEN <<>>
        ELSE <<Final("payment", credential.payment.txid, Absent)>>)

Layer1 ==
    [jwt |-> [signer |-> "issuer", formed |-> TRUE, iat |-> 0, exp |-> 1, key |-> "user", card |-> "card"],
     discs |-> <<>>]

Layer2(credential) ==
    [jwt |-> [signer |-> "user", formed |-> TRUE, iat |-> 0, exp |-> 1, aud |-> Absent, nonce |-> Absent,
              typ |-> "kb-sd-jwt", sd_hash |-> Layer1,
              delegates |-> [n \in DOMAIN Disclosures(credential) |->
                               [disc |-> Disclosures(credential)[n], inline |-> FALSE]]],
     discs |-> Disclosures(credential)]

Kinds == {"payment", "checkout"}

Anything == [aud |-> Absent, nonce |-> Absent]

\* verify_chain, asked with the issuer's key at once.
CallOn(credential) ==
    [form |-> "single", l1 |-> Layer1, l2 |-> Layer2(credential), l3s |-> <<>>,
     l1_serialized |-> Absent, l2_serialized |-> Absent,
     serialized |-> [kind \in Kinds |-> Absent], issuer_key |-> "issuer", skip_issuer |-> FALSE,
     expected_l2 |-> Anything, expected_l3 |-> [kind \in Kinds |-> Anything]]

Chain == INSTANCE ChainSpec
    WITH Disc <- FinalMandates, MandateOf <- [m \in FinalMandates |-> m],
         Keys <- {"issuer", "user"}, Kids <- {}, Instruments <- {"card"}, Values <- Carts,
         Strings <- {}, Skew <- 0, MaxLifetime <- 1,
         Calls <- {}, MaxClock <- 0,
         clock <- 0, call <- Absent, asked <- 0, verdict <- "none"

Accepted(credential) == Chain!Authorized(CallOn(credential), 0)

------------------------------------------------------------------------------
(* Properties. *)

\* Every variable has its type.
TypeOK ==
    /\ cart \in [Checkouts -> OrAbsent(Carts)]
    /\ hash \in [Checkouts -> OrAbsent(Carts)]
    /\ txid \in [Payments -> OrAbsent(Carts)]
    /\ meant \in [Objects -> OrAbsent(Carts)]
    /\ last \in OrAbsent([checkout: OrAbsent([jwt: OrAbsent(Carts), hash: OrAbsent(Carts)]),
                          payment: OrAbsent([txid: OrAbsent(Carts)]),
                          meant: SUBSET OrAbsent(Carts)])

\* What the user signs is accepted by verify_chain exactly when both mandates
\* are there and both were first signed for the cart they now carry: however
\* the objects were edited, swapped and reused in between, a hash or a
\* transaction id left over from another cart is never accepted, and fresh
\* objects are never refused.
AcceptedIffMeant ==
    last # Absent =>
        (Accepted(last) <=> /\ Absent \notin {last.checkout, last.payment}
                            /\ last.checkout.jwt # Absent
                            /\ last.meant = {last.checkout.jwt})
==============================================================================
