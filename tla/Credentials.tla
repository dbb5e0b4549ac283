----------------------------- MODULE Credentials -----------------------------
(***************************************************************************)
(* The data of a Verifiable Intent delegation chain, kept symbolic.  Three *)
(* conventions replace the cryptography:                                   *)
(*                                                                         *)
(*   - a signature is the key that made it: a credential's "signer" is the *)
(*     key under which its current header and payload verify, Absent when  *)
(*     they verify under no key (altered after signing);                   *)
(*   - a hash is the thing hashed.  A disclosure is named by its hash, and *)
(*     MandateOf says which mandate is inside; an sd_hash is the           *)
(*     presentation it was computed over; a checkout_hash is the           *)
(*     checkout_jwt.  Distinct inputs have distinct hashes;                *)
(*   - a claim that is missing or empty is Absent, and a time claim of the *)
(*     wrong JSON type (bool, string, NaN) is Malformed.                   *)
(***************************************************************************)
EXTENDS Integers, Sequences, Functions

CONSTANTS
    Disc,         \* disclosures, each named by its hash
    MandateOf,    \* the mandate inside each disclosure
    Keys,         \* public keys (the x and y of a JWK)
    Kids,         \* key identifiers
    Instruments,  \* payment instruments, named by their id
    Values,       \* checkout_jwt contents
    Strings,      \* audiences and nonces
    Skew,         \* clock_skew_seconds
    MaxLifetime,  \* the 3600 seconds of "1 hour from iat"
    Absent, Malformed

Kinds == {"payment", "checkout"}

OrAbsent(S) == S \cup {Absent}

Time == Nat \cup {Absent, Malformed}

\* A resolved entry of a delegate_payload.  "link" is the claim pairing uses
\* (checkout_hash, transaction_id, or conditional_transaction_id of the first
\* reference constraint); "complete" says the claims required of this kind of
\* mandate are there (for an open checkout, a line_items constraint; for an
\* open payment, a reference constraint; for a final one, no cnf without a key);
\* "key" and "kid" come from cnf.jwk.
Mandate ==
    [kind: Kinds \cup {"other"}, open: BOOLEAN, complete: BOOLEAN,
     link: OrAbsent(Disc \cup Values), content: OrAbsent(Values),
     key: OrAbsent(Keys), kid: OrAbsent(Kids), instrument: OrAbsent(Instruments)]

\* A raw entry of L2's delegate_payload: a disclosure reference {"...": hash},
\* or the mandate object itself, in clear.
Delegate == [disc: Disc, inline: BOOLEAN]

\* A presentation is a signed JWT and the disclosures shown with it.
Presentation(Jwt) == [jwt: Jwt, discs: Seq(Disc)]

\* "formed" is the conjunction of the checks on JSON types, on alg and _sd_alg,
\* and on the typ and vct that do not depend on the execution mode.
L1Jwt ==
    [signer: OrAbsent(Keys), formed: BOOLEAN, iat: Time, exp: Time,
     key: OrAbsent(Keys), card: OrAbsent(Instruments)]

L2Jwt ==
    [signer: OrAbsent(Keys), formed: BOOLEAN, iat: Time, exp: Time,
     aud: OrAbsent(Strings), nonce: OrAbsent(Strings),
     typ: {"kb-sd-jwt", "kb-sd-jwt+kb"},
     sd_hash: OrAbsent(Presentation(L1Jwt)), delegates: Seq(Delegate)]

\* An entry of Layer 3 that is no final mandate is of kind "other".
L3Jwt ==
    [signer: OrAbsent(Keys), formed: BOOLEAN, iat: Time, exp: Time,
     aud: OrAbsent(Strings), nonce: OrAbsent(Strings),
     kid: OrAbsent(Kids), cnf: BOOLEAN,
     sd_hash: OrAbsent(Presentation(L2Jwt)),
     mandates: Seq({m \in Mandate : m.open => m.kind = "other"})]

\* The arguments of verify_chain.  "form" says which of l3_payment/l3_checkout
\* ("single"), split_l3s ("split") or both was passed; l3s holds one element
\* per SplitL3 in either case, and none when no Layer 3 argument was given.
SplitL3 == [l3: [Kinds -> OrAbsent(L3Jwt)],
            serialized: [Kinds -> OrAbsent(Presentation(L2Jwt))]]

Expectation == [aud: OrAbsent(Strings), nonce: OrAbsent(Strings)]

Arguments ==
    [form: {"single", "split", "both"},
     l1: Presentation(L1Jwt), l2: Presentation(L2Jwt), l3s: Seq(SplitL3),
     l1_serialized: OrAbsent(Presentation(L1Jwt)),
     l2_serialized: OrAbsent(Presentation(L2Jwt)),
     serialized: [Kinds -> OrAbsent(Presentation(L2Jwt))],
     issuer_key: OrAbsent(Keys), skip_issuer: BOOLEAN,
     expected_l2: Expectation, expected_l3: [Kinds -> Expectation]]

ASSUME DisclosuresHoldMandates == MandateOf \in [Disc -> Mandate]

\* A missing claim is none of the values the claim can have.
ASSUME AbsentIsNoValue ==
    Absent \notin Disc \cup Keys \cup Kids \cup Instruments \cup Values \cup Strings

\* A missing presentation is none that can be presented.
ASSUME AbsentIsNoPresentation ==
    Absent \notin Presentation(L1Jwt) \cup Presentation(L2Jwt)

ASSUME TimesAreNumbers == Skew \in Nat /\ MaxLifetime \in Nat

------------------------------------------------------------------------------
(* Time claims, read against one instant t. *)

Expired(exp, t) == exp # Absent /\ (exp = Malformed \/ t > exp + Skew)

FutureDated(iat, t) == iat # Absent /\ (iat = Malformed \/ iat > t + Skew)

Live(jwt, t) == ~FutureDated(jwt.iat, t) /\ ~Expired(jwt.exp, t)

LongLived(jwt) ==
    /\ jwt.iat \notin {Absent, Malformed}
    /\ jwt.exp \notin {Absent, Malformed}
    /\ jwt.exp - jwt.iat > MaxLifetime

------------------------------------------------------------------------------
(* What a presentation of L2 shows. *)

MandateAt(l2, k) == MandateOf[l2.jwt.delegates[k].disc]

Ref(l2, k) ==
    IF l2.jwt.delegates[k].inline THEN Absent ELSE l2.jwt.delegates[k].disc

\* resolve_disclosures leaves a reference whose disclosure is not shown as it is.
Resolved(l2, k) ==
    l2.jwt.delegates[k].inline \/ l2.jwt.delegates[k].disc \in Range(l2.discs)

\* The positions of delegate_payload that resolve to a mandate of this kind.
Disclosed(l2, kind) ==
    {k \in DOMAIN l2.jwt.delegates : Resolved(l2, k) /\ MandateAt(l2, k).kind = kind}

\* The first argument given, in the order the code falls back.
FirstOf(list) == list[CHOOSE n \in DOMAIN list :
                        /\ list[n] # Absent \/ n = Len(list)
                        /\ \A m \in 1..(n - 1) : list[m] = Absent]
==============================================================================
