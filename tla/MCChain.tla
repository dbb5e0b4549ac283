------------------------------- MODULE MCChain -------------------------------
(***************************************************************************)
(* ChainVerifier on whole chains that are in order but for a few claims.   *)
(* A chain is built from Layer 1 down, each layer bound to what was built  *)
(* above it, with an edit applied to some credentials before they are      *)
(* signed, and then presented in the ways the library supports: to one     *)
(* verifier that sees everything, to the payment network, to the merchant, *)
(* and as two pairs through split_l3s, in order or exchanged.              *)
(***************************************************************************)
EXTENDS ChainRefinement, TLC

Open(kind, link) ==
    [kind |-> kind, open |-> TRUE, complete |-> TRUE, link |-> link, content |-> Absent,
     key |-> "agent", kid |-> "k1",
     instrument |-> IF kind = "payment" THEN "visa" ELSE Absent]

Final(kind, link) ==
    [kind |-> kind, open |-> FALSE, complete |-> TRUE, link |-> link,
     content |-> IF kind = "checkout" THEN link ELSE Absent, key |-> Absent, kid |-> Absent,
     instrument |-> IF kind = "payment" THEN "visa" ELSE Absent]

Catalogue ==
    [c1 |-> Open("checkout", Absent), c2 |-> Open("checkout", Absent),
     p1 |-> Open("payment", "c1"), p2 |-> Open("payment", "c2"),
     cx |-> [Open("checkout", Absent) EXCEPT !.key = "eve"],
     px |-> Open("payment", "cx"),
     pk |-> [Open("payment", "c1") EXCEPT !.kid = "k2"],
     pn |-> [Open("payment", "c1") EXCEPT !.kid = Absent],
     pm |-> [Open("payment", "c1") EXCEPT !.instrument = "amex"],
     pi |-> [Open("payment", "c1") EXCEPT !.instrument = Absent],
     f1 |-> Final("checkout", "cart1"), g1 |-> Final("payment", "cart1")]

MCDisc == DOMAIN Catalogue

None == <<>>

Anything == [aud |-> Absent, nonce |-> Absent]

\* Edits: a few claims that replace those of a credential in order.
TimeEdits == {"iat" :> 2, "iat" :> Malformed, "iat" :> Absent,
              "exp" :> 0, "exp" :> 4, "exp" :> Malformed, "exp" :> Absent}

L1Edits == TimeEdits \cup {"signer" :> "eve", "formed" :> FALSE, "key" :> Absent,
                           "card" :> Absent, "card" :> "amex"}

L2Edits == TimeEdits \cup {"signer" :> "eve", "formed" :> FALSE, "sd_hash" :> Absent,
                           "aud" :> "shop", "typ" :> "kb-sd-jwt"}

L3Edits == TimeEdits \cup {"signer" :> "eve", "formed" :> FALSE, "sd_hash" :> Absent,
                           "kid" :> Absent, "kid" :> "k2", "cnf" :> TRUE, "nonce" :> "old",
                           "mandates" :> <<>>,
                           "mandates" :> <<Final("checkout", "cart2"), Final("payment", "cart2")>>,
                           "mandates" :> <<[Final("payment", "cart1") EXCEPT !.instrument = "amex"]>>}

L1(edit) ==
    [jwt |-> edit @@ [signer |-> "issuer", formed |-> TRUE, iat |-> 1, exp |-> 3,
                      key |-> "user", card |-> "visa"],
     discs |-> <<>>]

L2(l1, names, edit) ==
    edit @@ [signer |-> "user", formed |-> TRUE, iat |-> 1, exp |-> 3,
             aud |-> Absent, nonce |-> Absent,
             typ |-> IF Catalogue[names[1]].open THEN "kb-sd-jwt+kb" ELSE "kb-sd-jwt",
             sd_hash |-> l1,
             delegates |-> [n \in DOMAIN names |-> [disc |-> names[n], inline |-> FALSE]]]

Show(jwt, names) == [jwt |-> jwt, discs |-> names]

L3(view, kind, cart, edit) ==
    edit @@ [signer |-> "agent", formed |-> TRUE, iat |-> 1, exp |-> 3,
             aud |-> Absent, nonce |-> "n", kid |-> "k1", cnf |-> FALSE,
             sd_hash |-> view, mandates |-> <<Final(kind, cart)>>]

\* A payment and a checkout side: of presentations, or of Layer 3 credentials.
Sides(payment, checkout) ==
    [kind \in Kinds |-> IF kind = "payment" THEN payment ELSE checkout]

Args(l1, held, given, serialized) ==
    [form |-> "single", l1 |-> l1, l2 |-> held, l3s |-> given, l1_serialized |-> Absent,
     l2_serialized |-> Absent, serialized |-> serialized,
     issuer_key |-> "issuer", skip_issuer |-> FALSE, expected_l2 |-> Anything,
     expected_l3 |-> [kind \in Kinds |-> [aud |-> Absent, nonce |-> "n"]]]

Split(l3, serialized) == [l3 |-> l3, serialized |-> serialized]

NoSides == Sides(Absent, Absent)

\* One pair c, p and both Layer 3 credentials, each bound to its own view.
Full(c, p, e1, e2, ea, eb) ==
    LET l1 == L1(e1)
        jwt == L2(l1, <<c, p>>, e2)
        views == Sides(Show(jwt, <<p>>), Show(jwt, <<c>>))
    IN  Args(l1, Show(jwt, <<c, p>>),
             <<Split(Sides(L3(views["payment"], "payment", "cart1", ea),
                           L3(views["checkout"], "checkout", "cart1", eb)), NoSides)>>,
             views)

\* What the network or the merchant is handed: one side of L2, one Layer 3.
OneSide(kind, e1, e2, e3) ==
    LET l1 == L1(e1)
        jwt == L2(l1, <<"c1", "p1">>, e2)
        view == Show(jwt, IF kind = "payment" THEN <<"p1">> ELSE <<"c1">>)
        l3 == [k \in Kinds |-> IF k = kind THEN L3(view, kind, "cart1", e3) ELSE Absent]
    IN  Args(l1, view, <<Split(l3, NoSides)>>, NoSides)

\* Two pairs through split_l3s; "order" says which pair each element is for,
\* "shown" what of L2 the verifier holds.
TwoPairs(order, shown, given) ==
    LET l1 == L1("card" :> Absent)
        jwt == L2(l1, <<"c1", "p1", "c2", "p2">>, None)
        Views(n) == Sides(Show(jwt, <<<<"p1", "p2">>[n]>>), Show(jwt, <<<<"c1", "c2">>[n]>>))
        Creds(n) == [kind \in Kinds |-> IF kind \notin given THEN Absent ELSE
                                  L3(Views(n)[kind], kind, <<"cart1", "cart2">>[n], None)]
    IN  [Args(l1, Show(jwt, shown),
              [n \in DOMAIN order |-> Split(Creds(order[n]), Views(order[n]))], NoSides)
         EXCEPT !.form = "split"]

AllFour == <<"c1", "p1", "c2", "p2">>

Good == Full("c1", "p1", None, None, None, None)

Immediate(given) ==
    LET l1 == L1(None)
    IN  Args(l1, Show(L2(l1, <<"f1", "g1">>, None), <<"f1", "g1">>), given, NoSides)

MCCalls ==
    {Good, Immediate(<<>>), Immediate(Good.l3s)}
    \cup {[Good EXCEPT !.form = "both"], [Good EXCEPT !.l3s = <<>>],
          [Good EXCEPT !.issuer_key = Absent], [Good EXCEPT !.issuer_key = Absent, !.skip_issuer = TRUE],
          [Full("c1", "p1", "signer" :> "eve", None, None, None) EXCEPT !.skip_issuer = TRUE],
          [Good EXCEPT !.serialized = NoSides],
          [Good EXCEPT !.l1_serialized = L1("exp" :> 9)],
          [Good EXCEPT !.expected_l2.aud = "shop"]}
    \cup {Full("c1", "p1", e1, e2, None, None) : e1 \in L1Edits, e2 \in L2Edits}
    \cup {Full("c1", "p1", None, None, ea, eb) : ea \in L3Edits, eb \in L3Edits}
    \cup {Full("c1", "p1", None, None, ea, None) : ea \in L3Edits}
    \cup {Full(pair[1], pair[2], e1, None, None, None) :
             pair \in {<<"cx", "px">>, <<"c1", "pk">>, <<"c1", "pn">>, <<"c1", "pm">>,
                       <<"c1", "pi">>, <<"c2", "p1">>},
             e1 \in {None, "card" :> Absent}}
    \cup {OneSide(kind, e1, None, e3) :
             kind \in Kinds, e1 \in {None, "card" :> Absent}, e3 \in L3Edits \cup {None}}
    \cup {TwoPairs(order, shown, given) :
             order \in {<<1, 2>>, <<2, 1>>, <<1>>, <<1, 1>>},
             shown \in {AllFour, <<"c2", "p2", "c1", "p1">>, <<"c1", "p1">>,
                        <<"c1", "c2">>, <<"p1", "p2">>, <<"c1", "p1", "p2">>},
             given \in {Kinds, {"payment"}, {"checkout"}}}
==============================================================================
