------------------------------ MODULE MCPairing ------------------------------
(***************************************************************************)
(* ChainVerifier on many shapes of Layer 2: every delegate_payload of up   *)
(* to MaxMixed entries over catalogues of open and of final mandates, and  *)
(* of up to MaxDelegates over two whole pairs; each is shown whole,        *)
(* without its first entry, or with its first entry inline.  Layer 1 is in *)
(* order and the clock stands still.                                       *)
(***************************************************************************)
EXTENDS ChainRefinement

CONSTANTS MaxDelegates, MaxMixed

Open(kind, link, key, kid) ==
    [kind |-> kind, open |-> TRUE, complete |-> TRUE, link |-> link, content |-> Absent,
     key |-> key, kid |-> kid, instrument |-> IF kind = "payment" THEN "visa" ELSE Absent]

Final(kind, link, content) ==
    [kind |-> kind, open |-> FALSE, complete |-> TRUE, link |-> link, content |-> content,
     key |-> Absent, kid |-> Absent,
     instrument |-> IF kind = "payment" THEN "visa" ELSE Absent]

\* c: open checkouts, p: open payments (of what they refer to); f, g: final ones.
Catalogue ==
    [c1 |-> Open("checkout", Absent, "agent", "k1"),
     c2 |-> Open("checkout", Absent, "agent", Absent),
     p1 |-> Open("payment", "c1", "agent", "k1"),
     p1b |-> Open("payment", "c1", "agent", Absent),
     p2 |-> Open("payment", "c2", "agent", "k1"),
     pe |-> Open("payment", "c1", "eve", "k1"),
     p0 |-> Open("payment", Absent, "agent", "k1"),
     f1 |-> Final("checkout", "cart1", "cart1"),
     f1b |-> Final("checkout", "cart1", "cart2"),
     f2 |-> Final("checkout", "cart2", "cart2"),
     g1 |-> Final("payment", "cart1", Absent),
     g2 |-> Final("payment", "cart2", Absent),
     gc |-> [Final("payment", "cart1", Absent) EXCEPT !.key = "agent"],
     x |-> [Final("other", Absent, Absent) EXCEPT !.complete = FALSE]]

OpenNames == {"c1", "c2", "p1", "p1b", "p2", "pe", "p0", "x"}
FinalNames == {"f1", "f1b", "f2", "g1", "g2", "gc"}

MCDisc == DOMAIN Catalogue

L1 == [jwt |-> [signer |-> "issuer", formed |-> TRUE, iat |-> 0, exp |-> 9,
                key |-> "user", card |-> Absent],
       discs |-> <<>>]

\* Short lists over the whole catalogues, and longer ones over two whole pairs.
ListsOver(names, n) == UNION {[1..len -> names] : len \in 1..n}

Listings == ListsOver(OpenNames, MaxMixed) \cup ListsOver(FinalNames, MaxMixed)
            \cup ListsOver({"c1", "p1", "c2", "p2"}, MaxDelegates)
            \cup ListsOver({"f1", "g1", "f2", "g2"}, MaxDelegates)
            \cup {<<"c1", "p1", "g1">>, <<"f1", "g1", "p1">>}

L2(names, inline, shown) ==
    [jwt |-> [signer |-> "user", formed |-> TRUE, iat |-> 0, exp |-> 9,
              aud |-> Absent, nonce |-> Absent,
              typ |-> IF names[Len(names)] \in OpenNames THEN "kb-sd-jwt+kb" ELSE "kb-sd-jwt",
              sd_hash |-> L1,
              delegates |-> [n \in DOMAIN names |->
                               [disc |-> names[n], inline |-> inline /\ n = 1]]],
     discs |-> shown]

L2s == UNION {{L2(names, FALSE, names), L2(names, TRUE, names), L2(names, FALSE, Tail(names))} :
              names \in Listings}

Anything == [aud |-> Absent, nonce |-> Absent]

MCCalls ==
    {[form |-> "single", l1 |-> L1, l2 |-> p, l3s |-> <<>>, l1_serialized |-> Absent,
      l2_serialized |-> Absent, serialized |-> [kind \in Kinds |-> Absent],
      issuer_key |-> "issuer", skip_issuer |-> FALSE,
      expected_l2 |-> Anything, expected_l3 |-> [kind \in Kinds |-> Anything]] : p \in L2s}
==============================================================================
