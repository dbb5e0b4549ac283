------------------------------ MODULE ChainSpec ------------------------------
(***************************************************************************)
(* What verify_chain promises, without its stages and loops: it answers    *)
(* every call once, and the answer says whether the credentials, taken     *)
(* together, authorise what they show at the instant of the call.  The     *)
(* rules are those of spec/credential-format.md, sections 3.6, 4.7, 5.7    *)
(* and 8.2, as far as the code enforces them.                              *)
(***************************************************************************)
EXTENDS Credentials, FiniteSets

CONSTANTS Calls, MaxClock

VARIABLES clock, call, asked, verdict

------------------------------------------------------------------------------
Shown(p) == Disclosed(p, "checkout") \cup Disclosed(p, "payment")

Given(c) == {arg \in (DOMAIN c.l3s) \X Kinds : c.l3s[arg[1]].l3[arg[2]] # Absent}

Issued(c, t) ==
    /\ c.l1.jwt.formed /\ Live(c.l1.jwt, t)
    /\ c.issuer_key # Absent => c.l1.jwt.signer = c.issuer_key
    /\ c.issuer_key = Absent => c.skip_issuer

HeardAs(expected, jwt) ==
    /\ expected.aud \in {Absent, jwt.aud}
    /\ expected.nonce \in {Absent, jwt.nonce}

Signed(c, t) ==
    /\ c.l2.jwt.formed /\ Live(c.l2.jwt, t)
    /\ c.l2.jwt.signer # Absent /\ c.l2.jwt.signer = c.l1.jwt.key
    /\ c.l2.jwt.sd_hash = IF c.l1_serialized = Absent THEN c.l1 ELSE c.l1_serialized
    /\ HeardAs(c.expected_l2, c.l2.jwt)
    /\ \A j, k \in DOMAIN c.l2.jwt.delegates : Ref(c.l2, j) = Ref(c.l2, k) => j = k \/ Ref(c.l2, j) = Absent

\* A checkout and a payment that name each other.
Linked(p, checkout, payment) ==
    /\ MandateAt(p, payment).link # Absent
    /\ MandateAt(p, payment).link = IF MandateAt(p, payment).open THEN Ref(p, checkout)
                                    ELSE MandateAt(p, checkout).link

\* A perfect matching, and the only one.
Matching(p) ==
    LET checkouts == Disclosed(p, "checkout")
        payments == Disclosed(p, "payment")
    IN  /\ \A k \in checkouts : Cardinality({m \in payments : Linked(p, k, m)}) = 1
        /\ \A m \in payments : Cardinality({k \in checkouts : Linked(p, k, m)}) = 1

CardNamed(c) ==
    c.l1.jwt.card # Absent =>
        /\ Disclosed(c.l2, "payment") # {}
        /\ \A k \in Disclosed(c.l2, "payment") :
             MandateAt(c.l2, k).instrument = c.l1.jwt.card

Usable(c) ==
    /\ Shown(c.l2) # {}
    /\ \A k \in Shown(c.l2) : MandateAt(c.l2, k).complete
    /\ \A k \in Disclosed(c.l2, "payment") : MandateAt(c.l2, k).instrument # Absent
    /\ CardNamed(c)

\* Immediate mode: the user confirmed final values; nothing is delegated.
FinalAuthorized(c) ==
    /\ c.l2.jwt.typ = "kb-sd-jwt"
    /\ Matching(c.l2)
    /\ \A k \in Shown(c.l2) : ~MandateAt(c.l2, k).open /\ MandateAt(c.l2, k).key = Absent
    /\ \A k \in Disclosed(c.l2, "checkout") : MandateAt(c.l2, k).content = MandateAt(c.l2, k).link
    /\ Given(c) = {}

------------------------------------------------------------------------------
\* The order of the pairs is that of the payments or, when L2 shows none, of
\* the checkouts.
Order(p) == IF Disclosed(p, "payment") # {} THEN Disclosed(p, "payment") ELSE Disclosed(p, "checkout")

Nth(S, n) == CHOOSE k \in S : Cardinality({j \in S : j <= k}) = n

\* The mandates of this kind in the n-th pair: one, or none when not shown.
OfPair(p, n, kind) ==
    LET lead == Nth(Order(p), n)
    IN  {k \in Disclosed(p, kind) :
           k = lead \/ (kind = "checkout" /\ lead \in Disclosed(p, "payment") /\ Linked(p, k, lead))}

Fulfils(c, t, n, kind, key, kid) ==
    LET l3 == c.l3s[n].l3[kind]
        views == <<c.l3s[n].serialized[kind], c.serialized[kind], c.l2_serialized, c.l2>>
        first == CHOOSE m \in 1..4 : views[m] # Absent /\ \A j \in 1..(m - 1) : views[j] = Absent
        shown == Range(views[first].discs)
    IN  /\ l3.signer = key /\ l3.formed /\ ~l3.cnf
        /\ l3.kid # Absent /\ kid \in {Absent, l3.kid}
        /\ Live(l3, t) /\ ~LongLived(l3)
        /\ HeardAs(c.expected_l3[kind], l3)
        /\ l3.sd_hash = views[first]
        /\ \A k \in OfPair(c.l2, n, kind) : Ref(c.l2, k) \in shown \cup {Absent}
        /\ {m \in Range(l3.mandates) : m.kind = kind} # {}
        /\ \A m \in Range(l3.mandates) : m.kind \in Kinds => m.complete
        /\ \A m \in Range(l3.mandates) : \A k \in OfPair(c.l2, n, "payment") :
             m.kind = "payment" => m.instrument = MandateAt(c.l2, k).instrument

\* transaction_id of L3a and checkout_hash of L3b.
Leads(l3, kind) ==
    {l3.mandates[n].link : n \in {m \in DOMAIN l3.mandates :
        /\ l3.mandates[m].kind = kind
        /\ ~\E j \in 1..(m - 1) : l3.mandates[j].kind = kind}}

\* Autonomous mode: one agent key for everything shown, and each Layer 3
\* credential fulfils the pair it is handed over for.
OpenAuthorized(c, t) ==
    /\ c.l2.jwt.typ = "kb-sd-jwt+kb"
    /\ \A k \in Shown(c.l2) : MandateAt(c.l2, k).open
    /\ (\A kind \in Kinds : Disclosed(c.l2, kind) # {}) => Matching(c.l2)
    /\ Len(c.l3s) \in {0, Cardinality(Order(c.l2))}
    /\ \E key \in Keys, kid \in OrAbsent(Kids) :
         /\ \A k \in Shown(c.l2) : /\ MandateAt(c.l2, k).key = key
                                   /\ MandateAt(c.l2, k).kid \in {Absent, kid}
         /\ kid # Absent => \E k \in Shown(c.l2) : MandateAt(c.l2, k).kid = kid
         /\ \A arg \in Given(c) : Fulfils(c, t, arg[1], arg[2], key, kid)
    /\ \A n \in DOMAIN c.l3s :
         {n} \X Kinds \subseteq Given(c) =>
            Leads(c.l3s[n].l3["payment"], "payment") = Leads(c.l3s[n].l3["checkout"], "checkout")

Authorized(c, t) ==
    /\ c.form # "both"
    /\ Issued(c, t) /\ Signed(c, t) /\ Usable(c)
    /\ FinalAuthorized(c) \/ OpenAuthorized(c, t)

Decision(c, t) == IF Authorized(c, t) THEN "accepted" ELSE "rejected"

------------------------------------------------------------------------------
vars == <<clock, call, asked, verdict>>

Init == clock = 0 /\ call = Absent /\ asked = 0 /\ verdict = "none"

Tick == clock < MaxClock /\ clock' = clock + 1 /\ UNCHANGED <<call, asked, verdict>>

\* A call is answered at once or later, always as of the instant it was made.
Ask ==
    /\ verdict = "none"
    /\ call' \in Calls
    /\ asked' = clock
    /\ verdict' \in {"pending", Decision(call', clock)}
    /\ UNCHANGED clock

Answer ==
    /\ verdict = "pending"
    /\ verdict' = Decision(call, asked)
    /\ UNCHANGED <<clock, call, asked>>

Take ==
    /\ verdict \in {"accepted", "rejected"}
    /\ call' = Absent /\ asked' = 0 /\ verdict' = "none"
    /\ UNCHANGED clock

Next == Ask \/ Answer \/ Take \/ Tick

\* What is answered, and that an answer comes at all.
Safety == Init /\ [][Next]_vars

Spec == Safety /\ WF_vars(Answer)
==============================================================================
