--------------------------- MODULE DelegationProofs ---------------------------
(***************************************************************************)
(* Theorems about Delegation, for any intents, agents, shops, catalogue    *)
(* and lifetimes: whatever is handed to the verifiers, what they accept is *)
(* what the user intended.                                                 *)
(***************************************************************************)
EXTENDS Delegation, FiniteSetTheorems, SequenceTheorems, TLAPS

------------------------------------------------------------------------------
(* Types. *)

LEMMA TypeInit == Init => TypeOK
BY BoundsAreNumbers DEF Init, TypeOK

LEMMA IntentsHaveParts ==
    ASSUME NEW i \in Intents, i.open
    PROVE  /\ i \in OpenIntent
           /\ i.pairs \in Seq(Limits) /\ i.shops \in Seq(Shops) /\ i.items \in Seq(Products)
<1>1. i \notin FinalIntent
  BY DEF FinalIntent
<1> QED
  BY <1>1, IntentsAreIntents DEF OpenIntent

LEMMA TypeAuthorise == ASSUME TypeOK, Authorise PROVE TypeOK'
<1>1. PICK i \in Intents : signed' = signed \cup {[intent |-> i, at |-> clock]}
  BY DEF Authorise
<1>2. [intent |-> i, at |-> clock] \in Layer2s
  BY DEF Layer2s, TypeOK
<1>3. UNCHANGED <<clock, made, paid, sold>>
  BY DEF Authorise
<1>4. signed' \subseteq Layer2s /\ \A s \in signed' : s.at <= clock'
  BY <1>1, <1>2, <1>3, BoundsAreNumbers DEF TypeOK
<1>5. /\ paid' \subseteq [by: Networks, l2: signed', purchase: OrAbsent(made')]
      /\ sold' \subseteq [l2: signed', purchase: made']
  BY <1>1, <1>3 DEF TypeOK
<1> QED
  BY <1>1, <1>3, <1>4, <1>5 DEF TypeOK

LEMMA TypeFulfil == ASSUME TypeOK, Fulfil PROVE TypeOK'
<1> DEFINE Bought(s, agent, side, cart, payee, pair, shop, item) ==
             [agent |-> agent, l2 |-> s, side |-> side, pair |-> pair,
              shop |-> shop, item |-> item, cart |-> cart, payee |-> payee, at |-> clock]
<1>0. PICK s \in {x \in signed : x.intent.open}, agent \in Agents, side \in Kinds,
           cart \in Products, payee \in Shops :
         \E pair \in DOMAIN s.intent.pairs, shop \in DOMAIN s.intent.shops,
            item \in DOMAIN s.intent.items :
           made' = made \cup {Bought(s, agent, side, cart, payee, pair, shop, item)}
  BY DEF Fulfil
<1>1. PICK pair \in DOMAIN s.intent.pairs, shop \in DOMAIN s.intent.shops,
           item \in DOMAIN s.intent.items :
        made' = made \cup {Bought(s, agent, side, cart, payee, pair, shop, item)}
  BY <1>0
<1> DEFINE b == [agent |-> agent, l2 |-> s, side |-> side, pair |-> pair,
                 shop |-> shop, item |-> item, cart |-> cart, payee |-> payee, at |-> clock]
<1>2. s \in Layer2s /\ s.intent \in Intents /\ s.at <= clock /\ clock \in 0..MaxClock
  BY DEF TypeOK, Layer2s
<1>3. pair \in Nat /\ shop \in Nat /\ item \in Nat
  <2>1. /\ s.intent.pairs \in Seq(Limits) /\ s.intent.shops \in Seq(Shops)
        /\ s.intent.items \in Seq(Products)
    BY <1>2, IntentsHaveParts
  <2> QED
    BY <2>1
<1>4. b \in Purchase
  BY <1>2, <1>3 DEF Purchase
<1>5. UNCHANGED <<clock, signed, paid, sold>>
  BY DEF Fulfil
<1>6. made' = made \cup {b}
  BY <1>1
<1>7. \A x \in made' : /\ x.l2 \in signed' /\ x.l2.at <= x.at /\ x.at <= clock'
                       /\ x.pair \in DOMAIN x.l2.intent.pairs
                       /\ x.shop \in DOMAIN x.l2.intent.shops
                       /\ x.item \in DOMAIN x.l2.intent.items
  <2> SUFFICES ASSUME NEW x \in made'
               PROVE  /\ x.l2 \in signed /\ x.l2.at <= x.at /\ x.at <= clock
                      /\ x.pair \in DOMAIN x.l2.intent.pairs
                      /\ x.shop \in DOMAIN x.l2.intent.shops
                      /\ x.item \in DOMAIN x.l2.intent.items
    BY <1>5
  <2>1. CASE x \in made
    BY <2>1 DEF TypeOK
  <2>2. CASE x = b
    BY <1>2, <2>2
  <2> QED
    BY <1>6, <2>1, <2>2
<1> HIDE DEF b
<1> QED
  BY <1>4, <1>5, <1>6, <1>7 DEF TypeOK, OrAbsent

LEMMA TypePay ==
    ASSUME TypeOK, NEW by \in Networks, NEW s \in signed, NEW b \in OrAbsent(made), Pay(by, s, b)
    PROVE  TypeOK'
BY DEF Pay, TypeOK

LEMMA TypeSell == ASSUME TypeOK, NEW b \in made, VerifyCheckout(b) PROVE TypeOK'
BY DEF VerifyCheckout, TypeOK

LEMMA TypeTick == ASSUME TypeOK, Tick PROVE TypeOK'
<1>1. /\ clock \in 0..MaxClock /\ MaxClock \in Nat /\ clock < MaxClock /\ clock' = clock + 1
      /\ UNCHANGED <<signed, made, paid, sold>>
  BY BoundsAreNumbers DEF Tick, TypeOK
<1>2. clock' \in 0..MaxClock
  BY <1>1
<1>3. \A s \in signed' : s.at <= clock'
  BY <1>1 DEF TypeOK, Layer2s
<1>4. \A b \in made' : b.at <= clock'
  BY <1>1 DEF TypeOK, Purchase
<1> QED
  BY <1>1, <1>2, <1>3, <1>4 DEF TypeOK

\* Steps in which a network accepts a payment.
Accepts(by, s, b) ==
    /\ by = "validate_intent" => \E p \in Presentations(s) : ValidIntent(s, p, b)
    /\ by # "validate_intent" =>
         /\ s.intent.open /\ b # Absent
         /\ ValidStaged(s, b, IF by = "network_validation" THEN "strict" ELSE "permissive")

LEMMA NextSplit ==
    ASSUME TypeOK, [Next]_vars
    PROVE  \/ Tick \/ Authorise \/ Fulfil \/ UNCHANGED vars
           \/ \E by \in Networks, s \in signed, b \in OrAbsent(made) : Accepts(by, s, b) /\ Pay(by, s, b)
           \/ \E b \in made : VerifyCheckout(b)
<1>1. ASSUME NEW b \in OrAbsent(made), ValidateIntent(b)
      PROVE  \E s \in signed : Accepts("validate_intent", s, b) /\ Pay("validate_intent", s, b)
  BY <1>1 DEF ValidateIntent, Accepts
<1>2. ASSUME NEW b \in made, NetworkValidation(b)
      PROVE  \E s \in signed : Accepts("network_validation", s, b) /\ Pay("network_validation", s, b)
  BY <1>2, AbsentIsNothing DEF NetworkValidation, ValidateStaged, Accepts, TypeOK
<1>3. ASSUME NEW b \in made, AutonomousFlow(b)
      PROVE  \E s \in signed : Accepts("autonomous_flow", s, b) /\ Pay("autonomous_flow", s, b)
  BY <1>3, AbsentIsNothing DEF AutonomousFlow, ValidateStaged, Accepts, TypeOK
<1> QED
  BY <1>1, <1>2, <1>3 DEF Next, OrAbsent, Networks

LEMMA TypeStep == TypeOK /\ [Next]_vars => TypeOK'
<1> SUFFICES ASSUME TypeOK, [Next]_vars PROVE TypeOK'
  OBVIOUS
<1>1. CASE UNCHANGED vars
  BY <1>1 DEF vars, TypeOK
<1> QED
  BY <1>1, NextSplit, TypeTick, TypeAuthorise, TypeFulfil, TypePay, TypeSell

\* Whatever is signed, made and accepted: an agent's purchase rests on a Layer 2
\* signed before it, on disclosures that Layer 2 has, and no verifier accepts a
\* purchase nobody made.
THEOREM TypeCorrect == Spec => []TypeOK
BY TypeInit, TypeStep, PTL DEF Spec
------------------------------------------------------------------------------
(* What a presentation of Layer 2 shows. *)

\* The instance has a Cardinality and a Range of its own.
LEMMA SameCardinality == ASSUME NEW S PROVE Chain!Cardinality(S) = Cardinality(S)
BY DEF Chain!Cardinality, Cardinality

LEMMA MandatesOf ==
    ASSUME NEW s \in Layer2s
    PROVE  /\ PairCount(s.intent) \in Nat
           /\ DOMAIN Mandates(s) = 1..(2 * PairCount(s.intent))
           /\ \A n \in DOMAIN Mandates(s) :
                /\ Mandates(s)[n] \in AllDiscs
                /\ Mandates(s)[n].of = s /\ Mandates(s)[n].kind \in Kinds
<1>1. PairCount(s.intent) \in Nat
  BY IntentsHaveParts DEF PairCount, Layer2s
<1>2. DOMAIN Mandates(s) = 1..(2 * PairCount(s.intent))
  BY DEF Mandates
<1>3. ASSUME NEW n \in DOMAIN Mandates(s)
      PROVE  /\ Mandates(s)[n] \in AllDiscs
             /\ Mandates(s)[n].of = s /\ Mandates(s)[n].kind \in Kinds
  <2>1. n \in Nat /\ (n + 1) \div 2 \in Nat
    BY <1>1, <1>2
  <2>2. Mandates(s)[n] = [of |-> s, kind |-> IF n % 2 = 1 THEN "checkout" ELSE "payment",
                          n |-> (n + 1) \div 2]
    BY <1>2 DEF Mandates, Disclosure
  <2> QED
    BY <2>1, <2>2 DEF AllDiscs, Kinds
<1> QED
  BY <1>1, <1>2, <1>3

\* verify_chain sees the mandates whose disclosures are shown.
LEMMA SeenInView ==
    ASSUME NEW s \in Layer2s, NEW discs
    PROVE  /\ DOMAIN Show(s, discs).jwt.delegates = DOMAIN Mandates(s)
           /\ \A n \in DOMAIN Mandates(s) :
                /\ Chain!Ref(Show(s, discs), n) = Mandates(s)[n]
                /\ Chain!MandateAt(Show(s, discs), n) = Content(Mandates(s)[n])
           /\ \A kind \in Kinds : Chain!Disclosed(Show(s, discs), kind)
                = {n \in DOMAIN Mandates(s) : Mandates(s)[n] \in Range(discs) /\ Mandates(s)[n].kind = kind}
<1> DEFINE p == Show(s, discs)
<1>1. /\ p.jwt.delegates = [n \in DOMAIN Mandates(s) |-> [disc |-> Mandates(s)[n], inline |-> FALSE]]
      /\ p.discs = discs
  BY DEF Show
<1>2. DOMAIN p.jwt.delegates = DOMAIN Mandates(s)
  BY <1>1
<1> HIDE DEF p
<1>3. ASSUME NEW n \in DOMAIN Mandates(s)
      PROVE  /\ Chain!Ref(p, n) = Mandates(s)[n]
             /\ Chain!MandateAt(p, n) = Content(Mandates(s)[n])
             /\ Chain!Resolved(p, n) <=> Mandates(s)[n] \in Range(discs)
             /\ Content(Mandates(s)[n]).kind = Mandates(s)[n].kind
  <2>1. p.jwt.delegates[n].disc = Mandates(s)[n] /\ p.jwt.delegates[n].inline = FALSE
    BY <1>1
  <2>2. Mandates(s)[n] \in AllDiscs /\ Mandates(s)[n].kind \in Kinds
    BY MandatesOf
  <2>3. Content(Mandates(s)[n]).kind = Mandates(s)[n].kind
    BY <2>2 DEF Content, Final
  <2> QED
    BY <1>1, <2>1, <2>2, <2>3 DEF Chain!Ref, Chain!MandateAt, Chain!Resolved, Chain!Range, Range
<1>4. ASSUME NEW kind \in Kinds
      PROVE  Chain!Disclosed(p, kind)
              = {n \in DOMAIN Mandates(s) : Mandates(s)[n] \in Range(discs) /\ Mandates(s)[n].kind = kind}
  BY <1>2, <1>3 DEF Chain!Disclosed
<1> QED
  BY <1>2, <1>3, <1>4 DEF p
------------------------------------------------------------------------------
(* What verify_chain's answer means for these credentials. *)

LEMMA LiveUntil ==
    ASSUME TypeOK, NEW jwt, jwt.exp \in Int, Chain!Live(jwt, clock)
    PROVE  clock <= jwt.exp + Skew
BY AbsentIsNothing, BoundsAreNumbers DEF Chain!Live, Chain!Expired, TypeOK

LEMMA AuthorisedMeans ==
    ASSUME TypeOK, NEW s \in Layer2s, NEW discs, NEW l3s, NEW whole, NEW serialized,
           Chain!Authorized(Ask(Show(s, discs), l3s, whole, serialized), clock)
    PROVE  /\ clock <= CardLife + Skew /\ clock <= s.at + MandateLife + Skew
           /\ Chain!Shown(Show(s, discs)) # {}
           /\ s.intent.open => Chain!OpenAuthorized(Ask(Show(s, discs), l3s, whole, serialized), clock)
           /\ ~s.intent.open => Chain!FinalAuthorized(Ask(Show(s, discs), l3s, whole, serialized))
<1> DEFINE c == Ask(Show(s, discs), l3s, whole, serialized)
<1>1. c.l1 = Layer1 /\ c.l2 = Show(s, discs)
  BY DEF Ask
<1>2. /\ Layer1.jwt.exp = CardLife /\ Show(s, discs).jwt.exp = s.at + MandateLife
      /\ Show(s, discs).jwt.typ = IF s.intent.open THEN "kb-sd-jwt+kb" ELSE "kb-sd-jwt"
  BY DEF Layer1, Show
<1> HIDE DEF c
<1>3. Chain!Issued(c, clock) /\ Chain!Signed(c, clock) /\ Chain!Usable(c)
  BY DEF Chain!Authorized, c
<1>4. Chain!Live(Layer1.jwt, clock) /\ Chain!Live(Show(s, discs).jwt, clock)
  BY <1>1, <1>3 DEF Chain!Issued, Chain!Signed
<1>5. CardLife \in Int /\ s.at + MandateLife \in Int
  BY BoundsAreNumbers DEF Layer2s
<1>6. Chain!Shown(Show(s, discs)) # {}
  BY <1>1, <1>3 DEF Chain!Usable
<1>7. Chain!FinalAuthorized(c) \/ Chain!OpenAuthorized(c, clock)
  BY DEF Chain!Authorized, c
<1>8. /\ s.intent.open => ~Chain!FinalAuthorized(c)
      /\ ~s.intent.open => ~Chain!OpenAuthorized(c, clock)
  BY <1>1, <1>2 DEF Chain!FinalAuthorized, Chain!OpenAuthorized
<1>9. clock <= CardLife + Skew /\ clock <= s.at + MandateLife + Skew
  BY <1>2, <1>4, <1>5, LiveUntil
<1> QED
  BY <1>6, <1>7, <1>8, <1>9 DEF c

\* A final Layer 2 is accepted with no Layer 3 only.
LEMMA FinalStandsAlone ==
    ASSUME TypeOK, NEW s \in Layer2s, NEW discs, NEW kind \in Kinds, NEW l3 \in Fulfilments,
           NEW whole, NEW serialized,
           Chain!Authorized(Ask(Show(s, discs), Only(kind, l3), whole, serialized), clock)
    PROVE  s.intent.open
<1> DEFINE c == Ask(Show(s, discs), Only(kind, l3), whole, serialized)
<1>1. c.l3s = Only(kind, l3)
  BY DEF Ask
<1>2. DOMAIN c.l3s = {1} /\ c.l3s[1].l3[kind] = l3
  BY <1>1 DEF Only, OneSide, NoSides
<1>3. l3 # Absent
  BY AbsentIsNothing
<1>4. <<1, kind>> \in Chain!Given(c)
  <2> HIDE DEF c
  <2> QED
    BY <1>2, <1>3 DEF Chain!Given, Chain!Kinds, Kinds
<1> QED
  BY <1>4, AuthorisedMeans DEF Chain!FinalAuthorized

\* The view of Layer 2 a Layer 3 is held against.
ViewFor(kind, whole, serialized) == IF serialized[kind] # Absent THEN serialized[kind] ELSE whole

\* One Layer 3 fulfils one pair, and the agent's key is the one every mandate names.
LEMMA FulfilledMeans ==
    ASSUME TypeOK, NEW s \in Layer2s, NEW discs, NEW kind \in Kinds, NEW l3 \in Fulfilments,
           NEW whole, NEW serialized, ViewFor(kind, whole, serialized) # Absent,
           Chain!Authorized(Ask(Show(s, discs), Only(kind, l3), whole, serialized), clock)
    PROVE  /\ Cardinality(Chain!Order(Show(s, discs))) = 1
           /\ \A n \in Chain!Shown(Show(s, discs)) : Content(Mandates(s)[n]).key = l3.signer
           /\ clock <= l3.exp + Skew
           /\ l3.sd_hash = ViewFor(kind, whole, serialized)
           /\ \A n \in Chain!OfPair(Show(s, discs), 1, kind) :
                Mandates(s)[n] \in Range(ViewFor(kind, whole, serialized).discs) \cup {Absent}
<1> DEFINE c == Ask(Show(s, discs), Only(kind, l3), whole, serialized)
           p == Show(s, discs)
           view == ViewFor(kind, whole, serialized)
<1>1. /\ c.l3s = Only(kind, l3) /\ c.l2 = p /\ c.l2_serialized = whole /\ c.serialized = serialized
  BY DEF Ask
<1>2. /\ DOMAIN c.l3s = {1} /\ Len(c.l3s) = 1 /\ c.l3s[1].l3[kind] = l3
      /\ c.l3s[1].serialized[kind] = Absent
  BY <1>1 DEF Only, OneSide, NoSides
<1>3. l3 # Absent
  BY AbsentIsNothing
<1>4. Chain!OpenAuthorized(c, clock)
  BY FinalStandsAlone, AuthorisedMeans
<1>5. \A n \in Chain!Shown(p) : n \in DOMAIN Mandates(s) /\ Chain!MandateAt(p, n) = Content(Mandates(s)[n])
  BY SeenInView DEF Chain!Shown, Kinds
<1>5a. \A n \in Chain!OfPair(p, 1, kind) : Chain!Ref(p, n) = Mandates(s)[n]
  BY SeenInView DEF Chain!OfPair, Kinds
<1>5b. view # Absent /\ (serialized[kind] = view \/ (serialized[kind] = Absent /\ whole = view))
  BY DEF ViewFor
<1> HIDE DEF c, p, view
<1>6. <<1, kind>> \in Chain!Given(c)
  BY <1>2, <1>3 DEF Chain!Given, Chain!Kinds, Kinds
<1>7. PICK key, kid : /\ \A n \in Chain!Shown(p) : Chain!MandateAt(p, n).key = key
                      /\ Chain!Fulfils(c, clock, 1, kind, key, kid)
  BY <1>1, <1>4, <1>6 DEF Chain!OpenAuthorized
<1>8. Cardinality(Chain!Order(p)) = 1
  <2>1. Len(c.l3s) \in {0, Chain!Cardinality(Chain!Order(c.l2))}
    BY <1>4 DEF Chain!OpenAuthorized
  <2> QED
    BY <1>1, <1>2, <2>1, SameCardinality
<1> DEFINE views == <<c.l3s[1].serialized[kind], c.serialized[kind], c.l2_serialized, c.l2>>
           First(m) == views[m] # Absent /\ \A j \in 1..(m - 1) : views[j] = Absent
           first == CHOOSE m \in 1..4 : First(m)
<1>9. views[first] = view
  <2>1. views[1] = Absent /\ (views[2] = view \/ (views[2] = Absent /\ views[3] = view))
    BY <1>1, <1>2, <1>5b
  <2>2. \E m \in 1..4 : First(m)
    <3> HIDE DEF views
    <3>1. CASE views[2] = view
      <4>1. First(2)
        BY <1>5b, <2>1, <3>1
      <4> QED
        BY <4>1
    <3>2. CASE views[2] = Absent /\ views[3] = view
      <4>1. First(3)
        BY <1>5b, <2>1, <3>2
      <4> QED
        BY <4>1
    <3> QED
      BY <2>1, <3>1, <3>2
  <2> HIDE DEF views
  <2>3. \A m \in 1..4 : First(m) => views[m] = view
    BY <1>5b, <2>1
  <2> HIDE DEF First
  <2>4. first \in 1..4 /\ First(first)
    BY <2>2
  <2> QED
    BY <2>3, <2>4
<1>10. /\ l3.signer = key /\ Chain!Live(l3, clock) /\ l3.sd_hash = view
       /\ \A n \in Chain!OfPair(p, 1, kind) : Chain!Ref(p, n) \in Chain!Range(view.discs) \cup {Absent}
  BY <1>1, <1>2, <1>7, <1>9 DEF Chain!Fulfils
<1>11. clock <= l3.exp + Skew
  BY <1>10, LiveUntil DEF Fulfilments
<1>12. \A n \in Chain!OfPair(p, 1, kind) : Mandates(s)[n] \in Range(view.discs) \cup {Absent}
  BY <1>5a, <1>10 DEF Chain!Range, Range
<1> QED
  BY <1>5, <1>7, <1>8, <1>10, <1>11, <1>12 DEF p, view
------------------------------------------------------------------------------
(* The credentials the parties hand over. *)

LEMMA ViewsTyped ==
    ASSUME NEW s \in Layer2s, NEW discs \in Seq(AllDiscs)
    PROVE  Show(s, discs) \in Views
<1>1. /\ Show(s, discs).jwt = Show(s, <<>>).jwt /\ Show(s, discs).discs = discs
      /\ Show(s, discs) = [jwt |-> Show(s, discs).jwt, discs |-> Show(s, discs).discs]
  BY DEF Show
<1> QED
  BY <1>1 DEF Views

LEMMA ListingTyped ==
    ASSUME NEW s \in Layer2s, NEW kind \in Kinds \cup {"merchants", "items"}, NEW length \in Nat
    PROVE  /\ Listing(s, kind, length) \in Seq(AllDiscs)
           /\ Range(Listing(s, kind, length)) = {Disclosure(s, kind, n) : n \in 1..length}
<1>1. \A n \in 1..length : Disclosure(s, kind, n) \in AllDiscs
  BY DEF Disclosure, AllDiscs
<1> QED
  BY <1>1 DEF Listing, Range

LEMMA RangeOfTwo ==
    ASSUME NEW S, NEW q \in Seq(S), NEW r \in Seq(S)
    PROVE  q \o r \in Seq(S) /\ Range(q \o r) = Range(q) \cup Range(r)
BY RangeConcatenation, ConcatProperties

\* What the whole of Layer 2, and the merchant's part of it, show.
LEMMA OpenPresentations ==
    ASSUME NEW s \in Layer2s, s.intent.open
    PROVE  /\ DiscsOf(s) \in Seq(AllDiscs)
           /\ Range(DiscsOf(s)) = Range(Merchants(s)) \cup Range(Items(s)) \cup Range(Mandates(s))
           /\ \A role \in Kinds : RolePresentation(s, role) \in Views
           /\ Range(RolePresentation(s, "checkout").discs)
                = Range(Items(s)) \cup {Disclosure(s, "checkout", n) : n \in 1..Len(s.intent.pairs)}
<1>1. Len(s.intent.shops) \in Nat /\ Len(s.intent.items) \in Nat /\ Len(s.intent.pairs) \in Nat
  BY IntentsHaveParts DEF Layer2s
<1>2. Merchants(s) \in Seq(AllDiscs) /\ Items(s) \in Seq(AllDiscs)
  BY <1>1, ListingTyped DEF Merchants, Items
<1>3. Mandates(s) \in Seq(AllDiscs)
  <2>1. /\ 2 * PairCount(s.intent) \in Nat /\ DOMAIN Mandates(s) = 1..(2 * PairCount(s.intent))
        /\ \A n \in DOMAIN Mandates(s) : Mandates(s)[n] \in AllDiscs
    BY MandatesOf
  <2>2. Mandates(s) = [n \in DOMAIN Mandates(s) |-> Mandates(s)[n]]
    BY DEF Mandates
  <2> QED
    BY <2>1, <2>2
<1>4. DiscsOf(s) = (Merchants(s) \o Items(s)) \o Mandates(s)
  BY DEF DiscsOf
<1>5. \A role \in Kinds : Listing(s, role, Len(s.intent.pairs)) \in Seq(AllDiscs)
  BY <1>1, ListingTyped
<1>6. \A role \in Kinds : RolePresentation(s, role) \in Views
  BY <1>2, <1>5, RangeOfTwo, ViewsTyped DEF RolePresentation
<1>7. RolePresentation(s, "checkout").discs = Items(s) \o Listing(s, "checkout", Len(s.intent.pairs))
  BY DEF RolePresentation, Show
<1>8. Range(RolePresentation(s, "checkout").discs)
        = Range(Items(s)) \cup {Disclosure(s, "checkout", n) : n \in 1..Len(s.intent.pairs)}
  <2>1. Range(Listing(s, "checkout", Len(s.intent.pairs)))
          = {Disclosure(s, "checkout", n) : n \in 1..Len(s.intent.pairs)}
    BY <1>1, ListingTyped DEF Kinds
  <2>2. Listing(s, "checkout", Len(s.intent.pairs)) \in Seq(AllDiscs)
    BY <1>5 DEF Kinds
  <2> DEFINE q == Items(s)
             r == Listing(s, "checkout", Len(s.intent.pairs))
  <2>3. q \in Seq(AllDiscs) /\ r \in Seq(AllDiscs)
    BY <1>2, <2>2
  <2> HIDE DEF q, r
  <2>4. Range(q \o r) = Range(q) \cup Range(r)
    BY <2>3, RangeOfTwo
  <2> QED
    BY <1>7, <2>1, <2>4 DEF q, r
<1>9. /\ Merchants(s) \o Items(s) \in Seq(AllDiscs)
      /\ Range(Merchants(s) \o Items(s)) = Range(Merchants(s)) \cup Range(Items(s))
  BY <1>2, RangeOfTwo
<1>10. /\ DiscsOf(s) \in Seq(AllDiscs)
       /\ Range(DiscsOf(s)) = Range(Merchants(s)) \cup Range(Items(s)) \cup Range(Mandates(s))
  <2> DEFINE q == Merchants(s) \o Items(s)
             r == Mandates(s)
  <2>1. q \in Seq(AllDiscs) /\ r \in Seq(AllDiscs)
    BY <1>3, <1>9
  <2> HIDE DEF q, r
  <2>2. q \o r \in Seq(AllDiscs) /\ Range(q \o r) = Range(q) \cup Range(r)
    BY <2>1, RangeOfTwo
  <2> QED
    BY <1>4, <1>9, <2>2 DEF q, r
<1> QED
  BY <1>6, <1>8, <1>10

LEMMA PurchaseParts ==
    ASSUME TypeOK, NEW b \in made
    PROVE  /\ b \in Purchase /\ b # Absent /\ b.l2 \in Layer2s /\ b.l2 \in signed /\ b.side \in Kinds
           /\ b.l2.intent.open
           /\ PaymentView(b) \in Views /\ PaymentView(b).discs
                = <<Disclosure(b.l2, b.side, b.pair), Disclosure(b.l2, "merchants", b.shop)>>
           /\ CheckoutView(b) \in Views /\ CheckoutView(b).discs
                = <<Disclosure(b.l2, "checkout", b.pair), Disclosure(b.l2, "items", b.item)>>
<1>1. b \in Purchase /\ b # Absent /\ b.l2 \in signed
  BY AbsentIsNothing DEF TypeOK
<1>2. /\ b.l2 \in Layer2s /\ b.l2.intent.open /\ b.side \in Kinds
      /\ b.pair \in Nat /\ b.shop \in Nat /\ b.item \in Nat
  BY <1>1 DEF Purchase
<1>3. /\ Disclosure(b.l2, b.side, b.pair) \in AllDiscs /\ Disclosure(b.l2, "merchants", b.shop) \in AllDiscs
      /\ Disclosure(b.l2, "checkout", b.pair) \in AllDiscs /\ Disclosure(b.l2, "items", b.item) \in AllDiscs
  BY <1>2 DEF AllDiscs, Disclosure, Kinds
<1> HIDE DEF AllDiscs
<1>4. PaymentView(b) \in Views /\ CheckoutView(b) \in Views
  <2>1. /\ <<Disclosure(b.l2, b.side, b.pair), Disclosure(b.l2, "merchants", b.shop)>> \in Seq(AllDiscs)
        /\ <<Disclosure(b.l2, "checkout", b.pair), Disclosure(b.l2, "items", b.item)>> \in Seq(AllDiscs)
    BY <1>3
  <2> QED
    BY <1>2, <2>1, ViewsTyped DEF PaymentView, CheckoutView
<1> QED
  BY <1>1, <1>2, <1>4 DEF PaymentView, CheckoutView, Show

LEMMA CredentialsTyped ==
    ASSUME TypeOK, NEW b \in made
    PROVE  /\ PaymentCredential(b) \in Fulfilments /\ CheckoutCredential(b) \in Fulfilments
           /\ PaymentCredential(b).signer = b.agent /\ CheckoutCredential(b).signer = b.agent
           /\ PaymentCredential(b).exp = b.at + FulfilmentLife
           /\ CheckoutCredential(b).exp = b.at + FulfilmentLife
           /\ PaymentCredential(b).sd_hash = PaymentView(b) /\ CheckoutCredential(b).sd_hash = CheckoutView(b)
<1> DEFINE M == {Other} \cup {Final(kind, cart) : kind \in Kinds, cart \in Products}
<1>1. b \in Purchase /\ PaymentView(b) \in Views /\ CheckoutView(b) \in Views
  BY PurchaseParts
<1>2. b.agent \in Agents /\ b.at \in Nat /\ b.at + FulfilmentLife \in Nat /\ b.cart \in Products
  BY <1>1, BoundsAreNumbers DEF Purchase
<1>3. <<Other, Final("payment", b.cart)>> \in Seq(M) /\ <<Final("checkout", b.cart)>> \in Seq(M)
  <2>1. Other \in M /\ Final("payment", b.cart) \in M /\ Final("checkout", b.cart) \in M
    BY <1>2 DEF Kinds
  <2> HIDE DEF M
  <2> QED
    BY <2>1
<1> HIDE DEF M
<1>4. ASSUME NEW view \in Views, NEW mandates \in Seq(M)
      PROVE  Fulfilment(b, view, mandates) \in Fulfilments
  BY <1>2 DEF Fulfilment, Fulfilments, M
<1> QED
  BY <1>1, <1>3, <1>4 DEF PaymentCredential, CheckoutCredential, Fulfilment
------------------------------------------------------------------------------
(* Whose purchase each verifier accepts. *)

Lasting(s, b) ==
    /\ clock <= CardLife + Skew /\ clock <= s.at + MandateLife + Skew
    /\ clock <= b.at + FulfilmentLife + Skew

LEMMA KeyOfAgent ==
    ASSUME NEW s \in Layer2s, s.intent.open, NEW n \in DOMAIN Mandates(s)
    PROVE  Content(Mandates(s)[n]).key = s.intent.agent
<1>1. Mandates(s)[n].of = s /\ Mandates(s)[n].kind \in Kinds
  BY MandatesOf
<1> QED
  BY <1>1 DEF Content, Final

LEMMA ShownIsSeen ==
    ASSUME NEW s \in Layer2s, NEW discs, NEW n \in Chain!Shown(Show(s, discs))
    PROVE  n \in DOMAIN Mandates(s) /\ Mandates(s)[n] \in Range(discs) /\ Mandates(s)[n].kind \in Kinds
BY SeenInView DEF Chain!Shown, Kinds

\* The only pair that is shown is the first, and the lead of it what Order says.
LEMMA OnlyPair ==
    ASSUME NEW s \in Layer2s, NEW discs, Cardinality(Chain!Order(Show(s, discs))) = 1
    PROVE  \E x \in DOMAIN Mandates(s) :
             Chain!Order(Show(s, discs)) = {x} /\ Chain!Nth(Chain!Order(Show(s, discs)), 1) = x
<1> DEFINE S == Chain!Order(Show(s, discs))
<1>1. S \subseteq DOMAIN Mandates(s)
  BY SeenInView DEF Chain!Order, Kinds
<1>2. DOMAIN Mandates(s) \subseteq Nat /\ IsFiniteSet(DOMAIN Mandates(s))
  <2>1. 2 * PairCount(s.intent) \in Nat /\ DOMAIN Mandates(s) = 1..(2 * PairCount(s.intent))
    BY MandatesOf
  <2> QED
    BY <2>1, FS_Interval
<1> HIDE DEF S
<1>3. PICK x : S = {x}
  BY <1>1, <1>2, FS_Subset, FS_Singleton DEF S
<1>4. x \in Nat /\ x \in DOMAIN Mandates(s)
  BY <1>1, <1>2, <1>3
<1>5. Chain!Cardinality({j \in S : j <= x}) = 1
  <2>1. {j \in S : j <= x} = {x}
    BY <1>3, <1>4
  <2> QED
    BY <2>1, FS_Singleton, SameCardinality
<1>6. Chain!Nth(S, 1) = x
  BY <1>3, <1>5 DEF Chain!Nth
<1> QED
  BY <1>3, <1>4, <1>6 DEF S

\* validate_intent, handed a Layer 3.
LEMMA IntentMeans ==
    ASSUME TypeOK, NEW s \in signed, NEW b \in made, NEW p \in Presentations(s), ValidIntent(s, p, b)
    PROVE  s.intent.open /\ Delegated(s, b) /\ Lasting(s, b) /\ p = PaymentView(b)
<1>1. s \in Layer2s /\ b # Absent /\ PaymentCredential(b) \in Fulfilments
  BY PurchaseParts, CredentialsTyped DEF TypeOK
<1>2. Chain!Authorized(Ask(p, Only("payment", PaymentCredential(b)), p, NoSides), clock)
  BY <1>1 DEF ValidIntent, ChainAccepts
<1>3. PICK discs : p = Show(s, discs)
  BY DEF Presentations, Whole, RolePresentation, PaymentView
<1>4. s.intent.open
  BY <1>1, <1>2, <1>3, FinalStandsAlone DEF Kinds
<1>5. p # Absent
  <2>1. CASE p = Whole(s)
    BY <1>1, <1>4, <2>1, OpenPresentations, ViewsTyped, AbsentIsNothing DEF Whole
  <2>2. CASE \E role \in Kinds : p = RolePresentation(s, role)
    BY <1>1, <1>4, <2>2, OpenPresentations, AbsentIsNothing
  <2>3. CASE \E x \in made : p = PaymentView(x)
    BY <2>3, PurchaseParts, AbsentIsNothing
  <2> QED
    BY <1>4, <2>1, <2>2, <2>3 DEF Presentations
<1>6. /\ \A n \in Chain!Shown(Show(s, discs)) : Content(Mandates(s)[n]).key = PaymentCredential(b).signer
      /\ clock <= PaymentCredential(b).exp + Skew /\ PaymentCredential(b).sd_hash = p
  <2>1. ViewFor("payment", p, NoSides) = p /\ "payment" \in Kinds
    BY DEF ViewFor, NoSides, Kinds
  <2>2. Chain!Authorized(Ask(Show(s, discs), Only("payment", PaymentCredential(b)), p, NoSides), clock)
    BY <1>2, <1>3
  <2>3. ViewFor("payment", p, NoSides) # Absent
    BY <1>5, <2>1
  <2>4. /\ \A n \in Chain!Shown(Show(s, discs)) : Content(Mandates(s)[n]).key = PaymentCredential(b).signer
        /\ clock <= PaymentCredential(b).exp + Skew
        /\ PaymentCredential(b).sd_hash = ViewFor("payment", p, NoSides)
    BY <1>1, <2>1, <2>2, <2>3, FulfilledMeans
  <2> QED
    BY <2>1, <2>4
<1>7. p = PaymentView(b) /\ discs = PaymentView(b).discs
  <2>1. p = PaymentView(b)
    BY <1>6, CredentialsTyped
  <2> QED
    BY <1>3, <2>1 DEF Show
<1>8. /\ clock <= CardLife + Skew /\ clock <= s.at + MandateLife + Skew
      /\ Chain!Shown(Show(s, discs)) # {}
  BY <1>1, <1>2, <1>3, AuthorisedMeans
<1>9. PICK n \in DOMAIN Mandates(s) :
        n \in Chain!Shown(Show(s, discs)) /\ Mandates(s)[n] \in Range(discs) /\ Mandates(s)[n].kind \in Kinds
  BY <1>1, <1>8, ShownIsSeen
<1>10. Mandates(s)[n] = Disclosure(b.l2, b.side, b.pair)
  <2>1. Range(discs) = {Disclosure(b.l2, b.side, b.pair), Disclosure(b.l2, "merchants", b.shop)}
    BY <1>7, PurchaseParts DEF Range
  <2>2. Disclosure(b.l2, "merchants", b.shop).kind \notin Kinds
    BY DEF Disclosure, Kinds
  <2> QED
    BY <1>9, <2>1, <2>2
<1>11. b.l2 = s
  BY <1>1, <1>10, MandatesOf DEF Disclosure
<1>12. b.agent = s.intent.agent
  BY <1>1, <1>4, <1>6, <1>9, KeyOfAgent, CredentialsTyped
<1>13. b.side = "payment"
  <2>1. PICK j \in Pairs(s.intent) : Disclosure(s, "payment", j) \in Range(p.discs)
    BY <1>1 DEF ValidIntent, PaymentsShown
  <2>2. Range(p.discs) = {Disclosure(b.l2, b.side, b.pair), Disclosure(b.l2, "merchants", b.shop)}
    BY <1>7, PurchaseParts DEF Range
  <2> QED
    BY <2>1, <2>2 DEF Disclosure
<1>14. clock <= b.at + FulfilmentLife + Skew
  BY <1>6, CredentialsTyped
<1> QED
  BY <1>1, <1>4, <1>7, <1>8, <1>11, <1>12, <1>13, <1>14 DEF Delegated, Lasting

\* The network that has the whole of Layer 2.
LEMMA StagedMeans ==
    ASSUME TypeOK, NEW s \in signed, s.intent.open, NEW b \in made, NEW mode, ValidStaged(s, b, mode)
    PROVE  Delegated(s, b) /\ Lasting(s, b) /\ Len(s.intent.pairs) = 1
<1>1. s \in Layer2s /\ b # Absent /\ PaymentCredential(b) \in Fulfilments
  BY PurchaseParts, CredentialsTyped DEF TypeOK
<1> DEFINE discs == DiscsOf(s)
<1>2. Chain!Authorized(Ask(Show(s, discs), Only("payment", PaymentCredential(b)), Whole(s),
                           OneSide("payment", PaymentView(b))), clock)
  BY DEF ValidStaged, ChainAccepts, Whole
<1>3. /\ Cardinality(Chain!Order(Show(s, discs))) = 1
      /\ \A n \in Chain!Shown(Show(s, discs)) : Content(Mandates(s)[n]).key = PaymentCredential(b).signer
      /\ clock <= PaymentCredential(b).exp + Skew
      /\ \A n \in Chain!OfPair(Show(s, discs), 1, "payment") :
           Mandates(s)[n] \in Range(PaymentView(b).discs) \cup {Absent}
  <2>1. PaymentView(b) # Absent
    BY PurchaseParts, AbsentIsNothing
  <2>2. /\ ViewFor("payment", Whole(s), OneSide("payment", PaymentView(b))) = PaymentView(b)
        /\ "payment" \in Kinds
    BY <2>1 DEF ViewFor, OneSide, NoSides, Kinds
  <2> HIDE DEF discs
  <2> QED
    BY <1>1, <1>2, <2>1, <2>2, FulfilledMeans
<1>4. Chain!Disclosed(Show(s, discs), "payment") = {n \in DOMAIN Mandates(s) : Mandates(s)[n].kind = "payment"}
  <2>1. \A n \in DOMAIN Mandates(s) : Mandates(s)[n] \in Range(discs)
    BY <1>1, OpenPresentations DEF Range
  <2> HIDE DEF discs
  <2> QED
    BY <1>1, <2>1, SeenInView DEF Kinds
<1> HIDE DEF discs
<1>5. /\ clock <= CardLife + Skew /\ clock <= s.at + MandateLife + Skew
      /\ Chain!Shown(Show(s, discs)) # {}
  BY <1>1, <1>2, AuthorisedMeans
<1>6. PICK x \in DOMAIN Mandates(s) :
        Chain!Order(Show(s, discs)) = {x} /\ Chain!Nth(Chain!Order(Show(s, discs)), 1) = x
  BY <1>1, <1>3, OnlyPair
<1>7. PairCount(s.intent) = Len(s.intent.pairs) /\ Len(s.intent.pairs) \in Nat
  BY <1>1, MandatesOf DEF PairCount
<1>8. Len(s.intent.pairs) # 0
  BY <1>1, <1>6, <1>7, MandatesOf
<1>9. 2 \in DOMAIN Mandates(s) /\ Mandates(s)[2].kind = "payment"
  <2>1. 2 \in 1..(2 * PairCount(s.intent)) /\ 2 % 2 # 1
    BY <1>7, <1>8
  <2> QED
    BY <2>1 DEF Mandates, Disclosure
<1>10. Chain!Order(Show(s, discs)) = Chain!Disclosed(Show(s, discs), "payment") /\ x = 2
  BY <1>4, <1>6, <1>9 DEF Chain!Order
<1>11. Len(s.intent.pairs) = 1
  <2>0. SUFFICES ASSUME Len(s.intent.pairs) # 1 PROVE FALSE
    OBVIOUS
  <2>1. 4 % 2 # 1
    OBVIOUS
  <2>1a. 4 \in 1..(2 * PairCount(s.intent))
    <3>1. PairCount(s.intent) \in Nat /\ PairCount(s.intent) >= 2
      <4>1. \A m \in Nat : m # 0 /\ m # 1 => m >= 2
        OBVIOUS
      <4> QED
        BY <1>7, <1>8, <2>0, <4>1
    <3> QED
      BY <3>1
  <2>2. 4 \in DOMAIN Mandates(s) /\ Mandates(s)[4].kind = "payment"
    BY <2>1, <2>1a DEF Mandates, Disclosure
  <2> QED
    BY <1>4, <1>6, <1>10, <2>2
<1>12. 2 \in Chain!OfPair(Show(s, discs), 1, "payment")
  BY <1>4, <1>6, <1>9, <1>10 DEF Chain!OfPair
<1>13. Mandates(s)[2] \in {Disclosure(b.l2, b.side, b.pair), Disclosure(b.l2, "merchants", b.shop)}
  <2>1. Range(PaymentView(b).discs) = {Disclosure(b.l2, b.side, b.pair), Disclosure(b.l2, "merchants", b.shop)}
    BY PurchaseParts DEF Range
  <2>2. Mandates(s)[2] # Absent
    BY <1>1, <1>9, MandatesOf, AbsentIsNothing
  <2> QED
    BY <1>3, <1>12, <2>1, <2>2
<1>14. b.l2 = s /\ b.side = "payment"
  BY <1>1, <1>9, <1>13, MandatesOf DEF Disclosure
<1>15. b.agent = s.intent.agent
  <2>1. 2 \in Chain!Shown(Show(s, discs))
    BY <1>4, <1>9 DEF Chain!Shown
  <2> QED
    BY <1>1, <1>3, <1>9, <2>1, KeyOfAgent, CredentialsTyped
<1>16. clock <= b.at + FulfilmentLife + Skew
  BY <1>3, CredentialsTyped
<1> QED
  BY <1>1, <1>5, <1>11, <1>14, <1>15, <1>16 DEF Delegated, Lasting

\* The merchant, who is shown the checkout's part of Layer 2.
LEMMA CheckoutMeans ==
    ASSUME TypeOK, NEW s \in signed, s.intent.open, NEW b \in made, ValidCheckout(s, b)
    PROVE  b.l2 = s /\ b.agent = s.intent.agent /\ Lasting(s, b)
<1>1. s \in Layer2s /\ CheckoutCredential(b) \in Fulfilments /\ "checkout" \in Kinds
  BY CredentialsTyped DEF TypeOK, Kinds
<1> DEFINE discs == RolePresentation(s, "checkout").discs
<1>2. RolePresentation(s, "checkout") = Show(s, discs)
  BY DEF RolePresentation, Show
<1>3. Range(discs) = Range(Items(s)) \cup {Disclosure(s, "checkout", n) : n \in 1..Len(s.intent.pairs)}
  BY <1>1, OpenPresentations
<1> HIDE DEF discs
<1>4. Chain!Authorized(Ask(Show(s, discs), Only("checkout", CheckoutCredential(b)), Whole(s),
                           OneSide("checkout", CheckoutView(b))), clock)
  BY <1>2 DEF ValidCheckout, ChainAccepts
<1>5. ViewFor("checkout", Whole(s), OneSide("checkout", CheckoutView(b))) = CheckoutView(b)
  BY PurchaseParts, AbsentIsNothing DEF ViewFor, OneSide, NoSides, Kinds
<1>6. CheckoutView(b) # Absent
  BY PurchaseParts, AbsentIsNothing
<1>7. /\ Cardinality(Chain!Order(Show(s, discs))) = 1
      /\ \A n \in Chain!Shown(Show(s, discs)) : Content(Mandates(s)[n]).key = CheckoutCredential(b).signer
      /\ clock <= CheckoutCredential(b).exp + Skew
      /\ \A n \in Chain!OfPair(Show(s, discs), 1, "checkout") :
           Mandates(s)[n] \in Range(CheckoutView(b).discs) \cup {Absent}
  BY <1>1, <1>4, <1>5, <1>6, FulfilledMeans
<1>8. clock <= CardLife + Skew /\ clock <= s.at + MandateLife + Skew
  BY <1>1, <1>4, AuthorisedMeans
<1>9. \A d \in Range(discs) : d.kind # "payment"
  <2>1. \A d \in Range(Items(s)) : d.kind = "items"
    <3>1. Len(s.intent.items) \in Nat
      BY <1>1, IntentsHaveParts DEF Layer2s
    <3>2. Range(Items(s)) = {Disclosure(s, "items", n) : n \in 1..Len(s.intent.items)}
      BY <1>1, <3>1, ListingTyped DEF Items
    <3> QED
      BY <3>2 DEF Disclosure
  <2>2. \A n : Disclosure(s, "checkout", n).kind = "checkout"
    BY DEF Disclosure
  <2> QED
    BY <1>3, <2>1, <2>2
<1>10. Chain!Disclosed(Show(s, discs), "payment") = {}
  BY <1>1, <1>9, SeenInView DEF Kinds
<1>11. PICK x \in DOMAIN Mandates(s) :
         Chain!Order(Show(s, discs)) = {x} /\ Chain!Nth(Chain!Order(Show(s, discs)), 1) = x
  BY <1>1, <1>7, OnlyPair
<1>12. Chain!Disclosed(Show(s, discs), "checkout") = {x}
  BY <1>10, <1>11 DEF Chain!Order
<1>13. x \in Chain!OfPair(Show(s, discs), 1, "checkout") /\ x \in Chain!Shown(Show(s, discs))
  BY <1>11, <1>12 DEF Chain!OfPair, Chain!Shown
<1>14. Mandates(s)[x] \in {Disclosure(b.l2, "checkout", b.pair), Disclosure(b.l2, "items", b.item)}
  <2>1. Range(CheckoutView(b).discs) = {Disclosure(b.l2, "checkout", b.pair), Disclosure(b.l2, "items", b.item)}
    BY PurchaseParts DEF Range
  <2>2. Mandates(s)[x] # Absent
    BY <1>1, MandatesOf, AbsentIsNothing
  <2> QED
    BY <1>7, <1>13, <2>1, <2>2
<1>15. b.l2 = s
  BY <1>1, <1>14, MandatesOf DEF Disclosure
<1>16. b.agent = s.intent.agent
  BY <1>1, <1>7, <1>13, KeyOfAgent, CredentialsTyped
<1>17. clock <= b.at + FulfilmentLife + Skew
  BY <1>7, CredentialsTyped
<1> QED
  BY <1>8, <1>15, <1>16, <1>17 DEF Lasting

------------------------------------------------------------------------------
(* What check_constraints' answer means for these constraints. *)

\* The pair whose limits are enforced is the one the purchase is bound to.
LEMMA EnforcedPair ==
    ASSUME TypeOK, NEW b \in made, NEW p, PaymentsShown(b.l2, p) = {b.pair}
    PROVE  Enforced(b.l2, p) = b.l2.intent.pairs[b.pair]
<1>1. b.pair \in Nat
  BY PurchaseParts DEF Purchase
<1>2. Min({b.pair}) = b.pair
  BY <1>1 DEF Min
<1> QED
  BY <1>2 DEF Enforced

LEMMA SetInSomeOrder ==
    ASSUME NEW S, IsFiniteSet(S)
    PROVE  Range(SetToSeq(S)) = S
<1>1. Cardinality(S) \in Nat /\ ExistsBijection(1..Cardinality(S), S)
  BY FS_NatBijection, FS_CountingElements, FS_CardinalityType
<1>2. PICK q \in [1..Cardinality(S) -> S] : IsInjective(q)
  BY <1>1 DEF ExistsBijection, Bijection, Injection, IsInjective
<1> DEFINE r == SetToSeq(S)
<1>3. r \in [1..Cardinality(S) -> S] /\ IsInjective(r)
  BY <1>2 DEF SetToSeq
<1> HIDE DEF r
<1>4. r \in Injection(1..Cardinality(S), S)
  BY <1>3 DEF Injection
<1>5. Cardinality(1..Cardinality(S)) = Cardinality(S)
  BY <1>1, FS_Interval
<1>6. r \in Surjection(1..Cardinality(S), S)
  BY <1>4, <1>5, FS_Injection
<1> QED
  BY <1>3, <1>6 DEF Surjection, Range, r

LEMMA RangeOfFive ==
    ASSUME NEW S, NEW q1 \in Seq(S), NEW q2 \in Seq(S), NEW q3 \in Seq(S), NEW q4 \in Seq(S), NEW q5 \in Seq(S)
    PROVE  Range(q1 \o q2 \o q3 \o q4 \o q5)
             = Range(q1) \cup Range(q2) \cup Range(q3) \cup Range(q4) \cup Range(q5)
<1> DEFINE r2 == q1 \o q2
<1>2. r2 \in Seq(S) /\ Range(r2) = Range(q1) \cup Range(q2)
  BY RangeOfTwo
<1> HIDE DEF r2
<1> DEFINE r3 == r2 \o q3
<1>3. r3 \in Seq(S) /\ Range(r3) = Range(r2) \cup Range(q3)
  BY <1>2, RangeOfTwo
<1> HIDE DEF r3
<1> DEFINE r4 == r3 \o q4
<1>4. r4 \in Seq(S) /\ Range(r4) = Range(r3) \cup Range(q4)
  BY <1>3, RangeOfTwo
<1> HIDE DEF r4
<1>5. Range(r4 \o q5) = Range(r4) \cup Range(q5)
  BY <1>4, RangeOfTwo
<1> QED
  BY <1>2, <1>3, <1>4, <1>5 DEF r2, r3, r4

\* The elements of an allowlist, as references.
HiddenList(q) ==
    [m \in DOMAIN q |-> [ref |-> TRUE, id |-> Absent, name |-> Absent, website |-> Absent]]

\* Every constraint is there to be judged.
LEMMA ConstraintsListed ==
    ASSUME NEW limits \in Limits
    PROVE  /\ [type |-> "amount_range", min |-> limits.min, max |-> limits.max, currency |-> "USD"]
                \in Range(PaymentConstraints(limits))
           /\ \A n \in DOMAIN limits.payees :
                [type |-> "allowed_payees", allowed |-> HiddenList(limits.payees[n])]
                    \in Range(PaymentConstraints(limits))
           /\ limits.extra # Absent => [type |-> limits.extra] \in Range(PaymentConstraints(limits))
<1> DEFINE amount == [type |-> "amount_range", min |-> limits.min, max |-> limits.max, currency |-> "USD"]
           List(n) == [type |-> "allowed_payees", allowed |-> HiddenList(limits.payees[n])]
           lists == [n \in DOMAIN limits.payees |-> List(n)]
           budget == [type |-> "budget", min |-> Absent, max |-> limits.budget]
           extra == [type |-> limits.extra]
           reference == [type |-> "reference"]
           S == {amount, budget, extra, reference} \cup {List(n) : n \in DOMAIN limits.payees}
           budgets == IF limits.budget = Absent THEN <<>> ELSE <<budget>>
           extras == IF limits.extra = Absent THEN <<>> ELSE <<extra>>
<1>1. PaymentConstraints(limits) = <<amount>> \o lists \o budgets \o extras \o <<reference>>
  BY DEF PaymentConstraints, HiddenList
<1>2. limits.payees \in Seq(Seq(Shops))
  BY DEF Limits
<1>3. lists \in Seq(S)
  <2>1. \A n \in DOMAIN limits.payees : List(n) \in S
    OBVIOUS
  <2>2. DOMAIN limits.payees = 1..Len(limits.payees) /\ Len(limits.payees) \in Nat
    BY <1>2
  <2> HIDE DEF S, List
  <2> QED
    BY <2>1, <2>2
<1>4. <<amount>> \in Seq(S) /\ budgets \in Seq(S) /\ extras \in Seq(S) /\ <<reference>> \in Seq(S)
  <2>1. amount \in S /\ budget \in S /\ extra \in S /\ reference \in S
    OBVIOUS
  <2> HIDE DEF S, amount, budget, extra, reference
  <2> QED
    BY <2>1
<1>5. /\ amount \in Range(<<amount>>)
      /\ \A n \in DOMAIN limits.payees : List(n) \in Range(lists)
      /\ limits.extra # Absent => extra \in Range(extras)
  <2> HIDE DEF amount, extra, List
  <2> QED
    BY DEF Range
<1>6. Range(PaymentConstraints(limits))
        = Range(<<amount>>) \cup Range(lists) \cup Range(budgets) \cup Range(extras) \cup Range(<<reference>>)
  <2> DEFINE q1 == <<amount>>
             q5 == <<reference>>
  <2>1. q1 \in Seq(S) /\ lists \in Seq(S) /\ budgets \in Seq(S) /\ extras \in Seq(S) /\ q5 \in Seq(S)
    BY <1>3, <1>4
  <2>2. PaymentConstraints(limits) = q1 \o lists \o budgets \o extras \o q5
    BY <1>1
  <2> HIDE DEF q1, lists, budgets, extras, q5, S
  <2>3. Range(q1 \o lists \o budgets \o extras \o q5)
          = Range(q1) \cup Range(lists) \cup Range(budgets) \cup Range(extras) \cup Range(q5)
    BY <2>1, RangeOfFive
  <2>4. Range(PaymentConstraints(limits))
          = Range(q1) \cup Range(lists) \cup Range(budgets) \cup Range(extras) \cup Range(q5)
    BY <2>2, <2>3
  <2> QED
    BY <2>4 DEF q1, q5
<1> HIDE DEF amount, lists, budgets, extra, extras, reference, List, S
<1>8. /\ amount \in Range(PaymentConstraints(limits))
      /\ \A n \in DOMAIN limits.payees : List(n) \in Range(PaymentConstraints(limits))
      /\ limits.extra # Absent => extra \in Range(PaymentConstraints(limits))
  BY <1>5, <1>6
<1> QED
  BY <1>8 DEF amount, List, extra

LEMMA FiniteRange == ASSUME NEW S, NEW q \in Seq(S) PROVE IsFiniteSet(Range(q))
<1>1. DOMAIN q = 1..Len(q) /\ Len(q) \in Nat
  OBVIOUS
<1>2. IsFiniteSet(DOMAIN q)
  BY <1>1, FS_Interval
<1>3. q \in Surjection(DOMAIN q, Range(q))
  BY DEF Surjection, Range
<1> QED
  BY <1>2, <1>3, FS_Surjection

LEMMA PartyMatches ==
    ASSUME NEW a \in Shops, NEW b \in Shops, Rules!SameMerchant(Party(a), Party(b))
    PROVE  a = b
BY AbsentIsNothing DEF Rules!SameMerchant, Party

LEMMA SatisfiedMeans ==
    ASSUME TypeOK, NEW b \in made, NEW p, PaymentsShown(b.l2, p) = {b.pair},
           NEW mode, Satisfied(b.l2, p, b, mode)
    PROVE  /\ Price[b.cart] \in b.l2.intent.pairs[b.pair].min..b.l2.intent.pairs[b.pair].max
           /\ b.l2.intent.pairs[b.pair].payees # <<>> =>
                /\ b.l2.intent.pairs[b.pair].payees[1] # <<>>
                /\ AllowedMerchants(b.l2, p) = {} \/ b.payee \in AllowedMerchants(b.l2, p)
           /\ b.l2.intent.pairs[b.pair].extra # Absent => mode = "permissive"
<1> SUFFICES ASSUME NEW limits, limits = b.l2.intent.pairs[b.pair]
             PROVE  /\ Price[b.cart] \in limits.min..limits.max
                    /\ limits.payees # <<>> =>
                         /\ limits.payees[1] # <<>>
                         /\ AllowedMerchants(b.l2, p) = {} \/ b.payee \in AllowedMerchants(b.l2, p)
                    /\ limits.extra # Absent => mode = "permissive"
  OBVIOUS
<1>1. /\ b.l2.intent \in Intents /\ b.l2.intent.open /\ b.cart \in Products /\ b.payee \in Shops
  BY PurchaseParts DEF Purchase, Layer2s
<1>2. b.l2.intent.pairs \in Seq(Limits) /\ b.pair \in DOMAIN b.l2.intent.pairs
  BY <1>1, IntentsHaveParts DEF TypeOK
<1>3. limits \in Limits /\ limits = Enforced(b.l2, p)
  <2>1. limits \in Limits
    BY <1>2, ElementOfSeq
  <2>2. limits = Enforced(b.l2, p)
    BY EnforcedPair
  <2> QED
    BY <2>1, <2>2
<1> DEFINE resolved == SetToSeq({Party(m) : m \in AllowedMerchants(b.l2, p)})
           f == [paid |-> [amount |-> Price[b.cart], currency |-> "USD"],
                 payee |-> Party(b.payee), merchant |-> Absent,
                 allowed_merchants |-> resolved, line_items |-> <<>>]
           k == [constraints |-> PaymentConstraints(limits), fulfillment |-> f,
                 mode |-> mode, is_open_mandate |-> FALSE, policy |-> [t \in {"loyalty"} |-> Absent]]
<1>4. Rules!Judgement(k) = "satisfied"
  BY <1>3 DEF Satisfied
<1>5. /\ k.fulfillment = f /\ k.constraints = PaymentConstraints(limits) /\ k.mode = mode
      /\ k.is_open_mandate = FALSE /\ k.policy["loyalty"] = Absent
      /\ f.paid.amount = Price[b.cart] /\ f.payee = Party(b.payee) /\ f.allowed_merchants = resolved
  OBVIOUS
<1> HIDE DEF k, f, resolved
<1>6. \A c \in Range(PaymentConstraints(limits)) : Rules!Admitted(c, k)
  BY <1>4, <1>5 DEF Rules!Judgement, Rules!Range, Range
<1>7. Price[b.cart] \in limits.min..limits.max
  <2> DEFINE c == [type |-> "amount_range", min |-> limits.min, max |-> limits.max, currency |-> "USD"]
  <2>1. c.type = "amount_range" /\ c.min = limits.min /\ c.max = limits.max
    OBVIOUS
  <2>2. c \in Range(PaymentConstraints(limits))
    BY <1>3, ConstraintsListed
  <2> HIDE DEF c
  <2>3. Rules!WithinBounds(c, f)
    BY <1>5, <1>6, <2>1, <2>2 DEF Rules!Admitted, Rules!Allowlists,
       Rules!AmountAdmitted, Rules!AmountLetThrough
  <2>4. limits.min \in Int /\ limits.max \in Int /\ Price[b.cart] \in Int
    BY <1>1, <1>3, EverythingHasAPrice DEF Limits
  <2> QED
    BY <1>5, <2>1, <2>3, <2>4, AbsentIsNothing DEF Rules!WithinBounds
<1>8. ASSUME limits.extra # Absent PROVE mode = "permissive"
  <2> DEFINE c == [type |-> limits.extra]
  <2>1. c.type = "loyalty"
    BY <1>3, <1>8 DEF Limits, OrAbsent
  <2>2. c \in Range(PaymentConstraints(limits))
    BY <1>3, <1>8, ConstraintsListed
  <2> HIDE DEF c
  <2>3. Rules!Tolerated("loyalty", k)
    BY <1>6, <2>1, <2>2 DEF Rules!Admitted, Rules!Allowlists
  <2> QED
    BY <1>5, <2>3 DEF Rules!Tolerated
<1>9. ASSUME limits.payees # <<>>
      PROVE  /\ limits.payees[1] # <<>>
             /\ AllowedMerchants(b.l2, p) = {} \/ b.payee \in AllowedMerchants(b.l2, p)
  <2> DEFINE c == [type |-> "allowed_payees", allowed |-> HiddenList(limits.payees[1])]
  <2>1. limits.payees \in Seq(Seq(Shops)) /\ 1 \in DOMAIN limits.payees /\ limits.payees[1] \in Seq(Shops)
    BY <1>3, <1>9 DEF Limits
  <2>2. c \in Range(PaymentConstraints(limits))
    BY <1>3, <2>1, ConstraintsListed
  <2>3. c.type = "allowed_payees" /\ c.allowed = HiddenList(limits.payees[1])
    OBVIOUS
  <2> HIDE DEF c
  <2>4. Rules!PartyAdmitted(c, f, Party(b.payee))
    BY <1>5, <1>6, <2>2, <2>3 DEF Rules!Admitted, Rules!Allowlists, Rules!PartyOf
  <2>5. limits.payees[1] # <<>>
    <3>1. limits.payees[1] = <<>> => c.allowed = <<>>
      BY <2>3 DEF HiddenList
    <3> QED
      BY <2>4, <3>1 DEF Rules!PartyAdmitted
  <2>6. AllowedMerchants(b.l2, p) \subseteq Range(limits.payees[1]) /\ IsFiniteSet(AllowedMerchants(b.l2, p))
    <3>1. AllowedMerchants(b.l2, p) \subseteq Range(limits.payees[1])
      BY <1>3 DEF AllowedMerchants
    <3>2. IsFiniteSet(Range(limits.payees[1]))
      BY <2>1, FiniteRange
    <3> QED
      BY <3>1, <3>2, FS_Subset
  <2>7. Range(resolved) = {Party(m) : m \in AllowedMerchants(b.l2, p)}
    <3> DEFINE A == AllowedMerchants(b.l2, p)
    <3>1. IsFiniteSet({Party(m) : m \in A})
      <4> HIDE DEF A
      <4>1. [m \in A |-> Party(m)] \in Surjection(A, {Party(m) : m \in A})
        BY DEF Surjection
      <4>2. IsFiniteSet(A)
        BY <2>6 DEF A
      <4> QED
        BY <4>1, <4>2, FS_Surjection
    <3> QED
      BY <3>1, SetInSomeOrder DEF resolved
  <2>8. ASSUME resolved = <<>> PROVE AllowedMerchants(b.l2, p) = {}
    BY <2>7, <2>8 DEF Range
  <2>9. ASSUME resolved # <<>> PROVE b.payee \in AllowedMerchants(b.l2, p)
    <3>1. ~Rules!Closed(c, f)
      BY <1>5, <2>9 DEF Rules!Closed
    <3>2. PICK m \in Range(resolved) : Rules!SameMerchant(m, Party(b.payee))
      BY <1>5, <2>4, <2>9, <3>1 DEF Rules!PartyAdmitted, Rules!Range, Range
    <3>3. PICK shop \in AllowedMerchants(b.l2, p) : m = Party(shop)
      BY <2>7, <3>2
    <3>4. shop \in Shops
      BY <2>1, <2>6, <3>3 DEF Range
    <3> QED
      BY <1>1, <3>2, <3>3, <3>4, PartyMatches
  <2> QED
    BY <2>5, <2>8, <2>9
<1> QED
  BY <1>7, <1>8, <1>9

\* A shop of the list that is shown leaves the list to be held against the payee.
LEMMA IntentLimits ==
    ASSUME TypeOK, NEW s \in signed, NEW b \in made, NEW p \in Presentations(s), ValidIntent(s, p, b),
           NEW limits, limits = b.l2.intent.pairs[b.pair]
    PROVE  /\ Price[b.cart] \in limits.min..limits.max
           /\ /\ limits.payees # <<>>
              /\ b.l2.intent.shops[b.shop] \in Range(limits.payees[1])
              => b.payee \in Range(limits.payees[1])
           /\ limits.extra = Absent
<1>1. Delegated(s, b) /\ p = PaymentView(b)
  BY IntentMeans
<1>2. b.l2 = s /\ b.side = "payment" /\ b # Absent
  BY <1>1 DEF Delegated
<1>3. Range(p.discs) = {Disclosure(s, "payment", b.pair), Disclosure(s, "merchants", b.shop)}
  BY <1>1, <1>2, PurchaseParts DEF Range
<1>4. b.pair \in Pairs(s.intent)
  <2>1. b.pair \in DOMAIN s.intent.pairs /\ s.intent.open /\ s.intent \in Intents
    BY <1>2, PurchaseParts DEF TypeOK, Layer2s
  <2>2. s.intent.pairs \in Seq(Limits)
    BY <2>1, IntentsHaveParts
  <2> QED
    BY <2>1, <2>2 DEF Pairs, PairCount
<1>5. PaymentsShown(s, p) = {b.pair}
  BY <1>3, <1>4 DEF PaymentsShown, Disclosure
<1>6. Satisfied(s, p, b, "strict")
  BY <1>2 DEF ValidIntent
<1>7. /\ Price[b.cart] \in limits.min..limits.max
      /\ limits.payees # <<>> =>
           AllowedMerchants(s, p) = {} \/ b.payee \in AllowedMerchants(s, p)
      /\ limits.extra = Absent
  <2>1. PaymentsShown(b.l2, p) = {b.pair} /\ Satisfied(b.l2, p, b, "strict")
    BY <1>2, <1>5, <1>6
  <2>2. /\ Price[b.cart] \in limits.min..limits.max
        /\ limits.payees # <<>> =>
             /\ limits.payees[1] # <<>>
             /\ AllowedMerchants(b.l2, p) = {} \/ b.payee \in AllowedMerchants(b.l2, p)
        /\ limits.extra # Absent => "strict" = "permissive"
    <3>1. limits = b.l2.intent.pairs[b.pair]
      OBVIOUS
    <3> QED
      BY <2>1, <3>1, SatisfiedMeans
  <2> QED
    BY <1>2, <2>2
<1>8. Enforced(s, p) = limits
  BY <1>2, <1>5, EnforcedPair
<1>9. ASSUME limits.payees # <<>>, s.intent.shops[b.shop] \in Range(limits.payees[1])
      PROVE  b.payee \in Range(limits.payees[1])
  <2>1. ShopShown(s, p, s.intent.shops[b.shop])
    BY <1>2, <1>3 DEF ShopShown, TypeOK
  <2>2. s.intent.shops[b.shop] \in AllowedMerchants(s, p)
    BY <1>8, <1>9, <2>1 DEF AllowedMerchants
  <2> QED
    BY <1>7, <1>8, <1>9, <2>2 DEF AllowedMerchants
<1> QED
  BY <1>2, <1>7, <1>9

LEMMA StagedLimits ==
    ASSUME TypeOK, NEW s \in signed, s.intent.open, NEW b \in made, NEW mode, ValidStaged(s, b, mode),
           NEW limits, limits = b.l2.intent.pairs[b.pair]
    PROVE  /\ Price[b.cart] \in limits.min..limits.max
           /\ limits.payees # <<>> => b.payee \in Range(limits.payees[1])
           /\ limits.extra # Absent => mode = "permissive"
<1>1. Delegated(s, b) /\ Len(s.intent.pairs) = 1
  BY StagedMeans
<1>2. b.l2 = s /\ s \in Layer2s /\ s.intent \in Intents
  BY <1>1 DEF Delegated, TypeOK, Layer2s
<1>3. s.intent.pairs \in Seq(Limits) /\ s.intent.shops \in Seq(Shops)
  BY <1>2, IntentsHaveParts
<1>4. Pairs(s.intent) = {1} /\ b.pair = 1
  <2>1. b.pair \in DOMAIN s.intent.pairs
    BY <1>2 DEF TypeOK
  <2>2. DOMAIN s.intent.pairs = {1}
    BY <1>1, <1>3
  <2> QED
    BY <1>1, <2>1, <2>2 DEF Pairs, PairCount
<1> DEFINE p == Whole(s)
<1>5. Range(p.discs) = Range(Merchants(s)) \cup Range(Items(s)) \cup Range(Mandates(s))
  BY <1>2, OpenPresentations DEF Whole, Show
<1> HIDE DEF p
<1>6. Disclosure(s, "payment", 1) \in Range(p.discs)
  <2>1. PairCount(s.intent) = 1
    BY <1>1 DEF PairCount
  <2>2. 2 \in DOMAIN Mandates(s)
    BY <1>2, <2>1, MandatesOf
  <2>3. Mandates(s)[2] = Disclosure(s, "payment", 1)
    <3>1. 2 % 2 # 1 /\ (2 + 1) \div 2 = 1
      OBVIOUS
    <3>2. 2 \in 1..(2 * PairCount(s.intent))
      BY <2>1
    <3> QED
      BY <3>1, <3>2 DEF Mandates
  <2> QED
    BY <1>5, <2>2, <2>3 DEF Range
<1>7. PaymentsShown(s, p) = {b.pair}
  BY <1>4, <1>6 DEF PaymentsShown
<1>8. Satisfied(s, p, b, mode)
  BY DEF ValidStaged, p
<1>9. /\ Price[b.cart] \in limits.min..limits.max
      /\ limits.payees # <<>> =>
           /\ limits.payees[1] # <<>>
           /\ AllowedMerchants(s, p) = {} \/ b.payee \in AllowedMerchants(s, p)
      /\ limits.extra # Absent => mode = "permissive"
  <2>1. PaymentsShown(b.l2, p) = {b.pair} /\ Satisfied(b.l2, p, b, mode)
    BY <1>2, <1>7, <1>8
  <2>2. /\ Price[b.cart] \in limits.min..limits.max
        /\ limits.payees # <<>> =>
             /\ limits.payees[1] # <<>>
             /\ AllowedMerchants(b.l2, p) = {} \/ b.payee \in AllowedMerchants(b.l2, p)
        /\ limits.extra # Absent => mode = "permissive"
    <3>1. limits = b.l2.intent.pairs[b.pair]
      OBVIOUS
    <3> QED
      BY <2>1, <3>1, SatisfiedMeans
  <2> QED
    BY <1>2, <2>2
<1>10. Enforced(s, p) = limits
  BY <1>2, <1>7, EnforcedPair
<1>11. ASSUME limits.payees # <<>> PROVE b.payee \in Range(limits.payees[1])
  <2>1. limits \in Limits
    BY <1>2, <1>3, <1>4, <1>1, ElementOfSeq
  <2>2. 1 \in DOMAIN limits.payees /\ limits.payees[1] \in Seq(Shops) /\ limits.payees[1] # <<>>
    BY <1>9, <1>11, <2>1 DEF Limits
  <2>3. Range(limits.payees[1]) \subseteq Range(s.intent.shops)
    <3>1. limits = s.intent.pairs[1] /\ 1 \in DOMAIN s.intent.pairs
      BY <1>1, <1>2, <1>3, <1>4
    <3>2. \A n \in DOMAIN s.intent.pairs[1].payees :
            Range(s.intent.pairs[1].payees[n]) \subseteq Range(s.intent.shops)
      BY <1>2, <3>1, PayeesAreShops
    <3> QED
      BY <2>2, <3>1, <3>2
  <2>4. \A n \in DOMAIN s.intent.shops : Disclosure(s, "merchants", n) \in Range(p.discs)
    <3>1. DOMAIN s.intent.shops = 1..Len(s.intent.shops) /\ Len(s.intent.shops) \in Nat
      BY <1>3
    <3>2. Range(Merchants(s)) = {Disclosure(s, "merchants", n) : n \in 1..Len(s.intent.shops)}
      <4>1. "merchants" \in Kinds \cup {"merchants", "items"} /\ Len(s.intent.shops) \in Nat
        BY <3>1
      <4> QED
        BY <1>2, <4>1, ListingTyped DEF Merchants
    <3> QED
      BY <1>5, <3>1, <3>2
  <2>5. \A shop \in Range(limits.payees[1]) : shop \in AllowedMerchants(s, p)
    BY <1>10, <1>11, <2>3, <2>4 DEF AllowedMerchants, ShopShown, Range
  <2>6. Range(limits.payees[1]) # {}
    <3> DEFINE q == limits.payees[1]
    <3>1. q \in Seq(Shops) /\ q # <<>>
      BY <2>2
    <3> HIDE DEF q
    <3>2. 1 \in DOMAIN q
      BY <3>1
    <3>3. Range(q) # {}
      BY <3>2 DEF Range
    <3> QED
      BY <3>3 DEF q
  <2> QED
    BY <1>9, <1>10, <1>11, <2>5, <2>6 DEF AllowedMerchants
<1> QED
  BY <1>9, <1>11

------------------------------------------------------------------------------
(* The theorem. *)

WithinIntent(o) ==
    /\ Alive(o.l2, o.purchase)
    /\ IF o.l2.intent.open THEN Delegated(o.l2, o.purchase) /\ WithinLimits(o)
       ELSE o.purchase = Absent

LEMMA FinalAccepted ==
    ASSUME TypeOK, NEW s \in signed, Accepts("validate_intent", s, Absent)
    PROVE  WithinIntent([by |-> "validate_intent", l2 |-> s, purchase |-> Absent])
<1>1. PICK p \in Presentations(s) : ValidIntent(s, p, Absent)
  BY DEF Accepts
<1>2. ~s.intent.open /\ Chain!Authorized(Ask(p, <<>>, p, NoSides), clock)
  BY <1>1 DEF ValidIntent, ChainAccepts
<1>3. PICK discs : p = Show(s, discs)
  BY DEF Presentations, Whole, RolePresentation, PaymentView
<1>4. clock <= CardLife + Skew /\ clock <= s.at + MandateLife + Skew
  BY <1>2, <1>3, AuthorisedMeans DEF TypeOK
<1> QED
  BY <1>2, <1>4 DEF WithinIntent, Alive

LEMMA PurchaseAccepted ==
    ASSUME TypeOK, NEW by \in Networks, NEW s \in signed, NEW b \in made, Accepts(by, s, b)
    PROVE  WithinIntent([by |-> by, l2 |-> s, purchase |-> b])
<1> DEFINE o == [by |-> by, l2 |-> s, purchase |-> b]
           limits == b.l2.intent.pairs[b.pair]
<1>1. o.by = by /\ o.l2 = s /\ o.purchase = b
  OBVIOUS
<1>2. ASSUME Delegated(s, b), Lasting(s, b), Price[b.cart] \in limits.min..limits.max,
             limits.payees # <<>> /\ ListShown(o) => b.payee \in Range(limits.payees[1]),
             by # "autonomous_flow" => limits.extra = Absent
      PROVE  WithinIntent(o)
  <2>1. s.intent.open /\ b.l2 = s /\ LimitsOf(o) = limits
    BY <1>1, <1>2 DEF Delegated, LimitsOf
  <2>2. Alive(o.l2, o.purchase)
    BY <1>1, <1>2 DEF Alive, Lasting
  <2> HIDE DEF o, limits
  <2>3. WithinLimits(o)
    BY <1>1, <1>2, <2>1 DEF WithinLimits
  <2> QED
    BY <1>1, <1>2, <2>1, <2>2, <2>3 DEF WithinIntent
<1>3. CASE by = "validate_intent"
  <2>1. PICK p \in Presentations(s) : ValidIntent(s, p, b)
    BY <1>3 DEF Accepts
  <2>2. Delegated(s, b) /\ Lasting(s, b)
    BY <2>1, IntentMeans
  <2>3. ListShown(o) => b.l2.intent.shops[b.shop] \in Range(limits.payees[1])
    BY <1>1, <1>3, <2>2 DEF ListShown, LimitsOf, Delegated
  <2> HIDE DEF o
  <2>4. /\ Price[b.cart] \in limits.min..limits.max
        /\ limits.payees # <<>> /\ ListShown(o) => b.payee \in Range(limits.payees[1])
        /\ limits.extra = Absent
    BY <2>1, <2>3, IntentLimits
  <2> QED
    BY <1>2, <2>2, <2>4 DEF o
<1>4. CASE by # "validate_intent"
  <2>1. PICK mode : /\ s.intent.open /\ ValidStaged(s, b, mode)
                    /\ mode = "permissive" => by = "autonomous_flow"
    BY <1>4 DEF Accepts, Networks
  <2>2. Delegated(s, b) /\ Lasting(s, b)
    BY <2>1, StagedMeans
  <2>3. /\ Price[b.cart] \in limits.min..limits.max
        /\ limits.payees # <<>> => b.payee \in Range(limits.payees[1])
        /\ limits.extra # Absent => mode = "permissive"
    BY <2>1, StagedLimits
  <2> QED
    BY <1>2, <2>1, <2>2, <2>3
<1> QED
  BY <1>3, <1>4

\* Whatever intents there are, whatever is handed to whom, however late, twice or
\* out of order: what the networks and the merchant accept is a purchase the user
\* authorised, by the agent the user named, while everything lasts, and within
\* the limits of the pair it was signed for.
THEOREM PurchasesWithinIntent == Spec => AcceptedWithinIntent
<1>1. ASSUME TypeOK, [Next]_vars
      PROVE  [/\ \A o \in paid' \ paid : WithinIntent(o)
              /\ \A o \in sold' \ sold :
                   Alive(o.l2, o.purchase) /\ Delegated(o.l2, [o.purchase EXCEPT !.side = "payment"])]_vars
  <2>1. CASE \/ Tick \/ Authorise \/ Fulfil \/ UNCHANGED vars
    BY <2>1 DEF Tick, Authorise, Fulfil, vars
  <2>2. ASSUME NEW by \in Networks, NEW s \in signed, NEW b \in OrAbsent(made),
               Accepts(by, s, b), Pay(by, s, b)
        PROVE  (\A o \in paid' \ paid : WithinIntent(o)) /\ sold' = sold
    <3>1. WithinIntent([by |-> by, l2 |-> s, purchase |-> b])
      <4>1. CASE b = Absent
        <5>1. by = "validate_intent"
          BY <2>2, <4>1 DEF Accepts
        <5> QED
          BY <1>1, <2>2, <4>1, <5>1, FinalAccepted
      <4>2. CASE b # Absent
        BY <1>1, <2>2, <4>2, PurchaseAccepted DEF OrAbsent
      <4> QED
        BY <4>1, <4>2
    <3> QED
      BY <2>2, <3>1 DEF Pay
  <2>3. ASSUME NEW b \in made, VerifyCheckout(b)
        PROVE  /\ paid' = paid
               /\ \A o \in sold' \ sold :
                    Alive(o.l2, o.purchase) /\ Delegated(o.l2, [o.purchase EXCEPT !.side = "payment"])
    <3>1. PICK s \in signed : s.intent.open /\ ValidCheckout(s, b) /\ sold' = sold \cup {[l2 |-> s, purchase |-> b]}
      BY <2>3 DEF VerifyCheckout
    <3>2. b.l2 = s /\ b.agent = s.intent.agent /\ Lasting(s, b) /\ b \in Purchase
      BY <1>1, <3>1, CheckoutMeans, PurchaseParts
    <3>3. Alive(s, b)
      BY <3>2 DEF Alive, Lasting
    <3>4. Delegated(s, [b EXCEPT !.side = "payment"])
      <4> DEFINE x == [b EXCEPT !.side = "payment"]
      <4>1. x.l2 = s /\ x.agent = s.intent.agent /\ x.side = "payment" /\ x \in Purchase
        BY <3>2 DEF Purchase, Kinds
      <4> HIDE DEF x
      <4>2. Delegated(s, x)
        BY <3>1, <4>1, AbsentIsNothing DEF Delegated
      <4> QED
        BY <4>2 DEF x
    <3> QED
      BY <2>3, <3>1, <3>3, <3>4 DEF VerifyCheckout
  <2> QED
    BY <1>1, <2>1, <2>2, <2>3, NextSplit
<1> QED
  BY <1>1, TypeInit, TypeStep, PTL DEF Spec, AcceptedWithinIntent, WithinIntent
===============================================================================
