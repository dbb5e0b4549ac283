------------------------ MODULE ImmediateIssuanceProofs ------------------------
(***************************************************************************)
(* Theorems about ImmediateIssuance, for any number of objects and carts:  *)
(* the declarative rules of ChainSpec, applied to what the user signs,     *)
(* accept it exactly when it is what the user meant.                       *)
(***************************************************************************)
EXTENDS ImmediateIssuance, FiniteSetTheorems, SequenceTheorems, TLAPS

CheckoutPart == [jwt: OrAbsent(Carts), hash: OrAbsent(Carts)]
PaymentPart == [txid: OrAbsent(Carts)]

\* A value an object holds is the cart it was first signed for.
HoldsMeant ==
    /\ \A c \in Checkouts : hash[c] = meant[c]
    /\ \A p \in Payments : txid[p] = meant[p]

\* The history kept with a credential is what the credential itself says.
LastMeant ==
    last # Absent =>
        last.meant = (IF last.checkout = Absent THEN {} ELSE {last.checkout.hash})
                       \cup (IF last.payment = Absent THEN {} ELSE {last.payment.txid})

Inv == TypeOK /\ HoldsMeant /\ LastMeant

------------------------------------------------------------------------------
(* Issuing. *)

LEMMA FilledTyped ==
    ASSUME NEW S, NEW old \in [S -> OrAbsent(Carts)], NEW object, NEW value \in OrAbsent(Carts)
    PROVE  /\ Filled(old, object, value) \in [S -> OrAbsent(Carts)]
           /\ \A o \in S : o # object => Filled(old, object, value)[o] = old[o]
           /\ object \in S => Filled(old, object, value)[object]
                                = IF old[object] = Absent THEN value ELSE old[object]
BY DEF Filled

LEMMA InvInit == Init => Inv
BY DEF Init, Inv, TypeOK, HoldsMeant, LastMeant, OrAbsent, Objects

LEMMA InvSetCart == ASSUME Inv, SetCart PROVE Inv'
BY DEF SetCart, Inv, TypeOK, HoldsMeant, LastMeant

LEMMA InvReset == ASSUME Inv, Reset PROVE Inv'
<1>1. CASE \E c \in Checkouts : /\ hash' = [hash EXCEPT ![c] = Absent]
                               /\ meant' = [meant EXCEPT ![c] = Absent]
                               /\ UNCHANGED txid
  <2>1. TypeOK'
    BY <1>1 DEF Reset, Inv, TypeOK, Objects, OrAbsent
  <2>2. HoldsMeant'
    BY <1>1, ObjectsHaveOneKind DEF Reset, Inv, TypeOK, HoldsMeant, Objects
  <2> QED
    BY <2>1, <2>2 DEF Reset, Inv, LastMeant
<1>2. CASE \E p \in Payments : /\ txid' = [txid EXCEPT ![p] = Absent]
                              /\ meant' = [meant EXCEPT ![p] = Absent]
                              /\ UNCHANGED hash
  <2>1. TypeOK'
    BY <1>2 DEF Reset, Inv, TypeOK, Objects, OrAbsent
  <2>2. HoldsMeant'
    BY <1>2, ObjectsHaveOneKind DEF Reset, Inv, TypeOK, HoldsMeant, Objects
  <2> QED
    BY <2>1, <2>2 DEF Reset, Inv, LastMeant
<1> QED
  BY <1>1, <1>2 DEF Reset

LEMMA InvIssue ==
    ASSUME Inv, NEW c \in OrAbsent(Checkouts), NEW p \in OrAbsent(Payments), Issue(c, p)
    PROVE  Inv'
<1> DEFINE value == Computed(c)
           once == Filled(meant, c, value)
<1>1. value \in OrAbsent(Carts)
  BY DEF Computed, Inv, TypeOK, OrAbsent
<1>2. /\ hash \in [Checkouts -> OrAbsent(Carts)] /\ txid \in [Payments -> OrAbsent(Carts)]
      /\ meant \in [Objects -> OrAbsent(Carts)]
  BY DEF Inv, TypeOK
<1>3. once \in [Objects -> OrAbsent(Carts)]
  BY <1>1, <1>2, FilledTyped
<1>4. /\ hash' = Filled(hash, c, value) /\ txid' = Filled(txid, p, value)
      /\ meant' = Filled(once, p, value) /\ cart' = cart
  BY DEF Issue
<1> HIDE DEF value, once
<1>5. /\ hash' \in [Checkouts -> OrAbsent(Carts)] /\ txid' \in [Payments -> OrAbsent(Carts)]
      /\ meant' \in [Objects -> OrAbsent(Carts)]
  BY <1>1, <1>2, <1>3, <1>4, FilledTyped
<1>6. ASSUME NEW x \in Checkouts PROVE hash'[x] = meant'[x]
  <2>1. x \in Objects /\ x # p /\ hash[x] = meant[x]
    BY ObjectsHaveOneKind, AbsentIsNothing DEF Objects, OrAbsent, Inv, HoldsMeant
  <2>2. meant'[x] = once[x]
    BY <1>1, <1>3, <1>4, <2>1, FilledTyped
  <2>3. hash'[x] = Filled(meant, c, value)[x]
    <3>1. CASE x = c
      BY <1>1, <1>2, <1>4, <2>1, <3>1, FilledTyped
    <3>2. CASE x # c
      BY <1>1, <1>2, <1>4, <2>1, <3>2, FilledTyped
    <3> QED
      BY <3>1, <3>2
  <2> QED
    BY <2>2, <2>3 DEF once
<1>7. ASSUME NEW x \in Payments PROVE txid'[x] = meant'[x]
  <2>1. x \in Objects /\ x # c /\ txid[x] = meant[x]
    BY ObjectsHaveOneKind, AbsentIsNothing DEF Objects, OrAbsent, Inv, HoldsMeant
  <2>2. once[x] = meant[x]
    BY <1>1, <1>2, <2>1, FilledTyped DEF once
  <2>3. CASE x = p
    BY <1>1, <1>2, <1>3, <1>4, <2>1, <2>2, <2>3, FilledTyped
  <2>4. CASE x # p
    BY <1>1, <1>2, <1>3, <1>4, <2>1, <2>2, <2>4, FilledTyped
  <2> QED
    BY <2>3, <2>4
<1>8. last' = [checkout |-> IF c = Absent THEN Absent ELSE [jwt |-> cart[c], hash |-> hash'[c]],
               payment |-> IF p = Absent THEN Absent ELSE [txid |-> txid'[p]],
               meant |-> {meant'[o] : o \in {c, p} \ {Absent}}]
  BY DEF Issue
<1>9. /\ last'.checkout \in OrAbsent(CheckoutPart) /\ last'.payment \in OrAbsent(PaymentPart)
      /\ last'.meant \in SUBSET OrAbsent(Carts)
  <2>1. cart \in [Checkouts -> OrAbsent(Carts)]
    BY DEF Inv, TypeOK
  <2>2. \A o \in {c, p} \ {Absent} : meant'[o] \in OrAbsent(Carts)
    BY <1>5 DEF Objects, OrAbsent
  <2> QED
    BY <1>5, <1>8, <2>1, <2>2 DEF OrAbsent, CheckoutPart, PaymentPart
<1>10. TypeOK'
  <2>1. last' \in [checkout: OrAbsent(CheckoutPart), payment: OrAbsent(PaymentPart),
                   meant: SUBSET OrAbsent(Carts)]
    BY <1>8, <1>9
  <2> QED
    BY <1>4, <1>5, <2>1 DEF Inv, TypeOK, CheckoutPart, PaymentPart, OrAbsent
<1>11. LastMeant'
  <2>1. c = Absent <=> last'.checkout = Absent
    <3>1. ASSUME c # Absent PROVE last'.checkout \in CheckoutPart
      <4>1. c \in Checkouts /\ cart[c] \in OrAbsent(Carts) /\ hash'[c] \in OrAbsent(Carts)
        BY <1>5, <3>1 DEF OrAbsent, Inv, TypeOK
      <4> QED
        BY <1>8, <3>1, <4>1 DEF CheckoutPart
    <3>2. Absent \notin CheckoutPart
      BY AbsentIsNothing DEF CheckoutPart
    <3> QED
      BY <1>8, <3>1, <3>2
  <2>2. p = Absent <=> last'.payment = Absent
    <3>1. ASSUME p # Absent PROVE last'.payment \in PaymentPart
      <4>1. p \in Payments /\ txid'[p] \in OrAbsent(Carts)
        BY <1>5, <3>1 DEF OrAbsent
      <4> QED
        BY <1>8, <3>1, <4>1 DEF PaymentPart
    <3>2. Absent \notin PaymentPart
      BY AbsentIsNothing DEF PaymentPart
    <3> QED
      BY <1>8, <3>1, <3>2
  <2>3. c # Absent => c \in Checkouts /\ last'.checkout.hash = meant'[c]
    BY <1>6, <1>8 DEF OrAbsent
  <2>4. p # Absent => p \in Payments /\ last'.payment.txid = meant'[p]
    BY <1>7, <1>8 DEF OrAbsent
  <2>5. last'.meant = {meant'[o] : o \in {c, p} \ {Absent}}
    BY <1>8
  <2>6. CASE c = Absent /\ p = Absent
    BY <2>1, <2>2, <2>5, <2>6 DEF LastMeant
  <2>7. CASE c # Absent /\ p = Absent
    BY <2>1, <2>2, <2>3, <2>5, <2>7 DEF LastMeant
  <2>8. CASE c = Absent /\ p # Absent
    BY <2>1, <2>2, <2>4, <2>5, <2>8 DEF LastMeant
  <2>9. CASE c # Absent /\ p # Absent
    BY <2>1, <2>2, <2>3, <2>4, <2>5, <2>9 DEF LastMeant
  <2> QED
    BY <2>6, <2>7, <2>8, <2>9
<1> QED
  BY <1>6, <1>7, <1>10, <1>11 DEF Inv, HoldsMeant

LEMMA Invariance == Spec => []Inv
<1>1. Inv /\ [Next]_vars => Inv'
  <2> SUFFICES ASSUME Inv, [Next]_vars PROVE Inv'
    OBVIOUS
  <2>1. CASE SetCart BY <2>1, InvSetCart
  <2>2. CASE Reset BY <2>2, InvReset
  <2>3. CASE \E c \in OrAbsent(Checkouts), p \in OrAbsent(Payments) : Issue(c, p)
    BY <2>3, InvIssue
  <2>4. CASE UNCHANGED vars
    BY <2>4 DEF vars, Inv, TypeOK, HoldsMeant, LastMeant
  <2> QED
    BY <2>1, <2>2, <2>3, <2>4 DEF Next
<1> QED
  BY <1>1, InvInit, PTL DEF Spec

------------------------------------------------------------------------------
(* The verifier's rules, on a credential of this shape. *)

LEMMA SameCardinality == ASSUME NEW S PROVE Chain!Cardinality(S) = Cardinality(S)
BY DEF Chain!Cardinality, Cardinality

LEMMA TwoInARow == ASSUME NEW a, NEW b PROVE <<a>> \o <<b>> = <<a, b>>
<1>1. <<a>> \in Seq({a, b}) /\ <<b>> \in Seq({a, b}) /\ <<a, b>> \in Seq({a, b})
  OBVIOUS
<1>2. /\ Len(<<a>> \o <<b>>) = 2
      /\ \A i \in 1 .. 2 : (<<a>> \o <<b>>)[i] = <<a, b>>[i]
  BY <1>1, ConcatProperties
<1> QED
  BY <1>1, <1>2, ConcatProperties, SeqEqual

\* Which positions of delegate_payload hold what.
LEMMA Shape ==
    ASSUME NEW cr, cr.checkout \in OrAbsent(CheckoutPart), cr.payment \in OrAbsent(PaymentPart)
    PROVE  /\ DOMAIN Layer2(cr).jwt.delegates = DOMAIN Disclosures(cr)
           /\ Layer2(cr).jwt.delegates = [n \in DOMAIN Disclosures(cr) |->
                                    [disc |-> Disclosures(cr)[n], inline |-> FALSE]]
           /\ \A n \in DOMAIN Disclosures(cr) :
                 /\ Chain!MandateAt(Layer2(cr), n) = Disclosures(cr)[n]
                 /\ Chain!Ref(Layer2(cr), n) = Disclosures(cr)[n]
                 /\ Chain!Resolved(Layer2(cr), n)
           /\ \A kind : Chain!Disclosed(Layer2(cr), kind)
                          = {n \in DOMAIN Disclosures(cr) : Disclosures(cr)[n].kind = kind}
<1>1. \A n \in DOMAIN Disclosures(cr) : Disclosures(cr)[n] \in FinalMandates
  <2>1. cr.checkout # Absent => Final("checkout", cr.checkout.hash, cr.checkout.jwt) \in FinalMandates
    BY DEF FinalMandates, CheckoutPart, OrAbsent
  <2>2. cr.payment # Absent => Final("payment", cr.payment.txid, Absent) \in FinalMandates
    BY DEF FinalMandates, PaymentPart, OrAbsent
  <2> HIDE DEF FinalMandates
  <2> QED
    BY <2>1, <2>2 DEF Disclosures
<1>2. /\ Layer2(cr).jwt.delegates = [n \in DOMAIN Disclosures(cr) |->
                               [disc |-> Disclosures(cr)[n], inline |-> FALSE]]
      /\ Layer2(cr).discs = Disclosures(cr)
  BY DEF Layer2
<1>d. DOMAIN Layer2(cr).jwt.delegates = DOMAIN Disclosures(cr)
  BY <1>2
<1>3. ASSUME NEW n \in DOMAIN Disclosures(cr)
      PROVE  /\ Chain!MandateAt(Layer2(cr), n) = Disclosures(cr)[n]
             /\ Chain!Ref(Layer2(cr), n) = Disclosures(cr)[n]
             /\ Chain!Resolved(Layer2(cr), n)
  <2>1. Layer2(cr).jwt.delegates[n].disc = Disclosures(cr)[n] /\ Layer2(cr).jwt.delegates[n].inline = FALSE
    BY <1>2, <1>3
  <2> QED
    BY <1>1, <1>2, <1>3, <2>1 DEF Chain!MandateAt, Chain!Ref, Chain!Resolved, Chain!Range
<1>4. ASSUME NEW kind
      PROVE  Chain!Disclosed(Layer2(cr), kind) = {n \in DOMAIN Disclosures(cr) : Disclosures(cr)[n].kind = kind}
  BY <1>d, <1>3 DEF Chain!Disclosed
<1> QED
  BY <1>2, <1>d, <1>3, <1>4

\* What does not depend on the cart: the issuer's signature, and the user's.
LEMMA FormInOrder ==
    ASSUME NEW cr, cr.checkout \in OrAbsent(CheckoutPart), cr.payment \in OrAbsent(PaymentPart)
    PROVE  /\ CallOn(cr).form # "both"
           /\ Chain!Issued(CallOn(cr), 0)
           /\ Chain!Signed(CallOn(cr), 0)
           /\ ~Chain!OpenAuthorized(CallOn(cr), 0)
<1> DEFINE c == CallOn(cr)
           D == Disclosures(cr)
<1>1. /\ c.form = "single" /\ c.l1 = Layer1 /\ c.l2 = Layer2(cr) /\ c.l3s = <<>>
      /\ c.l1_serialized = Absent /\ c.issuer_key = "issuer"
      /\ c.expected_l2 = [aud |-> Absent, nonce |-> Absent]
  BY DEF CallOn, Anything
<1>2. /\ Layer1.jwt.formed /\ Layer1.jwt.signer = "issuer" /\ Layer1.jwt.key = "user"
      /\ Layer1.jwt.iat = 0 /\ Layer1.jwt.exp = 1
  BY DEF Layer1
<1>3. LET l2 == Layer2(cr) IN
      /\ l2.jwt.formed /\ l2.jwt.signer = "user" /\ l2.jwt.typ = "kb-sd-jwt" /\ l2.jwt.sd_hash = Layer1
      /\ l2.jwt.iat = 0 /\ l2.jwt.exp = 1
  BY DEF Layer2
<1>4. ASSUME NEW jwt, jwt.iat = 0, jwt.exp = 1 PROVE Chain!Live(jwt, 0)
  BY <1>4, MalformedIsNoTime DEF Chain!Live, Chain!Expired, Chain!FutureDated
<1>5. Chain!Issued(c, 0)
  BY <1>1, <1>2, <1>4, AbsentIsNothing DEF Chain!Issued
<1>6. \A j, k \in DOMAIN D : D[j] = D[k] => j = k
  <2>1. \A link, content, other : Final("checkout", link, content) # Final("payment", other, Absent)
    BY DEF Final
  <2> HIDE DEF Final
  <2> QED
    BY <2>1 DEF Disclosures
<1>7. \A j, k \in DOMAIN Layer2(cr).jwt.delegates :
         Chain!Ref(Layer2(cr), j) = Chain!Ref(Layer2(cr), k) => j = k
  <2>1. /\ DOMAIN Layer2(cr).jwt.delegates = DOMAIN D
        /\ \A n \in DOMAIN D : Chain!Ref(Layer2(cr), n) = D[n]
    BY Shape
  <2> HIDE DEF D
  <2> QED
    BY <1>6, <2>1
<1>8. Chain!Signed(c, 0)
  <2>1. Chain!HeardAs(c.expected_l2, c.l2.jwt)
    BY <1>1 DEF Chain!HeardAs
  <2> HIDE DEF c, D
  <2> QED
    BY <1>1, <1>2, <1>3, <1>4, <1>7, <2>1, AbsentIsNothing DEF Chain!Signed
<1>9. ~Chain!OpenAuthorized(c, 0)
  BY <1>1, <1>3 DEF Chain!OpenAuthorized
<1> QED
  BY <1>1, <1>5, <1>8, <1>9

\* The card is named by L1, and only a payment mandate can name it in Layer 2.
LEMMA UsableIffPayment ==
    ASSUME NEW cr, cr.checkout \in OrAbsent(CheckoutPart), cr.payment \in OrAbsent(PaymentPart)
    PROVE  Chain!Usable(CallOn(cr)) <=> cr.payment # Absent
<1> DEFINE c == CallOn(cr)
           D == Disclosures(cr)
           l2 == Layer2(cr)
<1>1. c.l1.jwt.card = "card" /\ c.l2 = l2
  BY DEF CallOn, Layer1
<1>2. /\ \A kind : Chain!Disclosed(l2, kind) = {n \in DOMAIN D : D[n].kind = kind}
      /\ \A n \in DOMAIN D : Chain!MandateAt(l2, n) = D[n]
  <2>1. /\ \A kind : Chain!Disclosed(Layer2(cr), kind)
                        = {n \in DOMAIN Disclosures(cr) : Disclosures(cr)[n].kind = kind}
        /\ \A n \in DOMAIN Disclosures(cr) : Chain!MandateAt(Layer2(cr), n) = Disclosures(cr)[n]
    BY Shape
  <2> QED
    BY <2>1, Zenon
<1>3. \A n \in DOMAIN D : D[n].complete /\ (D[n].kind = "payment" => D[n].instrument = "card")
  BY DEF Disclosures, Final
<1>4. (\E n \in DOMAIN D : D[n].kind = "payment") <=> cr.payment # Absent
  <2> DEFINE first == Final("checkout", cr.checkout.hash, cr.checkout.jwt)
             second == Final("payment", cr.payment.txid, Absent)
  <2>1. first.kind = "checkout" /\ second.kind = "payment"
    BY DEF Final
  <2>2. D = (IF cr.checkout = Absent THEN <<>> ELSE <<first>>)
              \o (IF cr.payment = Absent THEN <<>> ELSE <<second>>)
    BY DEF Disclosures
  <2> HIDE DEF D, first, second
  <2>3. CASE cr.checkout = Absent /\ cr.payment = Absent
    <3>1. D = <<>>
      BY <2>2, <2>3
    <3> QED
      BY <2>3, <3>1
  <2>4. CASE cr.checkout = Absent /\ cr.payment # Absent
    <3>1. D = <<second>>
      BY <2>2, <2>4
    <3> QED
      BY <2>1, <2>4, <3>1
  <2>5. CASE cr.checkout # Absent /\ cr.payment = Absent
    <3>1. D = <<first>>
      BY <2>2, <2>5
    <3> QED
      BY <2>1, <2>5, <3>1
  <2>6. CASE cr.checkout # Absent /\ cr.payment # Absent
    <3>1. D = <<first, second>>
      BY <2>2, <2>6, TwoInARow
    <3>2. 2 \in DOMAIN D /\ D[2] = second
      BY <3>1
    <3> QED
      BY <2>1, <2>6, <3>2
  <2> QED
    BY <2>3, <2>4, <2>5, <2>6
<1> HIDE DEF c, D, l2
<1>5. Chain!CardNamed(c) <=> \E n \in DOMAIN D : D[n].kind = "payment"
  BY <1>1, <1>2, <1>3, AbsentIsNothing DEF Chain!CardNamed
<1>6. (\E n \in DOMAIN D : D[n].kind = "payment") =>
        /\ Chain!Shown(l2) # {}
        /\ \A k \in Chain!Shown(l2) : Chain!MandateAt(l2, k).complete
        /\ \A k \in Chain!Disclosed(l2, "payment") : Chain!MandateAt(l2, k).instrument # Absent
  BY <1>2, <1>3, AbsentIsNothing DEF Chain!Shown
<1> QED
  BY <1>1, <1>4, <1>5, <1>6 DEF Chain!Usable, c

LEMMA FinalIffLinked ==
    ASSUME NEW cr, cr.checkout \in OrAbsent(CheckoutPart), cr.payment \in PaymentPart,
           cr.payment # Absent
    PROVE  Chain!FinalAuthorized(CallOn(cr)) <=>
               /\ cr.checkout # Absent
               /\ cr.payment.txid # Absent /\ cr.payment.txid = cr.checkout.hash
               /\ cr.checkout.jwt = cr.checkout.hash
<1> DEFINE c == CallOn(cr)
           D == Disclosures(cr)
           l2 == Layer2(cr)
<1>1. c.l2 = l2 /\ l2 = Layer2(cr) /\ c.l3s = <<>> /\ l2.jwt.typ = "kb-sd-jwt"
  BY DEF CallOn, Layer2
<1>2. /\ \A kind : Chain!Disclosed(l2, kind) = {n \in DOMAIN D : D[n].kind = kind}
      /\ \A n \in DOMAIN D : Chain!MandateAt(l2, n) = D[n]
  <2>1. cr.payment \in OrAbsent(PaymentPart)
    BY DEF OrAbsent
  <2>2. /\ \A kind : Chain!Disclosed(Layer2(cr), kind)
                        = {n \in DOMAIN Disclosures(cr) : Disclosures(cr)[n].kind = kind}
        /\ \A n \in DOMAIN Disclosures(cr) : Chain!MandateAt(Layer2(cr), n) = Disclosures(cr)[n]
    BY <2>1, Shape
  <2> QED
    BY <2>2, Zenon
<1>3. Chain!Given(c) = {}
  BY <1>1 DEF Chain!Given
<1>4. CASE cr.checkout = Absent
  <2>1. D = <<Final("payment", cr.payment.txid, Absent)>>
    BY <1>4 DEF Disclosures
  <2>2. DOMAIN D = {1} /\ D[1].kind = "payment"
    BY <2>1 DEF Final
  <2>3. Chain!Disclosed(l2, "checkout") = {} /\ Chain!Disclosed(l2, "payment") = {1}
    BY <1>2, <2>2
  <2>4. Cardinality({k \in {} : Chain!Linked(l2, k, 1)}) # 1
    BY FS_EmptySet
  <2>5. ~Chain!Matching(l2)
    <3> HIDE DEF D, c, l2
    <3>1. Chain!Matching(l2) => Cardinality({k \in Chain!Disclosed(l2, "checkout") : Chain!Linked(l2, k, 1)}) = 1
      BY <2>3, SameCardinality DEF Chain!Matching
    <3> QED
      BY <2>3, <2>4, <3>1
  <2> QED
    BY <1>1, <1>4, <2>5 DEF Chain!FinalAuthorized
<1>5. CASE cr.checkout # Absent
  <2>1. D = <<Final("checkout", cr.checkout.hash, cr.checkout.jwt), Final("payment", cr.payment.txid, Absent)>>
    <3> DEFINE first == Final("checkout", cr.checkout.hash, cr.checkout.jwt)
               second == Final("payment", cr.payment.txid, Absent)
    <3>1. D = <<first>> \o <<second>>
      BY <1>5 DEF Disclosures
    <3> HIDE DEF D, first, second
    <3>2. D = <<first, second>>
      BY <3>1, TwoInARow
    <3> QED
      BY <3>2 DEF first, second
  <2>2. /\ DOMAIN D = {1, 2} /\ D[1].kind = "checkout" /\ D[2].kind = "payment"
        /\ D[1].link = cr.checkout.hash /\ D[1].content = cr.checkout.jwt /\ D[2].link = cr.payment.txid
        /\ \A n \in {1, 2} : D[n].open = FALSE /\ D[n].key = Absent
    BY <2>1 DEF Final
  <2> HIDE DEF D, c, l2
  <2>3. Chain!Disclosed(l2, "checkout") = {1} /\ Chain!Disclosed(l2, "payment") = {2}
    BY <1>2, <2>2
  <2>4. Chain!Linked(l2, 1, 2) <=> cr.payment.txid # Absent /\ cr.payment.txid = cr.checkout.hash
    BY <1>2, <2>2 DEF Chain!Linked
  <2>5. Chain!Matching(l2) <=> Chain!Linked(l2, 1, 2)
    <3>1. \A P \in BOOLEAN : \A x : Cardinality({y \in {x} : P}) = 1 <=> P
      <4> TAKE P \in BOOLEAN
      <4> TAKE x
      <4>1. P => {y \in {x} : P} = {x}
        OBVIOUS
      <4>2. ~P => {y \in {x} : P} = {}
        OBVIOUS
      <4> QED
        BY <4>1, <4>2, FS_EmptySet, FS_Singleton
    <3> DEFINE P == Chain!Linked(l2, 1, 2)
    <3>2. /\ {m \in {2} : Chain!Linked(l2, 1, m)} = {m \in {2} : P}
          /\ {k \in {1} : Chain!Linked(l2, k, 2)} = {k \in {1} : P}
      OBVIOUS
    <3>3. P \in BOOLEAN
      BY DEF Chain!Linked
    <3> HIDE DEF P
    <3>4. Cardinality({m \in {2} : P}) = 1 <=> P
      BY <3>1, <3>3
    <3>5. Cardinality({k \in {1} : P}) = 1 <=> P
      BY <3>1, <3>3
    <3>6. Chain!Matching(l2) <=> P
      <4>1. Chain!Matching(l2) <=> /\ \A k \in {1} : Cardinality({m \in {2} : Chain!Linked(l2, k, m)}) = 1
                                   /\ \A m \in {2} : Cardinality({k \in {1} : Chain!Linked(l2, k, m)}) = 1
        BY <2>3, SameCardinality DEF Chain!Matching
      <4>2. Chain!Matching(l2) <=> /\ Cardinality({m \in {2} : Chain!Linked(l2, 1, m)}) = 1
                                   /\ Cardinality({k \in {1} : Chain!Linked(l2, k, 2)}) = 1
        BY <4>1
      <4> QED
        BY <3>2, <3>4, <3>5, <4>2
    <3> QED
      BY <3>6 DEF P
  <2>6. Chain!Shown(l2) = {1, 2}
    BY <2>3 DEF Chain!Shown
  <2>7. Chain!FinalAuthorized(c) <=> Chain!Matching(l2) /\ cr.checkout.jwt = cr.checkout.hash
    BY <1>1, <1>2, <1>3, <2>2, <2>3, <2>6 DEF Chain!FinalAuthorized
  <2> QED
    BY <1>5, <2>4, <2>5, <2>7 DEF c
<1> QED
  BY <1>4, <1>5

\* When the verifier's rules accept what was issued.
LEMMA AcceptedIffLinked ==
    ASSUME NEW cr, cr.checkout \in OrAbsent(CheckoutPart), cr.payment \in OrAbsent(PaymentPart)
    PROVE  Accepted(cr) <=>
               /\ cr.checkout # Absent /\ cr.payment # Absent
               /\ cr.payment.txid # Absent /\ cr.payment.txid = cr.checkout.hash
               /\ cr.checkout.jwt = cr.checkout.hash
<1>1. Accepted(cr) <=> Chain!Usable(CallOn(cr)) /\ Chain!FinalAuthorized(CallOn(cr))
  BY FormInOrder DEF Accepted, Chain!Authorized
<1>2. Chain!Usable(CallOn(cr)) <=> cr.payment # Absent
  BY UsableIffPayment
<1>3. ASSUME cr.payment # Absent
      PROVE  Chain!FinalAuthorized(CallOn(cr)) <=>
               /\ cr.checkout # Absent
               /\ cr.payment.txid # Absent /\ cr.payment.txid = cr.checkout.hash
               /\ cr.checkout.jwt = cr.checkout.hash
  BY <1>3, FinalIffLinked DEF OrAbsent
<1> QED
  BY <1>1, <1>2, <1>3

------------------------------------------------------------------------------
(* The theorems. *)

\* Every state of the mandate objects and of what they sign is well typed.
THEOREM TypeCorrect == Spec => []TypeOK
<1>1. Inv => TypeOK
  BY DEF Inv
<1> QED
  BY <1>1, Invariance, PTL

\* However many objects are combined, edited and used again, verify_chain's
\* rules accept what create_layer2_immediate signs exactly when both mandates
\* are there and were first signed for the cart they now carry.
THEOREM AcceptedAsMeant == Spec => []AcceptedIffMeant
<1>1. Inv => AcceptedIffMeant
  <2> SUFFICES ASSUME Inv, last # Absent
               PROVE  Accepted(last) <=> /\ Absent \notin {last.checkout, last.payment}
                                         /\ last.checkout.jwt # Absent
                                         /\ last.meant = {last.checkout.jwt}
    BY DEF AcceptedIffMeant
  <2>1. last.checkout \in OrAbsent(CheckoutPart) /\ last.payment \in OrAbsent(PaymentPart)
    BY DEF Inv, TypeOK, CheckoutPart, PaymentPart, OrAbsent
  <2>2. Accepted(last) <=>
               /\ last.checkout # Absent /\ last.payment # Absent
               /\ last.payment.txid # Absent /\ last.payment.txid = last.checkout.hash
               /\ last.checkout.jwt = last.checkout.hash
    BY <2>1, AcceptedIffLinked
  <2>3. last.checkout # Absent /\ last.payment # Absent =>
          last.meant = {last.checkout.hash, last.payment.txid}
    BY DEF Inv, LastMeant
  <2> QED
    BY <2>2, <2>3
<1> QED
  BY <1>1, Invariance, PTL
==============================================================================
