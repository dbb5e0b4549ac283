----------------------- MODULE AutonomousIssuanceProofs -----------------------
(***************************************************************************)
(* Theorems about AutonomousIssuance, for every set of mandates, entries   *)
(* and lists, however long, and any number of calls.                       *)
(***************************************************************************)
EXTENDS IssuanceRefinement, WellFoundedInduction, SequenceTheorems, TLAPS

\* The list of this entry was replaced by the call that is running.
Replaced(x) ==
    /\ acceptable[x] \in Seq(Item)
    /\ \A p \in DOMAIN acceptable[x] :
          /\ acceptable[x][p].ref \in Disclosed(mandate, calls)
          /\ acceptable[x][p].ref.kind = "items"

OwnRefs(refs) ==
    \A p \in DOMAIN refs : refs[p] \in Disclosed(mandate, calls) /\ refs[p].kind = "merchants"

\* The constraints copied so far refer to this call's disclosures only, and the
\* entries they share with the caller's mandate have been replaced by this call.
DraftOwn ==
    \A n \in DOMAIN draft :
        /\ OwnRefs(draft[n].refs)
        /\ \A j \in DOMAIN draft[n].entries : Replaced(draft[n].entries[j])

PassedEntries == At("line_items") => \A j \in 1..(e - 1) : Replaced(Terms[k].entries[j])

SealedOwn == sealed # Absent => \A n \in DOMAIN sealed : Resolvable(sealed[n], mandate, calls)

\* The inner loop starts at its first entry.
EntryLoopFresh == ~At("line_items") => e = 1

LoopInv == InMandate => EntryLoopFresh /\ DraftOwn /\ PassedEntries /\ SealedOwn

IdleInv == pc = "idle" => k = 1 /\ e = 1 /\ draft = <<>> /\ sealed = Absent

Inv == TypeOK /\ IdleInv /\ LoopInv /\ NoDanglingRefs

------------------------------------------------------------------------------
(* Lemmas about the operators. *)

\* The first element of a set of positions is one of them.
LEMMA FirstIn ==
    ASSUME NEW S, S \subseteq Nat, S # {}
    PROVE  First(S) \in S
<1>1. PICK x \in S : \A y \in S : ~(<<y, x>> \in OpToRel(<, Nat))
  BY NatLessThanWellFounded, WFMin
<1>2. ASSUME NEW y \in S PROVE x <= y
  <2>1. <<y, x>> \in Nat \X Nat /\ <<y, x>>[1] = y /\ <<y, x>>[2] = x
    BY <1>2
  <2>2. ~(y < x)
    BY <1>1, <1>2, <2>1 DEF OpToRel
  <2> QED
    BY <2>1, <2>2
<1> QED
  BY <1>2 DEF First

\* What the user writes into an entry is a list of items.
LEMMA ListsTyped == Lists \subseteq OrAbsent(Seq(Item))
<1>1. ASSUME NEW list \in Seq([id: OrAbsent(Ids), sku: OrAbsent(Ids), ref: {Absent}])
      PROVE  list \in Seq(Item)
  <2>1. [id: OrAbsent(Ids), sku: OrAbsent(Ids), ref: {Absent}] \subseteq Item
    BY DEF Item, OrAbsent
  <2> QED
    BY <2>1, SeqMonotonic
<1> QED
  BY <1>1, UsersListItems DEF OrAbsent

\* The constraints a call is going through are those of its mandate.
LEMMA TermsTyped ==
    ASSUME TypeOK, InMandate
    PROVE  /\ mandate \in Mandates /\ mandate \in Mandate
           /\ Terms \in Seq(Term)
           /\ \A n \in DOMAIN Terms : Terms[n] \in Term
<1>1. mandate \in Mandates /\ mandate \in Mandate
  BY MandatesAreMandates DEF TypeOK, InMandate
<1>2. mandate.checkout \in OrAbsent(Seq(Term)) /\ mandate.payment \in OrAbsent(Seq({t \in Term : t.type # "line_items"}))
  BY <1>1 DEF Mandate
<1>3. \A q \in Seq({t \in Term : t.type # "line_items"}) : q \in Seq(Term)
  <2> TAKE q \in Seq({t \in Term : t.type # "line_items"})
  <2> QED BY SeqMonotonic
<1>4. Terms \in Seq(Term)
  BY <1>2, <1>3 DEF Terms, Source, OrAbsent
<1> QED
  BY <1>1, <1>4

\* Each listed merchant is replaced by the reference to a disclosure of this call.
LEMMA MerchantRefsOwn ==
    ASSUME mandate \in Mandate, calls \in Nat, NEW list \in Seq(Merchant), MerchantsKnown(list)
    PROVE  MerchantRefs(list) \in Seq(Hash) /\ OwnRefs(MerchantRefs(list))
<1>1. mandate.merchants \in Seq(Merchant)
  BY DEF Mandate
<1>2. ASSUME NEW n \in DOMAIN list
      PROVE  First(MerchantAt(list[n])) \in DOMAIN mandate.merchants
  <2>1. MerchantAt(list[n]) # {} /\ MerchantAt(list[n]) \subseteq DOMAIN mandate.merchants
    BY <1>2 DEF MerchantsKnown, MerchantAt
  <2>2. DOMAIN mandate.merchants \subseteq Nat
    BY <1>1
  <2> QED
    BY <2>1, <2>2, FirstIn
<1>3. ASSUME NEW n \in DOMAIN list
      PROVE  /\ MerchantRefs(list)[n] \in Hash
             /\ MerchantRefs(list)[n] \in Disclosed(mandate, calls)
             /\ MerchantRefs(list)[n].kind = "merchants"
  BY <1>1, <1>2, <1>3 DEF MerchantRefs, Fresh, Hash, Kinds, Disclosed
<1>4. MerchantRefs(list) \in Seq(Hash)
  BY <1>3 DEF MerchantRefs
<1> QED
  BY <1>3, <1>4 DEF OwnRefs, MerchantRefs

\* Likewise for the items of an entry.
LEMMA ItemRefsOwn ==
    ASSUME mandate \in Mandate, calls \in Nat, NEW list \in Seq(Item), ItemsKnown(list)
    PROVE  /\ ItemRefs(list) \in Seq(Item)
           /\ \A p \in DOMAIN ItemRefs(list) : /\ ItemRefs(list)[p].ref \in Disclosed(mandate, calls)
                                               /\ ItemRefs(list)[p].ref.kind = "items"
<1>1. mandate.items \in Seq(Item)
  BY DEF Mandate
<1>2. ASSUME NEW n \in DOMAIN list
      PROVE  First(ItemAt(list[n])) \in DOMAIN mandate.items
  <2>1. ItemAt(list[n]) # {} /\ ItemAt(list[n]) \subseteq DOMAIN mandate.items
    BY <1>2 DEF ItemsKnown, ItemAt
  <2>2. DOMAIN mandate.items \subseteq Nat
    BY <1>1
  <2> QED
    BY <2>1, <2>2, FirstIn
<1>3. ASSUME NEW n \in DOMAIN list
      PROVE  /\ ItemRefs(list)[n] \in Item
             /\ ItemRefs(list)[n].ref \in Disclosed(mandate, calls)
             /\ ItemRefs(list)[n].ref.kind = "items"
  <2>1. Fresh("items", First(ItemAt(list[n]))) \in Hash
    BY <1>1, <1>2, <1>3 DEF Fresh, Hash, Kinds
  <2>2. ItemRefs(list)[n] = [id |-> Absent, sku |-> Absent, ref |-> Fresh("items", First(ItemAt(list[n])))]
    BY <1>3 DEF ItemRefs
  <2> QED
    BY <1>2, <1>3, <2>1, <2>2 DEF Item, OrAbsent, Fresh, Disclosed
<1>4. ItemRefs(list) \in Seq(Item)
  BY <1>3 DEF ItemRefs
<1> QED
  BY <1>3, <1>4 DEF ItemRefs

DraftTerm == [type: {"allowed", "line_items", "other"}, refs: Seq(Hash), entries: Seq(Entries)]

\* What is serialised at the end of a loop refers to this call's disclosures only.
LEMMA ContentsOwn ==
    ASSUME TypeOK, DraftOwn
    PROVE  /\ Contents \in Seq(Signed)
           /\ \A n \in DOMAIN Contents : Resolvable(Contents[n], mandate, calls)
<1>1. draft \in Seq(DraftTerm)
  BY DEF TypeOK, DraftTerm
<1>2. ASSUME NEW n \in DOMAIN draft
      PROVE  /\ draft[n] \in DraftTerm
             /\ [j \in DOMAIN draft[n].entries |-> acceptable[draft[n].entries[j]]] \in Seq(Seq(Item))
  <2>1. draft[n] \in DraftTerm
    BY <1>1, <1>2
  <2>2. \A j \in DOMAIN draft[n].entries : acceptable[draft[n].entries[j]] \in Seq(Item)
    BY <1>2 DEF DraftOwn, Replaced
  <2>3. draft[n].entries \in Seq(Entries)
    BY <2>1 DEF DraftTerm
  <2> QED
    BY <2>1, <2>2, <2>3
<1>3. ASSUME NEW n \in DOMAIN draft
      PROVE  Contents[n] \in Signed /\ Resolvable(Contents[n], mandate, calls)
  <2>1. Contents[n] = [type |-> draft[n].type, refs |-> draft[n].refs, names |-> Absent,
                       items |-> [j \in DOMAIN draft[n].entries |-> acceptable[draft[n].entries[j]]]]
    BY <1>3 DEF Contents
  <2>2. Contents[n] \in Signed
    BY <1>2, <1>3, <2>1 DEF Signed, OrAbsent, DraftTerm
  <2>3. OwnRefs(Contents[n].refs)
    BY <1>3, <2>1 DEF DraftOwn
  <2>4. \A j \in DOMAIN Contents[n].items :
            /\ j \in DOMAIN draft[n].entries
            /\ Contents[n].items[j] = acceptable[draft[n].entries[j]]
    BY <2>1
  <2>5. \A j \in DOMAIN Contents[n].items : \A p \in DOMAIN Contents[n].items[j] :
            /\ Contents[n].items[j][p].ref \in Disclosed(mandate, calls)
            /\ Contents[n].items[j][p].ref.kind = "items"
    <3> TAKE j \in DOMAIN Contents[n].items
    <3>1. Replaced(draft[n].entries[j])
      BY <1>3, <2>4 DEF DraftOwn
    <3> QED
      BY <2>4, <3>1 DEF Replaced
  <2>6. Resolvable(Contents[n], mandate, calls)
    BY <2>3, <2>5 DEF Resolvable, OwnRefs
  <2> QED
    BY <2>2, <2>6
<1>4. Contents \in Seq(Signed) /\ DOMAIN Contents = DOMAIN draft
  BY <1>1, <1>3 DEF Contents
<1> QED
  BY <1>3, <1>4

------------------------------------------------------------------------------
(* The invariant. *)

LEMMA InvInit == Init => Inv
<1> SUFFICES ASSUME Init PROVE Inv
  OBVIOUS
<1>1. Lists \subseteq OrAbsent(Seq(Item))
  BY ListsTyped
<1>2. wrote \in [Entries -> OrAbsent(Seq(Item))]
  BY <1>1 DEF Init
<1>3. TypeOK
  BY <1>1, <1>2 DEF Init, TypeOK, At, InMandate, OrAbsent
<1> QED
  BY <1>3 DEF Init, Inv, IdleInv, LoopInv, InMandate, NoDanglingRefs

\* The user's own steps, between calls.
LEMMA InvRewrite == ASSUME Inv, Rewrite PROVE Inv'
<1>1. Lists \subseteq OrAbsent(Seq(Item))
  BY ListsTyped
<1>2. PICK entry \in Entries, list \in Lists :
         /\ wrote' = [wrote EXCEPT ![entry] = list]
         /\ acceptable' = [acceptable EXCEPT ![entry] = list]
  BY DEF Rewrite
<1>3. TypeOK'
  BY <1>1, <1>2 DEF Inv, TypeOK, Rewrite, At, InMandate
<1> QED
  BY <1>3 DEF Inv, IdleInv, LoopInv, InMandate, Rewrite, NoDanglingRefs

LEMMA InvBegin == ASSUME Inv, Begin PROVE Inv'
<1>1. mandate' \in Mandates /\ pc' \in {"checkout", "failed"}
  BY DEF Begin
<1>2. TypeOK'
  BY <1>1 DEF Inv, IdleInv, TypeOK, Begin, At, InMandate, Terms, Source
<1>3. LoopInv'
  BY DEF Inv, IdleInv, Begin, LoopInv, EntryLoopFresh, DraftOwn, PassedEntries, SealedOwn
<1> QED
  BY <1>1, <1>2, <1>3 DEF Inv, IdleInv, Begin, NoDanglingRefs

LEMMA InvReturn == ASSUME Inv, Return PROVE Inv'
<1>1. TypeOK'
  BY DEF Inv, TypeOK, Return, At, InMandate, OrAbsent
<1> QED
  BY <1>1 DEF Inv, IdleInv, LoopInv, InMandate, Return, NoDanglingRefs

\* A step that copies a constraint and goes on to the next one.
LEMMA InvCopied ==
    ASSUME Inv, InMandate, k \in DOMAIN Terms, k' = k + 1, e' = 1,
           UNCHANGED <<acceptable, wrote, pc, mandate, calls, sealed, held, issued>>,
           NEW copy \in DraftTerm, draft' = Append(draft, copy), OwnRefs(copy.refs),
           \A j \in DOMAIN copy.entries : Replaced(copy.entries[j])
    PROVE  Inv'
<1>1. draft \in Seq(DraftTerm) /\ draft' \in Seq(DraftTerm)
  BY DEF Inv, TypeOK, DraftTerm
<1>2. k' \in Nat \ {0} /\ k \in Nat
  BY DEF Inv, TypeOK
<1>3. InMandate' /\ mandate \in Mandates /\ Terms' = Terms
  BY DEF Inv, TypeOK, InMandate, Terms, Source
<1>4. ASSUME At("line_items")' PROVE e' <= Len(Terms'[k'].entries) + 1
  <2>1. Terms'[k'] \in Term
    BY <1>3, <1>4, TermsTyped DEF Inv, At
  <2>2. Len(Terms'[k'].entries) \in Nat
    BY <2>1 DEF Term
  <2> QED
    BY <2>2
<1>5. TypeOK'
  BY <1>1, <1>2, <1>3, <1>4 DEF Inv, TypeOK, DraftTerm, InMandate
<1>6. \A x : Replaced(x)' <=> Replaced(x)
  BY DEF Replaced, Disclosed
<1>7. \A refs : OwnRefs(refs)' <=> OwnRefs(refs)
  BY DEF OwnRefs, Disclosed
<1>8. DraftOwn'
  <2> SUFFICES ASSUME NEW n \in DOMAIN draft'
               PROVE  /\ OwnRefs(draft'[n].refs)
                      /\ \A j \in DOMAIN draft'[n].entries : Replaced(draft'[n].entries[j])
    BY <1>6, <1>7 DEF DraftOwn
  <2>1. CASE n \in DOMAIN draft
    <3>1. draft'[n] = draft[n]
      BY <1>1, <2>1
    <3> QED
      BY <2>1, <3>1 DEF Inv, LoopInv, DraftOwn
  <2>2. CASE n \notin DOMAIN draft
    <3>1. draft'[n] = copy
      BY <1>1, <2>2
    <3> QED
      BY <3>1
  <2> QED
    BY <2>1, <2>2
<1>9. SealedOwn'
  BY DEF Inv, LoopInv, SealedOwn, Resolvable, Disclosed
<1> QED
  BY <1>3, <1>5, <1>8, <1>9 DEF Inv, IdleInv, LoopInv, InMandate, EntryLoopFresh, PassedEntries,
     NoDanglingRefs, Resolvable, Disclosed

LEMMA InvCopyTerm == ASSUME Inv, CopyTerm PROVE Inv'
<1> DEFINE copy == [type |-> "other", refs |-> <<>>, entries |-> <<>>]
<1>1. InMandate /\ k \in DOMAIN Terms /\ ~At("line_items")
  BY DEF CopyTerm, At
<1>2. e' = 1
  BY <1>1 DEF Inv, LoopInv, EntryLoopFresh, CopyTerm
<1>3. copy \in DraftTerm
  BY DEF DraftTerm
<1>4. OwnRefs(copy.refs) /\ \A j \in DOMAIN copy.entries : Replaced(copy.entries[j])
  BY DEF OwnRefs
<1> QED
  BY <1>1, <1>2, <1>3, <1>4, InvCopied DEF CopyTerm

LEMMA InvMatchMerchants == ASSUME Inv, MatchMerchants PROVE Inv'
<1> DEFINE copy == [type |-> "allowed", refs |-> MerchantRefs(Terms[k].allowed), entries |-> <<>>]
<1>1. InMandate /\ k \in DOMAIN Terms /\ ~At("line_items")
  BY DEF MatchMerchants, At
<1>2. e' = 1
  BY <1>1 DEF Inv, LoopInv, EntryLoopFresh, MatchMerchants
<1>3. Terms[k].allowed \in Seq(Merchant) /\ mandate \in Mandate
  BY <1>1, TermsTyped DEF Inv, Term
<1>4. MerchantRefs(Terms[k].allowed) \in Seq(Hash) /\ OwnRefs(MerchantRefs(Terms[k].allowed))
  BY <1>3, MerchantRefsOwn DEF Inv, TypeOK, MatchMerchants
<1>5. copy \in DraftTerm
  BY <1>4 DEF DraftTerm
<1>6. OwnRefs(copy.refs) /\ \A j \in DOMAIN copy.entries : Replaced(copy.entries[j])
  BY <1>4
<1> QED
  BY <1>1, <1>2, <1>5, <1>6, InvCopied DEF MatchMerchants

LEMMA InvEndEntries == ASSUME Inv, EndEntries PROVE Inv'
<1> DEFINE copy == [type |-> "line_items", refs |-> <<>>, entries |-> Terms[k].entries]
<1>1. InMandate /\ k \in DOMAIN Terms /\ At("line_items")
  BY DEF EndEntries, At
<1>2. Terms[k].entries \in Seq(Entries)
  BY <1>1, TermsTyped DEF Inv, Term
<1>3. copy \in DraftTerm
  BY <1>2 DEF DraftTerm
<1>4. e = Len(Terms[k].entries) + 1
  BY <1>1, <1>2 DEF Inv, TypeOK, EndEntries
<1>5. \A j \in DOMAIN Terms[k].entries : Replaced(Terms[k].entries[j])
  BY <1>1, <1>2, <1>4 DEF Inv, LoopInv, PassedEntries
<1>6. OwnRefs(copy.refs) /\ \A j \in DOMAIN copy.entries : Replaced(copy.entries[j])
  BY <1>5 DEF OwnRefs
<1> QED
  BY <1>1, <1>3, <1>6, InvCopied DEF EndEntries

\* An entry that was replaced before, by this call, may be replaced again.
LEMMA InvMatchEntry == ASSUME Inv, MatchEntry PROVE Inv'
<1> DEFINE x == Terms[k].entries[e]
<1>1. /\ InMandate /\ k \in DOMAIN Terms /\ At("line_items")
      /\ Terms[k] \in Term /\ mandate \in Mandate /\ calls \in Nat
  BY TermsTyped DEF Inv, TypeOK, MatchEntry, At
<1>2. /\ Terms[k].entries \in Seq(Entries) /\ x \in Entries
      /\ e \in 1..Len(Terms[k].entries) /\ Len(Terms[k].entries) \in Nat
  BY <1>1 DEF Term, MatchEntry
<1>3. EntryList \in Seq(Item)
  <2>1. acceptable[x] \in OrAbsent(Seq(Item))
    BY <1>2 DEF Inv, TypeOK
  <2> QED
    BY <2>1 DEF EntryList, OrAbsent
<1>4. /\ ItemRefs(EntryList) \in Seq(Item)
      /\ \A p \in DOMAIN ItemRefs(EntryList) :
           /\ ItemRefs(EntryList)[p].ref \in Disclosed(mandate, calls)
           /\ ItemRefs(EntryList)[p].ref.kind = "items"
  BY <1>1, <1>3, ItemRefsOwn DEF MatchEntry
<1>5. /\ acceptable' = [acceptable EXCEPT ![x] = ItemRefs(EntryList)]
      /\ UNCHANGED <<mandate, calls, pc, k, draft, sealed, wrote, held, issued>>
      /\ e' = e + 1
  BY DEF MatchEntry
<1>6. Terms' = Terms /\ (InMandate' <=> InMandate) /\ \A type : At(type)' <=> At(type)
  BY <1>5 DEF Terms, Source, InMandate, At
<1>7. /\ acceptable \in [Entries -> OrAbsent(Seq(Item))]
      /\ acceptable' \in [Entries -> OrAbsent(Seq(Item))]
  BY <1>4, <1>5 DEF Inv, TypeOK, OrAbsent
<1>8. ASSUME NEW y \in Entries, Replaced(y) \/ y = x
      PROVE  Replaced(y)'
  <2>1. CASE y = x
    <3>1. acceptable'[y] = ItemRefs(EntryList)
      BY <1>2, <1>5, <1>7, <2>1
    <3> QED
      BY <1>4, <1>5, <3>1 DEF Replaced, Disclosed
  <2>2. CASE y # x
    <3>1. acceptable'[y] = acceptable[y] /\ Replaced(y)
      BY <1>5, <1>7, <1>8, <2>2
    <3> QED
      BY <1>5, <3>1 DEF Replaced, Disclosed
  <2> QED
    BY <2>1, <2>2
<1>9. TypeOK'
  <2>1. e' \in Nat \ {0} /\ e' <= Len(Terms[k].entries) + 1
    BY <1>2, <1>5
  <2> QED
    BY <1>5, <1>6, <1>7, <2>1 DEF Inv, TypeOK
<1>10. DraftOwn'
  <2>1. ASSUME NEW n \in DOMAIN draft, NEW j \in DOMAIN draft[n].entries
        PROVE  draft[n].entries[j] \in Entries
    <3>1. draft \in Seq(DraftTerm)
      BY DEF Inv, TypeOK, DraftTerm
    <3>2. draft[n] \in DraftTerm
      BY <2>1, <3>1
    <3> QED
      BY <2>1, <3>2 DEF DraftTerm
  <2>2. DraftOwn
    BY <1>1 DEF Inv, LoopInv
  <2>3. \A n \in DOMAIN draft : \A j \in DOMAIN draft[n].entries : Replaced(draft[n].entries[j])'
    BY <1>8, <2>1, <2>2, <1>5 DEF DraftOwn
  <2> QED
    BY <1>5, <2>2, <2>3 DEF DraftOwn, OwnRefs, Disclosed
<1>11. PassedEntries'
  <2>1. \A j \in 1..(e - 1) : Replaced(Terms[k].entries[j]) /\ Terms[k].entries[j] \in Entries
    BY <1>1, <1>2 DEF Inv, LoopInv, PassedEntries
  <2>2. \A j \in 1..e : Terms[k].entries[j] \in Entries /\ (Replaced(Terms[k].entries[j]) \/ j = e)
    BY <1>2, <2>1
  <2>3. \A j \in 1..e : Replaced(Terms[k].entries[j])'
    BY <1>5, <1>6, <1>8, <2>2
  <2> QED
    BY <1>2, <1>5, <1>6, <2>3 DEF PassedEntries
<1>12. EntryLoopFresh' /\ SealedOwn'
  BY <1>1, <1>5, <1>6 DEF Inv, LoopInv, EntryLoopFresh, SealedOwn, Resolvable, Disclosed
<1>13. IdleInv' /\ NoDanglingRefs'
  BY <1>1, <1>5 DEF Inv, IdleInv, InMandate, NoDanglingRefs, Resolvable, Disclosed
<1> QED
  BY <1>9, <1>10, <1>11, <1>12, <1>13 DEF Inv, LoopInv

LEMMA InvFailMatch == ASSUME Inv, FailMatch PROVE Inv'
<1>1. pc' = "failed" /\ InMandate /\ UNCHANGED <<acceptable, wrote, mandate, calls, k, e, draft, sealed, held, issued>>
  BY DEF FailMatch, At
<1>2. mandate \in Mandates
  BY <1>1, TermsTyped DEF Inv
<1>3. TypeOK'
  BY <1>1, <1>2 DEF Inv, TypeOK, InMandate, At
<1> QED
  BY <1>1, <1>3 DEF Inv, IdleInv, LoopInv, InMandate, NoDanglingRefs, Resolvable, Disclosed

LEMMA InvSealCheckout == ASSUME Inv, SealCheckout PROVE Inv'
<1>1. InMandate /\ ~At("line_items") /\ e = 1 /\ DraftOwn
  BY DEF SealCheckout, InMandate, At, Inv, LoopInv, EntryLoopFresh
<1>2. Contents \in Seq(Signed) /\ \A n \in DOMAIN Contents : Resolvable(Contents[n], mandate, calls)
  BY <1>1, ContentsOwn DEF Inv
<1>3. /\ pc' = "payment" /\ k' = 1 /\ draft' = <<>> /\ sealed' \in {Absent, Contents}
      /\ UNCHANGED <<acceptable, wrote, mandate, calls, e, held, issued>>
  BY DEF SealCheckout
<1>4. mandate \in Mandates
  BY <1>1, TermsTyped DEF Inv
<1>5. At("line_items")' => e' <= Len(Terms'[k'].entries) + 1
  <2> SUFFICES ASSUME At("line_items")' PROVE Len(Terms'[k'].entries) \in Nat
    BY <1>1, <1>3
  <2>1. Terms' \in Seq(Term)
    <3>1. mandate \in Mandate
      BY <1>4, MandatesAreMandates
    <3>2. mandate.payment \in OrAbsent(Seq({t \in Term : t.type # "line_items"}))
      BY <3>1 DEF Mandate
    <3>3. \A q \in Seq({t \in Term : t.type # "line_items"}) : q \in Seq(Term)
      <4> TAKE q \in Seq({t \in Term : t.type # "line_items"})
      <4> QED BY SeqMonotonic
    <3>4. Terms' = IF mandate.payment = Absent THEN <<>> ELSE mandate.payment
      BY <1>3 DEF Terms, Source
    <3> QED
      BY <3>2, <3>3, <3>4 DEF OrAbsent
  <2>2. Terms'[k'] \in Term
    BY <2>1 DEF At
  <2> QED
    BY <2>2 DEF Term
<1>6. TypeOK'
  BY <1>2, <1>3, <1>4, <1>5 DEF Inv, TypeOK, OrAbsent
<1>7. SealedOwn'
  BY <1>2, <1>3 DEF SealedOwn, Resolvable, Disclosed
<1> QED
  BY <1>1, <1>3, <1>6, <1>7 DEF Inv, IdleInv, LoopInv, EntryLoopFresh, DraftOwn, PassedEntries, NoDanglingRefs,
     Resolvable, Disclosed

LEMMA InvSign == ASSUME Inv, Sign PROVE Inv'
<1> DEFINE payment == IF mandate.payment = Absent THEN Absent ELSE Contents \o References
           credential == [by |-> calls, for |-> mandate, checkout |-> sealed, payment |-> payment]
           Credential == [by: Nat, for: Mandates, checkout: OrAbsent(Seq(Signed)),
                          payment: OrAbsent(Seq(Signed))]
<1>1. InMandate /\ DraftOwn /\ SealedOwn
  BY DEF Sign, InMandate, Inv, LoopInv
<1>2. Contents \in Seq(Signed) /\ \A n \in DOMAIN Contents : Resolvable(Contents[n], mandate, calls)
  BY <1>1, ContentsOwn DEF Inv
<1>3. mandate \in Mandates /\ calls \in Nat /\ sealed \in OrAbsent(Seq(Signed))
  BY <1>1, TermsTyped DEF Inv, TypeOK
<1>4. References \in Seq(Signed) /\ \A n \in DOMAIN References : Resolvable(References[n], mandate, calls)
  <2> DEFINE reference == [type |-> "reference", refs |-> <<>>, items |-> <<>>, names |-> Fresh("checkout", 1)]
  <2>1. reference \in Signed /\ Resolvable(reference, mandate, calls)
    BY <1>3 DEF Signed, Fresh, Hash, Kinds, OrAbsent, Resolvable
  <2>2. References = <<>> \/ References = <<reference>>
    BY DEF References
  <2> HIDE DEF reference
  <2>3. CASE References = <<>>
    BY <2>3
  <2>4. CASE References = <<reference>>
    <3>1. References \in Seq(Signed) /\ \A n \in DOMAIN References : References[n] = reference
      BY <2>1, <2>4
    <3> QED
      BY <2>1, <3>1
  <2> QED
    BY <2>2, <2>3, <2>4
<1>5. /\ payment \in OrAbsent(Seq(Signed))
      /\ payment # Absent => \A n \in DOMAIN payment : Resolvable(payment[n], mandate, calls)
  <2>1. Contents \o References \in Seq(Signed)
    BY <1>2, <1>4
  <2>2. ASSUME NEW n \in DOMAIN (Contents \o References)
        PROVE  Resolvable((Contents \o References)[n], mandate, calls)
    <3>1. \/ n \in DOMAIN Contents /\ (Contents \o References)[n] = Contents[n]
          \/ /\ n - Len(Contents) \in DOMAIN References
             /\ (Contents \o References)[n] = References[n - Len(Contents)]
      BY <1>2, <1>4, <2>2
    <3> QED
      BY <1>2, <1>4, <3>1
  <2> QED
    BY <2>1, <2>2 DEF OrAbsent
<1>6. /\ issued' = Append(issued, credential) /\ pc' = "done"
      /\ UNCHANGED <<acceptable, wrote, mandate, calls, k, e, draft, sealed, held>>
  BY DEF Sign
<1>7. credential \in Credential
  BY <1>3, <1>5
<1>8. issued \in Seq(Credential) /\ issued' \in Seq(Credential)
  <2>1. issued \in Seq(Credential)
    BY DEF Inv, TypeOK
  <2> HIDE DEF Credential, credential
  <2> QED
    BY <1>6, <1>7, <2>1
<1>9. TypeOK'
  BY <1>3, <1>6, <1>8 DEF Inv, TypeOK, InMandate, At
<1>10. NoDanglingRefs'
  <2> SUFFICES ASSUME NEW n \in DOMAIN issued',
                      NEW terms \in {issued'[n].checkout, issued'[n].payment} \ {Absent},
                      NEW j \in DOMAIN terms
               PROVE  Resolvable(terms[j], issued'[n].for, issued'[n].by)
    BY <1>6 DEF NoDanglingRefs, Resolvable, Disclosed
  <2>1. CASE n \in DOMAIN issued
    <3>1. issued'[n] = issued[n]
      <4> HIDE DEF Credential, credential
      <4> QED BY <1>6, <1>7, <1>8, <2>1
    <3> QED
      BY <2>1, <3>1 DEF Inv, NoDanglingRefs
  <2>2. CASE n \notin DOMAIN issued
    <3>1. issued'[n] = credential
      <4> HIDE DEF Credential, credential
      <4> QED BY <1>6, <1>7, <1>8, <2>2
    <3>2. terms \in {sealed, payment} \ {Absent}
      BY <3>1
    <3> HIDE DEF payment
    <3> QED
      BY <1>1, <1>5, <3>1, <3>2 DEF SealedOwn
  <2> QED
    BY <2>1, <2>2
<1> QED
  BY <1>6, <1>9, <1>10 DEF Inv, IdleInv, LoopInv, InMandate

LEMMA InvStutter == ASSUME Inv, UNCHANGED vars PROVE Inv'
<1>1. TypeOK'
  BY DEF Inv, TypeOK, vars, InMandate, At, Terms, Source
<1>2. /\ \A x : Replaced(x)' <=> Replaced(x)
      /\ \A refs : OwnRefs(refs)' <=> OwnRefs(refs)
      /\ \A term : Resolvable(term, mandate, calls)' <=> Resolvable(term, mandate, calls)
  BY DEF vars, Replaced, OwnRefs, Resolvable, Disclosed
<1>3. InMandate' = InMandate /\ Terms' = Terms /\ (At("line_items")' <=> At("line_items"))
  BY DEF vars, InMandate, Terms, Source, At
<1>4. (DraftOwn => DraftOwn') /\ (SealedOwn => SealedOwn')
  BY <1>2 DEF vars, DraftOwn, SealedOwn
<1>5. (EntryLoopFresh => EntryLoopFresh') /\ (PassedEntries => PassedEntries')
  BY <1>2, <1>3 DEF vars, EntryLoopFresh, PassedEntries
<1> QED
  BY <1>1, <1>3, <1>4, <1>5 DEF Inv, IdleInv, LoopInv, vars, NoDanglingRefs, Resolvable, Disclosed

LEMMA InvStep == Inv /\ [Next]_vars => Inv'
<1> SUFFICES ASSUME Inv, [Next]_vars PROVE Inv'
  OBVIOUS
<1>1. CASE Rewrite BY <1>1, InvRewrite
<1>2. CASE Begin BY <1>2, InvBegin
<1>3. CASE Return BY <1>3, InvReturn
<1>4. CASE CopyTerm BY <1>4, InvCopyTerm
<1>5. CASE MatchMerchants BY <1>5, InvMatchMerchants
<1>6. CASE MatchEntry BY <1>6, InvMatchEntry
<1>7. CASE EndEntries BY <1>7, InvEndEntries
<1>8. CASE FailMatch BY <1>8, InvFailMatch
<1>9. CASE SealCheckout BY <1>9, InvSealCheckout
<1>10. CASE Sign BY <1>10, InvSign
<1>11. CASE UNCHANGED vars BY <1>11, InvStutter
<1> QED
  BY <1>1, <1>2, <1>3, <1>4, <1>5, <1>6, <1>7, <1>8, <1>9, <1>10, <1>11 DEF Next, Working

LEMMA Invariance == Spec => []Inv
BY InvInit, InvStep, PTL DEF Spec

------------------------------------------------------------------------------
(* The theorems. *)

\* Whatever the mandates are and however often they are issued, every state of
\* create_layer2_autonomous is well typed; in particular its inner loop never
\* runs past the entries of its constraint.
THEOREM TypeCorrect == Spec => []TypeOK
<1>1. Inv => TypeOK
  BY DEF Inv
<1> QED
  BY <1>1, Invariance, PTL

\* A signed Layer 2 refers to its own disclosures only, whatever earlier calls,
\* also failed ones, left in the entries it was made from.
THEOREM OwnReferencesOnly == Spec => []NoDanglingRefs
<1>1. Inv => NoDanglingRefs
  BY DEF Inv
<1> QED
  BY <1>1, Invariance, PTL
------------------------------------------------------------------------------
(* AutonomousIssuance implements IssuanceSpec. *)

Plain(list) == IF list = Absent THEN <<>> ELSE list

HasRefs(list) == list # Absent /\ \E n \in DOMAIN list : list[n].ref # Absent

\* References have taken the place of items in this list.
OnlyRefs(list) ==
    /\ list \notin {Absent, <<>>}
    /\ \A p \in DOMAIN list : list[p].ref # Absent /\ ProductKeys(list[p]) = {}

\* An entry holds what the user wrote, or is used up.
EntryInv(list, written) ==
    Plain(list) = Plain(written) \/ (OnlyRefs(list) /\ Plain(written) # <<>>)

EntriesInv ==
    \A x \in Entries : EntryInv(acceptable[x], wrote[x]) /\ (InMandate => EntryInv(held[x], wrote[x]))

LineTerms == Promise!Listed(mandate.checkout, "line_items")

EntryAt(use) == mandate.checkout[use[1]].entries[use[2]]

Places == UNION {{<<n, j>> : j \in DOMAIN mandate.checkout[n].entries} : n \in LineTerms}

\* The places of the entries the loops have been through.
Gone == {use \in Places : pc = "payment" \/ use[1] < k \/ (use[1] = k /\ use[2] < e)}

\* A call changes the entries it went through, once each unless they are empty,
\* and no others.
UsesInv ==
    /\ \A x \in Entries :
         IF \E use \in Gone : EntryAt(use) = x
         THEN /\ acceptable[x] = ItemRefs(Plain(wrote[x]))
              /\ Plain(held[x]) = Plain(wrote[x])
              /\ ItemsKnown(Plain(wrote[x]))
         ELSE acceptable[x] = held[x]
    /\ \A u, v \in Gone : EntryAt(u) = EntryAt(v) /\ Plain(wrote[EntryAt(u)]) # <<>> => u = v

CopyOf(term) ==
    [type |-> term.type,
     refs |-> IF term.type = "allowed" THEN MerchantRefs(term.allowed) ELSE <<>>,
     entries |-> IF term.type = "line_items" THEN term.entries ELSE <<>>]

SealedTerm(term) ==
    [type |-> term.type,
     refs |-> IF term.type = "allowed" THEN MerchantRefs(term.allowed) ELSE <<>>,
     names |-> Absent,
     items |-> IF term.type = "line_items"
               THEN [j \in DOMAIN term.entries |-> ItemRefs(Plain(wrote[term.entries[j]]))] ELSE <<>>]

Sealed(terms) == [n \in DOMAIN terms |-> SealedTerm(terms[n])]

AllKnown(terms, bound) ==
    \A n \in DOMAIN terms : n < bound /\ terms[n].type = "allowed" => MerchantsKnown(terms[n].allowed)

\* What was copied so far is what the mandate says, and so is what was sealed.
TermsInv ==
    /\ mandate.mode = "AUTONOMOUS"
    /\ k <= Len(Terms) + 1 /\ Len(draft) = k - 1
    /\ \A n \in DOMAIN draft : draft[n] = CopyOf(Terms[n])
    /\ AllKnown(Terms, k)
    /\ pc = "payment" =>
         /\ AllKnown(Plain(mandate.checkout), Len(Plain(mandate.checkout)) + 1)
         /\ sealed = IF mandate.checkout = Absent THEN Absent ELSE Sealed(mandate.checkout)
         /\ sealed = Absent <=> mandate.checkout = Absent

RefineInv == Inv /\ EntriesInv /\ (InMandate => UsesInv /\ TermsInv)

------------------------------------------------------------------------------
(* Lemmas about the terms of a mandate and the lists in its entries. *)

LEMMA CheckoutTyped ==
    ASSUME mandate \in Mandate
    PROVE  /\ Plain(mandate.checkout) \in Seq(Term)
           /\ Plain(mandate.payment) \in Seq(Term)
           /\ \A n \in DOMAIN Plain(mandate.payment) : Plain(mandate.payment)[n].type # "line_items"
           /\ mandate.items \in Seq(Item) /\ mandate.merchants \in Seq(Merchant)
<1>1. /\ mandate.checkout \in OrAbsent(Seq(Term))
      /\ mandate.payment \in OrAbsent(Seq({t \in Term : t.type # "line_items"}))
      /\ mandate.items \in Seq(Item) /\ mandate.merchants \in Seq(Merchant)
  BY DEF Mandate
<1>2. \A q \in Seq({t \in Term : t.type # "line_items"}) :
        q \in Seq(Term) /\ \A n \in DOMAIN q : q[n].type # "line_items"
  <2> TAKE q \in Seq({t \in Term : t.type # "line_items"})
  <2>1. q \in Seq(Term)
    BY SeqMonotonic
  <2>2. \A n \in DOMAIN q : q[n] \in {t \in Term : t.type # "line_items"}
    OBVIOUS
  <2> QED
    BY <2>1, <2>2
<1> QED
  BY <1>1, <1>2 DEF Plain, OrAbsent

LEMMA LineTermsAre ==
    ASSUME mandate \in Mandate
    PROVE  /\ LineTerms = {n \in DOMAIN Plain(mandate.checkout) :
                              Plain(mandate.checkout)[n].type = "line_items"}
           /\ \A n \in LineTerms : /\ n \in Nat \ {0} /\ mandate.checkout # Absent
                                   /\ mandate.checkout[n].entries \in Seq(Entries)
<1>1. Plain(mandate.checkout) \in Seq(Term)
  BY CheckoutTyped
<1>2. LineTerms = {n \in DOMAIN Plain(mandate.checkout) :
                      Plain(mandate.checkout)[n].type = "line_items"}
  BY DEF LineTerms, Promise!Listed, Plain
<1>3. ASSUME NEW n \in LineTerms
      PROVE  /\ n \in Nat \ {0} /\ mandate.checkout # Absent
             /\ mandate.checkout[n].entries \in Seq(Entries)
  <2>1. mandate.checkout # Absent /\ n \in DOMAIN mandate.checkout /\ mandate.checkout \in Seq(Term)
    BY <1>1, <1>2 DEF Plain
  <2>2. mandate.checkout[n] \in Term
    BY <2>1
  <2> QED
    BY <2>1, <2>2 DEF Term
<1> QED
  BY <1>2, <1>3

\* A place is the position of a constraint and of an entry inside it.
LEMMA PlacesTyped ==
    ASSUME mandate \in Mandate, NEW use \in Places
    PROVE  /\ use[1] \in LineTerms /\ use[1] \in Nat \ {0}
           /\ use[2] \in DOMAIN mandate.checkout[use[1]].entries /\ use[2] \in Nat \ {0}
           /\ use = <<use[1], use[2]>> /\ EntryAt(use) \in Entries
<1>1. PICK n \in LineTerms : \E j \in DOMAIN mandate.checkout[n].entries : use = <<n, j>>
  BY DEF Places
<1>2. PICK j \in DOMAIN mandate.checkout[n].entries : use = <<n, j>>
  BY <1>1
<1>3. n \in Nat \ {0} /\ mandate.checkout[n].entries \in Seq(Entries)
  BY LineTermsAre
<1>4. j \in Nat \ {0} /\ mandate.checkout[n].entries[j] \in Entries
  BY <1>2, <1>3
<1> QED
  BY <1>2, <1>3, <1>4 DEF EntryAt

LEMMA PlaceIn ==
    ASSUME NEW n \in LineTerms, NEW j \in DOMAIN mandate.checkout[n].entries
    PROVE  <<n, j>> \in Places
  BY DEF Places

\* Only the open checkout has line items.
LEMMA AtLineItems ==
    ASSUME TypeOK, At("line_items")
    PROVE  /\ pc = "checkout" /\ mandate \in Mandate
           /\ Terms = Plain(mandate.checkout) /\ k \in LineTerms
           /\ Terms[k] = mandate.checkout[k]
           /\ Terms[k].entries \in Seq(Entries)
<1>1. InMandate /\ k \in DOMAIN Terms /\ Terms[k].type = "line_items"
  BY DEF At
<1>2. mandate \in Mandate
  BY <1>1, TermsTyped
<1>3. pc = "checkout"
  BY <1>1, <1>2, CheckoutTyped DEF InMandate, Terms, Source, Plain
<1>4. Terms = Plain(mandate.checkout) /\ k \in LineTerms
  BY <1>1, <1>2, <1>3, LineTermsAre DEF Terms, Source, Plain
<1>5. Terms[k] = mandate.checkout[k] /\ Terms[k].entries \in Seq(Entries)
  BY <1>2, <1>4, LineTermsAre DEF Plain
<1> QED
  BY <1>2, <1>3, <1>4, <1>5

LEMMA PlainTyped ==
    ASSUME NEW list \in OrAbsent(Seq(Item))
    PROVE  Plain(list) \in Seq(Item)
  BY DEF Plain, OrAbsent

\* The user writes no references.
LEMMA WrittenPlain ==
    ASSUME TypeOK, NEW x \in Entries
    PROVE  /\ Plain(wrote[x]) \in Seq(Item)
           /\ \A p \in DOMAIN Plain(wrote[x]) : Plain(wrote[x])[p].ref = Absent
           /\ Plain(wrote[x]) = <<>> <=> wrote[x] \in {Absent, <<>>}
<1>1. wrote[x] \in Lists
  BY DEF TypeOK
<1>2. Plain(wrote[x]) \in Seq(Item)
  BY <1>1, ListsTyped, PlainTyped
<1>3. wrote[x] \in OrAbsent(Seq([id: OrAbsent(Ids), sku: OrAbsent(Ids), ref: {Absent}]))
  BY <1>1, UsersListItems
<1>4. \A p \in DOMAIN Plain(wrote[x]) : Plain(wrote[x])[p].ref = Absent
  <2>1. CASE wrote[x] = Absent
    BY <2>1 DEF Plain
  <2>2. CASE wrote[x] \in Seq([id: OrAbsent(Ids), sku: OrAbsent(Ids), ref: {Absent}])
    <3> DEFINE W == [id: OrAbsent(Ids), sku: OrAbsent(Ids), ref: {Absent}]
    <3>1. \A p \in DOMAIN wrote[x] : wrote[x][p] \in W
      <4>1. wrote[x] \in Seq(W)
        BY <2>2
      <4> HIDE DEF W
      <4> QED
        BY <4>1
    <3> QED
      BY <2>2, <3>1 DEF Plain
  <2> QED
    BY <1>3, <2>1, <2>2 DEF OrAbsent
<1> QED
  BY <1>2, <1>4 DEF Plain

\* References match no disclosed item.
LEMMA OnlyRefsUnknown ==
    ASSUME NEW list, OnlyRefs(list), list \in Seq(Item)
    PROVE  ~ItemsKnown(list)
<1>1. 1 \in DOMAIN list
  BY DEF OnlyRefs
<1>2. ItemAt(list[1]) = {}
  BY <1>1 DEF OnlyRefs, ItemAt, SameItem
<1> QED
  BY <1>1, <1>2 DEF ItemsKnown

\* What replaces a list of items that is not empty can not be replaced again.
LEMMA ItemRefsAre ==
    ASSUME mandate \in Mandate, calls \in Nat, NEW list \in Seq(Item), ItemsKnown(list)
    PROVE  /\ ItemRefs(list) \in Seq(Item) /\ DOMAIN ItemRefs(list) = DOMAIN list
           /\ list = <<>> => ItemRefs(list) = <<>>
           /\ list # <<>> => OnlyRefs(ItemRefs(list))
<1>1. ItemRefs(list) \in Seq(Item) /\ DOMAIN ItemRefs(list) = DOMAIN list
  BY ItemRefsOwn DEF ItemRefs
<1>2. ASSUME list = <<>> PROVE ItemRefs(list) = <<>>
  BY <1>1, <1>2
<1>3. ASSUME list # <<>> PROVE OnlyRefs(ItemRefs(list))
  <2>1. 1 \in DOMAIN ItemRefs(list)
    BY <1>1, <1>3
  <2>2. ItemRefs(list) \notin {Absent, <<>>}
    BY <1>1, <2>1, UsersListItems
  <2>3. \A p \in DOMAIN ItemRefs(list) : ItemRefs(list)[p].id = Absent /\ ItemRefs(list)[p].sku = Absent
    BY DEF ItemRefs
  <2>4. \A p \in DOMAIN ItemRefs(list) : ItemRefs(list)[p].ref # Absent
    <3> TAKE p \in DOMAIN ItemRefs(list)
    <3>1. ItemRefs(list)[p].ref \in Disclosed(mandate, calls)
      BY ItemRefsOwn
    <3>2. Disclosed(mandate, calls) \subseteq Hash
      BY CheckoutTyped DEF Disclosed, Hash, Kinds
    <3> QED
      BY <3>1, <3>2, UsersListItems
  <2> QED
    BY <2>2, <2>3, <2>4 DEF OnlyRefs, ProductKeys
<1> QED
  BY <1>1, <1>2, <1>3

------------------------------------------------------------------------------
(* The invariant of the refinement. *)

LEMMA RefineInit == Init => RefineInv
<1> SUFFICES ASSUME Init PROVE RefineInv
  OBVIOUS
<1> QED
  BY InvInit DEF Init, RefineInv, EntriesInv, EntryInv, InMandate

LEMMA RefineRewrite == ASSUME RefineInv, Rewrite PROVE RefineInv'
<1>1. PICK entry \in Entries, list \in Lists :
         /\ wrote' = [wrote EXCEPT ![entry] = list]
         /\ acceptable' = [acceptable EXCEPT ![entry] = list]
  BY DEF Rewrite
<1>2. ~InMandate'
  BY DEF Rewrite, InMandate
<1>3. ASSUME NEW x \in Entries PROVE EntryInv(acceptable'[x], wrote'[x])
  BY <1>1 DEF RefineInv, Inv, TypeOK, EntriesInv, EntryInv
<1> QED
  BY <1>2, <1>3, InvRewrite DEF RefineInv, EntriesInv

\* The typing of a mandate, of the one a call begins with.
LEMMA MandateNext ==
    (mandate \in Mandate =>
        /\ Plain(mandate.checkout) \in Seq(Term)
        /\ \A use \in Places : use[1] \in Nat \ {0} /\ use[2] \in Nat \ {0})'
<1>1. mandate \in Mandate =>
        /\ Plain(mandate.checkout) \in Seq(Term)
        /\ \A use \in Places : use[1] \in Nat \ {0} /\ use[2] \in Nat \ {0}
  BY CheckoutTyped, PlacesTyped
<1> QED
  BY <1>1, PTL

LEMMA RefineBegin == ASSUME RefineInv, Begin PROVE RefineInv'
<1>1. /\ UNCHANGED <<acceptable, wrote, k, e, draft, sealed>> /\ held' = acceptable
      /\ k = 1 /\ e = 1 /\ draft = <<>> /\ pc' \in {"checkout", "failed"}
      /\ mandate' \in Mandates /\ (pc' = "checkout" => mandate'.mode = "AUTONOMOUS")
  BY DEF Begin, RefineInv, Inv, IdleInv
<1>2. EntriesInv'
  BY <1>1 DEF RefineInv, EntriesInv
<1>3. Inv'
  BY InvBegin DEF RefineInv
<1>4. ASSUME InMandate' PROVE UsesInv' /\ TermsInv'
  <2>1. pc' = "checkout" /\ TypeOK' /\ mandate' \in Mandate
    BY <1>1, <1>3, <1>4, MandatesAreMandates DEF InMandate, Inv
  <2>2. Gone' = {}
    BY <1>1, <2>1, MandateNext DEF Gone
  <2>3. UsesInv'
    BY <1>1, <2>2 DEF UsesInv
  <2>4. Terms' \in Seq(Term)
    BY <2>1, MandateNext DEF Terms, Source, Plain
  <2>5. TermsInv'
    BY <1>1, <2>1, <2>4 DEF TermsInv, AllKnown
  <2> QED
    BY <2>3, <2>5
<1> QED
  BY <1>2, <1>3, <1>4 DEF RefineInv

LEMMA RefineReturn == ASSUME RefineInv, Return PROVE RefineInv'
<1>1. ~InMandate' /\ UNCHANGED <<acceptable, wrote>>
  BY DEF Return, InMandate
<1> QED
  BY <1>1, InvReturn DEF RefineInv, EntriesInv

\* What is read of the mandate, its entries and the call's disclosures.
LEMMA SameWhileRunning ==
    ASSUME UNCHANGED <<mandate, calls, wrote>>
    PROVE  /\ LineTerms' = LineTerms /\ Places' = Places
           /\ \A use : EntryAt(use)' = EntryAt(use)
           /\ \A list : /\ ItemsKnown(list)' <=> ItemsKnown(list)
                        /\ ItemRefs(list)' = ItemRefs(list)
           /\ \A list : MerchantsKnown(list)' <=> MerchantsKnown(list)
           /\ \A term : CopyOf(term)' = CopyOf(term) /\ SealedTerm(term)' = SealedTerm(term)
           /\ \A terms, bound : AllKnown(terms, bound)' <=> AllKnown(terms, bound)
           /\ \A terms : Sealed(terms)' = Sealed(terms)
<1>1. LineTerms' = LineTerms /\ Places' = Places /\ \A use : EntryAt(use)' = EntryAt(use)
  BY DEF LineTerms, Promise!Listed, Places, EntryAt
<1>2. /\ \A list : /\ ItemsKnown(list)' <=> ItemsKnown(list)
                   /\ ItemRefs(list)' = ItemRefs(list)
      /\ \A list : MerchantsKnown(list)' <=> MerchantsKnown(list)
      /\ \A list : MerchantRefs(list)' = MerchantRefs(list)
  BY DEF ItemsKnown, ItemRefs, ItemAt, MerchantsKnown, MerchantRefs, MerchantAt, Fresh
<1>3. \A term : CopyOf(term)' = CopyOf(term) /\ SealedTerm(term)' = SealedTerm(term)
  BY <1>2 DEF CopyOf, SealedTerm
<1>4. \A terms, bound : AllKnown(terms, bound)' <=> AllKnown(terms, bound)
  BY <1>2 DEF AllKnown
<1>5. \A terms : Sealed(terms)' = Sealed(terms)
  BY <1>3 DEF Sealed
<1> QED
  BY <1>1, <1>2, <1>3, <1>4, <1>5

\* A step that copies a constraint and leaves the entries alone.
LEMMA RefineCopied ==
    ASSUME RefineInv, InMandate, k \in DOMAIN Terms, k' = k + 1, Inv',
           UNCHANGED <<acceptable, wrote, pc, mandate, calls, sealed, held>>,
           draft' = Append(draft, CopyOf(Terms[k])), Gone' = Gone,
           Terms[k].type = "allowed" => MerchantsKnown(Terms[k].allowed)
    PROVE  RefineInv'
<1>1. /\ TypeOK /\ EntriesInv /\ UsesInv /\ TermsInv /\ mandate \in Mandate
      /\ Terms \in Seq(Term) /\ k \in Nat /\ Terms' = Terms /\ InMandate'
  BY TermsTyped DEF RefineInv, Inv, TypeOK, Terms, Source, InMandate
<1>2. EntriesInv'
  BY <1>1 DEF EntriesInv
<1>3. UsesInv'
  BY <1>1, SameWhileRunning DEF UsesInv
<1>4. draft \in Seq(DraftTerm) /\ Len(draft) = k - 1
  BY <1>1 DEF TermsInv, TypeOK, DraftTerm
<1>5. Len(draft') = k' - 1 /\ \A n \in DOMAIN draft' : draft'[n] = CopyOf(Terms[n])
  <2> DEFINE copy == CopyOf(Terms[k])
  <2>1. Len(draft') = Len(draft) + 1 /\ DOMAIN draft' = 1..(Len(draft) + 1)
    BY <1>4
  <2>2. \A n \in DOMAIN draft' : draft'[n] = IF n = Len(draft) + 1 THEN copy ELSE draft[n]
    <3>1. draft' = Append(draft, copy)
      OBVIOUS
    <3> HIDE DEF copy
    <3> QED
      BY <1>4, <3>1
  <2>3. ASSUME NEW n \in DOMAIN draft' PROVE draft'[n] = CopyOf(Terms[n])
    <3>1. n = Len(draft) + 1 \/ n \in DOMAIN draft
      BY <1>4, <2>1, <2>3
    <3> QED
      BY <1>1, <1>4, <2>2, <3>1 DEF TermsInv
  <2> QED
    BY <1>4, <2>1, <2>3
<1>6. AllKnown(Terms, k')
  <2> SUFFICES ASSUME NEW n \in DOMAIN Terms, n < k + 1, Terms[n].type = "allowed"
               PROVE  MerchantsKnown(Terms[n].allowed)
    BY DEF AllKnown
  <2>1. n < k \/ n = k
    BY <1>1
  <2> QED
    BY <1>1, <2>1 DEF TermsInv, AllKnown
<1>7. TermsInv'
  BY <1>1, <1>5, <1>6, SameWhileRunning DEF TermsInv
<1> QED
  BY <1>1, <1>2, <1>3, <1>7 DEF RefineInv

\* A constraint of another type has no places.
LEMMA GoneStays ==
    ASSUME TypeOK, InMandate, k \in DOMAIN Terms, Terms[k].type # "line_items", k' = k + 1,
           e = 1, UNCHANGED <<pc, mandate, e>>
    PROVE  Gone' = Gone
<1>1. mandate \in Mandate /\ k \in Nat
  BY TermsTyped DEF TypeOK
<1>2. Places' = Places
  BY DEF Places, LineTerms, Promise!Listed
<1>3. ASSUME NEW use \in Places, pc # "payment"
      PROVE  /\ use[1] \in Nat \ {0} /\ use[2] \in Nat \ {0} /\ use[1] # k
  BY <1>1, <1>3, PlacesTyped, LineTermsAre DEF InMandate, Terms, Source, Plain
<1> QED
  BY <1>1, <1>2, <1>3 DEF Gone

LEMMA RefineCopyTerm == ASSUME RefineInv, CopyTerm PROVE RefineInv'
<1>1. /\ InMandate /\ k \in DOMAIN Terms /\ Terms[k].type = "other"
      /\ k' = k + 1 /\ UNCHANGED <<acceptable, wrote, pc, mandate, calls, e, sealed, held>>
  BY DEF CopyTerm, At
<1>2. e = 1
  BY <1>1 DEF RefineInv, Inv, LoopInv, EntryLoopFresh, At
<1>3. Gone' = Gone
  BY <1>1, <1>2, GoneStays DEF RefineInv, Inv
<1>4. draft' = Append(draft, CopyOf(Terms[k]))
  BY <1>1 DEF CopyTerm, CopyOf
<1> QED
  BY <1>1, <1>3, <1>4, RefineCopied, InvCopyTerm DEF RefineInv

LEMMA RefineMatchMerchants == ASSUME RefineInv, MatchMerchants PROVE RefineInv'
<1>1. /\ InMandate /\ k \in DOMAIN Terms /\ Terms[k].type = "allowed"
      /\ MerchantsKnown(Terms[k].allowed)
      /\ k' = k + 1 /\ UNCHANGED <<acceptable, wrote, pc, mandate, calls, e, sealed, held>>
  BY DEF MatchMerchants, At
<1>2. e = 1
  BY <1>1 DEF RefineInv, Inv, LoopInv, EntryLoopFresh, At
<1>3. Gone' = Gone
  BY <1>1, <1>2, GoneStays DEF RefineInv, Inv
<1>4. draft' = Append(draft, CopyOf(Terms[k]))
  BY <1>1 DEF MatchMerchants, CopyOf
<1> QED
  BY <1>1, <1>3, <1>4, RefineCopied, InvMatchMerchants DEF RefineInv

LEMMA RefineEndEntries == ASSUME RefineInv, EndEntries PROVE RefineInv'
<1>1. /\ InMandate /\ k \in DOMAIN Terms /\ Terms[k].type = "line_items" /\ At("line_items")
      /\ k' = k + 1 /\ e' = 1 /\ UNCHANGED <<acceptable, wrote, pc, mandate, calls, sealed, held>>
      /\ e \notin DOMAIN Terms[k].entries
  BY DEF EndEntries, At
<1>2. /\ pc = "checkout" /\ mandate \in Mandate /\ k \in LineTerms /\ Terms[k] = mandate.checkout[k]
      /\ Terms[k].entries \in Seq(Entries) /\ k \in Nat /\ e = Len(Terms[k].entries) + 1
  <2>1. TypeOK
    BY DEF RefineInv, Inv
  <2>2. Terms[k].entries \in Seq(Entries)
    BY <1>1, <2>1, AtLineItems
  <2>3. e \in Nat \ {0} /\ e <= Len(Terms[k].entries) + 1 /\ k \in Nat
    BY <1>1, <2>1 DEF TypeOK
  <2> QED
    BY <1>1, <2>1, <2>2, <2>3, AtLineItems
<1>3. Gone' = Gone
  <2>1. Places' = Places
    BY <1>1 DEF Places, LineTerms, Promise!Listed
  <2>2. ASSUME NEW use \in Places
        PROVE  /\ use[1] \in Nat \ {0} /\ use[2] \in Nat \ {0}
               /\ use[1] = k => use[2] < e
    BY <1>2, PlacesTyped
  <2> QED
    BY <1>1, <1>2, <2>1, <2>2 DEF Gone
<1>4. draft' = Append(draft, CopyOf(Terms[k]))
  BY <1>1 DEF EndEntries, CopyOf
<1> QED
  BY <1>1, <1>3, <1>4, RefineCopied, InvEndEntries DEF RefineInv

\* The list that is replaced is still the one the user wrote.
LEMMA EntryIntact ==
    ASSUME RefineInv, At("line_items"), e \in DOMAIN Terms[k].entries, ItemsKnown(EntryList)
    PROVE  /\ Terms[k].entries[e] \in Entries
           /\ EntryList = Plain(acceptable[Terms[k].entries[e]])
           /\ EntryList = Plain(wrote[Terms[k].entries[e]])
           /\ EntryList \in Seq(Item)
           /\ mandate \in Mandate /\ calls \in Nat
<1> DEFINE x == Terms[k].entries[e]
<1>1. TypeOK /\ EntriesInv
  BY DEF RefineInv, Inv
<1>2. x \in Entries /\ mandate \in Mandate /\ calls \in Nat
  BY <1>1, AtLineItems DEF TypeOK
<1>3. EntryList = Plain(acceptable[x]) /\ acceptable[x] \in OrAbsent(Seq(Item))
  BY <1>1, <1>2 DEF EntryList, Plain, TypeOK
<1>4. EntryList \in Seq(Item)
  BY <1>3, PlainTyped
<1>5. ~OnlyRefs(acceptable[x])
  <2> SUFFICES ASSUME OnlyRefs(acceptable[x]) PROVE FALSE
    OBVIOUS
  <2>1. EntryList = acceptable[x]
    BY <1>3 DEF OnlyRefs, Plain
  <2> QED
    BY <1>4, <2>1, OnlyRefsUnknown
<1>6. Plain(acceptable[x]) = Plain(wrote[x])
  BY <1>1, <1>2, <1>5 DEF EntriesInv, EntryInv
<1> QED
  BY <1>2, <1>3, <1>4, <1>6

LEMMA RefineMatchEntry == ASSUME RefineInv, MatchEntry PROVE RefineInv'
<1> DEFINE x == Terms[k].entries[e]
           use == <<k, e>>
<1>1. /\ At("line_items") /\ e \in DOMAIN Terms[k].entries /\ ItemsKnown(EntryList)
      /\ acceptable' = [acceptable EXCEPT ![x] = ItemRefs(EntryList)]
      /\ UNCHANGED <<wrote, pc, mandate, calls, k, draft, sealed, held>> /\ e' = e + 1
  BY DEF MatchEntry
<1>2. /\ TypeOK /\ EntriesInv /\ UsesInv /\ TermsInv /\ InMandate
  BY <1>1 DEF RefineInv, Inv, At
<1>3. /\ x \in Entries /\ mandate \in Mandate /\ calls \in Nat
      /\ EntryList = Plain(acceptable[x]) /\ EntryList = Plain(wrote[x]) /\ EntryList \in Seq(Item)
  BY <1>1, EntryIntact
<1>4. /\ pc = "checkout" /\ k \in LineTerms /\ Terms[k] = mandate.checkout[k]
      /\ k \in Nat \ {0} /\ e \in Nat \ {0}
  BY <1>1, <1>2, AtLineItems DEF TypeOK
<1>5. use \in Places /\ EntryAt(use) = x
  BY <1>1, <1>4, PlaceIn DEF EntryAt
<1>6. Gone' = Gone \cup {use}
  <2>1. Places' = Places
    BY <1>1, SameWhileRunning
  <2>2. \A u \in Places : u[1] \in Nat \ {0} /\ u[2] \in Nat \ {0} /\ u = <<u[1], u[2]>>
    BY <1>3, PlacesTyped
  <2> HIDE DEF x
  <2> QED
    BY <1>1, <1>4, <1>5, <2>1, <2>2 DEF Gone
<1> HIDE DEF x, use
<1>7. /\ acceptable'[x] = ItemRefs(Plain(wrote[x]))
      /\ \A y \in Entries \ {x} : acceptable'[y] = acceptable[y]
  BY <1>1, <1>2, <1>3 DEF TypeOK
<1>8. Plain(held[x]) = Plain(wrote[x])
  BY <1>2, <1>3 DEF UsesInv
<1>9. EntriesInv'
  <2> SUFFICES ASSUME NEW y \in Entries PROVE EntryInv(acceptable'[y], wrote[y])
    BY <1>1, <1>2 DEF EntriesInv
  <2>1. CASE y # x
    BY <1>2, <1>7, <2>1 DEF EntriesInv
  <2>2. CASE y = x /\ EntryList = <<>>
    <3>1. acceptable'[y] = <<>> /\ Plain(wrote[y]) = <<>>
      BY <1>1, <1>3, <1>7, <2>2, ItemRefsAre
    <3> QED
      BY <3>1 DEF EntryInv, Plain
  <2>3. CASE y = x /\ EntryList # <<>>
    BY <1>1, <1>3, <1>7, <2>3, ItemRefsAre DEF EntryInv
  <2> QED
    BY <2>1, <2>2, <2>3
\* An entry that was gone through already holds references, or nothing.
<1>10. ASSUME NEW u \in Gone, EntryAt(u) = x, Plain(wrote[x]) # <<>> PROVE FALSE
  <2>1. acceptable[x] = ItemRefs(Plain(wrote[x]))
    BY <1>2, <1>3, <1>10 DEF UsesInv
  <2>2. OnlyRefs(acceptable[x])
    BY <1>1, <1>3, <1>10, <2>1, ItemRefsAre
  <2>3. EntryList = acceptable[x]
    BY <1>3, <2>2 DEF OnlyRefs, Plain
  <2> QED
    BY <1>1, <1>3, <2>2, <2>3, OnlyRefsUnknown
<1>11. UsesInv'
  <2>1. ASSUME NEW y \in Entries
        PROVE  IF \E u \in Gone \cup {use} : EntryAt(u) = y
               THEN /\ acceptable'[y] = ItemRefs(Plain(wrote[y]))
                    /\ Plain(held[y]) = Plain(wrote[y])
                    /\ ItemsKnown(Plain(wrote[y]))
               ELSE acceptable'[y] = held[y]
    <3>1. CASE y = x
      BY <1>1, <1>3, <1>5, <1>7, <1>8, <3>1
    <3>2. CASE y # x
      BY <1>2, <1>5, <1>7, <3>2 DEF UsesInv
    <3> QED
      BY <3>1, <3>2
  <2>2. ASSUME NEW u \in Gone \cup {use}, NEW v \in Gone \cup {use},
               EntryAt(u) = EntryAt(v), Plain(wrote[EntryAt(u)]) # <<>>
        PROVE  u = v
    BY <1>2, <1>5, <1>10, <2>2 DEF UsesInv
  <2> QED
    BY <1>1, <1>6, <2>1, <2>2, SameWhileRunning DEF UsesInv
<1>12. TermsInv'
  <2>1. Terms' = Terms
    BY <1>1 DEF Terms, Source
  <2> QED
    BY <1>1, <1>2, <1>4, <2>1, SameWhileRunning DEF TermsInv
<1> QED
  BY <1>9, <1>11, <1>12, InvMatchEntry DEF RefineInv

LEMMA RefineFailMatch == ASSUME RefineInv, FailMatch PROVE RefineInv'
<1>1. ~InMandate' /\ UNCHANGED <<acceptable, wrote>>
  BY DEF FailMatch, InMandate
<1> QED
  BY <1>1, InvFailMatch DEF RefineInv, EntriesInv

\* A finished loop has been through every entry of its constraints.
LEMMA LoopOver ==
    ASSUME RefineInv, InMandate, k \notin DOMAIN Terms
    PROVE  /\ Gone = Places /\ Terms \in Seq(Term)
           /\ Len(draft) = Len(Terms) /\ draft \in Seq(DraftTerm)
           /\ \A n \in DOMAIN draft : draft[n] = CopyOf(Terms[n])
           /\ AllKnown(Terms, Len(Terms) + 1)
<1>1. TypeOK /\ TermsInv /\ mandate \in Mandate /\ Terms \in Seq(Term) /\ k \in Nat \ {0}
  BY TermsTyped DEF RefineInv, Inv, TypeOK
<1>2. k = Len(Terms) + 1
  BY <1>1 DEF TermsInv
<1>3. Gone = Places
  <2>1. ASSUME NEW use \in Places, pc = "checkout" PROVE use[1] < k
    <3>1. use[1] \in DOMAIN Terms
      BY <1>1, <2>1, PlacesTyped, LineTermsAre DEF Terms, Source, Plain
    <3> QED
      BY <1>1, <1>2, <3>1
  <2> QED
    BY <2>1 DEF Gone, InMandate
<1>4. draft \in Seq(DraftTerm)
  BY <1>1 DEF TypeOK, DraftTerm
<1> QED
  BY <1>1, <1>2, <1>3, <1>4 DEF TermsInv

LEMMA ContentsAreSealed ==
    ASSUME RefineInv, InMandate, k \notin DOMAIN Terms
    PROVE  Contents = Sealed(Terms)
<1>1. /\ Gone = Places /\ Terms \in Seq(Term) /\ DOMAIN draft = DOMAIN Terms
      /\ \A n \in DOMAIN draft : draft[n] = CopyOf(Terms[n])
  BY LoopOver
<1>2. mandate \in Mandate /\ TypeOK /\ UsesInv
  BY TermsTyped DEF RefineInv, Inv
<1>3. ASSUME NEW n \in DOMAIN Terms, Terms[n].type = "line_items"
      PROVE  /\ Terms[n].entries \in Seq(Entries)
             /\ \A j \in DOMAIN Terms[n].entries :
                  acceptable[Terms[n].entries[j]] = ItemRefs(Plain(wrote[Terms[n].entries[j]]))
  <2>1. pc = "checkout"
    BY <1>2, <1>3, CheckoutTyped DEF InMandate, Terms, Source, Plain
  <2>2. Terms = Plain(mandate.checkout) /\ n \in LineTerms
    BY <1>2, <1>3, <2>1, LineTermsAre DEF Terms, Source, Plain
  <2>3. mandate.checkout # Absent /\ mandate.checkout[n].entries \in Seq(Entries) /\ Terms[n] = mandate.checkout[n]
    BY <1>2, <2>2, LineTermsAre DEF Plain
  <2>4. ASSUME NEW j \in DOMAIN Terms[n].entries
        PROVE  acceptable[Terms[n].entries[j]] = ItemRefs(Plain(wrote[Terms[n].entries[j]]))
    <3>1. <<n, j>> \in Gone /\ EntryAt(<<n, j>>) = Terms[n].entries[j]
      BY <1>1, <2>2, <2>3, <2>4, PlaceIn DEF EntryAt
    <3>2. EntryAt(<<n, j>>) \in Entries
      BY <1>1, <1>2, <3>1, PlacesTyped
    <3> QED
      BY <1>2, <3>1, <3>2 DEF UsesInv
  <2> QED
    BY <2>3, <2>4
<1>4. ASSUME NEW n \in DOMAIN Terms PROVE Contents[n] = SealedTerm(Terms[n])
  <2>1. Contents[n] = [type |-> draft[n].type, refs |-> draft[n].refs, names |-> Absent,
                       items |-> [j \in DOMAIN draft[n].entries |-> acceptable[draft[n].entries[j]]]]
    BY <1>1, <1>4 DEF Contents
  <2>2. draft[n] = CopyOf(Terms[n])
    BY <1>1, <1>4
  <2>3. [j \in DOMAIN draft[n].entries |-> acceptable[draft[n].entries[j]]]
        = IF Terms[n].type = "line_items"
          THEN [j \in DOMAIN Terms[n].entries |-> ItemRefs(Plain(wrote[Terms[n].entries[j]]))] ELSE <<>>
    <3>1. CASE Terms[n].type = "line_items"
      <4>1. draft[n].entries = Terms[n].entries
        BY <2>2, <3>1 DEF CopyOf
      <4> QED
        BY <1>3, <3>1, <4>1
    <3>2. CASE Terms[n].type # "line_items"
      <4>1. draft[n].entries = <<>>
        BY <2>2, <3>2 DEF CopyOf
      <4> QED
        BY <3>2, <4>1
    <3> QED
      BY <3>1, <3>2
  <2> QED
    BY <2>1, <2>2, <2>3 DEF CopyOf, SealedTerm
<1> QED
  BY <1>1, <1>4 DEF Contents, Sealed

LEMMA RefineSealCheckout == ASSUME RefineInv, SealCheckout PROVE RefineInv'
<1>1. /\ pc = "checkout" /\ InMandate /\ k \notin DOMAIN Terms
      /\ sealed' = (IF mandate.checkout = Absent THEN Absent ELSE Contents)
      /\ pc' = "payment" /\ k' = 1 /\ draft' = <<>> /\ InMandate'
      /\ UNCHANGED <<acceptable, wrote, mandate, calls, e, held>>
  BY DEF SealCheckout, InMandate
<1>2. /\ TypeOK /\ EntriesInv /\ UsesInv /\ mandate \in Mandate
      /\ mandate.mode = "AUTONOMOUS"
  BY <1>1, TermsTyped DEF RefineInv, Inv, TermsInv
<1>3. Terms = Plain(mandate.checkout) /\ Contents = Sealed(Terms)
  BY <1>1, ContentsAreSealed DEF Terms, Source, Plain
<1>4. EntriesInv'
  BY <1>1, <1>2 DEF EntriesInv
<1>5. Gone' = Gone
  <2>1. Gone = Places
    BY <1>1, LoopOver
  <2> QED
    BY <1>1, <2>1, SameWhileRunning DEF Gone
<1>6. UsesInv'
  BY <1>1, <1>2, <1>5, SameWhileRunning DEF UsesInv
<1>7. Terms' \in Seq(Term)
  BY <1>1, <1>2, CheckoutTyped DEF Terms, Source, Plain
<1>8. AllKnown(Plain(mandate.checkout), Len(Plain(mandate.checkout)) + 1)
  BY <1>1, <1>3, LoopOver
<1>9. Plain(mandate.checkout)' = Plain(mandate.checkout)
  BY <1>1 DEF Plain
<1>10. /\ sealed' = IF mandate.checkout = Absent THEN Absent ELSE Sealed(mandate.checkout)
       /\ sealed' = Absent <=> mandate.checkout = Absent
  <2>1. Contents # Absent
    <3>1. DraftOwn
      BY <1>1 DEF RefineInv, Inv, LoopInv
    <3> QED
      BY <1>2, <3>1, ContentsOwn, UsersListItems
  <2> QED
    BY <1>1, <1>3, <2>1 DEF Plain
<1>11. TermsInv'
  BY <1>1, <1>2, <1>7, <1>8, <1>9, <1>10, SameWhileRunning DEF TermsInv, AllKnown
<1> QED
  BY <1>1, <1>4, <1>6, <1>11, InvSealCheckout DEF RefineInv

LEMMA RefineSign == ASSUME RefineInv, Sign PROVE RefineInv'
<1>1. ~InMandate' /\ UNCHANGED <<acceptable, wrote>>
  BY DEF Sign, InMandate
<1> QED
  BY <1>1, InvSign DEF RefineInv, EntriesInv

LEMMA RefineStutter == ASSUME RefineInv, UNCHANGED vars PROVE RefineInv'
<1>1. /\ UNCHANGED <<acceptable, wrote, pc, mandate, calls, k, e, draft, sealed, held, issued>>
      /\ Terms' = Terms /\ Plain(mandate.checkout)' = Plain(mandate.checkout)
      /\ (InMandate' <=> InMandate)
  BY DEF vars, Terms, Source, Plain, InMandate
<1>2. Gone' = Gone
  BY <1>1, SameWhileRunning DEF Gone
<1>3. EntriesInv' /\ (InMandate => UsesInv' /\ TermsInv')
  BY <1>1, <1>2, SameWhileRunning DEF RefineInv, EntriesInv, UsesInv, TermsInv
<1> QED
  BY <1>1, <1>3, InvStutter DEF RefineInv

LEMMA RefineStep == RefineInv /\ [Next]_vars => RefineInv'
<1> SUFFICES ASSUME RefineInv, [Next]_vars PROVE RefineInv'
  OBVIOUS
<1>1. CASE Rewrite BY <1>1, RefineRewrite
<1>2. CASE Begin BY <1>2, RefineBegin
<1>3. CASE Return BY <1>3, RefineReturn
<1>4. CASE CopyTerm BY <1>4, RefineCopyTerm
<1>5. CASE MatchMerchants BY <1>5, RefineMatchMerchants
<1>6. CASE MatchEntry BY <1>6, RefineMatchEntry
<1>7. CASE EndEntries BY <1>7, RefineEndEntries
<1>8. CASE FailMatch BY <1>8, RefineFailMatch
<1>9. CASE SealCheckout BY <1>9, RefineSealCheckout
<1>10. CASE Sign BY <1>10, RefineSign
<1>11. CASE UNCHANGED vars BY <1>11, RefineStutter
<1> QED
  BY <1>1, <1>2, <1>3, <1>4, <1>5, <1>6, <1>7, <1>8, <1>9, <1>10, <1>11 DEF Next, Working

LEMMA RefineInvariance == Spec => []RefineInv
BY RefineInit, RefineStep, PTL DEF Spec

------------------------------------------------------------------------------
(* What the loops find out is what the promise asks for. *)

LEMMA SameShopIs ==
    ASSUME NEW listed, NEW m
    PROVE  Promise!SameShop(listed, m) <=> SameMerchant(listed, m)
  BY DEF Promise!SameShop, SameMerchant

LEMMA SameProductIs ==
    ASSUME NEW listed, NEW item
    PROVE  Promise!SameProduct(listed, item) <=> SameItem(listed, item)
  BY UsersListItems DEF Promise!SameProduct, SameItem, ProductKeys

LEMMA InRange == ASSUME NEW f, NEW x PROVE x \in Promise!Range(f) <=> \E n \in DOMAIN f : x = f[n]
  BY DEF Promise!Range

LEMMA MerchantsOffered ==
    ASSUME NEW list
    PROVE  Promise!Offered(list, mandate.merchants, Promise!SameShop) <=> MerchantsKnown(list)
<1>1. Promise!Offered(list, mandate.merchants, Promise!SameShop)
      <=> \A x \in Promise!Range(list) : \E y \in Promise!Range(mandate.merchants) : Promise!SameShop(x, y)
  BY DEF Promise!Offered
<1>2. ASSUME NEW n \in DOMAIN list
      PROVE  (\E y \in Promise!Range(mandate.merchants) : Promise!SameShop(list[n], y)) <=> MerchantAt(list[n]) # {}
  BY InRange, SameShopIs DEF MerchantAt
<1>3. (\A x \in Promise!Range(list) : \E y \in Promise!Range(mandate.merchants) : Promise!SameShop(x, y))
      <=> \A n \in DOMAIN list : \E y \in Promise!Range(mandate.merchants) : Promise!SameShop(list[n], y)
  BY InRange
<1> QED
  BY <1>1, <1>2, <1>3 DEF MerchantsKnown

LEMMA ItemsOffered ==
    ASSUME NEW list
    PROVE  Promise!Offered(list, mandate.items, Promise!SameProduct) <=> ItemsKnown(list)
<1>1. Promise!Offered(list, mandate.items, Promise!SameProduct)
      <=> \A x \in Promise!Range(list) : \E y \in Promise!Range(mandate.items) : Promise!SameProduct(x, y)
  BY DEF Promise!Offered
<1>2. ASSUME NEW n \in DOMAIN list
      PROVE  (\E y \in Promise!Range(mandate.items) : Promise!SameProduct(list[n], y)) <=> ItemAt(list[n]) # {}
  BY InRange, SameProductIs DEF ItemAt
<1>3. (\A x \in Promise!Range(list) : \E y \in Promise!Range(mandate.items) : Promise!SameProduct(x, y))
      <=> \A n \in DOMAIN list : \E y \in Promise!Range(mandate.items) : Promise!SameProduct(list[n], y)
  BY InRange
<1> QED
  BY <1>1, <1>2, <1>3 DEF ItemsKnown

\* The uses of entries that restrict anything.
LEMMA UsesAre ==
    ASSUME TypeOK, mandate \in Mandate
    PROVE  Promise!Uses(mandate) = {use \in Places : Plain(wrote[EntryAt(use)]) # <<>>}
<1>1. Promise!Uses(mandate)
      = UNION {{<<n, j>> : j \in {i \in DOMAIN mandate.checkout[n].entries :
                wrote[mandate.checkout[n].entries[i]] \notin {Absent, <<>>}}} : n \in LineTerms}
  BY DEF Promise!Uses, LineTerms
<1>2. ASSUME NEW n \in LineTerms, NEW j \in DOMAIN mandate.checkout[n].entries
      PROVE  /\ <<n, j>> \in Places /\ EntryAt(<<n, j>>) = mandate.checkout[n].entries[j]
             /\ wrote[mandate.checkout[n].entries[j]] \notin {Absent, <<>>}
                <=> Plain(wrote[EntryAt(<<n, j>>)]) # <<>>
  <2>1. <<n, j>> \in Places /\ EntryAt(<<n, j>>) = mandate.checkout[n].entries[j]
    BY PlaceIn DEF EntryAt
  <2>2. EntryAt(<<n, j>>) \in Entries
    BY <2>1, PlacesTyped
  <2> QED
    BY <2>1, <2>2, WrittenPlain
<1>3. ASSUME NEW use \in Promise!Uses(mandate)
      PROVE  use \in Places /\ Plain(wrote[EntryAt(use)]) # <<>>
  <2>1. PICK n \in LineTerms : \E j \in {i \in DOMAIN mandate.checkout[n].entries :
                wrote[mandate.checkout[n].entries[i]] \notin {Absent, <<>>}} : use = <<n, j>>
    BY <1>1, <1>3
  <2> QED
    BY <1>2, <2>1
<1>4. ASSUME NEW use \in Places, Plain(wrote[EntryAt(use)]) # <<>>
      PROVE  use \in Promise!Uses(mandate)
  <2> DEFINE n == use[1]
             j == use[2]
  <2>1. n \in LineTerms /\ j \in DOMAIN mandate.checkout[n].entries /\ use = <<n, j>>
    BY PlacesTyped
  <2>2. wrote[mandate.checkout[n].entries[j]] \notin {Absent, <<>>}
    BY <1>2, <1>4, <2>1
  <2> HIDE DEF n, j
  <2> QED
    BY <1>1, <2>1, <2>2
<1> QED
  BY <1>3, <1>4

LEMMA UsedIs == ASSUME NEW use PROVE Promise!Used(mandate, use) = EntryAt(use)
  BY DEF Promise!Used, EntryAt

\* An entry of which a use is not yet settled is spent when it holds references.
LEMMA SpentIs ==
    Spent = {x \in Entries : HasRefs(IF InMandate THEN held[x] ELSE acceptable[x])}
  BY DEF Spent, HasRefs

\* An entry as the user left it has no references; a used-up one has.
LEMMA RefsOf ==
    ASSUME TypeOK, NEW x \in Entries, NEW list \in OrAbsent(Seq(Item))
    PROVE  /\ Plain(list) = Plain(wrote[x]) => ~HasRefs(list)
           /\ OnlyRefs(list) => HasRefs(list)
<1>1. Plain(list) = Plain(wrote[x]) => ~HasRefs(list)
  BY WrittenPlain DEF HasRefs, Plain
<1>2. ASSUME OnlyRefs(list) PROVE HasRefs(list)
  <2>1. list \in Seq(Item) /\ list # <<>>
    BY <1>2 DEF OnlyRefs, OrAbsent
  <2>2. 1 \in DOMAIN list
    BY <2>1
  <2> QED
    BY <1>2, <2>2 DEF OnlyRefs, HasRefs
<1> QED
  BY <1>1, <1>2

\* What a call has done to the entries so far: those it went through that
\* restrict anything are used up, like those that were before.
LEMMA Settled ==
    ASSUME RefineInv, InMandate
    PROVE  {x \in Entries : HasRefs(acceptable[x])}
           = Spent \cup {EntryAt(u) : u \in {v \in Gone : Plain(wrote[EntryAt(v)]) # <<>>}}
<1> DEFINE used == {EntryAt(u) : u \in {v \in Gone : Plain(wrote[EntryAt(v)]) # <<>>}}
<1>1. TypeOK /\ UsesInv /\ mandate \in Mandate /\ calls \in Nat
  BY TermsTyped DEF RefineInv, Inv, TypeOK
<1>2. Spent = {x \in Entries : HasRefs(held[x])}
  BY SpentIs
<1>3. used \subseteq Entries
  BY <1>1, PlacesTyped DEF Gone
<1>4. ASSUME NEW x \in Entries
      PROVE  HasRefs(acceptable[x]) <=> (HasRefs(held[x]) \/ x \in used)
  <2>1. CASE \E u \in Gone : EntryAt(u) = x
    <3>1. /\ acceptable[x] = ItemRefs(Plain(wrote[x])) /\ Plain(held[x]) = Plain(wrote[x])
          /\ ItemsKnown(Plain(wrote[x]))
      BY <1>1, <2>1 DEF UsesInv
    <3>2. x \in used <=> Plain(wrote[x]) # <<>>
      BY <2>1
    <3>3. ~HasRefs(held[x])
      BY <1>1, <3>1, RefsOf DEF TypeOK
    <3>4. acceptable[x] \in OrAbsent(Seq(Item)) /\ Plain(wrote[x]) \in Seq(Item)
      BY <1>1, WrittenPlain DEF TypeOK
    <3>5. CASE Plain(wrote[x]) = <<>>
      <4>1. acceptable[x] = <<>>
        BY <1>1, <3>1, <3>4, <3>5, ItemRefsAre
      <4>2. ~HasRefs(acceptable[x])
        BY <4>1 DEF HasRefs
      <4> QED
        BY <3>2, <3>3, <3>5, <4>2
    <3>6. CASE Plain(wrote[x]) # <<>>
      <4>1. OnlyRefs(acceptable[x])
        BY <1>1, <3>1, <3>4, <3>6, ItemRefsAre
      <4> QED
        BY <1>1, <3>2, <3>4, <3>6, <4>1, RefsOf
    <3> QED
      BY <3>5, <3>6
  <2>2. CASE ~\E u \in Gone : EntryAt(u) = x
    BY <1>1, <2>2 DEF UsesInv
  <2> QED
    BY <2>1, <2>2
<1> QED
  BY <1>2, <1>3, <1>4

\* The parts of Grantable.
LEMMA GrantableIs ==
    ASSUME TypeOK, mandate \in Mandate
    PROVE  Promise!Grantable(mandate) <=>
             /\ mandate.mode = "AUTONOMOUS"
             /\ \A terms \in {mandate.checkout, mandate.payment} :
                  AllKnown(Plain(terms), Len(Plain(terms)) + 1)
             /\ \A use \in Promise!Uses(mandate) :
                  /\ EntryAt(use) \notin Spent
                  /\ ItemsKnown(Plain(wrote[EntryAt(use)]))
                  /\ \A other \in Promise!Uses(mandate) : EntryAt(other) = EntryAt(use) => other = use
<1>1. Promise!Grantable(mandate) <=>
        /\ mandate.mode = "AUTONOMOUS"
        /\ \A terms \in {mandate.checkout, mandate.payment} : \A n \in Promise!Listed(terms, "allowed") :
             Promise!Offered(terms[n].allowed, mandate.merchants, Promise!SameShop)
        /\ \A use \in Promise!Uses(mandate) :
             /\ Promise!Used(mandate, use) \notin Spent
             /\ Promise!Offered(wrote[Promise!Used(mandate, use)], mandate.items, Promise!SameProduct)
             /\ \A other \in Promise!Uses(mandate) :
                  Promise!Used(mandate, other) = Promise!Used(mandate, use) => other = use
  BY DEF Promise!Grantable
<1>2. ASSUME NEW terms \in {mandate.checkout, mandate.payment}
      PROVE  (\A n \in Promise!Listed(terms, "allowed") :
                Promise!Offered(terms[n].allowed, mandate.merchants, Promise!SameShop))
             <=> AllKnown(Plain(terms), Len(Plain(terms)) + 1)
  <2>1. Plain(terms) \in Seq(Term)
    BY CheckoutTyped
  <2>2. Promise!Listed(terms, "allowed")
        = {n \in DOMAIN Plain(terms) : n < Len(Plain(terms)) + 1 /\ Plain(terms)[n].type = "allowed"}
    BY <2>1 DEF Promise!Listed, Plain
  <2>3. \A n \in Promise!Listed(terms, "allowed") : Plain(terms)[n] = terms[n]
    BY DEF Promise!Listed, Plain
  <2>4. (\A n \in Promise!Listed(terms, "allowed") :
           Promise!Offered(terms[n].allowed, mandate.merchants, Promise!SameShop))
        <=> \A n \in Promise!Listed(terms, "allowed") : MerchantsKnown(Plain(terms)[n].allowed)
    BY <2>3, MerchantsOffered
  <2> QED
    BY <2>2, <2>4 DEF AllKnown
<1>3. ASSUME NEW use \in Promise!Uses(mandate)
      PROVE  /\ Promise!Used(mandate, use) = EntryAt(use)
             /\ wrote[EntryAt(use)] = Plain(wrote[EntryAt(use)])
             /\ Promise!Offered(wrote[EntryAt(use)], mandate.items, Promise!SameProduct)
                <=> ItemsKnown(Plain(wrote[EntryAt(use)]))
  <2>1. Plain(wrote[EntryAt(use)]) # <<>>
    BY UsesAre
  <2>2. wrote[EntryAt(use)] = Plain(wrote[EntryAt(use)])
    BY <2>1 DEF Plain
  <2> QED
    BY <2>2, UsedIs, ItemsOffered
<1> QED
  BY <1>1, <1>2, <1>3, UsedIs

\* A call fails only when it may not be granted.
LEMMA FailedRightly == ASSUME RefineInv, FailMatch PROVE ~Promise!Grantable(mandate)
<1>1. InMandate /\ k \in DOMAIN Terms
  BY DEF FailMatch, At
<1>2. /\ TypeOK /\ EntriesInv /\ UsesInv /\ TermsInv /\ mandate \in Mandate
      /\ Terms \in Seq(Term)
  BY <1>1, TermsTyped DEF RefineInv, Inv
<1>3. CASE At("allowed") /\ ~MerchantsKnown(Terms[k].allowed)
  <2>1. PICK terms \in {mandate.checkout, mandate.payment} : Terms = Plain(terms)
    BY <1>1 DEF InMandate, Terms, Source, Plain
  <2>2. k < Len(Terms) + 1
    BY <1>1, <1>2
  <2>3. ~AllKnown(Plain(terms), Len(Plain(terms)) + 1)
    BY <1>1, <1>3, <2>1, <2>2 DEF AllKnown, At
  <2> QED
    BY <1>2, <2>3, GrantableIs
<1>4. CASE At("line_items") /\ e \in DOMAIN Terms[k].entries /\ ~ItemsKnown(EntryList)
  <2> DEFINE x == Terms[k].entries[e]
             use == <<k, e>>
  <2>1. /\ pc = "checkout" /\ k \in LineTerms /\ Terms[k] = mandate.checkout[k] /\ x \in Entries
        /\ k \in Nat /\ e \in Nat
    BY <1>2, <1>4, AtLineItems DEF TypeOK
  <2>2. use \in Places /\ EntryAt(use) = x /\ use \notin Gone
    BY <1>4, <2>1, PlaceIn DEF EntryAt, Gone
  <2> HIDE DEF x, use
  <2>3. EntryList = Plain(acceptable[x]) /\ acceptable[x] \in OrAbsent(Seq(Item))
    BY <1>2, <2>1 DEF EntryList, Plain, TypeOK, x
  <2>4. Plain(acceptable[x]) # <<>>
    BY <1>4, <2>3 DEF ItemsKnown
  <2>5. Plain(wrote[x]) # <<>> /\ (Plain(acceptable[x]) = Plain(wrote[x]) \/ OnlyRefs(acceptable[x]))
    BY <1>2, <2>1, <2>4 DEF EntriesInv, EntryInv
  <2>6. use \in Promise!Uses(mandate)
    BY <1>2, <2>2, <2>5, UsesAre
  <2>7. CASE Plain(acceptable[x]) = Plain(wrote[x])
    BY <1>2, <1>4, <2>2, <2>3, <2>6, <2>7, GrantableIs
  <2>8. CASE OnlyRefs(acceptable[x])
    <3>1. HasRefs(acceptable[x])
      BY <1>2, <2>1, <2>3, <2>8, RefsOf
    <3>2. x \in Spent \/ \E u \in Gone : EntryAt(u) = x /\ Plain(wrote[EntryAt(u)]) # <<>>
      BY <1>1, <2>1, <3>1, Settled
    <3>3. CASE x \in Spent
      BY <1>2, <2>2, <2>6, <3>3, GrantableIs
    <3>4. CASE \E u \in Gone : EntryAt(u) = x /\ Plain(wrote[EntryAt(u)]) # <<>>
      <4>1. PICK u \in Gone : EntryAt(u) = x /\ Plain(wrote[EntryAt(u)]) # <<>>
        BY <3>4
      <4>2. u \in Promise!Uses(mandate) /\ u # use
        BY <1>2, <2>2, <4>1, UsesAre DEF Gone
      <4> QED
        BY <1>2, <2>2, <2>6, <4>1, <4>2, GrantableIs
    <3> QED
      BY <3>2, <3>3, <3>4
  <2> QED
    BY <2>5, <2>7, <2>8
<1> QED
  BY <1>3, <1>4 DEF FailMatch

\* A call that reaches the signature may be granted.
LEMMA SignedRightly == ASSUME RefineInv, Sign PROVE Promise!Grantable(mandate)
<1>1. InMandate /\ k \notin DOMAIN Terms /\ pc = "payment"
  BY DEF Sign, InMandate
<1>2. TypeOK /\ UsesInv /\ TermsInv /\ mandate \in Mandate
  BY <1>1, TermsTyped DEF RefineInv, Inv
<1>3. \A terms \in {mandate.checkout, mandate.payment} : AllKnown(Plain(terms), Len(Plain(terms)) + 1)
  <2>1. Terms = Plain(mandate.payment)
    BY <1>1 DEF Terms, Source, Plain
  <2> QED
    BY <1>1, <1>2, <2>1, LoopOver DEF TermsInv
<1>4. ASSUME NEW use \in Promise!Uses(mandate)
      PROVE  /\ EntryAt(use) \notin Spent
             /\ ItemsKnown(Plain(wrote[EntryAt(use)]))
             /\ \A other \in Promise!Uses(mandate) : EntryAt(other) = EntryAt(use) => other = use
  <2>1. /\ \A u \in Promise!Uses(mandate) : u \in Gone /\ Plain(wrote[EntryAt(u)]) # <<>>
        /\ EntryAt(use) \in Entries
    BY <1>1, <1>2, LoopOver, UsesAre, PlacesTyped
  <2>2. /\ Plain(held[EntryAt(use)]) = Plain(wrote[EntryAt(use)])
        /\ ItemsKnown(Plain(wrote[EntryAt(use)]))
    BY <1>2, <2>1 DEF UsesInv
  <2>3. EntryAt(use) \notin Spent
    BY <1>1, <1>2, <2>1, <2>2, RefsOf, SpentIs DEF TypeOK
  <2>4. \A other \in Promise!Uses(mandate) : EntryAt(other) = EntryAt(use) => other = use
    BY <1>2, <2>1 DEF UsesInv
  <2> QED
    BY <2>2, <2>3, <2>4
<1> QED
  BY <1>2, <1>3, <1>4, GrantableIs DEF TermsInv

------------------------------------------------------------------------------
(* What a credential says once its references are opened. *)

\* An allowlist that was replaced by references opens to merchants that agree
\* with those listed, in their order.
LEMMA MerchantsRendered ==
    ASSUME mandate \in Mandate, NEW list \in Seq(Merchant), MerchantsKnown(list),
           NEW said, said = [n \in DOMAIN MerchantRefs(list) |-> mandate.merchants[MerchantRefs(list)[n].at]]
    PROVE  Promise!Renders(said, list, mandate.merchants, Promise!SameShop)
<1>1. DOMAIN MerchantRefs(list) = DOMAIN list /\ DOMAIN mandate.merchants \subseteq Nat
  BY CheckoutTyped DEF MerchantRefs
<1>2. ASSUME NEW n \in DOMAIN list
      PROVE  said[n] \in Promise!Range(mandate.merchants) /\ Promise!SameShop(list[n], said[n])
  <2>1. First(MerchantAt(list[n])) \in MerchantAt(list[n])
    BY <1>1, FirstIn DEF MerchantsKnown, MerchantAt
  <2>2. said[n] = mandate.merchants[First(MerchantAt(list[n]))]
    BY <1>1 DEF MerchantRefs, Fresh
  <2> QED
    BY <2>1, <2>2, InRange, SameShopIs DEF MerchantAt
<1> QED
  BY <1>1, <1>2 DEF Promise!Renders

LEMMA ItemsRendered ==
    ASSUME mandate \in Mandate, NEW list \in Seq(Item), ItemsKnown(list),
           NEW said, said = [n \in DOMAIN ItemRefs(list) |-> mandate.items[ItemRefs(list)[n].ref.at]]
    PROVE  Promise!Renders(said, list, mandate.items, Promise!SameProduct)
<1>1. DOMAIN ItemRefs(list) = DOMAIN list /\ DOMAIN mandate.items \subseteq Nat
  BY CheckoutTyped DEF ItemRefs
<1>2. ASSUME NEW n \in DOMAIN list
      PROVE  said[n] \in Promise!Range(mandate.items) /\ Promise!SameProduct(list[n], said[n])
  <2>1. First(ItemAt(list[n])) \in ItemAt(list[n])
    BY <1>1, FirstIn DEF ItemsKnown, ItemAt
  <2>2. said[n] = mandate.items[First(ItemAt(list[n]))]
    BY <1>1 DEF ItemRefs, Fresh
  <2> QED
    BY <2>1, <2>2, InRange, SameProductIs DEF ItemAt
<1> QED
  BY <1>1, <1>2 DEF Promise!Renders

\* One constraint.
LEMMA TermRendered ==
    ASSUME TypeOK, mandate \in Mandate, NEW term \in Term,
           term.type = "allowed" => MerchantsKnown(term.allowed),
           term.type = "line_items" =>
               \A j \in DOMAIN term.entries : ItemsKnown(Plain(wrote[term.entries[j]])),
           NEW said, said = OpenTerm(SealedTerm(term), mandate)
    PROVE  Promise!SaysTerm(said, term, mandate)
<1> DEFINE signed == SealedTerm(term)
<1>1. /\ said.type = signed.type
      /\ said.allowed = [n \in DOMAIN signed.refs |-> mandate.merchants[signed.refs[n].at]]
      /\ said.items = [j \in DOMAIN signed.items |->
                         [n \in DOMAIN signed.items[j] |-> mandate.items[signed.items[j][n].ref.at]]]
  BY DEF OpenTerm
<1>2. term.allowed \in Seq(Merchant) /\ term.entries \in Seq(Entries) /\ signed.type = term.type
  BY DEF Term, SealedTerm
<1>3. ASSUME term.type = "allowed"
      PROVE  Promise!Renders(said.allowed, term.allowed, mandate.merchants, Promise!SameShop)
  <2>1. signed.refs = MerchantRefs(term.allowed)
    BY <1>3 DEF SealedTerm
  <2>2. said.allowed = [n \in DOMAIN MerchantRefs(term.allowed) |->
                          mandate.merchants[MerchantRefs(term.allowed)[n].at]]
    BY <1>1, <2>1
  <2> QED
    BY <1>2, <1>3, <2>2, MerchantsRendered
<1>4. ASSUME term.type = "line_items"
      PROVE  /\ DOMAIN said.items = DOMAIN term.entries
             /\ \A n \in DOMAIN term.entries :
                  IF wrote[term.entries[n]] \in {Absent, <<>>} THEN said.items[n] = <<>>
                  ELSE Promise!Renders(said.items[n], wrote[term.entries[n]], mandate.items,
                                       Promise!SameProduct)
  <2>1. signed.items = [j \in DOMAIN term.entries |-> ItemRefs(Plain(wrote[term.entries[j]]))]
    BY <1>4 DEF SealedTerm
  <2>2. DOMAIN said.items = DOMAIN term.entries
    BY <1>1, <2>1
  <2>3. ASSUME NEW n \in DOMAIN term.entries
        PROVE  IF wrote[term.entries[n]] \in {Absent, <<>>} THEN said.items[n] = <<>>
               ELSE Promise!Renders(said.items[n], wrote[term.entries[n]], mandate.items,
                                    Promise!SameProduct)
    <3> DEFINE list == Plain(wrote[term.entries[n]])
    <3>1. /\ term.entries[n] \in Entries /\ list \in Seq(Item) /\ ItemsKnown(list)
          /\ list = <<>> <=> wrote[term.entries[n]] \in {Absent, <<>>}
      BY <1>2, <1>4, <2>3, WrittenPlain
    <3>2. said.items[n] = [p \in DOMAIN ItemRefs(list) |-> mandate.items[ItemRefs(list)[p].ref.at]]
      <4>1. n \in DOMAIN signed.items /\ signed.items[n] = ItemRefs(list)
        BY <2>1, <2>3
      <4> HIDE DEF signed, list
      <4> QED
        BY <1>1, <4>1
    <3>3. CASE list = <<>>
      <4>1. DOMAIN ItemRefs(list) = {}
        BY <3>3 DEF ItemRefs
      <4> QED
        BY <3>1, <3>2, <3>3, <4>1
    <3>4. CASE list # <<>>
      <4>1. list = wrote[term.entries[n]]
        BY <3>4 DEF Plain
      <4>2. Promise!Renders(said.items[n], list, mandate.items, Promise!SameProduct)
        BY <3>1, <3>2, ItemsRendered
      <4> QED
        BY <3>1, <3>4, <4>1, <4>2
    <3> QED
      BY <3>3, <3>4
  <2> QED
    BY <2>2, <2>3
<1>5. said.type = term.type
  BY <1>1, <1>2
<1> QED
  BY <1>3, <1>4, <1>5 DEF Promise!SaysTerm

\* What opening the constraints of a credential yields, leaving the reference out.
LEMMA OpenedTerms ==
    ASSUME NEW terms \in Seq(Term), NEW m, NEW q, NEW refs,
           q = Sealed(terms) \o refs, q # Absent,
           refs = <<>> \/ \E r \in Signed : refs = <<r>> /\ r.type = "reference"
    PROVE  /\ OpenTerms(q, m) = [n \in DOMAIN terms |-> OpenTerm(SealedTerm(terms[n]), m)]
           /\ {t.names : t \in {u \in Range(q) : u.type = "reference"}} = {r.names : r \in Range(refs)}
<1> DEFINE sealedTerms == Sealed(terms)
<1>1. /\ Len(terms) \in Nat /\ DOMAIN terms = 1..Len(terms)
      /\ \A n \in DOMAIN terms : terms[n].type # "reference"
  <2>1. \A n \in DOMAIN terms : terms[n] \in Term
    OBVIOUS
  <2>2. \A term \in Term : term.type # "reference"
    BY DEF Term
  <2> QED
    BY <2>1, <2>2
<1>2. /\ DOMAIN sealedTerms = 1..Len(terms) /\ sealedTerms \in Seq(Range(sealedTerms))
      /\ Len(sealedTerms) = Len(terms)
      /\ \A n \in DOMAIN terms : sealedTerms[n] = SealedTerm(terms[n])
  BY <1>1 DEF Sealed, Range
<1>3. \A n \in DOMAIN terms : sealedTerms[n].type # "reference"
  BY <1>1, <1>2 DEF SealedTerm
<1> HIDE DEF sealedTerms
<1>4. /\ refs \in Seq(Range(refs))
      /\ \A n \in DOMAIN refs : refs[n].type = "reference"
  <2>1. CASE refs = <<>>
    BY <2>1
  <2>2. CASE \E r \in Signed : refs = <<r>> /\ r.type = "reference"
    <3>1. PICK r \in Signed : refs = <<r>> /\ r.type = "reference"
      BY <2>2
    <3>2. Len(refs) = 1 /\ DOMAIN refs = 1..1 /\ refs[1] = r
      BY <3>1
    <3>3. refs \in Seq(Signed)
      BY <3>1
    <3> QED
      BY <3>1, <3>2, <3>3 DEF Range
  <2> QED
    BY <2>1, <2>2
<1>5. /\ DOMAIN q = 1..(Len(terms) + Len(refs)) /\ Len(refs) \in Nat /\ DOMAIN refs = 1..Len(refs)
      /\ \A n \in DOMAIN terms : q[n] = sealedTerms[n]
      /\ \A n \in DOMAIN refs : q[n + Len(terms)] = refs[n]
  <2>1. q = sealedTerms \o refs
    BY DEF sealedTerms
  <2> QED
    BY <1>1, <1>2, <1>4, <2>1
<1>6. \A n \in DOMAIN q : n \in DOMAIN terms \/ (n - Len(terms) \in DOMAIN refs /\ q[n] = refs[n - Len(terms)])
  <2> TAKE n \in DOMAIN q
  <2>1. n \in DOMAIN terms \/ n - Len(terms) \in DOMAIN refs
    BY <1>1, <1>5
  <2>2. n - Len(terms) + Len(terms) = n
    BY <1>1, <1>5
  <2> QED
    BY <1>5, <2>1, <2>2
<1>7. {j \in DOMAIN q : q[j].type # "reference"} = DOMAIN terms
  <2>1. DOMAIN terms \subseteq DOMAIN q
    BY <1>1, <1>5
  <2>2. \A n \in DOMAIN terms : q[n].type # "reference"
    BY <1>3, <1>5
  <2>3. \A n \in DOMAIN q : n \in DOMAIN terms \/ q[n].type = "reference"
    BY <1>4, <1>6
  <2> QED
    BY <2>1, <2>2, <2>3
<1>8. OpenTerms(q, m) = [n \in DOMAIN terms |-> OpenTerm(SealedTerm(terms[n]), m)]
  BY <1>2, <1>5, <1>7 DEF OpenTerms
<1>9. {u \in Range(q) : u.type = "reference"} = Range(refs)
  <2>1. \A n \in DOMAIN refs : n + Len(terms) \in DOMAIN q
    BY <1>1, <1>5
  <2>2. \A n \in DOMAIN terms : q[n].type # "reference"
    BY <1>3, <1>5
  <2> QED
    BY <1>4, <1>5, <1>6, <2>1, <2>2 DEF Range
<1> QED
  BY <1>8, <1>9

LEMMA TermsSaid ==
    ASSUME RefineInv, Sign, NEW terms \in {mandate.checkout, mandate.payment}, terms # Absent,
           NEW said, said = [n \in DOMAIN terms |-> OpenTerm(SealedTerm(terms[n]), mandate)]
    PROVE  Promise!SaysTerms(said, terms, mandate)
<1>1. InMandate /\ k \notin DOMAIN Terms /\ pc = "payment"
  BY DEF Sign, InMandate
<1>2. TypeOK /\ UsesInv /\ TermsInv /\ mandate \in Mandate /\ Gone = Places
  BY <1>1, TermsTyped, LoopOver DEF RefineInv, Inv
<1>3. Plain(terms) = terms /\ terms \in Seq(Term) /\ AllKnown(terms, Len(terms) + 1)
  <2>1. AllKnown(Plain(terms), Len(Plain(terms)) + 1)
    BY <1>2, SignedRightly, GrantableIs
  <2> QED
    BY <1>2, <2>1, CheckoutTyped DEF Plain
<1>4. ASSUME NEW n \in DOMAIN terms
      PROVE  Promise!SaysTerm(said[n], terms[n], mandate)
  <2>1. terms[n] \in Term /\ said[n] = OpenTerm(SealedTerm(terms[n]), mandate)
    BY <1>3, <1>4
  <2>2. terms[n].type = "allowed" => MerchantsKnown(terms[n].allowed)
    <3>1. n < Len(terms) + 1
      BY <1>3
    <3> QED
      BY <1>3, <3>1 DEF AllKnown
  <2>3. ASSUME terms[n].type = "line_items", NEW j \in DOMAIN terms[n].entries
        PROVE  ItemsKnown(Plain(wrote[terms[n].entries[j]]))
    <3>1. terms = mandate.checkout /\ n \in LineTerms
      <4>1. terms # mandate.payment
        BY <1>2, <1>3, <2>3, CheckoutTyped
      <4> QED
        BY <1>2, <1>3, <2>3, <4>1, LineTermsAre
    <3>2. <<n, j>> \in Gone /\ EntryAt(<<n, j>>) = terms[n].entries[j] /\ EntryAt(<<n, j>>) \in Entries
      BY <1>2, <2>3, <3>1, PlaceIn, PlacesTyped DEF EntryAt
    <3> QED
      BY <1>2, <3>2 DEF UsesInv
  <2> QED
    BY <1>2, <2>1, <2>2, <2>3, TermRendered
<1> QED
  BY <1>4 DEF Promise!SaysTerms

\* The signed credential says what the mandate says.
LEMMA CredentialSays ==
    ASSUME RefineInv, Sign,
           NEW c, c = [by |-> calls, for |-> mandate, checkout |-> sealed,
                       payment |-> IF mandate.payment = Absent THEN Absent ELSE Contents \o References]
    PROVE  Promise!Says(Says(c), mandate)
<1> DEFINE hash == [by |-> calls, kind |-> "checkout", at |-> 1]
           reference == [type |-> "reference", refs |-> <<>>, items |-> <<>>, names |-> hash]
<1>1. InMandate /\ k \notin DOMAIN Terms /\ pc = "payment" /\ DraftOwn
  BY DEF Sign, InMandate, RefineInv, Inv, LoopInv
<1>2. /\ TypeOK /\ TermsInv /\ mandate \in Mandate /\ calls \in Nat
      /\ Terms = Plain(mandate.payment) /\ Contents = Sealed(Terms) /\ Contents \in Seq(Signed)
      /\ Plain(mandate.checkout) \in Seq(Term) /\ Plain(mandate.payment) \in Seq(Term)
  BY <1>1, TermsTyped, ContentsAreSealed, ContentsOwn, CheckoutTyped
     DEF RefineInv, Inv, TypeOK, Terms, Source, Plain
<1>3. /\ reference \in Signed /\ reference.type = "reference" /\ reference.names = hash
      /\ References = IF sealed = Absent THEN <<>> ELSE <<reference>>
  BY <1>2 DEF Signed, Hash, Kinds, OrAbsent, References, Fresh
<1>4. /\ c.by = calls /\ c.for = mandate /\ c.checkout = sealed
      /\ c.payment = IF mandate.payment = Absent THEN Absent ELSE Contents \o References
  OBVIOUS
<1> HIDE DEF reference
<1>5. Promise!SaysTerms(OpenTerms(c.checkout, mandate), mandate.checkout, mandate)
  <2>1. CASE mandate.checkout = Absent
    <3>1. c.checkout = Absent
      BY <1>1, <1>2, <1>4, <2>1 DEF TermsInv
    <3> QED
      BY <2>1, <3>1 DEF OpenTerms, Promise!SaysTerms
  <2>2. CASE mandate.checkout # Absent
    <3>1. sealed = Sealed(mandate.checkout) /\ sealed # Absent /\ mandate.checkout \in Seq(Term)
      BY <1>1, <1>2, <2>2 DEF TermsInv, Plain
    <3>2. sealed = Sealed(mandate.checkout) \o <<>>
      <4>1. sealed \in Seq(Signed)
        BY <1>2, <3>1 DEF TypeOK, OrAbsent
      <4> QED
        BY <3>1, <4>1
    <3>3. OpenTerms(sealed, mandate)
          = [n \in DOMAIN mandate.checkout |-> OpenTerm(SealedTerm(mandate.checkout[n]), mandate)]
      BY <3>1, <3>2, OpenedTerms
    <3> QED
      BY <1>4, <2>2, <3>3, TermsSaid
  <2> QED
    BY <2>1, <2>2
<1>6. ASSUME mandate.payment # Absent
      PROVE  /\ Promise!SaysTerms(OpenTerms(c.payment, mandate), mandate.payment, mandate)
             /\ {t.names : t \in {u \in Range(c.payment) : u.type = "reference"}}
                = {r.names : r \in Range(References)}
             /\ c.payment # Absent
  <2>1. mandate.payment \in Seq(Term) /\ Contents = Sealed(mandate.payment) /\ c.payment = Contents \o References
    BY <1>2, <1>4, <1>6 DEF Plain
  <2>2. References \in Seq(Signed) /\ (References = <<>> \/ References = <<reference>>)
    BY <1>3
  <2>3. c.payment # Absent
    <3>1. Contents \o References \in Seq(Signed)
      BY <1>2, <2>2
    <3> QED
      BY <2>1, <3>1, UsersListItems
  <2>4. /\ OpenTerms(c.payment, mandate)
           = [n \in DOMAIN mandate.payment |-> OpenTerm(SealedTerm(mandate.payment[n]), mandate)]
        /\ {t.names : t \in {u \in Range(c.payment) : u.type = "reference"}}
           = {r.names : r \in Range(References)}
    <3> DEFINE q == c.payment
               terms == mandate.payment
    <3>1. References = <<>> \/ \E r \in Signed : References = <<r>> /\ r.type = "reference"
      BY <1>3, <2>2
    <3>2. terms \in Seq(Term) /\ q = Sealed(terms) \o References /\ q # Absent
      BY <2>1, <2>3
    <3> HIDE DEF q, terms
    <3>3. /\ OpenTerms(q, mandate) = [n \in DOMAIN terms |-> OpenTerm(SealedTerm(terms[n]), mandate)]
          /\ {t.names : t \in {u \in Range(q) : u.type = "reference"}} = {r.names : r \in Range(References)}
      BY <3>1, <3>2, OpenedTerms
    <3> QED
      BY <3>3 DEF q, terms
  <2> QED
    BY <1>6, <2>3, <2>4, TermsSaid
<1>7. Promise!SaysTerms(OpenTerms(c.payment, mandate), mandate.payment, mandate)
  BY <1>4, <1>6 DEF OpenTerms, Promise!SaysTerms
<1>8. {r.names : r \in Range(References)} = IF sealed = Absent THEN {} ELSE {hash}
  <2>1. Range(References) = IF sealed = Absent THEN {} ELSE {reference}
    BY <1>3 DEF Range
  <2> QED
    BY <1>3, <2>1
<1>9. Says(c).bound <=> (Absent \notin {mandate.checkout, mandate.payment})
  <2>1. Says(c).bound <=>
          /\ c.payment # Absent
          /\ {t.names : t \in {u \in Range(c.payment) : u.type = "reference"}} = {hash}
    BY <1>4 DEF Says
  <2>2. sealed = Absent <=> mandate.checkout = Absent
    BY <1>1, <1>2 DEF TermsInv
  <2> HIDE DEF hash
  <2> QED
    BY <1>4, <1>6, <1>8, <2>1, <2>2
<1>10. /\ Says(c).for = mandate
       /\ Says(c).checkout = OpenTerms(c.checkout, mandate)
       /\ Says(c).payment = OpenTerms(c.payment, mandate)
  BY <1>4 DEF Says
<1> QED
  BY <1>5, <1>7, <1>9, <1>10 DEF Promise!Says

------------------------------------------------------------------------------
(* Every step is one of IssuanceSpec, or none. *)

LEMMA PromiseInit == Init => Promise!Init
<1> SUFFICES ASSUME Init PROVE Promise!Init
  OBVIOUS
<1>1. TypeOK
  BY InvInit DEF Inv
<1>2. Spent = {}
  <2>1. ASSUME NEW x \in Entries PROVE ~HasRefs(acceptable[x])
    <3>1. acceptable[x] = wrote[x] /\ acceptable[x] \in OrAbsent(Seq(Item))
      BY <1>1 DEF Init, TypeOK
    <3> QED
      BY <1>1, <3>1, RefsOf
  <2> QED
    BY <2>1, SpentIs DEF Init, InMandate
<1>3. Given = <<>>
  BY DEF Init, Given
<1> QED
  BY <1>2, <1>3 DEF Init, Promise!Init, Verdict, InMandate

LEMMA SameGiven == UNCHANGED issued => UNCHANGED Given
  BY DEF Given

\* The user rewrites an entry: it is fit for use again.
LEMMA PromiseRewrite == ASSUME RefineInv, RefineInv', Rewrite PROVE Promise!Rewrite
<1>1. PICK entry \in Entries, list \in Lists :
         /\ wrote' = [wrote EXCEPT ![entry] = list]
         /\ acceptable' = [acceptable EXCEPT ![entry] = list]
  BY DEF Rewrite
<1>2. /\ TypeOK /\ ~InMandate /\ ~InMandate' /\ pc = "idle" /\ pc' = "idle"
      /\ UNCHANGED <<calls, mandate, issued>>
  BY DEF RefineInv, Inv, Rewrite, InMandate
<1>3. ~HasRefs(list)
  <2>1. list \in OrAbsent(Seq([id: OrAbsent(Ids), sku: OrAbsent(Ids), ref: {Absent}]))
    BY UsersListItems
  <2> DEFINE W == [id: OrAbsent(Ids), sku: OrAbsent(Ids), ref: {Absent}]
  <2>2. \A item \in W : item.ref = Absent
    OBVIOUS
  <2>3. list \in OrAbsent(Seq(W))
    BY <2>1
  <2> HIDE DEF W
  <2> QED
    BY <2>2, <2>3 DEF HasRefs, OrAbsent
<1>4. Spent' = Spent \ {entry}
  <2>1. Spent = {x \in Entries : HasRefs(acceptable[x])}
    BY <1>2, SpentIs
  <2>2. Spent' = {x \in Entries : HasRefs(acceptable'[x])}
    BY <1>2 DEF Spent, HasRefs
  <2>3. \A x \in Entries : acceptable'[x] = IF x = entry THEN list ELSE acceptable[x]
    BY <1>1, <1>2 DEF TypeOK
  <2> QED
    BY <1>3, <2>1, <2>2, <2>3
<1> QED
  BY <1>1, <1>2, <1>4, SameGiven DEF Promise!Rewrite, Verdict, InMandate

LEMMA PromiseBegin == ASSUME RefineInv, Begin PROVE Promise!Ask
<1>1. UNCHANGED Spent
  BY DEF Begin, Spent, InMandate
<1>2. /\ pc = "idle" /\ calls < MaxCalls /\ calls' = calls + 1 /\ mandate' \in Mandates
      /\ pc' = (IF mandate'.mode = "AUTONOMOUS" THEN "checkout" ELSE "failed")
      /\ UNCHANGED <<wrote, issued>>
  BY DEF Begin
<1>3. mandate'.mode # "AUTONOMOUS" => ~Promise!Grantable(mandate')
  BY DEF Promise!Grantable
<1> QED
  BY <1>1, <1>2, <1>3, SameGiven DEF Promise!Ask, Verdict, InMandate

LEMMA PromiseReturn == ASSUME RefineInv, Return PROVE Promise!Take
<1>1. UNCHANGED Spent
  BY DEF Return, Spent, InMandate
<1> QED
  BY <1>1, SameGiven DEF Return, Promise!Take, Verdict, InMandate

\* What a call that ends has spent, from all that it went through.
LEMMA SpentNow ==
    ASSUME RefineInv, InMandate, ~InMandate', UNCHANGED acceptable
    PROVE  Spent' = Spent \cup {EntryAt(u) : u \in {v \in Gone : Plain(wrote[EntryAt(v)]) # <<>>}}
<1>1. Spent' = {x \in Entries : HasRefs(acceptable[x])}
  BY DEF Spent, HasRefs
<1> QED
  BY <1>1, Settled

LEMMA PromiseFail == ASSUME RefineInv, FailMatch PROVE Promise!Refuse
<1>1. /\ InMandate /\ pc' = "failed" /\ ~InMandate'
      /\ UNCHANGED <<acceptable, wrote, mandate, calls, issued>>
  BY DEF FailMatch, At, InMandate
<1>2. TypeOK /\ mandate \in Mandate
  BY <1>1, TermsTyped DEF RefineInv, Inv
<1>3. {EntryAt(u) : u \in {v \in Gone : Plain(wrote[EntryAt(v)]) # <<>>}}
      \in SUBSET {Promise!Used(mandate, use) : use \in Promise!Uses(mandate)}
  BY <1>2, UsesAre, UsedIs DEF Gone
<1>4. \E S \in SUBSET {Promise!Used(mandate, use) : use \in Promise!Uses(mandate)} : Spent' = Spent \cup S
  BY <1>1, <1>3, SpentNow
<1>5. ~Promise!Grantable(mandate)
  BY FailedRightly
<1> QED
  BY <1>1, <1>4, <1>5, SameGiven DEF Promise!Refuse, Verdict, InMandate

LEMMA PromiseSign == ASSUME RefineInv, Sign PROVE Promise!Grant
<1> DEFINE c == [by |-> calls, for |-> mandate, checkout |-> sealed,
                 payment |-> IF mandate.payment = Absent THEN Absent ELSE Contents \o References]
<1>1. /\ InMandate /\ pc = "payment" /\ pc' = "done" /\ ~InMandate' /\ k \notin DOMAIN Terms
      /\ UNCHANGED <<acceptable, wrote, mandate, calls>> /\ issued' = Append(issued, c)
  BY DEF Sign, InMandate
<1>2. TypeOK /\ mandate \in Mandate /\ Gone = Places
  BY <1>1, TermsTyped, LoopOver DEF RefineInv, Inv
<1>3. Spent' = Spent \cup {Promise!Used(mandate, use) : use \in Promise!Uses(mandate)}
  <2>1. Promise!Uses(mandate) = {v \in Gone : Plain(wrote[EntryAt(v)]) # <<>>}
    BY <1>2, UsesAre
  <2> QED
    BY <1>1, <2>1, SpentNow, UsedIs
<1>4. Promise!Says(Says(c), mandate)
  BY CredentialSays
<1>5. Promise!Grantable(mandate)
  BY SignedRightly
<1> HIDE DEF c
<1>6. Given' = Append(Given, Says(c)) /\ Says(c) \in Promise!Range(Given')
  <2>1. issued \in Seq(Range(issued)) /\ issued' \in Seq(Range(issued) \cup {c})
    <3>1. issued \in Seq(Range(issued))
      BY <1>2 DEF TypeOK, Range
    <3>2. issued \in Seq(Range(issued) \cup {c})
      BY <3>1, SeqMonotonic
    <3> QED
      BY <1>1, <3>1, <3>2
  <2>2. /\ Len(issued) \in Nat /\ Len(issued') = Len(issued) + 1
        /\ DOMAIN issued = 1..Len(issued) /\ DOMAIN issued' = 1..(Len(issued) + 1)
        /\ \A n \in DOMAIN issued' : issued'[n] = IF n = Len(issued) + 1 THEN c ELSE issued[n]
    <3>1. issued \in Seq(Range(issued) \cup {c})
      BY <2>1, SeqMonotonic
    <3> QED
      BY <1>1, <3>1
  <2>3. /\ DOMAIN Given = 1..Len(issued) /\ Len(Given) = Len(issued)
        /\ Given \in Seq(Range(Given))
    BY <2>2 DEF Given, Range
  <2>4. Given' = [n \in 1..(Len(issued) + 1) |-> Says(issued'[n])]
    BY <2>2 DEF Given, Says, OpenTerms, OpenTerm
  <2>5. Append(Given, Says(c)) = [n \in 1..(Len(issued) + 1) |-> IF n = Len(issued) + 1 THEN Says(c) ELSE Given[n]]
    <3> DEFINE said == Says(c)
               S == Range(Given) \cup {said}
    <3>1. Given \in Seq(S) /\ said \in S
      <4> HIDE DEF said
      <4>1. Range(Given) \subseteq S
        OBVIOUS
      <4> HIDE DEF S
      <4>2. Given \in Seq(S)
        BY <2>3, <4>1, SeqMonotonic
      <4> QED
        BY <4>2 DEF S
    <3> HIDE DEF said, S
    <3>2. Append(Given, said) = [n \in 1..(Len(issued) + 1) |-> IF n = Len(issued) + 1 THEN said ELSE Given[n]]
      <4> DEFINE longer == Append(Given, said)
      <4>1. longer \in Seq(S) /\ Len(longer) = Len(issued) + 1
        BY <2>2, <2>3, <3>1
      <4>2. \A n \in 1..(Len(issued) + 1) : longer[n] = IF n = Len(issued) + 1 THEN said ELSE Given[n]
        BY <2>2, <2>3, <3>1
      <4> HIDE DEF longer
      <4>3. longer = [n \in 1..(Len(issued) + 1) |-> IF n = Len(issued) + 1 THEN said ELSE Given[n]]
        BY <2>2, <4>1, <4>2
      <4> QED
        BY <4>3 DEF longer
    <3> QED
      BY <3>2 DEF said
  <2>6. \A n \in 1..(Len(issued) + 1) :
           Says(issued'[n]) = IF n = Len(issued) + 1 THEN Says(c) ELSE Given[n]
    BY <2>2 DEF Given
  <2>7. Given' = Append(Given, Says(c))
    BY <2>4, <2>5, <2>6
  <2>8. Len(issued) + 1 \in DOMAIN Given' /\ Given'[Len(issued) + 1] = Says(c)
    BY <2>2, <2>4
  <2> QED
    BY <2>7, <2>8, InRange
<1> QED
  BY <1>1, <1>3, <1>4, <1>5, <1>6 DEF Promise!Grant, Verdict, InMandate

\* Inside the loops nothing is decided yet.
LEMMA PromiseWaits ==
    ASSUME RefineInv, CopyTerm \/ MatchMerchants \/ MatchEntry \/ EndEntries \/ SealCheckout
    PROVE  UNCHANGED Promise!vars
<1>1. InMandate /\ InMandate' /\ UNCHANGED <<wrote, calls, mandate, held, issued>>
  BY DEF CopyTerm, MatchMerchants, MatchEntry, EndEntries, SealCheckout, At, InMandate
<1>2. UNCHANGED Spent
  BY <1>1 DEF Spent
<1>3. UNCHANGED Verdict
  BY <1>1 DEF Verdict, InMandate
<1> QED
  BY <1>1, <1>2, <1>3, SameGiven DEF Promise!vars

LEMMA PromiseStep ==
    RefineInv /\ RefineInv' /\ [Next]_vars => [Promise!Next]_(Promise!vars)
<1> SUFFICES ASSUME RefineInv, RefineInv', [Next]_vars
             PROVE  Promise!Next \/ UNCHANGED Promise!vars
  OBVIOUS
<1>1. CASE Rewrite BY <1>1, PromiseRewrite DEF Promise!Next
<1>2. CASE Begin BY <1>2, PromiseBegin DEF Promise!Next
<1>3. CASE Return BY <1>3, PromiseReturn DEF Promise!Next
<1>4. CASE FailMatch BY <1>4, PromiseFail DEF Promise!Next
<1>5. CASE Sign BY <1>5, PromiseSign DEF Promise!Next
<1>6. CASE CopyTerm \/ MatchMerchants \/ MatchEntry \/ EndEntries \/ SealCheckout
  BY <1>6, PromiseWaits
<1>7. CASE UNCHANGED vars
  <2>1. UNCHANGED <<Spent, Verdict>>
    BY <1>7 DEF vars, Spent, Verdict, InMandate
  <2> QED
    BY <1>7, <2>1, SameGiven DEF vars, Promise!vars
<1> QED
  BY <1>1, <1>2, <1>3, <1>4, <1>5, <1>6, <1>7 DEF Next, Working

\* For every set of mandates, entries and lists and any number of calls,
\* create_layer2_autonomous implements IssuanceSpec: opened against its own
\* disclosures a credential says what the user last wrote, item by item and in
\* order, an empty list stays empty, and a call fails exactly when a listed
\* object is not disclosed or an entry was used up.
THEOREM IssuesAsPromised == Spec => Promise!Safety
<1>1. Spec => Promise!Init
  BY PromiseInit, PTL DEF Spec
<1>2. Spec => [][Promise!Next]_(Promise!vars)
  BY RefineInvariance, PromiseStep, PTL DEF Spec
<1> QED
  BY <1>1, <1>2 DEF Promise!Safety
==============================================================================
