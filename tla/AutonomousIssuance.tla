------------------------- MODULE AutonomousIssuance -------------------------
(***************************************************************************)
(* create_layer2_autonomous, called again and again on mandates the user   *)
(* keeps and edits.  The function replaces the objects of an allowlist by  *)
(* references to its own fresh disclosures.  For the lists of merchants it *)
(* does so in a copy; for those of items it writes into the line-item      *)
(* entries of the caller's own mandate, which outlive the call, may be     *)
(* shared by several mandates, and keep what an aborted call left there.   *)
(* A hash is the disclosure it names: a fresh one per call and position.   *)
(***************************************************************************)
EXTENDS Integers, Sequences, Functions

CONSTANTS
    Ids, Names, Websites,  \* what objects are identified by
    Entries,               \* line-item entries (dicts), shared by reference
    Mandates,              \* the UserMandate objects the user keeps
    Lists,                 \* acceptable_items lists the user may write
    MaxCalls,              \* bound on the number of calls
    Absent

OrAbsent(S) == S \cup {Absent}

Kinds == {"merchants", "items", "checkout"}

\* The hash of the disclosure a call made at this place of its lists.
Hash == [by: Nat, kind: Kinds, at: Nat]

Merchant == [id: OrAbsent(Ids), name: OrAbsent(Names), website: OrAbsent(Websites)]

\* An element of acceptable_items: an item, or {"...": hash}, which has neither
\* id nor sku.
Item == [id: OrAbsent(Ids), sku: OrAbsent(Ids), ref: OrAbsent(Hash)]

\* A constraint: the merchant allowlist of its mandate (allowed_merchants or
\* allowed_payees), the line_items of a checkout, or one signed as it is.
Term == [type: {"allowed", "line_items", "other"}, allowed: Seq(Merchant), entries: Seq(Entries)]

Mandate ==
    [mode: {"AUTONOMOUS", "IMMEDIATE"}, merchants: Seq(Merchant), items: Seq(Item),
     checkout: OrAbsent(Seq(Term)),
     payment: OrAbsent(Seq({t \in Term : t.type # "line_items"}))]

\* A signed constraint: references only; "names" is conditional_transaction_id.
Signed == [type: {"allowed", "line_items", "other", "reference"},
           refs: Seq(Hash), items: Seq(Seq(Item)), names: OrAbsent(Hash)]

ASSUME MandatesAreMandates == Mandates \subseteq Mandate

\* The user writes items, never references, or leaves the field out.
ASSUME UsersListItems ==
    /\ Lists \subseteq OrAbsent(Seq([id: OrAbsent(Ids), sku: OrAbsent(Ids), ref: {Absent}]))
    /\ Absent \notin Hash \cup Ids \cup Names \cup Seq(Item) \cup Seq(Signed) \cup Mandate
    /\ MaxCalls \in Nat

VARIABLES
    acceptable,  \* acceptable_items of every entry, as the objects now hold it
    wrote,       \* history: the list the user last wrote into the entry
    pc, mandate, \* where the call is, and its argument
    calls,       \* calls made so far: names the fresh disclosures of a call
    k, e,        \* loop positions: the constraint, and the entry inside it
    draft,       \* the constraints copied into the disclosure so far
    sealed,      \* checkout_disc: the content of the open checkout disclosure
    held,        \* history: acceptable as the call found it
    issued       \* the credentials signed, oldest first

vars == <<acceptable, wrote, pc, mandate, calls, k, e, draft, sealed, held, issued>>

------------------------------------------------------------------------------
(* Matching what a constraint lists with what the mandate discloses. *)

\* Mutant: the id decides as soon as the listed merchant has one.
SameMerchantMutant(listed, m) ==
    IF listed.id # Absent THEN m.id = listed.id
    ELSE listed.name # Absent /\ m.name = listed.name

\* _match_merchant_refs: by id when both have one, by name otherwise.
SameMerchant(listed, m) ==
    IF listed.id # Absent /\ m.id # Absent THEN m.id = listed.id
    ELSE listed.name # Absent /\ m.name = listed.name

ProductKeys(item) == {item.id, item.sku} \ {Absent}

\* _match_item_refs: any product identifier in common.
SameItem(listed, item) == ProductKeys(listed) \cap ProductKeys(item) # {}

MerchantAt(listed) == {n \in DOMAIN mandate.merchants : SameMerchant(listed, mandate.merchants[n])}

ItemAt(listed) == {n \in DOMAIN mandate.items : SameItem(listed, mandate.items[n])}

First(S) == CHOOSE n \in S : \A m \in S : n <= m

Fresh(kind, n) == [by |-> calls, kind |-> kind, at |-> n]

\* A listed merchant without id and name has no match either: it is refused.
MerchantsKnown(list) == \A n \in DOMAIN list : MerchantAt(list[n]) # {}

ItemsKnown(list) == \A n \in DOMAIN list : ItemAt(list[n]) # {}

MerchantRefs(list) == [n \in DOMAIN list |-> Fresh("merchants", First(MerchantAt(list[n])))]

ItemRefs(list) ==
    [n \in DOMAIN list |->
        [id |-> Absent, sku |-> Absent, ref |-> Fresh("items", First(ItemAt(list[n])))]]

------------------------------------------------------------------------------
Init ==
    /\ wrote \in [Entries -> Lists] /\ acceptable = wrote /\ held = wrote
    /\ pc = "idle" /\ mandate = Absent /\ calls = 0
    /\ k = 1 /\ e = 1 /\ draft = <<>> /\ sealed = Absent
    /\ issued = <<>>

\* Between calls the user may put another list into an entry.
Rewrite ==
    /\ pc = "idle"
    /\ \E entry \in Entries, list \in Lists :
         /\ wrote' = [wrote EXCEPT ![entry] = list]
         /\ acceptable' = [acceptable EXCEPT ![entry] = list]
    /\ UNCHANGED <<pc, mandate, calls, k, e, draft, sealed, held, issued>>

\* Entry: the mode must be autonomous.
Begin ==
    /\ pc = "idle"
    /\ calls < MaxCalls
    /\ mandate' \in Mandates
    /\ calls' = calls + 1
    /\ pc' = IF mandate'.mode = "AUTONOMOUS" THEN "checkout" ELSE "failed"
    /\ held' = acceptable
    /\ UNCHANGED <<acceptable, wrote, k, e, draft, sealed, issued>>

\* The caller takes the credential or the exception.
Return ==
    /\ pc \in {"done", "failed"}
    /\ pc' = "idle" /\ mandate' = Absent
    /\ k' = 1 /\ e' = 1 /\ draft' = <<>> /\ sealed' = Absent
    /\ UNCHANGED <<acceptable, wrote, calls, held, issued>>

------------------------------------------------------------------------------
(* The loop over the constraints of the open checkout, then of the payment. *)

InMandate == pc \in {"checkout", "payment"}

Source == IF pc = "checkout" THEN mandate.checkout ELSE mandate.payment

Terms == IF Source = Absent THEN <<>> ELSE Source

At(type) == InMandate /\ k \in DOMAIN Terms /\ Terms[k].type = type

\* The list of the entry whose turn it is; a missing field counts as empty.
EntryList ==
    LET list == acceptable[Terms[k].entries[e]]
    IN  IF list = Absent THEN <<>> ELSE list

CopyTerm ==
    /\ At("other")
    /\ draft' = Append(draft, [type |-> "other", refs |-> <<>>, entries |-> <<>>])
    /\ k' = k + 1
    /\ UNCHANGED <<acceptable, wrote, pc, mandate, calls, e, sealed, held, issued>>

MatchMerchants ==
    /\ At("allowed")
    /\ MerchantsKnown(Terms[k].allowed)
    /\ draft' = Append(draft, [type |-> "allowed", refs |-> MerchantRefs(Terms[k].allowed),
                               entries |-> <<>>])
    /\ k' = k + 1
    /\ UNCHANGED <<acceptable, wrote, pc, mandate, calls, e, sealed, held, issued>>

\* Mutant: a list that holds references already is taken as done.
MatchEntryMutant ==
    /\ At("line_items")
    /\ e \in DOMAIN Terms[k].entries
    /\ \/ /\ ItemsKnown(EntryList)
          /\ acceptable' = [acceptable EXCEPT ![Terms[k].entries[e]] = ItemRefs(EntryList)]
       \/ /\ EntryList # <<>> /\ \A n \in DOMAIN EntryList : EntryList[n].ref # Absent
          /\ UNCHANGED acceptable
    /\ e' = e + 1
    /\ UNCHANGED <<wrote, pc, mandate, calls, k, draft, sealed, held, issued>>

\* item_entry is the caller's own dict: the references replace its list for good.
MatchEntry ==
    /\ At("line_items")
    /\ e \in DOMAIN Terms[k].entries
    /\ ItemsKnown(EntryList)
    /\ acceptable' = [acceptable EXCEPT ![Terms[k].entries[e]] = ItemRefs(EntryList)]
    /\ e' = e + 1
    /\ UNCHANGED <<wrote, pc, mandate, calls, k, draft, sealed, held, issued>>

\* Mutant: the next line_items constraint starts where this one ended.
EndEntriesMutant ==
    /\ At("line_items")
    /\ e \notin DOMAIN Terms[k].entries
    /\ draft' = Append(draft, [type |-> "line_items", refs |-> <<>>, entries |-> Terms[k].entries])
    /\ k' = k + 1
    /\ UNCHANGED <<acceptable, wrote, pc, mandate, calls, e, sealed, held, issued>>

EndEntries ==
    /\ At("line_items")
    /\ e \notin DOMAIN Terms[k].entries
    /\ draft' = Append(draft, [type |-> "line_items", refs |-> <<>>, entries |-> Terms[k].entries])
    /\ k' = k + 1 /\ e' = 1
    /\ UNCHANGED <<acceptable, wrote, pc, mandate, calls, sealed, held, issued>>

\* ValueError; what was replaced in the entries so far stays replaced.
FailMatch ==
    /\ \/ At("allowed") /\ ~MerchantsKnown(Terms[k].allowed)
       \/ At("line_items") /\ e \in DOMAIN Terms[k].entries /\ ~ItemsKnown(EntryList)
    /\ pc' = "failed"
    /\ UNCHANGED <<acceptable, wrote, mandate, calls, k, e, draft, sealed, held, issued>>

\* What is serialised: the copies, and the entries as they are by then.
Contents ==
    [n \in DOMAIN draft |->
        [type |-> draft[n].type, refs |-> draft[n].refs, names |-> Absent,
         items |-> [j \in DOMAIN draft[n].entries |-> acceptable[draft[n].entries[j]]]]]

SealCheckout ==
    /\ pc = "checkout"
    /\ k \notin DOMAIN Terms
    /\ sealed' = IF mandate.checkout = Absent THEN Absent ELSE Contents
    /\ pc' = "payment" /\ k' = 1 /\ draft' = <<>>
    /\ UNCHANGED <<acceptable, wrote, mandate, calls, e, held, issued>>

\* The constraint that binds the payment to the checkout disclosed with it.
References ==
    IF sealed = Absent THEN <<>>
    ELSE <<[type |-> "reference", refs |-> <<>>, items |-> <<>>, names |-> Fresh("checkout", 1)]>>

\* The open payment is sealed with its reference, and Layer 2 is signed over
\* the disclosures of this call.  "for" is history.
Sign ==
    /\ pc = "payment"
    /\ k \notin DOMAIN Terms
    /\ issued' = Append(issued,
            [by |-> calls, for |-> mandate, checkout |-> sealed,
             payment |-> IF mandate.payment = Absent THEN Absent ELSE Contents \o References])
    /\ pc' = "done"
    /\ UNCHANGED <<acceptable, wrote, mandate, calls, k, e, draft, sealed, held>>

Working == CopyTerm \/ MatchMerchants \/ MatchEntry \/ EndEntries \/ FailMatch
           \/ SealCheckout \/ Sign

Next == Rewrite \/ Begin \/ Working \/ Return

\* The function runs to its end once called; nobody is bound to call it.
Spec == Init /\ [][Next]_vars /\ WF_vars(Working)

------------------------------------------------------------------------------
(* Properties. *)

\* Every variable has its type, and the loop positions never run past the
\* constraint list and the entries of the constraint they are in.
TypeOK ==
    /\ wrote \in [Entries -> Lists] /\ held \in [Entries -> OrAbsent(Seq(Item))]
    /\ acceptable \in [Entries -> OrAbsent(Seq(Item))]
    /\ pc \in {"idle", "checkout", "payment", "done", "failed"}
    /\ IF pc = "idle" THEN mandate = Absent ELSE mandate \in Mandates
    /\ calls \in Nat /\ k \in Nat \ {0} /\ e \in Nat \ {0}
    /\ At("line_items") => e <= Len(Terms[k].entries) + 1
    /\ draft \in Seq([type: {"allowed", "line_items", "other"},
                      refs: Seq(Hash), entries: Seq(Entries)])
    /\ sealed \in OrAbsent(Seq(Signed))
    /\ issued \in Seq([by: Nat, for: Mandates, checkout: OrAbsent(Seq(Signed)),
                       payment: OrAbsent(Seq(Signed))])

\* The disclosures a call for this mandate makes, by their hashes.
Disclosed(m, n) ==
    {[by |-> n, kind |-> "merchants", at |-> j] : j \in DOMAIN m.merchants}
        \cup {[by |-> n, kind |-> "items", at |-> j] : j \in DOMAIN m.items}

\* Every element of this signed constraint is a reference to a disclosure made
\* by this call, of the right kind.
Resolvable(term, m, n) ==
    /\ \A p \in DOMAIN term.refs :
          term.refs[p] \in Disclosed(m, n) /\ term.refs[p].kind = "merchants"
    /\ \A j \in DOMAIN term.items : \A p \in DOMAIN term.items[j] :
          term.items[j][p].ref \in Disclosed(m, n) /\ term.items[j][p].ref.kind = "items"

\* A signed Layer 2 never refers to what it does not disclose: each element of
\* its allowlists is a reference to one of its own disclosures, though the
\* entries it was made from still hold the references of earlier calls, of other
\* mandates and of calls that failed half way.
NoDanglingRefs ==
    \A n \in DOMAIN issued :
        \A terms \in {issued[n].checkout, issued[n].payment} \ {Absent} :
            \A j \in DOMAIN terms : Resolvable(terms[j], issued[n].for, issued[n].by)

\* What the format says identifies a merchant: its id where both have one, and
\* its name together with its website otherwise.
Identified(listed, m) ==
    IF listed.id # Absent /\ m.id # Absent THEN m.id = listed.id
    ELSE m.name = listed.name /\ m.website = listed.website

\* The merchants signed into an allowlist are those the user listed in it.
ListedMerchantsSigned ==
    \A n \in DOMAIN issued : LET m == issued[n].for IN
        m.payment # Absent =>
            \A j \in DOMAIN m.payment : \A p \in DOMAIN m.payment[j].allowed :
                m.payment[j].type = "allowed" =>
                    Identified(m.payment[j].allowed[p],
                               m.merchants[issued[n].payment[j].refs[p].at])
==============================================================================
