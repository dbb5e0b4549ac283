---------------------------- MODULE ChainVerifier ----------------------------
(***************************************************************************)
(* verify_chain as a state machine.  One action stands for one stage of    *)
(* the function, in the order of the source; a stage whose checks fail     *)
(* returns at once with result.valid still False.  The loops that build    *)
(* the mandate pairs and that walk the Layer 3 credentials are actions     *)
(* taken once per iteration.  Time passes between any two stages, while    *)
(* the function reads the clock once, on entry.                            *)
(***************************************************************************)
EXTENDS Credentials

CONSTANTS Calls,     \* the argument lists callers may pass
          MaxClock   \* bound on the clock, for model checking

ASSUME CallsAreArguments == Calls \subseteq Arguments

ASSUME MaxClockIsNat == MaxClock \in Nat

VARIABLES
    clock,       \* time.time()
    call,        \* arguments of the call, Absent between calls
    now,         \* the clock as read on entry
    pc,          \* stage about to run, or how the call returned
    autonomous,  \* is_autonomous, inferred from L2
    pos,         \* next entry of delegate_payload to collect
    found,       \* positions collected so far, per kind: checkouts, payments
    pairs,       \* mandate_pairs; 0 marks the missing side of a pair
    agent,       \* agent_pub_key and agent_kid
    i,           \* pair_idx of the Layer 3 loop
    checked      \* checks_performed, for the Layer 3 and cross-reference checks

vars == <<clock, call, now, pc, autonomous, pos, found, pairs, agent, i, checked>>

Returned == {"accepted", "rejected"}

Stages == {"L1", "L2", "mode", "collect", "match", "mandates", "card",
           "agent", "payment", "checkout", "cross"}

Running == pc \in Stages

l2 == call.l2
l3s == call.l3s

\* Go to a stage, or return with an error, depending on a check.
Continue(ok, stage) == pc' = IF ok THEN stage ELSE "rejected"

NoPair == [kind \in Kinds |-> 0]
NoAgent == [key |-> Absent, kid |-> Absent]

------------------------------------------------------------------------------
\* The locals of verify_chain as a call finds them.
FreshLocals ==
    /\ autonomous = FALSE
    /\ pos = 1 /\ i = 1
    /\ found = [kind \in Kinds |-> <<>>] /\ pairs = <<>>
    /\ agent = NoAgent
    /\ checked = {}

Init ==
    /\ clock = 0 /\ now = 0
    /\ pc = "idle" /\ call = Absent
    /\ FreshLocals

Tick ==
    /\ clock < MaxClock
    /\ clock' = clock + 1
    /\ UNCHANGED <<call, now, pc, autonomous, pos, found, pairs, agent, i, checked>>

\* Entry: the clock is read, and both forms of Layer 3 argument at once is an error.
Call ==
    /\ pc = "idle"
    /\ call' \in Calls
    /\ now' = clock
    /\ Continue(call'.form # "both", "L1")
    /\ UNCHANGED <<clock, autonomous, pos, found, pairs, agent, i, checked>>

\* The caller takes the result; nothing of the call is kept.
Return ==
    /\ pc \in Returned
    /\ pc' = "idle" /\ call' = Absent /\ now' = 0
    /\ autonomous' = FALSE
    /\ pos' = 1 /\ i' = 1
    /\ found' = [kind \in Kinds |-> <<>>] /\ pairs' = <<>>
    /\ agent' = NoAgent
    /\ checked' = {}
    /\ UNCHANGED clock

------------------------------------------------------------------------------
(* Layers 1 and 2. *)

L1OK(c, t) ==
    /\ IF c.issuer_key # Absent THEN c.l1.jwt.signer = c.issuer_key ELSE c.skip_issuer
    /\ c.l1.jwt.formed
    /\ Live(c.l1.jwt, t)
    /\ c.l1.jwt.key # Absent

CheckL1 ==
    /\ pc = "L1"
    /\ Continue(L1OK(call, now), "L2")
    /\ UNCHANGED <<clock, call, now, autonomous, pos, found, pairs, agent, i, checked>>

AsExpected(expected, jwt) ==
    \A claim \in {"aud", "nonce"} :
        expected[claim] # Absent => jwt[claim] = expected[claim]

L2OK(c, t) ==
    /\ c.l2.jwt.signer = c.l1.jwt.key
    /\ c.l2.jwt.sd_hash = FirstOf(<<c.l1_serialized, c.l1>>)
    /\ c.l2.jwt.formed
    /\ Live(c.l2.jwt, t)
    /\ AsExpected(c.expected_l2, c.l2.jwt)

CheckL2 ==
    /\ pc = "L2"
    /\ Continue(L2OK(call, now), "mode")
    /\ UNCHANGED <<clock, call, now, autonomous, pos, found, pairs, agent, i, checked>>

\* Whether some resolved mandate has an open VCT (open = TRUE) or a final one.
Has(open) ==
    \E kind \in Kinds : \E k \in Disclosed(l2, kind) : MandateAt(l2, k).open = open

L3Given == \E n \in DOMAIN l3s : \E kind \in Kinds : l3s[n].l3[kind] # Absent

\* Mutant: Layer 3 arguments passed along with an immediate L2 are overlooked.
InferModeMutant ==
    /\ pc = "mode"
    /\ autonomous' = Has(TRUE)
    /\ Continue(/\ ~(Has(TRUE) /\ Has(FALSE))
                /\ l2.jwt.typ = (IF Has(TRUE) THEN "kb-sd-jwt+kb" ELSE "kb-sd-jwt"),
                "collect")
    /\ UNCHANGED <<clock, call, now, pos, found, pairs, agent, i, checked>>

\* The mode is inferred from what L2 shows, never from the Layer 3 arguments.
InferMode ==
    /\ pc = "mode"
    /\ autonomous' = Has(TRUE)
    /\ Continue(/\ ~(Has(TRUE) /\ Has(FALSE))
                /\ l2.jwt.typ = (IF Has(TRUE) THEN "kb-sd-jwt+kb" ELSE "kb-sd-jwt")
                /\ Has(TRUE) \/ ~L3Given,
                "collect")
    /\ UNCHANGED <<clock, call, now, pos, found, pairs, agent, i, checked>>

------------------------------------------------------------------------------
(* Mandate pairs: _extract_mandate_pairs, _pair_immediate, _pair_autonomous. *)

\* What a mandate is matched by: a payment by its link; a checkout by its
\* checkout_hash in immediate mode, by its disclosure reference otherwise.
PairingKey(kind, k) ==
    IF kind = "checkout" /\ autonomous THEN Ref(l2, k) ELSE MandateAt(l2, k).link

\* The side whose order the pairs follow, and the side looked up by key.
Driver == IF autonomous THEN "payment" ELSE "checkout"
Other == IF autonomous THEN "checkout" ELSE "payment"

\* Mutant: repeated disclosure references are not looked for.
SeenBeforeMutant(k) == FALSE

SeenBefore(k) ==
    /\ Ref(l2, k) # Absent
    /\ \E m \in 1..(k - 1) : Ref(l2, m) = Ref(l2, k)

CollectMandate ==
    /\ pc = "collect"
    /\ pos \in DOMAIN l2.jwt.delegates
    /\ ~SeenBefore(pos)
    /\ pos' = pos + 1
    /\ found' = [kind \in Kinds |-> IF pos \in Disclosed(l2, kind)
                                    THEN Append(found[kind], pos) ELSE found[kind]]
    /\ UNCHANGED <<clock, call, now, pc, autonomous, pairs, agent, i, checked>>

RejectDuplicate ==
    /\ pc = "collect"
    /\ pos \in DOMAIN l2.jwt.delegates
    /\ SeenBefore(pos)
    /\ pc' = "rejected"
    /\ UNCHANGED <<clock, call, now, autonomous, pos, found, pairs, agent, i, checked>>

\* A checkout needs a key of its own before payments are looked up against it;
\* in immediate mode the payments are indexed the same way.
KeysDistinct(kind) ==
    \A m, n \in DOMAIN found[kind] :
        /\ PairingKey(kind, found[kind][m]) # Absent
        /\ PairingKey(kind, found[kind][m]) = PairingKey(kind, found[kind][n]) => m = n

Indexed == KeysDistinct("checkout") /\ (autonomous \/ KeysDistinct("payment"))

IndexMandates ==
    /\ pc = "collect"
    /\ pos \notin DOMAIN l2.jwt.delegates
    /\ \A kind \in Kinds : found[kind] # <<>>
    /\ Continue(Indexed, "match")
    /\ UNCHANGED <<clock, call, now, autonomous, pos, found, pairs, agent, i, checked>>

\* Partial disclosure: with one kind of mandate shown, and only in autonomous
\* mode, every mandate makes a one-sided pair.
OneSidedPairs ==
    /\ pc = "collect"
    /\ pos \notin DOMAIN l2.jwt.delegates
    /\ \E kind \in Kinds : found[kind] = <<>>
    /\ \E kind \in Kinds :
         /\ \A other \in Kinds \ {kind} : found[other] = <<>>
         /\ pairs' = [n \in DOMAIN found[kind] |-> [NoPair EXCEPT ![kind] = found[kind][n]]]
    /\ Continue(autonomous /\ pairs' # <<>>, "mandates")
    /\ UNCHANGED <<clock, call, now, autonomous, pos, found, agent, i, checked>>

Matched(kind) == {pairs[n][kind] : n \in DOMAIN pairs}

\* Mutant: the n-th checkout is paired with the n-th payment.
PartnersMutant(k) ==
    {found[Other][n] : n \in DOMAIN found[Other] \cap {Len(pairs) + 1}}

\* The mandates of the other side that mandate k can still be paired with.
Partners(k) ==
    {m \in Range(found[Other]) \ Matched(Other) :
        PairingKey(Other, m) = PairingKey(Driver, k)}

\* The mandate of the driving side whose turn it is.
Current == found[Driver][Len(pairs) + 1]

MatchMandate ==
    /\ pc = "match"
    /\ Len(pairs) < Len(found[Driver])
    /\ \E m \in Partners(Current) :
         pairs' = Append(pairs, [kind \in Kinds |-> IF kind = Driver THEN Current ELSE m])
    /\ UNCHANGED <<clock, call, now, pc, autonomous, pos, found, agent, i, checked>>

RejectUnmatched ==
    /\ pc = "match"
    /\ Len(pairs) < Len(found[Driver])
    /\ Partners(Current) = {}
    /\ pc' = "rejected"
    /\ UNCHANGED <<clock, call, now, autonomous, pos, found, pairs, agent, i, checked>>

\* Mutant: what is left unmatched on the other side is dropped.
RejectOrphansMutant ==
    /\ pc = "match"
    /\ Len(pairs) = Len(found[Driver])
    /\ pc' = "mandates"
    /\ UNCHANGED <<clock, call, now, autonomous, pos, found, pairs, agent, i, checked>>

\* Every driver has its partner: what is left on the other side is an orphan.
RejectOrphans ==
    /\ pc = "match"
    /\ Len(pairs) = Len(found[Driver])
    /\ Continue(Range(found[Other]) \subseteq Matched(Other), "mandates")
    /\ UNCHANGED <<clock, call, now, autonomous, pos, found, pairs, agent, i, checked>>

------------------------------------------------------------------------------
(* Mandates: _verify_mandate_pair, the card_id check, the agent key. *)

\* A final checkout is bound to its contents, and the payment to the checkout.
HashBound(c, p) ==
    /\ MandateAt(l2, c).content = MandateAt(l2, c).link
    /\ MandateAt(l2, p).link = MandateAt(l2, c).link

\* An open payment is bound to the disclosure of its checkout.
ReferenceBound(c, p) == MandateAt(l2, p).link = Ref(l2, c)

\* The claims required of each mandate are there, whatever the mode.
Complete(c, p) ==
    /\ c # 0 => MandateAt(l2, c).complete
    /\ p # 0 => MandateAt(l2, p).complete /\ MandateAt(l2, p).instrument # Absent

\* Mutant: an immediate mandate may carry cnf.
FinalPairOKMutant(c, p) ==
    /\ c # 0 /\ p # 0
    /\ MandateAt(l2, c).content # Absent
    /\ HashBound(c, p)

\* Immediate mode: both mandates, no cnf in either, all of it hash-bound.
FinalPairOK(c, p) ==
    /\ c # 0 /\ p # 0
    /\ MandateAt(l2, c).key = Absent /\ MandateAt(l2, p).key = Absent
    /\ MandateAt(l2, c).content # Absent
    /\ HashBound(c, p)

PairOK(pair) ==
    LET c == pair["checkout"]
        p == pair["payment"]
    IN  /\ Complete(c, p)
        /\ IF autonomous THEN c # 0 /\ p # 0 => ReferenceBound(c, p) ELSE FinalPairOK(c, p)

CheckMandates ==
    /\ pc = "mandates"
    /\ Continue(\A n \in DOMAIN pairs : PairOK(pairs[n]), "card")
    /\ UNCHANGED <<clock, call, now, autonomous, pos, found, pairs, agent, i, checked>>

\* Mutant: a pair whose payment mandate is not shown is passed over.
CardOKMutant ==
    call.l1.jwt.card # Absent =>
        \A n \in DOMAIN pairs :
            pairs[n]["payment"] # 0 =>
                MandateAt(l2, pairs[n]["payment"]).instrument = call.l1.jwt.card

\* When L1 names a card, every pair must show a payment mandate with that card.
CardOK ==
    call.l1.jwt.card # Absent =>
        \A n \in DOMAIN pairs :
            /\ pairs[n]["payment"] # 0
            /\ MandateAt(l2, pairs[n]["payment"]).instrument = call.l1.jwt.card

CheckCard ==
    /\ pc = "card"
    /\ Continue(CardOK, IF autonomous THEN "agent" ELSE "accepted")
    /\ UNCHANGED <<clock, call, now, autonomous, pos, found, pairs, agent, i, checked>>

Paired == (UNION {Matched(kind) : kind \in Kinds}) \ {0}

\* Mutant: the agent key is taken from one mandate, the others are not compared.
DelegatesMutant(a) ==
    \E k \in Paired : MandateAt(l2, k).key = a.key /\ MandateAt(l2, k).kid = a.kid

\* Every open mandate names the same key, and the same kid where it names one.
Delegates(a) ==
    /\ \A k \in Paired : /\ MandateAt(l2, k).key = a.key
                          /\ MandateAt(l2, k).kid \in {Absent, a.kid}
    /\ a.kid # Absent => \E k \in Paired : MandateAt(l2, k).kid = a.kid

Agents == [key: Keys, kid: OrAbsent(Kids)]

ExtractAgentKey ==
    /\ pc = "agent"
    /\ \E a \in Agents : Delegates(a)
    /\ agent' \in {a \in Agents : Delegates(a)}
    /\ Continue(l3s = <<>> \/ Len(l3s) = Len(pairs),
                IF l3s = <<>> THEN "accepted" ELSE "payment")
    /\ UNCHANGED <<clock, call, now, autonomous, pos, found, pairs, i, checked>>

RejectAgentKey ==
    /\ pc = "agent"
    /\ ~\E a \in Agents : Delegates(a)
    /\ pc' = "rejected"
    /\ UNCHANGED <<clock, call, now, autonomous, pos, found, pairs, agent, i, checked>>
------------------------------------------------------------------------------
(* Layer 3: the nested loop over the pairs and the two credentials of each. *)

\* The L2 presentation this Layer 3 credential must be bound to.
Bound(c, n, kind) ==
    FirstOf(<<c.l3s[n].serialized[kind], c.serialized[kind], c.l2_serialized, c.l2>>)

\* Mutant: only presence of the credential in the list decides its pair.
IdentityBoundMutant(n, kind) == TRUE

\* The disclosure of the pair's own mandate, when the pair shows one, is part of
\* that presentation; otherwise there is nothing to compare.
IdentityBound(n, kind) ==
    LET k == pairs[n][kind]
    IN  (k # 0 /\ Ref(l2, k) # Absent) => Ref(l2, k) \in Range(Bound(call, n, kind).discs)

\* Mutant: the instrument of Layer 3 is not compared with that of Layer 2.
MandatesOKMutant(n, kind, l3) ==
    /\ \E m \in Range(l3.mandates) : m.kind = kind
    /\ \A m \in Range(l3.mandates) : m.kind \in Kinds => m.complete

\* _validate_l3_mandate_fields: every payment or checkout mandate inside is
\* complete, and every payment mandate uses the instrument the user chose.
MandatesOK(n, kind, l3) ==
    /\ \E m \in Range(l3.mandates) : m.kind = kind
    /\ \A m \in Range(l3.mandates) :
         /\ m.kind \in Kinds => m.complete
         /\ (m.kind = "payment" /\ pairs[n]["payment"] # 0) =>
               m.instrument = MandateAt(l2, pairs[n]["payment"]).instrument

\* Mutant: the clock is read again for Layer 3.
L3OKMutant(n, kind, l3) ==
    /\ ~l3.cnf
    /\ l3.signer = agent.key
    /\ l3.formed
    /\ l3.sd_hash = Bound(call, n, kind)
    /\ IdentityBound(n, kind)
    /\ Live(l3, clock)
    /\ ~LongLived(l3)
    /\ AsExpected(call.expected_l3[kind], l3)
    /\ l3.kid # Absent
    /\ agent.kid # Absent => l3.kid = agent.kid
    /\ MandatesOK(n, kind, l3)

L3OK(n, kind, l3) ==
    /\ ~l3.cnf
    /\ l3.signer = agent.key
    /\ l3.formed
    /\ l3.sd_hash = Bound(call, n, kind)
    /\ IdentityBound(n, kind)
    /\ Live(l3, now)
    /\ ~LongLived(l3)
    /\ AsExpected(call.expected_l3[kind], l3)
    /\ l3.kid # Absent
    /\ agent.kid # Absent => l3.kid = agent.kid
    /\ MandatesOK(n, kind, l3)

After(kind) == IF kind = "payment" THEN "checkout" ELSE "cross"

SkipL3(kind) ==
    /\ pc = kind
    /\ l3s[i].l3[kind] = Absent
    /\ pc' = After(kind)
    /\ UNCHANGED <<clock, call, now, autonomous, pos, found, pairs, agent, i, checked>>

CheckL3(kind) ==
    /\ pc = kind
    /\ l3s[i].l3[kind] # Absent
    /\ L3OK(i, kind, l3s[i].l3[kind])
    /\ pc' = After(kind)
    /\ checked' = checked \cup {<<i, kind>>}
    /\ UNCHANGED <<clock, call, now, autonomous, pos, found, pairs, agent, i>>

RejectL3(kind) ==
    /\ pc = kind
    /\ l3s[i].l3[kind] # Absent
    /\ ~L3OK(i, kind, l3s[i].l3[kind])
    /\ pc' = "rejected"
    /\ UNCHANGED <<clock, call, now, autonomous, pos, found, pairs, agent, i, checked>>

BothGiven(n) == \A kind \in Kinds : l3s[n].l3[kind] # Absent

\* The link claim of the first mandate of its kind inside a Layer 3 credential:
\* transaction_id of L3a, checkout_hash of L3b.
FirstLink(l3, kind) ==
    LET first == CHOOSE n \in DOMAIN l3.mandates :
                    /\ l3.mandates[n].kind = kind
                    /\ \A m \in 1..(n - 1) : l3.mandates[m].kind # kind
    IN  l3.mandates[first].link

CrossOK(n) ==
    FirstLink(l3s[n].l3["payment"], "payment") = FirstLink(l3s[n].l3["checkout"], "checkout")

\* Mutant: the loop over the pairs runs once too often.
CrossReferenceMutant ==
    /\ pc = "cross"
    /\ BothGiven(i) => CrossOK(i)
    /\ checked' = IF BothGiven(i) THEN checked \cup {<<i, "cross">>} ELSE checked
    /\ i' = i + 1
    /\ pc' = IF i <= Len(l3s) THEN "payment" ELSE "accepted"
    /\ UNCHANGED <<clock, call, now, autonomous, pos, found, pairs, agent>>

\* End of one iteration: cross-check the pair when both credentials are here,
\* then go on to the next pair or return with result.valid set.
CrossReference ==
    /\ pc = "cross"
    /\ BothGiven(i) => CrossOK(i)
    /\ checked' = IF BothGiven(i) THEN checked \cup {<<i, "cross">>} ELSE checked
    /\ i' = i + 1
    /\ pc' = IF i < Len(l3s) THEN "payment" ELSE "accepted"
    /\ UNCHANGED <<clock, call, now, autonomous, pos, found, pairs, agent>>

RejectCrossReference ==
    /\ pc = "cross"
    /\ BothGiven(i) /\ ~CrossOK(i)
    /\ pc' = "rejected"
    /\ UNCHANGED <<clock, call, now, autonomous, pos, found, pairs, agent, i, checked>>

------------------------------------------------------------------------------
Verify ==
    \/ CheckL1 \/ CheckL2 \/ InferMode
    \/ CollectMandate \/ RejectDuplicate \/ IndexMandates \/ OneSidedPairs
    \/ MatchMandate \/ RejectUnmatched \/ RejectOrphans
    \/ CheckMandates \/ CheckCard \/ ExtractAgentKey \/ RejectAgentKey
    \/ \E kind \in Kinds : SkipL3(kind) \/ CheckL3(kind) \/ RejectL3(kind)
    \/ CrossReference \/ RejectCrossReference

Next == Call \/ Verify \/ Return \/ Tick

Spec == Init /\ [][Next]_vars

\* The function runs to its end once called; callers and the clock are free.
FairSpec == Spec /\ WF_vars(Verify)
------------------------------------------------------------------------------
(* Properties. *)

LocalsTyped ==
    /\ autonomous \in BOOLEAN
    /\ pos \in Nat \ {0}
    /\ found \in [Kinds -> Seq(Nat \ {0})]
    /\ pairs \in Seq([Kinds -> Nat])
    /\ agent \in [key: OrAbsent(Keys), kid: OrAbsent(Kids)]
    /\ i \in Nat \ {0}
    /\ checked \in SUBSET (Nat \X (Kinds \cup {"cross"}))

\* Inside the Layer 3 loop the index is that of an element, and of its pair.
LoopInBounds ==
    pc \in Kinds \cup {"cross"} => i \in DOMAIN l3s /\ Len(l3s) = Len(pairs)

\* Every variable has its type, arguments and locals exist only while a call
\* runs, and the Layer 3 loop stays inside the lists it walks in step.
TypeOK ==
    /\ clock \in Nat /\ now \in 0..clock
    /\ pc \in Stages \cup Returned \cup {"idle"}
    /\ IF pc = "idle" THEN call = Absent /\ FreshLocals ELSE call \in Arguments
    /\ LocalsTyped
    /\ LoopInBounds

\* The stages that run once the mandate pairs are final, and acceptance.
PairsReady == pc \in {"mandates", "card", "agent", "payment", "checkout", "cross", "accepted"}

Accepted == pc = "accepted"

L3Args == {arg \in (DOMAIN l3s) \X Kinds : l3s[arg[1]].l3[arg[2]] # Absent}

\* Pairing neither drops nor duplicates: once the pairs are built, each mandate
\* L2 discloses is the mandate of exactly one pair, so no mandate rides along
\* unchecked (spec 8.2: no orphans, no duplicates).
EveryMandatePairedOnce ==
    PairsReady =>
        \A kind \in Kinds : \A k \in Disclosed(l2, kind) :
            \E n \in DOMAIN pairs :
                \A m \in DOMAIN pairs : (pairs[m][kind] = k) <=> (m = n)

\* Pairing never crosses: a two-sided pair is made of a disclosed checkout and
\* a disclosed payment that name each other, and one-sided pairs appear only
\* when L2 discloses nothing of the other kind.
PairsAreLinked ==
    PairsReady =>
        \A n \in DOMAIN pairs : \A kind \in Kinds :
            IF pairs[n][kind] = 0 THEN Disclosed(l2, kind) = {} /\ autonomous
            ELSE /\ pairs[n][kind] \in Disclosed(l2, kind)
                 /\ \A other \in Kinds :
                      pairs[n][other] # 0 =>
                        PairingKey(kind, pairs[n][kind]) = PairingKey(other, pairs[n][other])

\* An accepted L2 is of one mode throughout: either every mandate it discloses
\* is open and delegates to a key, or every one is final, none names a key, and
\* the caller passed no Layer 3 credential.
ModesNeverMix ==
    Accepted =>
        LET shown == UNION {Disclosed(l2, kind) : kind \in Kinds}
        IN  IF autonomous
            THEN \A k \in shown : MandateAt(l2, k).open /\ MandateAt(l2, k).key # Absent
            ELSE /\ \A k \in shown : ~MandateAt(l2, k).open /\ MandateAt(l2, k).key = Absent
                 /\ L3Args = {}

\* An accepted chain is one chain of keys: the issuer signed L1 (unless the
\* caller has no key of the issuer and waived it), the key L1 names signed L2 over exactly the L1 presented,
\* and one key, named by every mandate L2 discloses, signed every Layer 3.
ChainOfTrust ==
    Accepted =>
        /\ IF call.issuer_key # Absent THEN call.l1.jwt.signer = call.issuer_key ELSE call.skip_issuer
        /\ call.l2.jwt.signer = call.l1.jwt.key
        /\ call.l2.jwt.sd_hash \in {call.l1, call.l1_serialized}
        /\ \A arg \in L3Args : \A kind \in Kinds : \A k \in Disclosed(l2, kind) :
              /\ l3s[arg[1]].l3[arg[2]].signer = MandateAt(l2, k).key
              /\ MandateAt(l2, k).kid \in {Absent, l3s[arg[1]].l3[arg[2]].kid}

\* All the credentials of an accepted call were valid at one and the same
\* instant, the one read on entry, however long the call took.
ValidAtOneInstant ==
    Accepted =>
        /\ Live(call.l1.jwt, now)
        /\ Live(call.l2.jwt, now)
        /\ \A arg \in L3Args : LET l3 == l3s[arg[1]].l3[arg[2]]
                                IN  Live(l3, now) /\ ~LongLived(l3)

\* An accepted call ignored none of its Layer 3 arguments: with any, there is
\* one element per mandate pair, each credential went through its checks, and a
\* pair that brought both credentials was cross-referenced and agrees.
NothingIgnored ==
    Accepted =>
        /\ L3Args # {} => Len(l3s) = Len(pairs)
        /\ L3Args \subseteq checked
        /\ \A n \in DOMAIN l3s : BothGiven(n) => <<n, "cross">> \in checked /\ CrossOK(n)

\* The Layer 3 arguments whose pair has a mandate of their kind in a disclosure.
Placed == {arg \in L3Args : pairs[arg[1]][arg[2]] # 0 /\ Ref(l2, pairs[arg[1]][arg[2]]) # Absent}

\* The mandates of L2 of this kind that a presentation shows.
MandatesIn(view, kind) == {k \in Disclosed(l2, kind) : Ref(l2, k) \in Range(view.discs)}

\* A Layer 3 credential bound to a presentation that shows mandates of other pairs,
\* however many, and not that of its own position is never accepted, nor are two
\* credentials of different pairs bound to one presentation of a single mandate:
\* handing the credentials over in the wrong order, or one purchase for two pairs,
\* is found out.
MisplacedL3Rejected ==
    Accepted =>
        LET shown(arg) == MandatesIn(Bound(call, arg[1], arg[2]), arg[2])
        IN  /\ \A arg \in Placed : shown(arg) # {} => pairs[arg[1]][arg[2]] \in shown(arg)
            /\ \A a, b \in Placed :
                 a # b /\ a[2] = b[2] /\ Bound(call, a[1], a[2]) = Bound(call, b[1], b[2])
                   => \A k \in shown(a) : shown(a) # {k}

\* The instrument is carried through the chain: a payment mandate in an accepted
\* Layer 3 credential pays with the instrument of its Layer 2 mandate when that
\* is disclosed, and with the card L1 names, when L1 names one.
InstrumentCarriedThrough ==
    Accepted =>
        \A arg \in L3Args : \A m \in Range(l3s[arg[1]].l3[arg[2]].mandates) :
            m.kind = "payment" =>
                /\ call.l1.jwt.card \in {Absent, m.instrument}
                /\ \A k \in Disclosed(l2, "payment") :
                      k = pairs[arg[1]]["payment"] => MandateAt(l2, k).instrument = m.instrument

\* What spec/credential-format.md says of Layer 3 times: iat and exp are both
\* required, and an accepted credential expires within an hour of iat.
L3ExpiresWithinAnHour ==
    Accepted =>
        \A arg \in L3Args :
            LET l3 == l3s[arg[1]].l3[arg[2]]
            IN  l3.iat # Absent /\ l3.exp # Absent /\ ~LongLived(l3)

\* What spec/credential-format.md says of cnf.jwk: every mandate of an accepted
\* autonomous L2 names the agent by the same kid.
MandatesNameOneKid ==
    (Accepted /\ autonomous) =>
        \E kid \in Kids : \A kind \in Kinds : \A k \in Disclosed(l2, kind) :
            MandateAt(l2, k).kid = kid
==============================================================================
