------------------------ MODULE ChainRefinementProofs ------------------------
(***************************************************************************)
(* verify_chain decides exactly what ChainSpec declares, for every call:   *)
(* each stage rejects only what some rule forbids, and what no stage       *)
(* rejects obeys every rule.                                               *)
(***************************************************************************)
EXTENDS ChainTrustProofs, ChainRefinement, FiniteSetTheorems, WellFoundedInduction

------------------------------------------------------------------------------
(* The two specifications speak of the same data. *)

LEMMA SameKinds == Promise!Kinds = Kinds
BY DEF Promise!Kinds, Kinds

LEMMA SameOptional == ASSUME NEW S PROVE Promise!OrAbsent(S) = OrAbsent(S)
BY DEF Promise!OrAbsent, OrAbsent

LEMMA SameRange == ASSUME NEW f PROVE Promise!Range(f) = Range(f)
BY DEF Promise!Range, Range

LEMMA SameCardinality == ASSUME NEW S PROVE Promise!Cardinality(S) = Cardinality(S)
BY DEF Promise!Cardinality, Cardinality

LEMMA SameRef == ASSUME NEW p, NEW k PROVE Promise!Ref(p, k) = Ref(p, k)
BY DEF Promise!Ref, Ref

LEMMA SameMandate == ASSUME NEW p, NEW k PROVE Promise!MandateAt(p, k) = MandateAt(p, k)
BY DEF Promise!MandateAt, MandateAt

LEMMA SameShown == ASSUME NEW p, NEW kind PROVE Promise!Disclosed(p, kind) = Disclosed(p, kind)
<1>1. \A k : Promise!Resolved(p, k) <=> Resolved(p, k)
  BY SameRange DEF Promise!Resolved, Resolved
<1> QED
  BY <1>1, SameMandate DEF Promise!Disclosed, Disclosed

LEMMA SameTimes ==
    ASSUME NEW jwt, NEW t
    PROVE  /\ Promise!Live(jwt, t) <=> Live(jwt, t)
           /\ Promise!LongLived(jwt) <=> LongLived(jwt)
BY DEF Promise!Live, Live, Promise!Expired, Expired, Promise!FutureDated, FutureDated,
       Promise!LongLived, LongLived

LEMMA SameAudience ==
    ASSUME NEW expected, NEW jwt
    PROVE  Promise!HeardAs(expected, jwt) <=> AsExpected(expected, jwt)
BY DEF Promise!HeardAs, AsExpected

------------------------------------------------------------------------------
(* Helpers of the code, by what they compute. *)

LEMMA FirstOfTwoIs ==
    ASSUME NEW first, NEW second
    PROVE  FirstOf(<<first, second>>) = IF first = Absent THEN second ELSE first
<1> DEFINE list == <<first, second>>
           Wanted(n) == /\ list[n] # Absent \/ n = Len(list)
                        /\ \A m \in 1..(n - 1) : list[m] = Absent
           at == IF first = Absent THEN 2 ELSE 1
<1>1. Len(list) = 2 /\ DOMAIN list = {1, 2} /\ list[1] = first /\ list[2] = second
  OBVIOUS
<1> HIDE DEF list
<1>2. at \in DOMAIN list /\ Wanted(at)
  BY <1>1
<1>3. \A n \in DOMAIN list : Wanted(n) => n = at
  BY <1>1
<1>4. (CHOOSE n \in DOMAIN list : Wanted(n)) = at
  BY <1>2, <1>3
<1>5. FirstOf(list) = list[CHOOSE n \in DOMAIN list : Wanted(n)]
  BY DEF FirstOf
<1> QED
  BY <1>1, <1>4, <1>5 DEF list

\* The fallback over the presentations of L2 and its declarative form agree.
LEMMA FirstOfFourIs ==
    ASSUME NEW a, NEW b, NEW c, NEW d, d # Absent
    PROVE  LET views == <<a, b, c, d>>
           IN  FirstOf(views) =
               views[CHOOSE m \in 1..4 : views[m] # Absent /\ \A j \in 1..(m - 1) : views[j] = Absent]
<1> DEFINE views == <<a, b, c, d>>
           Wanted(n) == /\ views[n] # Absent \/ n = Len(views)
                        /\ \A m \in 1..(n - 1) : views[m] = Absent
           First(m) == views[m] # Absent /\ \A j \in 1..(m - 1) : views[j] = Absent
<1>1. Len(views) = 4 /\ DOMAIN views = 1..4 /\ views[4] # Absent
  OBVIOUS
<1> HIDE DEF views
<1>2. \A n \in 1..4 : Wanted(n) <=> First(n)
  BY <1>1
<1>3. (CHOOSE n \in 1..4 : Wanted(n)) = (CHOOSE n \in 1..4 : First(n))
  BY <1>2
<1>4. FirstOf(views) = views[CHOOSE n \in 1..4 : Wanted(n)]
  BY <1>1 DEF FirstOf
<1> QED
  BY <1>3, <1>4 DEF views

\* A set of numbers that is not empty has a least element.
LEMMA LeastExists ==
    ASSUME NEW T \in SUBSET Nat, T # {}
    PROVE  \E x \in T : \A y \in T : x <= y
<1>1. PICK x \in T : \A y \in T : ~(<<y, x>> \in OpToRel(<, Nat))
  BY NatLessThanWellFounded, WFMin
<1>2. \A y \in T : ~(y < x)
  BY <1>1 DEF OpToRel
<1> QED
  BY <1>2

\* The mandates of a Layer 3 credential lead with one link of each kind.
LEMMA LeadIsFirst ==
    ASSUME NEW l3 \in L3Jwt, NEW kind, \E m \in Range(l3.mandates) : m.kind = kind
    PROVE  Promise!Leads(l3, kind) = {FirstLink(l3, kind)}
<1> DEFINE list == l3.mandates
           First(n) == list[n].kind = kind /\ \A m \in 1..(n - 1) : list[m].kind # kind
<1>1. DOMAIN list = 1..Len(list) /\ Len(list) \in Nat
  BY DEF L3Jwt
<1>2. \E n \in DOMAIN list : First(n)
  <2> DEFINE T == {n \in DOMAIN list : list[n].kind = kind}
  <2>1. T \in SUBSET Nat /\ T # {}
    BY <1>1 DEF Range
  <2>2. PICK n \in T : \A m \in T : n <= m
    BY <2>1, LeastExists
  <2>3. \A m \in 1..(n - 1) : m \in DOMAIN list /\ ~(n <= m)
    BY <1>1, <2>2
  <2> QED
    BY <2>2, <2>3
<1>3. \A m, n \in DOMAIN list : First(m) /\ First(n) => m = n
  BY <1>1
<1> DEFINE first == CHOOSE n \in DOMAIN list : First(n)
<1>4. first \in DOMAIN list /\ First(first)
  BY <1>2
<1>5. Promise!Leads(l3, kind) = {list[n].link : n \in {m \in DOMAIN list : First(m)}}
  BY DEF Promise!Leads
<1>6. FirstLink(l3, kind) = list[first].link
  BY DEF FirstLink
<1> HIDE DEF First, first
<1>7. {m \in DOMAIN list : First(m)} = {first}
  BY <1>3, <1>4
<1> QED
  BY <1>5, <1>6, <1>7

------------------------------------------------------------------------------
(* A unique perfect matching, in the terms of the pairing code. *)

\* What InferMode established of the mandates L2 discloses.
ModeInferred ==
    /\ call \in Arguments /\ autonomous \in BOOLEAN
    /\ autonomous <=> Has(TRUE)
    /\ ~(Has(TRUE) /\ Has(FALSE))

Joined(kind, k, other, m) ==
    PairingKey(kind, k) # Absent /\ PairingKey(kind, k) = PairingKey(other, m)

OneForOne ==
    \A kind, other \in Kinds : kind # other =>
        \A k \in Disclosed(l2, kind) :
            \E m \in Disclosed(l2, other) :
                \A x \in Disclosed(l2, other) : Joined(kind, k, other, x) <=> x = m

\* The mandates of a kind have keys, and distinct ones.
Keyed(kind) ==
    \A j, k \in Disclosed(l2, kind) :
        /\ PairingKey(kind, k) # Absent
        /\ PairingKey(kind, j) = PairingKey(kind, k) => j = k

TwoSided == \A kind \in Kinds : Disclosed(l2, kind) # {}

LEMMA DisclosedMandate ==
    ASSUME call \in Arguments, NEW kind, NEW k \in Disclosed(l2, kind)
    PROVE  /\ k \in Nat \ {0} /\ k \in DOMAIN l2.jwt.delegates
           /\ MandateAt(l2, k) \in Mandate /\ MandateAt(l2, k).kind = kind
<1>1. k \in DOMAIN l2.jwt.delegates /\ k \in Nat \ {0} /\ MandateAt(l2, k).kind = kind
  BY DisclosedArePositions DEF Disclosed
<1>2. l2.jwt.delegates \in Seq(Delegate)
  BY DEF Arguments, Presentation, L2Jwt, l2
<1>3. l2.jwt.delegates[k] \in Delegate
  BY <1>1, <1>2, ElementOfSeq, DisclosedArePositions
<1> QED
  BY <1>1, <1>3, DisclosuresHoldMandates DEF MandateAt, Delegate

LEMMA DisclosedFinite ==
    ASSUME call \in Arguments, NEW kind
    PROVE  IsFiniteSet(Disclosed(l2, kind)) /\ Disclosed(l2, kind) \subseteq Nat
<1>1. Len(l2.jwt.delegates) \in Nat /\ Disclosed(l2, kind) \subseteq 1..Len(l2.jwt.delegates)
  BY DisclosedArePositions
<1>2. IsFiniteSet(1..Len(l2.jwt.delegates))
  BY <1>1, FS_Interval
<1> QED
  BY <1>1, <1>2, FS_Subset

\* The mandates shown are open in autonomous mode and final otherwise.
LEMMA OneModeShown ==
    ASSUME ModeInferred, NEW kind \in Kinds, NEW k \in Disclosed(l2, kind)
    PROVE  MandateAt(l2, k).open <=> autonomous
<1>1. MandateAt(l2, k).open \in BOOLEAN
  BY DisclosedMandate DEF ModeInferred, Mandate
<1>2. MandateAt(l2, k).open => Has(TRUE)
  BY <1>1 DEF Has
<1>3. ~MandateAt(l2, k).open => Has(FALSE)
  BY <1>1 DEF Has
<1> QED
  BY <1>2, <1>3 DEF ModeInferred

LEMMA LinkedIsJoined ==
    ASSUME ModeInferred, NEW c \in Disclosed(l2, "checkout"), NEW p \in Disclosed(l2, "payment")
    PROVE  /\ Promise!Linked(l2, c, p) <=> Joined("checkout", c, "payment", p)
           /\ Promise!Linked(l2, c, p) <=> Joined("payment", p, "checkout", c)
<1>1. MandateAt(l2, p).open <=> autonomous
  BY OneModeShown DEF Kinds
<1>2. Promise!Linked(l2, c, p) <=>
        /\ MandateAt(l2, p).link # Absent
        /\ MandateAt(l2, p).link = IF autonomous THEN Ref(l2, c) ELSE MandateAt(l2, c).link
  BY <1>1, SameMandate, SameRef DEF Promise!Linked
<1>3. /\ PairingKey("payment", p) = MandateAt(l2, p).link
      /\ PairingKey("checkout", c) = IF autonomous THEN Ref(l2, c) ELSE MandateAt(l2, c).link
  BY DEF PairingKey
<1> QED
  BY <1>2, <1>3 DEF Joined

LEMMA MatchingIsOneForOne == ASSUME ModeInferred PROVE Promise!Matching(l2) <=> OneForOne
<1>0. call \in Arguments
  BY DEF ModeInferred
<1> DEFINE C == Disclosed(l2, "checkout")
           P == Disclosed(l2, "payment")
<1>1. Promise!Matching(l2) <=>
        /\ \A k \in C : Cardinality({m \in P : Promise!Linked(l2, k, m)}) = 1
        /\ \A m \in P : Cardinality({k \in C : Promise!Linked(l2, k, m)}) = 1
  BY SameShown, SameCardinality DEF Promise!Matching
<1>2. ASSUME NEW k \in C
      PROVE  Cardinality({m \in P : Promise!Linked(l2, k, m)}) = 1 <=>
             \E m \in P : \A x \in P : Joined("checkout", k, "payment", x) <=> x = m
  <2>1. Cardinality({m \in P : Promise!Linked(l2, k, m)}) = 1 <=>
        \E m \in P : \A x \in P : Promise!Linked(l2, k, x) <=> x = m
    <3>1. IsFiniteSet(P)
      BY <1>0, DisclosedFinite
    <3>2. IsFiniteSet({m \in P : Promise!Linked(l2, k, m)})
      BY <3>1, FS_Subset
    <3> HIDE DEF P
    <3> QED
      BY <3>2, FS_Singleton
  <2> QED
    BY <2>1, LinkedIsJoined
<1>3. ASSUME NEW m \in P
      PROVE  Cardinality({k \in C : Promise!Linked(l2, k, m)}) = 1 <=>
             \E k \in C : \A x \in C : Joined("payment", m, "checkout", x) <=> x = k
  <2>1. Cardinality({k \in C : Promise!Linked(l2, k, m)}) = 1 <=>
        \E k \in C : \A x \in C : Promise!Linked(l2, x, m) <=> x = k
    <3>1. IsFiniteSet(C)
      BY <1>0, DisclosedFinite
    <3>2. IsFiniteSet({k \in C : Promise!Linked(l2, k, m)})
      BY <3>1, FS_Subset
    <3> HIDE DEF C
    <3> QED
      BY <3>2, FS_Singleton
  <2> QED
    BY <2>1, LinkedIsJoined
<1>4. OneForOne <=> /\ \A k \in C : \E m \in P : \A x \in P : Joined("checkout", k, "payment", x) <=> x = m
                    /\ \A m \in P : \E k \in C : \A x \in C : Joined("payment", m, "checkout", x) <=> x = k
  BY DEF OneForOne, Kinds
<1> HIDE DEF C, P
<1> QED
  BY <1>1, <1>2, <1>3, <1>4

------------------------------------------------------------------------------
(* What the stages establish besides TrustInv. *)

AfterCollect == AfterMatch \cup {"match"}

\* No disclosure is referred to twice before this position.
RefsDistinct(bound) ==
    \A j, k \in DOMAIN l2.jwt.delegates :
        j < bound /\ k < bound /\ Ref(l2, j) = Ref(l2, k) => j = k \/ Ref(l2, j) = Absent

Increasing(seq) == \A m, n \in DOMAIN seq : m < n => seq[m] < seq[n]

\* The mandate that gives a pair its place: the payment, if L2 shows any.
Lead(n) == IF Disclosed(l2, "payment") # {} THEN pairs[n]["payment"] ELSE pairs[n]["checkout"]

EntryInv ==
    /\ pc \notin {"idle", "rejected"} => call.form # "both"
    /\ pc \in PastMode => l2.jwt.typ = IF autonomous THEN "kb-sd-jwt+kb" ELSE "kb-sd-jwt"

RefsInv ==
    /\ pc = "collect" => RefsDistinct(pos)
    /\ pc \in AfterCollect => RefsDistinct(Len(l2.jwt.delegates) + 1)

\* Mandates are collected and paired in the order of their positions.
OrderInv ==
    /\ pc \in {"collect", "match"} => \A kind \in Kinds : Increasing(found[kind])
    /\ pc \in AfterMatch /\ autonomous =>
         \A m, n \in DOMAIN pairs : m < n => Lead(m) < Lead(n)

\* Something is shown, both kinds before matching and in immediate mode; and
\* checkouts that payments were looked up against have keys of their own.
KeysInv ==
    pc \in AfterCollect =>
        /\ \E kind \in Kinds : Disclosed(l2, kind) # {}
        /\ TwoSided \/ (autonomous /\ pc # "match")
        /\ TwoSided => Keyed("checkout")

DecisionInv == EntryInv /\ RefsInv /\ OrderInv /\ KeysInv

LEMMA SamePairingFacts ==
    ASSUME UNCHANGED <<call, autonomous>>
    PROVE  /\ l2' = l2
           /\ \A kind : Disclosed(l2, kind)' = Disclosed(l2, kind)
           /\ \A kind, k : PairingKey(kind, k)' = PairingKey(kind, k)
           /\ \A bound : RefsDistinct(bound)' <=> RefsDistinct(bound)
           /\ TwoSided' <=> TwoSided
           /\ \A kind : Keyed(kind)' <=> Keyed(kind)
<1>1. l2' = l2 /\ \A kind : Disclosed(l2, kind)' = Disclosed(l2, kind)
  BY SameDisclosed
<1>2. \A kind, k : PairingKey(kind, k)' = PairingKey(kind, k)
  BY <1>1 DEF PairingKey, Ref, MandateAt
<1>3. \A bound : RefsDistinct(bound)' <=> RefsDistinct(bound)
  BY <1>1 DEF RefsDistinct, Ref
<1>4. (TwoSided' <=> TwoSided) /\ \A kind : Keyed(kind)' <=> Keyed(kind)
  BY <1>1, <1>2 DEF TwoSided, Keyed
<1> QED
  BY <1>1, <1>2, <1>3, <1>4

\* How the stages from pairing on are reached, and what that leaves alone.
LEMMA LateSteps ==
    ASSUME [Next]_vars, pc' \in AfterCollect
    PROVE  \/ IndexMandates \/ OneSidedPairs \/ MatchMandate \/ RejectOrphans
           \/ /\ UNCHANGED <<call, autonomous, found, pairs>>
              /\ pc' = pc \/ (pc \in AfterMatch /\ pc' \in AfterMatch)
<1> USE DEF AfterCollect, AfterMatch, Continue
<1>1. CASE Call \/ Return \/ Tick \/ UNCHANGED vars
  BY <1>1 DEF Call, Return, Tick, vars
<1>2. CASE CheckL1 \/ CheckL2 \/ InferMode \/ CollectMandate \/ RejectDuplicate \/ RejectUnmatched
  BY <1>2 DEF CheckL1, CheckL2, InferMode, CollectMandate, RejectDuplicate, RejectUnmatched
<1>3. CASE CheckMandates \/ CheckCard \/ ExtractAgentKey \/ RejectAgentKey
  BY <1>3 DEF CheckMandates, CheckCard, ExtractAgentKey, RejectAgentKey
<1>4. ASSUME NEW kind \in Kinds, SkipL3(kind) \/ CheckL3(kind) \/ RejectL3(kind)
      PROVE  /\ UNCHANGED <<call, autonomous, found, pairs>>
             /\ pc \in AfterMatch /\ pc' \in AfterMatch
  BY <1>4, LoopStages DEF SkipL3, CheckL3, RejectL3
<1>5. CASE CrossReference \/ RejectCrossReference
  BY <1>5 DEF CrossReference, RejectCrossReference
<1> QED
  BY <1>1, <1>2, <1>3, <1>4, <1>5 DEF Next, Verify

\* How the collecting loop is entered and goes on.
LEMMA CollectSteps ==
    ASSUME [Next]_vars, pc' = "collect"
    PROVE  /\ call' = call
           /\ \/ InferMode /\ UNCHANGED <<pos, found, pairs>>
              \/ CollectMandate
              \/ UNCHANGED <<pc, call, autonomous, pos, found, pairs>>
<1> USE DEF Continue
<1>1. CASE Call \/ Return \/ Tick \/ UNCHANGED vars
  BY <1>1 DEF Call, Return, Tick, vars
<1>2. CASE CheckL1 \/ CheckL2 \/ InferMode \/ CollectMandate \/ RejectDuplicate \/ IndexMandates
  BY <1>2 DEF CheckL1, CheckL2, InferMode, CollectMandate, RejectDuplicate, IndexMandates
<1>3. CASE OneSidedPairs \/ MatchMandate \/ RejectUnmatched \/ RejectOrphans
  BY <1>3 DEF OneSidedPairs, MatchMandate, RejectUnmatched, RejectOrphans
<1>4. CASE CheckMandates \/ CheckCard \/ ExtractAgentKey \/ RejectAgentKey
  BY <1>4 DEF CheckMandates, CheckCard, ExtractAgentKey, RejectAgentKey
<1>5. \A kind \in Kinds : ~(SkipL3(kind) \/ CheckL3(kind) \/ RejectL3(kind))
  BY LoopStages DEF SkipL3, CheckL3, RejectL3
<1>6. CASE CrossReference \/ RejectCrossReference
  BY <1>6 DEF CrossReference, RejectCrossReference
<1> QED
  BY <1>1, <1>2, <1>3, <1>4, <1>5, <1>6 DEF Next, Verify

LEMMA EntryStep == ASSUME EntryInv, [Next]_vars PROVE EntryInv'
<1>1. (pc \notin {"idle", "rejected"} => call.form # "both")'
  <2>1. CASE Call
    BY <2>1 DEF Call, Continue
  <2>2. CASE ~Call /\ pc' \notin {"idle", "rejected"}
    <3>1. pc \notin {"idle", "rejected"} /\ call' = call
      <4>1. CASE Return \/ Tick \/ UNCHANGED vars
        BY <2>2, <4>1 DEF Return, Tick, vars
      <4>2. CASE CheckL1 \/ CheckL2 \/ InferMode \/ CollectMandate \/ RejectDuplicate \/ IndexMandates
                 \/ OneSidedPairs \/ MatchMandate \/ RejectUnmatched \/ RejectOrphans
        BY <4>2 DEF CheckL1, CheckL2, InferMode, CollectMandate, RejectDuplicate, IndexMandates,
                    OneSidedPairs, MatchMandate, RejectUnmatched, RejectOrphans
      <4>3. CASE CheckMandates \/ CheckCard \/ ExtractAgentKey \/ RejectAgentKey
                 \/ CrossReference \/ RejectCrossReference
        BY <4>3 DEF CheckMandates, CheckCard, ExtractAgentKey, RejectAgentKey,
                    CrossReference, RejectCrossReference
      <4>4. ASSUME NEW kind \in Kinds, SkipL3(kind) \/ CheckL3(kind) \/ RejectL3(kind)
            PROVE  pc \notin {"idle", "rejected"} /\ call' = call
        BY <4>4, LoopStages DEF SkipL3, CheckL3, RejectL3
      <4> QED
        BY <2>2, <4>1, <4>2, <4>3, <4>4 DEF Next, Verify
    <3> QED
      BY <3>1 DEF EntryInv
  <2> QED
    BY <2>1, <2>2
<1>2. (pc \in PastMode => l2.jwt.typ = IF autonomous THEN "kb-sd-jwt+kb" ELSE "kb-sd-jwt")'
  <2> USE DEF PastL1, PastL2, PastMode, Stages
  <2> SUFFICES ASSUME pc' \in PastMode
               PROVE  (l2.jwt.typ = IF autonomous THEN "kb-sd-jwt+kb" ELSE "kb-sd-jwt")'
    OBVIOUS
  <2>1. call' = call /\ (InferMode \/ (pc \in PastMode /\ autonomous' = autonomous))
    BY Moves, LoopStages DEF given, facts, paired, Kinds
  <2>2. l2' = l2
    BY <2>1, SameCall
  <2>3. CASE InferMode
    BY <2>2, <2>3 DEF InferMode, Continue
  <2>4. CASE pc \in PastMode /\ autonomous' = autonomous
    BY <2>2, <2>4 DEF EntryInv
  <2> QED
    BY <2>1, <2>3, <2>4
<1> QED
  BY <1>1, <1>2 DEF EntryInv

\* While mandates are collected, pos is a position or one past the last.
LEMMA CollectBounds ==
    ASSUME TypeInv, PairingInv, pc = "collect"
    PROVE  /\ call \in Arguments /\ Collecting
           /\ Len(l2.jwt.delegates) \in Nat /\ DOMAIN l2.jwt.delegates = 1..Len(l2.jwt.delegates)
           /\ pos \in Nat /\ pos >= 1 /\ pos <= Len(l2.jwt.delegates) + 1
           /\ pos \notin DOMAIN l2.jwt.delegates => pos = Len(l2.jwt.delegates) + 1
<1>1. call \in Arguments /\ Collecting
  BY DEF TypeInv, TypeOK, PairingInv
<1>2. Len(l2.jwt.delegates) \in Nat /\ DOMAIN l2.jwt.delegates = 1..Len(l2.jwt.delegates)
  BY <1>1, DisclosedArePositions
<1>3. pos \in 1..(Len(l2.jwt.delegates) + 1)
  BY <1>1 DEF Collecting
<1> HIDE DEF Collecting
<1> QED
  BY <1>1, <1>2, <1>3

LEMMA RefsStep == ASSUME TypeInv, PairingInv, RefsInv, [Next]_vars PROVE RefsInv'
<1>1. ASSUME pc' = "collect" PROVE RefsDistinct(pos)'
  <2>1. call' = call /\ l2' = l2 /\ \A bound : RefsDistinct(bound)' <=> RefsDistinct(bound)
    <3>1. call' = call /\ l2' = l2
      BY <1>1, CollectSteps, SameCall
    <3> QED
      BY <3>1 DEF RefsDistinct, Ref
  <2>2. CASE InferMode /\ UNCHANGED <<pos, found, pairs>>
    <3>1. pos' = 1
      BY <2>2 DEF InferMode, PairingInv, BeforeCollect, NothingCollected
    <3>2. call \in Arguments
      BY <2>2 DEF InferMode, TypeInv, TypeOK
    <3>3. \A j \in DOMAIN l2.jwt.delegates : ~(j < 1)
      BY <3>2, DisclosedArePositions
    <3>4. RefsDistinct(1)
      BY <3>3 DEF RefsDistinct
    <3> QED
      BY <2>1, <3>1, <3>4 DEF RefsDistinct
  <2>3. CASE CollectMandate
    <3>1. pc = "collect" /\ pos' = pos + 1 /\ ~SeenBefore(pos)
      BY <2>3 DEF CollectMandate
    <3>2. RefsDistinct(pos)
      BY <3>1 DEF RefsInv
    <3>3. ASSUME NEW m \in DOMAIN l2.jwt.delegates, m < pos
          PROVE  Ref(l2, m) = Ref(l2, pos) => Ref(l2, m) = Absent
      BY <3>1, <3>3, CollectBounds DEF SeenBefore
    <3>4. \A j \in DOMAIN l2.jwt.delegates : j < pos + 1 => j < pos \/ j = pos
      BY <3>1, CollectBounds
    <3>5. RefsDistinct(pos + 1)
      BY <3>2, <3>3, <3>4 DEF RefsDistinct
    <3> QED
      BY <2>1, <3>1, <3>5 DEF RefsDistinct
  <2>4. CASE UNCHANGED <<pc, call, autonomous, pos, found, pairs>>
    BY <1>1, <2>1, <2>4 DEF RefsInv, RefsDistinct
  <2> QED
    BY <1>1, <2>2, <2>3, <2>4, CollectSteps
<1>2. ASSUME pc' \in AfterCollect PROVE RefsDistinct(Len(l2.jwt.delegates) + 1)'
  <2>1. UNCHANGED <<call, autonomous>>
    BY <1>2, LateSteps DEF IndexMandates, OneSidedPairs, MatchMandate, RejectOrphans
  <2>2. l2' = l2 /\ \A bound : RefsDistinct(bound)' <=> RefsDistinct(bound)
    BY <2>1, SamePairingFacts
  <2>3. CASE IndexMandates \/ OneSidedPairs
    <3>1. pc = "collect" /\ pos \notin DOMAIN l2.jwt.delegates
      BY <2>3 DEF IndexMandates, OneSidedPairs
    <3> QED
      BY <2>2, <3>1, CollectBounds DEF RefsInv, RefsDistinct
  <2>4. CASE ~(IndexMandates \/ OneSidedPairs)
    <3>1. pc \in AfterCollect
      BY <1>2, <2>4, LateSteps DEF MatchMandate, RejectOrphans, AfterCollect
    <3> QED
      BY <2>2, <3>1 DEF RefsInv, RefsDistinct
  <2> QED
    BY <2>3, <2>4
<1> QED
  BY <1>1, <1>2 DEF RefsInv

LEMMA IncreasingAppend ==
    ASSUME NEW seq \in Seq(Nat), NEW e \in Nat, Increasing(seq), \A x \in Range(seq) : x < e
    PROVE  Increasing(Append(seq, e))
<1> DEFINE longer == Append(seq, e)
<1>1. /\ DOMAIN seq = 1..Len(seq) /\ Len(seq) \in Nat
      /\ DOMAIN longer = 1..(Len(seq) + 1)
      /\ \A n \in 1..Len(seq) : longer[n] = seq[n] /\ seq[n] \in Range(seq)
      /\ longer[Len(seq) + 1] = e
  BY DEF Range
<1> HIDE DEF longer
<1>2. Increasing(longer)
  BY <1>1 DEF Increasing
<1> QED
  BY <1>2 DEF longer

\* Mandates are collected in the order of delegate_payload.
LEMMA CollectedInOrder ==
    ASSUME TypeInv, PairingInv, OrderInv, [Next]_vars, pc' \in {"collect", "match"}, NEW kind \in Kinds
    PROVE  Increasing(found[kind])'
<1>1. CASE pc' = "match"
  <2>1. pc \in {"collect", "match"} /\ found' = found
    BY <1>1, LateSteps DEF AfterCollect, AfterMatch, IndexMandates, OneSidedPairs, MatchMandate,
                           RejectOrphans, Continue
  <2> QED
    BY <2>1 DEF OrderInv, Increasing
<1>2. CASE pc' = "collect"
  <2>1. CASE InferMode /\ UNCHANGED <<pos, found, pairs>>
    <3>1. found'[kind] = <<>>
      BY <2>1 DEF InferMode, PairingInv, BeforeCollect, NothingCollected
    <3> QED
      BY <3>1 DEF Increasing
  <2>2. CASE CollectMandate
    <3>1. pc = "collect" /\ found'[kind] \in {found[kind], Append(found[kind], pos)}
      BY <2>2 DEF CollectMandate
    <3>2. Increasing(found[kind]) /\ Range(found[kind]) = {k \in Disclosed(l2, kind) : k < pos}
      BY <3>1, CollectBounds DEF OrderInv, Collecting, Enumerates
    <3>3. found[kind] \in Seq(Nat) /\ pos \in Nat
      BY DEF TypeInv, TypeOK, LocalsTyped
    <3>4. Increasing(Append(found[kind], pos))
      BY <3>2, <3>3, IncreasingAppend
    <3> QED
      BY <3>1, <3>2, <3>4 DEF Increasing
  <2>3. CASE UNCHANGED <<pc, call, autonomous, pos, found, pairs>>
    BY <1>2, <2>3 DEF OrderInv, Increasing
  <2> QED
    BY <1>2, <2>1, <2>2, <2>3, CollectSteps
<1> QED
  BY <1>1, <1>2

LEMMA OrderStep == ASSUME TypeInv, PairingInv, OrderInv, KeysInv, [Next]_vars PROVE OrderInv'
<1>1. ASSUME pc' \in {"collect", "match"}
      PROVE  (\A kind \in Kinds : Increasing(found[kind]))'
  BY <1>1, CollectedInOrder
<1>2. ASSUME pc' \in AfterMatch, autonomous', NEW m \in DOMAIN pairs', NEW n \in DOMAIN pairs', m < n
      PROVE  Lead(m)' < Lead(n)'
  <2>1. UNCHANGED <<call, autonomous>> /\ pc' \in AfterCollect
    BY <1>2, LateSteps DEF AfterCollect, IndexMandates, OneSidedPairs, MatchMandate, RejectOrphans
  <2>2. \A kind : Disclosed(l2, kind)' = Disclosed(l2, kind)
    BY <2>1, SamePairingFacts
  <2>3. Driver = "payment" /\ Other = "checkout" /\ Kinds = {"payment", "checkout"}
    BY <1>2, <2>1 DEF Driver, Other, Kinds
  <2>4. CASE OneSidedPairs
    <3>1. /\ pc = "collect" /\ pos \notin DOMAIN l2.jwt.delegates /\ pairs' # <<>>
      BY <1>2, <2>4 DEF OneSidedPairs, Continue, AfterMatch
    <3>2. PICK kind \in Kinds :
            /\ \A other \in Kinds \ {kind} : found[other] = <<>>
            /\ pairs' = [x \in DOMAIN found[kind] |-> [NoPair EXCEPT ![kind] = found[kind][x]]]
      BY <2>4 DEF OneSidedPairs
    <3>3. \A side \in Kinds : Range(found[side]) = Disclosed(l2, side)
      BY <3>1, AllCollected DEF Enumerates
    <3>4. \A other \in Kinds \ {kind} : Disclosed(l2, other) = {}
      BY <3>2, <3>3 DEF Range
    <3>5. Disclosed(l2, kind) # {}
      <4>1. m \in DOMAIN found[kind]
        BY <1>2, <3>2
      <4> QED
        BY <3>3, <4>1 DEF Range
    <3>6. \A x \in DOMAIN pairs' : Lead(x)' = pairs'[x][kind]
      BY <2>2, <2>3, <3>4, <3>5 DEF Lead
    <3>7. \A x \in DOMAIN pairs' : x \in DOMAIN found[kind] /\ pairs'[x][kind] = found[kind][x]
      BY <3>2 DEF NoPair
    <3> QED
      BY <1>2, <3>1, <3>6, <3>7 DEF OrderInv, Increasing
  <2>5. CASE RejectOrphans
    <3>1. pc = "match" /\ UNCHANGED <<found, pairs>>
      BY <2>5 DEF RejectOrphans
    <3>2. Matching /\ Increasing(found["payment"])
      BY <2>3, <3>1 DEF PairingInv, OrderInv
    <3>3. TwoSided
      BY <3>1 DEF KeysInv, AfterCollect
    <3>4. \A x \in DOMAIN pairs : Lead(x)' = found["payment"][x]
      BY <2>2, <2>3, <3>1, <3>2, <3>3 DEF Lead, Matching, TwoSided
    <3>5. DOMAIN pairs \subseteq DOMAIN found["payment"]
      <4>1. found["payment"] \in Seq(Nat \ {0}) /\ pairs \in Seq([Kinds -> Nat])
        BY <2>3 DEF TypeInv, TypeOK, LocalsTyped
      <4> QED
        BY <2>3, <3>2, <4>1 DEF Matching
    <3> QED
      BY <1>2, <3>1, <3>2, <3>4, <3>5 DEF Increasing
  <2>6. CASE pc \in AfterMatch /\ pairs' = pairs
    BY <1>2, <2>1, <2>2, <2>6 DEF OrderInv, Lead
  <2> QED
    BY <1>2, <2>1, <2>4, <2>5, <2>6, LateSteps
       DEF IndexMandates, MatchMandate, Continue, AfterMatch
<1> QED
  BY <1>1, <1>2 DEF OrderInv

LEMMA KeysStep == ASSUME TypeInv, PairingInv, KeysInv, [Next]_vars PROVE KeysInv'
<1> SUFFICES ASSUME pc' \in AfterCollect
             PROVE  /\ \E kind \in Kinds : Disclosed(l2, kind)' # {}
                    /\ (TwoSided \/ (autonomous /\ pc # "match"))'
                    /\ (TwoSided => Keyed("checkout"))'
  BY DEF KeysInv
<1>1. UNCHANGED <<call, autonomous>>
  BY LateSteps DEF IndexMandates, OneSidedPairs, MatchMandate, RejectOrphans
<1>2. /\ \A kind : Disclosed(l2, kind)' = Disclosed(l2, kind)
      /\ TwoSided' <=> TwoSided
      /\ Keyed("checkout")' <=> Keyed("checkout")
  BY <1>1, SamePairingFacts
<1>3. CASE IndexMandates
  <2>1. /\ pc = "collect" /\ pos \notin DOMAIN l2.jwt.delegates
        /\ \A kind \in Kinds : found[kind] # <<>>
        /\ KeysDistinct("checkout")
    BY <1>3 DEF IndexMandates, Continue, AfterCollect, AfterMatch, Indexed
  <2>2. ASSUME NEW kind \in Kinds
        PROVE  Range(found[kind]) = Disclosed(l2, kind) /\ Disclosed(l2, kind) # {}
    <3>1. Range(found[kind]) = Disclosed(l2, kind)
      BY <2>1, AllCollected DEF Enumerates
    <3>2. found[kind] \in Seq(Nat \ {0}) /\ found[kind] # <<>>
      BY <2>1 DEF TypeInv, TypeOK, LocalsTyped
    <3>3. 1 \in DOMAIN found[kind]
      BY <3>2
    <3> QED
      BY <3>1, <3>3 DEF Range
  <2>3. Keyed("checkout")
    BY <2>1, <2>2 DEF KeysDistinct, Keyed, Range, Kinds
  <2>4. TwoSided
    BY <2>2 DEF TwoSided
  <2> QED
    BY <1>2, <2>2, <2>3, <2>4 DEF Kinds
<1>4. CASE OneSidedPairs
  <2>1. /\ pc = "collect" /\ pos \notin DOMAIN l2.jwt.delegates
        /\ pc' = "mandates" /\ autonomous /\ pairs' # <<>>
    BY <1>4 DEF OneSidedPairs, Continue, AfterCollect, AfterMatch
  <2>2. PICK kind \in Kinds :
          /\ \A other \in Kinds \ {kind} : found[other] = <<>>
          /\ pairs' = [n \in DOMAIN found[kind] |-> [NoPair EXCEPT ![kind] = found[kind][n]]]
    BY <1>4 DEF OneSidedPairs
  <2>3. \A side \in Kinds : Range(found[side]) = Disclosed(l2, side)
    BY <2>1, AllCollected DEF Enumerates
  <2>4. Disclosed(l2, kind) # {}
    <3>1. found[kind] \in Seq(Nat \ {0}) /\ found[kind] # <<>>
      BY <2>1, <2>2 DEF TypeInv, TypeOK, LocalsTyped
    <3>2. 1 \in DOMAIN found[kind]
      BY <3>1
    <3> QED
      BY <2>3, <3>2 DEF Range
  <2>5. ~TwoSided
    BY <2>2, <2>3 DEF TwoSided, Range, Kinds
  <2> QED
    BY <1>1, <1>2, <2>1, <2>4, <2>5
<1>5. CASE ~(IndexMandates \/ OneSidedPairs)
  <2>1. pc \in AfterCollect /\ (pc # "match" => pc' # "match")
    BY <1>5, LateSteps DEF MatchMandate, RejectOrphans, AfterCollect, AfterMatch
  <2> QED
    BY <1>1, <1>2, <2>1 DEF KeysInv
<1> QED
  BY <1>3, <1>4, <1>5

\* The inductive invariant of the refinement.
DecidesInv == TypeInv /\ PairingInv /\ TrustInv /\ DecisionInv

LEMMA DecidesInit == Init => DecidesInv
<1> SUFFICES ASSUME Init PROVE DecisionInv
  BY TypeInit, PairingInit, TrustInit DEF DecidesInv
<1> QED
  BY DEF Init, DecisionInv, EntryInv, RefsInv, OrderInv, KeysInv, PastMode, PastL2, PastL1, Stages,
         AfterCollect, AfterMatch

LEMMA DecidesStep == DecidesInv /\ [Next]_vars => DecidesInv'
<1> SUFFICES ASSUME DecidesInv, [Next]_vars PROVE DecidesInv'
  OBVIOUS
<1> USE DEF DecidesInv
<1>1. TypeInv' /\ PairingInv'
  BY TypeStep, PairingStep
<1>2. TrustInv'
  BY LayersStep, ModeStep, MandatesStep, AgentStep, LoopStep DEF TrustInv
<1>3. DecisionInv'
  BY EntryStep, RefsStep, OrderStep, KeysStep DEF DecisionInv
<1> QED
  BY <1>1, <1>2, <1>3

------------------------------------------------------------------------------
(* The n-th pair of the code is the n-th pair of ChainSpec. *)

\* A set listed in increasing order: its size, and its n-th element.
LEMMA ListedInOrder ==
    ASSUME NEW S \in SUBSET Nat, NEW N \in Nat, NEW f \in [1..N -> S],
           \A m, n \in 1..N : m < n => f[m] < f[n],
           \A k \in S : \E n \in 1..N : f[n] = k
    PROVE  /\ Promise!Cardinality(S) = N
           /\ \A n \in 1..N : Promise!Nth(S, n) = f[n]
<1>1. \A m, n \in 1..N : f[m] = f[n] => m = n
  <2> SUFFICES ASSUME NEW m \in 1..N, NEW n \in 1..N, f[m] = f[n] PROVE m = n
    OBVIOUS
  <2>1. \A x \in S : ~(x < x)
    OBVIOUS
  <2>2. f[m] \in S /\ ~(f[m] < f[n]) /\ ~(f[n] < f[m])
    BY <2>1
  <2>3. ~(m < n) /\ ~(n < m)
    BY <2>2
  <2> QED
    BY <2>3
<1>2. Cardinality(S) = N
  <2>1. f \in Bijection(1..N, S)
    BY <1>1 DEF Bijection, Injection, Surjection, IsInjective
  <2> QED
    BY <2>1, FS_CountingElements DEF ExistsBijection
<1>3. ASSUME NEW n \in 1..N
      PROVE  Cardinality({j \in S : j <= f[n]}) = n
  <2> DEFINE T == {j \in S : j <= f[n]}
             g == [m \in 1..n |-> f[m]]
  <2>1. \A m \in 1..N : f[m] <= f[n] <=> m <= n
    <3> SUFFICES ASSUME NEW m \in 1..N PROVE f[m] <= f[n] <=> m <= n
      OBVIOUS
    <3>1. f[m] \in Nat /\ f[n] \in Nat
      OBVIOUS
    <3>2. (m < n => f[m] < f[n]) /\ (n < m => f[n] < f[m]) /\ (m = n => f[m] = f[n])
      OBVIOUS
    <3> QED
      BY <3>1, <3>2
  <2>2. g \in [1..n -> T]
    BY <2>1
  <2>3. IsInjective(g)
    BY <1>1 DEF IsInjective
  <2>4. \A k \in T : \E m \in 1..n : g[m] = k
    <3> SUFFICES ASSUME NEW k \in T PROVE \E m \in 1..n : g[m] = k
      OBVIOUS
    <3>1. PICK m \in 1..N : f[m] = k
      OBVIOUS
    <3>2. m \in 1..n
      BY <2>1, <3>1
    <3> QED
      BY <3>1, <3>2
  <2> HIDE DEF g, T
  <2>5. g \in Bijection(1..n, T)
    BY <2>2, <2>3, <2>4 DEF Bijection, Injection, Surjection
  <2>6. Cardinality(T) = n
    BY <2>5, FS_CountingElements DEF ExistsBijection
  <2> QED
    BY <2>6 DEF T
<1>4. ASSUME NEW n \in 1..N PROVE Promise!Nth(S, n) = f[n]
  <2>1. \A k \in S : Promise!Cardinality({j \in S : j <= k}) = n <=> k = f[n]
    <3> SUFFICES ASSUME NEW k \in S PROVE Promise!Cardinality({j \in S : j <= k}) = n <=> k = f[n]
      OBVIOUS
    <3>1. PICK m \in 1..N : f[m] = k
      OBVIOUS
    <3>2. Promise!Cardinality({j \in S : j <= k}) = m
      BY <1>3, <3>1, SameCardinality
    <3> QED
      BY <1>1, <3>1, <3>2
  <2>2. f[n] \in S
    OBVIOUS
  <2> QED
    BY <2>1, <2>2 DEF Promise!Nth
<1> QED
  BY <1>2, <1>4, SameCardinality

\* The pairs once they are final: numbered, and made of disclosed mandates only.
LEMMA FinalPairs ==
    ASSUME DecidesInv, pc \in AfterMatch
    PROVE  /\ call \in Arguments /\ ModeInferred
           /\ pairs \in Seq([Kinds -> Nat]) /\ Len(pairs) \in Nat /\ DOMAIN pairs = 1..Len(pairs)
           /\ \E kind \in Kinds : Disclosed(l2, kind) # {}
           /\ \A n \in DOMAIN pairs : \A kind \in Kinds :
                IF pairs[n][kind] = 0 THEN Disclosed(l2, kind) = {} /\ autonomous
                ELSE pairs[n][kind] \in Disclosed(l2, kind)
           /\ \A kind \in Kinds : \A k \in Disclosed(l2, kind) :
                \E n \in DOMAIN pairs : \A m \in DOMAIN pairs : (pairs[m][kind] = k) <=> (m = n)
<1> USE DEF AfterMatch
<1>1. call \in Arguments /\ autonomous \in BOOLEAN /\ pairs \in Seq([Kinds -> Nat])
  <2>1. TypeOK /\ pc # "idle"
    BY DEF DecidesInv, TypeInv
  <2>2. call \in Arguments /\ LocalsTyped
    BY <2>1 DEF TypeOK
  <2> QED
    BY <2>2, Zenon DEF LocalsTyped
<1>2. (autonomous <=> Has(TRUE)) /\ ~(Has(TRUE) /\ Has(FALSE))
  BY DEF DecidesInv, TrustInv, ModeInv, PastMode, PastL2, PastL1, Stages
<1>3. \E kind \in Kinds : Disclosed(l2, kind) # {}
  BY DEF DecidesInv, DecisionInv, KeysInv, AfterCollect
<1>4. EveryMandatePairedOnce /\ PairsAreLinked /\ PairsReady
  BY DEF DecidesInv, PairingInv, PairsReady
<1>5. ModeInferred
  BY <1>1, <1>2 DEF ModeInferred
<1>6. Len(pairs) \in Nat /\ DOMAIN pairs = 1..Len(pairs)
  BY <1>1
<1>7. \A n \in DOMAIN pairs : \A kind \in Kinds :
        IF pairs[n][kind] = 0 THEN Disclosed(l2, kind) = {} /\ autonomous
        ELSE pairs[n][kind] \in Disclosed(l2, kind)
  BY <1>4 DEF PairsAreLinked
<1>8. \A kind \in Kinds : \A k \in Disclosed(l2, kind) :
        \E n \in DOMAIN pairs : \A m \in DOMAIN pairs : (pairs[m][kind] = k) <=> (m = n)
  BY <1>4 DEF EveryMandatePairedOnce
<1> QED
  BY <1>1, <1>3, <1>5, <1>6, <1>7, <1>8

LEMMA PairsInOrder ==
    ASSUME DecidesInv, pc \in AfterMatch, autonomous
    PROVE  /\ Promise!Cardinality(Promise!Order(l2)) = Len(pairs)
           /\ \A n \in DOMAIN pairs : Promise!Nth(Promise!Order(l2), n) = Lead(n)
           /\ \A n \in DOMAIN pairs : Lead(n) \in Promise!Order(l2)
<1> DEFINE side == IF Disclosed(l2, "payment") # {} THEN "payment" ELSE "checkout"
           S == Disclosed(l2, side)
           f == [n \in 1..Len(pairs) |-> Lead(n)]
<1>1. Promise!Order(l2) = S
  BY SameShown DEF Promise!Order
<1>2. S # {} /\ side \in Kinds
  BY FinalPairs DEF Kinds
<1>3. \A n : Lead(n) = pairs[n][side]
  BY DEF Lead
<1>4. S \in SUBSET Nat
  BY FinalPairs, DisclosedFinite
<1> HIDE DEF side
<1>5. \A n \in 1..Len(pairs) : Lead(n) \in S
  BY <1>2, <1>3, FinalPairs
<1>6. \A m, n \in 1..Len(pairs) : m < n => f[m] < f[n]
  BY FinalPairs DEF DecidesInv, DecisionInv, OrderInv
<1>7. \A k \in S : \E n \in 1..Len(pairs) : f[n] = k
  BY <1>2, <1>3, FinalPairs
<1>8. f \in [1..Len(pairs) -> S] /\ \A n \in 1..Len(pairs) : f[n] = Lead(n)
  BY <1>5
<1>9. Len(pairs) \in Nat /\ DOMAIN pairs = 1..Len(pairs)
  BY FinalPairs
<1> HIDE DEF f, S
<1>10. /\ Promise!Cardinality(S) = Len(pairs)
       /\ \A n \in 1..Len(pairs) : Promise!Nth(S, n) = f[n]
  BY <1>4, <1>6, <1>7, <1>8, <1>9, ListedInOrder
<1> QED
  BY <1>1, <1>5, <1>8, <1>9, <1>10

\* The mandates ChainSpec gives to the n-th pair are those the code paired.
LEMMA SamePair ==
    ASSUME DecidesInv, pc \in AfterMatch, autonomous, NEW n \in DOMAIN pairs, NEW kind \in Kinds
    PROVE  Promise!OfPair(l2, n, kind) = IF pairs[n][kind] = 0 THEN {} ELSE {pairs[n][kind]}
<1> DEFINE P == Disclosed(l2, "payment")
           C == Disclosed(l2, "checkout")
           p == pairs[n]["payment"]
           c == pairs[n]["checkout"]
<1>1. Promise!OfPair(l2, n, kind) =
        {k \in Disclosed(l2, kind) :
           k = Lead(n) \/ (kind = "checkout" /\ Lead(n) \in P /\ Promise!Linked(l2, k, Lead(n)))}
  BY PairsInOrder, SameShown DEF Promise!OfPair
<1>2. /\ IF p = 0 THEN P = {} ELSE p \in P
      /\ IF c = 0 THEN C = {} ELSE c \in C
      /\ P # {} \/ C # {}
      /\ ModeInferred /\ call \in Arguments
      /\ 0 \notin P /\ 0 \notin C
  BY FinalPairs, DisclosedFinite, DisclosedMandate DEF Kinds
<1>3. \A k \in C : k \notin P
  BY DEF Disclosed
<1>4. CASE P = {}
  BY <1>1, <1>2, <1>4 DEF Lead, Kinds
<1>5. CASE P # {}
  <2>1. Lead(n) = p /\ p \in P
    BY <1>2, <1>5 DEF Lead
  <2>2. CASE kind = "payment"
    BY <1>1, <1>2, <2>1, <2>2
  <2>3. CASE kind = "checkout" /\ C = {}
    BY <1>1, <1>2, <2>3
  <2>4. CASE kind = "checkout" /\ C # {}
    <3>1. c \in C /\ c # 0 /\ p # 0
      BY <1>2, <2>1, <2>4
    <3>2. PairingKey("checkout", c) = PairingKey("payment", p)
      <4>1. PairsAreLinked /\ PairsReady
        BY DEF DecidesInv, PairingInv, PairsReady, AfterMatch
      <4> QED
        BY <3>1, <4>1 DEF PairsAreLinked, Kinds
    <3>3. Keyed("checkout")
      <4>1. TwoSided
        BY <1>5, <2>4 DEF TwoSided, Kinds
      <4> QED
        BY <4>1 DEF DecidesInv, DecisionInv, KeysInv, AfterCollect
    <3>4. \A k \in C : Joined("checkout", k, "payment", p) <=> k = c
      BY <3>1, <3>2, <3>3 DEF Joined, Keyed
    <3>5. \A k \in C : Promise!Linked(l2, k, p) <=> k = c
      BY <1>2, <2>1, <3>4, LinkedIsJoined
    <3> QED
      BY <1>1, <1>3, <2>1, <2>4, <3>1, <3>5
  <2> QED
    BY <2>2, <2>3, <2>4 DEF Kinds
<1> QED
  BY <1>4, <1>5

------------------------------------------------------------------------------
(* The rules on Layers 1 and 2 and those on Layer 3, as the stages check them. *)

LEMMA EntryRules ==
    ASSUME call \in Arguments
    PROVE  Promise!Issued(call, now) /\ Promise!Signed(call, now)
           <=> L1OK(call, now) /\ L2OK(call, now) /\ RefsDistinct(Len(l2.jwt.delegates) + 1)
<1>1. Promise!Issued(call, now) <=>
        /\ call.l1.jwt.formed /\ Live(call.l1.jwt, now)
        /\ IF call.issuer_key # Absent THEN call.l1.jwt.signer = call.issuer_key ELSE call.skip_issuer
  BY SameTimes DEF Promise!Issued
<1>2. Promise!Signed(call, now) <=>
        /\ call.l2.jwt.formed /\ Live(call.l2.jwt, now)
        /\ call.l2.jwt.signer # Absent /\ call.l2.jwt.signer = call.l1.jwt.key
        /\ call.l2.jwt.sd_hash = FirstOf(<<call.l1_serialized, call.l1>>)
        /\ AsExpected(call.expected_l2, call.l2.jwt)
        /\ RefsDistinct(Len(l2.jwt.delegates) + 1)
  <2>1. \A j \in DOMAIN l2.jwt.delegates : j < Len(l2.jwt.delegates) + 1
    BY DisclosedArePositions
  <2>2. RefsDistinct(Len(l2.jwt.delegates) + 1) <=>
          \A j, k \in DOMAIN call.l2.jwt.delegates :
            Promise!Ref(call.l2, j) = Promise!Ref(call.l2, k) =>
                j = k \/ Promise!Ref(call.l2, j) = Absent
    BY <2>1, SameRef DEF RefsDistinct, l2
  <2>3. FirstOf(<<call.l1_serialized, call.l1>>) =
          IF call.l1_serialized = Absent THEN call.l1 ELSE call.l1_serialized
    BY FirstOfTwoIs
  <2> QED
    BY <2>2, <2>3, SameTimes, SameAudience DEF Promise!Signed
<1>3. /\ L1OK(call, now) <=>
          /\ IF call.issuer_key # Absent THEN call.l1.jwt.signer = call.issuer_key ELSE call.skip_issuer
          /\ call.l1.jwt.formed /\ Live(call.l1.jwt, now) /\ call.l1.jwt.key # Absent
      /\ L2OK(call, now) <=>
          /\ call.l2.jwt.signer = call.l1.jwt.key
          /\ call.l2.jwt.sd_hash = FirstOf(<<call.l1_serialized, call.l1>>)
          /\ call.l2.jwt.formed /\ Live(call.l2.jwt, now)
          /\ AsExpected(call.expected_l2, call.l2.jwt)
  BY DEF L1OK, L2OK
<1> QED
  BY <1>1, <1>2, <1>3

\* The presentation a Layer 3 credential must be bound to.
LEMMA BoundIsFirstView ==
    ASSUME call \in Arguments, NEW n, NEW kind
    PROVE  LET views == <<call.l3s[n].serialized[kind], call.serialized[kind], call.l2_serialized, call.l2>>
           IN  Bound(call, n, kind) =
               views[CHOOSE m \in 1..4 : views[m] # Absent /\ \A j \in 1..(m - 1) : views[j] = Absent]
<1>1. call.l2 # Absent
  BY AbsentIsNoPresentation DEF Arguments
<1> QED
  BY <1>1, FirstOfFourIs DEF Bound

LEMMA FulfilsIsL3OK ==
    ASSUME DecidesInv, pc \in AfterMatch, autonomous, NEW n \in DOMAIN pairs, NEW kind \in Kinds
    PROVE  Promise!Fulfils(call, now, n, kind, agent.key, agent.kid)
           <=> L3OK(n, kind, l3s[n].l3[kind])
<1> DEFINE l3 == call.l3s[n].l3[kind]
           view == Bound(call, n, kind)
           p == pairs[n]["payment"]
           k == pairs[n][kind]
<1>1. call \in Arguments
  BY FinalPairs
<1>2. Promise!Fulfils(call, now, n, kind, agent.key, agent.kid) <=>
        /\ l3.signer = agent.key /\ l3.formed /\ ~l3.cnf
        /\ l3.kid # Absent /\ agent.kid \in {Absent, l3.kid}
        /\ Live(l3, now) /\ ~LongLived(l3)
        /\ AsExpected(call.expected_l3[kind], l3)
        /\ l3.sd_hash = view
        /\ \A x \in Promise!OfPair(l2, n, kind) : Ref(l2, x) \in Range(view.discs) \cup {Absent}
        /\ {m \in Range(l3.mandates) : m.kind = kind} # {}
        /\ \A m \in Range(l3.mandates) : m.kind \in Kinds => m.complete
        /\ \A m \in Range(l3.mandates) : \A x \in Promise!OfPair(l2, n, "payment") :
             m.kind = "payment" => m.instrument = MandateAt(l2, x).instrument
  <2> DEFINE views == <<call.l3s[n].serialized[kind], call.serialized[kind], call.l2_serialized, call.l2>>
             first == CHOOSE m \in 1..4 : views[m] # Absent /\ \A j \in 1..(m - 1) : views[j] = Absent
  <2>1. Promise!Fulfils(call, now, n, kind, agent.key, agent.kid) <=>
          /\ l3.signer = agent.key /\ l3.formed /\ ~l3.cnf
          /\ l3.kid # Absent /\ agent.kid \in {Absent, l3.kid}
          /\ Promise!Live(l3, now) /\ ~Promise!LongLived(l3)
          /\ Promise!HeardAs(call.expected_l3[kind], l3)
          /\ l3.sd_hash = views[first]
          /\ \A x \in Promise!OfPair(call.l2, n, kind) :
               Promise!Ref(call.l2, x) \in Promise!Range(views[first].discs) \cup {Absent}
          /\ {m \in Promise!Range(l3.mandates) : m.kind = kind} # {}
          /\ \A m \in Promise!Range(l3.mandates) : m.kind \in Promise!Kinds => m.complete
          /\ \A m \in Promise!Range(l3.mandates) : \A x \in Promise!OfPair(call.l2, n, "payment") :
               m.kind = "payment" => m.instrument = Promise!MandateAt(call.l2, x).instrument
    BY DEF Promise!Fulfils
  <2>2. view = views[first]
    BY <1>1, BoundIsFirstView
  <2> HIDE DEF views, first, view, l3
  <2> QED
    BY <2>1, <2>2, SameTimes, SameAudience, SameRange, SameRef, SameMandate, SameKinds DEF l2
<1>3. Promise!OfPair(l2, n, kind) = IF k = 0 THEN {} ELSE {k}
  BY SamePair
<1>4. Promise!OfPair(l2, n, "payment") = IF p = 0 THEN {} ELSE {p}
  BY SamePair DEF Kinds
<1>5. (\A x \in Promise!OfPair(l2, n, kind) : Ref(l2, x) \in Range(view.discs) \cup {Absent})
      <=> IdentityBound(n, kind)
  BY <1>3 DEF IdentityBound
<1>6. /\ {m \in Range(l3.mandates) : m.kind = kind} # {}
      /\ \A m \in Range(l3.mandates) : m.kind \in Kinds => m.complete
      /\ \A m \in Range(l3.mandates) : \A x \in Promise!OfPair(l2, n, "payment") :
           m.kind = "payment" => m.instrument = MandateAt(l2, x).instrument
      <=> MandatesOK(n, kind, l3)
  BY <1>4 DEF MandatesOK
<1>7. L3OK(n, kind, l3) <=>
        /\ ~l3.cnf /\ l3.signer = agent.key /\ l3.formed /\ l3.sd_hash = view
        /\ IdentityBound(n, kind)
        /\ Live(l3, now) /\ ~LongLived(l3)
        /\ AsExpected(call.expected_l3[kind], l3)
        /\ l3.kid # Absent /\ (agent.kid # Absent => l3.kid = agent.kid)
        /\ MandatesOK(n, kind, l3)
  BY DEF L3OK
<1>8. l3s[n].l3[kind] = l3
  BY DEF l3s
<1> HIDE DEF l3, view
<1> QED
  BY <1>2, <1>5, <1>6, <1>7, <1>8

LEMMA PairedIsShown ==
    ASSUME DecidesInv, pc \in AfterMatch
    PROVE  Paired = Promise!Shown(l2) /\ Promise!Shown(l2) # {}
<1>1. Promise!Shown(l2) = Disclosed(l2, "checkout") \cup Disclosed(l2, "payment")
  BY SameShown DEF Promise!Shown
<1>2. Promise!Shown(l2) # {}
  BY <1>1, FinalPairs DEF Kinds
<1>3. \A k \in Paired : k \in Promise!Shown(l2)
  BY <1>1, FinalPairs DEF Paired, Matched, Kinds
<1>4. ASSUME NEW kind \in Kinds, NEW k \in Disclosed(l2, kind) PROVE k \in Paired
  <2>1. k # 0
    BY FinalPairs, DisclosedMandate
  <2>2. \E n \in DOMAIN pairs : pairs[n][kind] = k
    BY FinalPairs
  <2> QED
    BY <2>1, <2>2 DEF Paired, Matched
<1> QED
  BY <1>1, <1>2, <1>3, <1>4 DEF Kinds

\* There is one agent the mandates delegate to, if any.
LEMMA OneAgent ==
    ASSUME DecidesInv, pc \in AfterMatch, NEW a, NEW b, Delegates(a), Delegates(b)
    PROVE  a.key = b.key /\ a.kid = b.kid
BY PairedIsShown DEF Delegates

\* ChainSpec looks for the agent among the mandates shown, the code among the pairs.
LEMMA AgentRule ==
    ASSUME DecidesInv, pc \in AfterMatch, NEW key, NEW kid
    PROVE  Delegates([key |-> key, kid |-> kid]) <=>
           /\ \A k \in Promise!Shown(l2) : /\ Promise!MandateAt(l2, k).key = key
                                           /\ Promise!MandateAt(l2, k).kid \in {Absent, kid}
           /\ kid # Absent => \E k \in Promise!Shown(l2) : Promise!MandateAt(l2, k).kid = kid
BY PairedIsShown, SameMandate DEF Delegates

------------------------------------------------------------------------------
(* What is authorised, no stage rejects. *)

LEMMA ShownIsDisclosed ==
    Promise!Shown(call.l2) = UNION {Disclosed(l2, kind) : kind \in Kinds}
BY SameShown DEF Promise!Shown, Kinds, l2

LEMMA GivenIsL3Args == Promise!Given(call) = L3Args /\ (L3Given <=> L3Args # {})
<1>1. Promise!Given(call) = L3Args
  BY SameKinds DEF Promise!Given, L3Args, l3s
<1>2. L3Given => L3Args # {}
  <2> SUFFICES ASSUME NEW n \in DOMAIN l3s, NEW kind \in Kinds, l3s[n].l3[kind] # Absent
               PROVE  L3Args # {}
    BY DEF L3Given
  <2>1. <<n, kind>> \in L3Args
    BY DEF L3Args
  <2> QED
    BY <2>1
<1>3. L3Args # {} => L3Given
  BY DEF L3Given, L3Args
<1> QED
  BY <1>1, <1>2, <1>3

LEMMA AuthorizedMode ==
    ASSUME call \in Arguments, Promise!Authorized(call, now)
    PROVE  /\ ~(Has(TRUE) /\ Has(FALSE))
           /\ l2.jwt.typ = IF Has(TRUE) THEN "kb-sd-jwt+kb" ELSE "kb-sd-jwt"
           /\ Has(TRUE) \/ ~L3Given
           /\ Has(TRUE) => Promise!OpenAuthorized(call, now)
           /\ ~Has(TRUE) => Promise!FinalAuthorized(call)
<1>1. \A k \in Promise!Shown(call.l2) : MandateAt(l2, k).open \in BOOLEAN
  BY ShownIsDisclosed, DisclosedMandate DEF Mandate
<1>2. PICK shown \in Promise!Shown(call.l2) : TRUE
  BY DEF Promise!Authorized, Promise!Usable
<1>3. CASE Promise!OpenAuthorized(call, now)
  <2>1. \A k \in Promise!Shown(call.l2) : MandateAt(l2, k).open = TRUE
    BY <1>1, <1>3, SameMandate DEF Promise!OpenAuthorized, l2
  <2>2. ~Has(FALSE)
    BY <2>1, ShownIsDisclosed DEF Has
  <2>3. Has(TRUE)
    BY <1>2, <2>1, ShownIsDisclosed DEF Has
  <2> QED
    BY <1>3, <2>2, <2>3 DEF Promise!OpenAuthorized, l2
<1>4. CASE Promise!FinalAuthorized(call)
  <2>1. \A k \in Promise!Shown(call.l2) : MandateAt(l2, k).open = FALSE
    BY <1>1, <1>4, SameMandate DEF Promise!FinalAuthorized, l2
  <2>2. ~Has(TRUE)
    BY <2>1, ShownIsDisclosed DEF Has
  <2>3. ~L3Given
    BY <1>4, GivenIsL3Args DEF Promise!FinalAuthorized
  <2> QED
    BY <1>4, <2>2, <2>3 DEF Promise!FinalAuthorized, l2
<1> QED
  BY <1>3, <1>4 DEF Promise!Authorized

\* Until the credentials have passed the entry checks.
LEMMA EntryPasses ==
    ASSUME DecidesInv, Promise!Authorized(call, now),
           CheckL1 \/ CheckL2 \/ InferMode \/ RejectDuplicate
    PROVE  pc' # "rejected"
<1>1. call \in Arguments
  BY DEF CheckL1, CheckL2, InferMode, RejectDuplicate, DecidesInv, TypeInv, TypeOK
<1>2. L1OK(call, now) /\ L2OK(call, now) /\ RefsDistinct(Len(l2.jwt.delegates) + 1)
  BY <1>1, EntryRules DEF Promise!Authorized
<1>3. CASE CheckL1 \/ CheckL2
  BY <1>2, <1>3 DEF CheckL1, CheckL2, Continue
<1>4. CASE InferMode
  BY <1>1, <1>4, AuthorizedMode DEF InferMode, Continue
<1>5. CASE RejectDuplicate
  <2>1. /\ pc = "collect" /\ pos \in DOMAIN l2.jwt.delegates /\ Ref(l2, pos) # Absent
    BY <1>5 DEF RejectDuplicate, SeenBefore
  <2>2. PICK m \in 1..(pos - 1) : Ref(l2, m) = Ref(l2, pos)
    BY <1>5 DEF RejectDuplicate, SeenBefore
  <2>3. /\ m \in DOMAIN l2.jwt.delegates /\ m # pos
        /\ m < Len(l2.jwt.delegates) + 1 /\ pos < Len(l2.jwt.delegates) + 1
    BY <2>1, <2>2, CollectBounds DEF DecidesInv
  <2> QED
    BY <1>2, <2>1, <2>2, <2>3 DEF RefsDistinct
<1> QED
  BY <1>3, <1>4, <1>5

\* The rules on mandates, in the terms of the stages that check them.
LEMMA AuthorizedMandates ==
    ASSUME DecidesInv, pc \in PastMode, Promise!Authorized(call, now)
    PROVE  /\ ModeInferred
           /\ RefsDistinct(Len(l2.jwt.delegates) + 1)
           /\ \E kind \in Kinds : Disclosed(l2, kind) # {}
           /\ \A kind \in Kinds : \A k \in Disclosed(l2, kind) : MandateAt(l2, k).complete
           /\ \A k \in Disclosed(l2, "payment") : MandateAt(l2, k).instrument # Absent
           /\ call.l1.jwt.card # Absent =>
                /\ Disclosed(l2, "payment") # {}
                /\ \A k \in Disclosed(l2, "payment") : MandateAt(l2, k).instrument = call.l1.jwt.card
           /\ TwoSided => OneForOne
           /\ IF autonomous THEN Promise!OpenAuthorized(call, now)
              ELSE /\ TwoSided
                   /\ \A kind \in Kinds : \A k \in Disclosed(l2, kind) : MandateAt(l2, k).key = Absent
                   /\ \A k \in Disclosed(l2, "checkout") : MandateAt(l2, k).content = MandateAt(l2, k).link
<1>1. call \in Arguments /\ autonomous \in BOOLEAN
  <2>1. TypeOK /\ pc # "idle"
    BY DEF DecidesInv, TypeInv, PastMode, PastL2, PastL1, Stages
  <2>2. call \in Arguments /\ LocalsTyped
    BY <2>1 DEF TypeOK
  <2> QED
    BY <2>2, Zenon DEF LocalsTyped
<1>2. (autonomous <=> Has(TRUE)) /\ ~(Has(TRUE) /\ Has(FALSE))
  BY DEF DecidesInv, TrustInv, ModeInv
<1>3. ModeInferred
  BY <1>1, <1>2 DEF ModeInferred
<1>4. RefsDistinct(Len(l2.jwt.delegates) + 1)
  BY <1>1, EntryRules DEF Promise!Authorized
<1>5. /\ \E kind \in Kinds : Disclosed(l2, kind) # {}
      /\ \A kind \in Kinds : \A k \in Disclosed(l2, kind) : MandateAt(l2, k).complete
      /\ \A k \in Disclosed(l2, "payment") : MandateAt(l2, k).instrument # Absent
      /\ call.l1.jwt.card # Absent =>
           /\ Disclosed(l2, "payment") # {}
           /\ \A k \in Disclosed(l2, "payment") : MandateAt(l2, k).instrument = call.l1.jwt.card
  <2>1. Promise!Usable(call) /\ Promise!CardNamed(call)
    BY DEF Promise!Authorized, Promise!Usable
  <2> QED
    BY <2>1, ShownIsDisclosed, SameMandate, SameShown DEF Promise!Usable, Promise!CardNamed, l2
<1>6. CASE autonomous
  <2>1. Promise!OpenAuthorized(call, now)
    BY <1>1, <1>2, <1>6, AuthorizedMode
  <2>2. TwoSided => Promise!Matching(l2)
    BY <2>1, SameShown, SameKinds DEF Promise!OpenAuthorized, TwoSided, l2
  <2> QED
    BY <1>3, <1>4, <1>5, <1>6, <2>1, <2>2, MatchingIsOneForOne
<1>7. CASE ~autonomous
  <2>1. Promise!FinalAuthorized(call)
    BY <1>1, <1>2, <1>7, AuthorizedMode
  <2>2. OneForOne
    BY <1>3, <2>1, MatchingIsOneForOne DEF Promise!FinalAuthorized, l2
  <2>3. TwoSided
    BY <1>5, <2>2 DEF OneForOne, TwoSided, Kinds
  <2>4. /\ \A kind \in Kinds : \A k \in Disclosed(l2, kind) : MandateAt(l2, k).key = Absent
        /\ \A k \in Disclosed(l2, "checkout") : MandateAt(l2, k).content = MandateAt(l2, k).link
    BY <2>1, ShownIsDisclosed, SameMandate, SameShown DEF Promise!FinalAuthorized, l2
  <2> QED
    BY <1>3, <1>4, <1>5, <1>7, <2>2, <2>3, <2>4
<1> QED
  BY <1>6, <1>7

\* A matching gives every mandate a key, and no two of a kind the same.
LEMMA MatchedAreKeyed ==
    ASSUME ModeInferred, OneForOne, NEW kind \in Kinds
    PROVE  Keyed(kind)
<1>1. PICK other \in Kinds : kind # other
  BY DEF Kinds
<1> SUFFICES ASSUME NEW j \in Disclosed(l2, kind), NEW k \in Disclosed(l2, kind)
             PROVE  /\ PairingKey(kind, k) # Absent
                    /\ PairingKey(kind, j) = PairingKey(kind, k) => j = k
  BY DEF Keyed
<1>2. PICK m \in Disclosed(l2, other) : Joined(kind, k, other, m)
  BY <1>1 DEF OneForOne
<1>3. PICK only \in Disclosed(l2, kind) : \A x \in Disclosed(l2, kind) : Joined(other, m, kind, x) <=> x = only
  BY <1>1 DEF OneForOne
<1>4. \A x \in Disclosed(l2, kind) : PairingKey(kind, x) = PairingKey(kind, k) => x = only
  BY <1>2, <1>3 DEF Joined
<1> QED
  BY <1>2, <1>4 DEF Joined

LEMMA CollectPasses ==
    ASSUME DecidesInv, Promise!Authorized(call, now), IndexMandates \/ OneSidedPairs
    PROVE  pc' # "rejected"
<1>1. /\ pc = "collect" /\ pos \notin DOMAIN l2.jwt.delegates
      /\ pc \in PastMode
  BY DEF IndexMandates, OneSidedPairs, PastMode, PastL2, PastL1, Stages
<1>2. \A kind \in Kinds : Range(found[kind]) = Disclosed(l2, kind) /\ IsInjective(found[kind])
  BY <1>1, AllCollected DEF DecidesInv, Enumerates
<1>3. \A kind \in Kinds : found[kind] = <<>> <=> Disclosed(l2, kind) = {}
  <2> SUFFICES ASSUME NEW kind \in Kinds PROVE found[kind] = <<>> <=> Disclosed(l2, kind) = {}
    OBVIOUS
  <2>1. found[kind] \in Seq(Nat \ {0})
    BY DEF DecidesInv, TypeInv, TypeOK, LocalsTyped
  <2>2. found[kind] # <<>> => 1 \in DOMAIN found[kind]
    BY <2>1
  <2> QED
    BY <1>2, <2>2 DEF Range
<1>4. CASE IndexMandates
  <2>1. TwoSided
    BY <1>3, <1>4 DEF IndexMandates, TwoSided
  <2>2. \A kind \in Kinds : Keyed(kind)
    BY <1>1, <2>1, AuthorizedMandates, MatchedAreKeyed
  <2>3. ASSUME NEW kind \in Kinds PROVE KeysDistinct(kind)
    <3>1. \A m \in DOMAIN found[kind] : found[kind][m] \in Disclosed(l2, kind)
      BY <1>2 DEF Range
    <3> QED
      BY <1>2, <2>2, <3>1 DEF KeysDistinct, Keyed, IsInjective
  <2> QED
    BY <1>4, <2>3 DEF IndexMandates, Indexed, Continue, Kinds
<1>5. CASE OneSidedPairs
  <2>1. PICK kind \in Kinds :
          /\ \A other \in Kinds \ {kind} : found[other] = <<>>
          /\ pairs' = [n \in DOMAIN found[kind] |-> [NoPair EXCEPT ![kind] = found[kind][n]]]
    BY <1>5 DEF OneSidedPairs
  <2>2. ~TwoSided
    BY <1>3, <2>1 DEF TwoSided, Kinds
  <2>3. autonomous
    BY <1>1, <2>2, AuthorizedMandates
  <2>4. found[kind] # <<>>
    BY <1>1, <1>3, <2>1, AuthorizedMandates
  <2>5. pairs' # <<>>
    <3>1. found[kind] \in Seq(Nat \ {0})
      BY DEF DecidesInv, TypeInv, TypeOK, LocalsTyped
    <3>2. 1 \in DOMAIN found[kind] /\ DOMAIN pairs' = DOMAIN found[kind]
      BY <2>1, <2>4, <3>1
    <3> QED
      BY <3>2
  <2> QED
    BY <1>5, <2>3, <2>5 DEF OneSidedPairs, Continue
<1> QED
  BY <1>4, <1>5

\* What is paired so far: the first drivers, each joined to its partner.
LEMMA PartnersSoFar ==
    ASSUME DecidesInv, pc = "match", Promise!Authorized(call, now)
    PROVE  /\ OneForOne /\ call \in Arguments
           /\ \A kind \in Kinds : found[kind] \in Seq(Nat \ {0}) /\ Range(found[kind]) = Disclosed(l2, kind)
                                  /\ IsInjective(found[kind])
           /\ pairs \in Seq([Kinds -> Nat]) /\ Len(pairs) <= Len(found[Driver])
           /\ DOMAIN pairs \subseteq DOMAIN found[Driver]
           /\ \A n \in DOMAIN pairs :
                /\ pairs[n][Other] \in Disclosed(l2, Other)
                /\ Joined(Driver, found[Driver][n], Other, pairs[n][Other])
<1>1. Matching /\ TwoSided
  BY DEF DecidesInv, PairingInv, DecisionInv, KeysInv, AfterCollect
<1>2. pc \in PastMode
  BY DEF PastMode, PastL2, PastL1, Stages
<1>3. ModeInferred /\ OneForOne
  BY <1>1, <1>2, AuthorizedMandates
<1>4. \A kind \in Kinds : found[kind] \in Seq(Nat \ {0}) /\ Range(found[kind]) = Disclosed(l2, kind)
                          /\ IsInjective(found[kind])
  BY <1>1 DEF Matching, Enumerates, DecidesInv, TypeInv, TypeOK, LocalsTyped
<1>5. pairs \in Seq([Kinds -> Nat]) /\ Len(pairs) <= Len(found[Driver])
  BY <1>1 DEF Matching, DecidesInv, TypeInv, TypeOK, LocalsTyped
<1>6. DOMAIN pairs \subseteq DOMAIN found[Driver]
  <2>1. found[Driver] \in Seq(Nat \ {0})
    BY <1>4, TwoSides
  <2> QED
    BY <1>5, <2>1
<1>7. ASSUME NEW n \in DOMAIN pairs
      PROVE  /\ pairs[n][Other] \in Disclosed(l2, Other)
             /\ Joined(Driver, found[Driver][n], Other, pairs[n][Other])
  <2>1. /\ pairs[n][Driver] = found[Driver][n]
        /\ pairs[n][Other] \in Range(found[Other])
        /\ PairingKey(Other, pairs[n][Other]) = PairingKey(Driver, pairs[n][Driver])
    BY <1>1 DEF Matching
  <2>2. found[Driver][n] \in Disclosed(l2, Driver)
    BY <1>4, <1>6, TwoSides DEF Range
  <2>3. Keyed(Driver)
    BY <1>3, MatchedAreKeyed, TwoSides
  <2> QED
    BY <1>4, <2>1, <2>2, <2>3, TwoSides DEF Joined, Keyed
<1> QED
  BY <1>3, <1>4, <1>5, <1>6, <1>7 DEF ModeInferred

LEMMA MatchPasses ==
    ASSUME DecidesInv, Promise!Authorized(call, now), RejectUnmatched \/ RejectOrphans
    PROVE  pc' # "rejected"
<1>1. pc = "match"
  BY DEF RejectUnmatched, RejectOrphans
<1>2. CASE RejectUnmatched
  <2> DEFINE last == Len(pairs) + 1
  <2>1. Len(pairs) \in Nat /\ DOMAIN pairs = 1..Len(pairs) /\ last \in DOMAIN found[Driver]
    <3>1. found[Driver] \in Seq(Nat \ {0}) /\ pairs \in Seq([Kinds -> Nat])
      BY <1>1, PartnersSoFar, TwoSides
    <3> QED
      BY <1>2, <3>1 DEF RejectUnmatched
  <2>2. Current \in Disclosed(l2, Driver) /\ Current = found[Driver][last]
    BY <1>1, <2>1, PartnersSoFar, TwoSides DEF Current, Range
  <2>3. PICK m \in Disclosed(l2, Other) : Joined(Driver, Current, Other, m)
    BY <1>1, <2>2, PartnersSoFar, TwoSides DEF OneForOne
  <2>4. ASSUME NEW n \in DOMAIN pairs, pairs[n][Other] = m PROVE FALSE
    <3>1. PICK only \in Disclosed(l2, Driver) :
            \A x \in Disclosed(l2, Driver) : Joined(Other, m, Driver, x) <=> x = only
      BY <1>1, PartnersSoFar, TwoSides DEF OneForOne
    <3>2. Joined(Driver, found[Driver][n], Other, m) /\ found[Driver][n] \in Disclosed(l2, Driver)
      BY <1>1, <2>4, PartnersSoFar, TwoSides DEF Range
    <3>3. found[Driver][n] = only /\ Current = only
      BY <2>2, <2>3, <3>1, <3>2 DEF Joined
    <3>4. n = last
      BY <1>1, <2>1, <2>2, <3>3, PartnersSoFar, TwoSides DEF IsInjective
    <3> QED
      BY <2>1, <3>4
  <2>5. m \in Partners(Current)
    BY <1>1, <2>3, <2>4, PartnersSoFar, TwoSides DEF Partners, Matched, Joined
  <2> QED
    BY <1>2, <2>5 DEF RejectUnmatched
<1>3. CASE RejectOrphans
  <2>1. ASSUME NEW m \in Range(found[Other]) PROVE m \in Matched(Other)
    <3>1. m \in Disclosed(l2, Other)
      BY <1>1, <2>1, PartnersSoFar, TwoSides
    <3>2. PICK k \in Disclosed(l2, Driver) : Joined(Other, m, Driver, k)
      BY <1>1, <3>1, PartnersSoFar, TwoSides DEF OneForOne
    <3>3. PICK n \in DOMAIN found[Driver] : found[Driver][n] = k
      BY <1>1, <3>2, PartnersSoFar, TwoSides DEF Range
    <3>4. n \in DOMAIN pairs
      <4>1. found[Driver] \in Seq(Nat \ {0}) /\ pairs \in Seq([Kinds -> Nat])
        BY <1>1, PartnersSoFar, TwoSides
      <4> QED
        BY <1>3, <3>3, <4>1 DEF RejectOrphans
    <3>5. Joined(Driver, k, Other, pairs[n][Other]) /\ pairs[n][Other] \in Disclosed(l2, Other)
      BY <1>1, <3>3, <3>4, PartnersSoFar
    <3>6. PICK only \in Disclosed(l2, Other) :
            \A x \in Disclosed(l2, Other) : Joined(Driver, k, Other, x) <=> x = only
      BY <1>1, PartnersSoFar, TwoSides DEF OneForOne
    <3>7. pairs[n][Other] = m
      BY <3>1, <3>2, <3>5, <3>6 DEF Joined
    <3> QED
      BY <3>4, <3>7 DEF Matched
  <2> QED
    BY <1>3, <2>1 DEF RejectOrphans, Continue
<1> QED
  BY <1>2, <1>3

LEMMA MandatesPass ==
    ASSUME DecidesInv, Promise!Authorized(call, now), CheckMandates \/ CheckCard
    PROVE  pc' # "rejected"
<1>1. pc \in {"mandates", "card"} /\ pc \in AfterMatch /\ pc \in PastMode
  BY DEF CheckMandates, CheckCard, AfterMatch, PastMode, PastL2, PastL1, Stages
<1>2. CASE CheckMandates
  <2> SUFFICES ASSUME NEW n \in DOMAIN pairs PROVE PairOK(pairs[n])
    BY <1>2 DEF CheckMandates, Continue
  <2> DEFINE c == pairs[n]["checkout"]
             p == pairs[n]["payment"]
  <2>1. /\ IF c = 0 THEN Disclosed(l2, "checkout") = {} /\ autonomous ELSE c \in Disclosed(l2, "checkout")
        /\ IF p = 0 THEN Disclosed(l2, "payment") = {} /\ autonomous ELSE p \in Disclosed(l2, "payment")
    BY <1>1, FinalPairs DEF Kinds
  <2>2. Complete(c, p)
    BY <1>1, <2>1, AuthorizedMandates DEF Complete, Kinds
  <2>3. c # 0 /\ p # 0 => PairingKey("checkout", c) = PairingKey("payment", p)
    BY <1>1 DEF DecidesInv, PairingInv, PairsAreLinked, PairsReady, AfterMatch, Kinds
  <2>4. autonomous /\ c # 0 /\ p # 0 => ReferenceBound(c, p)
    BY <2>3 DEF ReferenceBound, PairingKey
  <2>5. ASSUME ~autonomous PROVE FinalPairOK(c, p)
    <3>1. c # 0 /\ p # 0
      BY <2>1, <2>5
    <3>2. MandateAt(l2, p).link = MandateAt(l2, c).link
      BY <2>3, <2>5, <3>1 DEF PairingKey
    <3>3. MandateAt(l2, c).link # Absent
      <4>1. Keyed("checkout")
        BY <1>1, <2>5, AuthorizedMandates, MatchedAreKeyed DEF Kinds
      <4> QED
        BY <2>1, <2>5, <4>1 DEF Keyed, PairingKey
    <3> QED
      BY <1>1, <2>1, <2>5, <3>1, <3>2, <3>3, AuthorizedMandates DEF FinalPairOK, HashBound, Kinds
  <2> QED
    BY <2>2, <2>4, <2>5 DEF PairOK
<1>3. CASE CheckCard
  <2>1. CardOK
    BY <1>1, AuthorizedMandates, FinalPairs DEF CardOK, Kinds
  <2> QED
    BY <1>3, <2>1 DEF CheckCard, Continue
<1> QED
  BY <1>2, <1>3

LEMMA AgentPasses ==
    ASSUME DecidesInv, Promise!Authorized(call, now), ExtractAgentKey \/ RejectAgentKey
    PROVE  pc' # "rejected"
<1>1. pc = "agent" /\ pc \in AfterMatch /\ pc \in PastMode
  BY DEF ExtractAgentKey, RejectAgentKey, AfterMatch, PastMode, PastL2, PastL1, Stages
<1>2. autonomous
  BY <1>1 DEF DecidesInv, TrustInv, AgentInv, Loop
<1>3. Promise!OpenAuthorized(call, now)
  BY <1>1, <1>2, AuthorizedMandates
<1>4. PICK key \in Keys, kid \in OrAbsent(Kids) :
        /\ \A k \in Promise!Shown(l2) : /\ Promise!MandateAt(l2, k).key = key
                                        /\ Promise!MandateAt(l2, k).kid \in {Absent, kid}
        /\ kid # Absent => \E k \in Promise!Shown(l2) : Promise!MandateAt(l2, k).kid = kid
  BY <1>3, SameOptional DEF Promise!OpenAuthorized, l2
<1>5. Delegates([key |-> key, kid |-> kid]) /\ [key |-> key, kid |-> kid] \in Agents
  BY <1>1, <1>4, AgentRule DEF Agents
<1>6. Len(l3s) \in {0, Len(pairs)}
  BY <1>1, <1>2, <1>3, PairsInOrder DEF Promise!OpenAuthorized, l2, l3s
<1>7. l3s \in Seq(SplitL3)
  BY <1>1, LoopRange DEF DecidesInv
<1> QED
  BY <1>5, <1>6, <1>7 DEF ExtractAgentKey, RejectAgentKey, Continue

\* The credentials a call brings are Layer 3 credentials.
LEMMA CredentialTyped ==
    ASSUME call \in Arguments, NEW n \in DOMAIN l3s, NEW kind \in Kinds, l3s[n].l3[kind] # Absent
    PROVE  l3s[n].l3[kind] \in L3Jwt /\ <<n, kind>> \in L3Args
<1>1. l3s \in Seq(SplitL3)
  BY DEF Arguments, l3s
<1>2. l3s[n] \in SplitL3
  BY <1>1
<1>3. l3s[n].l3[kind] \in OrAbsent(L3Jwt)
  BY <1>2 DEF SplitL3
<1> QED
  BY <1>3 DEF OrAbsent, L3Args

\* Comparing the leading links of the two credentials is comparing them as sets.
LEMMA CrossRule ==
    ASSUME call \in Arguments, NEW n \in DOMAIN l3s, BothGiven(n),
           \A kind \in Kinds : \E m \in Range(l3s[n].l3[kind].mandates) : m.kind = kind
    PROVE  Promise!Leads(l3s[n].l3["payment"], "payment") = Promise!Leads(l3s[n].l3["checkout"], "checkout")
           <=> CrossOK(n)
<1>1. \A kind \in Kinds : Promise!Leads(l3s[n].l3[kind], kind) = {FirstLink(l3s[n].l3[kind], kind)}
  BY CredentialTyped, LeadIsFirst DEF BothGiven
<1> QED
  BY <1>1 DEF CrossOK, Kinds

\* In the Layer 3 loop, an authorised call has every credential in order.
LEMMA AuthorizedL3 ==
    ASSUME DecidesInv, Promise!Authorized(call, now), pc \in Loop
    PROVE  /\ autonomous /\ call \in Arguments /\ i \in DOMAIN l3s
           /\ Promise!OpenAuthorized(call, now)
           /\ \A kind \in Kinds : l3s[i].l3[kind] # Absent => L3OK(i, kind, l3s[i].l3[kind])
<1>1. pc \in AfterMatch /\ pc \in PastMode /\ pc # "idle"
  BY DEF Loop, AfterMatch, PastMode, PastL2, PastL1, Stages
<1>2. autonomous /\ Delegates(agent)
  BY DEF DecidesInv, TrustInv, AgentInv
<1>3. Promise!OpenAuthorized(call, now)
  BY <1>1, <1>2, AuthorizedMandates
<1>4. i \in DOMAIN l3s /\ i \in DOMAIN pairs /\ call \in Arguments
  <2>1. LoopInBounds /\ l3s \in Seq(SplitL3) /\ call \in Arguments
    BY <1>1, LoopRange DEF DecidesInv, TypeInv, TypeOK
  <2>2. i \in DOMAIN l3s /\ Len(l3s) = Len(pairs)
    BY <2>1 DEF LoopInBounds, Loop, Kinds
  <2>3. DOMAIN l3s = 1..Len(l3s) /\ DOMAIN pairs = 1..Len(pairs)
    BY <1>1, <2>1, FinalPairs
  <2> QED
    BY <2>1, <2>2, <2>3
<1>5. ASSUME NEW kind \in Kinds, l3s[i].l3[kind] # Absent
      PROVE  L3OK(i, kind, l3s[i].l3[kind])
  <2>1. PICK key \in Keys, kid \in OrAbsent(Kids) :
          /\ \A k \in Promise!Shown(l2) : /\ Promise!MandateAt(l2, k).key = key
                                          /\ Promise!MandateAt(l2, k).kid \in {Absent, kid}
          /\ kid # Absent => \E k \in Promise!Shown(l2) : Promise!MandateAt(l2, k).kid = kid
          /\ \A arg \in Promise!Given(call) : Promise!Fulfils(call, now, arg[1], arg[2], key, kid)
    BY <1>3, SameOptional DEF Promise!OpenAuthorized, l2
  <2>2. Delegates([key |-> key, kid |-> kid])
    BY <1>1, <2>1, AgentRule
  <2>3. agent.key = key /\ agent.kid = kid
    BY <1>1, <1>2, <2>2, OneAgent
  <2>4. <<i, kind>> \in Promise!Given(call)
    BY <1>4, <1>5, CredentialTyped, GivenIsL3Args
  <2>5. Promise!Fulfils(call, now, i, kind, agent.key, agent.kid)
    BY <2>1, <2>3, <2>4
  <2> QED
    BY <1>1, <1>2, <1>4, <2>5, FulfilsIsL3OK
<1> QED
  BY <1>2, <1>3, <1>4, <1>5

LEMMA LoopPasses ==
    ASSUME DecidesInv, Promise!Authorized(call, now)
    PROVE  /\ \A kind \in Kinds : ~RejectL3(kind)
           /\ ~RejectCrossReference
<1>1. ASSUME NEW kind \in Kinds, RejectL3(kind) PROVE FALSE
  <2>1. pc \in Loop
    BY <1>1, LoopStages DEF RejectL3, Loop
  <2> QED
    BY <1>1, <2>1, AuthorizedL3 DEF RejectL3
<1>2. ASSUME RejectCrossReference PROVE FALSE
  <2>1. pc \in Loop /\ BothGiven(i) /\ ~CrossOK(i)
    BY <1>2 DEF RejectCrossReference, Loop
  <2>2. \A kind \in Kinds : \E m \in Range(l3s[i].l3[kind].mandates) : m.kind = kind
    BY <2>1, AuthorizedL3 DEF BothGiven, L3OK, MandatesOK
  <2>3. {i} \X Kinds \subseteq Promise!Given(call)
    <3>1. \A kind \in Kinds : <<i, kind>> \in Promise!Given(call)
      BY <2>1, AuthorizedL3, CredentialTyped, GivenIsL3Args DEF BothGiven
    <3> QED
      BY <3>1
  <2>4. Promise!Leads(l3s[i].l3["payment"], "payment") = Promise!Leads(l3s[i].l3["checkout"], "checkout")
    BY <2>1, <2>3, AuthorizedL3, SameKinds DEF Promise!OpenAuthorized, l3s
  <2> QED
    BY <2>1, <2>2, <2>4, AuthorizedL3, CrossRule
<1> QED
  BY <1>1, <1>2

------------------------------------------------------------------------------
(* What is accepted is authorised. *)

\* Final pairs are the one way to match what L2 discloses.
LEMMA PairsMatch == ASSUME DecidesInv, pc \in AfterMatch, TwoSided PROVE OneForOne
<1>1. Keyed("checkout")
  BY DEF DecidesInv, DecisionInv, KeysInv, AfterCollect
<1>2. \A n \in DOMAIN pairs : \A kind \in Kinds : pairs[n][kind] # 0 /\ pairs[n][kind] \in Disclosed(l2, kind)
  BY FinalPairs DEF TwoSided
<1>3. \A n \in DOMAIN pairs : \A kind, other \in Kinds :
        PairingKey(kind, pairs[n][kind]) = PairingKey(other, pairs[n][other])
  <2>1. PairsAreLinked /\ PairsReady
    BY DEF DecidesInv, PairingInv, PairsReady, AfterMatch
  <2> QED
    BY <1>2, <2>1 DEF PairsAreLinked
<1> SUFFICES ASSUME NEW kind \in Kinds, NEW other \in Kinds, kind # other, NEW k \in Disclosed(l2, kind)
             PROVE  \E m \in Disclosed(l2, other) :
                      \A x \in Disclosed(l2, other) : Joined(kind, k, other, x) <=> x = m
  BY DEF OneForOne
<1>4. PICK n \in DOMAIN pairs : \A m \in DOMAIN pairs : (pairs[m][kind] = k) <=> (m = n)
  BY FinalPairs
<1> DEFINE m == pairs[n][other]
<1>5. pairs[n][kind] = k /\ m \in Disclosed(l2, other)
  BY <1>2, <1>4
<1>6. Joined(kind, k, other, m)
  <2>1. PairingKey("checkout", pairs[n]["checkout"]) # Absent
    BY <1>1, <1>2 DEF Keyed, Kinds
  <2> QED
    BY <1>3, <1>5, <2>1 DEF Joined, Kinds
<1>7. ASSUME NEW x \in Disclosed(l2, other), Joined(kind, k, other, x) PROVE x = m
  <2>1. CASE other = "checkout"
    BY <1>1, <1>5, <1>6, <1>7, <2>1 DEF Joined, Keyed
  <2>2. CASE kind = "checkout"
    <3>1. PICK n2 \in DOMAIN pairs : pairs[n2][other] = x
      BY FinalPairs
    <3>2. PairingKey(kind, pairs[n2][kind]) = PairingKey(kind, k)
      BY <1>3, <1>7, <3>1 DEF Joined
    <3>3. pairs[n2][kind] = k
      BY <1>1, <1>2, <2>2, <3>2 DEF Keyed
    <3> QED
      BY <1>4, <3>1, <3>3
  <2> QED
    BY <2>1, <2>2 DEF Kinds
<1> QED
  BY <1>5, <1>6, <1>7

\* What the mandate checks left behind, pair by pair, mandate by mandate.
LEMMA AcceptedUsable ==
    ASSUME DecidesInv, Accepted
    PROVE  Promise!Usable(call)
<1>1. pc \in AfterMatch
  BY DEF Accepted, AfterMatch
<1>2. /\ \A n \in DOMAIN pairs : PairOK(pairs[n])
      /\ CardOK
  BY DEF Accepted, DecidesInv, TrustInv, MandatesInv, PastMandates, PastCard
<1>3. \A kind : 0 \notin Disclosed(l2, kind)
  BY <1>1, FinalPairs, DisclosedMandate
<1>4. ASSUME NEW kind \in Kinds, NEW k \in Disclosed(l2, kind)
      PROVE  /\ MandateAt(l2, k).complete
             /\ kind = "payment" => MandateAt(l2, k).instrument # Absent
             /\ kind = "payment" => MandateAt(l2, k).instrument = call.l1.jwt.card \/ call.l1.jwt.card = Absent
  <2>1. PICK n \in DOMAIN pairs : pairs[n][kind] = k
    BY <1>1, FinalPairs
  <2>2. Complete(pairs[n]["checkout"], pairs[n]["payment"])
    BY <1>2 DEF PairOK
  <2> QED
    BY <1>2, <1>3, <2>1, <2>2 DEF Complete, CardOK, Kinds
<1>5. call.l1.jwt.card # Absent => Disclosed(l2, "payment") # {}
  <2>1. PICK n \in DOMAIN pairs : TRUE
    BY <1>1, FinalPairs
  <2> QED
    BY <1>1, <1>2, <2>1, FinalPairs DEF CardOK, Kinds
<1>6. Promise!CardNamed(call)
  BY <1>4, <1>5, SameShown, SameMandate DEF Promise!CardNamed, Kinds, l2
<1>7. \A k \in Promise!Shown(call.l2) : Promise!MandateAt(call.l2, k).complete
  BY <1>4, ShownIsDisclosed, SameMandate DEF l2
<1>8. \A k \in Promise!Disclosed(call.l2, "payment") : Promise!MandateAt(call.l2, k).instrument # Absent
  BY <1>4, SameShown, SameMandate DEF Kinds, l2
<1>9. Promise!Shown(call.l2) # {}
  BY <1>1, PairedIsShown DEF l2
<1> QED
  BY <1>6, <1>7, <1>8, <1>9 DEF Promise!Usable

LEMMA AcceptedFinal ==
    ASSUME DecidesInv, Accepted, ~autonomous
    PROVE  Promise!FinalAuthorized(call)
<1>1. pc \in AfterMatch /\ pc \in PastMode
  BY DEF Accepted, AfterMatch, PastMode, PastL2, PastL1
<1>2. TwoSided
  BY <1>1 DEF DecidesInv, DecisionInv, KeysInv, AfterCollect
<1>3. Promise!Matching(l2)
  BY <1>1, <1>2, FinalPairs, PairsMatch, MatchingIsOneForOne
<1>4. \A n \in DOMAIN pairs : FinalPairOK(pairs[n]["checkout"], pairs[n]["payment"])
  BY DEF Accepted, DecidesInv, TrustInv, MandatesInv, PastMandates, PairOK
<1>5. ASSUME NEW kind \in Kinds, NEW k \in Disclosed(l2, kind)
      PROVE  /\ ~MandateAt(l2, k).open /\ MandateAt(l2, k).key = Absent
             /\ kind = "checkout" => MandateAt(l2, k).content = MandateAt(l2, k).link
  <2>1. PICK n \in DOMAIN pairs : pairs[n][kind] = k
    BY <1>1, FinalPairs
  <2>2. ~MandateAt(l2, k).open
    BY <1>1, FinalPairs, OneModeShown
  <2> QED
    BY <1>4, <2>1, <2>2 DEF FinalPairOK, HashBound, Kinds
<1>6. Promise!Given(call) = {}
  BY <1>1, GivenIsL3Args DEF DecidesInv, TrustInv, ModeInv
<1>7. call.l2.jwt.typ = "kb-sd-jwt"
  BY <1>1 DEF DecidesInv, DecisionInv, EntryInv, l2
<1>8. \A k \in Promise!Shown(call.l2) :
        ~Promise!MandateAt(call.l2, k).open /\ Promise!MandateAt(call.l2, k).key = Absent
  BY <1>5, ShownIsDisclosed, SameMandate DEF l2
<1>9. \A k \in Promise!Disclosed(call.l2, "checkout") :
        Promise!MandateAt(call.l2, k).content = Promise!MandateAt(call.l2, k).link
  BY <1>5, SameShown, SameMandate DEF Kinds, l2
<1> QED
  BY <1>3, <1>6, <1>7, <1>8, <1>9 DEF Promise!FinalAuthorized, l2

LEMMA AcceptedOpen ==
    ASSUME DecidesInv, Accepted, autonomous
    PROVE  Promise!OpenAuthorized(call, now)
<1>1. pc \in AfterMatch /\ pc \in PastMode /\ call \in Arguments /\ ModeInferred
  BY FinalPairs DEF Accepted, AfterMatch, PastMode, PastL2, PastL1
<1>2. call.l2.jwt.typ = "kb-sd-jwt+kb"
  BY <1>1 DEF DecidesInv, DecisionInv, EntryInv, l2
<1>3. \A k \in Promise!Shown(call.l2) : Promise!MandateAt(call.l2, k).open
  BY <1>1, OneModeShown, ShownIsDisclosed, SameMandate DEF l2
<1>4. (\A kind \in Promise!Kinds : Promise!Disclosed(call.l2, kind) # {}) => Promise!Matching(call.l2)
  <2>1. TwoSided => Promise!Matching(l2)
    BY <1>1, PairsMatch, MatchingIsOneForOne
  <2> QED
    BY <2>1, SameKinds, SameShown DEF TwoSided, l2
<1>5. Delegates(agent) /\ agent.key \in Keys /\ (l3s = <<>> \/ Len(l3s) = Len(pairs))
  BY DEF Accepted, DecidesInv, TrustInv, AgentInv
<1>6. Len(call.l3s) \in {0, Promise!Cardinality(Promise!Order(call.l2))}
  BY <1>1, <1>5, PairsInOrder DEF l2, l3s
<1>7. agent.kid \in Promise!OrAbsent(Kids) /\ agent = [key |-> agent.key, kid |-> agent.kid]
  <2>1. agent \in [key: OrAbsent(Keys), kid: OrAbsent(Kids)]
    BY DEF DecidesInv, TypeInv, TypeOK, LocalsTyped
  <2> QED
    BY <2>1, SameOptional
<1>8. /\ \A k \in Promise!Shown(call.l2) :
           /\ Promise!MandateAt(call.l2, k).key = agent.key
           /\ Promise!MandateAt(call.l2, k).kid \in {Absent, agent.kid}
      /\ agent.kid # Absent => \E k \in Promise!Shown(call.l2) : Promise!MandateAt(call.l2, k).kid = agent.kid
  BY <1>1, <1>5, <1>7, AgentRule DEF l2
<1>9. \A arg \in Promise!Given(call) :
        Promise!Fulfils(call, now, arg[1], arg[2], agent.key, agent.kid)
  BY <1>1, AcceptedL3, FulfilsIsL3OK, GivenIsL3Args DEF DecidesInv
<1>10. ASSUME NEW n \in DOMAIN call.l3s, {n} \X Promise!Kinds \subseteq Promise!Given(call)
       PROVE  Promise!Leads(call.l3s[n].l3["payment"], "payment")
              = Promise!Leads(call.l3s[n].l3["checkout"], "checkout")
  <2>1. \A kind \in Kinds : <<n, kind>> \in L3Args
    BY <1>10, SameKinds, GivenIsL3Args
  <2>2. BothGiven(n) /\ n \in DOMAIN l3s
    BY <2>1 DEF BothGiven, L3Args, l3s
  <2>3. \A kind \in Kinds : \E m \in Range(l3s[n].l3[kind].mandates) : m.kind = kind
    <3> SUFFICES ASSUME NEW kind \in Kinds PROVE \E m \in Range(l3s[n].l3[kind].mandates) : m.kind = kind
      OBVIOUS
    <3> DEFINE arg == <<n, kind>>
    <3>1. arg \in L3Args /\ arg[1] = n /\ arg[2] = kind
      BY <2>1
    <3>2. L3OK(n, kind, l3s[n].l3[kind])
      <4> HIDE DEF arg
      <4> QED
        BY <3>1, AcceptedL3 DEF DecidesInv
    <3> QED
      BY <3>2 DEF L3OK, MandatesOK
  <2>4. CrossOK(n)
    <3>1. <<n, "cross">> \in checked
      BY <2>2 DEF Accepted, DecidesInv, TrustInv, LoopInv
    <3> QED
      BY <3>1 DEF Accepted, DecidesInv, TrustInv, LoopInv, Kinds
  <2> QED
    BY <1>1, <2>2, <2>3, <2>4, CrossRule DEF l3s
<1> QED
  BY <1>2, <1>3, <1>4, <1>5, <1>6, <1>7, <1>8, <1>9, <1>10 DEF Promise!OpenAuthorized

LEMMA AcceptedAuthorized == ASSUME DecidesInv, Accepted PROVE Promise!Authorized(call, now)
<1>1. pc \in AfterMatch
  BY DEF Accepted, AfterMatch
<1>2. call.form # "both"
  BY DEF Accepted, DecidesInv, DecisionInv, EntryInv
<1>3. L1OK(call, now) /\ L2OK(call, now) /\ RefsDistinct(Len(l2.jwt.delegates) + 1)
  BY <1>1 DEF Accepted, DecidesInv, TrustInv, LayersInv, PastL2, PastL1, DecisionInv, RefsInv, AfterCollect
<1>4. Promise!Issued(call, now) /\ Promise!Signed(call, now)
  BY <1>1, <1>3, FinalPairs, EntryRules
<1>5. Promise!FinalAuthorized(call) \/ Promise!OpenAuthorized(call, now)
  BY AcceptedFinal, AcceptedOpen
<1> QED
  BY <1>2, <1>4, <1>5, AcceptedUsable DEF Promise!Authorized

------------------------------------------------------------------------------
(* Every step of the pipeline is a step of ChainSpec, or none. *)

LEMMA DecidesInvariant == Spec => []DecidesInv
  BY DecidesInit, DecidesStep, PTL DEF Spec

LEMMA DecisionIs ==
    ASSUME NEW c, NEW t
    PROVE  Promise!Decision(c, t) = IF Promise!Authorized(c, t) THEN "accepted" ELSE "rejected"
  BY DEF Promise!Decision

\* A stage keeps the arguments and the clock; it goes on to a stage, or returns.
LEMMA StagesOnly ==
    ASSUME Verify
    PROVE  /\ pc \in Stages /\ UNCHANGED <<clock, call, now>>
           /\ pc' \in Stages \cup Returned
<1> USE DEF Stages, Returned, Continue
<1>1. CASE CheckL1 \/ CheckL2 \/ InferMode
  BY <1>1 DEF CheckL1, CheckL2, InferMode
<1>2. CASE CollectMandate \/ RejectDuplicate \/ IndexMandates \/ OneSidedPairs
  BY <1>2 DEF CollectMandate, RejectDuplicate, IndexMandates, OneSidedPairs
<1>3. CASE MatchMandate \/ RejectUnmatched \/ RejectOrphans
  BY <1>3 DEF MatchMandate, RejectUnmatched, RejectOrphans
<1>4. CASE CheckMandates \/ CheckCard \/ ExtractAgentKey \/ RejectAgentKey
  BY <1>4 DEF CheckMandates, CheckCard, ExtractAgentKey, RejectAgentKey
<1>5. CASE \E kind \in Kinds : SkipL3(kind) \/ CheckL3(kind) \/ RejectL3(kind)
  BY <1>5 DEF SkipL3, CheckL3, RejectL3, After, Kinds
<1>6. CASE CrossReference \/ RejectCrossReference
  BY <1>6 DEF CrossReference, RejectCrossReference
<1> QED
  BY <1>1, <1>2, <1>3, <1>4, <1>5, <1>6 DEF Verify

\* No early return turns down a call that the rules allow.
LEMMA RejectedRightly ==
    ASSUME DecidesInv, Verify, pc' = "rejected"
    PROVE  ~Promise!Authorized(call, now)
<1> SUFFICES ASSUME Promise!Authorized(call, now) PROVE FALSE
  OBVIOUS
<1>1. CASE CollectMandate \/ MatchMandate
  <2>1. pc' \in {"collect", "match"}
    BY <1>1 DEF CollectMandate, MatchMandate
  <2> QED
    BY <2>1
<1>2. CASE \E kind \in Kinds : SkipL3(kind) \/ CheckL3(kind)
  BY <1>2 DEF SkipL3, CheckL3, After
<1>3. CASE CrossReference
  BY <1>3 DEF CrossReference
<1> QED
  BY <1>1, <1>2, <1>3, EntryPasses, CollectPasses, MatchPasses, MandatesPass, AgentPasses,
     LoopPasses DEF Verify

\* Nor does a call get past the last check that the rules forbid.
LEMMA AcceptedRightly == (DecidesInv /\ Accepted => Promise!Authorized(call, now))'
<1>1. DecidesInv /\ Accepted => Promise!Authorized(call, now)
  BY AcceptedAuthorized
<1> QED
  BY <1>1, PTL

\* A call that brings both forms of Layer 3 argument is refused on entry.
LEMMA RefusedRightly ==
    ASSUME NEW c, NEW t, c.form = "both"
    PROVE  Promise!Decision(c, t) = "rejected"
  BY DEF Promise!Decision, Promise!Authorized

LEMMA PromiseInit == Init => Promise!Init
  BY DEF Init, Promise!Init, Verdict

LEMMA PromiseStep ==
    DecidesInv /\ DecidesInv' /\ [Next]_vars => [Promise!Next]_(Promise!vars)
<1> SUFFICES ASSUME DecidesInv, DecidesInv', [Next]_vars
             PROVE  Promise!Next \/ UNCHANGED Promise!vars
  OBVIOUS
<1>1. CASE Call
  <2>1. Promise!Ask
    BY <1>1, RefusedRightly DEF Call, Continue, Promise!Ask, Verdict, Running, Stages
  <2> QED
    BY <2>1 DEF Promise!Next
<1>2. CASE Return
  <2>1. Promise!Take
    BY <1>2 DEF Return, Returned, Promise!Take, Verdict, Running, Stages
  <2> QED
    BY <2>1 DEF Promise!Next
<1>3. CASE Tick
  <2>1. Promise!Tick
    BY <1>3 DEF Tick, Promise!Tick, Verdict, Running
  <2> QED
    BY <2>1 DEF Promise!Next
<1>4. CASE Verify
  <2>1. /\ pc \in Stages /\ UNCHANGED <<clock, call, now>>
        /\ pc' \in Stages \cup Returned
    BY <1>4, StagesOnly
  <2>2. Verdict = "pending"
    BY <2>1 DEF Verdict, Running, Stages
  <2>3. CASE pc' \in Stages
    <3>1. Verdict' = "pending"
      BY <2>3 DEF Verdict, Running, Stages
    <3> QED
      BY <2>1, <2>2, <3>1 DEF Promise!vars
  <2>4. CASE pc' \in Returned
    <3>1. Verdict' = pc'
      BY <2>4 DEF Verdict, Running, Stages, Returned
    <3>2. pc' = IF Promise!Authorized(call, now) THEN "accepted" ELSE "rejected"
      BY <1>4, <2>1, <2>4, RejectedRightly, AcceptedRightly DEF Returned, Accepted
    <3>3. Promise!Answer
      BY <2>1, <2>2, <3>1, <3>2, DecisionIs DEF Promise!Answer
    <3> QED
      BY <3>3 DEF Promise!Next
  <2> QED
    BY <2>1, <2>3, <2>4
<1>5. CASE UNCHANGED vars
  BY <1>5 DEF vars, Promise!vars, Verdict, Running
<1> QED
  BY <1>1, <1>2, <1>3, <1>4, <1>5 DEF Next

\* For all credentials, arguments and interleavings with the clock, the staged
\* verifier implements ChainSpec: its checks, loops and early returns answer
\* every call with the decision of the declarative rules as of the instant the
\* clock was read, and change nothing before.
THEOREM DecidesAsPromised == Spec => Promise!Safety
<1>1. Spec => Promise!Init
  BY PromiseInit DEF Spec
<1>2. Spec => [][Promise!Next]_(Promise!vars)
  BY DecidesInvariant, PromiseStep, PTL DEF Spec
<1> QED
  BY <1>1, <1>2 DEF Promise!Safety
==============================================================================
