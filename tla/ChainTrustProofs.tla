-------------------------- MODULE ChainTrustProofs --------------------------
(***************************************************************************)
(* What acceptance means, for every call: each stage that let the call     *)
(* pass left a fact behind that no later stage disturbs, and the Layer 3   *)
(* loop leaves no credential unvisited.                                    *)
(***************************************************************************)
EXTENDS ChainPairingProofs

\* The stages after each check, and acceptance.
PastL1 == (Stages \ {"L1"}) \cup {"accepted"}
PastL2 == PastL1 \ {"L2"}
PastMode == PastL2 \ {"mode"}
PastMandates == {"card", "agent", "payment", "checkout", "cross", "accepted"}
PastCard == PastMandates \ {"card"}
Loop == {"payment", "checkout", "cross"}

LayersInv ==
    /\ pc \in PastL1 => L1OK(call, now)
    /\ pc \in PastL2 => L2OK(call, now)

ModeInv ==
    pc \in PastMode => /\ autonomous <=> Has(TRUE)
                       /\ ~(Has(TRUE) /\ Has(FALSE))
                       /\ autonomous \/ ~L3Given

MandatesInv ==
    /\ pc \in PastMandates => \A n \in DOMAIN pairs : PairOK(pairs[n])
    /\ pc \in PastCard => CardOK

AgentInv ==
    /\ pc \in Loop \cup {"agent"} => autonomous
    /\ (pc \in Loop \cup {"accepted"} /\ autonomous) =>
         /\ Delegates(agent) /\ agent.key \in Keys
         /\ l3s = <<>> \/ Len(l3s) = Len(pairs)

\* The Layer 3 credentials the loop has left behind.
Visited ==
    {arg \in L3Args : \/ pc = "accepted"
                      \/ arg[1] < i
                      \/ arg[1] = i /\ pc = "cross"
                      \/ arg[1] = i /\ pc = "checkout" /\ arg[2] = "payment"}

LoopInv ==
    pc \in Loop \cup {"accepted"} =>
      /\ \A arg \in checked :
           IF arg[2] \in Kinds THEN L3OK(arg[1], arg[2], l3s[arg[1]].l3[arg[2]])
           ELSE CrossOK(arg[1])
      /\ Visited \subseteq checked
      /\ \A n \in DOMAIN l3s :
           (pc = "accepted" \/ n < i) /\ BothGiven(n) => <<n, "cross">> \in checked

TrustInv == LayersInv /\ ModeInv /\ MandatesInv /\ AgentInv /\ LoopInv

------------------------------------------------------------------------------
(* The order of the stages: how a stage after a given check is reached. *)

given == <<call, now>>
paired == <<call, now, autonomous, pairs>>
facts == <<call, now, autonomous, pairs, agent>>
progress == <<i, checked>>

\* Every step, by where it leads and what it leaves alone.
LEMMA Moves ==
    ASSUME [Next]_vars
    PROVE  \/ pc' \in {"idle", "rejected"} \/ (pc = "idle" /\ pc' = "L1")
           \/ UNCHANGED <<pc, facts, progress>>
           \/ /\ CheckL1 /\ pc = "L1" /\ pc' = "L2" /\ L1OK(call, now)
              /\ UNCHANGED <<facts, progress>>
           \/ /\ CheckL2 /\ pc = "L2" /\ pc' = "mode" /\ L2OK(call, now)
              /\ UNCHANGED <<facts, progress>>
           \/ /\ InferMode /\ pc = "mode" /\ pc' = "collect"
              /\ UNCHANGED <<given, pairs, agent, progress>>
           \/ /\ pc \in {"collect", "match"} /\ pc' \in {"match", "mandates"}
              /\ UNCHANGED <<given, autonomous, agent, progress>>
           \/ /\ CheckMandates /\ pc = "mandates" /\ pc' = "card"
              /\ UNCHANGED <<facts, progress>>
           \/ /\ CheckCard /\ pc = "card" /\ pc' = IF autonomous THEN "agent" ELSE "accepted"
              /\ UNCHANGED <<facts, progress>>
           \/ /\ ExtractAgentKey /\ pc = "agent" /\ pc' \in {"payment", "accepted"}
              /\ UNCHANGED <<paired, progress>>
           \/ /\ \E kind \in Kinds : (SkipL3(kind) \/ CheckL3(kind)) /\ pc = kind /\ pc' = After(kind)
              /\ UNCHANGED <<facts, i>>
           \/ /\ CrossReference /\ pc = "cross" /\ pc' \in {"payment", "accepted"}
              /\ UNCHANGED facts
<1> USE DEF Continue, given, paired, facts, progress
<1>1. CASE Call \/ Return \/ Tick \/ UNCHANGED vars
  BY <1>1 DEF Call, Return, Tick, vars
<1>2. CASE CheckL1 \/ CheckL2 \/ InferMode
  BY <1>2 DEF CheckL1, CheckL2, InferMode
<1>3. CASE CollectMandate \/ RejectDuplicate \/ IndexMandates \/ OneSidedPairs
           \/ MatchMandate \/ RejectUnmatched \/ RejectOrphans
  BY <1>3 DEF CollectMandate, RejectDuplicate, IndexMandates, OneSidedPairs, MatchMandate,
              RejectUnmatched, RejectOrphans
<1>4. CASE CheckMandates \/ CheckCard \/ ExtractAgentKey \/ RejectAgentKey
  BY <1>4 DEF CheckMandates, CheckCard, ExtractAgentKey, RejectAgentKey
<1>5. ASSUME NEW kind \in Kinds, SkipL3(kind) \/ CheckL3(kind) \/ RejectL3(kind)
      PROVE  \/ pc' = "rejected"
             \/ /\ \E side \in Kinds : (SkipL3(side) \/ CheckL3(side)) /\ pc = side /\ pc' = After(side)
                /\ UNCHANGED <<facts, i>>
  BY <1>5 DEF SkipL3, CheckL3, RejectL3
<1>6. CASE CrossReference \/ RejectCrossReference
  BY <1>6 DEF CrossReference, RejectCrossReference
<1> QED
  BY <1>1, <1>2, <1>3, <1>4, <1>5, <1>6 DEF Next, Verify

\* A Layer 3 stage is a stage of the loop, and leads on in it.
LEMMA LoopStages ==
    ASSUME NEW kind \in Kinds
    PROVE  kind \in {"payment", "checkout"} /\ After(kind) \in {"checkout", "cross"}
BY DEF Kinds, After

------------------------------------------------------------------------------
(* What was checked stays true while the facts it was checked on stay. *)

LEMMA SameCall ==
    ASSUME call' = call
    PROVE  /\ l2' = l2 /\ l3s' = l3s
           /\ L3Given' <=> L3Given
           /\ L3Args' = L3Args
           /\ \A n : BothGiven(n)' <=> BothGiven(n)
           /\ \A n : CrossOK(n)' <=> CrossOK(n)
           /\ \A open : Has(open)' <=> Has(open)
<1>1. l2' = l2 /\ l3s' = l3s
  BY DEF l2, l3s
<1> QED
  BY <1>1 DEF L3Given, L3Args, BothGiven, CrossOK, FirstLink, Has, Disclosed, Resolved, MandateAt

LEMMA SamePairs ==
    ASSUME UNCHANGED paired
    PROVE  /\ (\A n \in DOMAIN pairs : PairOK(pairs[n]))' <=> \A n \in DOMAIN pairs : PairOK(pairs[n])
           /\ CardOK' <=> CardOK
<1>1. /\ l2' = l2 /\ call' = call /\ pairs' = pairs /\ autonomous' = autonomous
      /\ \A k : MandateAt(l2, k)' = MandateAt(l2, k)
      /\ \A k : Ref(l2, k)' = Ref(l2, k)
  BY SameCall DEF paired, MandateAt, Ref
<1>2. \A c, p : (Complete(c, p)' <=> Complete(c, p)) /\ (FinalPairOK(c, p)' <=> FinalPairOK(c, p))
                /\ (ReferenceBound(c, p)' <=> ReferenceBound(c, p))
  BY <1>1 DEF Complete, FinalPairOK, ReferenceBound, HashBound
<1>3. \A pair : PairOK(pair)' <=> PairOK(pair)
  BY <1>1, <1>2 DEF PairOK
<1>4. CardOK' <=> CardOK
  BY <1>1 DEF CardOK
<1> QED
  BY <1>1, <1>3, <1>4

LEMMA SameFacts ==
    ASSUME UNCHANGED facts
    PROVE  /\ Delegates(agent)' <=> Delegates(agent)
           /\ \A n, kind : L3OK(n, kind, l3s[n].l3[kind])' <=> L3OK(n, kind, l3s[n].l3[kind])
<1>1. /\ l2' = l2 /\ l3s' = l3s /\ call' = call /\ pairs' = pairs /\ now' = now /\ agent' = agent
      /\ \A k : MandateAt(l2, k)' = MandateAt(l2, k)
      /\ \A k : Ref(l2, k)' = Ref(l2, k)
  BY SameCall DEF facts, MandateAt, Ref
<1>2. Paired' = Paired
  BY <1>1 DEF Paired, Matched
<1>3. Delegates(agent)' <=> Delegates(agent)
  BY <1>1, <1>2 DEF Delegates
<1>4. \A n, kind : Bound(call, n, kind)' = Bound(call, n, kind)
  BY <1>1
<1>5. \A n, kind : IdentityBound(n, kind)' <=> IdentityBound(n, kind)
  BY <1>1, <1>4 DEF IdentityBound
<1>6. \A n, kind : MandatesOK(n, kind, l3s[n].l3[kind])' <=> MandatesOK(n, kind, l3s[n].l3[kind])
  BY <1>1 DEF MandatesOK
<1>7. \A n, kind : L3OK(n, kind, l3s[n].l3[kind])' <=> L3OK(n, kind, l3s[n].l3[kind])
  BY <1>1, <1>4, <1>5, <1>6 DEF L3OK
<1> QED
  BY <1>3, <1>7

------------------------------------------------------------------------------
(* One invariant after the other is preserved. *)

LEMMA LayersStep == ASSUME LayersInv, [Next]_vars PROVE LayersInv'
<1> USE DEF PastL1, PastL2, Stages
<1>1. pc' \in PastL1 => /\ UNCHANGED given
                        /\ pc \in PastL1 \/ L1OK(call, now)
                        /\ pc' \in PastL2 => pc \in PastL2 \/ L2OK(call, now)
  BY Moves, LoopStages DEF given, facts, paired, Kinds
<1> QED
  BY <1>1 DEF LayersInv, given

LEMMA ModeStep == ASSUME ModeInv, [Next]_vars PROVE ModeInv'
<1> USE DEF PastL1, PastL2, PastMode, Stages
<1>1. SUFFICES ASSUME pc' \in PastMode
               PROVE  /\ (autonomous <=> Has(TRUE))'
                      /\ ~(Has(TRUE) /\ Has(FALSE))'
                      /\ (autonomous \/ ~L3Given)'
  BY DEF ModeInv
<1>2. call' = call /\ (InferMode \/ (pc \in PastMode /\ autonomous' = autonomous))
  BY <1>1, Moves, LoopStages DEF given, facts, paired, Kinds
<1>3. /\ L3Given' <=> L3Given
      /\ Has(TRUE)' <=> Has(TRUE)
      /\ Has(FALSE)' <=> Has(FALSE)
  BY <1>2, SameCall
<1>4. CASE InferMode
  <2>1. autonomous' = Has(TRUE) /\ pc' = "collect"
    BY <1>1, <1>4 DEF InferMode, Continue
  <2>2. ~(Has(TRUE) /\ Has(FALSE)) /\ (Has(TRUE) \/ ~L3Given)
    BY <1>4, <2>1 DEF InferMode, Continue
  <2> QED
    BY <1>3, <2>1, <2>2
<1>5. CASE pc \in PastMode /\ autonomous' = autonomous
  BY <1>3, <1>5 DEF ModeInv
<1> QED
  BY <1>2, <1>4, <1>5

LEMMA MandatesStep == ASSUME MandatesInv, [Next]_vars PROVE MandatesInv'
<1> USE DEF PastMandates, PastCard
<1> SUFFICES ASSUME pc' \in PastMandates PROVE MandatesInv'
  BY DEF MandatesInv
<1>1. /\ UNCHANGED paired
      /\ CheckMandates \/ pc \in PastMandates
      /\ pc' \in PastCard => CheckCard \/ pc \in PastCard
  BY Moves, LoopStages DEF facts, paired, given
<1>2. \A n \in DOMAIN pairs : PairOK(pairs[n])
  BY <1>1 DEF MandatesInv, CheckMandates, Continue
<1>3. pc' \in PastCard => CardOK
  BY <1>1 DEF MandatesInv, CheckCard, Continue
<1> QED
  BY <1>1, <1>2, <1>3, SamePairs DEF MandatesInv

LEMMA AgentStep == ASSUME AgentInv, [Next]_vars PROVE AgentInv'
<1> USE DEF Loop
<1>1. (pc \in Loop \cup {"agent"} => autonomous)'
  BY Moves, LoopStages DEF AgentInv, facts, paired, given
<1>2. ASSUME pc' \in Loop \cup {"accepted"}, autonomous'
      PROVE  (/\ Delegates(agent) /\ agent.key \in Keys
              /\ l3s = <<>> \/ Len(l3s) = Len(pairs))'
  <2>1. /\ UNCHANGED paired
        /\ ExtractAgentKey \/ (pc \in Loop \cup {"accepted"} /\ UNCHANGED facts)
    BY <1>2, Moves, LoopStages DEF facts, paired, given
  <2>2. l3s' = l3s /\ pairs' = pairs
    BY <2>1, SameCall DEF paired
  <2>3. CASE ExtractAgentKey
    <3>1. agent' \in Agents /\ Delegates(agent')
      BY <2>3 DEF ExtractAgentKey
    <3>2. l3s = <<>> \/ Len(l3s) = Len(pairs)
      BY <1>2, <2>3 DEF ExtractAgentKey, Continue
    <3>3. Delegates(agent)' <=> Delegates(agent')
      BY <2>1, SameCall DEF Delegates, Paired, Matched, MandateAt, paired
    <3> QED
      BY <2>2, <3>1, <3>2, <3>3 DEF Agents
  <2>4. CASE pc \in Loop \cup {"accepted"} /\ UNCHANGED facts
    BY <1>2, <2>2, <2>4, SameFacts DEF AgentInv, facts
  <2> QED
    BY <2>1, <2>3, <2>4
<1> QED
  BY <1>1, <1>2 DEF AgentInv

\* What the loop walks through.
LEMMA LoopRange ==
    ASSUME TypeInv, pc # "idle"
    PROVE  /\ call \in Arguments /\ l3s \in Seq(SplitL3)
           /\ Len(l3s) \in Nat /\ DOMAIN l3s = 1..Len(l3s)
           /\ i \in Nat /\ i >= 1
           /\ pc \in Loop => i \in DOMAIN l3s
           /\ \A arg \in L3Args : arg[1] \in Nat /\ arg[1] >= 1 /\ arg[1] <= Len(l3s)
                                  /\ arg[2] \in {"payment", "checkout"} /\ arg = <<arg[1], arg[2]>>
<1>1. call \in Arguments /\ i \in Nat /\ i >= 1
  BY DEF TypeInv, TypeOK, LocalsTyped
<1>2. l3s \in Seq(SplitL3)
  BY <1>1 DEF Arguments, l3s
<1>3. Len(l3s) \in Nat /\ DOMAIN l3s = 1..Len(l3s)
  BY <1>2
<1>4. pc \in Loop => i \in DOMAIN l3s
  BY DEF TypeInv, TypeOK, LoopInBounds, Loop, Kinds
<1>5. \A arg \in L3Args : /\ arg[1] \in Nat /\ arg[1] >= 1 /\ arg[1] <= Len(l3s)
                          /\ arg[2] \in {"payment", "checkout"} /\ arg = <<arg[1], arg[2]>>
  BY <1>3 DEF L3Args, Kinds
<1> QED
  BY <1>1, <1>2, <1>3, <1>4, <1>5

\* Nothing is left to visit before the loop, or when no Layer 3 was given.
LEMMA LoopFresh ==
    ASSUME TypeInv, call' = call, pc # "idle", UNCHANGED progress, i = 1, checked = {},
           pc' = "payment" \/ (pc' = "accepted" /\ (l3s = <<>> \/ ~L3Given))
    PROVE  LoopInv'
<1>1. /\ L3Args' = L3Args /\ l3s' = l3s
      /\ \A n : BothGiven(n)' <=> BothGiven(n)
  BY SameCall
<1>2. i' = 1 /\ checked' = {}
  BY DEF progress
<1>3. pc' = "accepted" => L3Args = {} /\ \A n \in DOMAIN l3s : ~BothGiven(n)
  BY DEF L3Args, L3Given, BothGiven, Kinds
<1>4. Visited' = {}
  BY <1>1, <1>2, <1>3, LoopRange DEF Visited
<1>5. \A n \in DOMAIN l3s : ~((pc' = "accepted" \/ n < 1) /\ BothGiven(n))
  BY <1>3, LoopRange
<1> QED
  BY <1>1, <1>2, <1>4, <1>5 DEF LoopInv

\* What was checked still holds once more has been checked.
LEMMA CheckedKept ==
    ASSUME LoopInv, UNCHANGED facts, pc \in Loop \cup {"accepted"}
    PROVE  \A arg \in checked :
             IF arg[2] \in Kinds THEN L3OK(arg[1], arg[2], l3s[arg[1]].l3[arg[2]])'
             ELSE CrossOK(arg[1])'
<1>1. l3s' = l3s /\ \A n : CrossOK(n)' <=> CrossOK(n)
  BY SameCall DEF facts
<1>2. \A n, kind : L3OK(n, kind, l3s[n].l3[kind])' <=> L3OK(n, kind, l3s[n].l3[kind])
  BY SameFacts
<1> QED
  BY <1>1, <1>2 DEF LoopInv

LEMMA LoopL3 ==
    ASSUME TypeInv, LoopInv, NEW kind \in Kinds, SkipL3(kind) \/ CheckL3(kind)
    PROVE  LoopInv'
<1> USE DEF Loop
<1>1. /\ UNCHANGED facts /\ i' = i /\ pc = kind /\ pc' = After(kind)
      /\ pc # "idle" /\ pc \in Loop /\ pc' \in {"checkout", "cross"}
  BY LoopStages DEF SkipL3, CheckL3, facts
<1>2. /\ l3s' = l3s /\ L3Args' = L3Args
      /\ \A n : BothGiven(n)' <=> BothGiven(n)
      /\ \A n, side : L3OK(n, side, l3s[n].l3[side])' <=> L3OK(n, side, l3s[n].l3[side])
  BY <1>1, SameCall, SameFacts DEF facts
<1>3. \/ l3s[i].l3[kind] = Absent /\ checked' = checked
      \/ checked' = checked \cup {<<i, kind>>} /\ L3OK(i, kind, l3s[i].l3[kind])
  BY DEF SkipL3, CheckL3
<1>4. \A arg \in checked' :
        IF arg[2] \in Kinds THEN L3OK(arg[1], arg[2], l3s[arg[1]].l3[arg[2]])'
        ELSE CrossOK(arg[1])'
  <2>1. \A arg \in checked :
          IF arg[2] \in Kinds THEN L3OK(arg[1], arg[2], l3s[arg[1]].l3[arg[2]])'
          ELSE CrossOK(arg[1])'
    BY <1>1, CheckedKept
  <2>2. CASE checked' = checked \cup {<<i, kind>>} /\ L3OK(i, kind, l3s[i].l3[kind])
    <3>1. L3OK(i, kind, l3s[i].l3[kind])'
      BY <1>2, <2>2, <1>1
    <3>2. ASSUME NEW arg \in checked', arg \notin checked
          PROVE  arg[1] = i /\ arg[2] = kind
      BY <2>2, <3>2
    <3> QED
      BY <2>1, <3>1, <3>2, <1>1
  <2> QED
    BY <1>3, <2>1, <2>2
<1>5. Visited' \subseteq checked'
  <2> SUFFICES ASSUME NEW arg \in L3Args, arg \in Visited' PROVE arg \in checked'
    BY <1>2 DEF Visited
  <2>1. arg[1] < i \/ (arg[1] = i /\ (kind = "payment" => arg[2] = "payment"))
    BY <1>1, <1>2 DEF Visited, After
  <2>2. arg \in Visited \/ arg = <<i, kind>>
    BY <1>1, <2>1, LoopRange, LoopStages DEF Visited
  <2>3. arg = <<i, kind>> => l3s[i].l3[kind] # Absent
    BY DEF L3Args
  <2> QED
    BY <1>1, <1>3, <2>2, <2>3 DEF LoopInv
<1>6. \A n \in DOMAIN l3s : n < i /\ BothGiven(n) => <<n, "cross">> \in checked'
  BY <1>1, <1>3 DEF LoopInv
<1> QED
  BY <1>1, <1>2, <1>4, <1>5, <1>6 DEF LoopInv

LEMMA LoopCross ==
    ASSUME TypeInv, LoopInv, CrossReference
    PROVE  LoopInv'
<1> USE DEF Loop
<1>1. /\ UNCHANGED facts /\ i' = i + 1 /\ pc = "cross"
      /\ pc' = IF i < Len(l3s) THEN "payment" ELSE "accepted"
      /\ BothGiven(i) => CrossOK(i)
      /\ checked' = IF BothGiven(i) THEN checked \cup {<<i, "cross">>} ELSE checked
  BY DEF CrossReference, facts
<1>2. /\ l3s' = l3s /\ L3Args' = L3Args
      /\ \A n : BothGiven(n)' <=> BothGiven(n)
      /\ \A n : CrossOK(n)' <=> CrossOK(n)
  BY <1>1, SameCall DEF facts
<1>3. \A arg \in checked' :
        IF arg[2] \in Kinds THEN L3OK(arg[1], arg[2], l3s[arg[1]].l3[arg[2]])'
        ELSE CrossOK(arg[1])'
  <2>1. \A arg \in checked :
          IF arg[2] \in Kinds THEN L3OK(arg[1], arg[2], l3s[arg[1]].l3[arg[2]])'
          ELSE CrossOK(arg[1])'
    BY <1>1, CheckedKept
  <2>2. ASSUME NEW arg \in checked', arg \notin checked
        PROVE  arg[1] = i /\ arg[2] = "cross" /\ BothGiven(i)
    BY <1>1, <2>2
  <2>3. "cross" \notin Kinds
    BY DEF Kinds
  <2> QED
    BY <1>1, <1>2, <2>1, <2>2, <2>3
<1>4. \A arg \in L3Args : arg[1] <= i => arg \in checked
  BY <1>1, LoopRange DEF Visited, LoopInv
<1>5. Visited' \subseteq checked'
  <2> SUFFICES ASSUME NEW arg \in L3Args, arg \in Visited' PROVE arg \in checked'
    BY <1>2 DEF Visited
  <2>1. arg[1] <= i
    BY <1>1, LoopRange DEF Visited
  <2> QED
    BY <1>1, <1>4, <2>1
<1>6. ASSUME NEW n \in DOMAIN l3s, pc' = "accepted" \/ n < i', BothGiven(n)
      PROVE  <<n, "cross">> \in checked'
  <2>1. n < i \/ n = i
    BY <1>1, <1>6, LoopRange
  <2>2. n < i => <<n, "cross">> \in checked
    BY <1>1, <1>6 DEF LoopInv
  <2> QED
    BY <1>1, <1>6, <2>1, <2>2
<1> QED
  BY <1>2, <1>3, <1>5, <1>6 DEF LoopInv

\* A step that changes no variable the loop looks at.
LEMMA LoopKept ==
    ASSUME LoopInv, UNCHANGED <<pc, facts, progress>>
    PROVE  LoopInv'
<1>1. call' = call /\ l3s' = l3s /\ i' = i /\ checked' = checked /\ pc' = pc
  BY SameCall DEF facts, progress
<1>2. Visited' = Visited /\ \A n : BothGiven(n)' <=> BothGiven(n)
  BY <1>1, SameCall DEF Visited
<1> QED
  BY <1>1, <1>2, CheckedKept DEF LoopInv

LEMMA LoopStep == ASSUME TypeInv, ModeInv, LoopInv, [Next]_vars PROVE LoopInv'
<1> SUFFICES ASSUME pc' \in Loop \cup {"accepted"} PROVE LoopInv'
  BY DEF LoopInv
<1> USE DEF Loop
<1>1. \/ UNCHANGED <<pc, facts, progress>>
      \/ CheckCard \/ ExtractAgentKey \/ CrossReference
      \/ \E kind \in Kinds : SkipL3(kind) \/ CheckL3(kind)
  BY Moves
<1>2. CASE UNCHANGED <<pc, facts, progress>>
  BY <1>2, LoopKept
<1>3. CASE CheckCard
  <2>1. pc = "card" /\ call' = call /\ UNCHANGED progress /\ pc' = "accepted" /\ ~autonomous
    BY <1>3 DEF CheckCard, Continue, progress
  <2>2. ~L3Given /\ i = 1 /\ checked = {}
    BY <2>1 DEF ModeInv, PastMode, PastL2, PastL1, Stages, TypeInv, LoopNotStarted, Early
  <2> QED
    BY <2>1, <2>2, LoopFresh
<1>4. CASE ExtractAgentKey
  <2>1. /\ pc = "agent" /\ call' = call /\ UNCHANGED progress
        /\ pc' = "payment" \/ (pc' = "accepted" /\ l3s = <<>>)
    BY <1>4 DEF ExtractAgentKey, Continue, progress
  <2>2. i = 1 /\ checked = {}
    BY <2>1 DEF TypeInv, LoopNotStarted, Early
  <2> QED
    BY <2>1, <2>2, LoopFresh
<1> QED
  BY <1>1, <1>2, <1>3, <1>4, LoopL3, LoopCross

LEMMA TrustInit == Init => TrustInv
BY DEF Init, TrustInv, LayersInv, ModeInv, MandatesInv, AgentInv, LoopInv, Loop,
       PastL1, PastL2, PastMode, PastMandates, PastCard, Stages

LEMMA TrustInvariant == Spec => [](TypeInv /\ PairingInv /\ TrustInv)
<1>1. Init => TypeInv /\ PairingInv /\ TrustInv
  BY TypeInit, PairingInit, TrustInit
<1>2. TrustInv /\ TypeInv /\ [Next]_vars => TrustInv'
  BY LayersStep, ModeStep, MandatesStep, AgentStep, LoopStep DEF TrustInv
<1>3. (TypeInv /\ PairingInv /\ TrustInv) /\ [Next]_vars => (TypeInv /\ PairingInv /\ TrustInv)'
  BY <1>2, TypeStep, PairingStep
<1> QED
  BY <1>1, <1>3, PTL DEF Spec

------------------------------------------------------------------------------
(* What acceptance means. *)

LEMMA FirstOfTwo ==
    ASSUME NEW first, NEW second
    PROVE  FirstOf(<<first, second>>) \in {first, second}
<1> DEFINE list == <<first, second>>
           Wanted(n) == /\ list[n] # Absent \/ n = Len(list)
                        /\ \A m \in 1..(n - 1) : list[m] = Absent
<1>1. Len(list) = 2 /\ DOMAIN list = {1, 2}
  OBVIOUS
<1>2. \E n \in DOMAIN list : Wanted(n)
  <2>1. CASE first # Absent
    <3>1. Wanted(1)
      BY <2>1
    <3> QED
      BY <1>1, <3>1
  <2>2. CASE first = Absent
    <3>1. Wanted(2)
      BY <2>2
    <3> QED
      BY <1>1, <3>1
  <2> QED
    BY <2>1, <2>2
<1>3. (CHOOSE n \in DOMAIN list : Wanted(n)) \in DOMAIN list
  BY <1>2
<1>4. FirstOf(list) = list[CHOOSE n \in DOMAIN list : Wanted(n)]
  BY DEF FirstOf
<1> QED
  BY <1>1, <1>3, <1>4

\* Every Layer 3 credential of an accepted call passed its checks.
LEMMA AcceptedL3 ==
    ASSUME TypeInv, TrustInv, Accepted, NEW arg \in L3Args
    PROVE  /\ autonomous
           /\ arg \in checked
           /\ L3OK(arg[1], arg[2], l3s[arg[1]].l3[arg[2]])
           /\ arg[1] \in DOMAIN pairs
           /\ arg[2] \in Kinds
           /\ Len(l3s) = Len(pairs)
           /\ Delegates(agent) /\ agent.key \in Keys
<1> USE DEF Accepted
<1>1. arg[1] \in DOMAIN l3s /\ arg[2] \in Kinds /\ l3s[arg[1]].l3[arg[2]] # Absent
  BY DEF L3Args
<1>2. autonomous
  BY <1>1 DEF TrustInv, ModeInv, PastMode, PastL2, PastL1, L3Given
<1>3. arg \in checked
  BY DEF TrustInv, LoopInv, Visited
<1>4. L3OK(arg[1], arg[2], l3s[arg[1]].l3[arg[2]])
  BY <1>1, <1>3 DEF TrustInv, LoopInv
<1>5. Delegates(agent) /\ agent.key \in Keys /\ (l3s = <<>> \/ Len(l3s) = Len(pairs))
  BY <1>2 DEF TrustInv, AgentInv
<1>6. Len(l3s) = Len(pairs) /\ DOMAIN pairs = DOMAIN l3s
  <2>1. DOMAIN l3s = 1..Len(l3s) /\ l3s # <<>>
    BY <1>1, LoopRange
  <2>2. pairs \in Seq([Kinds -> Nat])
    BY DEF TypeInv, TypeOK, LocalsTyped
  <2> QED
    BY <1>5, <2>1, <2>2
<1> QED
  BY <1>1, <1>2, <1>3, <1>4, <1>5, <1>6

\* Every mandate an accepted L2 discloses is the mandate of some pair.
LEMMA AcceptedMandate ==
    ASSUME TypeInv, PairingInv, Accepted, NEW kind \in Kinds, NEW k \in Disclosed(l2, kind)
    PROVE  /\ k # 0 /\ k \in Paired
           /\ \E n \in DOMAIN pairs : pairs[n][kind] = k
           /\ MandateAt(l2, k) \in Mandate
<1>1. pc # "idle" /\ call \in Arguments
  BY DEF Accepted, TypeInv, TypeOK
<1>2. k # 0 /\ k \in DOMAIN l2.jwt.delegates
  BY <1>1, DisclosedArePositions
<1>3. PICK n \in DOMAIN pairs : pairs[n][kind] = k
  BY DEF PairingInv, EveryMandatePairedOnce, PairsReady, Accepted
<1>4. k \in Paired
  BY <1>2, <1>3 DEF Paired, Matched
<1>5. l2.jwt.delegates \in Seq(Delegate)
  BY <1>1 DEF Arguments, Presentation, L2Jwt, l2
<1>6. l2.jwt.delegates[k].disc \in Disc
  <2>1. l2.jwt.delegates[k] \in Delegate
    BY <1>2, <1>5, ElementOfSeq, DisclosedArePositions, <1>1
  <2> QED
    BY <2>1 DEF Delegate
<1>7. MandateAt(l2, k) \in Mandate
  BY <1>6, DisclosuresHoldMandates DEF MandateAt
<1> QED
  BY <1>2, <1>3, <1>4, <1>7

\* For every chain, all that is accepted was valid at the instant read on entry
\* (chain.py 166: now is taken once and used for every layer).
THEOREM OneInstant == Spec => []ValidAtOneInstant
<1>1. TypeInv /\ PairingInv /\ TrustInv => ValidAtOneInstant
  <2> SUFFICES ASSUME TypeInv, TrustInv, Accepted
               PROVE  /\ Live(call.l1.jwt, now) /\ Live(call.l2.jwt, now)
                      /\ \A arg \in L3Args : /\ Live(l3s[arg[1]].l3[arg[2]], now)
                                             /\ ~LongLived(l3s[arg[1]].l3[arg[2]])
    BY DEF ValidAtOneInstant
  <2>1. Live(call.l1.jwt, now) /\ Live(call.l2.jwt, now)
    BY DEF Accepted, TrustInv, LayersInv, PastL2, PastL1, L1OK, L2OK
  <2> QED
    BY <2>1, AcceptedL3 DEF L3OK
<1> QED
  BY <1>1, TrustInvariant, PTL

\* For every chain, acceptance means one chain of keys from the issuer to each
\* Layer 3 credential, through every mandate L2 discloses.
THEOREM KeysChain == Spec => []ChainOfTrust
<1>1. TypeInv /\ PairingInv /\ TrustInv => ChainOfTrust
  <2> SUFFICES ASSUME TypeInv, PairingInv, TrustInv, Accepted PROVE ChainOfTrust
    BY DEF ChainOfTrust
  <2>1. L1OK(call, now) /\ L2OK(call, now)
    BY DEF Accepted, TrustInv, LayersInv, PastL2, PastL1
  <2>2. /\ IF call.issuer_key # Absent THEN call.l1.jwt.signer = call.issuer_key ELSE call.skip_issuer
        /\ call.l2.jwt.signer = call.l1.jwt.key
        /\ call.l2.jwt.sd_hash \in {call.l1, call.l1_serialized}
    BY <2>1, FirstOfTwo DEF L1OK, L2OK
  <2>3. ASSUME NEW arg \in L3Args, NEW kind \in Kinds, NEW k \in Disclosed(l2, kind)
        PROVE  /\ l3s[arg[1]].l3[arg[2]].signer = MandateAt(l2, k).key
               /\ MandateAt(l2, k).kid \in {Absent, l3s[arg[1]].l3[arg[2]].kid}
    <3>1. k \in Paired
      BY AcceptedMandate
    <3>2. MandateAt(l2, k).key = agent.key /\ MandateAt(l2, k).kid \in {Absent, agent.kid}
      BY <3>1, AcceptedL3 DEF Delegates
    <3> QED
      BY <3>2, AcceptedL3 DEF L3OK
  <2> QED
    BY <2>2, <2>3 DEF ChainOfTrust
<1> QED
  BY <1>1, TrustInvariant, PTL

\* For every number of pairs, the Layer 3 loop leaves no credential unchecked
\* and no full pair without its cross-reference.
THEOREM AllVisited == Spec => []NothingIgnored
<1>1. TypeInv /\ PairingInv /\ TrustInv => NothingIgnored
  <2> SUFFICES ASSUME TypeInv, TrustInv, Accepted PROVE NothingIgnored
    BY DEF NothingIgnored
  <2>1. L3Args # {} => Len(l3s) = Len(pairs)
    BY AcceptedL3
  <2>2. L3Args \subseteq checked
    BY AcceptedL3
  <2>3. ASSUME NEW n \in DOMAIN l3s, BothGiven(n)
        PROVE  <<n, "cross">> \in checked /\ CrossOK(n)
    <3>1. <<n, "cross">> \in checked
      BY <2>3 DEF Accepted, TrustInv, LoopInv
    <3>2. "cross" \notin Kinds
      BY DEF Kinds
    <3> QED
      BY <3>1, <3>2 DEF Accepted, TrustInv, LoopInv
  <2> QED
    BY <2>1, <2>2, <2>3 DEF NothingIgnored
<1> QED
  BY <1>1, TrustInvariant, PTL

\* For every chain, the mandates of an accepted L2 are of one mode: all open and
\* delegating to a key, or all final, without cnf and without Layer 3 arguments.
THEOREM OneMode == Spec => []ModesNeverMix
<1>1. TypeInv /\ PairingInv /\ TrustInv => ModesNeverMix
  <2> SUFFICES ASSUME TypeInv, PairingInv, TrustInv, Accepted PROVE ModesNeverMix
    BY DEF ModesNeverMix
  <2>1. /\ autonomous <=> Has(TRUE)
        /\ ~(Has(TRUE) /\ Has(FALSE))
        /\ autonomous \/ ~L3Given
    BY DEF Accepted, TrustInv, ModeInv, PastMode, PastL2, PastL1
  <2>2. ASSUME NEW kind \in Kinds, NEW k \in Disclosed(l2, kind)
        PROVE  IF autonomous THEN MandateAt(l2, k).open /\ MandateAt(l2, k).key # Absent
               ELSE ~MandateAt(l2, k).open /\ MandateAt(l2, k).key = Absent
    <3>1. MandateAt(l2, k).open \in BOOLEAN
      BY AcceptedMandate DEF Mandate
    <3>2. CASE autonomous
      <4>1. MandateAt(l2, k).open
        BY <2>1, <3>1, <3>2 DEF Has
      <4>2. Delegates(agent) /\ agent.key \in Keys
        BY <3>2 DEF Accepted, TrustInv, AgentInv
      <4>3. MandateAt(l2, k).key \in Keys
        BY <4>2, AcceptedMandate DEF Delegates
      <4> QED
        BY <3>2, <4>1, <4>3, AbsentIsNoValue
    <3>3. CASE ~autonomous
      <4>1. ~MandateAt(l2, k).open
        BY <2>1, <3>1, <3>3 DEF Has
      <4>2. PICK n \in DOMAIN pairs : pairs[n][kind] = k
        BY AcceptedMandate
      <4>3. FinalPairOK(pairs[n]["checkout"], pairs[n]["payment"])
        BY <3>3 DEF Accepted, TrustInv, MandatesInv, PastMandates, PairOK
      <4>4. MandateAt(l2, k).key = Absent
        BY <4>2, <4>3 DEF FinalPairOK, Kinds
      <4> QED
        BY <3>3, <4>1, <4>4
    <3> QED
      BY <3>2, <3>3
  <2>3. ~autonomous => L3Args = {}
    BY AcceptedL3
  <2> QED
    BY <2>2, <2>3 DEF ModesNeverMix
<1> QED
  BY <1>1, TrustInvariant, PTL

\* For every chain, an accepted Layer 3 payment uses the instrument the user
\* chose in L2, and the card that L1 names.
THEOREM OneInstrument == Spec => []InstrumentCarriedThrough
<1>1. TypeInv /\ PairingInv /\ TrustInv => InstrumentCarriedThrough
  <2> SUFFICES ASSUME TypeInv, TrustInv, Accepted,
                      NEW arg \in L3Args,
                      NEW m \in Range(l3s[arg[1]].l3[arg[2]].mandates), m.kind = "payment"
               PROVE  /\ call.l1.jwt.card \in {Absent, m.instrument}
                      /\ \A k \in Disclosed(l2, "payment") :
                           k = pairs[arg[1]]["payment"] => MandateAt(l2, k).instrument = m.instrument
    BY DEF InstrumentCarriedThrough
  <2> DEFINE p == pairs[arg[1]]["payment"]
  <2>1. p # 0 => m.instrument = MandateAt(l2, p).instrument
    BY AcceptedL3 DEF L3OK, MandatesOK
  <2>2. call.l1.jwt.card # Absent => p # 0 /\ MandateAt(l2, p).instrument = call.l1.jwt.card
    BY AcceptedL3 DEF Accepted, TrustInv, MandatesInv, PastCard, PastMandates, CardOK
  <2>3. 0 \notin Disclosed(l2, "payment")
    BY DisclosedArePositions DEF Accepted, TypeInv, TypeOK
  <2> QED
    BY <2>1, <2>2, <2>3
<1> QED
  BY <1>1, TrustInvariant, PTL

\* For every number of pairs, a Layer 3 credential bound to a presentation of other
\* pairs' mandates, one or several, is found out, and so is one presentation of a
\* single mandate used for two pairs: each must show the mandate of its own
\* position, and those of two positions differ.
THEOREM OrderEnforced == Spec => []MisplacedL3Rejected
<1>1. TypeInv /\ PairingInv /\ TrustInv => MisplacedL3Rejected
  <2> SUFFICES ASSUME TypeInv, PairingInv, TrustInv, Accepted PROVE MisplacedL3Rejected
    BY DEF MisplacedL3Rejected
  <2> DEFINE own(arg) == pairs[arg[1]][arg[2]]
             view(arg) == Bound(call, arg[1], arg[2])
  <2>1. ASSUME NEW arg \in Placed
        PROVE  /\ arg[1] \in DOMAIN pairs /\ arg[2] \in Kinds
               /\ own(arg) \in Disclosed(l2, arg[2]) /\ own(arg) \in MandatesIn(view(arg), arg[2])
    <3>1. arg \in L3Args /\ own(arg) # 0 /\ Ref(l2, own(arg)) # Absent
      BY DEF Placed
    <3>2. arg[1] \in DOMAIN pairs /\ arg[2] \in Kinds
      BY <3>1, AcceptedL3
    <3>3. Ref(l2, own(arg)) \in Range(view(arg).discs)
      BY <3>1, AcceptedL3 DEF L3OK, IdentityBound
    <3>4. own(arg) \in Disclosed(l2, arg[2])
      BY <3>1, <3>2 DEF PairingInv, PairsAreLinked, PairsReady, Accepted
    <3> QED
      BY <3>2, <3>3, <3>4 DEF MandatesIn
  <2>2. ASSUME NEW a \in Placed, NEW b \in Placed, a # b, a[2] = b[2]
        PROVE  own(a) # own(b)
    <3>1. a \in (DOMAIN l3s) \X Kinds /\ b \in (DOMAIN l3s) \X Kinds
      BY DEF Placed, L3Args
    <3>2. a[1] # b[1]
      BY <2>2, <3>1
    <3> QED
      BY <2>1, <2>2, <3>2 DEF PairingInv, EveryMandatePairedOnce, PairsReady, Accepted
  <2>3. ASSUME NEW a \in Placed, NEW b \in Placed, a # b, a[2] = b[2], view(a) = view(b),
               NEW k \in MandatesIn(view(a), a[2])
        PROVE  MandatesIn(view(a), a[2]) # {k}
    <3>1. own(a) \in MandatesIn(view(a), a[2]) /\ own(b) \in MandatesIn(view(b), b[2])
      BY <2>1
    <3>2. own(a) # own(b)
      BY <2>2, <2>3
    <3> HIDE DEF own, view
    <3> QED
      BY <2>3, <3>1, <3>2
  <2> QED
    BY <2>1, <2>3 DEF MisplacedL3Rejected
<1> QED
  BY <1>1, TrustInvariant, PTL
===============================================================================
