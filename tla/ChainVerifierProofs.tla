------------------------- MODULE ChainVerifierProofs -------------------------
(***************************************************************************)
(* Theorems about ChainVerifier, for every set of calls, every catalogue   *)
(* of mandates and every clock bound.                                      *)
(***************************************************************************)
EXTENDS ChainVerifier, SequenceTheorems, TLAPS

Early == {"L1", "L2", "mode", "collect", "match", "mandates", "card", "agent"}

\* The Layer 3 loop has not started: its index and its results are fresh.
LoopNotStarted == pc \in Early => i = 1 /\ checked = {}

TypeInv == TypeOK /\ LoopNotStarted

locals == <<autonomous, pos, found, pairs, agent, i, checked>>

------------------------------------------------------------------------------
LEMMA FreshTyped == FreshLocals => LocalsTyped /\ i = 1 /\ checked = {}
<1> SUFFICES ASSUME FreshLocals PROVE LocalsTyped /\ i = 1 /\ checked = {}
  OBVIOUS
<1>1. <<>> \in Seq(Nat \ {0}) /\ <<>> \in Seq([Kinds -> Nat])
  OBVIOUS
<1>2. found \in [Kinds -> Seq(Nat \ {0})]
  BY <1>1 DEF FreshLocals
<1>3. agent \in [key: OrAbsent(Keys), kid: OrAbsent(Kids)]
  BY DEF FreshLocals, NoAgent, OrAbsent
<1>4. autonomous \in BOOLEAN
  BY Zenon DEF FreshLocals
<1>5. /\ pos \in Nat \ {0} /\ i \in Nat \ {0} /\ i = 1
      /\ checked = {} /\ pairs \in Seq([Kinds -> Nat])
      /\ checked \in SUBSET (Nat \X (Kinds \cup {"cross"}))
  BY <1>1 DEF FreshLocals
<1> QED
  BY <1>2, <1>3, <1>4, <1>5, Zenon DEF LocalsTyped

LEMMA SameLocalsTyped ==
    ASSUME LocalsTyped, UNCHANGED locals
    PROVE  LocalsTyped'
BY DEF LocalsTyped, locals

LEMMA TypeInit == Init => TypeInv
<1> SUFFICES ASSUME Init PROVE TypeInv
  OBVIOUS
<1>1. TypeOK
  BY FreshTyped DEF Init, TypeOK, Stages, Returned, Kinds, LoopInBounds
<1>2. LoopNotStarted
  BY DEF Init, LoopNotStarted, Early
<1> QED
  BY <1>1, <1>2 DEF TypeInv

\* The stages that only pass or fail, all of them before the Layer 3 loop.
LEMMA TypeCheck ==
    ASSUME TypeInv, CheckL1 \/ CheckL2 \/ IndexMandates \/ RejectOrphans \/ CheckMandates
                    \/ CheckCard \/ RejectAgentKey \/ RejectDuplicate \/ RejectUnmatched
    PROVE  TypeInv'
<1> USE DEF Stages, Returned, Kinds, Early, Continue
<1>1. /\ UNCHANGED <<clock, call, now, locals>>
      /\ pc \in Early
      /\ pc' \in Early \cup Returned
  BY DEF CheckL1, CheckL2, IndexMandates, RejectOrphans, CheckMandates,
         CheckCard, RejectAgentKey, RejectDuplicate, RejectUnmatched, locals
<1>2. LocalsTyped'
  BY <1>1, SameLocalsTyped DEF TypeInv, TypeOK
<1>3. TypeOK'
  BY <1>1, <1>2 DEF TypeInv, TypeOK, LoopInBounds
<1>4. LoopNotStarted'
  BY <1>1 DEF TypeInv, LoopNotStarted, locals
<1> QED
  BY <1>3, <1>4 DEF TypeInv
LEMMA TypeInferMode == ASSUME TypeInv, InferMode PROVE TypeInv'
<1> USE DEF Stages, Returned, Kinds, Early, Continue
<1>1. /\ UNCHANGED <<clock, call, now, pos, found, pairs, agent, i, checked>>
      /\ pc = "mode"
      /\ pc' \in {"collect", "rejected"}
  BY DEF InferMode
<1>2. autonomous' \in BOOLEAN
  BY DEF InferMode, Has
<1>3. TypeOK'
  BY <1>1, <1>2 DEF TypeInv, TypeOK, LocalsTyped, LoopInBounds
<1>4. LoopNotStarted'
  BY <1>1 DEF TypeInv, LoopNotStarted
<1> QED
  BY <1>3, <1>4 DEF TypeInv

LEMMA TypeCollect == ASSUME TypeInv, CollectMandate PROVE TypeInv'
<1> USE DEF Stages, Returned, Kinds, Early
<1>1. /\ UNCHANGED <<clock, call, now, pc, autonomous, pairs, agent, i, checked>>
      /\ pc = "collect"
      /\ pos' = pos + 1
  BY DEF CollectMandate
<1>2. found' \in [Kinds -> Seq(Nat \ {0})]
  <2>1. ASSUME NEW kind \in Kinds
        PROVE  (IF pos \in Disclosed(l2, kind) THEN Append(found[kind], pos) ELSE found[kind])
                  \in Seq(Nat \ {0})
    <3>1. found[kind] \in Seq(Nat \ {0}) /\ pos \in Nat \ {0}
      BY DEF TypeInv, TypeOK, LocalsTyped
    <3> QED
      BY <3>1, AppendProperties, Zenon
  <2> QED
    BY <2>1, Zenon DEF CollectMandate
<1>3. TypeOK'
  BY <1>1, <1>2 DEF TypeInv, TypeOK, LocalsTyped, LoopInBounds
<1>4. LoopNotStarted'
  BY <1>1 DEF TypeInv, LoopNotStarted
<1> QED
  BY <1>3, <1>4 DEF TypeInv

LEMMA TypeOneSided == ASSUME TypeInv, OneSidedPairs PROVE TypeInv'
<1> USE DEF Stages, Returned, Kinds, Early, Continue
<1>1. /\ UNCHANGED <<clock, call, now, autonomous, pos, found, agent, i, checked>>
      /\ pc = "collect"
      /\ pc' \in {"mandates", "rejected"}
  BY DEF OneSidedPairs
<1>2. pairs' \in Seq([Kinds -> Nat])
  <2>1. PICK kind \in Kinds :
          pairs' = [n \in DOMAIN found[kind] |-> [NoPair EXCEPT ![kind] = found[kind][n]]]
    BY DEF OneSidedPairs
  <2>2. found[kind] \in Seq(Nat \ {0})
    BY DEF TypeInv, TypeOK, LocalsTyped
  <2>3. DOMAIN found[kind] = 1..Len(found[kind]) /\ Len(found[kind]) \in Nat
    BY <2>2
  <2>4. ASSUME NEW n \in DOMAIN found[kind]
        PROVE  [NoPair EXCEPT ![kind] = found[kind][n]] \in [Kinds -> Nat]
    BY <2>2 DEF NoPair
  <2> QED
    BY <2>1, <2>3, <2>4
<1>3. TypeOK'
  BY <1>1, <1>2 DEF TypeInv, TypeOK, LocalsTyped, LoopInBounds
<1>4. LoopNotStarted'
  BY <1>1 DEF TypeInv, LoopNotStarted
<1> QED
  BY <1>3, <1>4 DEF TypeInv

LEMMA TypeMatch == ASSUME TypeInv, MatchMandate PROVE TypeInv'
<1> USE DEF Stages, Returned, Kinds, Early
<1>1. /\ UNCHANGED <<clock, call, now, pc, autonomous, pos, found, agent, i, checked>>
      /\ pc = "match"
  BY DEF MatchMandate
<1>2. pairs' \in Seq([Kinds -> Nat])
  <2>1. PICK m \in Partners(Current) :
          pairs' = Append(pairs, [kind \in Kinds |-> IF kind = Driver THEN Current ELSE m])
    BY DEF MatchMandate
  <2>2. Driver \in Kinds /\ Other \in Kinds
    BY DEF Driver, Other
  <2>3. found[Driver] \in Seq(Nat) /\ found[Other] \in Seq(Nat) /\ pairs \in Seq([Kinds -> Nat])
    BY <2>2 DEF TypeInv, TypeOK, LocalsTyped
  <2>4. Len(pairs) + 1 \in 1..Len(found[Driver])
    BY <2>3 DEF MatchMandate
  <2>5. Current \in Nat
    BY <2>3, <2>4 DEF Current
  <2>6. m \in Nat
    BY <2>1, <2>3 DEF Partners, Range
  <2> QED
    BY <2>1, <2>3, <2>5, <2>6, AppendProperties
<1>3. TypeOK'
  BY <1>1, <1>2 DEF TypeInv, TypeOK, LocalsTyped, LoopInBounds
<1>4. LoopNotStarted'
  BY <1>1 DEF TypeInv, LoopNotStarted
<1> QED
  BY <1>3, <1>4 DEF TypeInv

\* The one way into the Layer 3 loop: one element per pair, the index at 1.
LEMMA TypeAgentKey == ASSUME TypeInv, ExtractAgentKey PROVE TypeInv'
<1> USE DEF Stages, Returned, Kinds, Early, Continue
<1>1. /\ UNCHANGED <<clock, call, now, autonomous, pos, found, pairs, i, checked>>
      /\ pc = "agent" /\ pc' \in {"payment", "accepted", "rejected"}
      /\ pc' = "payment" => Len(l3s) = Len(pairs) /\ l3s # <<>>
  BY DEF ExtractAgentKey
<1>2. agent' \in [key: OrAbsent(Keys), kid: OrAbsent(Kids)]
  BY DEF ExtractAgentKey, Agents, OrAbsent
<1>3. l3s \in Seq(SplitL3)
  BY <1>1 DEF TypeInv, TypeOK, Arguments, l3s
<1>4. LoopInBounds'
  BY <1>1, <1>3 DEF TypeInv, LoopNotStarted, LoopInBounds, l3s
<1>5. TypeOK'
  BY <1>1, <1>2, <1>4 DEF TypeInv, TypeOK, LocalsTyped
<1>6. LoopNotStarted'
  BY <1>1 DEF LoopNotStarted
<1> QED
  BY <1>5, <1>6 DEF TypeInv

LEMMA TypeL3 ==
    ASSUME TypeInv, NEW kind \in Kinds, SkipL3(kind) \/ CheckL3(kind) \/ RejectL3(kind)
    PROVE  TypeInv'
<1> USE DEF Stages, Returned, Kinds, Early, After
<1>1. /\ UNCHANGED <<clock, call, now, autonomous, pos, found, pairs, agent, i>>
      /\ pc = kind /\ pc' \in {"checkout", "cross", "rejected"}
      /\ checked' \in {checked, checked \cup {<<i, kind>>}}
  BY DEF SkipL3, CheckL3, RejectL3
<1>2. LocalsTyped'
  BY <1>1 DEF TypeInv, TypeOK, LocalsTyped
<1>3. TypeOK'
  BY <1>1, <1>2 DEF TypeInv, TypeOK, LoopInBounds, l3s
<1>4. LoopNotStarted'
  BY <1>1 DEF LoopNotStarted
<1> QED
  BY <1>3, <1>4 DEF TypeInv

LEMMA TypeCross ==
    ASSUME TypeInv, CrossReference \/ RejectCrossReference
    PROVE  TypeInv'
<1> USE DEF Stages, Returned, Kinds, Early
<1>1. /\ UNCHANGED <<clock, call, now, autonomous, pos, found, pairs, agent>>
      /\ pc = "cross" /\ pc' \in {"payment", "accepted", "rejected"}
      /\ i' = i + 1 \/ (i' = i /\ pc' = "rejected")
      /\ pc' = "payment" => i' = i + 1 /\ i < Len(l3s)
      /\ checked' \in {checked, checked \cup {<<i, "cross">>}}
  BY DEF CrossReference, RejectCrossReference
<1>2. LocalsTyped'
  BY <1>1 DEF TypeInv, TypeOK, LocalsTyped
<1>3. l3s \in Seq(SplitL3)
  BY <1>1 DEF TypeInv, TypeOK, Arguments, l3s
<1>4. LoopInBounds'
  BY <1>1, <1>3 DEF TypeInv, TypeOK, LoopInBounds, LocalsTyped, l3s
<1>5. TypeOK'
  BY <1>1, <1>2, <1>4 DEF TypeInv, TypeOK
<1>6. LoopNotStarted'
  BY <1>1 DEF LoopNotStarted
<1> QED
  BY <1>5, <1>6 DEF TypeInv

\* Entry, return and the clock.
LEMMA TypeFrame ==
    ASSUME TypeInv, Call \/ Return \/ Tick \/ UNCHANGED vars
    PROVE  TypeInv'
<1> USE DEF Stages, Returned, Kinds, Early
<1>1. CASE Call
  <2>1. /\ UNCHANGED <<clock, locals>> /\ pc = "idle"
        /\ call' \in Arguments /\ now' = clock /\ pc' \in {"L1", "rejected"}
    BY <1>1, CallsAreArguments DEF Call, Continue, locals
  <2>2. LocalsTyped' /\ i' = 1 /\ checked' = {}
    BY <2>1, FreshTyped, SameLocalsTyped DEF TypeInv, TypeOK, locals
  <2> QED
    BY <2>1, <2>2 DEF TypeInv, TypeOK, LoopNotStarted, LoopInBounds
<1>2. CASE Return
  <2>1. FreshLocals' /\ pc' = "idle" /\ call' = Absent /\ now' = 0 /\ clock' = clock
    BY <1>2 DEF Return, FreshLocals
  <2>2. LocalsTyped'
    BY <2>1, FreshTyped, PTL
  <2> QED
    BY <2>1, <2>2 DEF TypeInv, TypeOK, LoopNotStarted, LoopInBounds
<1>3. CASE Tick \/ UNCHANGED vars
  <2>1. /\ UNCHANGED <<call, now, pc, locals>> /\ clock' \in {clock, clock + 1}
    BY <1>3 DEF Tick, vars, locals
  <2>2. LocalsTyped'
    BY <2>1, SameLocalsTyped DEF TypeInv, TypeOK
  <2>3. TypeOK'
    BY <2>1, <2>2 DEF TypeInv, TypeOK, LoopInBounds, l3s, FreshLocals, locals
  <2> QED
    BY <2>1, <2>3 DEF TypeInv, LoopNotStarted, locals
<1> QED
  BY <1>1, <1>2, <1>3

LEMMA TypeStep == TypeInv /\ [Next]_vars => TypeInv'
BY TypeCheck, TypeInferMode, TypeCollect, TypeOneSided, TypeMatch, TypeAgentKey,
   TypeL3, TypeCross, TypeFrame DEF Next, Verify

\* Type correctness of the verifier: in particular the Layer 3 loop never indexes
\* past the mandate pairs or past its own list (chain.py 486-499).
THEOREM TypeCorrect == Spec => []TypeOK
<1>1. Init => TypeInv
  BY TypeInit
<1>2. TypeInv /\ [Next]_vars => TypeInv'
  BY TypeStep
<1>3. TypeInv => TypeOK
  BY DEF TypeInv
<1> QED
  BY <1>1, <1>2, <1>3, PTL DEF Spec
==============================================================================
