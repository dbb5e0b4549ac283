------------------------- MODULE ChainPairingProofs -------------------------
(***************************************************************************)
(* Pairing is sound for every delegate_payload: whatever its length and    *)
(* order, each mandate L2 discloses ends in exactly one pair, with the one *)
(* it names.                                                               *)
(***************************************************************************)
EXTENDS ChainVerifierProofs

BeforeCollect == {"idle", "L1", "L2", "mode"}
AfterMatch == {"mandates", "card", "agent", "payment", "checkout", "cross", "accepted"}

\* The sequence lists the elements of S, each once.
Enumerates(seq, S) == Range(seq) = S /\ IsInjective(seq)

NothingCollected == pos = 1 /\ found = [kind \in Kinds |-> <<>>] /\ pairs = <<>>

\* The entries before pos are sorted by kind, in order and without repetition.
Collecting ==
    /\ pos \in 1..(Len(l2.jwt.delegates) + 1)
    /\ \A kind \in Kinds :
         Enumerates(found[kind], {k \in Disclosed(l2, kind) : k < pos})
    /\ pairs = <<>>

\* The first drivers have each a partner of its own, that names it.
Matching ==
    /\ \A kind \in Kinds : Enumerates(found[kind], Disclosed(l2, kind))
    /\ Len(pairs) <= Len(found[Driver])
    /\ \A n \in DOMAIN pairs :
         /\ pairs[n][Driver] = found[Driver][n]
         /\ pairs[n][Other] \in Range(found[Other])
         /\ PairingKey(Other, pairs[n][Other]) = PairingKey(Driver, pairs[n][Driver])
    /\ \A m, n \in DOMAIN pairs : pairs[m][Other] = pairs[n][Other] => m = n

PairingInv ==
    /\ pc \in BeforeCollect => NothingCollected
    /\ pc = "collect" => Collecting
    /\ pc = "match" => Matching
    /\ EveryMandatePairedOnce
    /\ PairsAreLinked

------------------------------------------------------------------------------
\* The two sides are the two kinds.
LEMMA TwoSides == Kinds = {Driver, Other} /\ Driver # Other
BY DEF Kinds, Driver, Other

\* What L2 discloses are positions of its delegate_payload.
LEMMA DisclosedArePositions ==
    ASSUME call \in Arguments, NEW kind
    PROVE  /\ Len(l2.jwt.delegates) \in Nat
           /\ DOMAIN l2.jwt.delegates = 1..Len(l2.jwt.delegates)
           /\ Disclosed(l2, kind) \subseteq 1..Len(l2.jwt.delegates)
<1>1. l2.jwt.delegates \in Seq(Delegate)
  BY DEF Arguments, Presentation, L2Jwt, l2
<1> QED
  BY <1>1 DEF Disclosed

\* While the arguments stay, so does what L2 discloses.
LEMMA SameDisclosed ==
    ASSUME call' = call
    PROVE  l2' = l2 /\ \A kind : Disclosed(l2, kind)' = Disclosed(l2, kind)
BY DEF l2, Disclosed, Resolved, MandateAt

LEMMA SamePairing ==
    ASSUME UNCHANGED <<call, autonomous, pairs>>, PairsReady
    PROVE  /\ EveryMandatePairedOnce => EveryMandatePairedOnce'
           /\ PairsAreLinked => PairsAreLinked'
<1>1. l2' = l2 /\ \A kind : Disclosed(l2, kind)' = Disclosed(l2, kind)
  BY SameDisclosed
<1>2. \A kind, k : PairingKey(kind, k)' = PairingKey(kind, k)
  BY <1>1 DEF PairingKey, Ref, MandateAt
<1>3. EveryMandatePairedOnce => EveryMandatePairedOnce'
  BY <1>1 DEF EveryMandatePairedOnce
<1>4. PairsAreLinked => PairsAreLinked'
  BY <1>1, <1>2 DEF PairsAreLinked
<1> QED
  BY <1>3, <1>4

\* Appending keeps a sequence free of repetitions if the element is new.
LEMMA EnumeratesAppend ==
    ASSUME NEW T, NEW seq \in Seq(T), NEW S, NEW e \in T, Enumerates(seq, S), e \notin S
    PROVE  Enumerates(Append(seq, e), S \cup {e})
<1> DEFINE longer == Append(seq, e)
<1>1. /\ DOMAIN seq = 1..Len(seq) /\ Len(seq) \in Nat
      /\ DOMAIN longer = 1..(Len(seq) + 1)
      /\ \A n \in 1..Len(seq) : longer[n] = seq[n]
      /\ longer[Len(seq) + 1] = e
  OBVIOUS
<1> HIDE DEF longer
<1>2. Range(longer) = S \cup {e}
  BY <1>1 DEF Enumerates, Range
<1>3. IsInjective(longer)
  <2> SUFFICES ASSUME NEW m \in DOMAIN longer, NEW n \in DOMAIN longer, longer[m] = longer[n]
               PROVE  m = n
    BY DEF IsInjective
  <2>1. \A x \in DOMAIN seq : seq[x] # e
    BY DEF Enumerates, Range
  <2>2. m \in 1..Len(seq) \/ m = Len(seq) + 1
    BY <1>1
  <2>3. n \in 1..Len(seq) \/ n = Len(seq) + 1
    BY <1>1
  <2> QED
    BY <1>1, <2>1, <2>2, <2>3 DEF Enumerates, IsInjective
<1> QED
  BY <1>2, <1>3 DEF Enumerates, longer

------------------------------------------------------------------------------
LEMMA PairingInit == Init => PairingInv
<1> SUFFICES ASSUME Init PROVE PairingInv
  OBVIOUS
<1>1. pc = "idle" /\ NothingCollected
  BY DEF Init, FreshLocals, NothingCollected
<1> QED
  BY <1>1 DEF PairingInv, EveryMandatePairedOnce, PairsAreLinked, PairsReady

\* Every step but those of the pairing code leaves the pairs and what they are
\* made from alone, and enters no stage of pairing from elsewhere.
LEMMA PairingKept ==
    ASSUME PairingInv, UNCHANGED <<call, autonomous, pos, found, pairs>>,
           pc' \in BeforeCollect => pc \in BeforeCollect,
           pc' = "collect" => pc = "collect",
           pc' = "match" => pc = "match",
           pc' \in AfterMatch => pc \in AfterMatch
    PROVE  PairingInv'
<1>1. l2' = l2 /\ \A kind : Disclosed(l2, kind)' = Disclosed(l2, kind)
  BY SameDisclosed
<1>2. \A kind, k : PairingKey(kind, k)' = PairingKey(kind, k)
  BY <1>1 DEF PairingKey, Ref, MandateAt
<1>3. (pc \in BeforeCollect => NothingCollected)'
  BY DEF PairingInv, NothingCollected
<1>4. (pc = "collect" => Collecting)'
  BY <1>1 DEF PairingInv, Collecting
<1>5. (pc = "match" => Matching)'
  BY <1>1, <1>2 DEF PairingInv, Matching, Driver, Other
<1>6. PairsReady' => PairsReady
  BY DEF PairsReady, AfterMatch
<1>7. EveryMandatePairedOnce' /\ PairsAreLinked'
  <2>1. CASE PairsReady
    BY <2>1, SamePairing DEF PairingInv
  <2>2. CASE ~PairsReady'
    BY <2>2 DEF EveryMandatePairedOnce, PairsAreLinked
  <2> QED
    BY <1>6, <2>1, <2>2
<1> QED
  BY <1>3, <1>4, <1>5, <1>7 DEF PairingInv

LEMMA PairingInferMode ==
    ASSUME TypeInv, PairingInv, InferMode
    PROVE  PairingInv'
<1>1. /\ UNCHANGED <<call, pos, found, pairs>>
      /\ pc = "mode" /\ pc' \in {"collect", "rejected"}
  BY DEF InferMode, Continue
<1>2. NothingCollected /\ call \in Arguments
  BY <1>1 DEF PairingInv, BeforeCollect, TypeInv, TypeOK
<1>3. l2' = l2 /\ \A kind : Disclosed(l2, kind)' = Disclosed(l2, kind)
  BY <1>1, SameDisclosed
<1>4. Collecting'
  <2>1. (pos \in 1..(Len(l2.jwt.delegates) + 1) /\ pairs = <<>>)'
    BY <1>1, <1>2, <1>3, DisclosedArePositions DEF NothingCollected
  <2>2. ASSUME NEW kind \in Kinds
        PROVE  Enumerates(found[kind], {k \in Disclosed(l2, kind) : k < pos})'
    <3>1. {k \in Disclosed(l2, kind) : k < 1} = {}
      BY <1>2, DisclosedArePositions
    <3>2. found'[kind] = <<>> /\ pos' = 1
      BY <1>1, <1>2 DEF NothingCollected
    <3>3. Enumerates(<<>>, {})
      BY DEF Enumerates, Range, IsInjective
    <3> QED
      BY <1>3, <3>1, <3>2, <3>3
  <2> QED
    BY <2>1, <2>2 DEF Collecting
<1> QED
  BY <1>1, <1>4 DEF PairingInv, BeforeCollect, EveryMandatePairedOnce, PairsAreLinked, PairsReady

LEMMA PairingCollect ==
    ASSUME TypeInv, PairingInv, CollectMandate
    PROVE  PairingInv'
<1>1. /\ UNCHANGED <<call, pc, pairs>>
      /\ pc = "collect" /\ pos' = pos + 1 /\ pos \in DOMAIN l2.jwt.delegates
  BY DEF CollectMandate
<1>2. Collecting /\ call \in Arguments /\ found \in [Kinds -> Seq(Nat \ {0})] /\ pos \in Nat \ {0}
  BY <1>1 DEF PairingInv, TypeInv, TypeOK, LocalsTyped
<1>3. l2' = l2 /\ \A kind : Disclosed(l2, kind)' = Disclosed(l2, kind)
  BY <1>1, SameDisclosed
<1>4. Collecting'
  <2>1. (pos \in 1..(Len(l2.jwt.delegates) + 1) /\ pairs = <<>>)'
    BY <1>1, <1>2, <1>3, DisclosedArePositions DEF Collecting
  <2>2. ASSUME NEW kind \in Kinds
        PROVE  Enumerates(found[kind], {k \in Disclosed(l2, kind) : k < pos})'
    <3> DEFINE Done(bound) == {k \in Disclosed(l2, kind) : k < bound}
    <3>1. Enumerates(found[kind], Done(pos))
      BY <1>2 DEF Collecting
    <3>2. Disclosed(l2, kind) \subseteq Nat
      BY <1>2, DisclosedArePositions
    <3>3. found'[kind] = IF pos \in Disclosed(l2, kind) THEN Append(found[kind], pos) ELSE found[kind]
      BY DEF CollectMandate
    <3>4. Done(pos') = IF pos \in Disclosed(l2, kind) THEN Done(pos) \cup {pos} ELSE Done(pos)
      BY <1>1, <1>2, <3>2
    <3>5. pos \notin Done(pos)
      BY <1>2
    <3>6. Enumerates(found'[kind], Done(pos'))
      <4> HIDE DEF Done
      <4>1. found[kind] \in Seq(Nat \ {0})
        BY <1>2
      <4>2. Enumerates(Append(found[kind], pos), Done(pos) \cup {pos})
        BY <1>2, <3>1, <3>5, <4>1, EnumeratesAppend
      <4> QED
        BY <3>1, <3>3, <3>4, <4>2
    <3> QED
      BY <1>3, <3>6
  <2> QED
    BY <2>1, <2>2 DEF Collecting
<1> QED
  BY <1>1, <1>4 DEF PairingInv, BeforeCollect, EveryMandatePairedOnce, PairsAreLinked, PairsReady

\* Once the loop has ended, everything disclosed is collected.
LEMMA AllCollected ==
    ASSUME TypeInv, PairingInv, pc = "collect", pos \notin DOMAIN l2.jwt.delegates, NEW kind \in Kinds
    PROVE  Enumerates(found[kind], Disclosed(l2, kind))
<1>1. Collecting /\ call \in Arguments
  BY DEF PairingInv, TypeInv, TypeOK
<1>2. {k \in Disclosed(l2, kind) : k < pos} = Disclosed(l2, kind)
  BY <1>1, DisclosedArePositions DEF Collecting
<1> QED
  BY <1>1, <1>2 DEF Collecting

LEMMA PairingIndex ==
    ASSUME TypeInv, PairingInv, IndexMandates
    PROVE  PairingInv'
<1>1. /\ UNCHANGED <<call, autonomous, found, pairs>>
      /\ pc = "collect" /\ pc' \in {"match", "rejected"}
      /\ pos \notin DOMAIN l2.jwt.delegates
  BY DEF IndexMandates, Continue
<1>2. \A kind \in Kinds : Enumerates(found[kind], Disclosed(l2, kind))
  BY <1>1, AllCollected
<1>3. pairs = <<>> /\ found \in [Kinds -> Seq(Nat \ {0})]
  BY <1>1 DEF PairingInv, Collecting, TypeInv, TypeOK, LocalsTyped
<1>4. l2' = l2 /\ \A kind : Disclosed(l2, kind)' = Disclosed(l2, kind)
  BY <1>1, SameDisclosed
<1>5. Matching'
  <2>1. Len(pairs) = 0 /\ DOMAIN pairs = {} /\ Len(found[Driver]) \in Nat
    BY <1>3, TwoSides
  <2> QED
    BY <1>1, <1>2, <1>4, <2>1 DEF Matching, Driver
<1> QED
  BY <1>1, <1>5 DEF PairingInv, BeforeCollect, EveryMandatePairedOnce, PairsAreLinked, PairsReady

LEMMA PairingOneSided ==
    ASSUME TypeInv, PairingInv, OneSidedPairs
    PROVE  PairingInv'
<1>1. /\ UNCHANGED <<call, autonomous>>
      /\ pc = "collect" /\ pos \notin DOMAIN l2.jwt.delegates
      /\ pc' \in {"mandates", "rejected"} /\ (pc' = "mandates" => autonomous)
  BY DEF OneSidedPairs, Continue
<1>2. PICK kind \in Kinds :
         /\ \A other \in Kinds \ {kind} : found[other] = <<>>
         /\ pairs' = [n \in DOMAIN found[kind] |-> [NoPair EXCEPT ![kind] = found[kind][n]]]
  BY DEF OneSidedPairs
<1>3. /\ Enumerates(found[kind], Disclosed(l2, kind))
      /\ \A other \in Kinds \ {kind} : Disclosed(l2, other) = {}
  <2>1. \A side \in Kinds : Enumerates(found[side], Disclosed(l2, side))
    BY <1>1, AllCollected
  <2> QED
    BY <1>2, <2>1 DEF Enumerates, Range
<1>4. \A n \in DOMAIN pairs' : /\ pairs'[n][kind] = found[kind][n]
                                /\ \A other \in Kinds \ {kind} : pairs'[n][other] = 0
  BY <1>2 DEF NoPair
<1>5. DOMAIN pairs' = DOMAIN found[kind]
  BY <1>2
<1>6. l2' = l2 /\ \A side : Disclosed(l2, side)' = Disclosed(l2, side)
  BY <1>1, SameDisclosed
<1>7. EveryMandatePairedOnce'
  <2>1. ASSUME NEW side \in Kinds, NEW k \in Disclosed(l2, side)
        PROVE  \E n \in DOMAIN pairs' : \A m \in DOMAIN pairs' : (pairs'[m][side] = k) <=> (m = n)
    <3>1. side = kind
      BY <1>3, <2>1
    <3>2. PICK n \in DOMAIN found[kind] : found[kind][n] = k
      BY <1>3, <2>1, <3>1 DEF Enumerates, Range
    <3>3. \A m \in DOMAIN found[kind] : (found[kind][m] = k) <=> (m = n)
      BY <1>3, <3>2 DEF Enumerates, IsInjective
    <3> QED
      BY <1>4, <1>5, <3>1, <3>2, <3>3
  <2> QED
    BY <1>6, <2>1 DEF EveryMandatePairedOnce
<1>8. PairsAreLinked'
  <2> SUFFICES ASSUME PairsReady', NEW n \in DOMAIN pairs', NEW side \in Kinds
               PROVE  IF pairs'[n][side] = 0 THEN Disclosed(l2, side) = {} /\ autonomous
                      ELSE /\ pairs'[n][side] \in Disclosed(l2, side)
                           /\ \A other \in Kinds : pairs'[n][other] # 0 =>
                                PairingKey(side, pairs[n][side])' = PairingKey(other, pairs[n][other])'
    BY <1>1, <1>6 DEF PairsAreLinked
  <2>1. autonomous
    BY <1>1 DEF PairsReady
  <2>2. found[kind][n] \in Disclosed(l2, kind) /\ found[kind][n] # 0
    <3>1. found[kind][n] \in Disclosed(l2, kind)
      BY <1>3, <1>5 DEF Enumerates, Range
    <3>2. call \in Arguments
      BY <1>1 DEF TypeInv, TypeOK
    <3> QED
      BY <3>1, <3>2, DisclosedArePositions
  <2>3. CASE side = kind
    BY <1>4, <2>2, <2>3
  <2>4. CASE side # kind
    BY <1>3, <1>4, <2>1, <2>4
  <2> QED
    BY <2>3, <2>4
<1> QED
  BY <1>1, <1>7, <1>8 DEF PairingInv, BeforeCollect

LEMMA PairingMatch ==
    ASSUME TypeInv, PairingInv, MatchMandate
    PROVE  PairingInv'
<1>1. /\ UNCHANGED <<call, pc, autonomous, found>>
      /\ pc = "match" /\ Len(pairs) < Len(found[Driver])
  BY DEF MatchMandate
<1>2. PICK m \in Partners(Current) :
         pairs' = Append(pairs, [kind \in Kinds |-> IF kind = Driver THEN Current ELSE m])
  BY DEF MatchMandate
<1>3. Matching /\ pairs \in Seq([Kinds -> Nat]) /\ found \in [Kinds -> Seq(Nat \ {0})]
  BY <1>1 DEF PairingInv, TypeInv, TypeOK, LocalsTyped
<1> DEFINE last == Len(pairs) + 1
<1>4. /\ DOMAIN pairs = 1..Len(pairs) /\ Len(pairs) \in Nat /\ Len(pairs') = last
      /\ DOMAIN pairs' = DOMAIN pairs \cup {last}
      /\ \A n \in DOMAIN pairs : n # last /\ pairs'[n] = pairs[n]
  BY <1>2, <1>3
<1>5. /\ pairs'[last][Driver] = found[Driver][last]
      /\ pairs'[last][Other] = m
  <2>1. pairs'[last] = [kind \in Kinds |-> IF kind = Driver THEN Current ELSE m]
    BY <1>2, <1>3
  <2> QED
    BY <2>1, TwoSides DEF Current
<1>6. /\ m \in Range(found[Other])
      /\ \A n \in DOMAIN pairs : pairs[n][Other] # m
      /\ PairingKey(Other, m) = PairingKey(Driver, found[Driver][last])
  BY DEF Partners, Matched, Current
<1>7. /\ Driver' = Driver /\ Other' = Other
      /\ l2' = l2 /\ \A kind : Disclosed(l2, kind)' = Disclosed(l2, kind)
      /\ \A kind, k : PairingKey(kind, k)' = PairingKey(kind, k)
  BY <1>1, SameDisclosed DEF Driver, Other, PairingKey, Ref, MandateAt
<1> HIDE DEF last
<1>8. Matching'
  <2>1. \A kind \in Kinds : Enumerates(found'[kind], Disclosed(l2, kind)')
    BY <1>1, <1>3, <1>7 DEF Matching
  <2>2. Len(pairs') <= Len(found[Driver])
    BY <1>1, <1>3, <1>4, TwoSides DEF last
  <2>3. ASSUME NEW n \in DOMAIN pairs'
        PROVE  /\ pairs'[n][Driver] = found[Driver][n]
               /\ pairs'[n][Other] \in Range(found[Other])
               /\ PairingKey(Other, pairs'[n][Other]) = PairingKey(Driver, pairs'[n][Driver])
    <3>1. CASE n \in DOMAIN pairs
      BY <1>3, <1>4, <3>1 DEF Matching
    <3>2. CASE n = last
      BY <1>5, <1>6, <3>2
    <3> QED
      BY <1>4, <3>1, <3>2
  <2>4. ASSUME NEW j \in DOMAIN pairs', NEW n \in DOMAIN pairs', pairs'[j][Other] = pairs'[n][Other]
        PROVE  j = n
    <3>1. \A x, y \in DOMAIN pairs : pairs[x][Other] = pairs[y][Other] => x = y
      BY <1>3 DEF Matching
    <3>2. \A x \in DOMAIN pairs : pairs'[x][Other] # m
      BY <1>4, <1>6
    <3> QED
      BY <1>4, <1>5, <2>4, <3>1, <3>2
  <2> QED
    BY <1>1, <1>7, <2>1, <2>2, <2>3, <2>4 DEF Matching
<1> QED
  BY <1>1, <1>8 DEF PairingInv, BeforeCollect, EveryMandatePairedOnce, PairsAreLinked, PairsReady

\* The end of matching: every driver has its partner and no partner is left over.
LEMMA MatchedSoundly ==
    ASSUME TypeInv, Matching, pc = "match", Len(pairs) = Len(found[Driver]),
           Range(found[Other]) \subseteq Matched(Other)
    PROVE  /\ \A kind \in Kinds : \A k \in Disclosed(l2, kind) :
                \E n \in DOMAIN pairs : \A m \in DOMAIN pairs : (pairs[m][kind] = k) <=> (m = n)
           /\ \A n \in DOMAIN pairs : \A kind \in Kinds :
                /\ pairs[n][kind] # 0 /\ pairs[n][kind] \in Disclosed(l2, kind)
                /\ \A other \in Kinds :
                     PairingKey(kind, pairs[n][kind]) = PairingKey(other, pairs[n][other])
<1>1. /\ pairs \in Seq([Kinds -> Nat]) /\ found \in [Kinds -> Seq(Nat \ {0})]
      /\ call \in Arguments
  BY DEF TypeInv, TypeOK, LocalsTyped
<1>2. DOMAIN pairs = DOMAIN found[Driver]
  <2>1. found[Driver] \in Seq(Nat \ {0})
    BY <1>1, TwoSides
  <2> QED
    BY <1>1, <2>1
<1>3. /\ Enumerates(found[Driver], Disclosed(l2, Driver))
      /\ Enumerates(found[Other], Disclosed(l2, Other))
  BY TwoSides DEF Matching
<1>4. \A n \in DOMAIN pairs :
         /\ pairs[n][Driver] = found[Driver][n]
         /\ pairs[n][Other] \in Disclosed(l2, Other)
         /\ PairingKey(Other, pairs[n][Other]) = PairingKey(Driver, pairs[n][Driver])
  BY <1>3 DEF Matching, Enumerates
<1>5. ASSUME NEW k \in Disclosed(l2, Driver)
      PROVE  \E n \in DOMAIN pairs : \A m \in DOMAIN pairs : (pairs[m][Driver] = k) <=> (m = n)
  <2>1. PICK n \in DOMAIN found[Driver] : found[Driver][n] = k
    BY <1>3 DEF Enumerates, Range
  <2>2. \A m \in DOMAIN found[Driver] : (found[Driver][m] = k) <=> (m = n)
    BY <1>3, <2>1 DEF Enumerates, IsInjective
  <2> QED
    BY <1>2, <1>4, <2>1, <2>2
<1>6. ASSUME NEW k \in Disclosed(l2, Other)
      PROVE  \E n \in DOMAIN pairs : \A m \in DOMAIN pairs : (pairs[m][Other] = k) <=> (m = n)
  <2>1. PICK n \in DOMAIN pairs : pairs[n][Other] = k
    BY <1>3 DEF Enumerates, Matched
  <2> QED
    BY <2>1 DEF Matching
<1>7. \A n \in DOMAIN pairs : pairs[n][Driver] \in Disclosed(l2, Driver)
  BY <1>2, <1>3, <1>4 DEF Enumerates, Range
<1>8. \A kind : 0 \notin Disclosed(l2, kind)
  BY <1>1, DisclosedArePositions
<1> QED
  BY <1>4, <1>5, <1>6, <1>7, <1>8, TwoSides

LEMMA PairingOrphans ==
    ASSUME TypeInv, PairingInv, RejectOrphans
    PROVE  PairingInv'
<1>1. /\ UNCHANGED <<call, autonomous, pairs>>
      /\ pc = "match" /\ pc' \in {"mandates", "rejected"}
      /\ Len(pairs) = Len(found[Driver])
      /\ pc' = "mandates" => Range(found[Other]) \subseteq Matched(Other)
  BY DEF RejectOrphans, Continue
<1>2. Matching
  BY <1>1 DEF PairingInv
<1>3. /\ l2' = l2 /\ \A kind : Disclosed(l2, kind)' = Disclosed(l2, kind)
      /\ \A kind, k : PairingKey(kind, k)' = PairingKey(kind, k)
  BY <1>1, SameDisclosed DEF PairingKey, Ref, MandateAt
<1>4. EveryMandatePairedOnce'
  <2> SUFFICES ASSUME PairsReady' PROVE EveryMandatePairedOnce'
    BY DEF EveryMandatePairedOnce
  <2>1. Range(found[Other]) \subseteq Matched(Other)
    BY <1>1 DEF PairsReady
  <2> QED
    BY <1>1, <1>2, <1>3, <2>1, MatchedSoundly DEF EveryMandatePairedOnce
<1>5. PairsAreLinked'
  <2> SUFFICES ASSUME PairsReady' PROVE PairsAreLinked'
    BY DEF PairsAreLinked
  <2>1. Range(found[Other]) \subseteq Matched(Other)
    BY <1>1 DEF PairsReady
  <2> QED
    BY <1>1, <1>2, <1>3, <2>1, MatchedSoundly DEF PairsAreLinked
<1> QED
  BY <1>1, <1>4, <1>5 DEF PairingInv, BeforeCollect

\* Entry, return and the clock.
LEMMA PairingFrame ==
    ASSUME TypeInv, PairingInv, Call \/ Return \/ Tick \/ UNCHANGED vars
    PROVE  PairingInv'
<1>1. CASE Call
  <2>1. /\ UNCHANGED <<pos, found, pairs>> /\ pc = "idle" /\ pc' \in {"L1", "rejected"}
    BY <1>1 DEF Call, Continue
  <2>2. NothingCollected'
    BY <2>1 DEF PairingInv, BeforeCollect, NothingCollected
  <2> QED
    BY <2>1, <2>2 DEF PairingInv, EveryMandatePairedOnce, PairsAreLinked, PairsReady
<1>2. CASE Return
  <2>1. NothingCollected' /\ pc' = "idle"
    BY <1>2 DEF Return, NothingCollected
  <2> QED
    BY <2>1 DEF PairingInv, EveryMandatePairedOnce, PairsAreLinked, PairsReady
<1>3. CASE Tick \/ UNCHANGED vars
  <2>1. UNCHANGED <<pc, call, autonomous, pos, found, pairs>>
    BY <1>3 DEF Tick, vars
  <2> QED
    BY <2>1, PairingKept
<1> QED
  BY <1>1, <1>2, <1>3

\* The stages before and after pairing.
LEMMA PairingElsewhere ==
    ASSUME PairingInv,
           \/ CheckL1 \/ CheckL2 \/ RejectDuplicate \/ RejectUnmatched
           \/ CheckMandates \/ CheckCard \/ ExtractAgentKey \/ RejectAgentKey
           \/ \E kind \in Kinds : SkipL3(kind) \/ CheckL3(kind) \/ RejectL3(kind)
           \/ CrossReference \/ RejectCrossReference
    PROVE  PairingInv'
<1>1. UNCHANGED <<call, autonomous, pos, found, pairs>>
  BY DEF CheckL1, CheckL2, RejectDuplicate, RejectUnmatched, CheckMandates, CheckCard,
         ExtractAgentKey, RejectAgentKey, SkipL3, CheckL3, RejectL3, CrossReference,
         RejectCrossReference
<1>2. \/ pc \in {"L1", "L2"} /\ pc' \in {"L2", "mode", "rejected"}
      \/ pc' = "rejected"
      \/ pc \in AfterMatch /\ pc' \in AfterMatch
  BY DEF CheckL1, CheckL2, RejectDuplicate, RejectUnmatched, CheckMandates, CheckCard,
         ExtractAgentKey, RejectAgentKey, SkipL3, CheckL3, RejectL3, CrossReference,
         RejectCrossReference, Continue, AfterMatch, After, Kinds
<1> QED
  BY <1>1, <1>2, PairingKept DEF BeforeCollect, AfterMatch

LEMMA PairingStep == TypeInv /\ PairingInv /\ [Next]_vars => PairingInv'
BY PairingFrame, PairingElsewhere, PairingInferMode, PairingCollect, PairingIndex,
   PairingOneSided, PairingMatch, PairingOrphans DEF Next, Verify

LEMMA PairingInvariant == Spec => []PairingInv
<1>1. Init => TypeInv /\ PairingInv
  BY TypeInit, PairingInit
<1>2. TypeInv /\ PairingInv /\ [Next]_vars => (TypeInv /\ PairingInv)'
  BY TypeStep, PairingStep
<1> QED
  BY <1>1, <1>2, PTL DEF Spec

\* However long delegate_payload is, no mandate L2 discloses is dropped by the
\* pairing code or lands in two pairs (chain.py 772-920).
THEOREM MandatesPairedOnce == Spec => []EveryMandatePairedOnce
<1>1. PairingInv => EveryMandatePairedOnce
  BY DEF PairingInv
<1> QED
  BY <1>1, PairingInvariant, PTL

\* However long delegate_payload is, the two mandates of a pair name each other,
\* and one-sided pairs stand for partial disclosure only (chain.py 806-920).
THEOREM PairsLinked == Spec => []PairsAreLinked
<1>1. PairingInv => PairsAreLinked
  BY DEF PairingInv
<1> QED
  BY <1>1, PairingInvariant, PTL
==============================================================================
