# Verifiable Intent: TLA+ models, model checking and proofs

Verifiable Intent is a library (`src/verifiable_intent`) for a delegation chain
of up to three layers of signed SD-JWT credentials:

- **Layer 1** (L1), from the card issuer, names the user's key;
- **Layer 2** (L2), signed by the user, carries *mandates*: in *immediate* mode final
  checkout and payment mandates, in *autonomous* mode open ones that name an
  agent's key;
- **Layer 3** (L3), signed by the agent, in autonomous mode only: L3a, a final payment
  for the payment network, and L3b, a final checkout for the merchant.

Each layer is bound to a presentation of the one above by `sd_hash`, and each
verifier sees only the disclosures that concern it. The library keeps no state
between calls, opens no connection and starts no thread; what is hard in it is the
long sequence of checks and early returns over a combinatorial input, in which
mandates are paired, keys inferred and credentials matched by position.

Paths below are relative to the repository; `chain.py` is
`src/verifiable_intent/verification/chain.py`.

## 1. Inventory

| component | source | state | operations | interacts with |
|---|---|---|---|---|
| chain verifier | `verification/chain.py`, `integrity.py` | the locals of one call and its `ChainVerificationResult`; reads the clock once | `verify_chain`; helpers that pair mandates, check a pair, extract the agent key, check L3 mandates | parsed credentials from the SD-JWT core; called by the role orchestration |
| SD-JWT core | `crypto/sd_jwt.py`, `disclosure.py` | `SdJwt`: header, payload, signature, disclosures; raw segments kept for serialization | create, decode, serialize (whole or selected disclosures), verify, resolve | signatures; used by everything |
| key-binding presentations | `crypto/kb_sd_jwt.py` | none; writes `sd_hash` into the caller's payload | `create_kb_sd_jwt`, `verify_kb_jwt` | SD-JWT core |
| signatures, encodings | `crypto/signing.py`, `jcs.py` | none | ES256, JWK, base64url, canonical JSON | `cryptography` |
| issuer, agent issuance | `issuance/issuer.py`, `agent.py` | none | `create_layer1`, `create_layer3_payment`, `create_layer3_checkout` | models, SD-JWT core |
| user issuance | `issuance/user.py` | mutates the mandates it is given | `create_layer2_immediate`, `create_layer2_autonomous` | models, SD-JWT core |
| constraint checker | `verification/constraint_checker.py`, `models/constraints.py` | a registry of constraint types | `check_constraints` and one handler per type, under two strictness modes, a policy per unknown type, and openness | role orchestration |
| data models | `models/*.py` | dataclasses | construction rules, `to_dict` | issuance |
| role orchestration | `examples/helpers.py`, `autonomous_flow.py`, `network_validation.py`, `immediate_flow.py` | none | `build_role_presentations`, `validate_intent`; the steps of the flows | issuance, verifier, checker |
| cart model, demos, exports | `models/cart.py`, `__init__.py` files, `examples/selective_disclosure.py`, `constraint_checking.py` | none | print and re-export | issuance, checker |

What makes each correct, and hard:

- **Verifier.** It accepts a call exactly if the credentials together authorise what
  they show, all judged at the same instant. Nothing shown may escape the checks: a mandate
  left out of every pair, an L3 credential checked against another pair's mandate, a
  mode inferred from one list and enforced on another, a check behind an early
  return. Hard: order of checks, partial disclosure, positional matching, time.
- **User issuance.** What is signed is what the mandate says, also when the mandate object
  is used again or an issue fails half way. Hard: in-place mutation, partial failure.
- **Constraint checker.** A fulfilment passes exactly if it satisfies every constraint as
  defined. Hard: line items with overlapping alternatives, strictness modes, bounds.
- **Role orchestration.** Network and merchant, each with its own view, accept only
  halves of the same purchase within the user's constraints. Hard: each sees only
  a part; several pairs; one credential per role.

The hazards at their lines, and the properties aimed at each, are in `PROJECT.json`.

## 2. Plan

In order of importance.

| modules | what | status |
|---|---|---|
| `Credentials`, `ChainVerifier` | the symbolic data of the chain; `verify_chain` stage by stage | done |
| `ChainSpec`, `ChainRefinement` | the verdict as one declarative predicate; `ChainVerifier` implements it | done |
| `ChainVerifierProofs`, `ChainPairingProofs`, `ChainTrustProofs`, `ChainRefinementProofs` | the verifier's safety properties; that it implements `ChainSpec` | done |
| `AutonomousIssuance`, `IssuanceSpec`, `IssuanceRefinement` | `create_layer2_autonomous` on objects that are shared, edited, reused and left half replaced; what a credential says, without loops and references | done |
| `ImmediateIssuance` | `create_layer2_immediate` on objects that are combined and reused, up to what `verify_chain` makes of the credential | done |
| `Constraints`, `ConstraintChecker`, `ConstraintSpec`, `ConstraintRefinement` | `check_constraints` as it runs; each constraint as one rule | done |
| `Delegation` | issuer, user, agents, networks and merchant, with the issuers' credentials, role presentations, and the verifiers' calls of `verify_chain` and `check_constraints` | done |
| `AutonomousIssuanceProofs`, `ImmediateIssuanceProofs`, `ConstraintProofs`, `DelegationProofs` | their theorems, among them the refinements of `IssuanceSpec` and `ConstraintSpec` | done |

Worth proving next: that the flows need no more of `validate_intent` than the first
payment mandate it sees, stated on its own; and an abstract specification of the immediate
issuer, whose only contract so far is `AcceptedIffMeant`.

How the modules compose: `ImmediateIssuance` and `Delegation` ask
`ChainSpec!Authorized` for the verdict of `verify_chain`, and `Delegation` asks
`ConstraintSpec!Judgement` for that of `check_constraints`. Both are the
abstract specifications that the detailed modules implement (runs `pairing`, `chain`,
`constraints`), so that a call is one step in the composition and its stages are
checked once, on their own.

## 3. The modules

### The verifier

**`Credentials`** holds the data. A signature is the key that made it; a hash is the
thing hashed, so a disclosure is named by its hash, `MandateOf` gives the mandate inside, an
`sd_hash` is the presentation it was computed over, and a `checkout_hash` is the
`checkout_jwt`. Absent or empty claims are `Absent`; time claims of the wrong JSON
type are `Malformed`, which the code reads as expired and as future-dated. Claims that are
only checked for form (`alg`, `_sd_alg`, JSON types, the `typ` and `vct` that do not
depend on the mode) are one Boolean, `formed`; the fields required of a kind of mandate are
one Boolean, `complete`. A presentation is a JWT with a list of disclosures, so the two
serializations of the same credential with different disclosures are
different values, as `sd_hash` requires.

**`ChainVerifier`** has one action per stage of `verify_chain`, in source order, and one
per iteration of each loop. `pc` is the stage about to run, or `accepted`/`rejected` once the
function has returned; the other variables are its locals:

| variable | in the code |
|---|---|
| `clock`, `now` | `time.time()`, and the value read on entry (line 166) |
| `call` | the arguments |
| `autonomous` | `is_autonomous` (line 333) |
| `pos`, `found` | the loop over `delegate_payload`, and `checkouts`/`payments` (782-804), as positions |
| `pairs` | `mandate_pairs`; a pair maps each kind to a position, 0 for `None` |
| `agent` | `agent_pub_key` and `agent_kid` (459-468) |
| `i`, `checked` | `pair_idx` (496), and the Layer 3 part of `checks_performed` |

| action | lines of `chain.py` |
|---|---|
| `Call` | 165-175 |
| `CheckL1`, `CheckL2`, `InferMode` | 182-248, 250-305, 307-345 |
| `CollectMandate`, `RejectDuplicate` | 785-804 |
| `IndexMandates`, `OneSidedPairs` | 806-858, 882-889; 817-827 |
| `MatchMandate`, `RejectUnmatched`, `RejectOrphans` | 860-874, 891-920 |
| `CheckMandates`, `CheckCard` | 389-421 with 923-1018; 423-447 |
| `ExtractAgentKey`, `RejectAgentKey` | 449-493 with 1021-1067 |
| `SkipL3`, `CheckL3`, `RejectL3` | 496-635 with 661-769, once for L3a, once for L3b |
| `CrossReference`, `RejectCrossReference` | 637-649, and 651-658 at the end |
| `Return` | the caller takes the result |
| `Tick` | time passes, at any point |

The dictionaries of the pairing code become the key of a mandate (`PairingKey`) and the set
of its possible partners (`Partners`): in immediate mode the pairs follow the
checkouts, in autonomous mode the payments (`Driver`). An index that rejects a repeated key
(`Indexed`) comes before the matching as in the code.

**`ChainSpec`** says what is promised, without stages or loops: `Authorized(c, t)` is a
conjunction of rules over the arguments and one instant, with pairing as the
existence of a unique perfect matching. **`ChainRefinement`** instantiates it with the mapping
`asked <- now`, `verdict <- Verdict` (`none` between calls, `pending` while a stage
is still to run, else how the call returned). The two definitions share only the operators of
`Credentials`.

### User issuance

**`AutonomousIssuance`** is `create_layer2_autonomous`, called again and again. What outlives
a call are the user's objects: `acceptable`, the `acceptable_items` of every line-item
entry, is shared by all mandates that use the entry. The function copies lists of
merchants, but writes references into the entries themselves, and a
`ValueError` leaves the entries it has passed replaced.

| variable | in the code |
|---|---|
| `acceptable` | `item_entry["acceptable_items"]`, in the caller's dicts |
| `mandate`, `pc` | the argument, and where the call is |
| `k`, `e` | the loops over constraints (145, 164) and entries (150) |
| `draft`, `sealed` | `checkout_dict`/`payment_dict` so far; the content of `checkout_disc` |
| `issued`, `calls` | what was returned; `calls` names the fresh disclosures of a call |
| `wrote`, `held` | history: what the user last wrote, and what the call found |

| action | lines of `issuance/user.py` |
|---|---|
| `Begin` | 119-121, the mode check, and 125-137, the fresh disclosures |
| `CopyTerm`, `MatchMerchants` | 145-148 and 164-168, with 227-249 |
| `MatchEntry`, `EndEntries` | 149-156, with 262-280 |
| `FailMatch` | 248, 279: no match, `ValueError` |
| `SealCheckout`, `Sign` | 156-157; 170-214 with the reference constraint |
| `Rewrite`, `Return` | the caller edits an entry; the caller takes the result |

**`IssuanceSpec`** promises, without loops or references: the credential says
what the user last wrote, list by list, or the call is refused; a list of items is good for one
credential, *spent* by the call that went through it, and good again once
rewritten. **`IssuanceRefinement`** opens the references of each credential against its own
disclosures and calls an entry spent when references have taken the place of its items.

**`ImmediateIssuance`** is `create_layer2_immediate` (lines 46-103) in one action,
`Issue`, on a checkout and a payment object that any call may combine. `hash` and `txid` are the
`checkout_hash` and `transaction_id` the function fills in when they are empty; `SetCart`
and `Reset` are the caller's edits; `meant` is history, the cart an object was first signed for.
`CallOn` is the call of `verify_chain` on what was signed last.

### The constraint checker

**`Constraints`** is the data: constraints after `parse_constraint`, a fulfilment, the strictness
mode and policy, with `Absent` and `Malformed` wherever the handlers test for them.
**`ConstraintChecker`** is `check_constraints` as it runs:

| variable | in the code |
|---|---|
| `check` | the arguments |
| `stage`, `k`, `n` | which loop, and the positions in the constraints and in the entries or lines |
| `allows` | `allowed_ids`, `id_quantity_limits`, `total_quantity_limit`, `has_nonempty_acceptable`, `has_wildcard_acceptable` |
| `bought` | `quantity_by_id` |
| `result` | `satisfied`, the kinds of `violations`, `checked` (with what was noted as unopened), `skipped` |

| action | in `constraint_checker.py` |
|---|---|
| `RejectArguments`, `Finish` | the guards before the loop, its end |
| `RejectEntry`, `CheckUnknown`, `Note`, `Raise` | an entry that is no object; a type outside the registry under mode, policy and openness; types enforced elsewhere; a budget, a type or a list of entries on which the call raises |
| `CheckAmount`, `CheckAllowlist` | `_check_payment_amount`, `_check_allowed_payee`, `_check_allowed_merchant` with `_merchant_matches` |
| `EnterLineItems`, `ScanEntry`, `EndEntries`, `ScanLine`, `EndCart` | `_check_line_items`: the pass over the entries, the tests between, the pass over the cart, the caps and the exact mode |

**`ConstraintSpec`** states for each type when it admits the values, taken by itself, and
`Judgement`: the answer to a call. **`ConstraintRefinement`** maps `stage` and `result` to it and holds
`FeasibleAccepted`, about carts, and `AmountRuleFollowed`.

### The flows

**`Delegation`** composes the parties. A Layer 2 is known by its intent and the time it was
signed, a purchase by what the agent put into L3a and L3b; both may reach any verifier at any
later time, any number of times, next to any other, in the whole presentation, a role's, or the one Layer 3 is
bound to; any other fails the comparison with `sd_hash`.

| action | in the code |
|---|---|
| `Authorise` | the user signs (`autonomous_flow.py:114-149`, `immediate_flow.py:97-121`) |
| `Fulfil` | an agent, the named one or another, signs both halves (`autonomous_flow.py:206-266`, `agent.py`) |
| `ValidateIntent` | `validate_intent` (`helpers.py:282-399`) on a role presentation, the whole, or the view L3a binds to |
| `NetworkValidation`, `AutonomousFlow` | `network_validation.py:188-332`, strict, and `autonomous_flow.py:329-394`, permissive, which get that view beside the whole of Layer 2 |
| `VerifyCheckout` | the merchant (`autonomous_flow.py:303-322`) |
| `Tick` | time passes |

`DiscsOf` lists the disclosures in the order the issuer creates them, `PaymentView` and
`CheckoutView` are what Layer 3 hashes, `RolePresentation` is what
`build_role_presentations` selects. `paid` and `sold` are histories of acceptance;
no code keeps them. `create_layer1` is the constant `Layer1`; the functions of `agent.py` are
the operators `PaymentCredential` and `CheckoutCredential`.

## 4. The runs

| run | configuration | question |
|---|---|---|
| `pairing` | `MCPairing.cfg` | Is each disclosed mandate in exactly one pair, with the one it names, all of one mode; do the loops decide what a unique perfect matching decides? |
| `chain` | `MCChain.cfg` | Does acceptance mean one chain of keys, one instant, one instrument, nothing unchecked, nothing out of place; is every call answered with the declarative verdict? |
| `issuance` | `MCIssuance.cfg` | Does a signed Layer 2 refer only to its own disclosures and say what the user wrote, whatever happened to the objects before? |
| `immediate` | `MCImmediate.cfg` | Does `verify_chain` accept exactly what was filled in for the cart it carries? |
| `constraints` | `MCConstraints.cfg` | Is every answer that of the rules, and is no well-formed cart refused that can be spread over the entries? |
| `delegation` | `MCDelegation.cfg` | Is everything accepted delegated by a live Layer 2, to the agent who signed, within the limits of its own pair; is a purchase that is in order accepted by everyone, each with its own view? |
| `chain_lifetime` | `MCChainLifetime.cfg` | Does an accepted L3 always expire within an hour? **No** |
| `chain_kid` | `MCChainKid.cfg` | Do all mandates of an accepted L2 name one `kid`? **No** |
| `issuance_merchants` | `MCIssuanceMerchants.cfg` | Is a listed merchant signed as itself? **No** |
| `constraints_amount` | `MCConstraintsAmount.cfg` | Is an amount accepted only if it is not negative, and in the currency of its constraint? **No** |
| `delegation_lists` | `MCDelegationLists.cfg` | Is every allowlist of payees respected? **No** |
| `delegation_role_view` | `MCDelegationRoleView.cfg` | Is a purchase accepted with the network's role presentation? **No** |

The last six are in section 5.

**Bounds.** `MCPairing` takes every `delegate_payload` of up to `MaxMixed` = 3 entries over
eight open and six final mandates (including one that references the same checkout twice, one
that names a foreign key, one without a link, one of an unknown kind) and of
up to `MaxDelegates` = 4 over two whole pairs, each shown whole, without its first
disclosure, or with the first entry in clear: 4,068 calls. Two pairs are the fewest
that can be crossed, and three entries the fewest with an orphan beside a pair or a
collision; every rejection of the pairing code, and two-sided and one-sided
acceptance in both orders, happen. The clock stands still (`MaxClock` = 0), as
pairing does not read it.

`MCChain` takes chains that are in order but for edited claims: every pair of an edit of L1
with an edit of L2, every pair of an edit of L3a with one of L3b, each with a
rebuilt chain below, so that only the edited claim is wrong; odd pairs of
mandates; one-sided views; and two pairs through `split_l3s`, in order,
exchanged, repeated or too few, under six disclosures of L2: 617 calls. `Skew` = 1,
`MaxLifetime` = 2 and `MaxClock` = 2 put every time claim on both sides of each boundary and
let the clock pass an expiry during a call.

`MCIssuance` has two line-item entries and seven mandates that share them, one listing an entry
twice, one whose second entry may fail after the first was replaced, allowlists before and
after the line items, two shops of one name, one mandate of the wrong mode; the user may rewrite any
entry with one of four lists (no field, empty, one item, two) between calls. `MaxCalls`
= 2 is what it takes to meet the references an earlier call, finished or failed, has left
behind; a third call meets nothing the second does not, as the entries then hold
references again or what the user wrote.

`MCImmediate` has two objects of each kind and two carts, under symmetry; there is no bound on
the number of calls or edits. Two carts and two objects are enough for a value left over in
either object, in both from different carts, or in both from the same one.

`MCConstraints` takes every list of up to two constraints from a catalogue of 25 that covers
the registry and its malformed forms, those that raise included, against ten fulfilments with amounts below, at
and above each bound and below zero, wrong types, and merchants that agree in id, in name only, or in nothing; every
combination of mode, policy and openness on two unknown types; and (`MCLineItems`) one
`line_items` constraint of one or two entries that overlap, allow any product, disclose nothing or are
faulty, in each match mode, against every cart of up to two lines with quantities from
-1 to 2. Two constraints are enough for one to hide what the other reports, as
nothing but `satisfied` and the lists of the result passes from one to the next; two
entries are the fewest that can overlap.

`MCDelegation` has two Layer 2s at a time out of four intents (one list of payees; two pairs of which
the second allows what the first forbids; an unregistered constraint; immediate), one purchase by
the named agent or another, of a cheap or a dear product, from either shop, bound to either
mandate. Two Layer 2s are needed for a credential to be handed over with the wrong
one; purchases are judged one at a time and no verifier remembers any, so that one suffices.
Lifetimes of 3, 2 and 1 under `MaxClock` = 4 let each layer expire before the others.

**Fairness.** The verifier's `FairSpec` adds `WF_vars(Verify)`, the constraint checker's `Spec`
`WF_vars(Next)` and the issuer's `WF_vars(Working)`: a function that has been called runs on. Nothing
is assumed of callers or of the clock. `Delegation`'s `FairSpec` assumes that,
while a purchase in order can be accepted by a verifier, that verifier's call is made
sooner or later (`Serve`, which offers a verifier only what it has not accepted yet):
the flows call every verifier right after the agent has signed. The
clock may run out all the same, and `InOrderServed` then asks nothing.

**Deadlock** is checked in every run but those of `Constraints`, where a call ends, and of
`Delegation`, where the clock and the number of purchases are bounded.
`IssuanceSpec` and `ChainSpec` state liveness of their own (an asked call is
answered), so that `KeepsItsPromise` and `AnswersAsPromised` include it.

**Mutants.** For every property a plausible bug in one definition, written just before it
(`...Mutant`), makes TLC find the property violated; `PROJECT.json` lists
the pairs.

## 5. Where code and documents differ

- **Lifetime of Layer 3** (`chain_lifetime`). `chain.py:579` limits `exp - iat` only when both
  claims are present, and lines 31-56 report nothing for an absent claim.
  `spec/credential-format.md:351-352` requires both. Such a credential is accepted,
  with no limit to its life when `exp` is absent.
- **`kid` of the agent** (`chain_kid`). `chain.py:1059` compares the `kid`s that are present.
  `spec/security-model.md:289` asks for identical `cnf.jwk`, including its `kid`, in all mandates. A
  pair in which only one mandate names a `kid` is accepted; the docstring at
  line 1026 keeps this for backward compatibility. The key itself is always compared.
- **Merchants without id** (`issuance_merchants`). `user.py:242` takes the first disclosed merchant
  of the same name; `spec/constraints.md:275-277` asks for name and website, which
  `_merchant_matches` compares. The signed reference may name another shop than the user listed.
- **Amounts** (`constraints_amount`). `constraint_checker.py:159` takes a payment without a currency to be in the
  currency of its constraint, and lines 134-138 accept a negative amount when no `min` forbids it.
  `spec/constraints.md:535-543` makes an amount that is no non-negative integer, and a currency that does
  not match, violations. `verify_chain` requires the currency in a Layer 3 payment (`chain.py:728`), but accepts
  a negative amount too (730-734). `ConstraintSpec` keeps the rule, `AmountAdmitted`, apart from what the code
  accepts beyond it, `AmountLetThrough`.
- **Several allowlists** (`delegation_lists`). `helpers.py:385`, like both flows, resolves the payees
  of the first `allowed_payees` constraint only, and the checker holds every such constraint
  against that list. `spec/constraints.md:169-170` has each validated independently.
- **The network's view** (`delegation_role_view`). `agent.py:57` hashes the payment disclosure
  followed by one merchant, `build_role_presentations` (`helpers.py:244-273`) shows every
  merchant, before the payment. `agent.py:33-34` says the hash binds to what the network sees, but
  `validate_intent` on that presentation refuses every such purchase; the flows pass the bound view on the
  side.

Noticed, and no disagreement the runs can show:

- Quantities of line items are added up over all entries, as the algorithm of
  `spec/constraints.md:372-377` does; its line 339 speaks of each line. `FeasibleAccepted`
  shows the side that matters to a buyer: no cart that fits is refused. The other side does not hold. Nor is
  the first side claimed of entries that list nothing (any product) or nothing disclosed, or of lines of
  quantity 0: with those the code may refuse a cart that fits, as the rules of `ConstraintSpec` say.
- `spec/constraints.md`, sections 4.1 and 4.3, skips an allowlist of which nothing is disclosed before it looks at
  the merchant or payee; the code reports a missing one first, which is stricter. Once the caller has resolved
  any merchants, the elements written in the constraint itself no longer count (`constraint_checker.py:187-195`).
- `user.py:56` keeps a `checkout_hash` that is there when an object is used again with another
  cart. `verify_chain` refuses such a credential (`AcceptedIffMeant`), so that it is a failed
  purchase, not a wrong one.
- A list of items is spent by the call that goes through it, also by one that fails: the same
  mandate cannot be signed twice (`IssuanceSpec`).
- Nothing remembers what was accepted: budgets (`spec/constraints.md:600`) are left to a
  network with state, which the repository does not have.

## 6. What is proved

Each theorem holds for every value of the constants: every set of calls or mandates, lists
of every length, any clock and lifetimes. The runs check the same properties on the instances of section 4.

| module | theorem | states |
|---|---|---|
| `ChainVerifierProofs` | `TypeCorrect` | `Spec => []TypeOK` |
| `ChainPairingProofs` | `MandatesPairedOnce`, `PairsLinked` | `Spec => []EveryMandatePairedOnce`, `[]PairsAreLinked` |
| `ChainTrustProofs` | `OneInstant`, `KeysChain`, `AllVisited` | `Spec => []ValidAtOneInstant`, `[]ChainOfTrust`, `[]NothingIgnored` |
| `ChainTrustProofs` | `OneMode`, `OneInstrument`, `OrderEnforced` | `Spec => []ModesNeverMix`, `[]InstrumentCarriedThrough`, `[]MisplacedL3Rejected` |
| `AutonomousIssuanceProofs` | `TypeCorrect`, `OwnReferencesOnly` | `Spec => []TypeOK`, `[]NoDanglingRefs` |
| `ImmediateIssuanceProofs` | `TypeCorrect`, `AcceptedAsMeant` | `Spec => []TypeOK`, `[]AcceptedIffMeant` |
| `ConstraintProofs` | `TypeCorrect` | `Spec => []TypeOK` |
| `ConstraintProofs` | `JudgedByTheRules` | the answer of every call is `Judgement`, and what it leaves open is `Unjudged` |
| `ConstraintProofs` | `FittingCartsAccepted` | `Spec => []FeasibleAccepted` |
| `ChainRefinementProofs` | `DecidesAsPromised` | `Spec => Promise!Safety`: each step is a step or a stutter of `ChainSpec` |
| `AutonomousIssuanceProofs` | `IssuesAsPromised` | `Spec => Promise!Safety`, of `IssuanceSpec` |
| `ConstraintProofs` | `AnswersAsTheRules` | `Spec => Promise!Safety`, of `ConstraintSpec` |
| `DelegationProofs` | `TypeCorrect`, `PurchasesWithinIntent` | `Spec => []TypeOK`, `AcceptedWithinIntent` |

**Assumptions.** All are named in the module that declares the constants, and TLC evaluates all
of them. Of the verifier: `CallsAreArguments` (arguments have the right shape),
`DisclosuresHoldMandates` (a disclosure has one content, as collision-free hashing gives),
`AbsentIsNoValue`, `AbsentIsNoPresentation`, `TimesAreNumbers`, `MaxClockIsNat`. Of the issuers: `MandatesAreMandates`,
`UsersListItems` (users write items, not references), `ObjectsHaveOneKind`, and that `Absent`
and `Malformed` are no values. Of the checker: `ChecksAreChecks`, `NothingIsAValue`,
`UnknownTypesAreUnknown`. Of the flows: `IntentsAreIntents`, `PayeesAreShops` (an allowlist names
merchants of its mandate, without which signing it fails), `EverythingHasAPrice`,
`BoundsAreNumbers`, `AbsentIsNothing`.

**The verifier.** One inductive invariant, `TypeInv /\ PairingInv /\ TrustInv`, built in three layers:

- `TypeInv` adds to `TypeOK` that the locals of the Layer 3 loop are fresh before it
  starts. Without it the first element of the loop could be anything, and
  `LoopInBounds` would not be preserved by `ExtractAgentKey`.
- `PairingInv` says what each pairing loop has done so far. While collecting, `found`
  lists exactly the disclosed positions before `pos`, each once; while matching, the
  first `Len(pairs)` drivers have partners that name them, all different. Neither
  property of the finished pairs is inductive alone: that all mandates are in a pair follows
  only when the last driver is matched and no orphan remains (`MatchedSoundly`, `PairingOrphans`).
- `TrustInv` says what each stage left behind for the later ones: that L1 and L2 passed at
  `now`, that the mode is the one of the disclosed mandates, that pairs and card were
  checked, that all mandates delegate to `agent`, and that the credentials the loop has
  passed are in `checked`, whose elements passed `L3OK` on the current facts. `Moves`
  lists for each step where it leads and what it leaves alone, and the
  `Same...` lemmas carry a fact over a step that leaves its variables alone.

- `DecisionInv`, for the refinement, is the other direction: what no stage has rejected yet obeys the
  rules. It adds that the references seen so far are distinct, that mandates are collected and
  paired in the order of their positions, and that checkouts that were looked up have keys of their own.

The refinement `DecidesAsPromised` maps each rejecting branch to a rule of `Authorized` that fails, and
the last step to all of them holding. `ChainSpec` asks for one unique perfect matching of the mandates and takes
the pairs in their order; the code looks up one partner after another. That the two are the
same is the core: a loop that finishes has built the only matching there is (any other would give some
driver a second partner, which `Keyed` excludes), a lookup that fails leaves none, and the n-th pair
of the code is the n-th of the rule by the order kept in `OrderInv`, so that Layer 3 credentials
are judged against the same pair in both. The clock is read once, so that the instant of the rules is `now`.

The theorems of `ChainTrustProofs` follow from that invariant at `pc = "accepted"`, most by
combining stages: `KeysChain` needs the pairing (a mandate in no pair would not
be compared with the agent key), `OrderEnforced` needs that the pairs of two positions hold different mandates (two credentials bound to one
view of one mandate would both have to be of its pair),
`OneInstrument` joins the card check with the instrument check of Layer 3.

**Autonomous issuance.** `NoDanglingRefs` speaks of what is signed, but what is signed is read
from the caller's entries at the end of the loop, which any earlier call may have written. The
invariant `TypeOK /\ IdleInv /\ LoopInv /\ NoDanglingRefs` therefore says of the loop: the
entries passed in this constraint, and in every constraint already drafted, hold references of
*this* call (`PassedEntries`, `DraftOwn`), and the sealed checkout resolves (`SealedOwn`). An entry
replaced twice, or listed in two constraints, is what makes it more than a loop invariant of one list.

That the credential says what the user *wrote* needs more, as the lists in the entries change under the call:
`RefineInv` adds that an entry holds what the user wrote or only references (`EntriesInv`); that a call
has changed exactly the entries it went through, each once unless it lists nothing, and
that those it has not reached are as it found them (`UsesInv`); and that draft and sealed checkout are, term by term, those of
the mandate (`TermsInv`). `IssuesAsPromised` then opens each reference to the item it was made from. The refused
calls are the other half: a match fails exactly when something listed is not disclosed,
or the entry was replaced before, by an earlier call or earlier in this one.

**Immediate issuance.** `HoldsMeant`: the value an object holds is the cart it was first signed for.
`LastMeant`: the history kept with the last credential is what that credential says. With this, `AcceptedAsMeant`
unfolds every rule of `ChainSpec!Authorized` on the credential: the rules on time, keys and form hold, and
pairing and linking come down to the hashes being equal to the cart.

**The checker.** `Inv` adds to `TypeOK` the shape of the result and that the inner loops are
those of a `line_items` constraint with a cart to read. `Pass` adds what has been decided
(`Judged`): `satisfied` says whether each constraint seen so far is admitted, and the present one as
far as it was read; no constraint seen was unreadable; what was noted is what the rules leave
unjudged. Each handler owes it that its faults are empty exactly when the rule admits
(`AmountJudged`, `ListsAgree`, `CartRule`).

The loops of `_check_line_items` keep running totals where the rule adds up whole lists, so `Pass`
also says what is in the books: `AllowsKept`, for each product the entries that offer it and the sum of their
quantities; `BoughtKept`, what the lines read so far buy. Both hold only while nothing faulty was
read: the code skips a faulty entry in its sums and goes on, but the
answer is then no already. A sum is `SumFunctionOnSet`, a fold over a finite set. The prover
cannot use an induction theorem that takes a formula, so `SetInduction` states
induction over finite sets with a *set of sets* in the formula's place, proved by a least counterexample
(`LeastSet`); from it follow the facts about sums used here: one more term (`SumWith`), monotonicity, splitting,
exchange of two sums (`SumOfSums`) and sums by key (`SumByKey`).

`FittingCartsAccepted` is a counting argument on top. If a cart can be spread over the entries, what any set of
entries takes is no more than their quantities (`Counting`), so that no product exceeds the entries that
list it, nor the cart their total; these sums are all that the code compares.

**The flows.** `AcceptedWithinIntent` is an action property, and `TypeOK` is the invariant it
needs. The work is in what acceptance means: `FulfilledMeans`, `IntentMeans`, `StagedMeans` and
`CheckoutMeans` unfold `Authorized` on the credentials as signed and draw from the signature the
agent, from `sd_hash` the Layer 2 and from the disclosed mandates the pair; `SatisfiedMeans` unfolds
`Judgement` on the constraints of that pair. `validate_intent` enforces the first payment mandate it sees;
it is the pair's own because L3a binds the presentation to one payment disclosure.

**Only model-checked**: liveness under fairness, which the prover does not handle. These are
`InOrderServed`, and the part of `KeepsItsPromise` and `AnswersAsPromised` that says an asked call is
answered: each abstract specification is `Safety` and a fairness condition, and `Promise!Safety` is what is proved.
The runs that expect a violation show one behaviour each; there is nothing to prove of them.

## 7. What is not modelled

- ES256, base64url, JSON and JWK conversions (`signing.py`, `jcs.py`, parsing in `sd_jwt.py`):
  stateless code over a library, below the level at which the properties speak.
  Hashes are taken as collision-free, signatures as unforgeable.
- The difference between `SdJwt`'s dictionaries, which are verified, and its raw segments,
  which are hashed: a JWT is one value here, with `signer = Absent` when it was altered.
- `_sd` object properties: no claim the verifier compares is disclosed that way by the
  library's issuers.
- Key-binding presentations (`kb_sd_jwt.py`): exported, but nothing in the repository calls
  them, so that there is no sequence of calls to model.
- In `Credentials`: an empty `kid` counts as none, though `chain.py:1059` compares it like any other value; an
  instrument is one value where `chain.py:763` compares its id and its type; and the error for a checkout whose
  disclosure string cannot be found (`chain.py:1003`) has no counterpart, as a disclosed checkout has its string,
  and one in clear is refused by its link.
- The mode check of `create_layer2_immediate` (`user.py:46-48`): `ImmediateIssuance` has immediate mandates only.
- Wording of errors, `checks_skipped`, and the legacy fields of the result.
- Construction rules of the mandate classes (`__post_init__`): they raise on the spot, before there is
  any state. Those of the constraint classes are modelled where they raise out of `check_constraints`.
- In `Delegation`, `Fulfil` signs both halves of a purchase at once, and no flow hands both to one verifier, so
  that `AcceptedWithinIntent` judges each on its own; that halves which are handed over together belong together
  is `NothingIgnored`, in run `chain`.
- In the flows: demo keys and printing, and the merchant of `immediate_flow`, which skips the issuer
  check for show; `skip_issuer_verification` itself is an argument of `MCChain`.
- Budget over time and recurrence, which the documents leave to the network: no code in
  the repository does them.
- The cart model, package exports, the documentation site, and the demos
  `selective_disclosure.py` and `constraint_checking.py`: no decisions of their own.
