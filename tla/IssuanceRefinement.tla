-------------------------- MODULE IssuanceRefinement --------------------------
(***************************************************************************)
(* AutonomousIssuance implements IssuanceSpec: open the references of each *)
(* credential against its own disclosures, and call spent the entries in   *)
(* which references have taken the place of items.                         *)
(***************************************************************************)
EXTENDS AutonomousIssuance

Verdict ==
    CASE pc = "idle" -> "none" [] InMandate -> "pending"
      [] pc = "done" -> "granted" [] pc = "failed" -> "refused"

\* While a call runs, what it has spent is not yet settled.
Spent ==
    {entry \in Entries : LET list == IF InMandate THEN held[entry] ELSE acceptable[entry]
                         IN  list # Absent /\ \E n \in DOMAIN list : list[n].ref # Absent}

\* What resolve_disclosures makes of a signed constraint.
OpenTerm(term, m) ==
    [type |-> term.type,
     allowed |-> [n \in DOMAIN term.refs |-> m.merchants[term.refs[n].at]],
     items |-> [j \in DOMAIN term.items |->
                  [n \in DOMAIN term.items[j] |-> m.items[term.items[j][n].ref.at]]]]

\* The reference to the checkout comes last: the others keep their positions.
OpenTerms(terms, m) ==
    IF terms = Absent THEN Absent
    ELSE [n \in {j \in DOMAIN terms : terms[j].type # "reference"} |-> OpenTerm(terms[n], m)]

Says(c) ==
    [for |-> c.for, checkout |-> OpenTerms(c.checkout, c.for), payment |-> OpenTerms(c.payment, c.for),
     bound |-> /\ c.payment # Absent
               /\ {t.names : t \in {u \in Range(c.payment) : u.type = "reference"}}
                     = {[by |-> c.by, kind |-> "checkout", at |-> 1]}]

Given == [n \in DOMAIN issued |-> Says(issued[n])]

Promise == INSTANCE IssuanceSpec
    WITH spent <- Spent, verdict <- Verdict, given <- Given

\* Whatever the entries went through before, in whatever order mandates share
\* and reuse them and wherever earlier calls failed: a credential says what the
\* user last wrote, an allowlist never loses an element or turns into "any
\* item", and a call fails exactly when a listed object is not disclosed or an
\* entry was used up.
KeepsItsPromise == Promise!Spec
==============================================================================
