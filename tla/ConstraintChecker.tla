-------------------------- MODULE ConstraintChecker --------------------------
(***************************************************************************)
(* check_constraints as it runs: one pass over the constraints, a handler  *)
(* for each type, and for line_items two passes of its own, over the       *)
(* entries to add up what they allow and over the cart to add up what is   *)
(* bought.  A violation never ends the outer loop; it does end a handler   *)
(* in some places and not in others.                                       *)
(***************************************************************************)
EXTENDS Constraints

CONSTANT Checks  \* the arguments a call may have

ASSUME ChecksAreChecks == Checks \subseteq Check

VARIABLES
    check,   \* the arguments
    stage,   \* the loop the call is in
    k, n,    \* positions: the constraint, and the entry or line in it
    allows,  \* what the entries of line_items allow, as added up so far
    bought,  \* quantity_by_id: the cart as added up so far
    result   \* ConstraintCheckResult; "unopened" are the types noted in its
             \* checked list as "(skipped: no resolved ...)"

vars == <<check, stage, k, n, allows, bought, result>>

Registry == ElsewhereTypes \cup {"amount_range", "allowed_payees", "allowed_merchants",
                                 "line_items", "budget"}

\* parse_constraint: an entry that is no object gets the type "unknown", and a
\* type outside the registry is kept as it is.
TypeOf(c) == IF c = Malformed THEN "malformed" ELSE c.type

This == check.constraints[k]

f == check.fulfillment

At(types) ==
    stage = "constraints" /\ k \in DOMAIN check.constraints /\ TypeOf(This) \in types

\* The tests that fail, by name.
Failing(tests) == {name \in DOMAIN tests : tests[name]}

\* Every reported fault clears "satisfied".
Report(faults) ==
    result' = [result EXCEPT !.violations = @ \cup faults, !.satisfied = @ /\ faults = {}]

\* Mutant: "satisfied" is what the last handler found.
JudgeMutant(faults) ==
    result' = [result EXCEPT !.violations = @ \cup faults, !.satisfied = (faults = {}),
                             !.checked = @ \cup {This.type}]

\* A handler enters its type among those checked before it finds anything.
Judge(faults) ==
    result' = [result EXCEPT !.violations = @ \cup faults, !.satisfied = @ /\ faults = {},
                             !.checked = @ \cup {This.type}]

Proceed == k' = k + 1 /\ UNCHANGED <<check, stage, n, allows, bought>>

------------------------------------------------------------------------------
NothingAllowed ==
    [ids |-> {}, cap |-> [p \in Products |-> 0], total |-> 0, listing |-> FALSE, wildcard |-> FALSE]

NothingBought == [p \in Products |-> 0]

Init ==
    /\ check \in Checks
    /\ stage = "constraints" /\ k = 1 /\ n = 1
    /\ allows = NothingAllowed /\ bought = NothingBought
    /\ result = [satisfied |-> TRUE, violations |-> {}, checked |-> {}, unopened |-> {},
                 skipped |-> {}]

\* The guards before the loop.
RejectArguments ==
    /\ stage = "constraints"
    /\ Malformed \in {check.constraints, f}
    /\ Report({"arguments"})
    /\ stage' = "done"
    /\ UNCHANGED <<check, k, n, allows, bought>>

Looping == Malformed \notin {check.constraints, f}

RejectEntry ==
    /\ Looping /\ At({"malformed"})
    /\ Report({"entry"}) /\ Proceed

\* _check_payment_amount, once there is an amount: a bound of the wrong type
\* ends the handler before the currency is looked at.
AmountFaults(c, paid) ==
    Failing([min |-> c.min \notin {Absent, Malformed} /\ paid.amount < c.min,
             max |-> Malformed \notin {c.min, c.max} /\ c.max # Absent /\ paid.amount > c.max,
             malformed |-> Malformed \in {c.min, c.max},
             currency |-> Malformed \notin {c.min, c.max}
                            /\ paid.currency \notin {Absent, IF c.currency = Absent THEN Dollar
                                                            ELSE c.currency}])

CheckAmount ==
    /\ Looping /\ At({"amount_range"})
    /\ Judge(IF f.paid = Absent \/ f.paid.amount \in {Absent, Malformed} THEN {"amount"}
             ELSE AmountFaults(This, f.paid))
    /\ Proceed

------------------------------------------------------------------------------
(* Allowlists. *)

\* _merchant_matches
Matches(candidate, target) ==
    IF candidate.id # Absent /\ target.id # Absent THEN candidate.id = target.id
    ELSE /\ candidate.name = target.name /\ candidate.name # Absent
         /\ candidate.website = target.website /\ candidate.website # Absent

Party == IF This.type = "allowed_payees" THEN f.payee ELSE f.merchant

Inline == {m \in Range(This.allowed) : ~m.ref /\ (m.id # Absent \/ m.name # Absent)}

\* What the caller resolved counts, if anything; the constraint's own list otherwise.
Resolved == IF f.allowed_merchants # <<>> THEN Range(f.allowed_merchants) ELSE Inline

\* A list of nothing but references, none of which the caller opened, is noted
\* among the checked as skipped.
Unopened ==
    /\ Party # Absent /\ This.allowed \notin {Malformed, <<>>}
    /\ Resolved = {} /\ \A m \in Range(This.allowed) : m.ref

\* Mutant: a list that could not be resolved is skipped, whatever is in it.
AllowlistFaultsMutant ==
    IF Party = Absent THEN {"party"}
    ELSE IF This.allowed \in {Malformed, <<>>} THEN {"allowed"}
    ELSE IF Resolved = {} \/ \E m \in Resolved : Matches(m, Party) THEN {}
    ELSE {"not allowed"}

\* _check_allowed_payee and _check_allowed_merchant, which differ in the party.
AllowlistFaults ==
    IF Party = Absent THEN {"party"}
    ELSE IF This.allowed \in {Malformed, <<>>} THEN {"allowed"}
    ELSE IF Unopened \/ \E m \in Resolved : Matches(m, Party) THEN {}
    ELSE {"not allowed"}

CheckAllowlist ==
    /\ Looping /\ At({"allowed_payees", "allowed_merchants"})
    /\ result' = [result EXCEPT
                    !.violations = @ \cup AllowlistFaults, !.satisfied = @ /\ AllowlistFaults = {},
                    !.checked = @ \cup {This.type},
                    !.unopened = IF Unopened THEN @ \cup {This.type} ELSE @]
    /\ Proceed

------------------------------------------------------------------------------
(* Constraints that are only noted, or not known. *)

\* What PaymentBudgetConstraint accepts.
Readable(c) ==
    /\ c.max \notin {Absent, Malformed} /\ c.max > 0
    /\ c.min # Absent => c.min # Malformed /\ c.min > 0

\* An exception in parse_constraint, which looks the type up in a dict and builds
\* the budget, or where a handler iterates over the entries, leaves the call.
Raises(c) ==
    \/ c.type = "unhashable"
    \/ c.type = "budget" /\ ~Readable(c)
    \/ c.type = "line_items" /\ c.items = Malformed

Raise ==
    /\ Looping /\ At({"unhashable", "budget", "line_items"}) /\ Raises(This)
    /\ stage' = "raised"
    /\ UNCHANGED <<check, k, n, allows, bought, result>>

Note ==
    /\ Looping
    /\ At(ElsewhereTypes) \/ (At({"budget"}) /\ Readable(This))
    /\ Judge({}) /\ Proceed

EffectiveMode(type) == IF check.policy[type] # Absent THEN check.policy[type] ELSE check.mode

CheckUnknown ==
    /\ Looping /\ At(UnknownTypes)
    /\ IF check.is_open_mandate \/ EffectiveMode(This.type) = "strict" THEN Report({"unknown"})
       ELSE result' = [result EXCEPT !.skipped = @ \cup {This.type}]
    /\ Proceed

------------------------------------------------------------------------------
(* _check_line_items *)

EnterLineItems ==
    /\ Looping /\ At({"line_items"}) /\ This.items # Malformed
    /\ allows' = NothingAllowed /\ bought' = NothingBought /\ n' = 1
    /\ Judge(IF This.items = <<>> THEN {"no entries"} ELSE {})
    /\ IF This.items = <<>> THEN k' = k + 1 /\ UNCHANGED stage
       ELSE stage' = "entries" /\ UNCHANGED k
    /\ UNCHANGED check

IsList(x) == x \notin {Absent, Malformed}

\* item_entry.get("acceptable_items", []): a missing field reads as a list.
AcceptableOf(entry) == IF entry.acceptable = Absent THEN <<>> ELSE entry.acceptable

\* The identifiers of the item objects among them; references have none.
ItemIds(entry) ==
    {KeyOf(item) : item \in {x \in Range(AcceptableOf(entry)) : ~x.ref}} \ {Absent, Malformed}

\* The first of these ends the work on the entry; later ones do not.
EntryFaults(entry) ==
    IF ~entry.named THEN {"id"}
    ELSE IF entry.acceptable = Absent THEN {"acceptable_items"}
    ELSE IF entry.quantity \in {Absent, Malformed} THEN {"quantity"}
    ELSE IF entry.quantity <= 0 THEN {"quantity"}
    ELSE {}

\* Mutant: an entry that lists an item already listed replaces its cap.
AddEntryMutant(entry) ==
    [allows EXCEPT !.ids = @ \cup ItemIds(entry),
                   !.cap = [p \in Products |-> IF p \in ItemIds(entry) THEN entry.quantity ELSE @[p]],
                   !.total = @ + entry.quantity]

\* allowed_ids, id_quantity_limits and total_quantity_limit, with one more entry.
AddEntry(entry) ==
    [allows EXCEPT !.ids = @ \cup ItemIds(entry),
                   !.cap = [p \in Products |-> @[p] + IF p \in ItemIds(entry) THEN entry.quantity ELSE 0],
                   !.total = @ + entry.quantity]

\* Notes whether the entry lists anything or stands for any product, which counts
\* even when the entry is faulty.
Sighted(before, entry) ==
    [before EXCEPT !.listing = @ \/ AcceptableOf(entry) \notin {Malformed, <<>>},
                   !.wildcard = @ \/ AcceptableOf(entry) = <<>>]

ScanEntry ==
    /\ stage = "entries" /\ n \in DOMAIN This.items
    /\ LET entry == This.items[n]
       IN  IF entry = Malformed THEN Report({"entry"}) /\ UNCHANGED allows
           ELSE IF EntryFaults(entry) # {} THEN
               Report(EntryFaults(entry)) /\ allows' = Sighted(allows, entry)
           ELSE IF ~IsList(entry.acceptable) THEN
               /\ Report({"acceptable_items"})
               /\ allows' = [allows EXCEPT !.total = @ + entry.quantity]
           ELSE LET shown == {x \in Range(entry.acceptable) : ~x.ref}
                IN  /\ Report(Failing([title |-> \E x \in shown : ~x.titled,
                                       item |-> \E x \in shown : KeyOf(x) = Malformed]))
                    /\ allows' = Sighted(AddEntry(entry), entry)
    /\ n' = n + 1
    /\ UNCHANGED <<check, stage, k, bought>>

\* What ends the handler between the two passes.
CartFaults ==
    IF allows.listing /\ allows.ids = {} /\ ~allows.wildcard THEN {"no items"}
    ELSE IF f.line_items \in {Malformed, <<>>} THEN {"line_items"} ELSE {}

EndEntries ==
    /\ stage = "entries" /\ n \notin DOMAIN This.items
    /\ Report(CartFaults)
    /\ IF CartFaults = {} THEN stage' = "cart" /\ UNCHANGED k
       ELSE stage' = "constraints" /\ k' = k + 1
    /\ n' = 1
    /\ UNCHANGED <<check, allows, bought>>

\* A line that cannot be read is reported and adds nothing.
LineFaults(line) ==
    IF line = Malformed THEN {"line"}
    ELSE IF KeyOf(line) \in {Absent, Malformed} THEN {"id"}
    ELSE IF line.quantity = Malformed THEN {"quantity"}
    ELSE IF line.quantity # Absent /\ line.quantity < 0 THEN {"quantity"}
    ELSE {}

QuantityOf(line) == IF line.quantity = Absent THEN 0 ELSE line.quantity

ScanLine ==
    /\ stage = "cart" /\ n \in DOMAIN f.line_items
    /\ LET line == f.line_items[n]
       IN  IF LineFaults(line) # {} THEN Report(LineFaults(line)) /\ UNCHANGED bought
           ELSE /\ Report(IF /\ allows.ids # {} /\ ~allows.wildcard
                             /\ KeyOf(line) \notin allows.ids
                          THEN {"not acceptable"} ELSE {})
                /\ bought' = [bought EXCEPT ![KeyOf(line)] = @ + QuantityOf(line)]
    /\ n' = n + 1
    /\ UNCHANGED <<check, stage, k, allows>>

\* Total and per-product caps; a product no entry lists has none of its own.
\* has_quantity_limit says that some entry added to the total.
CapFaults ==
    Failing([total |-> allows.total > 0
                       /\ SumFunctionOnSet(bought, {p \in Products : bought[p] > 0}) > allows.total,
             cap |-> \E p \in allows.ids : bought[p] > allows.cap[p]])

\* Entries of an exact constraint from which nothing was bought.
Missing ==
    {j \in DOMAIN This.items :
        /\ This.items[j] # Malformed /\ IsList(This.items[j].acceptable)
        /\ ItemIds(This.items[j]) # {}
        /\ \A p \in ItemIds(This.items[j]) : bought[p] = 0}

EndCart ==
    /\ stage = "cart" /\ n \notin DOMAIN f.line_items
    /\ Report(CapFaults \cup
              IF This.match_mode = Malformed THEN {"match_mode"}
              ELSE IF This.match_mode = "exact" /\ Missing # {} THEN {"missing"} ELSE {})
    /\ stage' = "constraints" /\ k' = k + 1 /\ n' = 1
    /\ UNCHANGED <<check, allows, bought>>

------------------------------------------------------------------------------
Finish ==
    /\ stage = "constraints" /\ Looping
    /\ k \notin DOMAIN check.constraints
    /\ stage' = "done"
    /\ UNCHANGED <<check, k, n, allows, bought, result>>

Next == RejectArguments \/ RejectEntry \/ CheckAmount \/ CheckAllowlist \/ Raise \/ Note
        \/ CheckUnknown \/ EnterLineItems \/ ScanEntry \/ EndEntries \/ ScanLine \/ EndCart
        \/ Finish

\* The call runs to its end.
Spec == Init /\ [][Next]_vars /\ WF_vars(Next)
==============================================================================
