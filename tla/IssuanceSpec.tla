----------------------------- MODULE IssuanceSpec -----------------------------
(***************************************************************************)
(* What issuing a Layer 2 promises, without loops and without references:  *)
(* the credential says what the mandate said when the call was made, every *)
(* listed object replaced by a disclosed one that agrees with it, or the   *)
(* call is refused.  A list of items the user writes is good for one       *)
(* credential: once a call has gone through its entry it is spent.         *)
(***************************************************************************)
EXTENDS Integers, Sequences, Functions

CONSTANTS Entries, Mandates, Lists, MaxCalls, Absent

VARIABLES wrote, spent, calls, mandate, verdict, given

------------------------------------------------------------------------------
SameProduct(a, b) == \E x \in {a.id, a.sku} \ {Absent} : x \in {b.id, b.sku}

SameShop(a, b) ==
    \/ a.id # Absent /\ a.id = b.id
    \/ Absent \in {a.id, b.id} /\ a.name # Absent /\ a.name = b.name

Listed(terms, type) ==
    IF terms = Absent THEN {} ELSE {n \in DOMAIN terms : terms[n].type = type}

Offered(list, from, Same(_, _)) == \A x \in Range(list) : \E y \in Range(from) : Same(x, y)

\* The uses the mandate makes of entries that restrict anything.
Uses(m) ==
    UNION {{<<n, j>> : j \in {i \in DOMAIN m.checkout[n].entries :
                wrote[m.checkout[n].entries[i]] \notin {Absent, <<>>}}} :
           n \in Listed(m.checkout, "line_items")}

Used(m, use) == m.checkout[use[1]].entries[use[2]]

Grantable(m) ==
    /\ m.mode = "AUTONOMOUS"
    /\ \A terms \in {m.checkout, m.payment} : \A n \in Listed(terms, "allowed") :
          Offered(terms[n].allowed, m.merchants, SameShop)
    /\ \A use \in Uses(m) :
          /\ Used(m, use) \notin spent
          /\ Offered(wrote[Used(m, use)], m.items, SameProduct)
          /\ \A other \in Uses(m) : Used(m, other) = Used(m, use) => other = use

\* said: what a credential says, list by list, against what was written.
Renders(said, written, from, Same(_, _)) ==
    /\ DOMAIN said = DOMAIN written
    /\ \A n \in DOMAIN written : said[n] \in Range(from) /\ Same(written[n], said[n])

SaysTerm(said, term, m) ==
    /\ said.type = term.type
    /\ term.type = "allowed" => Renders(said.allowed, term.allowed, m.merchants, SameShop)
    /\ term.type = "line_items" =>
         /\ DOMAIN said.items = DOMAIN term.entries
         /\ \A n \in DOMAIN term.entries :
              IF wrote[term.entries[n]] \in {Absent, <<>>} THEN said.items[n] = <<>>
              ELSE Renders(said.items[n], wrote[term.entries[n]], m.items, SameProduct)

SaysTerms(said, terms, m) ==
    IF terms = Absent THEN said = Absent
    ELSE DOMAIN said = DOMAIN terms /\ \A n \in DOMAIN terms : SaysTerm(said[n], terms[n], m)

\* The two mandates say what was written, and are bound together if both exist.
Says(credential, m) ==
    /\ credential.for = m
    /\ SaysTerms(credential.checkout, m.checkout, m)
    /\ SaysTerms(credential.payment, m.payment, m)
    /\ credential.bound <=> (Absent \notin {m.checkout, m.payment})

------------------------------------------------------------------------------
vars == <<wrote, spent, calls, mandate, verdict, given>>

Init ==
    /\ wrote \in [Entries -> Lists] /\ spent = {}
    /\ calls = 0 /\ mandate = Absent /\ verdict = "none" /\ given = <<>>

\* Writing a list makes its entry fit for use again.
Rewrite ==
    /\ verdict = "none"
    /\ \E entry \in Entries, list \in Lists :
         wrote' = [wrote EXCEPT ![entry] = list] /\ spent' = spent \ {entry}
    /\ UNCHANGED <<calls, mandate, verdict, given>>

Ask ==
    /\ verdict = "none" /\ calls < MaxCalls
    /\ calls' = calls + 1
    /\ mandate' \in Mandates
    /\ verdict' = "pending" \/ (verdict' = "refused" /\ ~Grantable(mandate'))
    /\ UNCHANGED <<wrote, spent, given>>

Grant ==
    /\ verdict = "pending" /\ Grantable(mandate)
    /\ verdict' = "granted"
    /\ \E credential \in Range(given') :
         given' = Append(given, credential) /\ Says(credential, mandate)
    /\ spent' = spent \cup {Used(mandate, use) : use \in Uses(mandate)}
    /\ UNCHANGED <<wrote, calls, mandate>>

\* A refused call may have spent some of the entries it went through.
Refuse ==
    /\ verdict = "pending" /\ ~Grantable(mandate)
    /\ verdict' = "refused"
    /\ \E S \in SUBSET {Used(mandate, use) : use \in Uses(mandate)} : spent' = spent \cup S
    /\ UNCHANGED <<wrote, calls, mandate, given>>

Take ==
    /\ verdict \in {"granted", "refused"}
    /\ verdict' = "none" /\ mandate' = Absent
    /\ UNCHANGED <<wrote, spent, calls, given>>

Next == Rewrite \/ Ask \/ Grant \/ Refuse \/ Take

Answered == verdict = "pending" ~> verdict \in {"granted", "refused"}

\* What a call may answer and hand out, and that it answers at all.
Safety == Init /\ [][Next]_vars

Spec == Safety /\ Answered
==============================================================================
