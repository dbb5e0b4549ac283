----------------------------- MODULE MCIssuance -----------------------------
(***************************************************************************)
(* The mandates of MCIssuance: two line-item entries that several mandates *)
(* share, one mandate listing an entry twice, one whose second entry may   *)
(* fail after the first was replaced, allowlists before and after the line *)
(* items, two shops of one name, and mandates of one kind only.            *)
(***************************************************************************)
EXTENDS IssuanceRefinement

CONSTANTS e1, e2

Shop(id, name, site) == [id |-> id, name |-> name, website |-> site]

ById == Shop("m1", Absent, Absent)
ByName == Shop(Absent, "acme", "acme.org")
Shops == <<Shop(Absent, "acme", "acme.com"), Shop(Absent, "acme", "acme.org"), Shop("m1", "other", "o.com")>>

Thing(id, sku) == [id |-> id, sku |-> sku, ref |-> Absent]

\* The lists the user may write: no field, any item, one item by either of its
\* keys, two items, and one that some mandates do not disclose.
MCLists == {Absent, <<>>, <<Thing(Absent, "s1")>>, <<Thing("i2", Absent), Thing("i1", "s1")>>}

Things == <<Thing("i1", "s1"), Thing("i2", Absent)>>

Other == [type |-> "other", allowed |-> <<>>, entries |-> <<>>]
Allow(list) == [type |-> "allowed", allowed |-> list, entries |-> <<>>]
Lines(list) == [type |-> "line_items", allowed |-> <<>>, entries |-> list]

Auto(items, checkout, payment) ==
    [mode |-> "AUTONOMOUS", merchants |-> Shops, items |-> items,
     checkout |-> checkout, payment |-> payment]

MCMandates ==
    { Auto(Things, <<Allow(<<ById, ByName>>), Lines(<<e1, e2>>)>>, <<Other, Allow(<<ByName>>)>>),
      Auto(SubSeq(Things, 1, 1), <<Lines(<<e2>>), Other, Lines(<<e1>>)>>, Absent),
      Auto(Things, <<Lines(<<e1, e1>>), Lines(<<e2>>)>>, <<>>),
      Auto(Things, Absent, <<Allow(<<>>), Allow(<<ById, ByName, ById>>)>>),
      Auto(Things, <<Lines(<<e2>>), Allow(<<Shop("m9", "acme", Absent)>>)>>,
           <<Allow(<<Shop("m9", "acme", Absent)>>), Other>>),
      Auto(Things, <<Lines(<<e1>>)>>, <<Allow(<<Shop("m9", "nobody", Absent)>>)>>),
      [Auto(Things, Absent, <<>>) EXCEPT !.mode = "IMMEDIATE"] }

=============================================================================
