CONSTANTS
    Ids = {"m1", "m9", "i1", "i2", "s1"}
    Names = {"acme", "other", "nobody"}
    Websites = {"acme.com", "acme.org", "o.com"}
    e1 = e1
    e2 = e2
    Entries = {e1, e2}
    Mandates <- MCMandates
    Lists <- MCLists
    MaxCalls = 2
    Absent = Absent
SPECIFICATION Spec
INVARIANTS
    TypeOK
    NoDanglingRefs
PROPERTIES
    KeepsItsPromise
