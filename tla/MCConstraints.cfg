CONSTANTS
    Products = {"a", "b", "c"}
    Ids = {"m1"}
    Names = {"acme", "new"}
    Websites = {"acme.com", "acme.org", "new.com"}
    Currencies = {"USD", "EUR"}
    UnknownTypes = {"loyalty", "gift"}
    Checks <- MCChecks
    Absent = Absent
    Malformed = Malformed
SPECIFICATION Spec
INVARIANTS
    TypeOK
    FeasibleAccepted
PROPERTY
    AnswersAsPromised
CHECK_DEADLOCK FALSE
