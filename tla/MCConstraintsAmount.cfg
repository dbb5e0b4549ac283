CONSTANTS
    Products = {"a", "b", "c"}
    Ids = {"m1"}
    Names = {"acme", "new"}
    Websites = {"acme.com", "acme.org", "new.com"}
    Currencies = {"USD", "EUR"}
    UnknownTypes = {"loyalty", "gift"}
    Checks <- AmountChecks
    Absent = Absent
    Malformed = Malformed
SPECIFICATION Spec
INVARIANT
    AmountRuleFollowed
CHECK_DEADLOCK FALSE
