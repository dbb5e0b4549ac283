SPECIFICATION Spec
CONSTANTS
    Absent = Absent
    Malformed = Malformed
    Keys = {"issuer", "user", "agent", "eve"}
    Kids = {"k1", "k2"}
    Instruments = {"visa", "amex"}
    Values = {"cart1", "cart2"}
    Strings = {"n", "old", "shop"}
    Disc <- MCDisc
    MandateOf <- Catalogue
    Calls <- MCCalls
    Skew = 1
    MaxLifetime = 2
    MaxClock = 2
INVARIANT
    MandatesNameOneKid
