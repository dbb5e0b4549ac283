SPECIFICATION FairSpec
CONSTANTS
    Absent = Absent
    Malformed = Malformed
    Keys = {"issuer", "user", "agent", "eve"}
    Kids = {"k1"}
    Instruments = {"visa"}
    Values = {"cart1", "cart2"}
    Strings = {}
    Disc <- MCDisc
    MandateOf <- Catalogue
    Calls <- MCCalls
    Skew = 1
    MaxLifetime = 2
    MaxClock = 0
    MaxDelegates = 4
    MaxMixed = 3
INVARIANTS
    EveryMandatePairedOnce
    PairsAreLinked
    ModesNeverMix
PROPERTIES
    KeepsItsPromise
