CONSTANTS
    Intents <- MCIntents
    Shops = {"warehouse", "babolat"}
    Products = {"aero", "gold"}
    Agents = {"agent", "helper"}
    Price <- MCPrice
    CardLife = 3
    MandateLife = 2
    FulfilmentLife = 1
    Skew = 0
    MaxLifetime = 1
    MaxMandates = 2
    MaxPurchases = 1
    MaxClock = 4
    Absent = Absent
    Malformed = Malformed
SPECIFICATION FairSpec
INVARIANT
    TypeOK
PROPERTY
    AcceptedWithinIntent
    InOrderServed
CHECK_DEADLOCK FALSE
