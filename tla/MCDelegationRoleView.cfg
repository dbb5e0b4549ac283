CONSTANTS
    Intents <- MCIntents
    Shops = {"warehouse", "babolat"}
    Products = {"aero", "gold"}
    Agents = {"agent", "helper"}
    Price <- MCPrice
    CardLife = 3
    MandateLife = 2
    FulfilmentLife = 1
    Skew = 0
    MaxLifetime = 1
    MaxMandates = 1
    MaxPurchases = 1
    MaxClock = 4
    Absent = Absent
    Malformed = Malformed
SPECIFICATION Spec
INVARIANT
    RoleViewAccepted
CHECK_DEADLOCK FALSE
