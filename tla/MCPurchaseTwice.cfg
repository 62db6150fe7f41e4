\* The same request sent twice at once.
SPECIFICATION PurchaseSpec
CONSTANTS
    month = month
    plus = plus
    Purchases = {r1, r2}
    NoRequest = NoRequest
    PurchaseKeys = {k1, k2}
    Products <- MCProducts
    Price <- MCPrice
    DurationDays <- MCDurationDays
    EntitlementOf <- MCEntitlementOf
    Quantities = {1}
    Savings = 4
    MaxDay = 0
PROPERTIES
    ExtendedOnlyByCharge
