\* Two tenants; a burst of two calls; a call costs three units and one unit
\* comes back per tick, so a refused call is one to three ticks early, rounded to
\* grains of two.  The clock may be set back by one tick at any moment.
SPECIFICATION Spec
CONSTANTS
    Keys = {k1, k2}
    Capacity = 6
    Refill = 1
    CallCost = 3
    Grain = 2
    NoBucket = NoBucket
    MaxTicks = 5
    MaxBack = 1
SYMMETRY Tenants
INVARIANTS TypeOK WindowBound RetryAfterWithinGrain
PROPERTY ImplementsEagerBucket
