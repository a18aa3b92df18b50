SPECIFICATION Spec
CONSTANTS
    Request = {r1, r2}
    Key = {k1, k2}
    NoBucket = NoBucket
    NotWaiting = NotWaiting
    Burst = 2
    Cost = 2
    Refill = 3
    MaxTime = 3
SYMMETRY Symmetry
INVARIANTS
    TypeOK
    AdmissionBounded
    BurstGranted
