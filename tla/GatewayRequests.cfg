SPECIFICATION GSpec
CONSTANTS
    Request = {r1, r2}
    s1 = s1
    b1 = b1
    b2 = b2
    Session = {s1}
    NoOne = NoOne
    Bundle = {b1, b2}
    Permits <- Allow
    Load = {m1, m2}
    NoModule = NoModule
    NoBundle = NoBundle
    NoInput = NoInput
    NoDecision = NoDecision
SYMMETRY SlotSymmetry
VIEW Remaining
INVARIANTS
    TypeOK
    ForwardedUnderOwnSession
    DecidedForAReason
    OneModuleOpen
    GatewayTypeOK
    PassedForAReason
    PassedUnderOwnSession
PROPERTIES
    ImplementsGate
