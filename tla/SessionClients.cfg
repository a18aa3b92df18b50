SPECIFICATION Spec
CONSTANTS
    Agent = {a1, a2}
    NoAgent = NoAgent
    Call = {c1, c2}
    Kits = {"react", "flutter", "node", "go"}
    Faults = {"redis", "gateway", "network"}
SYMMETRY CallSymmetry
INVARIANTS
    TypeOK
    SettledViewIsTrue
    SettledIsNotLoading
    ServedOnce
PROPERTY
    NoLateIdentity
