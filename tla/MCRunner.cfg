SPECIFICATION Spec
CONSTANTS
    Calls = {c1, c2}
SYMMETRY Symmetry
INVARIANTS
    BrakeIsTight
    NothingOutlivesItsCall
    OkMeansFramed
PROPERTIES
    KeepsContract
