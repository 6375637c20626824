SPECIFICATION Spec
CONSTANTS
    Runs = {r1, r2, r3, r4}
    Absent = Absent
    Torn = Torn
SYMMETRY Symmetry
INVARIANTS ChainIsSigned SuccessIsReal
CHECK_DEADLOCK FALSE
