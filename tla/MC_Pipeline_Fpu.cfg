SPECIFICATION Spec
CONSTANTS
    PulpObi = TRUE
    CorevPulp = TRUE
    Regs = {x1, x2}
    Types = {"word"}
    Signs = {"sign"}
    Bases = {0}
    Incs = {1}
    Lats = {1, 3}
    Results = {0}
SYMMETRY RegSymmetry
INVARIANTS
    OperandsInOrder
    JumpsInOrder
