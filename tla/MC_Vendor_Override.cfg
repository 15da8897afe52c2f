SPECIFICATION Spec
CONSTANTS
    a = a
    b = b
    Root = Root
    Names = {a, b, Root}
    Revs = {r1, r2}
    Branch = Branch
    None = None
    Torn = Torn
    Partial = Partial
    Patches = {1, 2}
    Descs <- PlainDescs
    ArgSets <- OverrideArgs
    MaxRuns = 3
    MaxEdits = 0
SYMMETRY RevSymmetry
INVARIANTS
    OverrideHonoured
CHECK_DEADLOCK FALSE
