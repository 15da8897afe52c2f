SPECIFICATION Spec
CONSTANTS
    a = a
    b = b
    Root = Root
    Names = {a, b, Root}
    Revs = {r1, r2}
    Branch = Branch
    None = None
    Torn = Torn
    Partial = Partial
    Patches = {1, 2}
    Descs <- MCDescs
    ArgSets <- MCArgSets
    MaxRuns = 3
    MaxEdits = 2
SYMMETRY RevSymmetry
INVARIANTS
    LockedImport
    LockGoesLast
    NoSilentUpdate
PROPERTIES
    CommitReproducible
CHECK_DEADLOCK FALSE
