SPECIFICATION Spec
CONSTANTS
    Idents = {"bit", "pair"}
    Width <- MCWidth
    Names = {"a"}
    None = None
    MaxScopes = 4
    MaxVars = 3
    MaxChanges = 3
INVARIANTS
    AluCountsExact
    RfCountsExact
    NetsCountedOnce
CHECK_DEADLOCK FALSE
