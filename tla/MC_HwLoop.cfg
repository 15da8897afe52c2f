SPECIFICATION CarefulSpec
CONSTANTS
    Start0 = 2
    End0 = 5
    Start1 = 1
    End1 = 7
    Counts = {0, 2}
    Modulus = 4
    BodyKinds = {"plain", "csr", "ecall", "elw"}
    LastKinds = {"plain", "csr", "ecall"}
    Steps = {FALSE, TRUE}
INVARIANTS
    JumpsBehindLast
    LoopStateInBody
PROPERTIES
    RunsInOrder
    LoopsEnd
