SPECIFICATION FairSpec
CONSTANTS
    Start0 = 1
    End0 = 4
    Start1 = 5
    End1 = 8
    Counts = {0, 2}
    Modulus = 4
    BodyKinds = {"plain"}
    LastKinds = {"elw"}
    Steps = {FALSE}
PROPERTIES
    LoopsEnd
