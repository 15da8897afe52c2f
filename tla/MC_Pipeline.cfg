SPECIFICATION FairSpec
CONSTANTS
    PulpObi = FALSE
    CorevPulp = FALSE
    Regs = {"x1"}
    Types = {"word", "half"}
    Signs = {"sign"}
    Bases = {3}
    Incs = {3}
    Lats = {2, 3}
    Results = {0, 1}
INVARIANTS
    TypeOK
    CountsOutstanding
    IssuedOnce
    StoresItsBytes
    OperandsInOrder
    SlotsMatchUnit
    RegistersSettle
PROPERTIES
    InFlightEnds
