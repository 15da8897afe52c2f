SPECIFICATION FairSpec
CONSTANTS
    Programs <- MCPrograms
    Handler = 4
    Debugger = 8
    DebugExc = 12
    StepModes <- MCStepModes
INVARIANTS
    TypeOK
    ClockWhileBusy
    HaltEntryIsShort
PROPERTIES
    ImplementsTraps
    HaltServed
    WakesUp
