SPECIFICATION Spec
CONSTANTS
    Depth = 4
    Word = {a, b}
    ResetWord = a
PROPERTIES
    ImplementsQueue

