SPECIFICATION Spec
CONSTANTS
    Inputs <- MCInputs
    Mappers = 3
    Reducers = 2
    Wrap = 64
INVARIANTS
    AnswerIdentifies
CHECK_DEADLOCK FALSE
