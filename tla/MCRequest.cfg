SPECIFICATION RequestSpec
CONSTANTS
    Parts = 3
PROPERTIES
    CallbackDiscipline
    Answered
CHECK_DEADLOCK FALSE
