SPECIFICATION Spec
CONSTANTS
    Applies = {a1, a2}
    Installs = {"home", "opt", "service"}
    Across = {TRUE, FALSE}
    MaxFaults = 2
INVARIANTS ProgramKept
PROPERTIES ComesBack
CHECK_DEADLOCK FALSE
