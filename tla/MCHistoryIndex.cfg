SPECIFICATION Spec
CONSTANTS
    Cmds = {x, y}
    top = top
    sub = sub
    other = other
    Dirs <- MCDirs
    NoDir = NoDir
    Times = {1, 2}
    CompactAt = 2
    MaxOcc = 4
SYMMETRY Symmetry
INVARIANTS ContextExact RecallExact
CHECK_DEADLOCK FALSE
