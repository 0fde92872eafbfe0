\* Two compiler invocations of a parallel build sharing a freshly created
\* segment; modules of one function with one block of one instruction.
\* IdBits = 3 leaves room for every allocation, so no ID wraps.
CONSTANTS
    Procs = {p1, p2}
    Files = {f1}
    SysFile = SysFile
    NoFile = NoFile
    MaxLine = 1
    Names = {c1}
    NoName = NoName
    EmptyName = EmptyName
    NI = 1
    NB = 1
    NF = 1
    IdBits = 3
    ShmInitValues <- MCFreshShm
    RatioValues <- MCRatios
    MaxAttach = 3
SPECIFICATION Spec
INVARIANT
    EventIdsUnique
