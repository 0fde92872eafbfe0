\* One compiler invocation over modules of two single-block functions of up
\* to two instructions: targets consumed in one function stay consumed.
CONSTANTS
    Procs = {p1}
    Files = {f1}
    SysFile = SysFile
    NoFile = NoFile
    MaxLine = 2
    Names = {c1}
    NoName = NoName
    EmptyName = EmptyName
    NI = 2
    NB = 1
    NF = 2
    IdBits = 2
    ShmInitValues <- MCAnyShm
    RatioValues <- MCRatios
    MaxAttach = 3
SPECIFICATION Spec
INVARIANTS
    BlockProbesExact
