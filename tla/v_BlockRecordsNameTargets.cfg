\* One compiler invocation over every module of one function with up to two
\* blocks of up to two instructions, one target file, lines 1..2.
CONSTANTS
    Procs = {p1}
    Files = {f1}
    SysFile = SysFile
    NoFile = NoFile
    MaxLine = 2
    Names = {c1}
    NoName = NoName
    EmptyName = EmptyName
    NI = 2
    NB = 2
    NF = 1
    IdBits = 2
    ShmInitValues <- MCAnyShm
    RatioValues <- MCRatios
    MaxAttach = 3
SPECIFICATION Spec
INVARIANT
    BlockRecordsNameTargets
