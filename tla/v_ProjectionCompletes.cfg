\* Violation run.  Functions of up to three arguments, "r" of any type.
CONSTANTS
    Types = {tI, tS1, tP1, tS2, tP2, tPP1}
    tI = tI
    tS1 = tS1
    tP1 = tP1
    tS2 = tS2
    tP2 = tP2
    tPP1 = tPP1
    NoType = NoType
    Kind <- MCKind
    Pointee <- MCPointee
    FieldTypes <- MCFieldTypes
    DefaultIndices <- MCDefaultIndices
    GarbagePaths <- MCGarbagePaths
    MaxArgs = 3
SPECIFICATION ProjectorSpec
INVARIANT ProjectionCompletes
