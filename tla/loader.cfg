\* One file, lines 0..1, two names; documents of up to two entries, objects
\* of up to two members, keys "1", "1x" and "bad".
CONSTANTS
    Files = {f1}
    MaxLine = 1
    Names = {c1, c2}
    Keys = {k1, k1x, kbad}
    k1 = k1
    k1x = k1x
    kbad = kbad
    KeyRank <- MCKeyRank
    Stoul <- MCStoul
    NotObject = NotObject
    Absent = Absent
    NonString = NonString
    NonNumber = NonNumber
    Throws = Throws
    NoName = NoName
    Unset = Unset
    Unopenable = Unopenable
    Invalid = Invalid
    NotArray = NotArray
    MaxEntries = 2
    MaxPairs = 2
    BlockValues = {1}
    ConstValues = {c1, c2}
SPECIFICATION LoaderSpec
INVARIANTS
    LoaderTypeOK
    LoadedAsSpecified
