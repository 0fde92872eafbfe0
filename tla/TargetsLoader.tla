---------------------------- MODULE TargetsLoader ----------------------------
(***************************************************************************)
(* AFLCoverage::load_instr_targets of src/llvm/src/afl-llvm-pass.so.cc:    *)
(* the JSON file named by $TARGETS_FILE is read into block_targets         *)
(* (path -> set of lines) and const_targets (path -> line -> name).        *)
(*                                                                         *)
(* A document is abstracted to what the loader tells apart.  An entry is  *)
(* NotObject (find() on a non-object finds nothing) or a record of the    *)
(* values of its "path", "targets_block" and "targets_const" members:     *)
(*  - path: a file, Absent, or NonString (a JSON value that is no string);*)
(*  - blocks: Absent, or the set of JSON values the range-for over        *)
(*    "targets_block" visits: line numbers and NonNumber;                 *)
(*  - consts: Absent, NotObject, or the object's members in the order a   *)
(*    std::map iterates them (keys sorted), as <<key, value>> pairs.  A    *)
(*    key is a string that std::stoul parses to a line, or throws on.      *)
(* An exception nobody catches ends the compiler: state "crashed".        *)
(***************************************************************************)
EXTENDS Integers, Sequences, FiniteSets

CONSTANTS
    Files,        \* paths named by entries
    MaxLine,      \* line numbers are 0..MaxLine
    Names,        \* constant names (JSON strings)
    Keys,         \* member names of "targets_const", in std::map order below
    KeyRank,      \* KeyRank[k]: position of key k in the sorted key order
    Stoul,        \* Stoul[k]: the line std::stoul(k) yields, or Throws
    NotObject, Absent, NonString, NonNumber, Throws, NoName,
    Unset,        \* $TARGETS_FILE not set
    Unopenable,   \* the file cannot be opened
    Invalid,      \* the file is no JSON text (file >> json throws)
    NotArray,     \* valid JSON that is no array
    MaxEntries, MaxPairs,
    BlockValues,  \* line numbers targets_block may list
    ConstValues   \* values targets_const members may have

Lines == 0..MaxLine

ASSUME LoaderAssumption ==
    /\ MaxLine \in Nat /\ MaxEntries \in Nat /\ MaxPairs \in Nat
    /\ KeyRank \in [Keys -> Nat] /\ Stoul \in [Keys -> Lines \cup {Throws}]
    /\ NoName \notin Names /\ NonString \notin Names
    /\ BlockValues \subseteq Lines /\ ConstValues \subseteq Names \cup {NonString}

(* Every abstract document of at most MaxEntries entries.                 *)
ConstObjects ==
    UNION {{s \in [1..n -> Keys \X ConstValues] :
               \A i \in 1..(n - 1) : KeyRank[s[i][1]] < KeyRank[s[i + 1][1]]}
           : n \in 0..MaxPairs}
(* The abstract values that stand for JSON shapes are none of the values  *)
(* they are told apart from.                                               *)
ASSUME ShapeAssumption ==
    /\ {Absent, NonString} \cap Files = {}
    /\ {NotObject, Absent} \cap ConstObjects = {}

Entries ==
    {NotObject} \cup
    [path : Files \cup {Absent, NonString},
     blocks : {Absent} \cup SUBSET (BlockValues \cup {NonNumber}),
     consts : {Absent, NotObject} \cup ConstObjects]
Documents ==
    {Unset, Unopenable, Invalid, NotArray}
    \cup UNION {[1..n -> Entries] : n \in 0..MaxEntries}

VARIABLES
    doc,            \* the document read
    lpc,            \* "open", "entry", "const", "done" or "crashed"
    ei,             \* the entry the loop is at
    ki,             \* the member of targets_const the inner loop is at
    blockTargets,   \* block_targets
    constTargets    \* const_targets (NoName: no entry for the line)

lvars == <<doc, lpc, ei, ki, blockTargets, constTargets>>

(* A mutant: every value of targets_block is inserted, numbers or not.    *)
BlockNumbersAll(b) == b

(* The numbers among the values the range-for over targets_block visits;  *)
(* everything else fails block.is_number() and is skipped.                *)
BlockNumbers(b) == b \cap Lines

Init ==
    /\ doc \in Documents
    /\ lpc = "open"
    /\ ei = 0
    /\ ki = 0
    /\ blockTargets = [f \in Files |-> {}]
    /\ constTargets = [f \in Files |-> [l \in Lines |-> NoName]]

(* getenv, ifstream, file >> json and the is_array() test.  A missing or  *)
(* unreadable file and a non-array leave the collections empty; a parse   *)
(* error throws out of the pass.                                          *)
Open ==
    /\ lpc = "open"
    /\ lpc' = CASE doc \in {Unset, Unopenable, NotArray} -> "done"
                [] doc = Invalid -> "crashed"
                [] OTHER -> "entry"
    /\ ei' = 1
    /\ UNCHANGED <<doc, ki, blockTargets, constTargets>>

(* One iteration of `for (const auto& target : json)` up to the inner    *)
(* loop over targets_const: skip an entry without "path" or               *)
(* "targets_block"; std::string codefile = target["path"] throws on a     *)
(* non-string; the numbers of targets_block are inserted.  Then           *)
(* target["targets_const"] on a const json: a missing member is undefined *)
(* behaviour (JSON_ASSERT aborts, or the end() node is read), modelled as *)
(* a crash or an empty object; a non-object is passed over.               *)
Entry ==
    /\ lpc = "entry"
    /\ ei <= Len(doc)
    /\ LET e == doc[ei] IN
       IF e = NotObject \/ e.path = Absent \/ e.blocks = Absent
         THEN /\ ei' = ei + 1
              /\ UNCHANGED <<lpc, ki, blockTargets>>
         ELSE IF e.path = NonString
         THEN /\ lpc' = "crashed"
              /\ UNCHANGED <<ei, ki, blockTargets>>
         ELSE /\ blockTargets' = [blockTargets EXCEPT
                                    ![e.path] = @ \cup BlockNumbers(e.blocks)]
              /\ \/ /\ e.consts \in ConstObjects \ {<<>>}
                    /\ lpc' = "const" /\ ki' = 1
                    /\ UNCHANGED ei
                 \/ /\ e.consts \in {NotObject, <<>>, Absent}
                    /\ ei' = ei + 1
                    /\ UNCHANGED <<lpc, ki>>
                 \/ /\ e.consts = Absent
                    /\ lpc' = "crashed"
                    /\ UNCHANGED <<ei, ki>>
    /\ UNCHANGED <<doc, constTargets>>

(* A mutant: a line already named keeps its first name.                  *)
ConstPairKeepFirst ==
    /\ lpc = "const"
    /\ LET e == doc[ei]
           m == e.consts[ki]
       IN IF Stoul[m[1]] = Throws \/ m[2] = NonString
            THEN /\ lpc' = "crashed"
                 /\ UNCHANGED <<ei, ki, constTargets>>
            ELSE /\ constTargets' =
                        IF constTargets[e.path][Stoul[m[1]]] = NoName
                          THEN [constTargets EXCEPT ![e.path][Stoul[m[1]]] = m[2]]
                          ELSE constTargets
                 /\ IF ki < Len(e.consts)
                      THEN ki' = ki + 1 /\ UNCHANGED <<lpc, ei>>
                      ELSE lpc' = "entry" /\ ei' = ei + 1 /\ UNCHANGED ki
    /\ UNCHANGED <<doc, blockTargets>>

(* One member of targets_const: std::stoul(it.key()) and                  *)
(* it.value().get<std::string>() throw on a bad key or a non-string; else *)
(* const_targets[codefile][line_num] = const_name overwrites.             *)
ConstPair ==
    /\ lpc = "const"
    /\ LET e == doc[ei]
           m == e.consts[ki]
       IN IF Stoul[m[1]] = Throws \/ m[2] = NonString
            THEN /\ lpc' = "crashed"
                 /\ UNCHANGED <<ei, ki, constTargets>>
            ELSE /\ constTargets' = [constTargets EXCEPT
                                        ![e.path][Stoul[m[1]]] = m[2]]
                 /\ IF ki < Len(e.consts)
                      THEN ki' = ki + 1 /\ UNCHANGED <<lpc, ei>>
                      ELSE lpc' = "entry" /\ ei' = ei + 1 /\ UNCHANGED ki
    /\ UNCHANGED <<doc, blockTargets>>

(* The loop over the entries ends: load_instr_targets returns.            *)
Finish ==
    /\ lpc = "entry"
    /\ ei > Len(doc)
    /\ lpc' = "done"
    /\ UNCHANGED <<doc, ei, ki, blockTargets, constTargets>>

(* The pass goes on with what was loaded, or the compiler is gone.        *)
Stop ==
    /\ lpc \in {"done", "crashed"}
    /\ UNCHANGED lvars

Next == Open \/ Entry \/ ConstPair \/ Finish \/ Stop

LoaderSpec == Init /\ [][Next]_lvars

-----------------------------------------------------------------------------
(* Properties.                                                            *)

LoaderTypeOK ==
    /\ doc \in Documents
    /\ lpc \in {"open", "entry", "const", "done", "crashed"}
    /\ ei \in 0..(MaxEntries + 1) /\ ki \in 0..MaxPairs
    /\ blockTargets \in [Files -> SUBSET Lines]
    /\ constTargets \in [Files -> [Lines -> Names \cup {NoName}]]

IsArray == doc \notin {Unset, Unopenable, Invalid, NotArray}

(* Entry i declares a file path and a targets_block member.               *)
WellFormed(i) ==
    doc[i] # NotObject /\ doc[i].path \in Files /\ doc[i].blocks # Absent

(* The entries the specification says are loaded, per file.               *)
LoadedEntries(f) ==
    IF IsArray THEN {i \in 1..Len(doc) : WellFormed(i) /\ doc[i].path = f}
    ELSE {}

(* The block targets of a file: every number its entries list.            *)
SpecBlocks == [f \in Files |-> UNION {BlockNumbers(doc[i].blocks) :
                                      i \in LoadedEntries(f)}]

(* The members, <<entry, position>>, that name line l of file f; the      *)
(* last of them in document order gives the line its name.                *)
ConstWrites(f, l) ==
    {w \in {<<i, j>> : i \in {i2 \in LoadedEntries(f) :
                                  doc[i2].consts \in ConstObjects},
                      j \in 1..MaxPairs} :
        /\ w[2] <= Len(doc[w[1]].consts)
        /\ Stoul[doc[w[1]].consts[w[2]][1]] = l}

LastWrite(W) ==
    CHOOSE w \in W : \A v \in W :
        v[1] < w[1] \/ (v[1] = w[1] /\ v[2] <= w[2])

SpecConsts ==
    [f \in Files |-> [l \in Lines |->
        IF ConstWrites(f, l) = {} THEN NoName
        ELSE LET w == LastWrite(ConstWrites(f, l))
             IN doc[w[1]].consts[w[2]][2]]]

(* load_instr_targets, when it returns, has loaded exactly the targets of *)
(* the entries that declare a path and targets_block: every number of    *)
(* their targets_block, and for each (file, line) the name of the last    *)
(* member naming it, in entry order and in the sorted order of a          *)
(* targets_const object (keys such as "1" and "1x" both name line 1).     *)
LoadedAsSpecified ==
    lpc = "done" => /\ blockTargets = SpecBlocks
                    /\ constTargets = SpecConsts

(* Spec sections 4.1 and 7: loading is never fatal -- a malformed entry  *)
(* is skipped with a diagnostic, an unparsable file degrades to empty    *)
(* collections.                                                           *)
LoadingNeverFatal == lpc # "crashed"

=============================================================================
