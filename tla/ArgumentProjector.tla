-------------------------- MODULE ArgumentProjector --------------------------
(***************************************************************************)
(* AFLCoverage::getValues of src/llvm/src/afl-llvm-pass.so.cc, run for     *)
(* every instrumented block (line 567) with vec = {"r"} and                *)
(* vec_selected_fields = {{0,1}} (lines 516-521).                          *)
(*                                                                         *)
(* getArgument finds the argument named "r" (LLVM keeps argument names     *)
(* unique, so at most one) and gives it default_indices[idx], idx being   *)
(* the argument's POSITION; changeStructPointersToStructTypes turns a      *)
(* pointer-to-struct type into the struct type; then, per index, a GEP     *)
(* {0, index} with target_type as source element type, a load, and the    *)
(* load becomes both the next base and (its type) the next target_type.   *)
(*                                                                         *)
(* A value is abstracted to its LLVM type; a type is a model value with   *)
(* its kind, pointee and field types given by constants.  The build has   *)
(* typed pointers: a GEP whose source element type is not the pointee of  *)
(* its base, or whose indices do not select a field, fails an assertion   *)
(* or dereferences the null type getIndexedType returns: "crashed".       *)
(***************************************************************************)
EXTENDS Integers, Sequences

CONSTANTS
    Types,          \* the LLVM types of the module
    NoType,         \* no type (not a pointer / no such field)
    Kind,           \* Kind[t] \in {"int", "ptr", "struct"}
    Pointee,        \* Pointee[t]: the element type of a pointer type
    FieldTypes,     \* FieldTypes[t]: the field types of a struct type
    DefaultIndices, \* vec_selected_fields: one field path per name of vec
    GarbagePaths,   \* what a read past the end of default_indices yields
    MaxArgs         \* arguments per function

ASSUME ProjectorAssumption ==
    /\ NoType \notin Types
    /\ Kind \in [Types -> {"int", "ptr", "struct"}]
    /\ Pointee \in [Types -> Types \cup {NoType}]
    /\ FieldTypes \in [Types -> Seq(Types)]
    /\ DefaultIndices \in Seq(Seq(Nat)) /\ GarbagePaths \subseteq Seq(Nat)
    /\ MaxArgs \in Nat

VARIABLES
    rpos,     \* position (1-based) of the argument named "r"; 0: none
    argType,  \* its type
    ppc,      \* "resolve", "field", "done" or "crashed"
    path,     \* pair.second.indexes
    tgt,      \* target_type
    val,      \* the type of target_value
    fi,       \* the index of the selected field the loop is at
    res       \* the types of the values pushed on res

pvars == <<rpos, argType, ppc, path, tgt, val, fi, res>>

(* A mutant: the pointee is taken without the isPointerTy and StructType *)
(* tests.                                                                 *)
NormaliseAlways(t) == Pointee[t]

(* changeStructPointersToStructTypes: a pointer to a struct becomes the    *)
(* struct, every other type is kept.                                      *)
Normalise(t) ==
    IF Kind[t] = "ptr" /\ Pointee[t] # NoType /\ Kind[Pointee[t]] = "struct"
      THEN Pointee[t] ELSE t

(* default_indices[idx]: a path when idx is in range, else whatever the   *)
(* memory past the vector holds.                                          *)
IndicesAt(pos) ==
    IF pos <= Len(DefaultIndices) THEN {DefaultIndices[pos]} ELSE GarbagePaths

(* IRB.CreateGEP(target_type, target_value, {0, f}) is well formed.       *)
GepOK(t, v, f) ==
    /\ Kind[t] = "struct" /\ Kind[v] = "ptr" /\ Pointee[v] = t
    /\ f < Len(FieldTypes[t])

(* The type of the value the load of field f of struct t yields.          *)
FieldAt(t, f) == FieldTypes[t][f + 1]

Init ==
    /\ rpos \in 0..MaxArgs
    /\ argType \in Types
    /\ ppc = "resolve"
    /\ path = <<>> /\ tgt = argType /\ val = argType
    /\ fi = 0 /\ res = <<>>

(* getArgument finds no argument named "r": the map is empty.             *)
NoArgument ==
    /\ ppc = "resolve" /\ rpos = 0
    /\ ppc' = "done"
    /\ UNCHANGED <<rpos, argType, path, tgt, val, fi, res>>

(* getArgument and changeStructPointersToStructTypes for the argument.    *)
Resolve ==
    /\ ppc = "resolve" /\ rpos # 0
    /\ \E p \in IndicesAt(rpos) : path' = p
    /\ tgt' = Normalise(argType) /\ val' = argType
    /\ fi' = 1 /\ ppc' = "field"
    /\ UNCHANGED <<rpos, argType, res>>

(* Copying the vector past the end of default_indices faults.             *)
ResolveCrash ==
    /\ ppc = "resolve" /\ rpos > Len(DefaultIndices)
    /\ ppc' = "crashed"
    /\ UNCHANGED <<rpos, argType, path, tgt, val, fi, res>>

(* One selected field: GEP, load, push, and the load's type becomes      *)
(* target_type.                                                           *)
Project ==
    /\ ppc = "field" /\ fi <= Len(path)
    /\ IF GepOK(tgt, val, path[fi])
         THEN LET l == FieldAt(tgt, path[fi]) IN
              /\ res' = Append(res, l)
              /\ val' = l /\ tgt' = l
              /\ fi' = fi + 1
              /\ UNCHANGED ppc
         ELSE /\ ppc' = "crashed"
              /\ UNCHANGED <<tgt, val, fi, res>>
    /\ UNCHANGED <<rpos, argType, path>>

(* The path is exhausted: getValues returns res.                          *)
Return ==
    /\ ppc = "field" /\ fi > Len(path)
    /\ ppc' = "done"
    /\ UNCHANGED <<rpos, argType, path, tgt, val, fi, res>>

Halt ==
    /\ ppc \in {"done", "crashed"}
    /\ UNCHANGED pvars

Next == NoArgument \/ Resolve \/ ResolveCrash \/ Project \/ Return \/ Halt

ProjectorSpec == Init /\ [][Next]_pvars

-----------------------------------------------------------------------------
(* Properties.                                                            *)

ProjTypeOK ==
    /\ rpos \in 0..MaxArgs /\ argType \in Types
    /\ ppc \in {"resolve", "field", "done", "crashed"}
    /\ path \in Seq(Nat) /\ tgt \in Types /\ val \in Types
    /\ fi \in Nat /\ res \in Seq(Types)

(* Spec section 4.6: the base of every projection is a pointer to an      *)
(* aggregate; field path[k] of it is loaded and is the next base.         *)
(* SpecChain[k] is the type of the k-th value loaded, NoType when the     *)
(* path leaves the type structure.                                        *)
SpecChain ==
    LET c[k \in 0..Len(path)] ==
          IF k = 0 THEN argType
          ELSE IF /\ c[k - 1] # NoType /\ Kind[c[k - 1]] = "ptr"
                  /\ Pointee[c[k - 1]] # NoType
                  /\ Kind[Pointee[c[k - 1]]] = "struct"
                  /\ path[k] < Len(FieldTypes[Pointee[c[k - 1]]])
               THEN FieldTypes[Pointee[c[k - 1]]][path[k] + 1]
               ELSE NoType
    IN c

(* Spec section 4.6: a path that the type structure supports is projected *)
(* to its end: getValues, given the argument named "r" and its path, does *)
(* not fail.                                                              *)
ProjectionCompletes ==
    ppc = "crashed" =>
        ~(/\ rpos \in 1..Len(DefaultIndices)
          /\ \A k \in 1..Len(path) : SpecChain[k] # NoType)

(* Spec section 4.6: field paths are aligned with the instrumented names  *)
(* by position, so the argument named "r" (name 1) is projected along     *)
(* default_indices[0], wherever it stands among the arguments.            *)
ProjectionByName ==
    ppc \in {"field", "done"} /\ rpos # 0 => path = DefaultIndices[1]

=============================================================================
