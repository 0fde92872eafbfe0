----------------------- MODULE ArgumentProjectorProofs -----------------------
(***************************************************************************)
(* Type correctness of getValues (ArgumentProjector), for every type      *)
(* structure ProjectorAssumption allows.  A load yields a field type of a *)
(* struct of the module, which ProjectorAssumption makes a type of the     *)
(* module; PInv adds that the field loop starts at the first index, so     *)
(* path[fi] is an element of the path.                                     *)
(***************************************************************************)
EXTENDS ArgumentProjector, TLAPS

PInv == ProjTypeOK /\ (ppc = "field" => fi >= 1)

LEMMA InitPInv == Init => PInv
BY ProjectorAssumption DEF Init, PInv, ProjTypeOK

LEMMA NoArgumentPInv == PInv /\ NoArgument => PInv'
BY DEF PInv, ProjTypeOK, NoArgument

LEMMA ResolveCrashPInv == PInv /\ ResolveCrash => PInv'
BY DEF PInv, ProjTypeOK, ResolveCrash

LEMMA ReturnPInv == PInv /\ Return => PInv'
BY DEF PInv, ProjTypeOK, Return

LEMMA HaltPInv == PInv /\ Halt => PInv'
BY DEF PInv, ProjTypeOK, Halt, pvars

(* changeStructPointersToStructTypes yields a type of the module.        *)
LEMMA NormaliseType ==
    ASSUME NEW t \in Types
    PROVE  Normalise(t) \in Types
BY ProjectorAssumption DEF Normalise

LEMMA ResolvePInv == PInv /\ Resolve => PInv'
<1> SUFFICES ASSUME PInv, Resolve PROVE PInv'
    OBVIOUS
<1>1. path' \in Seq(Nat)
    <2>1. PICK p \in IndicesAt(rpos) : path' = p
        BY DEF Resolve
    <2>2. rpos \in 1..MaxArgs
        BY ProjectorAssumption DEF Resolve, PInv, ProjTypeOK
    <2>3. IndicesAt(rpos) \subseteq Seq(Nat)
        BY <2>2, ProjectorAssumption DEF IndicesAt
    <2> QED
        BY <2>1, <2>3
<1>2. tgt' \in Types
    BY NormaliseType DEF Resolve, PInv, ProjTypeOK
<1> QED
    BY <1>1, <1>2 DEF Resolve, PInv, ProjTypeOK

LEMMA ProjectPInv == PInv /\ Project => PInv'
<1> SUFFICES ASSUME PInv, Project PROVE PInv'
    OBVIOUS
<1>1. CASE ~GepOK(tgt, val, path[fi])
    BY <1>1 DEF Project, PInv, ProjTypeOK
<1>2. CASE GepOK(tgt, val, path[fi])
    <2> DEFINE l == FieldAt(tgt, path[fi])
    <2>1. /\ res' = Append(res, l) /\ val' = l /\ tgt' = l
          /\ fi' = fi + 1 /\ ppc' = ppc /\ ppc = "field"
          /\ UNCHANGED <<rpos, argType, path>>
        BY <1>2 DEF Project
    <2>2. /\ fi \in 1..Len(path)
          /\ path \in Seq(Nat) /\ res \in Seq(Types) /\ tgt \in Types
        BY <2>1 DEF Project, PInv, ProjTypeOK
    <2>3. /\ Kind[tgt] = "struct"
          /\ path[fi] \in Nat /\ path[fi] < Len(FieldTypes[tgt])
        BY <1>2, <2>2 DEF GepOK
    <2>4. l \in Types
        BY <2>3, <2>2, ProjectorAssumption DEF FieldAt
    <2> QED
        BY <2>1, <2>2, <2>4 DEF PInv, ProjTypeOK
<1> QED
    BY <1>1, <1>2

LEMMA NextPInv == PInv /\ [Next]_pvars => PInv'
<1> SUFFICES ASSUME PInv, [Next]_pvars PROVE PInv'
    OBVIOUS
<1>1. CASE UNCHANGED pvars
    BY <1>1 DEF PInv, ProjTypeOK, pvars
<1> QED
    BY <1>1, NoArgumentPInv, ResolvePInv, ResolveCrashPInv, ProjectPInv,
       ReturnPInv, HaltPInv DEF Next

(* getValues keeps its state well typed: the path is a vector of field   *)
(* indices, target_type and the loaded values are types of the module.   *)
THEOREM ProjectorTypeCorrect == ProjectorSpec => []ProjTypeOK
<1>1. PInv => ProjTypeOK
    BY DEF PInv
<1> QED
    BY InitPInv, NextPInv, <1>1, PTL DEF ProjectorSpec

=============================================================================
