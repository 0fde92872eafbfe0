------------------------- MODULE TargetsLoaderProofs -------------------------
(***************************************************************************)
(* Proofs about load_instr_targets (module TargetsLoader) for every        *)
(* number of files, lines, names, keys and entries.                        *)
(***************************************************************************)
EXTENDS TargetsLoader, TLAPS

(* A document of n entries is a sequence of length n.                      *)
LEMMA DocLen ==
    ASSUME NEW S, NEW n \in Nat, NEW d \in [1..n -> S]
    PROVE  d \in Seq(S) /\ Len(d) = n
OBVIOUS

(* An abstract targets_const object is a sequence of <<key, value>> pairs *)
(* of at most MaxPairs members.                                            *)
LEMMA ConstObjectLen ==
    ASSUME LoaderAssumption, NEW o \in ConstObjects
    PROVE  /\ o \in Seq(Keys \X ConstValues)
           /\ Len(o) \in 0..MaxPairs
<1>1. PICK n \in 0..MaxPairs : o \in [1..n -> Keys \X ConstValues]
  BY DEF ConstObjects
<1>. QED  BY <1>1, DocLen

(* A document that is an array is a sequence of at most MaxEntries        *)
(* entries.                                                                *)
LEMMA ArrayDoc ==
    ASSUME LoaderAssumption, NEW d \in Documents,
           d \notin {Unset, Unopenable, Invalid, NotArray}
    PROVE  d \in Seq(Entries) /\ Len(d) \in 0..MaxEntries
<1>1. PICK n \in 0..MaxEntries : d \in [1..n -> Entries]
  BY DEF Documents
<1>. QED  BY <1>1, DocLen

(* The loop's position always names an entry of an array document, and the *)
(* inner loop's position a member of the current entry's targets_const.    *)
LoaderInv ==
    /\ LoaderTypeOK
    /\ lpc \in {"entry", "const"} => IsArray /\ ei \in 1..(Len(doc) + 1)
    /\ lpc = "const" =>
         /\ ei \in 1..Len(doc)
         /\ doc[ei] # NotObject /\ doc[ei].path \in Files
         /\ doc[ei].consts \in ConstObjects
         /\ ki \in 1..Len(doc[ei].consts)

LEMMA InitLoaderInv ==
    ASSUME LoaderAssumption
    PROVE  Init => LoaderInv
BY DEF Init, LoaderInv, LoaderTypeOK, Lines

(* getenv / open / parse / is_array: the loop starts at the first entry   *)
(* only when the document is an array.                                    *)
LEMMA OpenLoaderInv ==
    ASSUME LoaderAssumption, LoaderInv, Open
    PROVE  LoaderInv'
<1>1. CASE doc \in {Unset, Unopenable, NotArray}
  BY <1>1 DEF Open, LoaderInv, LoaderTypeOK
<1>2. CASE doc = Invalid
  BY <1>2 DEF Open, LoaderInv, LoaderTypeOK
<1>3. CASE doc \notin {Unset, Unopenable, Invalid, NotArray}
  <2>1. Len(doc) \in 0..MaxEntries
    BY <1>3, ArrayDoc DEF LoaderInv, LoaderTypeOK
  <2>2. lpc' = "entry" /\ ei' = 1
    BY <1>3, Zenon DEF Open
  <2>. QED  BY <1>3, <2>1, <2>2 DEF Open, LoaderInv, LoaderTypeOK, IsArray
<1>. QED  BY <1>1, <1>2, <1>3

(* The two ends of the loop: the last entry is passed, or nothing moves.  *)
LEMMA FinishLoaderInv ==
    ASSUME LoaderAssumption, LoaderInv, Finish \/ Stop
    PROVE  LoaderInv'
BY DEF Finish, Stop, LoaderInv, LoaderTypeOK, IsArray, lvars

(* One iteration of the entry loop keeps the positions in range; the block *)
(* numbers it inserts are lines.                                           *)
LEMMA EntryLoaderInv ==
    ASSUME LoaderAssumption, LoaderInv, Entry
    PROVE  LoaderInv'
<1>1. /\ lpc = "entry" /\ IsArray
      /\ doc \in Seq(Entries) /\ Len(doc) \in 0..MaxEntries
      /\ ei \in 1..Len(doc)
  BY ArrayDoc DEF Entry, LoaderInv, LoaderTypeOK, IsArray
<1>. DEFINE e == doc[ei]
<1>2. e \in Entries
  BY <1>1
<1>3. UNCHANGED <<doc, constTargets>>
  BY DEF Entry
<1>4. CASE e = NotObject \/ e.path = Absent \/ e.blocks = Absent
  <2>1. ei' = ei + 1 /\ UNCHANGED <<lpc, ki, blockTargets>>
    BY <1>4, Zenon DEF Entry
  <2>. QED  BY <1>1, <1>3, <2>1 DEF LoaderInv, LoaderTypeOK, IsArray
<1>5. CASE ~(e = NotObject \/ e.path = Absent \/ e.blocks = Absent)
           /\ e.path = NonString
  <2>1. lpc' = "crashed" /\ UNCHANGED <<ei, ki, blockTargets>>
    BY <1>5, Zenon DEF Entry
  <2>. QED  BY <1>1, <1>3, <2>1 DEF LoaderInv, LoaderTypeOK, IsArray
<1>6. CASE ~(e = NotObject \/ e.path = Absent \/ e.blocks = Absent)
           /\ e.path # NonString
  <2>1. e.path \in Files
    BY <1>2, <1>6 DEF Entries
  <2>2. /\ blockTargets' = [blockTargets EXCEPT
                               ![e.path] = @ \cup BlockNumbers(e.blocks)]
        /\ \/ /\ e.consts \in ConstObjects \ {<<>>}
              /\ lpc' = "const" /\ ki' = 1
              /\ UNCHANGED ei
           \/ /\ e.consts \in {NotObject, <<>>, Absent}
              /\ ei' = ei + 1
              /\ UNCHANGED <<lpc, ki>>
           \/ /\ e.consts = Absent
              /\ lpc' = "crashed"
              /\ UNCHANGED <<ei, ki>>
    BY <1>6, Zenon DEF Entry
  <2>3. blockTargets' \in [Files -> SUBSET Lines]
    BY <2>1, <2>2 DEF LoaderInv, LoaderTypeOK, BlockNumbers
  <2>4. CASE e.consts \in ConstObjects \ {<<>>} /\ lpc' = "const" /\ ki' = 1
                /\ UNCHANGED ei
    <3>1. Len(e.consts) \in 1..MaxPairs
      BY <2>4, ConstObjectLen
    <3>. QED  BY <1>1, <1>3, <1>6, <2>1, <2>3, <2>4, <3>1
              DEF LoaderInv, LoaderTypeOK, IsArray
  <2>5. CASE e.consts \in {NotObject, <<>>, Absent} /\ ei' = ei + 1
                /\ UNCHANGED <<lpc, ki>>
    BY <1>1, <1>3, <2>3, <2>5 DEF LoaderInv, LoaderTypeOK, IsArray
  <2>6. CASE e.consts = Absent /\ lpc' = "crashed" /\ UNCHANGED <<ei, ki>>
    BY <1>1, <1>3, <2>3, <2>6 DEF LoaderInv, LoaderTypeOK, IsArray
  <2>. QED  BY <2>2, <2>4, <2>5, <2>6
<1>. QED  BY <1>4, <1>5, <1>6

(* One member of targets_const: the line std::stoul yields is a line and  *)
(* the name get<std::string>() yields is a name.                           *)
LEMMA ConstPairLoaderInv ==
    ASSUME LoaderAssumption, LoaderInv, ConstPair
    PROVE  LoaderInv'
<1>. DEFINE e == doc[ei]
            m == e.consts[ki]
<1>1. /\ lpc = "const"
      /\ doc \in Seq(Entries) /\ Len(doc) \in 0..MaxEntries
      /\ ei \in 1..Len(doc) /\ e.path \in Files /\ e.consts \in ConstObjects
      /\ ki \in 1..Len(e.consts)
  BY ArrayDoc DEF ConstPair, LoaderInv, LoaderTypeOK, IsArray
<1>2. /\ Len(e.consts) \in 0..MaxPairs
      /\ m \in Keys \X ConstValues
  BY <1>1, ConstObjectLen
<1>3. UNCHANGED <<doc, blockTargets>>
  BY DEF ConstPair
<1>4. CASE Stoul[m[1]] = Throws \/ m[2] = NonString
  <2>1. lpc' = "crashed" /\ UNCHANGED <<ei, ki, constTargets>>
    BY <1>4, Zenon DEF ConstPair
  <2>. QED  BY <1>1, <1>3, <2>1 DEF LoaderInv, LoaderTypeOK, IsArray
<1>5. CASE ~(Stoul[m[1]] = Throws \/ m[2] = NonString)
  <2>1. /\ constTargets' = [constTargets EXCEPT ![e.path][Stoul[m[1]]] = m[2]]
        /\ IF ki < Len(e.consts)
             THEN ki' = ki + 1 /\ UNCHANGED <<lpc, ei>>
             ELSE lpc' = "entry" /\ ei' = ei + 1 /\ UNCHANGED ki
    BY <1>5, Zenon DEF ConstPair
  <2>2. Stoul[m[1]] \in Lines /\ m[2] \in Names
    BY <1>2, <1>5
  <2>3. constTargets' \in [Files -> [Lines -> Names \cup {NoName}]]
    BY <1>1, <2>1, <2>2 DEF LoaderInv, LoaderTypeOK
  <2>4. CASE ki < Len(e.consts)
    <3>1. ki' = ki + 1 /\ UNCHANGED <<lpc, ei>>
      BY <2>1, <2>4, Zenon
    <3>2. ki' \in 1..Len(doc'[ei'].consts) /\ ki' \in 0..MaxPairs
      BY <1>1, <1>2, <1>3, <2>4, <3>1
    <3>3. doc'[ei'] = e /\ ei' \in 1..Len(doc')
      BY <1>1, <1>3, <3>1
    <3>. QED  BY <1>1, <1>3, <2>3, <3>1, <3>2, <3>3
              DEF LoaderInv, LoaderTypeOK, IsArray
  <2>5. CASE ~(ki < Len(e.consts))
    <3>1. lpc' = "entry" /\ ei' = ei + 1 /\ UNCHANGED ki
      BY <2>1, <2>5, Zenon
    <3>2. ei' \in 1..(Len(doc') + 1) /\ ei' \in 0..(MaxEntries + 1)
      BY <1>1, <1>3, <3>1
    <3>3. ki' \in 0..MaxPairs
      BY <1>1, <1>2, <3>1
    <3>. QED  BY <1>1, <1>3, <2>3, <3>1, <3>2, <3>3
              DEF LoaderInv, LoaderTypeOK, IsArray
  <2>. QED  BY <2>4, <2>5
<1>. QED  BY <1>4, <1>5

(* LoaderInv is inductive.                                                 *)
LEMMA NextLoaderInv ==
    ASSUME LoaderAssumption, LoaderInv, [Next]_lvars
    PROVE  LoaderInv'
<1>1. CASE UNCHANGED lvars
  BY <1>1 DEF LoaderInv, LoaderTypeOK, IsArray, lvars
<1>. QED  BY <1>1, OpenLoaderInv, EntryLoaderInv, ConstPairLoaderInv,
             FinishLoaderInv DEF Next

-----------------------------------------------------------------------------
(* What the loop has loaded so far.                                        *)

(* The entries the loop has passed, the current one included once its     *)
(* block numbers are in.                                                   *)
Processed ==
    IF IsArray THEN {i \in 1..Len(doc) : i < ei \/ (lpc = "const" /\ i = ei)}
    ELSE {}

(* The members naming line l of file f that the loop has already stored.  *)
SoFar(f, l) ==
    {w \in ConstWrites(f, l) :
        w[1] < ei \/ (lpc = "const" /\ w[1] = ei /\ w[2] < ki)}

(* The name the last of the writes W stores.                               *)
NameOf(W) ==
    IF W = {} THEN NoName
    ELSE doc[LastWrite(W)[1]].consts[LastWrite(W)[2]][2]

(* The collections hold what the entries passed so far load; at the end   *)
(* of an array every entry has been passed.                                *)
LoadInv ==
    lpc # "crashed" =>
      /\ \A f \in Files :
            blockTargets[f] = UNION {BlockNumbers(doc[i].blocks) :
                                     i \in LoadedEntries(f) \cap Processed}
      /\ \A f \in Files, l \in Lines : constTargets[f][l] = NameOf(SoFar(f, l))
      /\ lpc = "done" /\ IsArray => ei = Len(doc) + 1
      /\ lpc = "const" => doc[ei].blocks # Absent
      /\ lpc = "open" => ei = 0

(* The inductive invariant for LoadedAsSpecified.                          *)
LInv == LoaderInv /\ LoadInv

(* A set of writes plus one that comes after all of them: the added one   *)
(* is the last.                                                            *)
LEMMA LastWriteAdd ==
    ASSUME NEW W \in SUBSET (Int \X Int), NEW x \in Int \X Int,
           \A v \in W : v[1] < x[1] \/ (v[1] = x[1] /\ v[2] < x[2])
    PROVE  LastWrite(W \cup {x}) = x
<1>1. \A v \in W \cup {x} : v[1] < x[1] \/ (v[1] = x[1] /\ v[2] <= x[2])
  OBVIOUS
<1>2. ASSUME NEW y \in W \cup {x},
             \A v \in W \cup {x} : v[1] < y[1] \/ (v[1] = y[1] /\ v[2] <= y[2])
      PROVE  y = x
  <2>1. x[1] < y[1] \/ (x[1] = y[1] /\ x[2] <= y[2])
    BY <1>2
  <2>. QED  BY <2>1, <1>2
<1>. QED  BY <1>1, <1>2, Zenon DEF LastWrite

(* The writes naming a line are pairs <<entry, member>> of the document.  *)
LEMMA ConstWritesShape ==
    ASSUME LoaderAssumption, doc \in Documents, NEW f, NEW l,
           NEW w \in ConstWrites(f, l)
    PROVE  /\ IsArray /\ w = <<w[1], w[2]>>
           /\ w[1] \in LoadedEntries(f) /\ w[1] \in 1..Len(doc)
           /\ doc[w[1]].consts \in ConstObjects
           /\ w[2] \in 1..Len(doc[w[1]].consts)
           /\ Stoul[doc[w[1]].consts[w[2]][1]] = l
<1>1. IsArray
  BY DEF ConstWrites, LoadedEntries
<1>. QED  BY <1>1, ArrayDoc DEF ConstWrites, LoadedEntries

(* Which pairs name line l of file f.                                     *)
LEMMA ConstWritesMember ==
    ASSUME LoaderAssumption, NEW f, NEW l, NEW i, NEW j
    PROVE  <<i, j>> \in ConstWrites(f, l) <=>
             /\ i \in LoadedEntries(f) /\ doc[i].consts \in ConstObjects
             /\ j \in 1..MaxPairs /\ j <= Len(doc[i].consts)
             /\ Stoul[doc[i].consts[j][1]] = l
BY DEF ConstWrites


(* A step that keeps the document keeps what it says is to be loaded.     *)
LEMMA DocFixed ==
    ASSUME doc' = doc
    PROVE  /\ IsArray' = IsArray
           /\ \A f : LoadedEntries(f)' = LoadedEntries(f)
           /\ \A f, l : ConstWrites(f, l)' = ConstWrites(f, l)
BY DEF IsArray, LoadedEntries, WellFormed, ConstWrites

(* A step that keeps the document and, for each write naming a line,     *)
(* whether the loop has passed it, keeps the writes stored so far.        *)
LEMMA SoFarSame ==
    ASSUME doc' = doc, NEW f, NEW l,
           \A w \in ConstWrites(f, l) :
             (w[1] < ei' \/ (lpc' = "const" /\ w[1] = ei' /\ w[2] < ki'))
             <=> (w[1] < ei \/ (lpc = "const" /\ w[1] = ei /\ w[2] < ki))
    PROVE  SoFar(f, l)' = SoFar(f, l)
BY DocFixed DEF SoFar

(* Before the loop has reached an entry nothing is loaded.                 *)
LEMMA NothingLoaded ==
    ASSUME LoaderAssumption, doc \in Documents, ei \in {0, 1}, lpc # "const"
    PROVE  /\ Processed = {}
           /\ \A f, l : SoFar(f, l) = {}
<1>1. Processed = {}
  BY DEF Processed
<1>2. ASSUME NEW f, NEW l, NEW w \in SoFar(f, l) PROVE FALSE
  BY <1>2, ConstWritesShape DEF SoFar
<1>. QED  BY <1>1, <1>2

LEMMA InitLoadInv ==
    ASSUME LoaderAssumption
    PROVE  Init => LoadInv
<1>. SUFFICES ASSUME Init PROVE LoadInv
  OBVIOUS
<1>1. Processed = {} /\ \A f, l : SoFar(f, l) = {}
  BY NothingLoaded DEF Init
<1>. QED  BY <1>1 DEF Init, LoadInv, NameOf

(* getenv / open / parse / is_array: nothing loaded before or after.      *)
LEMMA OpenLoadInv ==
    ASSUME LoaderAssumption, LInv, Open
    PROVE  LoadInv'
<1>1. doc \in Documents /\ lpc = "open" /\ ei = 0 /\ ei' = 1 /\ lpc' # "const"
  <2>1. doc \in Documents /\ lpc = "open" /\ ei = 0
    BY DEF LInv, LoaderInv, LoaderTypeOK, LoadInv, Open
  <2>2. ei' = 1 /\ lpc' \in {"done", "crashed", "entry"}
    BY Zenon DEF Open
  <2>. QED  BY <2>1, <2>2
<1>2. Processed = {} /\ \A f, l : SoFar(f, l) = {}
  BY <1>1, NothingLoaded
<1>3. Processed' = {}
  BY <1>1 DEF Open, Processed, IsArray
<1>4. ASSUME NEW f, NEW l PROVE SoFar(f, l)' = {}
  <2>. SUFFICES ASSUME NEW w \in SoFar(f, l)' PROVE FALSE
    OBVIOUS
  <2>1. w \in ConstWrites(f, l) /\ w[1] < 1
    BY <1>1, DocFixed DEF Open, SoFar
  <2>. QED  BY <1>1, <2>1, ConstWritesShape
<1>5. lpc' = "done" => ~IsArray'
  BY Zenon DEF Open, IsArray
<1>. QED  BY <1>1, <1>2, <1>3, <1>4, <1>5
          DEF Open, LInv, LoadInv, NameOf

(* The loop ends after the last entry, or nothing moves.                  *)
LEMMA FinishLoadInv ==
    ASSUME LoaderAssumption, LInv, Finish \/ Stop \/ UNCHANGED lvars
    PROVE  LoadInv'
<1>. SUFFICES ASSUME lpc' # "crashed" PROVE LoadInv'
  BY DEF LoadInv
<1>1. /\ UNCHANGED <<doc, ei, ki, blockTargets, constTargets>>
      /\ lpc # "crashed"
      /\ \/ lpc' = lpc
         \/ lpc = "entry" /\ lpc' = "done" /\ ei > Len(doc)
  BY DEF Finish, Stop, lvars
<1>2. Processed' = Processed
  <2>1. IsArray' = IsArray /\ (lpc' = "const" <=> lpc = "const")
    BY <1>1, DocFixed
  <2>. QED  BY <1>1, <2>1 DEF Processed
<1>3. \A f, l : SoFar(f, l)' = SoFar(f, l)
  BY <1>1, DocFixed DEF SoFar
<1>4. lpc' = "done" /\ IsArray => ei = Len(doc) + 1
  BY <1>1 DEF LInv, LoaderInv, LoaderTypeOK, LoadInv
<1>5. /\ lpc' = "const" => doc[ei].blocks # Absent
      /\ lpc' = "open" => ei = 0
  BY <1>1 DEF LInv, LoadInv
<1>. QED  BY <1>1, <1>2, <1>3, <1>4, <1>5, DocFixed
          DEF LInv, LoadInv, NameOf

(* One iteration of the entry loop: the entry joins the processed ones;   *)
(* its block numbers are added to its file's; it stores no name yet.      *)
LEMMA EntryLoadInv ==
    ASSUME LoaderAssumption, ShapeAssumption, LInv, Entry
    PROVE  LoadInv'
<1>. SUFFICES ASSUME lpc' # "crashed" PROVE LoadInv'
  BY DEF LoadInv
<1>. DEFINE e == doc[ei]
            G(i) == BlockNumbers(doc[i].blocks)
<1>1. /\ lpc = "entry" /\ IsArray /\ doc \in Documents
      /\ doc \in Seq(Entries) /\ ei \in 1..Len(doc)
      /\ UNCHANGED <<doc, constTargets>>
  BY ArrayDoc DEF Entry, LInv, LoaderInv, LoaderTypeOK, IsArray
<1>2. /\ \A f \in Files : blockTargets[f] = UNION {G(i) : i \in LoadedEntries(f) \cap Processed}
      /\ \A f \in Files, l \in Lines : constTargets[f][l] = NameOf(SoFar(f, l))
  BY <1>1 DEF LInv, LoadInv, G
<1>0. e \in Entries
  BY <1>1
<1>3. ASSUME NEW f, NEW l, ei \notin LoadedEntries(f) \/ ~(e.consts \in ConstObjects \ {<<>>})
      PROVE  \A w \in ConstWrites(f, l) : w[1] # ei
  <2>. SUFFICES ASSUME NEW w \in ConstWrites(f, l), w[1] = ei PROVE FALSE
    OBVIOUS
  <2>1. /\ w[1] \in LoadedEntries(f) /\ doc[w[1]].consts \in ConstObjects
        /\ w[2] \in 1..Len(doc[w[1]].consts)
    BY <1>1, ConstWritesShape
  <2>. QED  BY <1>3, <2>1
<1>4. CASE e = NotObject \/ e.path = Absent \/ e.blocks = Absent
  <2>1. ei' = ei + 1 /\ UNCHANGED <<lpc, ki, blockTargets>>
    BY <1>4, Zenon DEF Entry
  <2>2. \A f : ei \notin LoadedEntries(f)
    BY <1>4, ShapeAssumption DEF LoadedEntries, WellFormed
  <2>3. Processed' = Processed \cup {ei}
    BY <1>1, <2>1, DocFixed DEF Processed
  <2>4. \A f \in Files : blockTargets'[f] = UNION {G(i) : i \in LoadedEntries(f)' \cap Processed'}
    BY <1>2, <2>1, <2>2, <2>3, <1>1, DocFixed
  <2>5. ASSUME NEW f, NEW l PROVE SoFar(f, l)' = SoFar(f, l)
    <3>1. ASSUME NEW w \in ConstWrites(f, l) PROVE w[1] \in Int /\ w[1] # ei
      BY <1>1, <1>3, <2>2, ConstWritesShape
    <3>. QED  BY <1>1, <2>1, <3>1, SoFarSame
  <2>. QED  BY <1>1, <1>2, <2>1, <2>4, <2>5 DEF LoadInv, NameOf, G
<1>5. CASE ~(e = NotObject \/ e.path = Absent \/ e.blocks = Absent)
  <2>0. e.path # NonString
    BY <1>5, Zenon DEF Entry
  <2>1. e.path \in Files /\ e.blocks # Absent
    BY <1>0, <1>5, <2>0 DEF Entries
  <2>2. /\ ei \in LoadedEntries(e.path)
        /\ \A f : f # e.path => ei \notin LoadedEntries(f)
    BY <1>1, <1>5, <2>1 DEF LoadedEntries, WellFormed
  <2>3. /\ blockTargets' = [blockTargets EXCEPT ![e.path] = @ \cup G(ei)]
        /\ \/ e.consts \in ConstObjects \ {<<>>} /\ lpc' = "const" /\ ki' = 1
              /\ UNCHANGED ei
           \/ e.consts \in {NotObject, <<>>, Absent} /\ ei' = ei + 1
              /\ UNCHANGED <<lpc, ki>>
    BY <1>5, <2>1, Zenon DEF Entry
  <2>4. Processed' = Processed \cup {ei}
    BY <1>1, <2>3, DocFixed DEF Processed
  <2>5. ASSUME NEW f \in Files
        PROVE  blockTargets'[f] = UNION {G(i) : i \in LoadedEntries(f)' \cap Processed'}
    <3>1. CASE f = e.path
      <4>1. LoadedEntries(f) \cap Processed' = (LoadedEntries(f) \cap Processed) \cup {ei}
        BY <2>2, <2>4, <3>1
      <4>2. blockTargets'[f] = blockTargets[f] \cup G(ei)
        BY <2>1, <2>3, <3>1 DEF LInv, LoaderInv, LoaderTypeOK
      <4>. QED  BY <1>1, <1>2, <4>1, <4>2, DocFixed
    <3>2. CASE f # e.path
      <4>1. LoadedEntries(f) \cap Processed' = LoadedEntries(f) \cap Processed
        BY <2>2, <2>4, <3>2
      <4>2. blockTargets'[f] = blockTargets[f]
        BY <2>3, <3>2 DEF LInv, LoaderInv, LoaderTypeOK
      <4>. QED  BY <1>1, <1>2, <4>1, <4>2, DocFixed
    <3>. QED  BY <3>1, <3>2
  <2>6. ASSUME NEW f, NEW l PROVE SoFar(f, l)' = SoFar(f, l)
    <3>1. CASE e.consts \in ConstObjects \ {<<>>} /\ lpc' = "const" /\ ki' = 1
               /\ UNCHANGED ei
      <4>1. ASSUME NEW w \in ConstWrites(f, l) PROVE w[2] \in Nat \ {0}
        BY <1>1, ConstWritesShape
      <4>. QED  BY <1>1, <3>1, <4>1, SoFarSame
    <3>2. CASE e.consts \in {NotObject, <<>>, Absent} /\ ei' = ei + 1
               /\ UNCHANGED <<lpc, ki>>
      <4>1. ASSUME NEW w \in ConstWrites(f, l) PROVE w[1] \in Int /\ w[1] # ei
        BY <1>1, <1>3, <3>2, ConstWritesShape
      <4>. QED  BY <1>1, <3>2, <4>1, SoFarSame
    <3>. QED  BY <2>3, <3>1, <3>2
  <2>7. /\ lpc' = "const" => doc'[ei'].blocks # Absent
        /\ lpc' \notin {"done", "open"}
    BY <1>1, <2>1, <2>3
  <2>. QED  BY <1>1, <1>2, <2>5, <2>6, <2>7 DEF LoadInv, NameOf, G
<1>. QED  BY <1>4, <1>5

(* One member of targets_const: its write comes after every write stored *)
(* so far, so its name is the one its (file, line) now holds.             *)
LEMMA ConstPairLoadInv ==
    ASSUME LoaderAssumption, LInv, ConstPair
    PROVE  LoadInv'
<1>. SUFFICES ASSUME lpc' # "crashed" PROVE LoadInv'
  BY DEF LoadInv
<1>. DEFINE e == doc[ei]
            m == e.consts[ki]
            L0 == Stoul[m[1]]
            x == <<ei, ki>>
<1>1. /\ lpc = "const" /\ IsArray /\ doc \in Documents
      /\ doc \in Seq(Entries) /\ ei \in 1..Len(doc)
      /\ e # NotObject /\ e.path \in Files /\ e.blocks # Absent
      /\ e.consts \in ConstObjects /\ ki \in 1..Len(e.consts)
      /\ UNCHANGED <<doc, blockTargets>>
      /\ constTargets \in [Files -> [Lines -> Names \cup {NoName}]]
  BY ArrayDoc DEF ConstPair, LInv, LoaderInv, LoaderTypeOK, LoadInv, IsArray
<1>2. /\ Len(e.consts) \in 0..MaxPairs /\ m \in Keys \X ConstValues
  BY <1>1, ConstObjectLen
<1>3. /\ \A f \in Files : blockTargets[f] =
             UNION {BlockNumbers(doc[i].blocks) : i \in LoadedEntries(f) \cap Processed}
      /\ \A f \in Files, l \in Lines : constTargets[f][l] = NameOf(SoFar(f, l))
  BY <1>1 DEF LInv, LoadInv
<1>4. /\ constTargets' = [constTargets EXCEPT ![e.path][L0] = m[2]]
      /\ IF ki < Len(e.consts)
           THEN ki' = ki + 1 /\ UNCHANGED <<lpc, ei>>
           ELSE lpc' = "entry" /\ ei' = ei + 1 /\ UNCHANGED ki
      /\ L0 # Throws /\ m[2] # NonString
  BY Zenon DEF ConstPair
<1>5. L0 \in Lines /\ m[2] \in Names
  BY <1>2, <1>4
<1>6. /\ ei \in LoadedEntries(e.path)
      /\ \A f : f # e.path => ei \notin LoadedEntries(f)
  BY <1>1 DEF LoadedEntries, WellFormed
<1>7. ASSUME NEW f, NEW l PROVE x \in ConstWrites(f, l) <=> f = e.path /\ l = L0
  <2>1. ki \in 1..MaxPairs /\ ki <= Len(e.consts)
    BY <1>1, <1>2
  <2>2. x \in ConstWrites(f, l) <=>
          /\ ei \in LoadedEntries(f) /\ e.consts \in ConstObjects
          /\ ki \in 1..MaxPairs /\ ki <= Len(e.consts) /\ L0 = l
    BY ConstWritesMember
  <2>3. ei \in LoadedEntries(f) <=> f = e.path
    BY <1>6
  <2>. QED  BY <1>1, <2>1, <2>2, <2>3
<1>8. ASSUME NEW f, NEW l, NEW w \in ConstWrites(f, l)
      PROVE  (w[1] < ei' \/ (lpc' = "const" /\ w[1] = ei' /\ w[2] < ki'))
             <=> (w[1] < ei \/ (w[1] = ei /\ w[2] < ki) \/ w = x)
  <2>1. /\ w = <<w[1], w[2]>> /\ w[1] \in 1..Len(doc)
        /\ w[2] \in 1..Len(doc[w[1]].consts)
    BY <1>1, ConstWritesShape
  <2>2. CASE ki < Len(e.consts)
    BY <1>1, <1>4, <2>1, <2>2
  <2>3. CASE ~(ki < Len(e.consts))
    BY <1>1, <1>4, <2>1, <2>3
  <2>. QED  BY <2>2, <2>3
<1>9. ASSUME NEW f, NEW l
      PROVE  SoFar(f, l)' = IF f = e.path /\ l = L0 THEN SoFar(f, l) \cup {x}
                            ELSE SoFar(f, l)
  <2>1. SoFar(f, l)' = {w \in ConstWrites(f, l) :
                         w[1] < ei \/ (w[1] = ei /\ w[2] < ki) \/ w = x}
    <3>1. ConstWrites(f, l)' = ConstWrites(f, l)
      BY <1>1, DocFixed
    <3>. QED  BY <3>1, <1>8 DEF SoFar
  <2>2. SoFar(f, l) = {w \in ConstWrites(f, l) :
                         w[1] < ei \/ (w[1] = ei /\ w[2] < ki)}
    BY <1>1 DEF SoFar
  <2>. QED  BY <1>7, <2>1, <2>2
<1>10. ASSUME NEW f \in Files, NEW l \in Lines
       PROVE  constTargets'[f][l] = NameOf(SoFar(f, l))'
  <2>1. CASE f = e.path /\ l = L0
    <3>1. SoFar(f, l) \subseteq Int \X Int
      BY <1>1, ConstWritesShape DEF SoFar
    <3>2. \A v \in SoFar(f, l) : v[1] < x[1] \/ (v[1] = x[1] /\ v[2] < x[2])
      BY <1>1 DEF SoFar
    <3>0. x \in Int \X Int
      BY <1>1
    <3>3. LastWrite(SoFar(f, l) \cup {x}) = x
      BY <3>0, <3>1, <3>2, LastWriteAdd
    <3>4. SoFar(f, l)' = SoFar(f, l) \cup {x}
      BY <1>9, <2>1
    <3>5. NameOf(SoFar(f, l))' = m[2]
      BY <1>1, <3>3, <3>4 DEF NameOf
    <3>. QED  BY <1>1, <1>4, <1>5, <2>1, <3>5
  <2>2. CASE ~(f = e.path /\ l = L0)
    <3>1. NameOf(SoFar(f, l))' = NameOf(SoFar(f, l))
      BY <1>1, <1>9, <2>2 DEF NameOf
    <3>. QED  BY <1>1, <1>3, <1>4, <2>2, <3>1
  <2>. QED  BY <2>1, <2>2
<1>11. Processed' = Processed
  BY <1>1, <1>4, DocFixed DEF Processed
<1>12. /\ lpc' = "const" => doc'[ei'].blocks # Absent
       /\ lpc' \notin {"done", "open"}
  BY <1>1, <1>4
<1>. QED  BY <1>1, <1>3, <1>10, <1>11, <1>12, DocFixed DEF LoadInv

(* LInv is inductive.                                                      *)
LEMMA NextLInv ==
    ASSUME LoaderAssumption, ShapeAssumption, LInv, [Next]_lvars
    PROVE  LInv'
<1>1. LoaderInv'
  BY NextLoaderInv DEF LInv
<1>2. LoadInv'
  BY OpenLoadInv, EntryLoadInv, ConstPairLoadInv, FinishLoadInv DEF Next
<1>. QED  BY <1>1, <1>2 DEF LInv

(* When the loop is over, every entry to load has been passed.            *)
LEMMA LInvSpecified ==
    ASSUME LoaderAssumption, LInv
    PROVE  LoadedAsSpecified
<1>. SUFFICES ASSUME lpc = "done"
              PROVE  blockTargets = SpecBlocks /\ constTargets = SpecConsts
  BY DEF LoadedAsSpecified
<1>1. /\ doc \in Documents
      /\ blockTargets \in [Files -> SUBSET Lines]
      /\ constTargets \in [Files -> [Lines -> Names \cup {NoName}]]
      /\ IsArray => ei = Len(doc) + 1
      /\ \A f \in Files : blockTargets[f] =
             UNION {BlockNumbers(doc[i].blocks) : i \in LoadedEntries(f) \cap Processed}
      /\ \A f \in Files, l \in Lines : constTargets[f][l] = NameOf(SoFar(f, l))
  BY DEF LInv, LoaderInv, LoaderTypeOK, LoadInv
<1>2. ASSUME NEW f PROVE LoadedEntries(f) \cap Processed = LoadedEntries(f)
  <2>1. CASE IsArray
    BY <1>1, <2>1, ArrayDoc DEF LoadedEntries, Processed
  <2>2. CASE ~IsArray
    BY <2>2 DEF LoadedEntries
  <2>. QED  BY <2>1, <2>2
<1>3. ASSUME NEW f, NEW l PROVE SoFar(f, l) = ConstWrites(f, l)
  <2>1. ASSUME NEW w \in ConstWrites(f, l) PROVE w[1] < ei
    BY <1>1, ConstWritesShape
  <2>. QED  BY <2>1 DEF SoFar
<1>4. blockTargets = SpecBlocks
  BY <1>1, <1>2 DEF SpecBlocks
<1>5. constTargets = SpecConsts
  BY <1>1, <1>3 DEF SpecConsts, NameOf
<1>. QED  BY <1>4, <1>5

(* load_instr_targets keeps its state well typed for every document, every *)
(* set of files, names and keys and every std::stoul: its lines are lines,  *)
(* its names are strings, its loop positions stay within the document.     *)
THEOREM LoaderTypeCorrect == LoaderSpec => []LoaderTypeOK
<1>1. Init => LoaderInv
  BY InitLoaderInv, LoaderAssumption
<1>2. LoaderInv /\ [Next]_lvars => LoaderInv'
  BY NextLoaderInv, LoaderAssumption
<1>3. LoaderInv => LoaderTypeOK
  BY DEF LoaderInv
<1>. QED  BY <1>1, <1>2, <1>3, PTL DEF LoaderSpec

(* load_instr_targets loads exactly what the targets file specifies, for  *)
(* every document, std::stoul and number of entries: when it returns,     *)
(* block_targets holds every number of the targets_block of the entries   *)
(* with a path and a targets_block, and const_targets the last name given *)
(* to each (file, line) in entry order and std::map key order.           *)
THEOREM LoaderCorrect == LoaderSpec => []LoadedAsSpecified
<1>1. Init => LInv
  BY InitLoaderInv, InitLoadInv, LoaderAssumption DEF LInv
<1>2. LInv /\ [Next]_lvars => LInv'
  BY NextLInv, LoaderAssumption, ShapeAssumption
<1>3. LInv => LoadedAsSpecified
  BY LInvSpecified, LoaderAssumption
<1>. QED  BY <1>1, <1>2, <1>3, PTL DEF LoaderSpec

=============================================================================
