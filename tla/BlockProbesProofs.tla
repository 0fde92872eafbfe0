-------------------------- MODULE BlockProbesProofs --------------------------
(***************************************************************************)
(* Exactly-once consumption of block targets (BlockProbesExact), for every *)
(* number of processes, files, lines and blocks.                           *)
(*                                                                         *)
(* BlockProbesExact speaks of finished blocks and of the first occurrence  *)
(* of a location in the whole traversal; it says nothing of the state the  *)
(* pass carries between instructions, so it is not inductive.  ProbeInv(p) *)
(* adds what the pass knows at each point:                                 *)
(*  - block_targets is the loaded set less every location scanned so far   *)
(*    (is_target_loc erases a block target when it first matches);         *)
(*  - isTargetBlockEvent holds iff the current block has an instruction    *)
(*    that is the first occurrence of a block target;                      *)
(*  - every earlier block has a block probe iff it has such an instruction; *)
(*  - the current block's probe exists once the write is past, and only    *)
(*    then, and every record names a block scanned so far.                 *)
(***************************************************************************)
EXTENDS AFLCoverageProofs

(* Location r is resolved by some instruction of the blocks s.            *)
SeenIn(s, r) ==
    \E b \in 1..Len(s) : \E i \in 1..Len(s[b]) : s[b][i] = r

(* Instruction i of block b is the first in s to resolve to its location:  *)
(* FirstOccurrence, for a list of blocks s.                                *)
FirstIn(s, b, i) ==
    ~\E b2 \in 1..b : \E i2 \in 1..Len(s[b2]) :
        /\ b2 < b \/ i2 < i
        /\ s[b2][i2] = s[b][i]

(* Block b of s holds the first occurrence of a location of T.            *)
HasFirstIn(s, b, T) ==
    \E i \in 1..Len(s[b]) : s[b][i] \in T /\ FirstIn(s, b, i)

(* Block b carries a block probe.                                         *)
HasBlockEvt(p, b) ==
    \E e \in Range(events[p]) : e.kind = "block" /\ e.blk = b

(* What the scanned blocks, block_targets, isTargetBlockEvent and the     *)
(* records of pass p say of one another at every point.                    *)
ProbeData(p) ==
    /\ \A f \in AllFiles :
           blockT[p][f] =
               {l \in blockT0[f] : ~SeenIn(prog[p], [file |-> f, line |-> l])}
    /\ isBlockEvt[p] <=> HasFirstIn(prog[p], CurBlock(p), BlockTargetLocs)
    /\ \A b \in 1..(CurBlock(p) - 1) :
           HasBlockEvt(p, b) <=> HasFirstIn(prog[p], b, BlockTargetLocs)
    /\ \A e \in Range(events[p]) : e.blk \in 1..CurBlock(p)

(* Whether the current block's probe has been written, by where pass p is. *)
ProbeStage(p) ==
    /\ pc[p] \in {"scan", "blk_write"} => ~HasBlockEvt(p, CurBlock(p))
    /\ pc[p] = "blk_write" => isBlockEvt[p]
    /\ pc[p] \in {"const_check", "const_write", "block_done", "done"} =>
           (HasBlockEvt(p, CurBlock(p)) <=> isBlockEvt[p])

ProbeInv(p) == ProbeData(p) /\ ProbeStage(p)

(* Locations of the excluded files are never block targets.              *)
NoExcludedTargets == \A f \in {SysFile, NoFile} : blockT0[f] = {}

BInv == TypeOK /\ NoExcludedTargets /\ \A p \in Procs : ProbeInv(p)

-----------------------------------------------------------------------------
(* Lemmas about lists of scanned blocks.                                   *)

(* The blocks after ScanInstr appended location r to the last one.         *)
AddInstr(s, r) == [s EXCEPT ![Len(s)] = Append(s[Len(s)], r)]

(* ScanInstr appends a location to the last block: earlier blocks keep     *)
(* their first occurrences, the new instruction is a first occurrence iff *)
(* its location was not seen before, and it is now seen.                   *)
LEMMA AppendInstr ==
    ASSUME NEW s \in Seq(Seq(Loc)), s # << >>, NEW r \in Loc, NEW T,
           NEW t, t = AddInstr(s, r)
    PROVE  /\ t \in Seq(Seq(Loc)) /\ Len(t) = Len(s)
           /\ \A x : SeenIn(t, x) <=> SeenIn(s, x) \/ x = r
           /\ \A b \in 1..(Len(s) - 1) : HasFirstIn(t, b, T) <=> HasFirstIn(s, b, T)
           /\ HasFirstIn(t, Len(s), T) <=>
                  HasFirstIn(s, Len(s), T) \/ (r \in T /\ ~SeenIn(s, r))
<1> PICK n \in Nat \ {0} : n = Len(s)
    OBVIOUS
<1> PICK m \in Nat : m = Len(s[n])
    OBVIOUS
<1>1. s[n] \in Seq(Loc) /\ \A b \in 1..n : s[b] \in Seq(Loc)
    OBVIOUS
<1> t = [s EXCEPT ![Len(s)] = Append(s[Len(s)], r)]
    BY DEF AddInstr
<1>2. /\ t \in Seq(Seq(Loc)) /\ Len(t) = n /\ t[n] = Append(s[n], r)
      /\ Len(t[n]) = m + 1 /\ t[n][m + 1] = r
      /\ \A b \in 1..(n - 1) : t[b] = s[b]
      /\ \A i \in 1..m : t[n][i] = s[n][i]
    BY <1>1
<1>3. \A b \in 1..n : \A i \in 1..Len(s[b]) :
          i \in 1..Len(t[b]) /\ t[b][i] = s[b][i]
    <2> SUFFICES ASSUME NEW b \in 1..n, NEW i \in 1..Len(s[b])
                 PROVE  i \in 1..Len(t[b]) /\ t[b][i] = s[b][i]
        OBVIOUS
    <2>1. CASE b = n
        BY <2>1, <1>1, <1>2
    <2>2. CASE b # n
        BY <2>2, <1>2
    <2> QED
        BY <2>1, <2>2
<1>4. \A b \in 1..n : \A i \in 1..Len(t[b]) :
          i \in 1..Len(s[b]) \/ (b = n /\ i = m + 1)
    <2> SUFFICES ASSUME NEW b \in 1..n, NEW i \in 1..Len(t[b])
                 PROVE  i \in 1..Len(s[b]) \/ (b = n /\ i = m + 1)
        OBVIOUS
    <2>1. CASE b = n
        BY <2>1, <1>1, <1>2
    <2>2. CASE b # n
        BY <2>2, <1>2
    <2> QED
        BY <2>1, <2>2
<1>5. \A x : SeenIn(t, x) <=> SeenIn(s, x) \/ x = r
    <2> SUFFICES ASSUME NEW x PROVE SeenIn(t, x) <=> SeenIn(s, x) \/ x = r
        OBVIOUS
    <2>1. SeenIn(t, x) => SeenIn(s, x) \/ x = r
        BY <1>2, <1>3, <1>4 DEF SeenIn
    <2>2. SeenIn(s, x) => SeenIn(t, x)
        <3> SUFFICES ASSUME SeenIn(s, x) PROVE SeenIn(t, x)
            OBVIOUS
        <3>1. PICK b \in 1..n : \E i \in 1..Len(s[b]) : s[b][i] = x
            BY DEF SeenIn
        <3>4. PICK i \in 1..Len(s[b]) : s[b][i] = x
            BY <3>1
        <3>2. b \in 1..Len(t) /\ i \in 1..Len(t[b]) /\ t[b][i] = x
            BY <3>4, <1>2, <1>3
        <3> QED
            BY <3>2 DEF SeenIn
    <2>3. x = r => SeenIn(t, x)
        BY <1>1, <1>2 DEF SeenIn
    <2> QED
        BY <2>1, <2>2, <2>3
<1>6. ASSUME NEW b \in 1..n, NEW i \in 1..Len(s[b])
      PROVE  FirstIn(t, b, i) <=> FirstIn(s, b, i)
    <2>1. t[b][i] = s[b][i]
        BY <1>3
    <2>2. ASSUME NEW b2 \in 1..b, NEW i2 \in 1..Len(t[b2]), b2 < b \/ i2 < i
          PROVE  i2 \in 1..Len(s[b2]) /\ t[b2][i2] = s[b2][i2]
        <3>1. b2 \in 1..n
            BY <1>1
        <3>2. ~(b2 = n /\ i2 = m + 1)
            BY <2>2, <1>1
        <3> QED
            BY <3>1, <3>2, <1>3, <1>4
    <2>3. ASSUME NEW b2 \in 1..b, NEW i2 \in 1..Len(s[b2])
          PROVE  i2 \in 1..Len(t[b2]) /\ t[b2][i2] = s[b2][i2]
        BY <1>3, <1>1
    <2> QED
        BY <2>1, <2>2, <2>3 DEF FirstIn
<1>7. FirstIn(t, n, m + 1) <=> ~SeenIn(s, r)
    <2>1. t[n][m + 1] = r
        BY <1>2
    <2>2. ASSUME NEW b2 \in 1..n, NEW i2 \in 1..Len(t[b2]), b2 < n \/ i2 < m + 1
          PROVE  i2 \in 1..Len(s[b2]) /\ t[b2][i2] = s[b2][i2]
        BY <2>2, <1>1, <1>3, <1>4
    <2>3. ASSUME NEW b2 \in 1..n, NEW i2 \in 1..Len(s[b2])
          PROVE  /\ i2 \in 1..Len(t[b2]) /\ t[b2][i2] = s[b2][i2]
                 /\ b2 < n \/ i2 < m + 1
        BY <1>1, <1>3
    <2> QED
        BY <2>1, <2>2, <2>3 DEF FirstIn, SeenIn
<1>8. \A b \in 1..(n - 1) : HasFirstIn(t, b, T) <=> HasFirstIn(s, b, T)
    <2> SUFFICES ASSUME NEW b \in 1..(n - 1)
                 PROVE  HasFirstIn(t, b, T) <=> HasFirstIn(s, b, T)
        OBVIOUS
    <2>1. t[b] = s[b] /\ b \in 1..n
        BY <1>1, <1>2
    <2> QED
        BY <2>1, <1>6 DEF HasFirstIn
<1>9. HasFirstIn(t, n, T) <=> HasFirstIn(s, n, T) \/ (r \in T /\ ~SeenIn(s, r))
    <2>1. \A i \in 1..Len(t[n]) : i \in 1..m \/ i = m + 1
        BY <1>1, <1>2
    <2>2. \A i \in 1..m : i \in 1..Len(t[n]) /\ t[n][i] = s[n][i]
        BY <1>1, <1>3
    <2>3. m + 1 \in 1..Len(t[n]) /\ t[n][m + 1] = r
        BY <1>1, <1>2
    <2>4. n \in 1..n
        BY <1>1
    <2> QED
        BY <2>1, <2>2, <2>3, <2>4, <1>6, <1>7 DEF HasFirstIn
<1> QED
    BY <1>2, <1>5, <1>8, <1>9

(* NextBlock and NextFunction open an empty block: nothing new is seen,   *)
(* earlier blocks keep their first occurrences, the new block has none.    *)
LEMMA AppendBlock ==
    ASSUME NEW s \in Seq(Seq(Loc)), NEW T, NEW t, t = Append(s, << >>)
    PROVE  /\ Len(t) = Len(s) + 1
           /\ \A x : SeenIn(t, x) <=> SeenIn(s, x)
           /\ \A b \in 1..Len(s) : HasFirstIn(t, b, T) <=> HasFirstIn(s, b, T)
           /\ ~HasFirstIn(t, Len(s) + 1, T)
<1> PICK n \in Nat : n = Len(s)
    OBVIOUS
<1>1. /\ Len(t) = n + 1 /\ t[n + 1] = << >>
      /\ \A b \in 1..n : t[b] = s[b]
    OBVIOUS
<1>2. \A x : SeenIn(t, x) <=> SeenIn(s, x)
    <2> SUFFICES ASSUME NEW x PROVE SeenIn(t, x) <=> SeenIn(s, x)
        OBVIOUS
    <2>1. SeenIn(t, x) => SeenIn(s, x)
        <3> SUFFICES ASSUME SeenIn(t, x) PROVE SeenIn(s, x)
            OBVIOUS
        <3>1. PICK b \in 1..(n + 1) : \E i \in 1..Len(t[b]) : t[b][i] = x
            BY <1>1 DEF SeenIn
        <3>2. b # n + 1
            BY <3>1, <1>1
        <3>3. b \in 1..n /\ t[b] = s[b]
            BY <3>2, <1>1
        <3> QED
            BY <3>1, <3>3 DEF SeenIn
    <2>2. SeenIn(s, x) => SeenIn(t, x)
        <3> SUFFICES ASSUME SeenIn(s, x) PROVE SeenIn(t, x)
            OBVIOUS
        <3>1. PICK b \in 1..n : \E i \in 1..Len(s[b]) : s[b][i] = x
            BY DEF SeenIn
        <3>2. b \in 1..Len(t) /\ t[b] = s[b]
            BY <1>1
        <3> QED
            BY <3>1, <3>2 DEF SeenIn
    <2> QED
        BY <2>1, <2>2
<1>3. ASSUME NEW b \in 1..n, NEW i \in 1..Len(s[b])
      PROVE  FirstIn(t, b, i) <=> FirstIn(s, b, i)
    <2>1. \A b2 \in 1..b : b2 \in 1..n
        OBVIOUS
    <2> QED
        BY <1>1, <2>1 DEF FirstIn
<1>4. \A b \in 1..n : HasFirstIn(t, b, T) <=> HasFirstIn(s, b, T)
    BY <1>1, <1>3 DEF HasFirstIn
<1>5. ~HasFirstIn(t, n + 1, T)
    BY <1>1 DEF HasFirstIn
<1> QED
    BY <1>1, <1>2, <1>4, <1>5

(* A record appended to BB2ID.txt joins the records already there.        *)
LEMMA RangeAppend ==
    ASSUME NEW S, NEW q \in Seq(S), NEW e
    PROVE  Range(Append(q, e)) = Range(q) \cup {e}
<1>1. DOMAIN Append(q, e) = 1..(Len(q) + 1) /\ DOMAIN q = 1..Len(q)
    OBVIOUS
<1>2. \A i \in 1..Len(q) : Append(q, e)[i] = q[i]
    OBVIOUS
<1>3. Append(q, e)[Len(q) + 1] = e
    OBVIOUS
<1> QED
    BY <1>1, <1>2, <1>3 DEF Range

(* BlockProbesExact's first occurrence is FirstIn of the pass's blocks.   *)
LEMMA FirstOccurrenceIn ==
    ASSUME NEW p, NEW b, NEW i
    PROVE  FirstOccurrence(p, b, i) <=> FirstIn(prog[p], b, i)
BY DEF FirstOccurrence, FirstIn

-----------------------------------------------------------------------------
(* The steps of the pass that acts.                                       *)

(* One instruction: is_target_loc consumes the location iff it is a       *)
(* loaded block target not seen before, which is exactly when the         *)
(* instruction is its first occurrence.                                   *)
LEMMA ScanProbe ==
    ASSUME BInv, NEW p \in Procs, ScanInstr(p)
    PROVE  ProbeInv(p)'
<1> DEFINE BT == BlockTargetLocs
<1>1. PICK dl \in DebugLocs :
          LET r == DebugLoc(dl, filename[p], line[p])
              c == IF Excluded(r) THEN 0
                   ELSE IsTargetLoc(r, blockT[p], constT[p])
          IN /\ prog' = [prog EXCEPT ![p][CurBlock(p)] = Append(@, r)]
             /\ blockT' = IF c = 3
                            THEN [blockT EXCEPT ![p] = ConsumeBlockTarget(r, @)]
                            ELSE blockT
             /\ isBlockEvt' = [isBlockEvt EXCEPT ![p] = @ \/ c = 3]
    BY DEF ScanInstr
<1>2. PICK r \in Loc : r = DebugLoc(dl, filename[p], line[p])
    BY DebugLocType DEF BInv, TypeOK
<1>3. PICK c : c = IF Excluded(r) THEN 0 ELSE IsTargetLoc(r, blockT[p], constT[p])
    OBVIOUS
<1>4. /\ prog' = [prog EXCEPT ![p][CurBlock(p)] = Append(@, r)]
      /\ blockT' = IF c = 3 THEN [blockT EXCEPT ![p] = ConsumeBlockTarget(r, @)]
                            ELSE blockT
      /\ isBlockEvt' = [isBlockEvt EXCEPT ![p] = @ \/ c = 3]
    BY <1>1, <1>2, <1>3
<1>5. /\ pc[p] = "scan" /\ pc' = pc /\ events' = events /\ blockT0' = blockT0
    BY DEF ScanInstr
<1>6. /\ prog[p] \in Seq(Seq(Loc)) /\ prog[p] # << >>
      /\ blockT0 \in [AllFiles -> SUBSET (1..MaxLine)]
      /\ blockT[p] \in [AllFiles -> SUBSET (1..MaxLine)]
      /\ isBlockEvt[p] \in BOOLEAN
      /\ r.file \in AllFiles /\ r.line \in Lines
      /\ r = [file |-> r.file, line |-> r.line]
    BY <1>2 DEF BInv, TypeOK, Loc
<1>7. ProbeInv(p)
    BY DEF BInv
<1>8. /\ prog'[p] = [prog[p] EXCEPT ![Len(prog[p])] = Append(prog[p][Len(prog[p])], r)]
      /\ isBlockEvt'[p] = (isBlockEvt[p] \/ c = 3)
    BY <1>4 DEF BInv, TypeOK, CurBlock
<1>9. /\ Len(prog'[p]) = Len(prog[p])
      /\ \A x : SeenIn(prog'[p], x) <=> SeenIn(prog[p], x) \/ x = r
      /\ \A b \in 1..(Len(prog[p]) - 1) :
             HasFirstIn(prog'[p], b, BT) <=> HasFirstIn(prog[p], b, BT)
      /\ HasFirstIn(prog'[p], Len(prog[p]), BT) <=>
             HasFirstIn(prog[p], Len(prog[p]), BT) \/ (r \in BT /\ ~SeenIn(prog[p], r))
    <2>1. PICK t : t = prog'[p]
        OBVIOUS
    <2>2. t = AddInstr(prog[p], r)
        BY <2>1, <1>8 DEF AddInstr
    <2>3. /\ Len(t) = Len(prog[p])
          /\ \A x : SeenIn(t, x) <=> SeenIn(prog[p], x) \/ x = r
          /\ \A b \in 1..(Len(prog[p]) - 1) :
                 HasFirstIn(t, b, BT) <=> HasFirstIn(prog[p], b, BT)
          /\ HasFirstIn(t, Len(prog[p]), BT) <=>
                 HasFirstIn(prog[p], Len(prog[p]), BT) \/ (r \in BT /\ ~SeenIn(prog[p], r))
        BY <1>2, <1>6, <2>2, AppendInstr
    <2> QED
        BY <2>1, <2>3
(* The location's line is in block_targets iff it is a target not seen.   *)
<1>10. r.line \in blockT[p][r.file] <=> r \in BT /\ ~SeenIn(prog[p], r)
    <2>1. blockT[p][r.file] =
              {l \in blockT0[r.file] : ~SeenIn(prog[p], [file |-> r.file, line |-> l])}
        BY <1>6, <1>7 DEF ProbeInv, ProbeData, ProbeStage
    <2>2. r \in BT <=> r.line \in blockT0[r.file]
        BY DEF BT, BlockTargetLocs
    <2> QED
        BY <2>1, <2>2, <1>6
<1>11. c = 3 <=> r \in BT /\ ~SeenIn(prog[p], r)
    <2>1. r.line \in blockT0[r.file] => ~Excluded(r)
        <3>1. r.line \in blockT0[r.file] => r.file \notin {SysFile, NoFile}
            BY DEF BInv, NoExcludedTargets
        <3>2. r.line \in blockT0[r.file] => r.line # 0
            BY <1>6
        <3> QED
            BY <3>1, <3>2 DEF Excluded
    <2>2. ~Excluded(r) => (c = 3 <=> r.line \in blockT[p][r.file])
        BY <1>3 DEF IsTargetLoc
    <2>3. Excluded(r) => c = 0
        BY <1>3
    <2>4. r.line \in blockT[p][r.file] => r.line \in blockT0[r.file]
        <3>1. blockT[p][r.file] \subseteq blockT0[r.file]
            BY <1>6, <1>7 DEF ProbeInv, ProbeData, ProbeStage
        <3> QED
            BY <3>1
    <2> QED
        BY <1>10, <2>1, <2>2, <2>3, <2>4
<1>12. \A f \in AllFiles :
           blockT'[p][f] =
               {l \in blockT0'[f] : ~SeenIn(prog'[p], [file |-> f, line |-> l])}
    <2> SUFFICES ASSUME NEW f \in AllFiles
                 PROVE  blockT'[p][f] =
                          {l \in blockT0[f] : ~SeenIn(prog[p], [file |-> f, line |-> l])
                                              /\ [file |-> f, line |-> l] # r}
        BY <1>5, <1>9
    <2>1. blockT[p][f] = {l \in blockT0[f] : ~SeenIn(prog[p], [file |-> f, line |-> l])}
        BY <1>7 DEF ProbeInv, ProbeData, ProbeStage
    <2>2. CASE c = 3
        <3>1. blockT'[p] = [blockT[p] EXCEPT ![r.file] = @ \ {r.line}]
            BY <2>2, <1>4, <1>6 DEF BInv, TypeOK, ConsumeBlockTarget
        <3>2. \A l : [file |-> f, line |-> l] # r <=> (f # r.file \/ l # r.line)
            BY <1>6
        <3> QED
            BY <3>1, <3>2, <2>1, <1>6
    <2>3. CASE c # 3
        <3>1. blockT'[p] = blockT[p]
            BY <2>3, <1>4
        <3>2. \A l \in blockT0[f] :
                  ~SeenIn(prog[p], [file |-> f, line |-> l]) => [file |-> f, line |-> l] # r
            BY <2>3, <1>11 DEF BT, BlockTargetLocs
        <3> QED
            BY <3>1, <3>2, <2>1
    <2> QED
        BY <2>2, <2>3
<1>13. isBlockEvt'[p] <=> HasFirstIn(prog'[p], Len(prog'[p]), BT)
    BY <1>7, <1>8, <1>9, <1>11 DEF ProbeInv, ProbeData, ProbeStage, CurBlock, BT
<1>14. \A b \in 1..(Len(prog'[p]) - 1) :
           HasBlockEvt(p, b)' <=> HasFirstIn(prog'[p], b, BT)
    BY <1>5, <1>7, <1>9 DEF ProbeInv, ProbeData, ProbeStage, CurBlock, HasBlockEvt, BT
<1>15. /\ ~HasBlockEvt(p, CurBlock(p))'
       /\ \A e \in Range(events'[p]) : e.blk \in 1..Len(prog'[p])
    BY <1>5, <1>7, <1>9 DEF ProbeInv, ProbeData, ProbeStage, CurBlock, HasBlockEvt
<1> QED
    <2>1. BT' = BT
        BY <1>5 DEF BT, BlockTargetLocs
    <2> QED
        BY <1>5, <1>12, <1>13, <1>14, <1>15, <2>1 DEF ProbeInv, ProbeData, ProbeStage, CurBlock, BT

(* A step that leaves pass p's blocks, block_targets, isTargetBlockEvent  *)
(* and records alone keeps ProbeData(p), and whether the current block    *)
(* has its probe.                                                         *)
LEMMA DataFrame ==
    ASSUME BInv, NEW p \in Procs,
           prog'[p] = prog[p], blockT'[p] = blockT[p],
           isBlockEvt'[p] = isBlockEvt[p], events'[p] = events[p],
           blockT0' = blockT0
    PROVE  /\ ProbeData(p)'
           /\ HasBlockEvt(p, CurBlock(p))' <=> HasBlockEvt(p, CurBlock(p))
<1>1. BlockTargetLocs' = BlockTargetLocs
    BY DEF BlockTargetLocs
<1>2. ProbeData(p)
    BY DEF BInv, ProbeInv
<1> QED
    BY <1>1, <1>2 DEF ProbeData, CurBlock, HasBlockEvt

(* SkipBlock: no target in the block, so no probe, and none expected.     *)
LEMMA SkipProbe ==
    ASSUME BInv, NEW p \in Procs, SkipBlock(p)
    PROVE  ProbeInv(p)'
<1>1. /\ pc'[p] = "block_done" /\ ~isBlockEvt[p] /\ pc[p] = "scan"
      /\ prog' = prog /\ blockT' = blockT /\ isBlockEvt' = isBlockEvt
      /\ events' = events /\ blockT0' = blockT0
    BY DEF SkipBlock, BInv, TypeOK
<1>2. ~HasBlockEvt(p, CurBlock(p))
    BY <1>1 DEF BInv, ProbeInv, ProbeStage
<1> QED
    BY <1>1, <1>2, DataFrame DEF ProbeInv, ProbeStage, CurBlock

(* InstrumentBlock: a block target reads the counter before its write;    *)
(* any other instrumented block goes on to the const check with no probe. *)
LEMMA InstrumentProbe ==
    ASSUME BInv, NEW p \in Procs, InstrumentBlock(p)
    PROVE  ProbeInv(p)'
<1>1. /\ pc[p] = "scan"
      /\ pc'[p] = IF isBlockEvt[p] THEN "blk_write" ELSE "const_check"
      /\ prog' = prog /\ blockT' = blockT /\ isBlockEvt' = isBlockEvt
      /\ events' = events /\ blockT0' = blockT0
    BY DEF InstrumentBlock, BInv, TypeOK
<1>2. ~HasBlockEvt(p, CurBlock(p))
    BY <1>1 DEF BInv, ProbeInv, ProbeStage
<1>3. ProbeStage(p)'
    BY <1>1, <1>2, DataFrame, Zenon DEF ProbeStage, CurBlock
<1> QED
    BY <1>1, <1>3, DataFrame DEF ProbeInv

(* The const steps, FinishModule and AllocFail move only the pass's pc    *)
(* among the stages where the probe is settled.                           *)
LEMMA SettledProbe ==
    ASSUME BInv, NEW p \in Procs,
           ConstNew(p) \/ ConstSkip(p) \/ FinishModule(p) \/ AllocFail(p)
    PROVE  ProbeInv(p)'
<1>1. /\ pc[p] \in {"scan", "const_check", "block_done"}
      /\ pc'[p] \in {"const_write", "block_done", "done", "aborted"}
      /\ pc[p] = "scan" => pc'[p] = "aborted"
      /\ prog' = prog /\ blockT' = blockT /\ isBlockEvt' = isBlockEvt
      /\ events' = events /\ blockT0' = blockT0
    BY DEF ConstNew, ConstSkip, FinishModule, AllocFail, AtAllocation,
           BInv, TypeOK
<1>2. pc[p] \in {"const_check", "block_done"} =>
          (HasBlockEvt(p, CurBlock(p)) <=> isBlockEvt[p])
    BY DEF BInv, ProbeInv, ProbeStage
<1>3. ProbeStage(p)'
    BY <1>1, <1>2, DataFrame DEF ProbeStage, CurBlock
<1> QED
    BY <1>1, <1>3, DataFrame DEF ProbeInv

(* Another pass's step leaves pass q's state alone.                       *)
LEMMA OtherProbe ==
    ASSUME BInv, NEW q \in Procs,
           prog'[q] = prog[q], blockT'[q] = blockT[q],
           isBlockEvt'[q] = isBlockEvt[q], events'[q] = events[q],
           blockT0' = blockT0, pc'[q] = pc[q]
    PROVE  ProbeInv(q)'
<1>1. ProbeStage(q)
    BY DEF BInv, ProbeInv
<1> QED
    BY <1>1, DataFrame DEF ProbeInv, ProbeStage, CurBlock


(* BlockWrite: the record it appends is the current block's probe, which  *)
(* isTargetBlockEvent asked for; earlier blocks gain no record.           *)
LEMMA BlockWriteProbe ==
    ASSUME BInv, NEW p \in Procs, BlockWrite(p)
    PROVE  ProbeInv(p)'
<1> PICK e : e = [kind |-> "block", id |-> evt[p], blk |-> CurBlock(p),
                  file |-> filename[p], line |-> line[p], label |-> NoName]
    OBVIOUS
<1>1. /\ pc[p] = "blk_write" /\ pc'[p] = "const_check"
      /\ events'[p] = Append(events[p], e)
      /\ prog' = prog /\ blockT' = blockT /\ isBlockEvt' = isBlockEvt
      /\ blockT0' = blockT0
    BY DEF BlockWrite, BInv, TypeOK
<1>2. /\ Range(events'[p]) = Range(events[p]) \cup {e}
      /\ CurBlock(p) \in Nat \ {0}
    <2>1. events[p] \in Seq(Event) /\ prog[p] \in Seq(Seq(Loc)) \ {<<>>}
        BY DEF BInv, TypeOK
    <2>2. Range(events'[p]) = Range(events[p]) \cup {e}
        BY <1>1, <2>1, RangeAppend
    <2>3. CurBlock(p) \in Nat \ {0}
        BY <2>1 DEF CurBlock
    <2> QED
        BY <2>2, <2>3
<1>3. /\ isBlockEvt[p]
      /\ ProbeData(p)
    BY <1>1 DEF BInv, ProbeInv, ProbeStage
<1>4. BlockTargetLocs' = BlockTargetLocs
    BY <1>1 DEF BlockTargetLocs
<1>5. \A b \in 1..(CurBlock(p) - 1) : HasBlockEvt(p, b)' <=> HasBlockEvt(p, b)
    BY <1>1, <1>2 DEF HasBlockEvt, CurBlock
<1>6. ProbeData(p)'
    BY <1>1, <1>2, <1>3, <1>4, <1>5 DEF ProbeData, CurBlock
<1>7. HasBlockEvt(p, CurBlock(p))'
    BY <1>1, <1>2 DEF HasBlockEvt, CurBlock
<1> QED
    BY <1>1, <1>3, <1>6, <1>7 DEF ProbeInv, ProbeStage, CurBlock

(* ConstWrite: a const record is no block probe.                          *)
LEMMA ConstWriteProbe ==
    ASSUME BInv, NEW p \in Procs, ConstWrite(p)
    PROVE  ProbeInv(p)'
<1> PICK e : e = [kind |-> "const", id |-> evt[p], blk |-> CurBlock(p),
                  file |-> filename[p], line |-> constLine[p],
                  label |-> constName[p]]
    OBVIOUS
<1>1. /\ pc[p] = "const_write" /\ pc'[p] = "block_done"
      /\ events'[p] = Append(events[p], e)
      /\ prog' = prog /\ blockT' = blockT /\ isBlockEvt' = isBlockEvt
      /\ blockT0' = blockT0
    BY DEF ConstWrite, BInv, TypeOK
<1>2. /\ Range(events'[p]) = Range(events[p]) \cup {e}
      /\ CurBlock(p) \in Nat \ {0}
    <2>1. events[p] \in Seq(Event) /\ prog[p] \in Seq(Seq(Loc)) \ {<<>>}
        BY DEF BInv, TypeOK
    <2>2. Range(events'[p]) = Range(events[p]) \cup {e}
        BY <1>1, <2>1, RangeAppend
    <2>3. CurBlock(p) \in Nat \ {0}
        BY <2>1 DEF CurBlock
    <2> QED
        BY <2>2, <2>3
<1>3. ProbeInv(p)
    BY DEF BInv
<1>4. BlockTargetLocs' = BlockTargetLocs
    BY <1>1 DEF BlockTargetLocs
<1>5. \A b : HasBlockEvt(p, b)' <=> HasBlockEvt(p, b)
    BY <1>1, <1>2 DEF HasBlockEvt
<1>6. ProbeData(p)'
    BY <1>1, <1>2, <1>3, <1>4, <1>5 DEF ProbeInv, ProbeData, CurBlock
<1> QED
    BY <1>1, <1>3, <1>5, <1>6 DEF ProbeInv, ProbeStage, CurBlock

(* NextBlock and NextFunction: the finished block keeps the probe it got   *)
(* exactly when it had a first-occurrence target, and the new, empty      *)
(* block has neither a target nor a probe.                                *)
LEMMA OpenBlockProbe ==
    ASSUME BInv, NEW p \in Procs, NextBlock(p) \/ NextFunction(p)
    PROVE  ProbeInv(p)'
<1> DEFINE BT == BlockTargetLocs
<1> PICK n \in Nat : n = Len(prog[p])
    BY DEF BInv, TypeOK
<1>1. /\ pc[p] = "block_done" /\ pc'[p] = "scan"
      /\ prog'[p] = Append(prog[p], << >>)
      /\ isBlockEvt'[p] = FALSE
      /\ events' = events /\ blockT' = blockT /\ blockT0' = blockT0
    BY DEF NextBlock, NextFunction, BInv, TypeOK
<1>2. /\ Len(prog'[p]) = n + 1
      /\ \A x : SeenIn(prog'[p], x) <=> SeenIn(prog[p], x)
      /\ \A b \in 1..n : HasFirstIn(prog'[p], b, BT) <=> HasFirstIn(prog[p], b, BT)
      /\ ~HasFirstIn(prog'[p], n + 1, BT)
    <2>1. PICK t : t = prog'[p]
        OBVIOUS
    <2>2. prog[p] \in Seq(Seq(Loc)) /\ t = Append(prog[p], << >>)
        BY <1>1, <2>1 DEF BInv, TypeOK
    <2> QED
        BY <2>1, <2>2, AppendBlock
<1>3. ProbeInv(p) /\ n \in Nat \ {0}
    BY DEF BInv, TypeOK, CurBlock
<1>4. HasBlockEvt(p, n) <=> HasFirstIn(prog[p], n, BT)
    BY <1>1, <1>3 DEF ProbeInv, ProbeData, ProbeStage, CurBlock
<1>5. \A b \in 1..n : HasBlockEvt(p, b)' <=> HasFirstIn(prog'[p], b, BT)
    <2>1. \A b \in 1..n : HasBlockEvt(p, b)' <=> HasBlockEvt(p, b)
        BY <1>1 DEF HasBlockEvt
    <2>2. \A b \in 1..(n - 1) : HasBlockEvt(p, b) <=> HasFirstIn(prog[p], b, BT)
        BY <1>3 DEF ProbeInv, ProbeData, CurBlock
    <2>3. \A b \in 1..n : b \in 1..(n - 1) \/ b = n
        BY <1>3
    <2> QED
        BY <1>2, <1>4, <2>1, <2>2, <2>3
<1>6. ~HasBlockEvt(p, n + 1)' /\ \A e \in Range(events'[p]) : e.blk \in 1..(n + 1)
    <2>1. \A e \in Range(events[p]) : e.blk \in 1..n
        BY <1>3 DEF ProbeInv, ProbeData, CurBlock
    <2> QED
        BY <1>1, <2>1 DEF HasBlockEvt
<1>7. \A f \in AllFiles :
          blockT'[p][f] = {l \in blockT0'[f] : ~SeenIn(prog'[p], [file |-> f, line |-> l])}
    BY <1>1, <1>2, <1>3 DEF ProbeInv, ProbeData
<1>8. BT' = BT
    BY <1>1 DEF BT, BlockTargetLocs
<1> QED
    BY <1>1, <1>2, <1>5, <1>6, <1>7, <1>8 DEF ProbeInv, ProbeData, ProbeStage,
                                              CurBlock, BT


-----------------------------------------------------------------------------
(* The inductive invariant and the theorem.                                *)

(* Before any pass has scanned an instruction the invariant holds: no      *)
(* location is seen, so block_targets is the loaded set, and the single   *)
(* empty block has no target and no record.                               *)
LEMMA InitBInv == Init => BInv
<1> SUFFICES ASSUME Init PROVE BInv
    OBVIOUS
<1>1. TypeOK /\ NoExcludedTargets
    BY InitTypeOK DEF Init, NoExcludedTargets
<1>2. ASSUME NEW p \in Procs PROVE ProbeInv(p)
    <2>1. /\ prog[p] = << << >> >> /\ events[p] = << >> /\ blockT[p] = blockT0
          /\ isBlockEvt[p] = FALSE /\ pc[p] = "scan"
        BY DEF Init
    <2>2. \A x : ~SeenIn(prog[p], x)
        BY <2>1 DEF SeenIn
    <2>3. ~HasFirstIn(prog[p], 1, BlockTargetLocs) /\ Range(events[p]) = {}
        BY <2>1 DEF HasFirstIn, Range
    <2>4. ~HasBlockEvt(p, 1)
        BY <2>3 DEF HasBlockEvt
    <2>5. \A f \in AllFiles :
              blockT[p][f] =
                  {l \in blockT0[f] : ~SeenIn(prog[p], [file |-> f, line |-> l])}
        BY <2>1, <2>2, <1>1 DEF TypeOK
    <2>6. CurBlock(p) = 1
        BY <2>1 DEF CurBlock
    <2>7. ProbeData(p)
        BY <2>1, <2>3, <2>5, <2>6 DEF ProbeData
    <2>8. ProbeStage(p)
        BY <2>1, <2>4, <2>6 DEF ProbeStage
    <2> QED
        BY <2>7, <2>8 DEF ProbeInv
<1> QED
    BY <1>1, <1>2 DEF BInv

(* A step of pass p leaves every other pass's state alone.                 *)
LEMMA PassLocal ==
    ASSUME TypeOK, NEW p \in Procs, NEW q \in Procs, q # p,
           \/ ScanInstr(p) \/ SkipBlock(p) \/ InstrumentBlock(p)
           \/ BlockWrite(p) \/ ConstNew(p) \/ ConstSkip(p) \/ ConstWrite(p)
           \/ NextBlock(p) \/ NextFunction(p) \/ FinishModule(p)
           \/ AllocFail(p)
    PROVE  /\ prog'[q] = prog[q] /\ blockT'[q] = blockT[q]
           /\ isBlockEvt'[q] = isBlockEvt[q] /\ events'[q] = events[q]
           /\ blockT0' = blockT0 /\ pc'[q] = pc[q]
<1>1. CASE ScanInstr(p)
    <2>1. PICK dl \in DebugLocs :
              LET r == DebugLoc(dl, filename[p], line[p])
                  c == IF Excluded(r) THEN 0
                       ELSE IsTargetLoc(r, blockT[p], constT[p])
              IN /\ prog' = [prog EXCEPT ![p][CurBlock(p)] = Append(@, r)]
                 /\ blockT' = IF c = 3
                                THEN [blockT EXCEPT ![p] = ConsumeBlockTarget(r, @)]
                                ELSE blockT
                 /\ isBlockEvt' = [isBlockEvt EXCEPT ![p] = @ \/ c = 3]
        BY <1>1 DEF ScanInstr
    <2> QED
        BY <1>1, <2>1 DEF ScanInstr, TypeOK
<1>2. CASE SkipBlock(p) \/ InstrumentBlock(p) \/ BlockWrite(p)
    BY <1>2 DEF TypeOK, SkipBlock, InstrumentBlock, BlockWrite
<1>3. CASE ConstNew(p) \/ ConstSkip(p) \/ ConstWrite(p)
    BY <1>3 DEF TypeOK, ConstNew, ConstSkip, ConstWrite
<1>4. CASE NextBlock(p) \/ NextFunction(p) \/ FinishModule(p) \/ AllocFail(p)
    BY <1>4 DEF TypeOK, NextBlock, NextFunction, FinishModule, AllocFail
<1> QED
    BY <1>1, <1>2, <1>3, <1>4

(* Every step of every pass, and the final stutter, preserves BInv.       *)
LEMMA NextBInv == BInv /\ [Next]_vars => BInv'
<1> SUFFICES ASSUME BInv, [Next]_vars PROVE BInv'
    OBVIOUS
<1>1. TypeOK'
    BY NextTypeOK DEF BInv
<1>2. CASE UNCHANGED vars \/ BuildDone
    <2>1. UNCHANGED vars
        BY <1>2 DEF BuildDone
    <2>2. \A p \in Procs : ProbeInv(p)'
        BY <2>1, OtherProbe DEF vars, BInv
    <2> QED
        BY <1>1, <2>1, <2>2 DEF BInv, NoExcludedTargets, vars
<1>3. ASSUME NEW p \in Procs,
             \/ ScanInstr(p) \/ SkipBlock(p) \/ InstrumentBlock(p)
             \/ BlockWrite(p) \/ ConstNew(p) \/ ConstSkip(p) \/ ConstWrite(p)
             \/ NextBlock(p) \/ NextFunction(p) \/ FinishModule(p)
             \/ AllocFail(p)
      PROVE  BInv'
    <2>1. ProbeInv(p)'
        BY <1>3, ScanProbe, SkipProbe, InstrumentProbe, SettledProbe,
           BlockWriteProbe, ConstWriteProbe, OpenBlockProbe
    <2>2. ASSUME NEW q \in Procs, q # p PROVE ProbeInv(q)'
        BY <1>3, <2>2, PassLocal, OtherProbe DEF BInv
    <2>3. blockT0' = blockT0
        BY <1>3 DEF ScanInstr, SkipBlock, InstrumentBlock, BlockWrite, ConstNew,
                    ConstSkip, ConstWrite, NextBlock, NextFunction,
                    FinishModule, AllocFail
    <2> QED
        BY <1>1, <2>1, <2>2, <2>3 DEF BInv, NoExcludedTargets
<1> QED
    BY <1>2, <1>3 DEF Next

(* BInv yields BlockProbesExact: an earlier block by ProbeData, and the   *)
(* current one, once finished, by ProbeStage and isTargetBlockEvent.      *)
LEMMA BInvExact == BInv => BlockProbesExact
<1> SUFFICES ASSUME BInv, NEW p \in Procs, NEW b \in FinishedBlocks(p)
             PROVE  HasBlockEvt(p, b) <=> HasFirstIn(prog[p], b, BlockTargetLocs)
    BY FirstOccurrenceIn DEF BlockProbesExact, HasBlockEvt, HasFirstIn
<1>1. ProbeInv(p) /\ Len(prog[p]) \in Nat
    BY DEF BInv, TypeOK
<1>2. CASE b \in 1..(Len(prog[p]) - 1)
    BY <1>1, <1>2 DEF ProbeInv, ProbeData, CurBlock
<1>3. CASE b = Len(prog[p])
    <2>1. pc[p] \in {"block_done", "done"}
        BY <1>1, <1>3 DEF FinishedBlocks
    <2> QED
        BY <1>1, <1>3, <2>1 DEF ProbeInv, ProbeData, ProbeStage, CurBlock
<1> QED
    BY <1>1, <1>2, <1>3 DEF FinishedBlocks

(* Exactly-once consumption of block targets, for every number of passes, *)
(* files, lines, functions and blocks: every finished block of every pass *)
(* carries a trigger_block_event call iff one of its instructions is the  *)
(* first of the traversal to resolve to a loaded block target.            *)
THEOREM BlockProbesCorrect == Spec => []BlockProbesExact
<1>1. Init => BInv
    BY InitBInv
<1>2. BInv /\ [Next]_vars => BInv'
    BY NextBInv
<1>3. BInv => BlockProbesExact
    BY BInvExact
<1> QED
    BY <1>1, <1>2, <1>3, PTL DEF Spec

=============================================================================
