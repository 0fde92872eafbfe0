------------------------- MODULE AFLCoverageProofs -------------------------
(***************************************************************************)
(* Proofs about the instrumentation pass of AFLCoverage, for every value   *)
(* of its constants.                                                       *)
(***************************************************************************)
EXTENDS AFLCoverage, TLAPS

(* The initial state is well typed.                                       *)
LEMMA InitTypeOK == Init => TypeOK
  BY ConstantsAssumption, AttachAssumption DEF Init, TypeOK, Ids, Loc, Lines, AllFiles,
                             ConstEntry, PC

(* A location get_debug_loc can produce, from a debug location or from    *)
(* the stale locals, is a location of the model.                          *)
LEMMA DebugLocType ==
    ASSUME NEW dl \in DebugLocs, NEW f \in AllFiles, NEW l \in Lines
    PROVE  DebugLoc(dl, f, l) \in Loc
  BY DEF DebugLoc, DebugLocs, NoLoc, Loc, AllFiles

(* Appending a location to the last scanned block keeps the list of      *)
(* blocks a non-empty sequence of sequences of locations.                 *)
LEMMA AppendToLastBlock ==
    ASSUME NEW s \in Seq(Seq(Loc)) \ {<<>>}, NEW r \in Loc
    PROVE  [s EXCEPT ![Len(s)] = Append(@, r)] \in Seq(Seq(Loc)) \ {<<>>}
  OBVIOUS

(* Opening the next block appends an empty block to the list.             *)
LEMMA AppendEmptyBlock ==
    ASSUME NEW s \in Seq(Seq(Loc))
    PROVE  Append(s, << >>) \in Seq(Seq(Loc)) \ {<<>>}
  <1>1. << >> \in Seq(Loc)
    OBVIOUS
  <1>2. Append(s, << >>) \in Seq(Seq(Loc))
    BY <1>1
  <1>3. Len(Append(s, << >>)) = Len(s) + 1
    OBVIOUS
  <1>4. Append(s, << >>) # << >>
    <2>1. Len(s) \in Nat /\ Len(<< >>) = 0
      OBVIOUS
    <2>2. QED
      BY <1>3, <2>1
  <1>5. QED
    BY <1>2, <1>4, Zenon

(* An allocation writes a value of the counter's width back.              *)
LEMMA IncrType == ASSUME NEW v \in Ids PROVE Incr(v) \in Ids
  BY ConstantsAssumption DEF Incr, Ids

(* Every step of every pass, and the final stutter, preserves the types.  *)
LEMMA NextTypeOK == TypeOK /\ [Next]_vars => TypeOK'
  <1> SUFFICES ASSUME TypeOK, [Next]_vars PROVE TypeOK'
    OBVIOUS
  <1>1. ASSUME NEW p \in Procs, ScanInstr(p) PROVE TypeOK'
    <2>1. PICK dl \in DebugLocs :
              LET r == DebugLoc(dl, filename[p], line[p])
                  c == IF Excluded(r) THEN 0
                       ELSE IsTargetLoc(r, blockT[p], constT[p])
              IN /\ prog' = [prog EXCEPT ![p][CurBlock(p)] = Append(@, r)]
                 /\ filename' = [filename EXCEPT ![p] = r.file]
                 /\ line' = [line EXCEPT ![p] = r.line]
                 /\ blockT' = IF c = 3
                                THEN [blockT EXCEPT ![p] = ConsumeBlockTarget(r, @)]
                                ELSE blockT
                 /\ isBlockEvt' = [isBlockEvt EXCEPT ![p] = @ \/ c = 3]
                 /\ isConstEvt' = [isConstEvt EXCEPT ![p] = @ \/ c = 4]
                 /\ constLine' = IF c = 4 THEN [constLine EXCEPT ![p] = r.line]
                                          ELSE constLine
      BY <1>1 DEF ScanInstr
    <2> DEFINE r == DebugLoc(dl, filename[p], line[p])
    <2>2. r \in Loc
      BY DebugLocType DEF TypeOK
    <2>3. r.file \in AllFiles /\ r.line \in Lines
      BY <2>2 DEF Loc
    <2>4. prog' \in [Procs -> Seq(Seq(Loc)) \ {<<>>}]
      BY <2>1, <2>2, AppendToLastBlock DEF TypeOK, CurBlock
    <2>5. blockT' \in [Procs -> [AllFiles -> SUBSET (1..MaxLine)]]
      BY <2>1, <2>3 DEF TypeOK, ConsumeBlockTarget
    <2>6. /\ filename' \in [Procs -> AllFiles]
          /\ line' \in [Procs -> Lines]
          /\ constLine' \in [Procs -> Lines]
          /\ isBlockEvt' \in [Procs -> BOOLEAN]
          /\ isConstEvt' \in [Procs -> BOOLEAN]
      BY <2>1, <2>3 DEF TypeOK
    <2>7. QED
      BY <1>1, <2>4, <2>5, <2>6 DEF ScanInstr, TypeOK
  <1>2. ASSUME NEW p \in Procs, SkipBlock(p) PROVE TypeOK'
    BY <1>2 DEF SkipBlock, TypeOK, PC
  <1>3. ASSUME NEW p \in Procs, InstrumentBlock(p) PROVE TypeOK'
    <2>1. instBlocks' \in [Procs -> SUBSET Nat]
      BY <1>3 DEF InstrumentBlock, TypeOK, CurBlock
    <2>2. /\ evt' \in [Procs -> Ids] /\ pc' \in [Procs -> PC]
          /\ attached' \in [Procs -> 0..MaxAttach]
      <3>1. CASE isBlockEvt[p]
        <4>1. /\ evt' = [evt EXCEPT ![p] = shm]
              /\ pc' = [pc EXCEPT ![p] = "blk_write"]
              /\ attached' = [attached EXCEPT ![p] = @ + 1]
              /\ ShmAttachOK(attached[p])
          BY <1>3, <3>1, Zenon DEF InstrumentBlock
        <4>2. QED
          BY <4>1, AttachAssumption DEF TypeOK, PC, ShmAttachOK
      <3>2. CASE ~isBlockEvt[p]
        BY <1>3, <3>2 DEF InstrumentBlock, TypeOK, PC
      <3>3. QED
        BY <3>1, <3>2
    <2>3. QED
      BY <1>3, <2>1, <2>2 DEF InstrumentBlock, TypeOK
  <1>4. ASSUME NEW p \in Procs, BlockWrite(p) PROVE TypeOK'
    <2>1. [kind |-> "block", id |-> evt[p], blk |-> CurBlock(p),
           file |-> filename[p], line |-> line[p], label |-> NoName] \in Event
      BY DEF TypeOK, Event, EventKind, CurBlock, ConstEntry
    <2>2. events' \in [Procs -> Seq(Event)]
      BY <1>4, <2>1 DEF BlockWrite, TypeOK
    <2>3. QED
      BY <1>4, <2>2, IncrType DEF BlockWrite, TypeOK, PC
  <1>5. ASSUME NEW p \in Procs, ConstNew(p) PROVE TypeOK'
    <2>1. constT[p][filename[p]][constLine[p]] \in ConstEntry
      BY DEF TypeOK
    <2>2. seenConst' \in [Procs -> SUBSET (AllFiles \X Lines)]
      BY <1>5 DEF ConstNew, TypeOK
    <2>3. constT' \in [Procs -> [AllFiles -> [Lines -> ConstEntry]]]
      BY <1>5 DEF ConstNew, TypeOK, ConstEntry
    <2>4. constName' \in [Procs -> ConstEntry]
      BY <1>5 DEF ConstNew, TypeOK, ConstEntry
    <2>5. attached' \in [Procs -> 0..MaxAttach]
      BY <1>5, AttachAssumption DEF ConstNew, TypeOK, ShmAttachOK
    <2>6. QED
      BY <1>5, <2>2, <2>3, <2>4, <2>5 DEF ConstNew, TypeOK, PC
  <1>6. ASSUME NEW p \in Procs, ConstSkip(p) PROVE TypeOK'
    BY <1>6 DEF ConstSkip, TypeOK, PC
  <1>7. ASSUME NEW p \in Procs, ConstWrite(p) PROVE TypeOK'
    <2>1. [kind |-> "const", id |-> evt[p], blk |-> CurBlock(p),
           file |-> filename[p], line |-> constLine[p],
           label |-> constName[p]] \in Event
      BY DEF TypeOK, Event, EventKind, CurBlock
    <2>2. events' \in [Procs -> Seq(Event)]
      BY <1>7, <2>1 DEF ConstWrite, TypeOK
    <2>3. QED
      BY <1>7, <2>2, IncrType DEF ConstWrite, TypeOK, PC
  <1>8. ASSUME NEW p \in Procs, NextBlock(p) PROVE TypeOK'
    <2>1. bb' \in [Procs -> 1..NB]
      <3>1. bb[p] < NB /\ bb' = [bb EXCEPT ![p] = @ + 1]
        BY <1>8 DEF NextBlock
      <3>2. bb \in [Procs -> 1..NB] /\ NB \in Nat
        BY ConstantsAssumption DEF TypeOK
      <3>3. QED
        BY <3>1, <3>2
    <2>2. prog' \in [Procs -> Seq(Seq(Loc)) \ {<<>>}]
      BY <1>8, AppendEmptyBlock DEF NextBlock, TypeOK
    <2>3. QED
      BY <1>8, <2>1, <2>2 DEF NextBlock, TypeOK, PC
  <1>9. ASSUME NEW p \in Procs, NextFunction(p) PROVE TypeOK'
    <2>1. /\ fn[p] < NF
          /\ fn' = [fn EXCEPT ![p] = @ + 1] /\ bb' = [bb EXCEPT ![p] = 1]
          /\ prog' = [prog EXCEPT ![p] = Append(@, <<>>)]
          /\ filename' = [filename EXCEPT ![p] = NoFile]
          /\ line' = [line EXCEPT ![p] = 0]
          /\ constLine' = [constLine EXCEPT ![p] = 0]
          /\ isBlockEvt' = [isBlockEvt EXCEPT ![p] = FALSE]
          /\ isConstEvt' = [isConstEvt EXCEPT ![p] = FALSE]
          /\ pc' = [pc EXCEPT ![p] = "scan"]
          /\ UNCHANGED <<blockT0, constT0, instRatio, shmInit, shm, evt, constName,
                         blockT, constT, seenConst, events, instBlocks, attached>>
      BY <1>9 DEF NextFunction
    <2>2. fn' \in [Procs -> 1..NF]
      <3>1. fn \in [Procs -> 1..NF] /\ NF \in Nat
        BY ConstantsAssumption DEF TypeOK
      <3>2. QED
        BY <2>1, <3>1
    <2>3. bb' \in [Procs -> 1..NB]
      <3>1. bb \in [Procs -> 1..NB] /\ 1 \in 1..NB
        BY ConstantsAssumption DEF TypeOK
      <3>2. QED
        BY <2>1, <3>1
    <2>4. prog' \in [Procs -> Seq(Seq(Loc)) \ {<<>>}]
      <3>1. prog \in [Procs -> Seq(Seq(Loc)) \ {<<>>}]
        BY DEF TypeOK
      <3>2. QED
        BY <2>1, <3>1, AppendEmptyBlock
    <2>5. /\ filename' \in [Procs -> AllFiles]
          /\ line' \in [Procs -> Lines]
          /\ constLine' \in [Procs -> Lines]
      <3>1. NoFile \in AllFiles /\ 0 \in Lines
        BY ConstantsAssumption DEF AllFiles, Lines
      <3>2. QED
        BY <2>1, <3>1 DEF TypeOK
    <2>6. /\ isBlockEvt' \in [Procs -> BOOLEAN]
          /\ isConstEvt' \in [Procs -> BOOLEAN]
          /\ pc' \in [Procs -> PC]
      BY <2>1 DEF TypeOK, PC
    <2>7. QED
      BY <2>1, <2>2, <2>3, <2>4, <2>5, <2>6 DEF TypeOK
  <1>10. ASSUME NEW p \in Procs, FinishModule(p) PROVE TypeOK'
    BY <1>10 DEF FinishModule, TypeOK, PC
  <1>11. ASSUME NEW p \in Procs, AllocFail(p) PROVE TypeOK'
    BY <1>11 DEF AllocFail, TypeOK, PC
  <1>12. CASE BuildDone \/ UNCHANGED vars
    BY <1>12 DEF BuildDone, vars, TypeOK
  <1>13. QED
    BY <1>1, <1>2, <1>3, <1>4, <1>5, <1>6, <1>7, <1>8, <1>9, <1>10, <1>11,
       <1>12
    DEF Next

(* Type correctness of the pass: every reachable state is well typed.     *)
THEOREM TypeCorrect == Spec => []TypeOK
  BY InitTypeOK, NextTypeOK, PTL DEF Spec

-----------------------------------------------------------------------------
(* Event IDs under a single writer.                                       *)

(* A list of records whose IDs run consecutively, modulo the counter      *)
(* width, from start; and the ID the counter owes next.                   *)
Chain(s, start) ==
    /\ s # <<>> => s[1].id = start
    /\ \A i \in 1..(Len(s) - 1) : s[i + 1].id = (s[i].id + 1) % IdSpace

NextOf(s, start) == IF s = <<>> THEN start ELSE (s[Len(s)].id + 1) % IdSpace

(* Appending the record of the ID the counter owes keeps the chain, and   *)
(* the counter then owes that ID plus one.                                *)
LEMMA ChainAppend ==
    ASSUME NEW s \in Seq(Event), NEW start, NEW e \in Event,
           Chain(s, start), e.id = NextOf(s, start)
    PROVE  /\ Chain(Append(s, e), start)
           /\ NextOf(Append(s, e), start) = (e.id + 1) % IdSpace
  <1> DEFINE t == Append(s, e)
  <1>1. Len(t) = Len(s) + 1 /\ t[Len(s) + 1] = e
        /\ \A i \in 1..Len(s) : t[i] = s[i]
    OBVIOUS
  <1>2. t # <<>> => t[1].id = start
    <2>1. CASE s = <<>>
      BY <1>1, <2>1 DEF NextOf
    <2>2. CASE s # <<>>
      <3>1. Len(s) \in Nat \ {0}
        BY <2>2
      <3>2. QED
        BY <1>1, <2>2, <3>1 DEF Chain
    <2>3. QED
      BY <2>1, <2>2
  <1>3. \A i \in 1..(Len(t) - 1) : t[i + 1].id = (t[i].id + 1) % IdSpace
    <2> SUFFICES ASSUME NEW i \in 1..(Len(t) - 1)
                 PROVE  t[i + 1].id = (t[i].id + 1) % IdSpace
      OBVIOUS
    <2>1. CASE i < Len(s)
      BY <1>1, <2>1 DEF Chain
    <2>2. CASE i = Len(s)
      <3>1. s # <<>>
        BY <2>2
      <3>2. QED
        BY <1>1, <2>2, <3>1 DEF NextOf
    <2>3. QED
      BY <1>1, <2>1, <2>2
  <1>4. NextOf(t, start) = (e.id + 1) % IdSpace
    <2>1. t # <<>>
      BY <1>1
    <2>2. QED
      BY <1>1, <2>1 DEF NextOf
  <1>5. QED
    BY <1>2, <1>3, <1>4 DEF Chain

(* The counter relation of one pass p, as a state predicate.              *)
CounterOf(p) ==
    /\ Chain(events[p], shmInit)
    /\ shm = NextOf(events[p], shmInit)
    /\ pc[p] \in {"blk_write", "const_write"} => evt[p] = shm

(* A step of the pass that touches neither the counter, the event list    *)
(* nor the write phases keeps the counter relation.                       *)
LEMMA CounterFrame ==
    ASSUME NEW p, CounterOf(p),
           shm' = shm, shmInit' = shmInit, events' = events,
           pc'[p] \notin {"blk_write", "const_write"}
    PROVE  CounterOf(p)'
  BY DEF CounterOf, Chain, NextOf

(* A write phase appends the record of the ID read and writes that ID     *)
(* plus one back: the counter relation survives.                          *)
LEMMA CounterWrite ==
    ASSUME NEW p, NEW e \in Event, CounterOf(p), events[p] \in Seq(Event),
           e.id = evt[p], pc[p] \in {"blk_write", "const_write"},
           events'[p] = Append(events[p], e), shm' = (evt[p] + 1) % IdSpace,
           shmInit' = shmInit, pc'[p] \notin {"blk_write", "const_write"}
    PROVE  CounterOf(p)'
  <1>1. e.id = NextOf(events[p], shmInit)
    BY DEF CounterOf
  <1>2. /\ Chain(Append(events[p], e), shmInit)
        /\ NextOf(Append(events[p], e), shmInit) = (e.id + 1) % IdSpace
    BY <1>1, ChainAppend DEF CounterOf
  <1>3. QED
    BY <1>2 DEF CounterOf

(* With one compiler invocation q, the counter relation of q is an        *)
(* inductive invariant of the pass, together with the types.              *)
LEMMA SingleWriterInv ==
    ASSUME NEW q, Procs = {q}
    PROVE  Spec => [](TypeOK /\ CounterOf(q))
  <1> DEFINE Inv == TypeOK /\ CounterOf(q)
  <1>1. Init => Inv
    BY InitTypeOK DEF Init, CounterOf, Chain, NextOf
  <1>2. Inv /\ [Next]_vars => Inv'
    <2> SUFFICES ASSUME TypeOK, CounterOf(q), [Next]_vars PROVE CounterOf(q)'
      BY NextTypeOK
    <2>0. events[q] \in Seq(Event) /\ pc[q] \in PC
      BY DEF TypeOK
    <2>1. CASE ScanInstr(q)
      BY <2>1, CounterFrame DEF ScanInstr
    <2>2. CASE SkipBlock(q)
      BY <2>2, CounterFrame DEF SkipBlock
    <2>3. CASE InstrumentBlock(q)
      <3>1. CASE isBlockEvt[q]
        <4>1. evt' = [evt EXCEPT ![q] = shm] /\ pc' = [pc EXCEPT ![q] = "blk_write"]
          BY <2>3, <3>1, Zenon DEF InstrumentBlock
        <4>2. QED
          BY <2>0, <2>3, <4>1 DEF InstrumentBlock, CounterOf, TypeOK
      <3>2. CASE ~isBlockEvt[q]
        <4>1. pc' = [pc EXCEPT ![q] = "const_check"]
          BY <2>3, <3>2, Zenon DEF InstrumentBlock
        <4>2. QED
          BY <2>0, <2>3, <4>1, CounterFrame DEF InstrumentBlock, TypeOK
      <3>3. QED
        BY <3>1, <3>2
    <2>4. CASE BlockWrite(q)
      <3> DEFINE e == [kind |-> "block", id |-> evt[q], blk |-> CurBlock(q),
                       file |-> filename[q], line |-> line[q], label |-> NoName]
      <3>1. e \in Event
        <4>1. /\ evt[q] \in Ids /\ CurBlock(q) \in Nat
              /\ filename[q] \in AllFiles /\ line[q] \in Lines
              /\ NoName \in ConstEntry
          BY DEF TypeOK, CurBlock, ConstEntry
        <4>2. QED
          BY <4>1 DEF Event, EventKind
      <3>2. events'[q] = Append(events[q], e)
        BY <2>4, <2>0 DEF BlockWrite, TypeOK
      <3>3. pc'[q] = "const_check" /\ shm' = (evt[q] + 1) % IdSpace
        BY <2>4 DEF BlockWrite, Incr, TypeOK
      <3>4. QED
        BY <2>0, <2>4, <3>1, <3>2, <3>3, CounterWrite DEF BlockWrite
    <2>5. CASE ConstNew(q)
      BY <2>0, <2>5 DEF ConstNew, CounterOf, TypeOK
    <2>6. CASE ConstSkip(q)
      <3>1. /\ pc'[q] = "block_done"
            /\ shm' = shm /\ shmInit' = shmInit /\ events' = events
        BY <2>0, <2>6 DEF ConstSkip, TypeOK
      <3>2. QED
        BY <3>1, CounterFrame
    <2>7. CASE ConstWrite(q)
      <3> DEFINE e == [kind |-> "const", id |-> evt[q], blk |-> CurBlock(q),
                       file |-> filename[q], line |-> constLine[q],
                       label |-> constName[q]]
      <3>1. e \in Event
        <4>1. /\ evt[q] \in Ids /\ CurBlock(q) \in Nat
              /\ filename[q] \in AllFiles /\ constLine[q] \in Lines
              /\ constName[q] \in ConstEntry
          BY DEF TypeOK, CurBlock
        <4>2. QED
          BY <4>1 DEF Event, EventKind
      <3>2. events'[q] = Append(events[q], e)
        BY <2>7, <2>0 DEF ConstWrite, TypeOK
      <3>3. pc'[q] = "block_done" /\ shm' = (evt[q] + 1) % IdSpace
        BY <2>7 DEF ConstWrite, Incr, TypeOK
      <3>4. QED
        BY <2>0, <2>7, <3>1, <3>2, <3>3, CounterWrite DEF ConstWrite
    <2>8. CASE NextBlock(q)
      BY <2>8, CounterFrame DEF NextBlock, TypeOK
    <2>9. CASE NextFunction(q)
      BY <2>9, CounterFrame DEF NextFunction, TypeOK
    <2>10. CASE FinishModule(q)
      BY <2>10, CounterFrame DEF FinishModule, TypeOK
    <2>11. CASE AllocFail(q)
      BY <2>11, CounterFrame DEF AllocFail, TypeOK
    <2>12. CASE BuildDone \/ UNCHANGED vars
      BY <2>12 DEF BuildDone, vars, CounterOf
    <2>13. QED
      BY <2>1, <2>2, <2>3, <2>4, <2>5, <2>6, <2>7, <2>8, <2>9, <2>10, <2>11,
         <2>12
      DEF Next
  <1>3. QED
    BY <1>1, <1>2, PTL DEF Spec

(* With one compiler invocation, the IDs it allocates are consecutive     *)
(* modulo 2^IdBits from the value the segment held: get_ID_ptr's read and *)
(* the write-back of ++evtID cannot be separated by another writer, and   *)
(* an ABORT in get_ID_ptr never leaves an allocation half done.           *)
THEOREM SingleWriterIds ==
    ASSUME NEW q, Procs = {q}
    PROVE  Spec => []EventIdsFromCounter
  <1>1. TypeOK /\ CounterOf(q) => EventIdsFromCounter
    BY DEF EventIdsFromCounter, CounterOf, Chain, NextOf, NextId
  <1>2. QED
    BY <1>1, SingleWriterInv, PTL

-----------------------------------------------------------------------------
(* Refinement of the atomic counter.                                      *)

(* Appending a record appends its ID to the list of issued IDs.           *)
LEMMA IssuedAppend ==
    ASSUME NEW s \in Seq(Event), NEW e \in Event
    PROVE  [i \in 1..Len(Append(s, e)) |-> Append(s, e)[i].id]
             = Append([i \in 1..Len(s) |-> s[i].id], e.id)
  OBVIOUS

(* With one compiler invocation, the pass implements the atomic counter   *)
(* of EventCounter: every write-back of *evtIDPtr = ++evtID, with the     *)
(* record written before it, is one fetch-and-increment, and every other *)
(* step of the pass, the read in get_ID_ptr and an ABORT included, leaves *)
(* the counter and the issued IDs alone.                                  *)
THEOREM SingleWriterRefines ==
    ASSUME NEW q, Procs = {q}
    PROVE  Spec => CounterRefinement
  <1> DEFINE cvars == <<shm, IssuedIds(Writer)>>
  <1>0. Writer = q
    BY DEF Writer
  <1>1. Init => Counter!Init
    <2> SUFFICES ASSUME Init PROVE Counter!Init
      OBVIOUS
    <2>1. events[q] = <<>> /\ shm \in ShmInitValues
      BY DEF Init
    <2>2. IssuedIds(q) = <<>>
      BY <2>1 DEF IssuedIds
    <2>3. QED
      BY <1>0, <2>1, <2>2 DEF Counter!Init
  <1>2. TypeOK /\ CounterOf(q) /\ [Next]_vars => [Counter!Allocate]_cvars
    <2> SUFFICES ASSUME TypeOK, CounterOf(q), [Next]_vars
                 PROVE  [Counter!Allocate]_cvars
      OBVIOUS
    <2>0. events[q] \in Seq(Event)
      BY DEF TypeOK
    <2>1. ASSUME NEW e \in Event, e.id = evt[q],
                 pc[q] \in {"blk_write", "const_write"},
                 events'[q] = Append(events[q], e),
                 shm' = (evt[q] + 1) % IdSpace
          PROVE  Counter!Allocate
      <3>1. evt[q] = shm
        BY <2>1 DEF CounterOf
      <3>2. IssuedIds(q)' = Append(IssuedIds(q), shm)
        BY <2>0, <2>1, <3>1, IssuedAppend DEF IssuedIds
      <3>3. QED
        BY <1>0, <2>1, <3>1, <3>2 DEF Counter!Allocate
    <2>2. CASE BlockWrite(q)
      <3> DEFINE e == [kind |-> "block", id |-> evt[q], blk |-> CurBlock(q),
                       file |-> filename[q], line |-> line[q], label |-> NoName]
      <3>1. e \in Event
        <4>1. /\ evt[q] \in Ids /\ CurBlock(q) \in Nat
              /\ filename[q] \in AllFiles /\ line[q] \in Lines
              /\ NoName \in ConstEntry
          BY DEF TypeOK, CurBlock, ConstEntry
        <4>2. QED
          BY <4>1 DEF Event, EventKind
      <3>2. events'[q] = Append(events[q], e)
        BY <2>2, <2>0 DEF BlockWrite, TypeOK
      <3>3. shm' = (evt[q] + 1) % IdSpace /\ pc[q] = "blk_write"
        BY <2>2 DEF BlockWrite, Incr
      <3>4. QED
        BY <2>1, <3>1, <3>2, <3>3
    <2>3. CASE ConstWrite(q)
      <3> DEFINE e == [kind |-> "const", id |-> evt[q], blk |-> CurBlock(q),
                       file |-> filename[q], line |-> constLine[q],
                       label |-> constName[q]]
      <3>1. e \in Event
        BY DEF TypeOK, Event, EventKind, CurBlock
      <3>2. events'[q] = Append(events[q], e)
        BY <2>3, <2>0 DEF ConstWrite, TypeOK
      <3>3. shm' = (evt[q] + 1) % IdSpace /\ pc[q] = "const_write"
        BY <2>3 DEF ConstWrite, Incr
      <3>4. QED
        BY <2>1, <3>1, <3>2, <3>3
    <2>4. ASSUME UNCHANGED <<shm, events>> PROVE UNCHANGED cvars
      BY <1>0, <2>4 DEF IssuedIds
    <2>5. CASE ScanInstr(q) \/ SkipBlock(q) \/ InstrumentBlock(q)
      BY <2>4, <2>5 DEF ScanInstr, SkipBlock, InstrumentBlock
    <2>6. CASE ConstNew(q) \/ ConstSkip(q) \/ NextBlock(q)
      BY <2>4, <2>6 DEF ConstNew, ConstSkip, NextBlock
    <2>7. CASE NextFunction(q) \/ FinishModule(q) \/ AllocFail(q)
      BY <2>4, <2>7 DEF NextFunction, FinishModule, AllocFail
    <2>8. CASE BuildDone \/ UNCHANGED vars
      BY <2>4, <2>8 DEF BuildDone, vars
    <2>9. QED
      BY <2>2, <2>3, <2>5, <2>6, <2>7, <2>8 DEF Next
  <1>3. QED
    BY <1>1, <1>2, SingleWriterInv, PTL
    DEF Spec, CounterRefinement, Counter!Spec

=============================================================================
