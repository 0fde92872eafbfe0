---------------------------- MODULE AFLCoverage ----------------------------
(***************************************************************************)
(* The target-driven instrumentation pass AFLCoverage::runOnModule of      *)
(* src/llvm/src/afl-llvm-pass.so.cc, one pass per compilation unit.        *)
(*                                                                         *)
(* Every process p in Procs is one compiler invocation running the pass    *)
(* over its own module.  The module's instructions are not fixed up front: *)
(* each scan step picks the debug location of the next instruction, so the *)
(* behaviours enumerate every module of at most NF functions, NB blocks    *)
(* per function and NI instructions per block.  The processes share one    *)
(* thing, the System V shared-memory event counter `shm` (get_ID_ptr),     *)
(* which the code reads into a local and writes back incremented in a      *)
(* later statement, with no lock.                                          *)
(*                                                                         *)
(* Locations are abstracted: a file is a model value, a line a small       *)
(* number.  realpath and the inlined-at fallback of get_debug_loc resolve  *)
(* a debug location to one such file; SysFile stands for every file under  *)
(* the excluded "/usr/" prefix and NoFile for the empty file name.         *)
(* load_instr_targets only ever fills block_targets ("targets_block") and  *)
(* const_targets ("targets_const"): bb_targets and func_targets stay       *)
(* empty, so classifications 1 and 2 of is_target_loc and the function     *)
(* probe (isTargetFunc) cannot occur and are left out.                     *)
(***************************************************************************)
EXTENDS Integers, Sequences, FiniteSets, Functions

CONSTANTS
    Procs,          \* concurrently running compiler invocations
    Files,          \* source files that may carry targets
    SysFile,        \* any file under the excluded prefix "/usr/"
    NoFile,         \* the empty file name
    MaxLine,        \* lines are 0..MaxLine; 0 means "no line"
    Names,          \* constant names of "targets_const"
    NoName,         \* a line absent from const_targets[file]
    EmptyName,      \* the "" that const_targets[f][l] inserts when absent
    NI, NB, NF,     \* instructions per block, blocks per function, functions
    IdBits,         \* width of the event counter (u16 in the code)
    ShmInitValues,  \* values the counter segment may hold when the build starts
    RatioValues,    \* values inst_ratio may have
    MaxAttach       \* shmat mappings a process can hold (vm.max_map_count)

IdSpace == 2^IdBits

ASSUME ConstantsAssumption ==
    /\ Procs # {} /\ IsFiniteSet(Procs)
    /\ SysFile \notin Files /\ NoFile \notin Files /\ SysFile # NoFile
    /\ MaxLine \in Nat \ {0}
    /\ NoName \notin Names /\ EmptyName \notin Names /\ NoName # EmptyName
    /\ NI \in Nat \ {0} /\ NB \in Nat \ {0} /\ NF \in Nat \ {0}
    /\ IdBits \in Nat \ {0} /\ IdSpace \in Nat \ {0}
    /\ ShmInitValues \subseteq 0..(IdSpace - 1) /\ ShmInitValues # {}
    /\ RatioValues \subseteq Nat /\ RatioValues # {}

ASSUME AttachAssumption == MaxAttach \in Nat \ {0}

Ids == 0..(IdSpace - 1)
Lines == 0..MaxLine
AllFiles == Files \cup {SysFile, NoFile}
Loc == [file : AllFiles, line : Lines]
ConstEntry == Names \cup {NoName, EmptyName}
NoLoc == [file |-> NoFile, line |-> 0]  \* stands for "no DILocation attached"
DebugLocs == {NoLoc} \cup [file : Files \cup {SysFile}, line : Lines]
Draws == {0, 99}                       \* the extremes of AFL_R(100)
EventKind == {"block", "const"}
Event == [kind : EventKind, id : Ids, blk : Nat, file : AllFiles,
          line : Lines, label : ConstEntry]
PC == {"scan", "blk_write", "const_check", "const_write", "block_done", "done",
       "aborted"}

VARIABLES
    blockT0,     \* block_targets as load_instr_targets left them
    constT0,     \* const_targets as load_instr_targets left them
    instRatio,   \* inst_ratio (uninitialised unless USE_TRADITIONAL_BRANCH)
    shmInit,     \* the counter value the build started from (history)
    shm,         \* the shared u16 event counter
    pc,          \* where each pass is in runOnModule
    fn,          \* index of the current function F
    bb,          \* index of the current block BB within F
    filename,    \* the pass's filename local, set by every get_debug_loc
    line,        \* the pass's line local, set by every get_debug_loc
    constLine,   \* const_line
    isBlockEvt,  \* isTargetBlockEvent
    isConstEvt,  \* isTargetConstEvent
    evt,         \* evtID: the counter value read, not yet written back
    constName,   \* constName of the const probe being emitted
    blockT,      \* each pass's block_targets, consumed on match
    constT,      \* each pass's const_targets
    seenConst,   \* instrumented_const_targets
    prog,        \* resolved locations of the blocks scanned so far
    events,      \* probe calls inserted, with their BB2ID.txt record
    instBlocks,  \* blocks that received instrumentation (inst_blocks)
    attached     \* shmat mappings of the segment each process holds

vars == <<blockT0, constT0, instRatio, shmInit, shm, pc, fn, bb, filename,
          line, constLine, isBlockEvt, isConstEvt, evt, constName, blockT,
          constT, seenConst, prog, events, instBlocks, attached>>

-----------------------------------------------------------------------------
(* Helpers translated from the pass.                                      *)

(* get_debug_loc: an instruction without a debug location leaves the     *)
(* caller's Filename and Line untouched, so they keep the values of the   *)
(* previous instruction.                                                  *)
DebugLoc(dl, f, l) == IF dl = NoLoc THEN [file |-> f, line |-> l] ELSE dl

(* The loop's `continue`: no file, no line, or a file under "/usr/".      *)
Excluded(r) == r.file \in {NoFile, SysFile} \/ r.line = 0

(* is_target_loc restricted to the two collections the loader fills:      *)
(* 3 when the line is a block target, else 4 when it is a const target.   *)
IsTargetLoc(r, bt, ct) ==
    IF r.line \in bt[r.file] THEN 3
    ELSE IF ct[r.file][r.line] # NoName THEN 4
    ELSE 0

(* Mutant: the erase is dropped, so a block target is never consumed.     *)
ConsumeNothing(r, bt) == bt

(* The erase of a matched block target inside is_target_loc.              *)
ConsumeBlockTarget(r, bt) ==
    [bt EXCEPT ![r.file] = @ \ {r.line}]

(* Index of the block being scanned in the flat list of scanned blocks.   *)
CurBlock(p) == Len(prog[p])

(* Mutant: *evtIDPtr = evtID++ writes the old value back.                 *)
IncrPost(v) == v % IdSpace

(* Mutant: the increment ignores the u16 width of the counter.            *)
IncrUnwrapped(v) == v + 1

(* Allocation writes the incremented local back: *evtIDPtr = ++evtID.     *)
Incr(v) == (v + 1) % IdSpace

(* get_ID_ptr: shmget finds or creates the segment and shmat maps it once *)
(* more, never to be detached; the mapping succeeds while the process     *)
(* holds fewer than MaxAttach of them.  Any shmget/shmat failure ABORTs.   *)
ShmAttachOK(a) == a < MaxAttach

(* The point where runOnModule calls get_ID_ptr next, if any: a block     *)
(* probe after the instrumentation decision, or a new const key.          *)
AtAllocation(p) ==
    \/ /\ pc[p] = "scan" /\ Len(prog[p][CurBlock(p)]) > 0 /\ isBlockEvt[p]
    \/ /\ pc[p] = "const_check" /\ isConstEvt[p]
       /\ <<filename[p], constLine[p]>> \notin seenConst[p]

-----------------------------------------------------------------------------
Init ==
    /\ blockT0 \in [AllFiles -> SUBSET (1..MaxLine)]
    /\ \A f \in {SysFile, NoFile} : blockT0[f] = {}
    /\ constT0 \in [AllFiles -> [Lines -> Names \cup {NoName}]]
    /\ \A f \in {SysFile, NoFile} : \A l \in Lines : constT0[f][l] = NoName
    /\ \A f \in AllFiles : constT0[f][0] = NoName
    /\ instRatio \in RatioValues
    /\ shmInit \in ShmInitValues
    /\ shm = shmInit
    /\ pc = [p \in Procs |-> "scan"]
    /\ fn = [p \in Procs |-> 1]
    /\ bb = [p \in Procs |-> 1]
    /\ filename = [p \in Procs |-> NoFile]
    /\ line = [p \in Procs |-> 0]
    /\ constLine = [p \in Procs |-> 0]
    /\ isBlockEvt = [p \in Procs |-> FALSE]
    /\ isConstEvt = [p \in Procs |-> FALSE]
    /\ evt = [p \in Procs |-> 0]
    /\ constName = [p \in Procs |-> NoName]
    /\ blockT = [p \in Procs |-> blockT0]
    /\ constT = [p \in Procs |-> constT0]
    /\ seenConst = [p \in Procs |-> {}]
    /\ prog = [p \in Procs |-> << <<>> >>]
    /\ events = [p \in Procs |-> <<>>]
    /\ instBlocks = [p \in Procs |-> {}]
    /\ attached = [p \in Procs |-> 0]

-----------------------------------------------------------------------------
(* One iteration of `for (auto &I : BB)`: resolve I's location, and       *)
(* unless it is excluded classify it, consuming a matched block target.   *)
ScanInstr(p) ==
    /\ pc[p] = "scan"
    /\ Len(prog[p][CurBlock(p)]) < NI
    /\ \E dl \in DebugLocs :
         LET r == DebugLoc(dl, filename[p], line[p])
             c == IF Excluded(r) THEN 0 ELSE IsTargetLoc(r, blockT[p], constT[p])
         IN /\ prog' = [prog EXCEPT ![p][CurBlock(p)] = Append(@, r)]
            /\ filename' = [filename EXCEPT ![p] = r.file]
            /\ line' = [line EXCEPT ![p] = r.line]
            /\ blockT' = IF c = 3
                           THEN [blockT EXCEPT ![p] = ConsumeBlockTarget(r, @)]
                           ELSE blockT
            /\ isBlockEvt' = [isBlockEvt EXCEPT ![p] = @ \/ c = 3]
            /\ isConstEvt' = [isConstEvt EXCEPT ![p] = @ \/ c = 4]
            /\ constLine' = IF c = 4 THEN [constLine EXCEPT ![p] = r.line]
                                     ELSE constLine
    /\ UNCHANGED <<blockT0, constT0, instRatio, shmInit, shm, pc, fn, bb, evt,
                   constName, constT, seenConst, events, instBlocks, attached>>

(* End of the instruction loop, no target hit and AFL_R(100) >= inst_ratio: *)
(* the block is skipped.                                                  *)
SkipBlock(p) ==
    /\ pc[p] = "scan"
    /\ Len(prog[p][CurBlock(p)]) > 0
    /\ ~isBlockEvt[p] /\ ~isConstEvt[p]
    /\ \E draw \in Draws : draw >= instRatio
    /\ pc' = [pc EXCEPT ![p] = "block_done"]
    /\ UNCHANGED <<blockT0, constT0, instRatio, shmInit, shm, fn, bb, filename,
                   line, constLine, isBlockEvt, isConstEvt, evt, constName,
                   blockT, constT, seenConst, prog, events, instBlocks, attached>>

(* End of the instruction loop, the block is instrumented: getValues and  *)
(* the edge-coverage code insert IR no property tells apart; a block      *)
(* target then reads the shared counter (evtID = *evtIDPtr).              *)
InstrumentBlock(p) ==
    /\ pc[p] = "scan"
    /\ Len(prog[p][CurBlock(p)]) > 0
    /\ isBlockEvt[p] \/ isConstEvt[p] \/ \E draw \in Draws : draw < instRatio
    /\ instBlocks' = [instBlocks EXCEPT ![p] = @ \cup {CurBlock(p)}]
    /\ IF isBlockEvt[p]
         THEN /\ ShmAttachOK(attached[p])
              /\ attached' = [attached EXCEPT ![p] = @ + 1]
              /\ evt' = [evt EXCEPT ![p] = shm]
              /\ pc' = [pc EXCEPT ![p] = "blk_write"]
         ELSE /\ pc' = [pc EXCEPT ![p] = "const_check"]
              /\ UNCHANGED <<evt, attached>>
    /\ UNCHANGED <<blockT0, constT0, instRatio, shmInit, shm, fn, bb, filename,
                   line, constLine, isBlockEvt, isConstEvt, constName, blockT,
                   constT, seenConst, prog, events>>

(* Insert trigger_block_event(evtID), printBlockLog(filename, line, ...)  *)
(* with the pass's current filename and line, and write the counter back. *)
BlockWrite(p) ==
    /\ pc[p] = "blk_write"
    /\ events' = [events EXCEPT ![p] = Append(@,
                    [kind |-> "block", id |-> evt[p], blk |-> CurBlock(p),
                     file |-> filename[p], line |-> line[p], label |-> NoName])]
    /\ shm' = Incr(evt[p])
    /\ pc' = [pc EXCEPT ![p] = "const_check"]
    /\ UNCHANGED <<blockT0, constT0, instRatio, shmInit, fn, bb, filename, line,
                   constLine, isBlockEvt, isConstEvt, evt, constName, blockT,
                   constT, seenConst, prog, instBlocks, attached>>

(* A const match whose key (filename, const_line) is new: mark it seen,   *)
(* read const_targets[filename][const_line] (operator[] inserts "" when   *)
(* absent) and read the shared counter.                                   *)
ConstNew(p) ==
    LET key == <<filename[p], constLine[p]>>
        name == constT[p][filename[p]][constLine[p]]
    IN /\ pc[p] = "const_check"
       /\ isConstEvt[p]
       /\ key \notin seenConst[p]
       /\ ShmAttachOK(attached[p])
       /\ attached' = [attached EXCEPT ![p] = @ + 1]
       /\ seenConst' = [seenConst EXCEPT ![p] = @ \cup {key}]
       /\ constName' = [constName EXCEPT ![p] = IF name = NoName THEN EmptyName
                                                                 ELSE name]
       /\ constT' = [constT EXCEPT ![p][filename[p]][constLine[p]] =
                        IF name = NoName THEN EmptyName ELSE name]
       /\ evt' = [evt EXCEPT ![p] = shm]
       /\ pc' = [pc EXCEPT ![p] = "const_write"]
       /\ UNCHANGED <<blockT0, constT0, instRatio, shmInit, shm, fn, bb,
                      filename, line, constLine, isBlockEvt, isConstEvt,
                      blockT, prog, events, instBlocks>>

(* No const match in the block, or its key was already instrumented.      *)
ConstSkip(p) ==
    /\ pc[p] = "const_check"
    /\ ~isConstEvt[p] \/ <<filename[p], constLine[p]>> \in seenConst[p]
    /\ pc' = [pc EXCEPT ![p] = "block_done"]
    /\ UNCHANGED <<blockT0, constT0, instRatio, shmInit, shm, fn, bb, filename,
                   line, constLine, isBlockEvt, isConstEvt, evt, constName,
                   blockT, constT, seenConst, prog, events, instBlocks, attached>>

(* Insert trigger_const_event(evtID, name), printConstLog(filename,       *)
(* const_line, ...), and write the counter back.                          *)
ConstWrite(p) ==
    /\ pc[p] = "const_write"
    /\ events' = [events EXCEPT ![p] = Append(@,
                    [kind |-> "const", id |-> evt[p], blk |-> CurBlock(p),
                     file |-> filename[p], line |-> constLine[p],
                     label |-> constName[p]])]
    /\ shm' = Incr(evt[p])
    /\ pc' = [pc EXCEPT ![p] = "block_done"]
    /\ UNCHANGED <<blockT0, constT0, instRatio, shmInit, fn, bb, filename, line,
                   constLine, isBlockEvt, isConstEvt, evt, constName, blockT,
                   constT, seenConst, prog, instBlocks, attached>>

(* Next iteration of `for (auto &BB : F)`: the block flags start false.   *)
NextBlock(p) ==
    /\ pc[p] = "block_done"
    /\ bb[p] < NB
    /\ bb' = [bb EXCEPT ![p] = @ + 1]
    /\ prog' = [prog EXCEPT ![p] = Append(@, <<>>)]
    /\ isBlockEvt' = [isBlockEvt EXCEPT ![p] = FALSE]
    /\ isConstEvt' = [isConstEvt EXCEPT ![p] = FALSE]
    /\ pc' = [pc EXCEPT ![p] = "scan"]
    /\ UNCHANGED <<blockT0, constT0, instRatio, shmInit, shm, fn, filename,
                   line, constLine, evt, constName, blockT, constT, seenConst,
                   events, instBlocks, attached>>

(* Next iteration of `for (auto &F : M)`: filename, line and const_line   *)
(* are locals of the function loop and start afresh.  (The isTargetFunc   *)
(* branch that would end the previous function is unreachable.)           *)
NextFunction(p) ==
    /\ pc[p] = "block_done"
    /\ fn[p] < NF
    /\ fn' = [fn EXCEPT ![p] = @ + 1]
    /\ bb' = [bb EXCEPT ![p] = 1]
    /\ prog' = [prog EXCEPT ![p] = Append(@, <<>>)]
    /\ filename' = [filename EXCEPT ![p] = NoFile]
    /\ line' = [line EXCEPT ![p] = 0]
    /\ constLine' = [constLine EXCEPT ![p] = 0]
    /\ isBlockEvt' = [isBlockEvt EXCEPT ![p] = FALSE]
    /\ isConstEvt' = [isConstEvt EXCEPT ![p] = FALSE]
    /\ pc' = [pc EXCEPT ![p] = "scan"]
    /\ UNCHANGED <<blockT0, constT0, instRatio, shmInit, shm, evt, constName,
                   blockT, constT, seenConst, events, instBlocks, attached>>

(* The function loop ends: runOnModule returns.                           *)
FinishModule(p) ==
    /\ pc[p] = "block_done"
    /\ fn[p] = NF
    /\ pc' = [pc EXCEPT ![p] = "done"]
    /\ UNCHANGED <<blockT0, constT0, instRatio, shmInit, shm, fn, bb, filename,
                   line, constLine, isBlockEvt, isConstEvt, evt, constName,
                   blockT, constT, seenConst, prog, events, instBlocks, attached>>

(* get_ID_ptr fails (shmget cannot create or find the segment, or shmat  *)
(* cannot map it, at the latest once MaxAttach mappings are held): ABORT   *)
(* ends the compiler, leaving the records it wrote in BB2ID.txt and the   *)
(* counter as its completed allocations left it.                          *)
AllocFail(p) ==
    /\ AtAllocation(p)
    /\ pc' = [pc EXCEPT ![p] = "aborted"]
    /\ UNCHANGED <<blockT0, constT0, instRatio, shmInit, shm, fn, bb, filename,
                   line, constLine, isBlockEvt, isConstEvt, evt, constName,
                   blockT, constT, seenConst, prog, events, instBlocks, attached>>

(* Every compiler invocation has returned or aborted; the build stutters. *)
BuildDone ==
    /\ \A p \in Procs : pc[p] \in {"done", "aborted"}
    /\ UNCHANGED vars

Next ==
    \/ \E p \in Procs :
         \/ ScanInstr(p) \/ SkipBlock(p) \/ InstrumentBlock(p)
         \/ BlockWrite(p) \/ ConstNew(p) \/ ConstSkip(p) \/ ConstWrite(p)
         \/ NextBlock(p) \/ NextFunction(p) \/ FinishModule(p)
         \/ AllocFail(p)
    \/ BuildDone

Spec == Init /\ [][Next]_vars

-----------------------------------------------------------------------------
(* Properties.                                                            *)

TypeOK ==
    /\ blockT0 \in [AllFiles -> SUBSET (1..MaxLine)]
    /\ constT0 \in [AllFiles -> [Lines -> Names \cup {NoName}]]
    /\ instRatio \in RatioValues
    /\ shmInit \in Ids /\ shm \in Ids
    /\ pc \in [Procs -> PC]
    /\ fn \in [Procs -> 1..NF] /\ bb \in [Procs -> 1..NB]
    /\ filename \in [Procs -> AllFiles] /\ line \in [Procs -> Lines]
    /\ constLine \in [Procs -> Lines]
    /\ isBlockEvt \in [Procs -> BOOLEAN] /\ isConstEvt \in [Procs -> BOOLEAN]
    /\ evt \in [Procs -> Ids] /\ constName \in [Procs -> ConstEntry]
    /\ blockT \in [Procs -> [AllFiles -> SUBSET (1..MaxLine)]]
    /\ constT \in [Procs -> [AllFiles -> [Lines -> ConstEntry]]]
    /\ seenConst \in [Procs -> SUBSET (AllFiles \X Lines)]
    /\ prog \in [Procs -> Seq(Seq(Loc)) \ {<<>>}]
    /\ events \in [Procs -> Seq(Event)]
    /\ instBlocks \in [Procs -> SUBSET Nat]
    /\ attached \in [Procs -> 0..MaxAttach]

(* Locations the loaded specification names as block targets.             *)
BlockTargetLocs == {r \in Loc : r.line \in blockT0[r.file]}

(* Instruction i of scanned block b of pass p is the first instruction of  *)
(* the whole traversal that resolved to its location.                     *)
FirstOccurrence(p, b, i) ==
    ~\E b2 \in 1..b : \E i2 \in 1..Len(prog[p][b2]) :
        /\ b2 < b \/ i2 < i
        /\ prog[p][b2][i2] = prog[p][b][i]

(* Blocks whose instruction loop and probes are complete.                 *)
FinishedBlocks(p) ==
    IF pc[p] \in {"block_done", "done"} THEN 1..Len(prog[p])
                                        ELSE 1..(Len(prog[p]) - 1)

(* Exactly-once consumption of block targets (is_target_loc's erase and   *)
(* the isTargetBlockEvent branch of runOnModule): a finished block carries *)
(* a trigger_block_event call iff one of its instructions is the first of *)
(* the traversal to resolve to a loaded block target -- resolution         *)
(* including the stale filename/line a location-less instruction inherits. *)
BlockProbesExact ==
    \A p \in Procs : \A b \in FinishedBlocks(p) :
        (\E e \in Range(events[p]) : e.kind = "block" /\ e.blk = b)
        <=> \E i \in 1..Len(prog[p][b]) :
                /\ prog[p][b][i] \in BlockTargetLocs
                /\ FirstOccurrence(p, b, i)

(* Single writer: the IDs one pass allocates (get_ID_ptr, *evtIDPtr =     *)
(* ++evtID) start at the value the segment held and each is the previous *)
(* plus one modulo 2^IdBits; between two allocations the segment holds   *)
(* the next one, and while a probe is being written the local evtID it    *)
(* read still equals the segment.                                         *)
NextId(p) ==
    IF events[p] = <<>> THEN shmInit
    ELSE (events[p][Len(events[p])].id + 1) % IdSpace

EventIdsFromCounter ==
    \A p \in Procs :
        /\ events[p] # <<>> => events[p][1].id = shmInit
        /\ \A i \in 1..(Len(events[p]) - 1) :
               events[p][i + 1].id = (events[p][i].id + 1) % IdSpace
        /\ shm = NextId(p)
        /\ pc[p] \in {"blk_write", "const_write"} => evt[p] = shm

(* Spec section 3: every event ID of a build is unique (absent            *)
(* wraparound), across all compiler invocations that share the segment.   *)
EventIdsUnique ==
    \A p, q \in Procs : \A i \in 1..Len(events[p]) : \A j \in 1..Len(events[q]) :
        <<p, i>> # <<q, j>> => events[p][i].id # events[q][j].id

(* Spec section 3/8: the BB2ID.txt record of a block probe names the      *)
(* target that caused it: a loaded block target lying in that block.      *)
BlockRecordsNameTargets ==
    \A p \in Procs : \A e \in Range(events[p]) :
        e.kind = "block" =>
            /\ [file |-> e.file, line |-> e.line] \in BlockTargetLocs
            /\ [file |-> e.file, line |-> e.line] \in Range(prog[p][e.blk])

(* Spec section 3/8: a const probe is emitted at most once per loaded     *)
(* const target (file, line) and records that target's name.              *)
ConstRecordsFaithful ==
    \A p \in Procs : \A i, j \in 1..Len(events[p]) :
        LET e == events[p][i] IN
        e.kind = "const" =>
            /\ e.label = constT0[e.file][e.line]
            /\ (events[p][j].kind = "const" /\ i # j) =>
                   <<events[p][j].file, events[p][j].line>> # <<e.file, e.line>>

(* Spec section 4.3/8: a loaded const target that some instruction of the *)
(* module resolves to gets its trigger_const_event once the pass is done. *)
ConstTargetsInstrumented ==
    \A p \in Procs : pc[p] = "done" =>
        \A b \in 1..Len(prog[p]) : \A r \in Range(prog[p][b]) :
            (~Excluded(r) /\ constT0[r.file][r.line] # NoName) =>
                \E e \in Range(events[p]) :
                    e.kind = "const" /\ e.file = r.file /\ e.line = r.line


(* The IDs of the records one pass has written, in allocation order.      *)
IssuedIds(p) == [i \in 1..Len(events[p]) |-> events[p][i].id]

(* The compiler invocation whose allocations the refinement follows.      *)
Writer == CHOOSE p \in Procs : TRUE

Counter == INSTANCE EventCounter
               WITH ctr <- shm, issued <- IssuedIds(Writer),
                    Starts <- ShmInitValues

(* Spec sections 3/4.4: with a single compiler invocation, get_ID_ptr's   *)
(* read of the segment and the later *evtIDPtr = ++evtID together behave  *)
(* as one atomic fetch-and-increment: the pass implements EventCounter.   *)
CounterRefinement == Counter!Spec

=============================================================================
