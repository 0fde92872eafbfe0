# Formal models of abstraktor

These modules model the target-driven instrumentation pass
`src/llvm/src/afl-llvm-pass.so.cc` (the `AFLCoverage` LLVM module pass) and
the test target `src/tests/simple_fsm/main.c`. TLC checks them on small
instances, and TLAPS proves their main invariants for every value of the
constants.

## The system

There is one pass instance per compiler invocation. It runs over one LLVM
module, single-threaded: first the targets are loaded, then functions,
blocks and instructions are traversed (`runOnModule`, lines 434-720).

| Part | Code | What it does |
|---|---|---|
| TargetSpecLoader | `load_instr_targets`, 153-200 | Reads the JSON file named by `$TARGETS_FILE` into `block_targets` (file → set of lines) and `const_targets` (file → line → name). |
| LocationResolver | `get_debug_loc`, 260-304 | Maps an instruction's `DILocation` to (real path, line). Without a location it leaves its output arguments untouched. |
| LocationMatcher | `is_target_loc`, 205-255 | Classifies a location. Block targets come first and are erased when matched; const targets are never erased. |
| EventIDAllocator | `get_ID_ptr`, 309-337, and `*evtIDPtr = ++evtID` | A `u16` counter in a System V shared-memory segment. Every compiler process of the build shares it, and it outlives them. |
| InstrumentationEmitter | `runOnModule` | Accumulates per block the flags `isTargetBlockEvent` / `isTargetConstEvent` and the last `const_line`. It then decides whether to instrument the block and emits the block and const probes. A probe reads the counter, logs a record and writes back id+1. |
| CompilationLog | `printBlockLog` / `printConstLog`, 355-377 | One `BB2ID.txt` line per probe. |
| ArgumentProjector | `getValues`, `getArgument`, 122-148, 379-429 | GEP/load chains over the argument named `r`, along `vec_selected_fields`. |
| SymbolDemangler | `check_code_language`, 339-350, 664-716 | Demangling for function probes. It is dead code, as described below. |
| Test server | `src/tests/simple_fsm/main.c` | A one-connection-at-a-time HTTP server over a five-state rotation. |

The compiler processes interact only through the shared counter. The test
server interacts with its clients through sockets.

## Modules

| Module | Models | Theorems in |
|---|---|---|
| `AFLCoverage` | the traversal, the probes, the allocator and the log of N concurrent compiler invocations | `AFLCoverageProofs`, `BlockProbesProofs` |
| `EventCounter` | the allocator's promise: an atomic fetch-and-increment | (abstract spec) |
| `TargetsLoader` | `load_instr_targets` over abstract JSON documents | `TargetsLoaderProofs` |
| `ArgumentProjector` | `getArgument`, `changeStructPointersToStructTypes` and the loop of `getValues` | `ArgumentProjectorProofs` |
| `FsmServer` | `main`, `handle_conn`, `fsm_next`, `send_response` / `send_405` and `handle_signal` | `FsmServerProofs` |

Each `MC_*` module gives TLC the constants that cannot be written in a .cfg.

### `AFLCoverage`

Every instruction that `ScanInstr` scans picks its debug location from
`{NoLoc} ∪ (Files ∪ {SysFile}) × Lines`. TLC therefore explores every module
of up to `NF` functions, `NB` blocks and `NI` instructions per block.

| Variable | Code |
|---|---|
| `blockT0`, `constT0` | what the loader produced, chosen in `Init` from all well-formed target files |
| `blockT[p]`, `constT[p]` | the process's `block_targets` / `const_targets` (consumption erases lines; `operator[]` can insert `""`) |
| `filename`, `line`, `constLine`, `isBlockEvt`, `isConstEvt` | the locals of the function and block loops |
| `seenConst[p]` | `instrumented_const_targets` |
| `shm`, `evt[p]` | the shared counter, and the local `evtID` held between read and write-back |
| `attached[p]` | the mappings of the segment the process holds; `shmat` runs on every allocation and nothing detaches |
| `events[p]` | the process's `BB2ID.txt` records |
| `prog[p]`, `instBlocks[p]` | history for the properties: the resolved locations, and the blocks that were instrumented |
| `pc[p]` | the position in the loop body, `"done"` or `"aborted"` |

| Action | Code |
|---|---|
| `ScanInstr` | one iteration of the instruction loop (532-557) |
| `SkipBlock` / `InstrumentBlock` | the decision at 560; `InstrumentBlock` includes the counter read |
| `BlockWrite` | the rest of the block probe (581-596) |
| `ConstNew` / `ConstSkip` / `ConstWrite` | the const probe (598-625), split at the read in the same way |
| `NextBlock` / `NextFunction` / `FinishModule` | loop control |
| `AllocFail` | `get_ID_ptr` fails and `ABORT`s (`AtAllocation`, `ShmAttachOK`, 309-336) |

What is abstracted:
- A file is a model value. `SysFile` stands for every path under `/usr/`.
- `AFL_R(100)` is reduced to its extremes, 0 and 99.
- `inst_ratio` is uninitialised unless `USE_TRADITIONAL_BRANCH` is set, so it may be any of {0, 50, 100}.
- The emitted IR is left out.

`Counter == INSTANCE EventCounter WITH ctr <- shm, issued <- IssuedIds(Writer)`
is the refinement mapping: the abstract counter is the segment, and the
issued IDs are the IDs of the writer's records.

### `TargetsLoader`

A JSON document is abstracted to what the loader tells apart:
- `Unset`, `Unopenable`, `Invalid` or `NotArray`;
- or a sequence of entries. An entry is `NotObject` or a record of:
  - its `path`: a file, `Absent` or `NonString`;
  - its `targets_block`: the set of values it lists, line numbers and `NonNumber`;
  - its `targets_const`: `Absent`, `NotObject`, or its members in
    `std::map` key order (`KeyRank`).

`Stoul` gives the line each key parses to, or `Throws`. Every exception that
escapes the pass leads to `"crashed"`.

The actions follow the code. `Open` covers getenv, open, parse and
`is_array` (153-173). `Entry` is one iteration of the entry loop (175-191),
with its skip test, the `target["path"]` conversion and the block numbers.
`ConstPair` is one member of `targets_const` (192-197). `Finish` returns at
the end of the loop.

`target["targets_const"]` on a const json without that member is undefined
behaviour: it is a crash or an empty object. Both are choices of `Entry`.

### `ArgumentProjector`

A value is abstracted to its LLVM type. A type is a model value whose
`Kind`, `Pointee` and `FieldTypes` are constants. The build has typed
pointers, so an ill-typed GEP asserts or crashes.

The actions are as follows:
- `Resolve` covers `getArgument` and `changeStructPointersToStructTypes`.
  `getArgument` takes `default_indices[idx]`, where idx is the argument's
  *position*. A position past the end reads garbage (`GarbagePaths`) or faults
  (`ResolveCrash`).
- `Project` is one GEP + load + push. The load's type becomes the next
  `target_type`.
- `Return` returns `res`.

`SpecChain` (a recursive function) is the spec's projection: pointer to
aggregate, field, load, next. `ProjectionCompletes` uses it.

### `FsmServer`

The sockets are abstracted to what the server's control flow depends on:
- the listen backlog is a queue of connections;
- `read()` blocks until the client has written its request (`Sent`) or has
  closed; it then returns the whole request line, a prefix that is too short
  for `sscanf`, or one that cuts the path, and on a closed connection it
  returns EOF;
- a write to a client that has gone may raise SIGPIPE, which kills the process
  because there is no handler;
- when the process ends, the kernel resets every connection that is still
  queued or open;
- glibc's `signal()` sets `SA_RESTART`, so a signal does not interrupt a
  blocked `accept()`.

Clients connect (`Connect`), write their one request on that connection
(`Send`) or stay silent, may close at any time (`GiveUp`), and reconnect up to `MaxConns` times. The server actions are
`Setup` (socket to listen; 100-135), `LoopCheck` (137), `Accept` (138-146),
`Handle` (`handle_conn` up to its write, `Route` and `FsmNext`; 37-97) and
`Respond` (the write and `close(cfd)`; 42-62, 147). `Route` follows the
code's nesting, with the path tested first and then the method. Its CASE arms
are therefore disjoint, so its value is determined and not just the arm TLC
happens to try first. `Signal` is
`handle_signal` (14-19).

## Runs

| Run | Module / cfg | Result | Shows |
|---|---|---|---|
| core | `MC_AFLCoverage` / `core.cfg` | pass, 2.6M states | `TypeOK`; `BlockProbesExact`, where a finished block has a block probe iff one of its instructions is the first occurrence in the module of a loaded block target (exactly-once consumption, spec §8); `EventIdsFromCounter`, where with one writer the k-th ID is `(shmInit + k - 1) mod 2^IdBits`. (That one invocation implements `EventCounter!Spec` is proved, as `SingleWriterRefines`, rather than model-checked.) |
| functions | `functions.cfg` | pass, 3.0M states | `BlockProbesExact` across two functions: a target consumed in one function is not probed again after the locals are reset. |
| parallel_ids | `v_EventIdsUnique.cfg` | violation | Two processes read the counter before either writes it back, and both emit the same ID (the race spec §5 admits). |
| block_log | `v_BlockRecordsNameTargets.cfg` | violation | `printBlockLog` logs the block's *last* resolved location, not the target it matched. |
| const_dedup | `v_ConstRecordsFaithful.cfg` | violation | The const key uses the last instruction's file. `const_targets[filename][const_line]` then inserts `""`, and the record carries an empty name. |
| const_lost | `v_ConstTargetsInstrumented.cfg` | violation | A const line that is also a block target classifies as a block target only, and is never const-probed. |
| loader | `MC_TargetsLoader` / `loader.cfg` | pass, 461k states | `LoadedAsSpecified`: when the loader returns, it holds exactly the block numbers of the well-formed entries and, per (file, line), the name of the last member naming it. The keys "1" and "1x" both name line 1, so overwriting is exercised. |
| loader_fatal | `v_LoadingNeverFatal.cfg` | violation | An unparsable file, a non-string path, a bad `stoul` key or a non-string name throws out of the pass (spec §4.1/§7 say the entry is skipped). |
| projector | `MC_ArgumentProjector` / `projector.cfg` | pass, 192 states | `ProjTypeOK`: for every position and type of `r` and every field path, `target_type`, the loaded values and the path stay well typed, so every load yields a type of the module. |
| projector_chain | `v_ProjectionCompletes.cfg` | violation | The default path {0,1} from an `r` of type `S1*` fails at the second GEP, whose source element type is the loaded pointer's own type. |
| projector_position | `v_ProjectionByName.cfg` | violation | An `r` that is not the first argument reads `default_indices` past its end (line 421). |
| server | `MC_FsmServer` / `server.cfg` | pass, 604k states | `WaitingHeld`: a client waits only while its current connection is queued in the backlog or being served. This is what `RequestsSettled` rests on, and it is broken by a `main` that forgets `close(cfd)`. Also `RequestsSettled` and `ShutdownUnlessBlocked`, described below. |

Bounds, and why they are enough:
- `core` and `functions`:
  - two instructions per block give a target followed by a stale or `/usr/` location;
  - two blocks give a second occurrence of a consumed target;
  - two functions give a reset of the locals;
  - `IdBits = 2` with every initial value gives the wrap-around;
  - two processes give the lost update.
- `loader`:
  - two entries give one file named twice;
  - two members per object, with keys that collide on one line, give an overwrite within an object and across objects.
- `projector`:
  - `r` takes every position 0..3 and every type of a six-type universe;
  - the universe has a struct whose field is a pointer to a struct, so a chain of two projections.
- `server`:
  - two clients with three connections each and a backlog of one (a backlog
    of two takes over seven minutes and shows nothing a full queue of one
    does not);
  - this gives a full queue, a client silent while served and one queued
    behind it, a client that gives up while queued or while served, a reconnect, and the wrap of `fsm_next` after five POSTs.

### Fairness and liveness

The pass and the loader are terminating loops with safety properties only.
No fairness is assumed for them, and deadlock is checked. When everything
has finished, the specification stutters (`BuildDone`, `Stop`, `Halt`).

`FsmServer` assumes weak fairness of the server's own steps: `Setup`,
`LoopCheck`, `Accept`, `Handle` and `Respond`. The process runs whenever
it can; a blocked `accept()` or `read()` is a disabled step, not a lack of
fairness. Clients get no fairness in the specification: they may never
connect, and a client may connect and never write. The last matters:
`read()` (66) has no timeout, and `SA_RESTART` restarts it after a signal,
so a connected client that stays silent holds the one-at-a-time server
forever, and every client queued behind it waits with it. TLC finds the
unconditional `waiting[c] ~> ~waiting[c]` violated in exactly this way.
The two liveness properties are therefore stated under the hypothesis
`ClientsSend` (weak fairness of each client's `Send`): they say what the
server guarantees to clients that do write. `Signal` gets no
fairness either, because the signal may never come. `Quiet` is the stutter
of a server that has stopped, or that is blocked in `accept()` after every
client is done.
- `RequestsSettled` (`ClientsSend => (waiting[c] ~> ~waiting[c])`): every request a client
  waits on ends in a reply, an EOF or a reset. It rests on every accepted
  `cfd` being closed and on the kernel resetting the backlog.
- `ShutdownUnlessBlocked`: after the signal the server ends, unless it is
  blocked in `accept()` on an empty queue. The unrestricted
  `~keepRunning ~> stopped` is violated: with `SA_RESTART` the restarted
  `accept()` waits for one more client before the loop tests
  `keep_running`. Both properties are liveness, so they are model-checked only.

## Proofs

| Module | Theorem | Statement and argument |
|---|---|---|
| `AFLCoverageProofs` | `TypeCorrect` | `Spec => []TypeOK` under `ConstantsAssumption`. `TypeOK` is inductive by itself. The proof has one step per action. |
| `AFLCoverageProofs` | `SingleWriterIds` | With one process, `Spec => []EventIdsFromCounter`. The invariant `TypeOK /\ CounterOf(q)` adds that the records form a `Chain` from `shmInit`, that `shm` is the next ID owed (`NextOf`), and that during a write phase `evt = shm`; the last is what makes the write-back correct. |
| `AFLCoverageProofs` | `SingleWriterRefines` | With one process, `Spec => CounterRefinement`. `Init` maps to `EventCounter!Init`. A write-back is an `Allocate` step (lemma `IssuedAppend`). Every other step leaves `shm` and the issued IDs unchanged. |
| `TargetsLoaderProofs` | `LoaderTypeCorrect` | `LoaderSpec => []LoaderTypeOK`, for every set of files, keys and names and every `Stoul`. The invariant `LoaderInv` adds that the loop positions point into an array document and into the current `targets_const`. |
| `TargetsLoaderProofs` | `LoaderCorrect` | `LoaderSpec => []LoadedAsSpecified`, for documents of any length. |
| `ArgumentProjectorProofs` | `ProjectorTypeCorrect` | `ProjectorSpec => []ProjTypeOK`, for every type structure `ProjectorAssumption` allows. The invariant `PInv` adds that in the loop the field index is at least 1, so a `Project` step indexes the path inside its bounds and the load it pushes is a type. |
| `FsmServerProofs` | `ServerTypeCorrect` | `ServerSpec => []ServerTypeOK`, for any number of clients, connections and backlog size. |
| `FsmServerProofs` | `ServerWaitingHeld` | `ServerSpec => []WaitingHeld`. See the argument below. |
| `BlockProbesProofs` | `BlockProbesCorrect` | `Spec => []BlockProbesExact`, for every number of processes, files, lines, functions and blocks. See the argument below. |

The `BlockProbesCorrect` argument works as follows:
- `BlockProbesExact` speaks only of finished blocks and of first occurrences
  over the whole traversal. It says nothing of the state the pass carries
  between instructions, so it is not inductive. The invariant `BInv` is
  `TypeOK`, the `Init` fact that `SysFile` and `NoFile` have no block targets,
  and, for each pass, `ProbeData` and `ProbeStage`:
  - `block_targets` is the loaded set less every location scanned so far
    (`SeenIn`), since `is_target_loc` erases a target when it first matches;
  - `isTargetBlockEvent` holds iff the current block has an instruction that
    is the first occurrence (`FirstIn`) of a block target;
  - every earlier block has a block record iff it has such an instruction,
    and every record names a block scanned so far;
  - the current block has no block record while the pass scans or is about
    to write, and has one iff `isTargetBlockEvent` from the const check on.
- TLC checked `BInv` as an invariant of the core, functions and two-process
  configurations before it was proved.
- `ScanInstr` appends a location `r` to the last block (lemma `AppendInstr`).
  `is_target_loc` returns 3 exactly when `r` is a target not seen before,
  because excluded locations are never targets; that is when `r` is a new
  first occurrence.
- `BlockWrite` appends the current block's record (lemma `RangeAppend`);
  `ConstWrite` appends a const record, which is no block record.
- `NextBlock` and `NextFunction` append an empty block (lemma `AppendBlock`).
  The finished block moves from `ProbeStage` into `ProbeData`, and the new
  block has neither a target nor a record.
- The other steps change only `pc` or another pass's state
  (lemmas `DataFrame`, `PassLocal` and `OtherProbe`).

The `LoaderCorrect` argument works as follows:
- `LoadedAsSpecified` speaks only of the final state, so it is not inductive.
  The strengthening `LoadInv` describes every intermediate state:
  - `Processed` is the set of entries the loop has passed;
  - `blockTargets[f]` is the union of the block numbers of the loaded
    entries of `f` in `Processed`;
  - `SoFar(f, l)` is the set of writes `<<entry, member>>` to line `l` of
    `f` that the loop has done, and `constTargets[f][l]` is the name
    `NameOf(SoFar(f, l))` of the last of them;
  - at `"done"`, the loop has passed every entry.
- `ConstPair` adds a write that is lexicographically after every write in
  `SoFar`, so by lemma `LastWriteAdd` it becomes the last.
- `Entry` adds an entry to `Processed` and no write.
- At the end, `SoFar` is every write and `Processed` covers every loaded
  entry (`LInvSpecified`).

The proof needs two assumptions (`ShapeAssumption`), which TLC also checks:
`Absent` and `NonString` are not files, and `NotObject` and `Absent` are not
objects.

The `ServerWaitingHeld` argument works as follows:
- `WaitingHeld` alone is not inductive. The invariant `SInv` adds three
  facts:
  - in `"setup"`, the backlog is empty, because a `Connect` before `listen()`
    is refused;
  - a reply with status `"none"` is exactly `NoReply`. `Respond` tests a
    missing reply as `pending = NoReply`, so this makes every missing reply
    close the connection with an EOF;
  - while the server is in `"handle"` or `"reply"`, `cur` is a connection.
- `Accept` moves the head of the backlog to `cur`, so the hold moves from the
  queue to the server (`HeadTailProperties`).
- `Respond` closes `cur` and ends its client's wait. When the write to a
  client that has gone raises SIGPIPE, the kernel's reset (`ResetAll`) ends
  every wait.
- `Connect` makes a client wait on its new connection `conns[c] + 1`, which
  `Connect` appends to the backlog.
- `Send` only marks the request written; `Handle` reads it (or an EOF)
  from the same connection, and every missing reply still closes it.
- `GiveUp` ends the wait.

Only model-checked:
- `ProjectionCompletes` and `ProjectionByName`. These are the violation runs
  of `ArgumentProjector`, and `ProjectionCompletes` is stated with the
  recursive `SpecChain`. What a recursive function computes for every path
  is induction over data, which the provers cannot do.
- `RequestsSettled` and `ShutdownUnlessBlocked` (liveness, as below).
- Every liveness property, since TLAPS does not handle `ENABLED` and fairness
  here.
- Every violation run.

## Not modelled

- **SymbolDemangler** (`check_code_language`, and the function probe at
  664-716). It is only reachable through `is_target_loc` returning 2 from
  `func_targets`, which nothing fills; `bb_targets` is never filled either.
  Its dispatch `find(".rs") != npos` matches `.rs` anywhere in the path, not
  only as a suffix. A path such as `a.rs/x.c` would be demangled as Rust.
  This cannot happen while the code is dead.
- **Repeated `shmat`** (line 324). `attached` counts the mappings, and
  `AllocFail` aborts when `shmat` fails. No run checks the attach-once rule of
  spec §4.4, for two reasons: any module with two probes breaks it, and the
  failure needs as many probes in one module as the kernel allows mappings.
- **Legacy edge coverage** (`USE_TRADITIONAL_BRANCH`). It only emits IR. Its
  effect on which blocks are instrumented (`inst_ratio`) is modelled.
- **The composition of `getValues` into `AFLCoverage`.** `getValues` changes
  no pass state, so `ArgumentProjector` checks it alone, once per block.
- **File I/O of the log** (`BB2ID.txt`, `mipass.log`, the open fallbacks),
  `realpath`, and the type dump `getArgumentTypeDebug`. These are pure I/O
  or formatting.
- **The raft declarations in `types.h`**. They are struct declarations with
  no logic.
