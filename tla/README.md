# A TLA+ verification project for the CV32E40P core

This directory holds TLA+ models of this repository, the TLC configurations that
model-check them on small instances, and proofs that TLAPS checks for every
instance. The repository has two halves:

- the CV32E40P RISC-V core, SystemVerilog under `src/rtl/`: a single-clock,
  in-order, four-stage pipeline (IF, ID, EX, WB). Its algorithms are small; what is
  hard about it is *timing*: every interface is a handshake that the other side may
  delay for as long as it likes, and branches, interrupts, debug requests and
  hardware loops cut across those handshakes in any cycle;
- the Python around it: ten *packets* under `src/athanor_artifacts/`, each of which
  claims an optimisation of a module and carries scripts that replay the evidence,
  the checks that let a packet onto master, and the tool that vendors third-party
  code. What is hard about it is *partial failure and staleness*: a tool that dies
  half-way, a lock file that has moved, a list that no longer covers what it lists.

In the models of the core one TLA+ step is one rising clock edge. Registers keep the
source's names, combinational signals are operators of the inputs of the cycle, and
the next-state relation is split into actions by what happens in the cycle (a
branch, a loop jump, ...). In `Vendor` a step is one statement or external command of
the tool, or one thing its user does; in `PacketGate` an edit of the author, a step of
a job or a merge; in `VcdToggles` one line of a dump.

## 1. Inventory

| Component (source) | State it keeps | Operations | Talks to | What is hard | What makes it correct |
|---|---|---|---|---|---|
| Prefetch buffer: `prefetch_buffer`, `prefetch_controller`, `fifo`, `obi_interface` (instruction side) | controller FSM, count of outstanding transactions, two flush counters, last address; FIFO memory and pointers; OBI holding register | fetch ahead, branch, hardware-loop jump, hand over a word | IF stage (ready/valid), instruction memory (OBI) | speculative requests in flight when the fetch is redirected; a loop jump takes effect one word later than a branch; grants and answers at any time | the words handed over are the instruction stream; no overflow; counters equal the bus; progress |
| Aligner: `aligner`, IF/ID register of `if_stage` | offset FSM, upper half word, PC, saved loop target | cut 16/32-bit instructions out of words | prefetch buffer, controller | redirects to odd half words, a word held back while its first half is used | the PCs and instructions given to ID are the program's |
| Controller: `controller` | main FSM (16 states), debug FSM, `jump_done_q`, sticky debug request, loop pulse register | decode, branch, trap, interrupt, debug, sleep, hardware loop | every stage | priorities of simultaneous events, an event while an instruction is half done | one flow of control: nothing executed twice or skipped, debug and interrupts taken once |
| Hardware loops: `hwloop_regs`, loop part of `controller` | start, end, counter of two loops | set up, decrement at the end of an iteration | prefetch buffer, aligner | decrement and jump are in different cycles; traps in between | the body runs exactly count times |
| Load-store unit: `load_store_unit`, `obi_interface` (data side) | count of outstanding transactions; type, offset, sign, write of the last one; first part of a misaligned load | issue, split a misaligned access, answer | EX and WB stages, data memory (OBI) | EX and WB in different transactions; stall of EX must not issue twice | every access is issued once and each load gets its own bytes |
| EX stage: `ex_stage`, `alu`, `alu_div`, `mult` | EX/WB register, memorised APU result; divider and `mulh` FSMs | compute, write back, stall | ID, LSU, APU dispatcher, register file | two writers of one register-file port | no result is lost or written to the wrong register |
| APU dispatcher: `apu_disp` | in-flight and waiting slots (address, latency) | issue, return | ID, EX, FPU (`fp_wrapper`) | results of different latency, full pipeline, dependencies | results return in order to the register that was named; no overflow |
| Sleep unit: `sleep_unit` | `core_busy_q`, `p_elw_busy_q`, `fetch_enable_q` (on the ungated clock) | gate the clock | controller, busy flags, top level | a wake-up in the very cycle in which the clock is gated | never asleep while something is outstanding, always woken by an event |
| Interrupt controller: `int_controller` | registered `irq_i` and enable | pick the pending interrupt | controller, CSRs, sleep unit | a level that goes away between wake-up and acknowledge | highest priority first, none without enable |
| CSRs: `cs_registers` | mstatus, mepc, mcause, mtvec, mie, dcsr, dpc, triggers, counters | read/write/set/clear, trap save, return restore | controller, ID, EX | a trap and a CSR write in the same cycle | a return restores what the trap saved |
| Decoder: `decoder`, `compressed_decoder` | none | instruction word to control signals | ID stage | size only | covers the encodings |
| ID stage: `id_stage`, `register_file_*` | ID/EX register, registers | forward, stall, misaligned second access | all | load-use, jalr, APU and write-back hazards | an instruction sees the latest values of its operands |
| Core wrapper: `core`, `top`, clock gate, FPU wrapper | none of its own | connect | - | - | - |
| Vendored: `rtl/vendor` (fpnew, common cells) | - | floating point | APU port | third-party | - |
| Simulation only: `bhv`, `sva`, `example_tb` | - | tracing, assertions, test bench | - | - | - |
| Vendoring tool: `util/vendor.py` | the imported directories, the patch files, the lock file; what git has staged and committed | load, check, clone, remove, copy and patch item by item, write the lock, commit | git, the user between runs | nothing is undone when a step fails; the branch moves; untracked files | what ends well is the locked import; nothing is updated unasked |
| Packet replays: `athanor_artifacts/*/replay_*.py`, `replay_parent_equiv.sh`, `replay_rf_grid.sh` | none | accept or refuse the evidence of a packet | Yosys, Icarus (processes that may fail), the gate | a tool that dies is neither a proof nor a counterexample | a script that ends well bears out the packet's claim |
| Toggle counting: `*/activity/replay_toggle.py` (`count_vcd`, `parse_vcd`) | scopes, identifiers, last value and count of each net | read a value change dump line by line | Icarus | aliases, digits left out, unknown values | the count is what the nets did |
| Packet gate and receipts: `tools/check_packet_toolchain_lock.py`, `tools/replay_changed_packets.sh`, `athanor/verify_public_receipts.py`, `.github/workflows` | the packets and the lock on master and on a branch; the jobs' progress | check manifests, replay what changed, verify receipts, merge | replay scripts, authors | the lock moves under packets nobody touched; one packet of several fails | everything on master was replayed under the lock that is there |
| Converters: `ci/*.py`, `docs/source/conf.py`, `util/git-diff.py` | none | rewrite one text as another | - | - | - |

## 2. Modules

```
 FetchQueue  <== Fifo               (refinement)      FifoProofs
     |
 PrefetchBuffer ==> InstrStream     (refinement)      PrefetchBufferProofs
     .
     . (the fetch stage of the one is the environment of the other: GapAfterBranch, GapAfterLoop)
     .
 HwLoop ==> HwLoopSpec              (refinement)       MCHwLoop <-- HwLoopProofs
 Controller ==> TrapSpec            (refinement)      ControllerProofs, MCController
 LoadStoreUnit <-- ApuDispatcher <-- Pipeline       MCPipeline, PipelineProofs
                                    (EXTENDS: ID/EX/WB around
                                     LSU and FPU port)

 Vendor                                                MCVendor, VendorProofs
 PacketChecks <-- PacketGate                           MCPacketGate, PacketGateProofs
 VcdToggles                                            MCVcdToggles, VcdTogglesProofs
```

`==>` reads "implements", `<--` "is extended by". In the models of the core one TLA+
step is one clock edge, so a property of the form "in the same cycle" is a property
of one step.

### Fifo and FetchQueue

`Fifo` is `cv32e40p_fifo.sv` with `FALL_THROUGH = 0`, the only way the prefetch buffer
uses it: `read_pointer_q`, `write_pointer_q`, `status_cnt_q` and the memory. `FetchQueue`
is the queue it promises. The pointer registers have `ADDR_DEPTH` bits (`PtrRange`). The
FIFO is a queue only for a depth that is a power of two, where the pointers wrap by
overflow: `fifo.sv:127` sets the write pointer behind the word that is kept without the
wrap that pushes and pops have. The core only uses depth 2. `PrefetchBuffer` builds on
`FetchQueue`, not on the pointers.

### PrefetchBuffer and InstrStream

| Code | Model |
|---|---|
| `prefetch_controller.sv` FSM, `trans_addr_q` | `NextState`, `NextTransAddr`, `trans_addr` |
| counter and request rule (both settings of `PULP_OBI`) | `NextCnt`, `trans_valid` |
| `flush_cnt_q`, `hwlp_flush_after_resp`, `hwlp_flush_cnt_delayed_q` | `NextFlushCnt`, `NextDelayedFlush` |
| `fifo.sv` | `NextFifo` on `FetchQueue` |
| `obi_interface.sv`, `TRANS_STABLE = 0` | `NextObi`; its holding register is `obi_addr_q` |
| OBI memory (external) | `mem`: granted addresses, answered in order, at the earliest one cycle after the grant |
| IF/ID stage (environment) | `Advance`, `Branch`, `LoopJump` |

The memory's word at address `a` *is* `a`, so a word that is handed over shows
where it was fetched. `InstrStream` knows two addresses, the next word and the
one behind it, because a loop jump redirects the stream behind the next word.
The refinement mapping is `Upcoming`: the FIFO, the responses under way that
will be used, and what the controller will request next.

A loop jump is only allowed after `loop_gap` words: two behind a branch, three
behind another loop jump. The controller guarantees it, because the jump is
raised only in `DECODE_HWLOOP` for the last but one instruction of a body of at
least three; `HwLoop` checks its side (`JumpsBehindLast`): when a jump is raised
IF holds the last instruction of the body, and no other jump is pending.

### LoadStoreUnit, ApuDispatcher and Pipeline

`LoadStoreUnit` holds the registers of `load_store_unit.sv` (`cnt_q`, the
control registers of the access in WB, `rdata_q`) and the bus. `ApuDispatcher`
adds the slots of `apu_disp.sv`, its latency register and the memorised result of
`ex_stage.sv`; the FPU behind it is external (`answers`, `FpuStep`): it accepts
every request, and answers after one cycle or when it likes, in order (no assumption:
`SlotsMatchUnit` shows that it never holds more than one operation). `Pipeline`
extends both with the ID/EX register, the EX/WB register, the register file with
both write ports and the forwarding and stall rules of `controller.sv` and
`id_stage.sv`. The actions are the four things that can happen to ID/EX in a
cycle: an instruction enters (`Issue`), the second half of a misaligned access
enters (`SecondPart`), a bubble enters (`Bubble`), EX waits (`Hold`). The
divider and `mulh` are an instruction that is `slow` until a nondeterministic
input says otherwise; of `mulh` the idle, busy and finished phases are told apart,
because the FPU's priority depends on them. `alu_port` and `lsu_port` are the two
write-port multiplexers, and everything that writes, forwards or stalls for `jalr`
looks at them. A `jalr` in ID is an input (`jalr`): its target is read in any cycle
in which `jr_stall` does not hold it, long before it enters EX.

The byte at address `a` *is* `a`; a loaded value is the list of the bytes it was
put together from and how it was extended. Extension itself (the multiplexers of
`load_store_unit.sv`) is therefore modelled as a tag. `arch` is a history
variable: the registers as program order demands, including what EX is still
going to write. It is changed only when an instruction leaves ID.

Abstractions. What an instruction computes is an arbitrary member of `Results` (the
latency, for the FPU), because the properties only ask which result is where; the
instruction in front of which `jalr` waits may be any one, also one that a flush
takes away; operand B and C of an access are not followed, so a store's data are
byte numbers and not register values. CSR accesses, which `csr_apu_stall` keeps out
of EX while the FPU is busy, are `Controller`'s subject.

`docs/source/pipeline.rst:45` names three cases in which an FPU result waits for the
port. The code has a fourth (`ex_stage.sv:391`): an ALU operation in front of a
`jalr` through another register. `JumpsInOrder` shows what it is for: without it the
FPU hides the ALU result from `jr_stall`, and the jump takes an old target.

### HwLoop and HwLoopSpec

All decoding, flushing, returning, event-load and debug states of the
controller, the loop counters, the PC of the aligner with its saved loop target,
and the IF/ID register, for programs with two loops whose bodies and ends may
hold every kind of instruction the documentation permits. Addresses count
instructions. Interrupt handler and debugger are one returning instruction each;
what the documentation prescribes for a handler that returns behind an `ecall` at
the end of a body is `HandlerCode`. `HwLoopSpec` is the program order of
`docs/source/corev_hw_loop.rst`. `HwLoopAssumption` is what that document asks of the
loops (lines 42-82): bodies of at least three instructions, and two loops either one
after the other or the inner one, loop 0, inside the outer one and ending at least two
instructions before it.

A jump made by setting the PC is remembered as long as ID stalls (`JumpDone`,
`jump_done_q`): every decoding state keeps the register until the instruction leaves.

### Controller and TrapSpec

All states of the controller but the ones for `cv.elw` (`COREV_CLUSTER = 0`) and
for hardware loops, the sleep unit, the interrupt controller with one line, the
trap part of the CSRs and, of the pipeline, what decides whether the PC, the CSRs
and the busy flags are right. Each action is one state, or one branch of DECODE in
the order of the code's priorities. While the clock is gated (`Gated`) only the
sleep unit and the sticky debug request move.

`TrapSpec` is the machine software sees: program order, traps, returns, debug
entries and single steps. `Upcoming` maps the hardware onto the next instruction
to execute: the one in ID, or the PC of IF, or the target the flush is on its way
to.

Abstractions. A branch and a jump go to address 0; there is one interrupt line;
one transaction of the load-store unit is followed at a time (two outstanding
transactions are `Pipeline`'s subject); no FPU, so that `core_busy_d` has no
`apu_busy`; of the prefetcher only a transaction that
starts in the last cycle before the controller waits, because the clock cannot be
gated before; a CSR write is a write of `mstatus.mie` or of the enable of the line
in `mie`.

### Vendor

| `util/vendor.py` | Model |
|---|---|
| `Desc.__init__`, `Mapping`, `apply_overrides`, `Upstream.__init__` | `DescOK`, `HasPatchDir`, `Items`, `ApplyOverride`, `UpstreamRev` |
| `main` up to the clone | `Start`, `Load`, `CheckClean`, `Settle` |
| `refresh_patches` | `UnlinkPatch` (one file a step), `ExportPatches` |
| `clone_git_repo`, the comparison with the lock | `Clone`, `CheckRev` |
| `import_from_upstream`, `apply_patch` | `RemoveTarget`, `CopyItem`, `CopyBreaks`, `ApplyPatch`, `NextItem` |
| writing the lock file | `OpenLock` (which empties it), `DumpLock` |
| `git_add_commit` | `Add`, `Commit` |
| any exception or interrupt | `Abort`, from every statement |

The working tree, git's staging area and the last commit are three records of one shape:
for each destination what lies there (`rev` and the patches `applied` to it), the patch
files, and the lock file. The upstream repository is a set of revisions; its branch is at
any of them whenever it is cloned. Between runs the user edits, stages, commits or resets
(external). `CleanWorkdir` looks, as `git status --untracked-files=no` does, at tracked
files only, and that is what `CommitReproducible` has to live with: patches git does not
track may take part in an import.

### PacketChecks and PacketGate

`PacketChecks` is one operator for each replay script of each of the ten packets,
on the part of the packet's evidence that the script reads: a source text is the
sequence of its statements, a miter is what it truly shows, an equivalence check of
two designs is the number of cells unproven at its three stages, a synthesis summary
is area and slack by group, an activity record is what the two simulations do and
what the packaged receipt says they do. The scripts of different packets differ in
what they read (the return code, one verdict or both, the last count in the log, a
pinned figure, groups without a figure), and the operators differ accordingly;
scripts that are the same text up to names share a helper. Yosys and Icarus are
external: each may die at the start, in a step of its own or after it has printed its
verdict, or hang, in any one case (`Midway`, `Faults`).

In `PacketGate` a packet is a function from the names of the files that are there to
what is in them: the parts of the evidence, the scripts, a manifest, one deeper in the
directory, and `SHA256SUMS`. That list has lines for some of the files, each made of
what the file was at the time; a list that omits a file is as good as any. What the
text of a script is does not change. A file that is moved lands under a name nothing
reads, in another packet's directory or next to the packets (`strays`).

| Code | Model |
|---|---|
| `check_packet_toolchain_lock.py` | `TaxonomyHolds`, `ManifestPinned`, `Manifests`, `LockCheck` |
| `verify_public_receipts.py` | `ListRight`, `ShaManifest`, `ReceiptManifest`, `TopManifests`, `Verify` |
| `replay_changed_packets.sh` | `Scripts`, `Verdict`, `ReplayOne`, `Touched`, `MayList`, `IsDir`, `GateReplays`, `GateEnds` |
| `packet-replay-gate.yml` | `GateStarts`, `GateTimesOut` |
| `public-receipts.yml` | `ReceiptsRun` |
| author, merge (external) | `EditPacket`, `EditList`, `RemovePacket`, `MoveFile`, `EditManifest`, `EditLock`, `EditWording`, `Merge` |

`git diff --name-only` is taken for what it is: it detects renames and lists a moved file
under its new name alone, and any removed file that is like an added one passes for
moved. `MayList` is every list it may give: a directory with a new or rewritten file is
on all of them, one that only loses files may be missing from some (`OnlyLoses`), as long
as there are as many added files as removed ones. When git fails, the exit status is lost
in the process substitution of line 50, and the job goes on with any part of the list
(`GateStarts`). `blind` is a history variable: a branch was merged whose changes git had
failed to list. `under` is another: the lock each packet was last replayed under.

`Claim` states what a script is for in terms of the evidence alone, with none of the
script's way of finding out; `MasterClaimsHold` compares the two on everything that
reaches master. The claim of a negative control of the two equivalence scripts is weaker
than the packets' READMEs have it (`CellsShow`): the scripts take the last count in the
log for the final one, so that a Yosys that dies in a step of the negative control leaves
the 32 cells it started the step with, and passes for one that could prove none of them.

### VcdToggles

The readers of the value change dumps, line by line, in the three forms the packets
have: `count_vcd` of the ALU packets (paths both sides have), `count_vcd` of the
register-file packets (every path), and `parse_vcd` of the decoder and prefetch packets
(one path for each net). The simulator that writes the dump is external: it opens and
closes scopes, declares each net under several names, and leaves out the leading digits
a reader restores. `nets` keeps what each net really did, which no reader sees.

## 3. Runs

| Run | Question | Size |
|---|---|---|
| `fifo_implements_queue` | Do the pointers implement the queue? | depth 4, two words |
| `prefetch` | Does the prefetch buffer hand over the instruction stream, with exact counters, and does it keep delivering? | the configured depth 2, four word addresses |
| `pipeline` | Is every access issued once, with the right bytes, does every instruction read the right operands, does every late result return to its slot, and does everything in flight end? | `COREV_PULP = 0`; one register; words and half words at offset 3, with an increment of 3; latencies 2 and 3; two results |
| `pipeline_fpu` | Do FPU results, accesses and jumps share the write ports without stale values? | two interchangeable registers, latencies 1 and 3, words, `PULP_OBI` and `COREV_PULP` |
| `hwloop_nested` | Does a program with nested loops run in order, whatever interrupts it, and do its loops end? | an inner loop of three instructions at the second instruction of an outer one, counts 0 and 2, every kind of instruction, CSR accesses also as the last one, single steps |
| `hwloop_elw_last`, `hwloop_csr_zero` | Two disagreements of the code with the documentation | two loops one after the other |
| `controller` | Is control handed over as `TrapSpec` says, every halt request served and every sleep ended? | six programs, four settings of `dcsr` |
| `vendor` | Is what ends well the locked import, and nothing else under that lock, whatever failed before? | three runs, two changes by the user, two interchangeable revisions, two patches, seven descriptions, every switch |
| `vendor_override` | A disagreement of the tool with its comment: an override of the revision has no effect | three runs of a plain description, with and without an override |
| `packet_gate` | Does everything on master bear out its claims, replayed under the lock that is there? | each packet by itself with all variants of its parts and one edit; an ALU and a register-file packet side by side with one false text for each part and two edits; three locks |
| `vcd_toggles` | Do the readers count what the nets did? | a net of one bit and one of two, four scopes, three names, three changes |

Why the bounds are enough. The prefetch buffer compares addresses only by
arithmetic on the last one, so four words are enough to tell a word from its
successor, from a target and from a stale one; the proofs cover every depth and
address space. In `Pipeline` the two bytes beyond a word boundary, both lanes and
both sizes that can be misaligned occur at offset 3. One register is the worst case for hazards
between two instructions; two are needed when an FPU result for one register hides
an ALU result for the other, which is what `pipeline_fpu` is about. An access
at offset 3 is misaligned as a word and as a half word, and the increment leads back to
an aligned one. In `HwLoop` a count of two
gives every phase of a loop: a pass that jumps, the last pass, and a counter of zero
behind it; the counter wraps at 4 instead of 2^32, which is beyond the greatest
count, so that the wrap is visible. In `Controller` the programs put each kind of
instruction both directly behind an instruction that enables the interrupt and
alone, and hold every kind somewhere in handler or debugger.

In `Vendor` two of the three runs may fail or be interrupted anywhere and leave their
remains to the third; the two items of the mapped description are one that takes patches
and one that does not, which is where the loop over them differs, and two patches are
enough for one to be applied and one not. In `PacketGate` a claim concerns one packet and
one edit breaks it, the second edit hides it (a list rewritten, a line or a script taken
out, a file moved, the lock moved); several packets matter only for the loop over the
changed ones, for the lock and for a file that moves from one to the other, where two are
enough; the two that lie together have the scripts of two others up to names, whose every
variant is tried there. The proofs cover every set of packets and any number of edits. In
`VcdToggles` the smallest net that can lose a leading digit has two bits, and three
changes are known, unknown and known again; three names are a net with an alias on one
side and a partner on the other.

The findings. Two violations are disagreements of the core with `corev_hw_loop.rst`: a
`cv.elw` as last instruction does not count the pass, and a CSR access at the end address
counts down from zero. The third is an override that the vendoring tool accepts and
ignores. Each is quoted in `PROJECT.json`. `hwloop_nested` leaves `cv.elw` out as a last
instruction by its constant `LastKinds`, and two cases by `Careful` in `MCHwLoop`: the CSR
access at the end of a body whose counter is zero, and a single step over a CSR access at
the end of a body, which was seen to leave the loop (`PROJECT.json`, hazard at
`controller.sv:663`).

## 4. Fairness

- The clock ticks: weak fairness of a step in which nothing stalls. It is a single
  choice of the inputs (`Smooth`, `Calm`) and so assumes only that calm cycles keep
  coming, not that any event ever happens.
- The memory grants what is requested and answers what it granted. OBI demands it
  of every slave.
- Multi-cycle units end, because their counters only count down, and so does the FPU,
  which is pipelined and has an iterative divider.
- The fetch stage keeps taking words (`prefetch`): IF takes a word whenever ID is
  ready, which `pipeline` shows to happen again and again (`InFlightEnds`).
- `HandlerCode`: the handler of an `ecall` gets round to moving `mepc`.
- `CarefulSpec` (`MCHwLoop`) is the specification of `HwLoop` restricted to careful
  programs, and asks the same of the calm cycle that stays within them.

No liveness property needs an interrupt or a debugger to go away, except where it
says so itself (`LoopsEnd`).

`Vendor`, `PacketGate` and `VcdToggles` state no fairness: a tool, a job or an author may
stop anywhere, and their properties are about what is there when it does. For the same
reason, and because their counts of runs, edits and lines are bounded, deadlock is not
checked for them.

## 5. Proofs

`FifoProofs`, for every set of words, from `FifoAssumption` and the hypothesis
`Depth = PtrRange` (a depth its pointers count modulo: a power of two from two on; lemma
`DepthOfTheCore` has the 2 of the core):

| Theorem | Property | Argument |
|---|---|---|
| `QueueImplemented` | `ImplementsQueue` | the write pointer is as many slots behind the read pointer as words are held (`PointersOK`), so that a push, a pop and the flush that keeps the first word each do to the slots between the pointers what `FetchQueue` does to its sequence |

For other depths above one the property is false (TLC shows it for 3 and 5): see
`fifo.sv:127` above. That is why the theorem has a hypothesis. The prefetch buffer asserts
that its depth is above one.

`PrefetchBufferProofs`, for every depth of at least two, every number of words and
both request rules, from `PrefetchAssumption` alone:

| Theorem | Property |
|---|---|
| `TypeCorrect` | `TypeOK` |
| `OutstandingCounted` | `CountsOutstanding` |
| `FlushesBounded` | `FlushesOutstanding` |
| `FifoNeverOverflows` | `RoomForResponses` |
| `LoopJumpsInTime` | `ReadyForLoopJump` |
| `StreamDelivered` | `DeliversStream` |

All but the last are the parts of one inductive invariant. None is inductive alone: that the
FIFO has room needs the counter to be exact, the counter's bound needs the bound of
the requests, and a loop jump can only be counted correctly if no other flush is
going on, which depends on how far the fetch stage has come since the last redirect.
The last is the key: an invariant over `loop_gap` says for each number of words
still to take whether a flush may be going on, what is in the FIFO and what is under
way.

`StreamDelivered` is the refinement of `InstrStream`. The words the fetch stage will be
given, in the order it gets them, have positions (`WordAt`): those in the FIFO, the
responses that no flush takes away (`LiveAt` finds each among the transactions in
flight, behind a delayed loop flush too), and the next two requests. `StreamInv` adds to
the invariant above that each position but the first is one word behind the position
before it (`InSequence`): the first may be the last word of a loop body. The refinement
mapping reads the first two positions; each action, and each way a response, a flush and
a request fall together, then only moves positions.

`ControllerProofs`, for every set of programs, from `ControllerAssumption`:

| Theorem | Property | Argument |
|---|---|---|
| `TypeCorrect` | `TypeOK` | type of every register, through every action |
| `ClockGatedWhenIdle` | `ClockWhileBusy` | `core_busy_q` is one cycle old: strengthened by what the controller can do in a cycle with no transaction under way |
| `HaltEntryShort` | `HaltEntryIsShort` | inductive as it stands |
| `TrapsImplemented` | `ImplementsTraps` | every branch of the controller is one step of `TrapSpec` or none |

`TrapsImplemented` is proved action by action (one lemma `...Refines` each) from
`TrapInv`, which ties ID, EX and the state of the controller together: in DECODE the
fetch stage is one ahead of ID unless a jump or branch was made (`InDecode`), no CSR
access, load or branch is in EX where the state does not expect it (`InEx`), what waits
in ID during a flush is an instruction that asked for that flush (`InFlush`), and the
core neither sleeps in debug mode nor under single step (`InOthers`). The two places
where hardware and software disagree for some cycles are the CSR access still in EX,
which the mapping counts as done (`Software`), and the instruction a trap throws away.
A `dret` outside debug mode is illegal (`Illegal`); the proof asked for it, and the
sixth program executes one.

`PipelineProofs`, for every set of registers, address operands, results and FPU
latencies, with and without `PULP_OBI` and `COREV_PULP`, from `LsuAssumption`,
`ApuAssumption` and `PipelineAssumption`:

| Theorem | Property | Argument |
|---|---|---|
| `TypeCorrect` | `TypeOK` | what ID brings and what the four steps make of it is one operation of one unit (`ExOK`) |
| `OutstandingCounted` | `CountsOutstanding` | the counter and the bus's queue move together (`BusOK`) |
| `SlotsFollowUnit` | `SlotsMatchUnit` | one operation in flight or one memorised result, with its owner (`SlotsOK`) |
| `AccessIssuedOnce` | `IssuedOnce` | a transaction of the access in EX is under way exactly when the bus is full (`IssueOK`) |

The last one needs the others. An access would be requested twice if EX stayed
where it is although the load-store unit has finished with it; lemma `Leaves` says
that it moves. The only thing that could hold it is a result of the FPU at the ALU
write port (`wb_contention`): a late one is memorised because an access that updates
its base claims the port, and an early one cannot come, as the slots would know of it.

The second part of the module adds what the transactions of the access in EX have written
so far (`SentOK`): nothing, the bytes of this part, those of the first part of a
misaligned store, or both. The theorem is then arithmetic of word, offset and rotation,
for every address:

| Theorem | Property | Argument |
|---|---|---|
| `StoreWritesItsBytes` | `StoresItsBytes` | `LowerBytes` and `UpperBytes` say which bytes the two parts have, `SecondAddress` that the second part follows the first |

The third part has the invariants that compare values with program order:

| Theorem | Property | Argument |
|---|---|---|
| `OperandsAreInOrder` | `OperandsInOrder` | the stalls and the forwarding multiplexer find the place that has the value |
| `JumpsAreInOrder` | `JumpsInOrder` | `jr_stall` holds the `jalr` until that place is the register file |
| `RegistersComeToRest` | `RegistersSettle` | with nothing in flight there is no other place |

`OInv` says for every register where the value that program order demands is
(`ValuesOK`): the youngest of EX, the FPU, WB and the register file that holds the
register. It is inductive only with four more parts: an instruction writes a register by
one way (`OneWriter`), the words of a misaligned load are in `rdata_q` or on the bus in
order (`BusData`), the address that `load_stall` compares is still the one of the load in
WB (`WbOK`; see the hazard at `controller.sv:1354`), and no younger instruction has
overtaken a result of the FPU for the same register (`InflightOK`).

`HwLoopProofs`, for every pair of loops the documentation allows, every counter width,
set of counts and program, from `HwLoopAssumption`:

| Theorem | Property | Argument |
|---|---|---|
| `JumpsAreBehindLast` | `JumpsBehindLast` | part of `LoopInv` |
| `LoopStateStaysInBody` | `LoopStateInBody` | part of `LoopInv` |
| `ProgramRunsInOrder` | `RunsInOrder` | every decoding cycle is one step of `HwLoopSpec`, every other none |

`LoopInv` says for each state of the controller where the fetch stage is: one ahead of ID
in DECODE unless a jump was made (`InDecode`); in DECODE_HWLOOP at the start of a loop
exactly when ID holds the last instruction of a pass that repeats (`InLoopId`), with a
jump waiting in the aligner only in front of the last instruction, and only for the loop
that goes on (`InLoopId`, `InLoopIf`). `InLoop` is why DECODE_HWLOOP is left in time: at
the end of a loop's last pass the instruction is in the body of the other loop too.
Lemma `Geometry` is all that is used of the addresses. `LoopInv` holds for every program;
`RunsInOrder` is proved of `CarefulSpec` and, by the theorem's hypothesis, without
`cv.elw` as last instruction: the three cases left out are those of the findings and of
the hazard at `controller.sv:663`, where the code does something else.

`PacketGateProofs`, for every set of packets, whatever their evidence and whatever the
authors write, from `GateAssumption` and `PublishedAssumption`:

| Theorem | Property | Argument |
|---|---|---|
| `ReplayedUnderLock` | `MasterReplayedUnderLock` | as long as git listed the changes, a packet the job did not replay has no new file (`NewIsListed`), so its manifest, if it has one, is the one on master; it is pinned to the branch's lock, because the lock check passed, and to master's, because of `MasterPinned`: they are one |
| `Pinned` | `MasterPinned` | the receipts job runs the lock check on the whole branch, so that it holds even where the replay job is skipped |
| `RewritesReplayed` | `EveryRewriteReplayed` | what git may leave off its list only loses files (`NewIsListed`), and what is to be done and what is done make up the list (`JobOK`) |
| `Agree` | `CheckersAgree` | the definitions of the two checks |
| `ClaimsHoldOnMaster` | `MasterClaimsHold` | for each of the ten packets, the verdict of every script implies its claim, whatever the evidence and however the tools fail (`VerdictIsTrue`, 42 verdicts); a green job has had that verdict from every script of a packet it replayed (`ReplaysOK`); a packet it did not replay has only files of master's (`NoNewFile`), and if the evidence of a script is gone the receipts job has made sure that no list names it |

`MasterReplayedUnderLock` is not inductive without `MasterPinned`, and both need to know
what the two jobs have looked at when they are green (`JobOK`, `ReceiptsOK`).

`VendorProofs`, for every set of revisions, descriptions and command lines and any number
of runs, from `VendorAssumption`:

| Theorem | Property | Argument |
|---|---|---|
| `ImportsTheLock` | `LockedImport` | while the import runs, what no item still writes to is as a complete import leaves it (`ItemsOK`), also when the mapping names a destination twice |
| `LockIsWrittenLast` | `LockGoesLast` | the same, behind the last item |
| `CommitsCanBeMadeAgain` | `CommitReproducible` | what is staged of the patches lies in the directory (`StagedOK`): an action property |
| `NothingSilent` | `NoSilentUpdate` | the lock read at the start is never a torn one (`NeverTorn`); while the tool runs nobody else writes the lock file (`DiskOK`); a run that does not update clones what the lock names and has compared it when it gets to the import (`RunOK`, `RevOK`) |

`VcdTogglesProofs`, for every set of nets of any widths and any number of scopes, names
and changes, from `DumpAssumption`:

| Theorem | Property | Argument |
|---|---|---|
| `EveryNetCountedOnce` | `NetsCountedOnce` | the reader is in the scope the dump is in and knows each net under one of its names (`ReaderOK`); a path is declared once, so that two nets never share a count (`DeclsOK`, `PathsAreNets`); it remembers every value as it was written (`NetsOK`); so each change keeps the count between its bounds (`CountsOK`) |
| `SharedPathsCounted` | `AluCountsExact` | every name of the designs is noted once (`MapsOK`), and noted names tell their paths (`KeysTell`), so that a path counts exactly when the other side declares it in the same width (`CommonIs`); a net's last value is remembered under each of its paths that count, while it is known and no longer (`AluOK`); so a change adds to each side its flips times the number of those paths |
| `AllPathsCounted` | `RfCountsExact` | the same for one value a net (`RfOK`) and every path of a side; the width of the first noted name is that of every other (`IdentMapsAre`) |

Each theorem has the inductive invariant of its kind of reader: `VInv` for `parse_vcd`,
which remembers a value as it was written, and `CInv` for `count_vcd`, which remembers it
extended to the net's width. A count cannot be inductive alone: what a change adds depends
on what is remembered, and for how many paths on what was noted of the header. TLC has
checked both invariants on the states of `vcd_toggles`.

The arithmetic of `parse_vcd` is in two lemmas about `Toggled`. `KnownToggles`: between
known values it is the number of bits that flip, whatever leading digits the two lines
leave out, because the reader fills the shorter one with the zeros that were left out and
those in front of both are equal (`OldIs`). `UnknownToggles`: any other change counts at
least once and at most once a bit, also one that the filling hides. That of `count_vcd` is
`NormalIs`: the extension gives back a value that is known, and nothing else.

The counts are sums over sets, folds whose value needs induction over the set. The
induction theorems of the library take an operator as their parameter and cannot be
instantiated here; the lemmas on sums go round that. Their sets of counterexamples are
sets of subsets of a finite set, and such a set has a smallest member (`Smallest`), whose
proper subsets are no counterexamples. In this way the equation of the fold is shown to
have one solution (`PartialExists`, `PartialUnique`), and from it that any member may be
taken out first (`SumWithout`) and that a sum gains as much as its terms gain
(`SumGains`), which is what a change does.

Only model-checked: everything temporal under fairness (`KeepsDelivering`,
`InFlightEnds`, `LoopsEnd`, `HaltServed`, `WakesUp`), which is out of the prover's reach.
Every safety property a passing run checks is also proved.

## 6. Not modelled, and what is left

Not modelled in the core: the PMP errors and user mode (tied off in
`cv32e40p_core.sv`), the trigger and `dcsr.cause`, the performance counters, the datapath
of ALU and multiplier, the decoders, the vendored floating-point unit, and everything for
simulation. Four hazards of the code that are therefore not covered:

- a redirect to an odd half word takes one word to set up (`aligner.sv:119`), and a
  second redirect or an interrupt may come while it does;
- the divider keeps its result in FINISH until EX may leave (`alu_div.sv:160`);
- in the cluster variant the clock may be gated in the middle of a `cv.elw`
  (`sleep_unit.sv:115`);
- a CSR access stalled in EX repeats its write every cycle (`id_stage.sv:1625`).

The prefetch buffer is model-checked with the request rule and the depth the core
configures; other depths and the legacy rule (`PULP_OBI`) are covered by the proofs, not by
a run.

Not modelled around the core:

- of the packets, the stimuli of the activity replays (`build_trace`, `make_tb`, `TB`), the
  hashes that receipts record and no script compares, and the one replay the gate does
  not run (`replay_toggle_aa.py` of the register-file packets);
- of the gate, the installation of the toolchain and the check of its versions, the
  fixtures the gate tries itself on (`test_replay_gate_bites.sh`), and changes to the text
  of a replay script: a branch that rewrites a script is judged by the script it rewrote;
- several pull requests at once: the jobs look at a branch as it is, and whether it must
  be brought up to date before it is merged is a setting outside this repository, as is
  that merging needs green jobs, which the model assumes;
- a packet from which the manifest or scripts are taken out is no longer asked for them
  by any job; the properties therefore speak of manifests and scripts that are there;
- of the vendoring tool, the shortlog and the wording of the commit, exclusion patterns and
  the subdirectory of the upstream repository; that the local patches are removed before
  the patch repository is cloned (`vendor.py:474`) is modelled, but no property asks for
  the patches back when the clone fails, and the code does not promise it;
- the converters (`ci/*.py`), the configuration of the documentation, `util/git-diff.py`.

What could be added, in this order:

1. `Aligner`: half words. Built on `InstrStream`; the abstract specification is a
   stream of instructions of one or two half words.
2. The serial divider and the `mulh` FSM: an operation is done once and its
   result is held until EX leaves.
3. `cv.elw` with the cluster variant of the sleep unit.
4. CSR set and clear operations in a stalled EX stage.

Known divergences without a run. "Replay every changed artifact packet"
(`replay_changed_packets.sh:2`): a packet that only loses files to another place is changed
and may not be replayed, and when `git diff` fails the job is green; the properties of
`PacketGate` say what holds all the same, and the second is why they begin with `~blind`.
"Every artifact packet ships replay commands that must work from a fresh clone"
(`packet-replay-gate.yml:3`): a branch that moves a packet's evidence away together with
its checksum list is listed where the files went and not where they were, and the receipts
job asks no packet for a list, so that the packet on master cannot be replayed. That is the
second case of `MasterClaimsHold`: its scripts have lost their evidence and claim nothing.
`fifo.sv` accepts any depth greater than one by
its assertion `a_fifo_depth_gt_1` in the prefetch buffer, but is a queue only for
powers of two (`fifo.sv:127`). The core sets depth 2.
