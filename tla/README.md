# A TLA+ model of the NDSE core

NDSE (`src/Core`) emulates the two processors of a Nintendo DS. Each processor,
ARM9 and ARM7, runs on a host thread of its own; its program is translated page
by page to x86 code. The user interface is a third thread, which loads files
into the emulated memory, stops and continues the cores and inspects them. The
two cores share main memory, some banks of video memory and a pair of FIFOs, all
without locks but for one in `ioregs::set_ipc`. Most of what is hard in this code lies there.

This directory holds TLA+ modules of the parts whose behaviour depends on
order, TLC configurations that check them on small instances, and proofs for
TLAPS. A module is translated from the code; its comments say which function
or line a definition stands for where the name does not, and `PROJECT.json`
(`map`) lists the lines of every definition.

    tlc -workers 2 -config MCIpcFifo.cfg MCIpcFifo      one run
    tlapm BreakpointProofs.tla                          one proof module

## 1. Inventory of the system

For each part: its state, its operations, whom it talks to, what is hard, what
makes it correct. Parts marked * are modelled.

| Part | State | Operations | Talks to |
|---|---|---|---|
| IPC FIFO * (`fifo.h`, `IORegs.cpp`) | a ring of 16 words per direction with two free-running counters; `ipc_fifocnt` of each core | store to IPCFIFOSEND, load from IPCFIFORECV | fires interrupts 17 and 18 on the other core |
| Register contexts * (`HLE.cpp` `loadcpsr`, `Processor.h`, parts of `Compiler.cpp`) | six contexts and the mode of each core, `ebp` | MSR CPSR, LDM with the S bit, any instruction that writes a register | interrupt delivery switches modes too |
| Interrupt delivery * (`Interrupt.h`) | `signaled`, `inside`, IME, IE, IF | `fire` from any thread, `poll_process` on each branch, handler return | FIFO, contexts, JIT stubs |
| JIT page cache * (`Mem.h`, `Mem.cpp`, branch stub in `HLE.cpp`) | page words, dirty flags, a code block for each core and instruction set | store, branch, compile, flush, SetPC | everything that stores to memory |
| Memory map * (`MemMap.h`, `PhysMem.cpp`) | per core: recorded segments, lookup table | `map_region`, `unmap`, `remap_tcm` | VRAM banks, coprocessor instructions |
| VRAM banks * (`vram.cpp`) | control registers, `cur_maps` | stores of 8, 16 and 32 bits, `remap` | memory map |
| IPC sync and I/O registers (`IORegs.cpp`) | register pages, SPI and touch screen state, `ipc` words | loads and stores of every width, `set_ipc`, `get_ipc`, callbacks | both cores, DMA |
| Breakpoints * (`Breakpoint*.h/.cpp`) | patched bytes, one-time and regular lists per page and mode | toggle, one-time, step, trigger, recompile | JIT blocks, runner |
| Runner and fibers * (`runner.h`, `signal2/`) | a fiber per core with a copy of its registers, its event, pending repatch, `skipsrc`, `last_page` | continue, rebranch, single step, skip a line, stop | breakpoints, JIT, user interface |
| JIT compiler * (`Compiler.*`) | flag lookahead, links between blocks | one case per instruction | decoder, contexts |
| Decoder * (`Disassembler.*`) | one context, reused for every word | decode ARM and Thumb words, print | compiler, user interface |
| BIOS calls (`HLE.cpp`, `lz77.h`) | none but memory | LZ77, decompression, CRC16, division, CpuSet, IntrWait | memory |
| DMA (`dma.cpp`) | registers | transfer on a store to the control word | memory |
| Callstack, debug console (`HLE.h`) | ring of 1024 return addresses; a string | push, pop, `debug_magic` | JIT hooks |
| Loaders (`loader_*.cpp`, `Util.cpp`) | files | parse headers, stream segments to memory | memory |
| Source lines (`SourceDebug.cpp`) | line tables | lookup | runner |
| Exports (`NDSE.cpp`) | none | thin wrappers | all |
| Interpreter (`HLCore.cpp`) | dead: `HLE_CORE` is undefined (`Compiler.h:5`) | | |

What is hard, part by part (the hazards, each with its line and the properties
that catch it, are in `PROJECT.json`):

- *FIFO.* Neither handler is guarded against the other one ("needs a mutex!",
  `IORegs.h:20`). Guards and the accesses they guard are separate; `full()`
  reads a counter twice; the state a handler reports is computed before it is
  stored. Correct means: never over- or underrun, words in order, no core left
  waiting for an interrupt.
- *Contexts.* Registers are copied on each switch; a sequence of switches must
  amount to the banked register file of the ARM manuals.
- *Interrupts.* Signals arrive while a poll works on those it took; handlers
  change modes, IE and IME. The interrupted program must get everything back
  and no enabled interrupt may be forgotten.
- *JIT pages.* A flag is set by a locked OR and cleared by an unlocked
  read-modify-write; pages are stored to while they are compiled. Code that no
  longer matches its page must be flagged.
- *Maps.* The lookup table caches what is recorded; `cur_maps` mirrors it. Long
  sequences of register stores must keep the three in step.
- *Breakpoints, runner, fibers.* Bytes are patched in code that others compile;
  Continue sets an event whether or not anybody waits for it; a single step is
  recognised by a pending repatch alone. Correct means: the user interface sees
  a program that runs, stops at breakpoints, and passes each exactly once when
  continued.
- *Compiler.* Flags stay in a host register as long as the next instruction is
  thought to set them, the carry is kept in three places with two polarities,
  and each operand form has its own code for each way its registers may
  coincide. Correct means: what the instruction set says.
- *Decoder.* One context serves for all instructions and is not cleared.

## 2. Modules

| Module | Models | Built on |
|---|---|---|
| `Fifo` | `fifo<n>`: counters modulo 2^w, slots, `size`, `empty`, `full`, `get_fifostate` | |
| `IpcFifo` | both handlers of one direction, access by access | `Fifo` |
| `Channel` | abstract: a bounded channel | |
| `CpuContext` | `loadcpsr` and the contexts, as functions | |
| `CpuMode` | the generated instructions that use them | `CpuContext` |
| `RegisterFile` | abstract: the banked ARM register file | |
| `Interrupt` | `fire`, `poll_process`, `switch_and_invoke_old`, handler return | `CpuContext` |
| `JitPage` | one page's words, flags, blocks; three threads | |
| `MemMap` | one core's address map, as functions | |
| `Vram` | both cores' maps, the VRAM registers, `remap`, `remap_tcm` | `MemMap` |
| `Breakpoint` | breakpoints and steps in one page, `jit_continue`, `internal_cb` | |
| `Fiber` | a program's thread, its exception handler, the event, and the user interface | |
| `Debuggee` | abstract: a program under a debugger | |
| `Decoder` | `disassembler::decode` for both instruction sets, the operands a format prints | |
| `DecoderReference` | the architecture's tables, and what is checked of `Decoder` | `Decoder` |
| `X86` | the host: flags, stack and the instructions the generator emits | |
| `Codegen` | what `compile_instruction` and `compile` emit | `X86` |
| `ArmSemantics` | the instruction set, as functions on a guest's state | `X86` (words) |
| `Translation` | generated code run beside the guest it stands for | `Codegen`, `ArmSemantics` |
| `...Proofs` | the theorems of the module they are named after | |
| `MC...` | the instances TLC checks | |

`PROJECT.json` lists mutants: operators named `<definition>_<change>` that stand
before the definition they deform, each of which makes one property fail. They
are marked in the modules and used nowhere else.

### IpcFifo
`writepos` and `readpos` are the counters, `fifocnt` the receiver's flags,
`signaled` the interrupts fired and not taken. A handler's program counter
(`pc`) goes through the reads of `full()` or `empty()`, the slot, the counter
and the reads of `get_fifostate` one at a time, which is where the other
thread's handler may come in; `word` and `seen` are its locals. `DebugBreak`
stops the core; `jit_rebranch` is the user's SetPC, after which the program goes
on and the handler does not. x86 keeps each thread's stores in order and so does
the model.

### CpuContext, CpuMode, Interrupt
`cpu` is `processor<T>::mode` with the six contexts; `Switch` does what
`loadcpsr` does, copying of r0-r7, r8-r12 or r0-r15 included. `ebp` names the
mode whose context generated code works on. cpsr is split in its mode field and
its flags. `spsr`, the thumb bit and `bpre` are no part of a switch and left
out. In `Interrupt`, `intr` holds the bits of the local of that name that the
loop has still to pass, `backup` the stack copy of the context. IME, IE and IF
belong to the core's own thread, so that a step may do all that happens between
two accesses to `signaled`.

### JitPage
`mem` are the words of a page, `flags` its PAGE_DIRTY_J bits, `block[c][i]` what
core `c` has compiled of it for instruction set `i`. A store writes words and
then sets the flags; a branch tests its flag, clears it in two steps (load,
store), recompiles each existing block word by word, and enters. `flush` from
the user interface does so for both cores. After the use of a deleted block
(`freed`) anything may happen and the model stops. Two abstractions favour the
code: the store that clears a flag is visible to others before the compiler
reads the page, and words are read whole.

### MemMap, Vram
A map is a record of `ovl` (which regions are mapped how often at each page, and
where the page's segment begins) and `map` (the block the table shows). A page
stands for 16 KB, 32 pages of the code, as nothing but parts of a TCM range is
ever mapped at a finer grain. `remap` proceeds a bank at a time (`idx`), as the
ARM7 may use its map in between; both maps are changed by the ARM9's thread
alone. Regions that are mapped once and never moved are left out with their
addresses. `lut_fg` has four entries and is indexed by up to 24: what lies
behind it is the constant `Beyond`. Where two regions of a priority meet, the
code stops with a `DebugBreak_`, and so does the model (`NoClash` is a conjunct
of `Next`).

### Breakpoint
`byte` are the positions of a page's code that hold DEBUG_BREAK, `data` the
`break_data` (positions `pos`, saved bytes `original`, `used`, `patched`) of each
instruction with regular breakpoints and of `single_step[0]` and `[1]`, `dt` the
debugger table. Calls of the user interface (`Toggle`, `step`, `jit_continue`,
`jit_rebranch`) interleave with the fiber: it executes, faults, stops in
`internal_cb` (`Stop`), steps over a breakpoint (`SingleStep`), and compiles the
page anew at another or the same place. The user interface steps, continues and
sets the PC of a stopped fiber only. `Targets` has every place where one of the
ARM and host step modes can put its breakpoints. The fault's handler runs later
than the fault, so a breakpoint may be gone by then.

A position is a host instruction: `Placed` puts the instructions of the page one
behind the other, each with as many host instructions as it likes, from wherever
the allocator has put the block. The loops of the code (the rounds of `recompile`
and of `unset_onetime`) are functions of the number of rounds, and every call
takes a record of `byte`, `data` and `dt` to the next one.

The code does not cope with two breakpoints at one host instruction, nor with
disassembling what is patched. `confused` notes when that happens, and the
invariants speak of what happens before; so the model does not look for a
smaller damage than the first one. One instruction set and one page are
modelled: the breakpoints of the other instruction set that a step sets at a
mode switch and one-time breakpoints in other pages are left out.

### Fiber, Debuggee
`Breakpoint` takes stop and continue for atomic, and stops at a DEBUG_BREAK of the page
only; `Fiber` takes them apart and has the code at one place. `thread` is where the program's thread is: running,
in `handle_failure`, about to set its own event, or waiting for it. `context` is
the copy of the registers that `jit_continue` and `jit_rebranch` change, `cont`
the auto-reset event of `winsig.cpp`. `Tell`, `PutBack` and `SkipOn` are the
three ways through `internal_cb`. It triggers the breakpoint at `resolve_eip_v2`:
for a stop in one of the emulator's functions (`Outside`) that is `caller`, the first word
on the stack that points into the page's code, while `jit_continue` looks at the position
itself. `Execute` leaves any word, or none, on the stack: return addresses that are
stale, lie in the middle of an instruction or in another page than `last_page` are among
these. A call of the user interface that signals has
two steps, and a source step four: it continues the program by itself (`skipline`,
`skipcb`) and then leaves its `switch` into `set_onetime` while the program runs
(`PlainStep`). `skipsrc` is never cleared, and neither does the model.

`Debuggee` has no thread, event, copy or patched byte: a program at `pos` that
runs, is stopped, or passes a breakpoint, with sets of breakpoints. `Here` is where its
user sees it, at `pos` or at the caller. A stop `Here` at a one-time breakpoint ends
the step, and a stop may be withheld from the user (`Skip`) at a breakpoint of the line
that is skipped only, with `Here` there. So the failure of a function that such a
line calls is withheld too: that is what the code does, not what a user would wish. What the
code leaves unpromised leads to its phase `undefined`, from which anything may
follow: Continue while the program runs (its event is left for the next stop, or
merges with the handler's own), and Continue after SetPC at a software breakpoint
(`skip_instructions` is still 1, so the program starts one byte late). Its
`Retry` is a fault of the single-stepped instruction, which `internal_cb` takes
for the end of the step. `Skip`, `Retry` and `Step` of a running program describe what
the code does to a debugger's promise (sticky `skipsrc`, the lost step, the source
step that falls through); `PromiseSpec` confines the damage to these and finds none
of them.

Left out: a one-time breakpoint on a regular one, at the stop or at the one taken
out, and a toggle of the one taken out (`Breakpoint` has these meetings).
`nixsig.cpp`, where a DEBUG_BREAK arrives as a fault of its `iret`, handles no
SIGTRAP and waits on a mutex, is not modelled.

### Decoder
Each function of `Disassembler.h` is an operator on the context with the same
name. A word is decoded into a context whose fields are all `Stale`, a value no
operand has: that stands for whatever the words before left there. Words are pairs
of halfwords. `Formats` gives the operands that an operation's format string prints.

`DecoderReference` has the ARM encodings as a table of bit patterns and the
Thumb halfwords by their equivalent ARM words; `Misread`, `Undefined` and
`Unsupported` name where the decoder differs.

### X86, Codegen, ArmSemantics, Translation
`Codegen` is `Compiler.cpp`: an operator for each `case` or helper that yields the
host instructions it emits as triples, without their encodings. Displacements
from `ebp` are `R(n)` and `Field(name)`. `compile_instruction` puts the condition
in front, `AtIndex` is what `compile` knows of the neighbours (the lookahead).
`X86` runs them. Calls out of the generated code (loads, stores, block transfers,
`loadcpsr`, `swi`, `remap_tcm`) append an entry to a log, spoil the registers that
such a call may change, and memory has fixed contents; calls of the tracer spoil
registers only.

`Translation` enters a page at any of its instructions with junk in the host's
registers, and lets host and guest go on in step. `kept` and `live` are the
flags for which `x86_flags` and the host's register hold what the guest has,
computed from tables of what the generator gets right (`Promised`), and
`sound` turns FALSE after an instruction that it gets wrong or that the
instruction set leaves open (`Astray`). Words are 8 bits wide, halfwords 4,
bytes 2; addresses count bytes. R15 of the guest is the page and the index.

## 3. Runs

| Run | Instance | Result |
|---|---|---|
| `ipc_fifo` | ring of 2, counters wrap after 2 laps, words of 2 values | 7 properties hold |
| `cpu_mode` | a register of each class, 4 mode fields, one unknown to `loadcpsr` | 2 properties hold |
| `interrupt` | ARM9, 2 interrupts, 1 banked register | 4 properties hold |
| `interrupt_live` | ARM7, 2 interrupts, with a mode that breaks | `Served` holds |
| `jit_page` | 2 cores, 2 instruction sets, 1 word of 2 values, host stores | 4 properties hold |
| `jit_flush` | 2 cores, 1 instruction set, host flushes | `StaleFlagged` holds |
| `jit_dirty_lost` | the same without flushes | `DirtyKnown` fails |
| `mem_map` | banks A, C, E, F and I, both TCMs, 9 pages | 6 properties hold |
| `breakpoints` | 2 instructions of 1 or 2 host instructions, 2 places for the code | 5 properties hold |
| `fiber` | 3 places, a source line of 2, any caller | 3 properties hold |
| `decoder` | 98304 ARM words with every class field, all 65536 Thumb halfwords | 3 properties hold |
| `codegen` | some 2500 single instructions, 940 pairs and triples, words of 8 bits | 4 properties hold |

Why the bounds are enough:

- *IpcFifo.* Two slots are the fewest that tell slots apart and that let a ring
  be neither empty nor full; two laps make the counters wrap at a multiple of the size, as
  2^32 is one of 16. One direction: the other one is the same code on other
  variables. The proofs hold for every size and every number of laps.
- *CpuMode.* Registers are treated by class (r0-r7 and r15, r8-r12, r13-r14)
  and modes by whether they are the fast interrupt mode; user, supervisor and
  fast interrupt mode show every combination.
- *Interrupt.* Two interrupts give an order and a bit that arrives during the
  handler of another one; the history counts to `MaxOwed` = 2, one in `signaled` and
  one in `intr`, as more cannot be told apart.
- *JitPage.* The invariants speak of one word, one core and one instruction set
  at a time; one word of two values can be stale and be repaired. The cores and
  the instruction sets are interchangeable in the module, which justifies the symmetry.
- *Vram.* The pages are windows on the banks' places, on main memory and on the
  page behind the first half of the address space; the instruction TCM begins at 0, reaches
  over main memory and the data TCM or to the end of the addresses; the control values make a bank move within a
  core and between cores, overlap another bank, use `lut_fg`, and meet bank I's
  number. The other banks' registers stay 0.
- *Breakpoint.* Two instructions give the two one-time breakpoints different
  addresses, the rest of memory is a third one; two host instructions give
  breakpoints within an instruction; two places (0 and 4, code being 2 to 4
  long) and two sizes make code move away, and be put where another line's breakpoint
  was in the old code. The proofs hold for every size and every place.
- *Fiber.* A breakpoint hit, one stepped to and one elsewhere are three places;
  a line of two lets a step stay in its line and leave it. Each may be the caller of
  a function that fails.
- *Decoder.* Bits 27 to 20 and 7 to 4 select the operation and take every value;
  conditions are AL, NV and one other; register fields are 0 and 15, the values
  the decoder or the architecture looks at.
- *Codegen.* What `compile_instruction` emits depends on its instruction and, by
  the lookahead and `flags_updated`, on its two neighbours; hence sequences of up to
  three. Singles take every operand form, every coincidence of registers that the
  code tests, and shift amounts around 0 and the width; values are 0, 1 and those
  around the sign. At 8 bits the boundaries of the shifter are those of 32 (the
  amounts 0, 1, width - 1, width, more), but a shift amount of 256 or more, of which
  the host compares all bits and the guest takes eight, is out of range.

Deadlock is checked where the code goes on for ever (FIFO, interrupts, fiber) and not
where a model stops with the code: at a `DebugBreak_` for good (`CpuMode`,
`Vram`), at undefined behaviour (`JitPage`), or after `confused` (`Breakpoint`), or ends at the
end of a page (`Translation`) or of a word (`Decoder`).

`Fiber!FairSpec` has weak fairness of the exception handler's steps, taken
together, and of the user interface's second step, the call of SetEvent: both are
threads in the middle of a function that the operating system schedules. The
program is not assumed to execute anything, nor the user to continue it. `Resumes`
says that the thread runs after every Continue, and after every single step by
which a breakpoint was passed.

`Interrupt!FairSpec` has weak fairness of `poll_process`,
`Dispatch`, `HandlerReturns` and `PollReturns`. The operating system schedules
the core's thread; the generated code polls on every branch and at every page's
end (`compile_and_link_branch_a_real`), so that only a program that stops
branching does not poll, and the loop over the bits runs on once begun. That
handlers return is assumed of the emulated program. `Served` says that an
interrupt that stays enabled is then taken and handled. Stores of the program
to IME and IE are not assumed to happen or not to happen.

## 4. What the checks show

Properties that hold are commented where they are defined. In short:


- *FIFO*: although nothing guards it, the ring is never over- or underrun
  (`ChecksHold`), the handlers never touch one slot together (`NoSlotRace`),
  delivery is that of a bounded channel (`ChannelSpec`), and neither core is left
  without an interrupt for words or room it has not seen (`NoLostWakeup`).
- *Contexts*: copying implements the banked register file (`ArmSpec`) but for
  two ways out of the fast interrupt mode, named in `lost`.
- *Interrupts*: every handler gives the program back what it had
  (`ContextRestored`), handlers run for enabled interrupts only
  (`DispatchJustified`), none is dropped while enabled (`KeptIfEnabled`).
- *JIT*: stale code stays flagged (`StaleFlagged`), and a branch enters code
  that has all stores completed before it (`EntersCurrent`), unless a flag was
  dropped by the race found below.
- *Maps*: `TablesCurrent`, `BanksPlaced`, `Settled`, `OthersKept`; a clash can
  only come from bank H (`ClashOfH`).
- *Breakpoints*: a breakpoint is patched whenever it is set and compiled
  (`Armed`), the table and the bytes agree with it (`TableAgrees`, `BytesAgree`),
  and a stop finds its breakpoint or one that was taken away meanwhile
  (`StopsAtBreakpoint`), until two breakpoints meet at one host instruction.
- *Fibers*: thread, event, copied registers, patched bytes and single steps amount
  to a program under a debugger (`PromiseSpec`) until Continue is called out of
  turn; the thread never waits without somebody having been told or about to
  signal (`NeverForgotten`), and a continued program runs (`Resumes`).
- *Decoder*: both instruction sets are decoded as the architecture's tables say
  (`ArmAgrees`, `ThumbAgrees`), and no text shows a leftover (`NothingStale`).
- *Compiler*: where the generator is not known to go astray, generated code
  leaves the guest's registers (`RegistersAgree`), its accesses to memory and its
  destinations (`AccessesAgree`) and its flags (`FlagsAgree`), through the
  lookahead, and the host's stack balanced (`StackBalanced`).

One property fails, a finding in `PROJECT.json`: in `jit_dirty_lost`,
`flags &= ~bit` of one core drops the other's flag; that core then runs old code
until the next store.

Deviations met on the way. They are assumptions of the runs, or excluded in the
modules by a guard or a table that names them.

*FIFO and interrupts.* `full()` can take a ring that is drained between its two
reads for full and report an overflow (`TestSize`). Bits of `signaled` that are
masked at a poll are dropped (`poll_process`). Of two FIFO handlers that overlap,
the one that computed its state first may store it last, and `ipc_fifocnt` is
wrong until the next access (`FlagHealed` says no longer). An MSR of flags and mode
writes `x86_flags` of the context it leaves.

*Memory.* `remap` numbers the banks H and I 7 and 8, `map_vcnt` maps them as 8 and
9 while `banks[]` has `vram_i` at 8 (`vram.cpp:134`, `:142`, `:183`): enabling bank I maps
`vram_h`, and enabling it, disabling it and enabling it again stops the emulation with a
clash (`NoClash`; `ClashOfH` says that no other bank can). `apply_mapping_internal`
counts pages from the lower end of a segment (`MemMap.h:116`), so memory that
`unmap` uncovers in the middle of a region shows the region's first pages. VRAM C
and D stay mapped on the ARM9 when they are given to the ARM7. An instruction TCM
with a base other than 0 stops the emulation (`HLE.cpp:62`). A TCM range that
ends at 2^32 is empty. A 16-bit store to the upper half of a VRAM register word
overwrites the lower half. No property fails at the wrong pages, places and values here: tables are compared by region, a
bank's place with the same `lut_fg` and the registers as they were stored.

*Breakpoints and fibers.* `disassemble_breakdata` takes the byte it finds for the
original one (`Breakpoint.h:407`): with a regular and a one-time breakpoint at one
host instruction it is DEBUG_BREAK, and Continue writes it back and never gets past.
SetPC ignores the dirty flag (`jit_rebranch` in `JitPage`). Continue while the
program runs is not refused. A fault of the instruction that is stepped over is
taken for the end of the step and stops at the breakpoint again, without end. SetPC
at a software breakpoint leaves `skip_instructions`, and the program starts a byte
late. A source step continues by itself, so that a user interface that then calls
Continue does so out of turn; its fall out of the `switch` replaces the breakpoints
that `step_in` has just set (`Breakpoint.h:269-296`). `skipsrc` is never cleared. A
`DebugBreak_` or a fault in a function of the emulator counts as a stop at its return
address (`runner.h:103-121`, `:233`): it clears the one-time breakpoints when one of them is there,
as after a step over one host instruction, and within the line of `skipsrc` with a breakpoint
at the return address the program continues into it without telling the user
interface (`SkipOn`); where that breakpoint is a regular one, as often as it fails.

*Decoder.* STRD is decoded as STRX SH; MSR SPSR_f, #imm wants an rd of 0 where the
architecture has 15; DSP multiplies, LDC, STC, CDP and the BLX of condition NV are
undefined; PLD_I and PLD_R are swapped; Thumb LDRSB (register) and CMN are
undefined; Thumb CMP of high registers has no S bit. `S_CONSUMING` is never read.

*Compiler* (`Astray`, `Promised` and `Fed` in `Translation`). Wrong results: CLZ with
rd = rm; RSB with an immediate and two registers emits nothing; ORR shifted by a
register ignores rn; MOV and ORR shifted left by the width or more (the comment in
`Compiler.cpp:386` has 0); MOV rd, rd, RRX; BLX r14; STM with write-back of a base
in the list that is not the lowest; LDM with write-back of a base in the list; MSR
SPSR of some bytes clears the others; byte, halfword and signed loads with a
subtracted register negate the base, stores add it. Wrong carry: SBC by a register
overwrites the live carry with the shifter's (`Compiler.cpp:1499`); SUB, RSB and RSC leave
the host's borrow where CMP inverts it; HI and LS leave the carry inverted for a
following SBC or RSC; offsets with RRX use the host's carry. Flags not set, or not all:
logical operations (C and V), MVN and RSB with an immediate, long multiplies, TEQ with an
immediate, ADD, SUB and ADC into another register. The lookahead ignores the condition of
the next instruction and takes the S of LDM and STM for the flags'. An instruction that
takes its flags from the host's register finds junk there when it is branched to
(`ExpectsFlags`). A conditional body of 128 bytes or more is an assertion failure.

## 5. What is proved

TLAPS proves, for every value of the constants that satisfies the named
assumptions (ring sizes, counter widths, numbers of interrupts, any sets of
registers, words, cores and regions, any sizes and priorities, pages of any number of
instructions, any ARM words and Thumb halfwords):

- `IpcFifoProofs`: `IInv` is inductive. To type and ring bounds it adds what
  each handler knows at each label (`ReceiverState`, `SenderState`), that
  pending interrupts or a handler underway account for unseen words
  (`Wakeups`), that a handler which ran alone has stored the current flags
  (`SoloState`) and that the word being moved is in its slot (`InFlight`). From it
  follow all safety properties and the refinement of `Channel`, step by step. The
  module begins with the arithmetic modulo 2^w.
- `CpuModeProofs`: types, `InSync`, and that `CpuMode` implements
  `RegisterFile`; the invariant adds that `home` is no fast interrupt mode.
- `InterruptProofs`: `IInv` (types, `Phases`, `FrameKept`, `StartAgrees`,
  `PendingOwed`) is inductive (what it needs of `loadcpsr` is stated at its
  beginning, and in full in `CpuModeProofs`); from it follow `ContextRestored`, `InSync` and both
  action properties. The backup alone would not do: that the handler's frame is
  the one the poll began with has to hold through all of its steps.
- `JitPageProofs`: `IInv` with what a thread's locals say (`LocalsAgree`) and,
  without flushes, that a branch past its test still compiles what is stale
  (`PastTest`). Flushes are covered for `StaleFlagged`.
- `FiberProofs`: `IInv` is inductive (types; who waits was told or will be
  signalled; what the copy, the trap flag and a pending repatch have to do with each
  other at each place of the handler; which bytes are patched), and every step of
  `Fiber` is one of `Debuggee` or changes nothing of it: `KeepsPromise`; what `Tell` and
  `SkipOn` look up is `Here` of the mapped program, whatever the stack holds. That a
  one-time breakpoint never coincides with a regular one carries the bytes through.
- `VramProofs`: `IInv` (types, no page without a region, current tables,
  `BanksPlaced`, `Settled`, `OnceMapped`). `unmap` looks up again only where the region
  was on top; that this is enough rests on there being no clash before the step, which
  `Next` has as its guard, and on there being always another region below.
  `OnceMapped` (a TCM is mapped at most once, bank I never, what does not move is where
  `initialize_mapping` put it) gives `ClashOfH`: but for bank H, no page has two
  regions of one priority. For `OthersKept` a step is shown to move one region
  only, in both maps (`OneMoves`), and an update to leave the block of a page that
  shows another region (`Moves`).
- `BreakpointProofs`: `IInv` is inductive; `Armed`, `TableAgrees`, `BytesAgree` are parts
  of it and `StopsAtBreakpoint` follows. See below.
- `DecoderProofs`: `NothingStale` and `ArmAgrees` for all 2^32 words and 2^16 halfwords.
  See below.

`Breakpoint`'s properties are not inductive, as they speak of lines (`Position`), while
the code works with the positions each `break_data` has kept. `IInv` adds that these are the
lines wherever the breakpoint is listed (`LinesKnown`), that the saved bytes are code
(`CodeKept`) and when a byte is out (`Phases`). The proof splits `IInv` in the variables'
types (`Rest`) and `Right(h, r, B, hole)`: the record `h` of `byte`, `data` and `dt` is consistent
(`Linked`: set and known is patched, patched is in the table, the table has nothing else, its
bytes but those of `hole` are in the code) and right for the layout `r` (`Known`), or two
breakpoints have met. `IInvIs` shows that the two are the same. Each call then has a
lemma: `toggle_sub`, `update_breakdata`, `Move`, `unset_onetime` and `Renewed` take a `Right`
record to a `Right` one. `recompile` does not, as it deletes the old code at once and passes the
breakpoints one by one: after round `k`, breakpoints up to `k` are right in the new code,
and those behind `k` still own the entries of the table they had (`Half`). Where new code lies on
old positions, an entry is overwritten, and the call that takes it for its own notes it
(`confused`).

The loops are inductions over the rounds, and the layout one over the instructions. They
go by the least counterexample: the natural numbers are well founded, `WFMin` gives a
first round that fails, and there is a round before it (`Induct`; `Rounds` gets the function of
the results in the same way, as TLAPS knows nothing of a function defined by recursion until
there is one). The library's induction rules have an operator as a parameter and could not
be used.

`DecoderInv` says that a decoded context is `Shown` (no operand that its format
prints is `Stale`) and, for an ARM word, `Agrees` with `DecoderReference`. It has no step that
rests on the step before: what has to be proved is what `decode` returns, for every word.
The run takes one value of most fields; the proof leaves them open. `Bits` cuts
fields with `\div` and `%`, so `DecoderProofs` begins with their ranges and with the fields by
which `decode_instruction` chooses, as conditions on single bits (`FieldBits`). The table
is read in the same way: `Rows` says which bits each of its 36 rows asks for, `Encodings` which is
the first to match, as conditions on bits that exclude each other. Each handler then
has a lemma, in the order of the calls: it is given a `Context` in which the handlers before
it have set the registers they set (`DataRegs`), and yields one that is `Decoded`. Where
the code rejects a word, the table has to; where it does not, the operation, the registers
printed and their places have to be the table's. The Thumb handlers are shown `Shown` only: the
run takes every halfword, so that `ThumbAgrees` is settled by TLC. `ArmDecoded` and
`ThumbDecoded` assume nothing of the context but its fields. With the first,
`ArmAgreesInAnyContext` states what the disassembler's one context raises doubts about:
operation and registers of an ARM word do not depend on what was decoded before. `ArmAgrees`
speaks of the operation and its registers. Of immediate operands it is proved that they are
set, not to which value; `ThumbAgrees` compares those of halfwords.

The assumptions are those of the modules, evaluated by TLC in the runs;
`PriorityAssumption` (a set of regions has a maximum) is one that holds of every
finite set. `DistinctAssumption` is the table of priorities (`PhysMem.cpp:31-53`) as far
as regions that are mapped and unmapped at run time go. `HalvesAreHalfwords` says that the
words are pairs of 16-bit numbers.

Only model-checked: the compiler (`RegistersAgree`, `AccessesAgree`, `FlagsAgree` and
`StackBalanced` run generated code with the recursive `Loop` of `X86`, which TLAPS cannot
reason about), `ThumbAgrees` (for every halfword there is), `Served` and `Resumes`
(liveness under fairness, which TLAPS does not have), and the violated property.

Type correctness of `CpuMode`, `Interrupt`, `IpcFifo` and `Vram`, `InSync` of `Interrupt` and
the inductive invariant of `Fiber` are proved without being an invariant of a run; where a
run has an `IInv`, that implies the types.

## 6. Not modelled, and what is next

- *I/O registers.* IPCSYNC, SPI, touch screen, display and callbacks: copies between
  register pages. A module for IPCSYNC is worthwhile: `get_ipc`'s result is written to
  the register page outside the lock, so the own nibble can be set back.
- *Block transfers and DMA.* The loops over words and pages behind `load32_array`,
  `store32_array` and the DMA control word; invariant: word by word, as `load32` and
  `store32`, and no look at a page past the end.
- *BIOS calls.* LZ77, decompression, CRC16, division, CpuSet: sequential algorithms, to be
  stated as recursive functions with reference definitions.
- *Callstack tracer.* The ring of 1024 return addresses, against an unbounded stack.
- *Breakpoints* of the other instruction set at a mode switch; the races on the
  unlocked map of breakpoints; `nixsig.cpp`; the emulated address that `update_breakinfo`
  shows for a stop (the host address it starts from is `resolve_eip_v2` of `Fiber`).
- *Loaders, line tables, exports*: parsing and wrappers. *Logging, wording of the
  disassembler, x86 encodings*: layout. *Interpreter*: dead code.

Theorems: every safety property of a run is proved or, for `ThumbAgrees`, checked
exhaustively, except those of the compiler. For these `Loop` would have to become a
recursive function, with an invariant for every loop the generator emits.
