# GooseOS in TLA+

GooseOS is a single-hart RISC-V microkernel (`kernel/src`) with processes,
synchronous IPC, preemptive scheduling, interrupts delegated to user-space
servers, page tables per process, and, by feature, a network server and a WASM
interpreter inside the kernel. This directory holds TLA+ modules for it, the TLC
configurations that check them, and machine-checked proofs of the invariants the
kernel rests on.

## The system

| Part | State | Operations | Where it is hard |
|---|---|---|---|
| Process table (`process.rs`) | `PROCS` (state, saved context, IPC fields, parent, exit code, IRQ, network operation), `CURRENT_PID`, `IRQ_OWNER` | `sys_getpid` | everything else shares it |
| Scheduler (`sched.rs`) | none of its own: the trap frame, `satp`, the table | `schedule`, `sys_yield`, `preempt`, `schedule_from_idle` | three different scans, the frame replaced in the middle of a handler, the idle loop |
| IPC (`ipc.rs`) | the IPC columns of the table | SEND, RECEIVE, CALL, REPLY, `irq_notify` | both orders of every rendezvous, messages against interrupts |
| Lifecycle (`lifecycle.rs`, `sys_spawn`) | the table | `launch`, exit, fault, wait, spawn | exit against wait, reuse of PIDs, three ways to go on after an exit |
| IRQ delegation (`syscall.rs`, `trap.rs`, `plic.rs`) | `IRQ_OWNER`, `irq_num`, `irq_pending`, the PLIC | register, ack, external interrupt | claim and complete happen in different traps, the owner may die between them |
| Trap dispatch (`trap.rs`, `handlers.rs`, `abi.rs`) | tick count | `trap_handler`, `handle_ecall`, `handle_timer`, `handle_external`, `kernel_idle`, `post_process_exit` | which mode was interrupted |
| Trap entry (`trap.S`) | `sscratch`, kernel stack | entry, exit | traps from U-mode and from the idle loops |
| Memory (`page_alloc.rs`, `kvm.rs`, `page_table.rs`, `sys_map` ... `sys_free_pages`) | bitmap, Sv39 tables, TLB | allocate, free, map, unmap, translate, user copies | a page with two uses, a stale translation, a range over several pages |
| ELF loader (`elf.rs`, `sys_spawn`, `create_process_from_elf`) | none | `parse`, `pages_needed`, the copy loop | arithmetic on headers, segments that start inside a page |
| VirtIO net (`virtio.rs`, `driver.rs`) | descriptor, avail and used rings, `tx_free_mask` | init, transmit, receive, reclaim, interrupt | indices that wrap, rings shared with a device that works meanwhile |
| Network server (`net.rs`, feature `net`) | smoltcp sockets, `net_*` columns | ten requests to PID 3, `poll`, `wake_blocked` | operations parked in the kernel and completed by an interrupt |
| UART, console (`uart.rs`, `console.rs`) | the two FIFOs | `putc`, `getc`, init | the kernel and the server both write to it |
| User programs (init and the UART server assembled into `lifecycle.rs`; `userspace`) | their registers | system calls, UART registers | the protocol between them |
| WASM (`wasm.rs`, `interp.rs`, `wasi.rs`, feature `wasm`) | operand, label and call stacks, locals | decode, run | nesting that must survive branches, three stacks that must stay in step |
| Boot (`boot.S`, `boot.rs`, `main.rs`, `platform.rs`) | - | stages, panic | runs once with interrupts off |

A user program traps into `trap_handler`; it calls exactly one handler; the
handler changes the process table, may call the scheduler, and returns to
whatever the trap frame then describes. Processes interact through the table
alone: a handler that runs for one process writes the saved registers and the
state of another. Devices interact through the PLIC. `net.rs` is reached by
intercepting SYS_CALL to PID 3 and, from the timer and the VirtIO interrupt,
wakes processes in the same table.

Traps run with interrupts disabled on the only hart (INV-1 of
`docs/unsafe-audit.md`), so one handler is one step of the model, and the
interleaving to explore is that of traps. The exception is `Virtio`: its
functions run in one trap, but the device works while they do, so there each
access to shared memory is a step.

What makes each part correct: the running process, `CURRENT_PID`, `satp` and the
frame agree; no wake-up is lost in an idle kernel; no two processes wait for
each other's message; a call ends by a reply, a send by a delivery, a wait by
the end of the child; a context switch is invisible; an interrupt reaches the
process that owns it; a Ready process runs; a page has one use; the kernel is
mapped in every address space; buffers have one owner and frames keep their
order; a parked network operation ends, with its own result; characters come
out complete and in order; the interpreter's stacks are what the program's
types say.

## Modules

| Module | Models | Notes |
|---|---|---|
| `Process` | `process.rs`, checks of `security.rs` | `PROCS` by columns: `state[p]` is `PROCS[p].state`, and so on |
| `Sched` | `sched.rs` | EXTENDS `Process` |
| `Ipc` | `ipc.rs` | EXTENDS `Sched` |
| `Lifecycle` | `lifecycle.rs`, `sys_spawn` | EXTENDS `Sched` |
| `Irq` | `sys_irq_*`, `handle_external`, `plic.rs` | EXTENDS `Ipc` |
| `Kernel` | `trap.rs`, `handlers.rs`, `abi.rs`: composes the others | the specification and its properties |
| `Rendezvous`, `KernelRefines` | the abstract specification of IPC and lifecycle, and the mapping to it | |
| `Identity` | `Kernel` with three history variables | which incarnation of a PID a process is; whose call was taken |
| `KernelProofs` | invariants and action properties of `Kernel`; its refinement of `Rendezvous` | TLAPS |
| `PageAlloc` | `page_alloc.rs` | operators; the bitmap is the set of its one bits |
| `PageTable` | `page_table.rs` and the accesses of `kvm.rs` | operators; a page's words hold entries or data |
| `Kvm` | `kvm.rs` | operators on a memory (bitmap, words, panic) |
| `Elf` | `elf.rs` | operators |
| `Memory`, `MCMemory` | the memory calls, spawning, user copies, the TLB | composes the four above |
| `BufferExchange` | the abstract specification of a virtqueue | |
| `Virtqueue` | one split virtqueue, index by index | refines `BufferExchange` |
| `Virtio` | `virtio.rs` and the `phy::Device` wrapper of `net.rs` | queues as `BufferExchange` has them |
| `Net` | `net.rs` in the `net` build | EXTENDS `Kernel` |
| `UartSystem` | the booted system: init, the UART server, the UART | EXTENDS `Kernel` |
| `Interp` | `interp.rs` | one action per kind of instruction |
| `Validated` | programs for `Interp` | builds the valid function bodies up to a length |
| `MCKernel` | workloads of `Kernel` for TLC | |
| `MemoryProofs`, `VirtqueueProofs`, `VirtioProofs`, `NetProofs` | theorems about the module of that name | TLAPS |
| `UartProofs`, `InterpProofs` | theorems about `UartSystem` and `Validated` | TLAPS |
| `DataLemmas` | least numbers, remainders, sequences without repetitions | lemmas the proofs share |

### Kernel

An operator named like a Rust function stands for that function. A system call
takes the registers `f` its caller trapped with (`f.a0`, `f.a1`, and `f.a2` for
a2 and a3 together); `frame'` holds what sret restores. The functions of the
scheduler run at the end of a handler that has changed the table already, so they
take the table as arguments (`st`, `ctx`). `mode` says what the last sret returned
to: user code, `kernel_idle`, `post_process_exit`, or that the kernel has
panicked, with one value per panic. An action `Send`, `Receive`, ... is one ecall
by the running process with arguments from the sets of the workload. User code is
otherwise arbitrary. `terminate` is what `sys_exit` and `kill_current` have in
common; they differ in the code they store and in what `CURRENT_PID` is left at by
the last process.

Left out of the frame: `sepc` (always advanced past the ecall) and every register
that carries no argument or result. They are copied with a0-a2 wherever a context
is saved or loaded. The memory calls never touch the process table and are in
`Memory`. In `Kernel`, `heap` counts process images; "unmapped" stands for a
pointer that the copy in S-mode faults on, "malformed" for any error of
`elf::parse`. `Memory` looks into the images.

The PLIC is hardware: its operators follow from what `plic.rs` asks of it. All
priorities are 1, so a claim returns the lowest pending enabled number. A
completion for an interrupt that is not claimed does nothing.

### Memory

Page tables are in the modelled memory: `mem[page][i]` is a word, an entry or
data, and `walk`, `map_page` and `unmap_page` read and write those words, so a
page used as table and as data at once would show. `root[p]` is the table in
`PROCS[p].satp`. `tlb` holds what the hart may have cached since the last
`sfence.vma`; `Fill` caches any valid translation of the current table, at any
time. Scheduling is reduced to a switch to any live process.

SYS_MAP and SYS_FREE_PAGES ask no more of a page than that it is allocated and in the
heap. Page tables and the pages of other processes are, so the checks do not refuse
what the comments at `syscall.rs:55` and `syscall.rs:184` say they refuse. The
constants `ForeignMaps` and `ForeignFrees` say which addresses a process passes to
the two calls besides its own pages (to SYS_MAP those SYS_ALLOC_PAGES gave it, to
SYS_FREE_PAGES those of them it has unmapped) and the next free page. In the `Memory`
run they are an unaligned address of the heap and a page of kernel text, which the
checks do refuse; in `FreesPageTable` and `MapsPageTable` they are the whole heap, and
the properties fail. The theorems name the condition (`KeepToOwnPages`).

### Virtqueue and Virtio

`Virtqueue` has the rings and the indices of one queue, with the width of the
indices as a constant; the driver writes an entry and then the index, the device
an element and then its index, and each can be seen between the two.
`ImplementsExchange` says that this is two queues of buffers. `Virtio` therefore
uses two such queues and models the driver: `init`, `handle_interrupt`,
`reclaim_tx`, `transmit`, `receive`, and the loop in which smoltcp calls them. The
device may return elements without a frame. Memory is sequentially consistent:
`load_idx` (`virtio.rs:139`) is a volatile read without an acquire fence, which
this does not examine.

### Net

The requests are actions of the running process; NET_RECV and NET_CONNECT park
it in BlockedNet with its operation in `net[p]`. smoltcp is external: a socket is
its state and the lengths of what its receive buffer holds, and `Polled` lets a
poll give each socket one event; a datagram may be empty. `TICKS` is kept modulo the polling interval. The
user buffer of a receive is good or bad (of an empty datagram nothing is copied, and
a bad one is not noticed); `Memory` shows what a copy does. `ResultIsOwn` compares
what each process is given with what its socket held after the poll: when several
wake in one step, each gets the datagram in its place of the queue.

### UartSystem

Both programs are translated from the assembly in `lifecycle.rs`, one action per
system call, device access or branch that another actor may come between. The
server's registers s1 and s2 are variables; its a-registers are the kernel's trap
frame, so a handler that spoils them spoils the output. Ctrl-R reboots the
machine, and the system starts again. Three history variables record what the
properties compare: `typed`, what has entered the receive FIFO since boot,
`greeting`, what the server has written for its callers, and `echo`, for each
character typed what it has written for it. `thr` counts the characters of the
transmit FIFO, which the kernel's own messages enter too.

### Interp and Validated

Neither the decoder nor the interpreter validates a module, so `Interp` is run on
what a compiler produces: from the kinds of instruction that `interp.rs:5-11` lists as
implemented, `Validated` builds every body that the validation rules of WebAssembly
accept, up to `MAX_CODE` instructions, but for the branches and loops that `Targets`
and `LoopResults` leave out (see below). It records in `types` the open
blocks, the operand height and whether code is reachable before every instruction.
Then it runs the body, and
the properties compare the dynamic stacks with the static types. A value is 0 or 1
because control depends only on whether it is zero; what arithmetic computes is
any value. `code` is decoded, so `pc` counts instructions. `Undecoded` is the last case
of the match and the end of the code. global.get, global.set and POPCNT reach it: they
are in the list (POPCNT as a bitwise instruction) and have no case, so
`ValidCodeDoesNotTrap` allows UnknownOpcode for them and for nothing else. What the
list does not claim (floats, br_table, call_indirect, the narrow i64 accesses) is left
out, and so is TypeMismatch, since the module has one type.

## Runs

All bounds are values of constants in the `.cfg` files. Register values are
small numbers; 999 and 100 stand for 2^64 - 1 and 2^32. A process table of
`MAX_PROCS` slots has `MAX_PROCS - 1` processes, slot 0 being the kernel.

| Run (module) | Bounds | Shows |
|---|---|---|
| `KernelAll` (`KernelRefines`) | 2 processes, every call but SYS_YIELD, faults, 1 device, IRQ numbers that are truncated and too large; one message value, 0 | `TypeOK`, `RunningIsCurrent`, `IdleOnlyWhenBlocked`, `NoSchedulerPanic`, `NoMissedRendezvous`, `AcksItsOwnIrq`, `OwnersAlive`, and the refinement `ImplementsRendezvous` |
| `KernelIpc` (`MCKernel`) | 1 boot process and 2 spawns in 3 slots; SEND, CALL, RECEIVE, REPLY, WAIT, EXIT, SPAWN | `WaitsForLiveChild`, `SendReturnsOnDelivery`, `ReceivesFromExpected`, `CallEndsByReply`, `WaitReturnsExitCode`, `ReadyKeepsRegisters` |
| `KernelLive` (`MCKernel`) | 3 processes, 1 device, SYS_YIELD too, fairness | `ReadyRuns`, `IrqReachesServer` |
| `Memory` (`MCMemory`) | 38 pages of 8 words in bitmap words of 8 bits, 2 processes, an image that starts inside a page, five malformed ones | `PagesExclusive`, `KernelStaysMapped`, `TlbCoherent`, `OutOfMemoryOnlyWhenFull`, `CopyIsAllOrNothing`, `SpawnLoadsImage` |
| `Virtqueue` (`Virtqueue`) | a ring of 4, 3 buffers, indices modulo 8 | `ImplementsExchange` |
| `Virtio` (`Virtio`) | 2 buffers each way, two marked frames each way | `BuffersHaveOneOwner`, `FramesInOrder`, `TxBuffersComeBack`, `FramesAreReceived` |
| `Net` (`Net`) | 2 clients, 1 TCP and 1 UDP socket, buffers shorter and longer than a datagram, empty datagrams, a poll every 2 ticks | `ParkedHasOperation`, `ResultIsOwn`, `ReceiverIsServed`, `ConnectEnds`, `WokenRuns` |
| `UartSystem` (`UartSystem`) | a greeting of 2 characters, 3 keys out of a letter, CR and Ctrl-R, FIFOs of 2 | `OutputInOrder`, `InputIsEchoed`, `GreetingCompletes` |
| `Interp` (`Validated`) | bodies of up to 7 instructions, one of them without control flow; stacks of 3 operands, 4 labels, 2 frames | `TypeOK`, `LabelsMatchNesting`, `StackMatchesType`, `ValidCodeDoesNotTrap`, `CallerUndisturbed` |

Why the bounds are enough. Three processes are a pair and a bystander: a sender, a
receiver and another sender or the process scheduled meanwhile; two suffice where
the point is the order of events on one channel. `KernelIpc` reuses slots, because
children exit and are spawned again. In `Memory` the heap ends inside a bitmap
word, it is used up, and a user range crosses a page. In `Virtqueue` indices wrap
and the ring is larger than the number of buffers, as RX_BUFFERS and TX_BUFFERS are
at most QUEUE_SIZE. In `Virtio` a full transmit ring and an empty receive ring both
occur, and two marked frames among unmarked ones suffice for order, since the
driver does not look into frames. In `Interp` bodies hold two nested blocks with a
branch out of both, and recursion reaches the limit of the call stack. In `Net` a
receive buffer holds one datagram, so one receiver of a socket wakes at a time; that
several in one step get one datagram each is covered by the proof.

Passing workloads that keep clear of a disagreement: `KernelAll` has no SYS_YIELD
(see `YieldClobbers`; it changes the a0 of two processes at once, which is no step
of `Rendezvous`), one device (`StaleIrqOwner` needs two) and the message value 0, so
that the refinement stays small; that the right value arrives is checked by
`SendReturnsOnDelivery` and `CallEndsByReply`. `KernelIpc` has no interrupts
(`IrqWakesWrongReceive`). In `Memory` no process passes another's page or a page table
to SYS_MAP or SYS_FREE_PAGES (`FreesPageTable`, `MapsPageTable`). `Interp` has no branch to a loop from inside a nested
block (`NestedContinue`), none to the function's own label and no loop with a
result; see below.

Deadlock is checked in every run but that of `Validated`, where a program ends.
A panicked kernel stutters (`Halted`), and in every other mode the timer can fire.

### Fairness

- `Kernel` and `UartSystem`: weak fairness of the timer and of external
  interrupts. `handle_timer` re-arms the timer before it does anything else,
  interrupts are enabled in user mode and in both S-mode loops (SPIE is set in
  every frame that is returned to), and an asserted line stays asserted until it is
  claimed. Nothing is assumed of the arbitrary programs of `Kernel`. The programs
  of `UartSystem` are known: strong fairness of each says that a program that gets
  time slices for ever executes instructions in them; the UART goes on sending.
- `Net`: the timer only, as a tick that is counted. Nothing of users or of the
  network; an operation that the network never answers stays parked, and
  `ReceiverIsServed` and `ConnectEnds` speak of those it answers.
- `Virtio`: a function of the driver goes on to its end; an interrupt that stays
  up is taken in the end, since its PLIC cycle is completed and the timer's polls
  end in between; the device sends what it was given. Frames need not arrive.

### What the runs found

Three runs show code that does not do what a comment of the repository says.

| Run | The code | The text |
|---|---|---|
| `YieldClobbers` (`MCKernel`) | `sys_yield` sets `frame.a0 = 0` after the switch: the process that runs next loses its a0 | `sched.rs:16` "the TrapFrame on the kernel stack describes the process that sret will return to" |
| `ExtrasLost` (`Identity`) | `sys_receive` does not deliver `ipc_arg2`, `ipc_arg3` of a caller that came first: the first receive that takes the call comes without them | `netsrv/src/gooseos.rs:74` "delivers a2 and a3 during rendezvous" |
| `FreesPageTable` (`MCMemory`) | `sys_free_pages` zeroes and frees any allocated page, a page table too: the kernel is gone from that address space | `syscall.rs:184` "Verify the page is actually allocated before zeroing. Without this, a malicious process could pass a kernel page table address and zero_page would destroy it" |

Further configurations, each refuting one property in seconds
(`tlc -config X.cfg Module`):

| Configuration (module, property) | The code | The text |
|---|---|---|
| `MapsPageTable` (`MCMemory`, `PagesExclusive`) | `sys_map` maps any allocated page of the heap for user mode, a page table too | `syscall.rs:25` "phys was allocated via SYS_ALLOC_PAGES", `syscall.rs:56` "Without this, a malicious process could SYS_MAP a kernel-internal page (e.g., another process's page-table root)" |
| `NestedContinue` (`Validated`, `LabelsMatchNesting`) | a branch to a loop pops no label, the labels of blocks inside the loop included | `interp.rs:530` "loops keep their label", `interp.rs:253` "Label stack (for block/loop/if nesting)" |
| `GlobalsTrap` (`Validated`, `ClaimedOpcodesRun`) | global.get and global.set have no case in `run` and end in UnknownOpcode | `interp.rs:9` "Variables: local.get, local.set, local.tee, global.get, global.set" |
| `NetEmptyDatagram` (`Net`, `ReceiveReturnsBytes`) | an empty UDP datagram completes a receive with 0 | `net.rs:696` "At least one byte available", `net.rs:749` "n > 0 bytes copied into user buffer, success" |
| `IrqWakesWrongReceive` (`MCKernel`, `ReceivesFromExpected`) | `irq_notify` does not look at the sender a receiver asked for | `ipc.rs:170` "expected sender PID (0 = accept from anyone)" |
| `StaleIrqOwner` (`MCKernel`, `OwnersAlive`) | exit releases only the last IRQ a process registered | `lifecycle.rs:526` "Clean up IRQ ownership" |
| `SpawnPanics` (`MCKernel`, `SpawnReportsErrors`) | `sys_spawn` panics when memory is exhausted, and no exit returns any | `syscall.rs:281` "usize::MAX on error" |
| `WaitForStranger` (`Identity`, `WaitsForOwnChild`) | a parent is a PID, and PIDs are reused | `lifecycle.rs:1031` "belongs to us" |
| `RxBuffersLost` (`Virtio`, `RxBuffersConserved`) | `receive` skips an element without a frame and does not publish its buffer again | `virtio.rs:513` "Invalid — re-provision and skip" |
| `NetClosedUdp` (`Net`, `ClosedSocketEndsRecv`) | closing a UDP socket does not end another process's NET_RECV on it | `net.rs:278` "or usize::MAX on copy failure / closed socket" |

Two more were met while writing `Interp` and are excluded from its workload: a
branch to the function's own label goes to the end of the body without leaving the
call frame (`interp.rs:739`), and a loop that has a result loses it at its end when
operands lie below it (`interp.rs:920`).

### Refinement

`Rendezvous` describes processes that compute, send, call, reply, receive, wait,
spawn and end. A blocked process carries what it blocked with; an active one
shows its result registers; Ready and Running are the same. `KernelRefines` maps
the process table to it. TLC checks that each trap is one of its steps or
changes nothing: scheduling is invisible, and a handler does to another process
only what the abstract step allows. `Rendezvous!Local` lets a process compute in
any step, so that a register changed behind a process's back is the business of
`ReadyKeepsRegisters`.

`BufferExchange` describes buffers that a driver and a device hand to each other
through two queues. `Virtqueue` maps the stretch of the ring between two indices,
which wrap, to each queue; a buffer is still its owner's between the write of the
entry and that of the index.

## Proofs

Every theorem holds for every value of the constants that the assumptions of the
modules admit. `tlapm X.tla` checks a module; most take a minute or two. The steps
of an invariant proof are those of the code: a lemma per function, a lemma per
handler, one case per action.

### Kernel

`KernelProofs` proves, for every table size, number of IRQs, word size, boot
set, heap and workload, the invariant `IInv`:

    IInv == TypeOK /\ RunningIsCurrent /\ IdleOnlyWhenBlocked /\ NoSchedulerPanic
            /\ NoMissedRendezvous /\ WaitsForLiveChild /\ AcksItsOwnIrq

`KernelInvariant` is `Spec => []IInv`; the theorems below it take its conjuncts
one by one. The conjuncts need each other. A handler that blocks ends in
`schedule`, which neither panics nor idles wrongly because the handler found the
caller Running (`RunningIsCurrent`) and leaves it blocked, hence alive. An exit
makes a slot Free, and that does not leave a parent waiting for a dead child
because every waiter is the parent (`WaitsForLiveChild`), so that there is one
at most and the exit wakes it. A spawn overwrites a slot, and that creates no
missed rendezvous because the slot was Free. `AcksItsOwnIrq` survives an exit
because the two tables agreed before it. `ScanLemma` shows that the round-robin
index reaches every slot, which is what idling rests on.

The action properties say what a step does to each process. `Outcome(st, rg)`
says that after a step every slot has the state `st[p]`, Ready and Running being
the same, and its process the registers `rg[p]`, be they in the frame or in the
context. A lemma per scheduler function gives the outcome of a switch: nothing but
Ready and Running changes. A lemma per handler gives the outcome of the trap, and
each property is read off the outcomes. `CallsEndByReply`, `SendsReturnOnDelivery`
and `WaitsReturnExitCode` hold of every workload. Three theorems have a hypothesis,
because the code does not do what the property says without it:

| Theorem | Hypothesis | Because |
|---|---|---|
| `FrameIsNextProcess` | no SYS_YIELD in the workload | `YieldClobbers` |
| `ReceivesAreFromExpected` | no SYS_IRQ_REGISTER | `IrqWakesWrongReceive` |
| `ExitReleasesIrq` | one usable IRQ number | `StaleIrqOwner` |

`KernelImplementsRendezvous` is the refinement, again without SYS_YIELD:
the initial states are initial states of `Rendezvous`, and each outcome is one of its
steps or changes nothing. The mapping shows what a blocked process waits with, so
it needs `RefInv`: a blocked sender's a1 is still the value in its slot, and the
second result of a waiting process is still 0.

### Memory

`MemoryProofs` proves `PagesExclusive`, `KernelStaysMapped`, `TlbCoherent` and
`OutOfMemoryOnlyWhenFull` for every page size, heap, bitmap word, kernel layout,
number of processes and set of images, provided that processes pass no heap page but
their own to SYS_MAP and SYS_FREE_PAGES (`KeepToOwnPages`, a hypothesis of each theorem;
without it the code refutes them, see `FreesPageTable`). None of them is inductive: they say which
pages are used, not why no table can be reached twice. The invariant is that the
pages of the heap can be tagged: free, a user page of p, the root of p, or the
table at index i, or i and j, of p's tree. `Assigned(g)` says that the tags `g` fit:

- a page that is not tagged free has its bit in the bitmap set;
- `Space`: the tree below `root[p]` has at each place the page tagged with that
  place, has no leaf above level 0, and its entries for user mode are of user
  pages of p;
- `KernelMapped`: each kernel page has an entry that maps it to itself;
- what p holds is tagged as a user page of p.

`IInv` is that such tags exist, and that the TLB agrees with the installed table. As a
place has one page and a page one tag, tables are disjoint. TLC cannot evaluate
`IInv`, which quantifies over all taggings; it checks the four properties.

The argument goes up with the code. `PartsDiffer`: addresses below `VaLimit` with
the same three indices are in the same page. `AllocLemma`: the bit scan finds a free
page exactly if there is one. `FrameLemma`: a space does not change when pages that
are not its tables do. `LinkMid`, `LinkLow`, `WriteEntry`: the three ways
`map_page` writes. `MapPage`, `MapRange`, `MapKernelRegions`, `NewRoot`, `LoadPage`,
`LoadSegment`, `LoadBuilds` and `CreateBuilds` are the functions; each gives the tags
after it, keeps those of pages in use (`Keeps`), and panics only when the bitmap
is full. `RangeFinds` and `CopyKeeps`: a copy to a user writes to that user's pages
only. A free is where the protocol of the callers enters: the page is one no entry
of its process refers to, and those of others refer to pages tagged as theirs.

`CopiesAllOrNothing` is the action property `CopyIsAllOrNothing`, for buffers that
`Fits` describes: they touch at most `MAX_COPY_CHUNKS` pages, as the comment of the
copies asks (`kvm.rs:431`, "Buffers up to `MAX_COPY_CHUNKS` pages"; the code refuses
longer ones even if each word could be written). `FoundFirst` is the invariant of the
loop in `walk_user_range`: what the first n turns have found is the first `done` words
of the buffer, at the places the page table gives each of them, and the next word is
at the start of the n-th page. That a whole chunk can be written when its first
word can (`WritableWithin`) needs user addresses to end on a page boundary, which
`KvmAssumption` says of `USER_VA_END` (0x8000_0000).

`SpawnLoadsFile` is the action property `SpawnLoadsImage`, for files that `WellFormed`
describes: the data of a segment is in the file without a wrap of `usize` (`parse`
compares a sum that may wrap), and segments share no page with each other or with the
stack. The linker scripts of userspace align every section to a page; where two
segments did share one, the loader would map it twice and the later map would hide the
earlier words. `PageShown` says what a process sees in a page, and the lemmas on
the loader's functions carry it along: the page `load_page` adds shows what the file
says of its addresses (`SegWords`), a page shown before still shows the same words as
long as it is not mapped again (`Adds`), and so do the pages of a segment
(`PagesAdded`) and of the segments loaded so far (`ImageShown`). `SegmentCovered`
is the arithmetic of `pages_needed`: every address of a segment is on a page loaded
for it, also when the segment starts inside a page. `MCImages` are well-formed where
they parse.

The loops are recursive functions. `TurnsExist` shows that such a function exists
for any loop that `Turn` describes, and invariants of loops are proved by
`Upward`: a set that has 0 and with n also n + 1 has every number. (The
induction theorems of the library take an operator, which the provers cannot
instantiate; these take a set.)

### Virtqueue and Virtio

`VirtqueueIsExchange` proves the refinement for every ring size, buffer set and
index width that the ring size divides. `IInv == RingsOK /\ OnePlace`: the
entries between two indices, read modulo the ring size, are buffers, and each
buffer is in one of four places, the driver's, the ring of published buffers, the
device's, the ring of returned ones. `OnePlace` is what bounds the two stretches by
the size of the ring (more entries than slots would name a buffer twice), so that a
write never hits an entry that has not been read; `BufferInOnePlace` states it.

`VirtioProofs` proves `BuffersHaveOneOwner` and `FramesInOrder` for every number of
buffers, of frames and of iterations, by the invariant `WireOK /\ RxInv /\ TxInv`: for
each direction, who owns each buffer at each line of the driver, and that the
marked frames on the wire, in the queues, in the buffers and in what was
delivered form one sequence in order.

### Net

`NetProofs` proves `ParkedHasOperation` and the action property `ResultIsOwn` for every
number of clients, sockets and queued datagrams. The invariant adds the
types of the process table and that a process runs in user mode (`UserRuns`).
`wake_blocked` is a loop over the processes, and each turn takes from the sockets that
the next one sees. The invariant of the loop (`Woken`) says of a process the loop has
passed that it is parked as it was or has its own result, of the others that they are
untouched, and of each UDP queue that it is the queue the poll left without as many
datagrams as processes were given one (`Shift`, `Takers`). So the datagram the next
receiver finds in front is the one in its place. `DoneStep`, `BlockedStep` and the
outcomes of the scheduler show that no later part of a step touches a result.

### UartSystem

`UartOutputInOrder` is `OutputInOrder`, for a greeting of any length, any keys and
FIFOs of any size. `UartProofs` reuses the outcomes of the handlers from
`KernelProofs`. The invariant `UartInv` adds to the kernel's `IInv`:

- `Processes`, `Serves`: init is in SYS_CALL, with the last character it sent, from
  its trap to the server's SYS_REPLY; only then does the server work on a message,
  and the message is that one, in the server's a-registers, in the kernel's copy of
  them while it is not running, or in s1 and s2;
- `Greets`: the greeting written so far is 1, 2, ..., without the character of the
  call in progress until the server has stored it;
- `Echoes(n)`: the first n characters typed have left the receive FIFO, all but the
  one in the server's hand are echoed, and between CR and LF that is CR's line;
- `HasRoom`: two characters at most are in the transmit FIFO. The server looks at LSR
  and then stores, and a timer interrupt in between may print.

The last point needs a FIFO of two characters (a 16550 has 16). init and the server
are the only processes, as `launch` boots them.

### Interp

`InterpProofs` proves type soundness: the five properties of `Validated`, for bodies
of any length and nesting, stacks of any size, any recursion and any results of
arithmetic. Each theorem has the hypothesis `Supported`: no loop has a result, and no
branch goes to a loop around the innermost block or to the function's own label. For
these three constructs the interpreter does not do what the properties say
(`NestedContinue`, and the two in the section before). `UndecodedSound` is the step
that stops at an opcode without a case: control never runs past the body, so it is
one of `Unimplemented`.

The invariant is `Sound`. While a body is built, `Checks` relates each instruction to
the validation states before and after it, one rule per kind of instruction, and the
open blocks to where they started. While it runs, `FramesMatch` says for every active
call that its labels are those of the blocks around its instruction, in order, each
with its kind, the instruction it continues at and the operand height at its
entry, that its operands are as many as validation counts, and that it is in
reachable code. A caller is as validation says after its call; `CallersSaved`
says that it is as it was when it called. The forward scans for END and ELSE are the
subtle part: they count nesting, and the proof shows that what they stop at is the end
of the block that validation opened there, even through unreachable code.

### Assumptions

`ProcessAssumption` (at least one process and one IRQ; PIDs and IRQ numbers are
words), `LifecycleAssumption` (launch creates PID 1), `IrqAssumption` and
`KernelAssumption` (arguments are words), `NetAssumption` (there is a TCP socket),
the assumptions of `Virtqueue` and `Virtio` on sizes, `PageAllocAssumption` (pages have
two words at least, the heap starts on a page boundary, not at 0), `KvmAssumption` (the
layout of `linker.ld` and `platform.rs`: kernel regions start on page boundaries,
share no page with each other or with user addresses, are not for user mode, and
all addresses are below `VaLimit`; user addresses end on a page boundary),
`UartAssumption` (init and the server are the processes that boot; characters are
words), `ValidatedAssumption` and those of `Interp` (sizes) and `MemoryAssumption` (programs are linked to user
addresses, which the loader does not check). TLC evaluates each in the runs whose module extends the one that states it.

### Only model-checked

- Liveness (`ReadyRuns`, `IrqReachesServer`, `TxBuffersComeBack`, `FramesAreReceived`,
  `ReceiverIsServed`, `ConnectEnds`, `WokenRuns`, `InputIsEchoed`, `GreetingCompletes`):
  fairness and ENABLED are not within reach of the prover.
- The runs and configurations that refute a property.

## What is left

Every safety property of a passing run is a theorem; what the liveness properties need
is not within the prover's reach. Worth proving next: that a file whose sums do not wrap
has its data in the file if `parse` accepts it, which needs what `SelectSeq` keeps.

Not modelled:

- `trap.S`: the exchange of `sscratch` and `sp` and the moves of the frame are
  straight-line register code that runs with interrupts off. Taking a handler as
  one step relies on it.
- The steps of `launch()` and of the boot stages: they run once, before interrupts
  are enabled. The state they leave is the initial state of each module.
- `wasm.rs` and `wasi.rs`: a sequential decoder of bytes and host functions that
  copy into and out of the linear memory; nothing they keep outlives a call.
- `console.rs`, and `uart::handle_interrupt`, which echoes in the kernel only while
  no server owns the interrupt.
- `netsrv` and `hello` as programs: they are instances of the arbitrary processes of
  `Kernel` and `Net`. The `net` build answers SYS_CALL to PID 3 itself even when a
  process runs under that PID.
- Weak memory ordering between the hart and the network device.
- `wari`: a scaffold of stubs without state.
