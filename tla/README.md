# Rainstorm OS in TLA+

Rainstorm OS is a small x86-64 kernel written in C and assembly. The Limine boot
loader loads it; it sets up its own descriptor tables, its physical memory
manager and its page tables, draws on the framebuffer and halts. The repository
also holds the host tool of the boot loader, `limine/limine.c`, which makes the
kernel's disk image bootable. This directory holds TLA+ models of the parts of both,
TLC configurations that check them on small instances, and TLAPS proofs about seven
of them.

Paths below are relative to the kernel sources: `memory/pmm.c` is
`src/src/memory/pmm.c` in `PROJECT.json`; `limine/limine.c` is `src/limine/limine.c`.
Properties and definitions carry the names they have in the modules; C functions
keep their names.

## The system and its parts

The kernel runs on one processor and never executes `sti`. What interrupts it are
exceptions, `int` instructions and NMIs. The parts depend on each other like this:

    kmain ── memset(.bss) ── serial, sinks, klog ── gdt, idt ── pmm ── paging ── framebuffer
                                    ▲                  │          ▲       │
                                    └─ isr_handler ◄───┘          └───────┘ frames for tables

| part | code | modules |
|------|------|---------|
| physical memory manager | `memory/pmm.c`, `pmm.h`, `mm.h` | `Mm`, `Bitmap`, `Pmm`, `PmmScan`; abstract `FrameAllocator`; proofs `PmmProofs` |
| paging | `memory/paging.c`, `.h`, `.asm` | `PageTables`, `Paging`; abstract `AddressSpaces`; proofs `TableViews`, `PagingViews`, `PagingForest`, `PagingSteps`, `PagingProofs` |
| memory routines | `utils/memory.c`, `memory.asm` | `MemOps`; proofs `UtilsProofs` |
| kernel entry | `kernel_entry.c`, `boot.asm` | `Boot`; clearing of `.bss` in `BssClear`; console statements in `Console` |
| GDT | `cpu/gdt.*` | `Boot` |
| interrupts | `cpu/idt.*`, `cpu/isr*` | `Interrupts`; proofs `InterruptsProofs` |
| sinks, logging, panics | `utils/sink.c`, `klog.c`, default sink of `printf.c`, output of `isr.c` | `Console`; proofs `UtilsProofs` |
| serial driver | `drivers/serial/serial.c`, `cpu/io.asm` | `Uart` (port accesses), `Console` (use) |
| formatted output | `utils/printf.c` | `Printf` |
| framebuffer | `drivers/screen/framebuffer.c` | `Framebuffer`, composed in `Boot` |
| host tool: block cache, undo log, `--uninstall` | `limine/limine.c`: `device_*`, `uninstall*` | `UndoLog`; proofs `UndoLogProofs` |
| host tool: `bios-install` | `limine/limine.c`: `bios_install` and what it calls | `BiosInstall`, composed in `Limine` |
| host tool: `enroll-config`, `main` | `limine/limine.c`: `enroll_config`, `main` | `EnrollConfig`, `Limine` |

`MC*.tla` modules define the instances for TLC, `MC*.cfg` configure the runs.
Each property has a mutant: an operator named for a plausible mistake, placed just
before the definition it replaces (`UnmapPageNoInvlpg` before `UnmapPage`), with
which TLC finds the property violated. `PROJECT.json` pairs them.

## The models

**Physical memory.** `Pmm` has one action per function of `pmm.c`. The bitmap and
the number of frames are the variables of `Bitmap`, which `Pmm` and `PmmScan` extend;
the bitmap is a function from bytes to sets of bits, so padding bits of the last byte
exist. The memory map is chosen in `Init` among maps that obey the Limine protocol
(`WellFormed`, external). `held` is a history variable: the frames callers own. The
bitmap does not record owners, so freeing another owner's frame is excluded as the
caller's duty; unaligned, untracked and double frees are included. Every call is one
step, because nothing re-enters the allocator; the loops inside the two allocation
functions are the subject of `PmmScan`, one iteration per step. It shows what `Pmm`'s
step `TakeLowestRun` assumes: the lowest run is taken, or there is none.
`FrameAllocator` is the promise to callers, without a bitmap.

**Paging.** The four levels of tables lie in frames, with `RADIX` entries per table.
`PageTables` has what the code does to them as operators on a state of memory and
allocator: the walk, the making of missing tables, the writing and clearing of an
entry, the frames `paging_destroy_pml4` gives back. `Paging` has the variables and one
action per call. Frames come back from the allocator with their old contents.
`paging_init` runs in five stages; a range call takes one step per page; every
allocation may fail and then panics on the spot, with the levels above already
linked. The processor is part of the model: `cr3`, EFER.NXE, and a TLB that may
remember any reachable translation at any time (`TlbFill`) and keeps global ones over
a load of `cr3`. Callers' duties are listed above `Idle` and `MayChange`: they name
PML4s that exist, do not destroy the current or the kernel's one, map no user page as
global and no kernel page as user, and leave the HHDM and the kernel image alone.
`AddressSpaces` is the promise: a user half per address space, one kernel half. Its step
`SetPage` changes one page, of one user half or of the kernel half, and nothing else.

**Memory routines.** `MemOps` executes one call of `memmove`, `memset`, `memsetw`,
`memcmp` or `memcpy`, one iteration or string-move element per step. `memcpy` requires
disjoint areas, as in C; `memmove` does not.

**Clearing of .bss.** The first statement of `kmain` clears the section that holds
its own stack. `BssClear` keeps `memset`'s locals in the memory that is being
cleared. Their order is that of gcc without optimisation (the Makefile gives no `-O`),
which is an external fact. The loop stops when it overwrites its own count, so what
lies above the frame is left as the loader made it.

**From `_start` to the halt.** `Boot` extends `BssClear` and `Framebuffer` with the rest
of `kmain`, in its order: the checks of the boot loader's answers, the GDT, the gates,
the memory manager, the page tables, the mapping of the screen and the first drawing.
Descriptors are packed as `gdt_set_entry` packs them; `Usable`, what the processor
demands of a selector, is external. A page of physical memory is mapped in the higher
half or it is not. A store to one that is not mapped raises a page fault, the fault
becomes a panic, the panic clears the screen, and that may fault again, until the stack
is used up (`StackDepth`). This happens when the framebuffer is not page aligned and
lies behind memory: `paging_map_range` then returns without mapping it
(`kernel_entry.c:156`). When it does map pages, it may run out of frames for tables, and
panics. `DrawsOnlyMapped` says that it happens in no other case.

**Interrupts.** `Interrupts` executes stubs, common path and exit path instruction by
instruction on a stack of tagged words, with interrupts at any instruction, these
paths included. The processor's delivery and `iretq` are external.

**Console.** `Console` has a stack of activations (messages, handlers, panics);
interrupts come between any two steps, also while `klogf` has the default sink
borrowed. A message is a number of characters. `sink_write` with the id -1 reads in
front of the array: that is a nondeterministic choice between nothing and a wild call,
after which the model stops. That a panic clears the
screen is in `Boot`; its stack trace is left out.

**Serial driver.** `Uart` performs the port accesses one by one against a UART that
moves a byte some time after it was written, has a divisor latch behind DLAB, a
loop-back mode, may be absent, and may hold an old byte. A direct call of
`serial_configure_baud_rate` leaves DLAB set and is therefore allowed only before
`serial_init`. There is one writer at a time: an interrupt that logs between the wait and
the `outb` of `serial_write` (`serial.c:50-51`) leaves the register full, and the
interrupted `outb` then overwrites its last character. `LineInOrder` and `AllSent` hold
without such an interrupt; `Console` takes the two for one step.

**Formatted output.** `Printf` converts directives taken as parsed, as the helpers of
`printf.c` do (digits backwards into a bounded buffer, padding, prefix, sign), with
types scaled down in proportion to that buffer. Not modelled: parsing, upper-case
hex, and floating point, which the source disables. A lone `%` at the end of a format
is excluded.

**Framebuffer.** `Framebuffer` takes a drawing call per step, with 32-bit arithmetic
(`U32`) and rows longer than their visible part. A store outside video memory extends
the domain of `memory`, so that it shows. `x + width` and `y + height` must not wrap
(`Representable`): callers' duty, and no caller passes an image yet.

**Undo log.** `UndoLog` is the part of the host tool through which `bios-install`
reaches a device: a cache of one block, written back when another block is needed, and
a log of the bytes each write replaces. Transfers go block by block, one per step, and
each may fail. After a failure the log is reversed and applied, each entry with one
retry; after a success it is stored in a file, which may end up short, and a later
`--uninstall` applies it. The process may be killed between any two steps. Two kinds of
bytes are not restored although `uninstall` says so, and `RestoresOriginal` names them:
`torn`, the bytes a write over several blocks had replaced when it failed, whose entry
is freed (`limine.c:499`), and, once an entry has been given up (`gaveUp`), bytes
outside all entries, since the cache then passes for a block it does not hold. The real
log has 256 entries, and an installation makes at most about 106 writes; the model
reaches its limit.

**bios-install.** `BiosInstall` takes the arguments, the search for a GPT, the
conversion of ISO images, the checks of each MBR entry, the choice of the place of
stage 2 and the writes, in the order of the code and at the code's offsets. The device
is followed at chosen offsets (`Probes`): every field of the table, every place a
signature is looked for, both ends of every area that is written. Any access may fail
(`Trouble`); the undoing that follows is one step here, as `UndoLog` shows what it does.

**enroll-config.** `EnrollConfig` searches for the signature one byte per step, with the
step back after a failed match, and stores the file, which may fail half way.
`Limine` is `main`: it dispatches to both; commands that only print are exit codes.

## The runs

| run | checks |
|-----|--------|
| `pmm` | free and held frames partition exactly the usable memory outside the bitmap (`Accounting`), the free size is exact in spite of padding bits (`FreeSizeExact`), and refinement of `FrameAllocator` |
| `pmm_scan` | the search returns the lowest run (`ReturnsLowestRun`), panics only without one (`PanicsOnlyWhenExhausted`), ends (`CallEnds`) |
| `paging` | no frame is lost, shared or freed in use (`FrameOwnership`), the kernel stays mapped with the rights of its sections (`KernelAlwaysMapped`), one kernel half (`KernelHalfShared`), no stale translation (`TlbCoherent`), exactly the rights asked for (`MapsAsAsked`), refinement of `AddressSpaces` |
| `mem_ops` | results of all routines for all placements (`CopiesSource`, `FillsExactly`, `ComparesFirst`) |
| `boot` | all below the stack is cleared (`StaticsCleared`), exceptions can be taken and return once the gates are loaded (`SegmentsValid`), drawing faults only in the case above (`DrawsOnlyMapped`), visible pixels read back and nothing else is stored (`DrawnExactly`), the kernel comes to its halt (`BootHalts`) |
| `interrupts` | the handler sees the interrupted state on an aligned stack (`HandlerSeesRegisters`); `iretq` resumes exactly (`ResumesExactly`); an exception without a handler ends in a panic before the code it hit goes on, and without one `kmain` does (`InterruptsEnd`) |
| `console` | nesting never leaves the wrong default sink (`SinkDiscipline`), logs and panics go to their sink and only `kprintf` without a port goes wild (`RightReceiver`), ids are not reused (`IdsStayTheirs`), a panic halts (`PanicHalts`) |
| `uart` | characters leave in order and without the test byte (`LineInOrder`), all of them (`AllSent`), and the test takes no old byte for its own (`TestIsGenuine`) |
| `printf` | `ksnprintf`'s contract at every length and count (`SnprintfContract`); integers as C specifies in the domain `FollowsC` (`IntegersFollowC`) |
| `undo_log` | no write is lost in the cache (`CacheCoherent`), a reported success of `uninstall` is true (`RestoresOriginal`), `uninstall` ends (`UninstallEnds`) |
| `limine` | without `--force` no partition and no file system is lost, but for `Collateral` with blocks of 4096 bytes (`NothingLost`), the table is kept or converted exactly (`TableKept`), the device boots (`Bootable`), only the bytes behind the first signature change (`EnrollsFirst`), commands end (`CommandEnds`) |
| `uart_speed` | expected violation of `SpeedAsAsked`, see below |

`uart_speed` shows a disagreement: `serial.h:41` says that the speed becomes
115200 / divisor, but `serial_configure_baud_rate` writes both bytes of the divisor
to the data port (`serial.c:18`), which is the low byte of the latch. A divisor above 255
loses its high byte. The kernel uses 3 and is not affected.

### Bounds

* Pages have 2 bytes in `pmm` and `paging`, so a bitmap of three bytes spans two
  frames. The four memory maps have padding bits, none, an entry too short for the
  bitmap, and no place for it at all.
* `pmm_scan` takes every bitmap of 0, 6, 8 and 9 frames, with padding bits all 0 or
  all 1, and counts up to 4.
* `paging`: tables have 4 entries. `paging_init` needs 13 of the 19 frames. What is left is
  enough for a user page and a kernel page (in a PML4 entry that nothing uses at boot),
  but not for all that can be asked, so every allocation fails somewhere. There are two
  address spaces, three sets of rights, an aligned and an unaligned address, and ranges
  of no byte and of one that ends inside its page. Ranges over several pages are those
  of `paging_init`. The two are the kernel's, whose lower half may be used as well, and
  one that is created; with a third the run takes too long.
* `mem_ops`: memory of 6 bytes, words of 2, all areas.
* `boot`: stack slots of two base-8 bytes, two stack positions, sizes of `.bss` from
  the frame alone to almost twice that. The screen has 3 by 2 pixels in rows of 6 words, one
  and a half pages, at addresses aligned and not, inside memory, across its end and
  behind it. Images are smaller and larger than the screen.
* `interrupts`: vectors 2, 3, 14 and 40 (NMI, breakpoint, page fault, `int`), two
  interrupts, so that one hits every instruction of the other's path.
* `console`: three sink slots, so that registration fails; two calls after boot and
  two interrupts, which nest. `uart`: bytes of 8 values, three initialisations, three
  characters.
* `printf`: all combinations of type, flags, six widths, four precisions (none, negative, 0, 3) and six
  arguments; formats of up to three directives for the buffer contract.
* `undo_log`: three blocks of two bytes; buffers inside a block, over two, and overlapping;
  three log entries. Each buffer has its own value, so a byte tells its writer.
* `limine`: MBRs with every combination of unused and good entries and at most one odd one
  (too low, bad status, in use or not), file systems of each kind, GPTs with blocks of
  512 and 4096 bytes, ISO images with either that can be converted, cannot, or fail later
  checks,
  LBAs beyond the last cylinder, and offsets that overflow (integers of 2^25 and 2^30
  values). Files have up to 10 bytes of two values, with a signature that overlaps itself.
  Deadlock is not checked: the tool exits.

### Fairness

Weak fairness is assumed only of the processor continuing the code it is executing
(`Step`, `Kernel` in `Boot`, `Running`, the interrupt paths, the accesses of `Uart`), of
the UART sending a byte it holds, and of the host continuing the tool (`Run` in
`UndoLog`, `Tool` in `Limine`). A failing transfer or a kill is never forced, and never
excluded. No fairness is assumed of calls or interrupts; their numbers are bounded, so
`InterruptsEnd` and `PanicHalts` say nothing of endless interrupts.

## The proofs

| module | theorem | statement |
|--------|---------|-----------|
| `PmmProofs` | `PmmInvariant` | `Spec => []PmmInv` |
| | `PmmAccounting`, `PmmBitmapPlaced` | `Accounting`, `BitmapInUsableMemory` always |
| | `PmmRefinement` | `Spec => ImplementsFrameAllocator` |
| | `ScanInvariant` | `ScanSpec => []ScanInv` |
| | `ScanReturnsLowestRun`, `ScanPanicsOnlyWhenExhausted`, `ScanInBounds` | results of the search |
| `PagingProofs` | `PagingInvariant`, `PagingSeen` | `Spec => []IInv`, `Spec => []ViewInv` |
| | `PagingFrameOwnership`, `PagingKernelHalf` | `FrameOwnership`, `KernelHalfShared` always |
| | `PagingTlbCoherent`, `PagingKernelMapped` | `TlbCoherent`, `KernelAlwaysMapped` always |
| | `PagingMapsAsAsked` | `Spec => MapsAsAsked` |
| | `PagingImplements` | `Spec => ImplementsAddressSpaces` |
| `InterruptsProofs` | `InterruptsInvariant` | `Spec => []IInv` |
| | `HandlerTheorem` | `HandlerSeesRegisters` always |
| | `ResumeTheorem` | `Spec => ResumesExactly` |
| `UtilsProofs` | `MemInvariant` | `MemSpec => []MemInv` |
| | `MemCopiesSource`, `MemFillsExactly`, `MemComparesFirst` | results of the routines |
| | `ConsoleInvariant` | `Spec => []IInv` |
| | `ConsoleSinkDiscipline`, `ConsoleRightReceiver` | `SinkDiscipline`, `RightReceiver` always |
| | `ConsoleIdsStayTheirs` | `Spec => IdsStayTheirs` |
| `UndoLogProofs` | `UndoInvariant` | `Spec => []IInv` |
| | `UndoCacheCoherent`, `UndoRestoresOriginal` | `CacheCoherent`, `RestoresOriginal` always |

They hold for every page size, memory map, bitmap, table size, pool of frames, number of
address spaces, word size, stack, set of vectors, device, log, number of sinks and depth
of interrupts that the named assumptions allow. TLC evaluates the assumptions on the
instances of the runs:

* `PageSizeAssumption`, `MemMapAssumption` (the Limine protocol), `ClientAssumption`,
  `ScanAssumption`, `MemAssumption`, `DeviceAssumption`, `ConsoleAssumption` (there are
  two sinks or more; the code has 256);
* `PagingAssumption`: tables have at least two entries, the HHDM and the image are page
  aligned, the sections are not empty;
* `AddressAssumption`: the HHDM and the sections are apart from each other and in the
  kernel half, and callers name addresses below `Top`, where the four indices tell pages
  apart;
* `InterruptsAssumption`: stubs lie at different addresses, the processor pushes an error
  code for the eight vectors of the manual, and the stack has room for 24 words per
  interrupt.

`PmmInv`, `BitmapInUsableMemory`, `ScanInv`, `InBounds`, `MemInv`, `ViewInv` and the
invariants `IInv` of `Paging`, `Interrupts`, `Console` and `UndoLog` are proved and are
not invariants of a run.

* **Pmm.** `Accounting` speaks of byte ranges of the memory map and is not inductive:
  it says nothing of the padding bits or of the entry the bitmap lies in. `PmmInv` adds
  both, and replaces the ranges by `Pool`, the frames `pmm_init` clears and does not
  mark again. The first lemmas say what setting and clearing bits does to the free
  frames; `StepInv` has one case per action; `PoolIsManageable` turns `Pool` back into
  ranges, with the alignment and disjointness of usable entries. The refinement maps
  `pool` to held and free frames and uses that `PmmInv` keeps their union fixed.
* **PmmScan.** The key conjunct of `ScanInv` is that no run starts below the current
  one. The padding bits are not assumed to be 1.
* **Paging, the tables.** Nothing in the code says which table a frame is, so none of the
  properties is inductive. `IInv` says that kinds and owners can be found (`Sound`): a
  kind for each frame (`free`, `PML4`, `PDPT`, `PD`, `PT`), and for each table below a
  PML4 the one entry that points to it. The kernel entries of all PML4s agree with the
  kernel's (`Half`) and count once. So the tables are a forest, and a frame that is
  taken, linked or given back is a leaf that is added or removed. Entries that point to
  tables are writable, and open to users if anything below them is (`Rights`). `Order`
  relates the phases of `paging_init` with what exists, `Ranges` says what work may be
  left. `PagingForest` has the forest and its changes, `PagingSteps` one lemma per
  action. That `pmm_alloc_frame` returns a free frame needs a least element, which is
  where well-foundedness enters; `FrameOwnership` compares numbers of tables and of
  entries, by a bijection between them.
* **Paging, what the processor sees.** A walk finds the page table of an address through
  the owners, so it is unique, and two addresses below `Top` with equal indices lie in
  one page. Each step, seen from outside, adds an address space, changes at most one page,
  or leaves memory as it is, as the destruction of an address space does (`TableViews`;
  `NextViews` in `PagingSteps`). `PagingViews` shows for these three kinds, without looking
  at tables, that they keep `ViewInv` and are steps of `AddressSpaces`. `ViewInv` says that user halves hold no global page, that
  each page `paging_init` wants is mapped or still to come, that the table the processor
  runs on exists, and that the TLB agrees with it. Of the TLB, what survives a load of
  `cr3` is global, so of the kernel half, which all address spaces share.
* **Interrupts.** `IInv` says of the current state and of every interrupted one how it
  differs from the state below it (`Chain`): the words pushed so far are on the stack, on the
  entry path the registers are as they were, and on the exit path those popped so far are
  again (`OnPath`). An interrupt adds a link to the chain and writes only below the stack pointer.
* **MemOps.** `MemInv` says which bytes are done and that those still to be read are
  untouched; for overlapping areas that is where the direction of `memmove` enters.
* **UndoLog.** That `uninstall` restores everything follows from nothing the code checks
  at that point. The invariant carries it from the first write on: for each byte, the
  oldest entry of the log that covers it holds the original (`LogOriginal`); a byte no
  entry covers is original, on the device or in the dirty cache (`UncoveredOriginal`);
  a byte whose remaining entries are all applied is original (`AppliedOriginal`); what
  `_device_write` has read so far is what the device held (`SavedOriginal`). The proof
  shows first that a transfer of a block keeps it, failed or not, and then does the other
  steps, where the reversal of the log turns "oldest" into "last applied".
* **Console.** `SinkDiscipline` speaks of the top of the stack; to survive the return of a
  log message it must also be known what that message will restore. `Nested` says it:
  each activation of `klogf` holds the default sink that the activations below it have
  left. Every step replaces, pushes or pops the top, so two lemmas on a push
  (`PushBorrowed`, `PushNested`) carry all cases. `RightReceiver` adds `Registered`: the
  slot of the debug sink is its own, which rests on slots above `curr_idx` being unused.

Only model-checked are `FreeSizeExact` of `Pmm` (a sum over a set, so an induction over
data), all properties of `BssClear`, `Boot`, `Framebuffer`, `Uart`, `Printf`,
`BiosInstall`, `EnrollConfig` and `Limine`, and all liveness properties. Liveness under
fairness and induction over recursive definitions are out of the prover's reach; the
other safety properties are not, but no proof of them has been written.

## Other disagreements noticed

Not the subject of a run:

* Vectors 29 and 30 have stubs without an error code (`isr_gen.inc:32-33`), although the
  processor pushes one for them (`isr.h:13` lists what it pushes). The run `interrupts` does not use these two vectors.
* `serial_init` returns the id of its sink (`serial.c:40`); `serial.h:58` says 0 on
  success. `kmain` relies on the id.
* `printf.c`: `%lb` loses digits beyond 32 (`:319`, buffer size `:49-50`); `%#4x` of 0x1234 overwrites
  digits; `%-8.5d` ignores the precision; zero padding of `%#b` is one off; `%#o`
  always adds a 0; a negative `*` precision counts as 0 (`:663`), in C as omitted, so
  `%.*d` of -1 and 0 is empty, `%0` pads with blanks and `%s` shows nothing; `fctprintf` counts a zero character that it does not send (`:184`,
  `printf.h:107`). `FollowsC` names the domain in which integers are converted as in C.
* `limine/limine.c`, `enroll-config`: a file is said to need the length of the signature
  and the checksum (`:1287-1290`), but the bound of the loop (`:1307`) holds for the last
  byte of the signature, so a signature near the end of a file is not found.
  `EnrollsFirst` states which ones are.
* `limine/limine.c`, undo log: the two exceptions of `RestoresOriginal` above; the result of
  `store_uninstall_data` is not looked at (`:1209`); after a failed load of the file the
  entries are freed twice (`:432`, not modelled, as there is no heap in the model).
* `limine/limine.c`, conversion: "Nuke the GPTs" (`:883`) zeroes 34 blocks at the start and
  33 at the end (`:891`, `:896-900`), which is the size of the GPTs with blocks of 512 bytes.
  With 4096 bytes they have 6 (with the MBR) and 5 blocks, and the zeroes reach over the
  volume descriptor of an ISO image and up to 28 blocks into the end of the last partition.
  `Collateral` names these blocks, the one exception of `NothingLost`; the run has such
  images. A partition that starts below block 63 is refused later, and undone.

## Not modelled

* `_paging_flush_tlb` (never called) and `klog_set_debug` (declared, not defined).
* Ranges of paging that cross from one half of the address space to the other; the
  index macros would wrap, and no caller asks for one.
* `x + width` and `y + height` that wrap in 32 bits in `fb_draw_image` (`Representable`).
* The parsing of a format in `printf.c`: `Printf` starts from parsed directives. `_vsnprintf`
  reads character by character; what it accepts is data, not control that other parts see.
* The allocator's bitmap under the page tables: `Paging` has its own set of free
  frames, with the allocator's promise (lowest frame first, old contents).
* The host tool's messages and `--quiet`; the bytes of the boot loader image
  (`limine-bios-hdd.h` is generated; its size is a constant); failures that the C
  library reports only when a file is closed.
* The build files and the linker script, whose layout is a parameter of `Paging` and
  `BssClear`.

## Where to go on

1. Composition of `Paging` with `FrameAllocator` in place of its set of free frames.
   The forest of tables does not depend on which free frame is taken.
2. Proofs about `Framebuffer` (`DrawnExactly`), `Uart` (`LineInOrder`) and `EnrollConfig`
   (`EnrollsFirst`).
3. The parsing of formats, and a run for vectors 29 and 30.
