# JMOS in TLA+

JMOS is a small x86-64 kernel that the Limine boot loader starts on one
processor. This directory holds a TLA+ model of its core, the TLC configurations
that check the model on small instances, and proofs for TLAPS that hold for every
instance. Paths below are relative to the repository.

1. [The system](#1-the-system): parts, state, interactions, hard behaviours
2. [Modules](#2-modules): which module models what, and how
3. [Runs](#3-runs): what TLC checks, bounds, fairness
4. [Disagreements found](#4-disagreements-found)
5. [Proofs](#5-proofs)
6. [Not modelled](#6-not-modelled)
7. [Plan](#7-plan)

## 1. The system

### Parts

| Part | Source | State | Operations |
| --- | --- | --- | --- |
| Boot information | `src/kernel/memory/bootinfo.c` | copy of the memory map (256 regions at most), offset of the direct map, framebuffer | `bootinfo_capture`, getters |
| Physical memory manager | `src/kernel/memory/pmm.c` | bitmap, free count, total, scan hint | `pmm_init`, `alloc_frame(s)`, `free_frame(s)`, `pmm_reclaim_bootloader` |
| Kernel heap | `src/kernel/memory/kalloc.c` | free list in address order, a header in front of each block | `kheap_init`, `kmalloc`, `kcalloc`, `kfree`, `krealloc` |
| Paging | `src/kernel/memory/paging.c` | page tables, in frames | `vmm_clone_kernel_space`, `vmm_load_space`, `map_page` |
| Memory initialisation | `src/kernel/memory/memory.c` | none of its own | `memory_init` |
| Interrupt entry and dispatch | `src/kernel/interrupt/{interrupt.asm,isr.c,idt.c}` | descriptor table, table of handlers, the stack frame the stubs build | `isr_install`, stubs, `isr_handler`, `irq_handler` |
| System calls | `src/kernel/interrupt/syscall.c` | `syscall_table` | `init_syscalls`, `syscall`, `syscall_handler` |
| Timer | `src/kernel/timer/pit.c` | tick count, table of 16 callbacks | `init_timer`, `register_timer_callback`, `timer_callback` |
| Global descriptor table | `src/kernel/memory/gdt.c` | six descriptors | `init_gdt` (called from nowhere) |
| Console | `src/drivers/char_device/` | cursor, device record | `char_device_init`, init, write, read, close |
| Fonts | `src/drivers/font/` | `global_font`, glyph copy | `init_font_format`, glyph lookup |
| Strings | `src/libs/string.c` | `strtok`'s position | copying, searching, comparing, `strtok`, `mem...` |
| Number conversions, formatted output | `src/libs/{stdlib.c,stdio.c}` | none | `atoi`, `strtol`, `strtoul` and kin, `itoa`, `vsprintf`, `printf` |
| Serial port and log | `src/libs/serial.c`, `include/libs/log.h` | `serial_ready`, and the port's own buffer | `serial_init`, `serial_putc` and kin, `LOG_...` |
| Kernel entry | `src/kernel/kernel_main.c` | boot protocol requests | initialises all of the above in order, then halts |
| Tests | `tests/` | | two frameworks, host and on-target |

### How they interact

`kernel_main` calls `serial_init`, `isr_install`, `memory_init`, the font, the
console and `init_timer`, and halts. `memory_init` captures the boot information,
starts the physical memory manager, copies the page tables, loads the copy,
takes over the boot loader's memory and starts the heap. Everything that needs
memory gets frames from one allocator: page tables and heap growth. The console and
the fonts use the heap. Interrupts enter through stubs that build an
`interrupt_registers_t` on the stack and call a C handler; `irq_handler`
acknowledges the interrupt at the interrupt controllers and calls the handler
registered for the vector, for instance `timer_callback`, which calls the
callbacks in its table.

There are no threads and no locks. Concurrency is between the kernel and its
interrupts (the timer's table; any instruction of the entry code and a
non-maskable interrupt), between the kernel and the processor's own walks of the
page tables, and between the callers of a shared frame allocator.

### What is hard, and what makes each part correct

* **Physical memory.** The bitmap lives in memory it manages; regions are rounded,
  the bitmap's size is rounded twice; the counter is kept apart from the bits; the
  scan hint goes stale with every free. Correct: no frame is handed out twice, lost,
  or handed out while in use by the bitmap; the counters tell the truth; a frame is
  found whenever there is one.
* **Heap.** Splits, merges in two directions, growths that may touch older memory, a
  `for(;;)` that ends only because each growth helps; size arithmetic that wraps.
  Correct: blocks tile the heap's frames, each has one owner, adjacent free blocks are
  merged, contents survive, calls return.
* **Paging.** A recursive copy that may run out of frames anywhere, large pages on two
  levels, a switch of tables in mid-flight, memory taken from under the old tables, a
  translation cache. Correct: no page changes its mapping except by request, no
  live table is in the pool, the cache is never stale, no frame is lost.
* **Interrupts.** Three hand-written mirror images (pushes, pops, struct fields),
  error codes on some vectors only, two cascaded controllers. Correct: handlers see
  what was interrupted, the program continues as it was, every interrupt is
  acknowledged.
* **Timer.** A table changed by the kernel while interrupts, and the callbacks
  themselves, read and change it. Correct: what is registered stays and the table is not
  overrun, every callback is called once in each tick, and ticks end.
* **Console and fonts.** Functions called through pointers that earlier calls set or
  failed to set, a cursor that nobody stops, a device and a font that may be closed,
  initialised twice or left half made for want of memory, a description of the
  framebuffer in memory that is given away. Correct: text stands where it belongs, and
  each access faults for no reason but the few the code leaves it.
* **Serial port.** A port slower than the processor. Correct: the log arrives whole.
* **Strings and numbers.** A position kept between calls, operands that overlap, ends of
  ranges that have no counterpart, ends of texts in the middle of something.
  Correct: every token once, copies exact, what is printed is read back.

`PROJECT.json` lists the hazards line by line with the properties that guard
against them.

## 2. Modules

```
FrameAllocator            what a frame allocator promises; Heap, what the heap does
   ^ implements    ^ INSTANCE, implements Heap
  PMM             KHeap      VMM      Interrupts       Timer        Strings      Numbers
   ^ EXTENDS        ^         ^           ^              ^             ^            ^
  PMMProofs  KHeapProofs  VMMProofs  InterruptsProofs  TimerProofs  StringsProofs  NumbersProofs

Serial, Console           the devices' state and operations, without a Next
   ^ EXTENDS
  KernelMain              the boot, which composes them
   ^ EXTENDS
  KernelMainProofs

MC<module> instantiates each for TLC
```

### FrameAllocator

The promise: an allocation takes a run of available frames, whichever, or is refused
because there is none; frames that come back were held; memory is donated. `PMM`
implements it (checked by the property `Implements`, proved by the theorem
`Refinement`). `KHeap` and `VMM` use its actions for the calls they make of
`pmm.c`, so they are checked against the promise and not against one bitmap.

### PMM

One action per function; nothing preempts a call. Frame numbers stand for
addresses, the set `clear` for the zero bits of the bitmap, `phase` for which of
`pmm_init` and `pmm_reclaim_bootloader` have run. `held` is not in the code: it is
what callers have been given, which the code trusts them to know. Callers may also
free what the code guards against: frame 0, a frame that is free, one out of range.
When no region holds the bitmap, the code leaves a null pointer and
the next call reads through it: action `BitmapFault`.

| Code | Model |
| --- | --- |
| `bm_test/bm_set/bm_clear` | membership in `clear` |
| `free_region` and its rounding | `RegionFrames`, `FramesOfKind` |
| `pmm_init` | `PmmInit`, `IsHighest`, `FittingRegions`, `BuildBitmap` |
| `alloc_frame`, its two passes | `AllocFrame`, `Candidates`, `Pass` |
| `alloc_frames` | `AllocFrames`, `RunStarts` |
| `free_frame(s)` | `FreeFrames`, `Freed`, `IsHintAfterFree` |
| `pmm_reclaim_bootloader` | `ReclaimBootloader`, `Regained` |

### Heap

What `kalloc.h` promises: memory is a set of bytes that only grows; a request is met with at least
as many bytes as asked for, aligned, anywhere nobody holds any, or with NULL and nothing changed;
what is held stays where it is and as large until its holder frees it or `krealloc` moves it, and the
old bytes are still the holder's while it is answered, since they are copied after. There are no blocks,
headers, lists or frames in it. `KHeap` implements it (checked by the property `Implements`, proved
by the theorem `Refinement`): `Memory` is the bytes of the heap's frames, `Room` the size field in front
of each pointer, `Pending` the call in the loop of `kmalloc`.

### KHeap

`heap` holds the free list and the size fields of all headers; addresses are byte
addresses and payloads follow their headers. `kmalloc`'s loop is a step for each
turn (`Grow`, `Fit`, `GiveUp`); the call in progress is in `call`. Handles stand for
the kernel's pointer variables; `intact` records which bytes of each still hold what
the owner wrote, so that an overlap of blocks, a header written over data or a
short copy in `krealloc` shows. `size_t` wraps at `SIZE_MOD`. Other callers take and
return frames between heap calls (`OtherTakes`, `OtherReturns`), so that growths
land anywhere.

### VMM

`memory_init` and `paging.c`. Each activation of the recursive `clone_table` is a
record of `stack`, and one step copies one entry; `map_page` takes a step per level;
between any two steps the processor may walk the live tables and keep the result in
its TLB (`Access`). A table is a function from indices to entries with flags;
`TranslationIn` is the processor's walk, with rights as all levels agree on them.
`alloc_frame` here also takes the lowest frame, as `PMM` guarantees (`LowestFirst`, proved);
this makes the state space small. `stray` records memory that was used as a table and
is not one.

### Interrupts

The entry code is data: each stub is a sequence of instructions (push, pop, drop,
call, iretq) that are executed one in each step on a stack of words that carry their
origin. A handler's view of `interrupt_registers_t` is the stack read from its
pointer up, with the fields in the order of `registers.h` (`Field`). C handlers
overwrite the caller-saved registers. A non-maskable interrupt may come between any two
instructions outside its own handler. `set_idt_gate_descriptor` keeps its arguments and the
processor's tests of a gate are `Usable`; a vector that cannot be taken
becomes a fault, a double fault, and a reset. The PICs are the set `in_service`.

The arguments the code passes to `set_idt_gate_descriptor` are constants of the
module. With the code's own values no gate is usable (run `interrupts_table`), so
that no stub is ever reached; the other runs take the values the signature calls
for (`ist` 0, `flags` 0x8E), to check the entry code for itself. `CODE_SELECTORS = {8}` in all runs assumes
a descriptor table such as `init_gdt` would load. `register_interrupt_handler` may put a
handler in its table at any time, before `isr_install` too; the handler of line 0 is
`timer_callback`, which ends the interrupt a second time (`Handled`): the PIC has it in
service no longer, so the second end must not reach another line.
The processor pushes an error code for vectors 21, 29 and 30 as well; they need control-flow
enforcement or an encrypted guest, neither of which the kernel turns on, and `WithErrorCode` leaves them out.

### Timer

Two actors share the callback table. `register_timer_callback` loads the count for its check
(`Register`, `pit.c:39`), loads it again for `slots[count++] = callback` (`Load`, `pit.c:42`), and
stores slot and count in an order the language leaves open (`Store`). The interrupt comes between any
two of these; a build that keeps the first load is one of the model's behaviours. The interrupt runs to
its end, one callback per step, and callbacks may register callbacks. So the kernel's check may be stale
when it loads again: with one slot left it stores behind the table (`StoreBeyond`), and the loop
calls through what lies there (`CallBeyond`). `overrun` records either and ends the model, since what
lies behind the table is the linker's choice. `overtaken` is history: a callback has registered one since
the kernel checked the count and before it stored it. `latch` is what the device was given: a divisor cut to
two bytes, so below 19 Hz and above 1193180 Hz not what was asked for.

### Strings

An arena of cells; every function of `string.c` but `strerror`. Those that only read are
operators on the arena, most of them by the first turn at which their loop stops (`Turns`);
those that write are actions. What the code requires of its callers (`restrict`
operands apart, a terminated string, room) is in the guards; a read outside the arena has no value, so
TLC stops at one. `strncpy` and `strncat` write no 0 after n characters, as in the code.
`job` remembers the string being split and the tokens returned, for the property only; a write into
that string ends it.

### Numbers

A buffer that is printed into once (`itoa`, `sprintf`, the serial port's `put_hex` and
`put_dec`) or is a literal, and read from call by call. Widths are parameters; where the C
standard leaves signed overflow undefined the model wraps, as the compiled loops do.
`Turns` is the loop of `vsprintf`, a recursive function over the positions of its format: what each
turn deals with, a conversion or a plain character, and where the loop ends (`stopped`). A list of
arguments has an entry for each turn, `None` where none is taken; `Printed` is what a turn prints of
it, remembered for the property. `atoi`, `atol`, `atoll` are one operator, as are `strtol` and
`strtoll`, `strtoul` and `strtoull`, whose loops are the same.

### Serial, Console, KernelMain

`Serial` has two actors: the processor, which polls the status (`tx_empty`) and writes a
byte (`serial_putc`), and the port, which sends when it likes (`Transmit`) and drops what it has no room
for. `Console` has the font, the device and the loop of `write_to_tui`, a glyph per
step; `kmalloc` may fail at any call; a read through a bad pointer, a call through a null one and a free of
what is not allocated are the variable `fault`, which ends everything (`Interrupts` shows
that nothing returns from an exception). Its value is the access that faulted: a call, the device's
block, a `kfree`, the glyph, the pixel. `missing` is history that no faulting step touches: whether the
last call to make the font or the device failed, or the font was closed since. Both modules give
actions on their own variables only.

`FaultExplained` gives each of these accesses the reasons it may have to fault, and no access may
fault for another's. The device's block has none: it is never read or freed after
`close_tui_char_device` has given it back. A call faults only if `kmalloc` had nothing for the device, the
`kfree` of the font's data only if no font was ever made, the glyph only if the last call failed to make the
font, or it was closed, or it lacks the character, and the pixel only if the screen is full or the
description of the framebuffer is overwritten. These reasons are faults of the code (a dropped error
code, a signed char, a cursor that nobody stops, memory given away while in use); the property
says that there are no others, and cannot catch these. A fault for want of the frame bitmap is `PMM`'s
(`BitmapFault`) and stands apart.

`KernelMain` puts them in the order of `kernel_main`, with `memory_init` in outline
and `bootinfo_capture` in full: a machine may lack a framebuffer, memory, or room for the bitmap, the
map may be longer than the table. The boot loader's description of the framebuffer lies in memory
that is reclaimed, so that from then on any growth of the heap may overwrite it (`fb_intact`).
`kernel_main` halts after its greeting; the modules are also meant for a kernel that goes on, so up
to `MaxCalls` further calls of the console and the font may come in any order.

## 3. Runs

| Run | States | Shows |
| --- | --- | --- |
| `pmm` (`PMM.cfg`) | 2,624 | count, conservation, lowest frame first, bitmap storage, and `PMM` implements `FrameAllocator` |
| `kheap` (`KHeap.cfg`) | 300,299 | tiling, ownership, coalescing, data, one growth suffices, and `KHeap` implements `Heap` |
| `kheap_returns` (`KHeapReturns.cfg`) | 1,157 | every call returns, though `heap_grow`'s sum may wrap |
| `vmm` (`VMM.cfg`) | 38,466 | mappings stable, live tables held, TLB coherent, nothing leaked |
| `interrupts` (`Interrupts.cfg`) | 33,944 | what handlers see, what programs get back, acknowledgement |
| `timer` (`Timer.cfg`) | 17,736 | what is registered stays unless overtaken, all callbacks called, ticks end |
| `strings` (`Strings.cfg`) | 11,575 | `strtok` among other calls, `memmove`, the searches agree |
| `numbers` (`Numbers.cfg`) | 91,866 | printed numbers are read back, end pointers, ends of formats |
| `kernel` (`KernelMain.cfg`) | 75,699 | the log arrives, the greeting is shown, text in place, each access faults for no reason but its own |
| `interrupts_table`, `interrupts_report`, `interrupts_discard` | | violations, see section 4 |

### Bounds, and why they are enough

* **`pmm`** Six memory maps: from address 0; a bitmap that takes two frames; unaligned
  bases and ends with the null frame in memory to be reclaimed; a region the bitmap fills;
  no room for the bitmap; no memory. A frame has two bytes, so one frame of bitmap
  spans 16 frames and the rounding of bits to bytes to frames is all exercised. Runs of 0, 2
  and 3 frames, and single ones. The theorems lift all of it to any map.
* **`kheap`** Pages of 8 bytes and headers of 2, three pointers, sizes 1, 4 and 8 (no
  split, split, more than a growth), four frames of which three touch (growths
  that merge and one that cannot). `SIZE_MOD = 64` keeps the pool's addresses well
  below the wrap, as 2^64 does; the run `kheap_returns` adds a size right at it. Pointers are interchangeable, so `kheap` uses symmetry; `kheap_returns`
  checks liveness and does not.
* **`vmm`** Two entries in a table give each level an entry to follow and one that
  differs. The boot loader's tables have one table on each level and pages of 1GiB, 2MiB and
  4KiB. Pools of three frames (the copy fails) and four (it just succeeds and what `map_page` gets
  is reclaimed memory). `map_page` is asked for a page that is mapped and for one that
  needs three new tables.
* **`interrupts`** Exceptions with and without an error code, lines 0, 7, 8 and 15 (the edges of
  both PICs), a system call that is in the table and one that is not. Programs do not
  nest, but a non-maskable interrupt nests in any stub.
* **`timer`** A table of 3 slots, so that the kernel and callbacks fill it within reach, and with one slot
  left overrun it; `MaxTicks = 3`
  bounds the ticks; frequencies 18 and 19 around where the divisor stops fitting 16 bits, the
  kernel's own 100, and 1193180 and 1193181 around where it becomes 0.

* **`strings`** Six cells and two characters besides 0: every content to begin with, room for three
  tokens, for two strings beside each other, and for operands of `memmove` that overlap either way. One
  delimiter and two, so that tokens can be empty of neither.
* **`numbers`** An `int` of 4 and a `long` of 8 bits, both with their least and greatest numbers,
  signed and unsigned, in bases 2 to 36 and two that are none; all texts of up to three of six
  characters (a blank, a sign, 0, 1, 8, x) and some longer ones, read twice in a row; a format for
  each case of `vsprintf`'s switch, complete or cut short.
* **`kernel`** A port that holds two bytes, fewer than a line has; screens with room for four
  glyphs, two and none, against a greeting of three; tables of two regions and maps of up to three; three calls
  after the boot, enough to close, initialise again and write.

`Timer.cfg` and `Numbers.cfg` do not check for deadlock: with the table full and
`MaxTicks` reached, or the table overrun, or a text read `MaxReads` times, the model stops. Everywhere else deadlock is checked; where the
machine stops for good (`hcf`, `isr_handler`'s loop, a reset, a null bitmap), an explicit
stuttering action says so.

### Fairness

* `KHeap`: weak fairness of `Step`, the steps of a heap call in progress. Nothing
  preempts a call for good, so the processor carries it on. What callers do is not fair.
* `Timer`: weak fairness of the interrupt's own steps. It runs with interrupts off
  until its `iretq`. That a tick ever comes is not assumed.
* `KernelMain`: weak fairness of the processor (`Cpu`), which nothing else competes for, and of
  the port (`Port`), which sends what it holds. A port that never answers would hang the
  boot in `serial_putc`; that one does answer is what the fairness assumes of it.
* `PMM`, `VMM`, `Interrupts`, `Strings` and `Numbers` state safety only and assume none.

## 4. Disagreements found

Each is a run in which TLC finds the statement of a comment or a log line violated.

| Run | Code | Says | Does |
| --- | --- | --- | --- |
| `interrupts_table` | `isr.c:10` | "IDT installed" | `ist` and `flags` are swapped: no gate is present, the first interrupt resets the machine |
| `interrupts_report` | `interrupt.asm:69` | "1: Debug", `int_no, err_code` | stubs 1 to 3 push number and error code the wrong way round |
| `interrupts_report` | `interrupt.asm:142` | the report prints `rip` | stubs 8, 10 to 14 and 17 push a second error code; every field after it is off by a word |
| `interrupts_discard` | `interrupt.asm:275` | "discard int_no" | 15 saved registers lie above it; `iretq` takes `r14` for the return address |

Those of the stubs are hidden by that of the table: with no usable gate no stub runs.

Also met while modelling, in the models, and not the subject of a run:

* `kalloc.c:83`: a size within 15 of `SIZE_MAX` wraps to 0 when rounded up and gets a block without room.
* `paging.c:26`: `map_page` for an address under a large page takes that page's first frame for
  a table. It has no caller yet.
* `pit.c:39` and `:42`: a callback that registers a callback while the kernel is registering one may get
  the same index, and one of the two is lost; if it takes the last slot between the kernel's check and
  its second load of the count, the kernel stores behind the table and a tick calls through that.
  Nothing calls `register_timer_callback` yet.
* `pit.c:23`: a frequency below 19 Hz or above 1193180 Hz gets another divisor than asked for.
* `interrupt.asm:424`: a system call without an entry in the table jumps to address 0.
* `tui_device.c:47`: the message has 25 characters and the count is 27, so that the 0 and the
  byte behind it are drawn too; the function returns nothing, though it has a type.
* `tui_device.c:40`: output below the last row is written behind the framebuffer.
* `tui_device.c:31`: a pixel is stored as four bytes whatever the depth. With 24 bits and rows without
  padding the last pixel of the last row reaches a byte behind the framebuffer (`RowsHoldPixels`, the
  condition under which `ScreenShowsText` is proved, is false there).
* `tui_device.c:22`: a character above 127 has no glyph, and the null pointer is read through.
* `font.c:17`, `tui_device.c:62`: without memory the console's functions stay unset and are called.
* `stdlib.c:101`: the 0x of "0xg" is skipped though no digit follows.

## 5. Proofs

Every safety property of the runs is proved. A theorem holds for every value of the constants that satisfies the named assumptions. What a run
shows of its instance, the theorem shows of any.

### The frame allocator

`PMMProofs` proves every property the run `pmm` checks and two more, as theorems of `PMM!Spec` for
every page size, every set of memory maps and every set of run lengths.

| Theorem | Property |
| --- | --- |
| `TypeCorrect` | `TypeOK` |
| `CountCorrect` | `FreeCountExact` |
| `ConservationCorrect` | `FramesConserved` |
| `HintCorrect` | `HintSound` (in `PMM`, the argument's own invariant) |
| `LowestFirstCorrect` | `LowestFirst` |
| `BitmapCorrect` | `BitmapHoldsEveryFrame` |
| `FaultCorrect` | `FaultOnlyWithoutRoom` |
| `TotalCorrect` | `TotalAccounted` (in `PMM`) |
| `Refinement` | `Implements`, that is `Frames!Spec` |

**Assumptions.** `PageSizeAssumption` (positive), `CountsAssumption` (natural numbers) and
`MapAssumption`: the map is a sequence of regions; a usable region does not end below its rounded-up
base (or line 67 of `pmm.c` would wrap around); reclaimable memory overlaps no usable region's
frames. The last two are what the boot protocol guarantees. TLC evaluates all of them in the run
`pmm`.

**Argument.** `IInv` is inductive: `TypeOK`, `Dormant` (nothing is free or held while there is no
bitmap), `FreeCountExact`, `FramesConserved`, `HintSound`. They are not inductive one by one. The
count stays exact when a frame is freed only if frames that are held are not also free; conservation
survives `pmm_init` only if the region chosen holds the whole bitmap, which takes the rounding
lemmas (`AlignUpBounds`, `StorageInRegion`, `HighestCovers`), and survives the reclaim only because
reclaimable memory was never usable. There is one lemma for each operation. `HintSound` gives
`CandidatesAreClear`: the second pass of `alloc_frame` never finds anything. From that follow
`LowestFirst` and the refinement: a refusal by `alloc_frame` means there is no free frame.
`StorageInv` and `TotalInv` are inductive on top of `IInv`.

### The heap

`KHeapProofs` proves every safety property the run `kheap` checks.

| Theorem | Property | Condition |
| --- | --- | --- |
| `TypeCorrect` | `TypeOK` | |
| `TileCorrect` | `BlocksTile` | |
| `OwnedCorrect` | `EachBlockOwned` | |
| `CoalescedCorrect` | `FreeListCoalesced` | |
| `RoomCorrect` | `AllocationLargeEnough` (not run: `Implements` includes it) | `NoRoundingWraps` |
| `Refinement` | `Implements` | `NoRoundingWraps` |
| `DataCorrect` | `DataIntact` | `NoRoundingWraps` |
| `OneGrowthCorrect` | `OneGrowthSuffices` | `NoGrowthWraps` |

**Assumptions.** `SizesAssumption`: a page is a multiple of the alignment and the wrap a multiple of
the page, the least growth is neither 0 nor as much as the wrap; `PoolAssumption`: frame 0 is not in
the pool, and its addresses are below the wrap. The conditions are on what callers ask for:
`NoRoundingWraps` that no request wraps to 0 in `align_up` (`kalloc.c:20`, `:83`), `NoGrowthWraps`
that no request wraps in `heap_grow`'s sum (`:58`). The code guards against neither. A request that
wraps gets a block without room (section 4), so the theorems need the conditions; everything not
under a condition is proved for requests that wrap as well. TLC evaluates both for the run `kheap`;
the size 62 of `kheap_returns` is outside `NoGrowthWraps`.

**Argument.** `IInv` has four parts. `FramesInv`: the heap's frames and the pool are apart.
`HeapInv`: blocks overlap nowhere and cover just the frames the heap was given, and the free list is
in address order with no two neighbours on it. `OwnerInv`: each block not on the list is some
pointer's, and no two pointers'. `UserInv`: types of what callers asked for and wrote. They need
each other. A `kfree` merges with a neighbour by comparing ends with beginnings, and that the sum
stays a block takes the tiling; that the tiling survives takes that the freed block was nobody
else's and not free already; and an insertion keeps the list in order only because tiles do not
overlap. A growth adds a tile that may touch older ones on both sides, which is where `FramesInv` is
needed. The facts about the operators come first: what a split, a merge of two tiles, an
insertion at the place the code's walk ends, and a removal from the list do to tiling and order.
`RoomInv` (a block is at least as long as what was asked for), `DataInv` (what a pointer's owner
wrote is still there, all of it) and `GrowthInv` (after a growth the list has a block that fits) are
inductive on top of `IInv`.

The refinement takes `IInv` and `RoomInv`, with a lemma for each operation. The step that matters is
`Fit` (`FitRefines`): what it returns is the payload of a tile, and the payloads of tiles are apart
(`PayloadsApart`), right after the split and before a moving `krealloc` frees the old block; its size
is not changed when that block is merged with others. `heap_grow` only extends memory
(`GrowthRefines`), and the sizes of blocks in use are never written (`RoomsKept`).

### Paging

`VMMProofs` proves every property the run `vmm` checks, and what the copy is at every turn of its
loop.

| Theorem | Property | Condition |
| --- | --- | --- |
| `TypeCorrect` | `TypeOK` | |
| `CopyCorrect` | `CopyInv` (in `VMMProofs`) | |
| `LiveTablesCorrect` | `LiveTablesHeld` | `NoLargePages` |
| `NoLeakCorrect` | `NothingLeaked` | `NoLargePages` |
| `MappingsCorrect` | `MappingsStable` | `NoLargePages`, `BootTablesUnshared` |
| `TLBCorrect` | `TLBCoherent` | `NoLargePages`, `BootTablesUnshared` |

**Assumptions.** `TablesAssumption` and `FramesAssumption`: types; the boot loader's tables lie in its
frames, none of which is usable from the start, and frame 0 is no one's. `LevelsAssumption`: its
tables, which the processor walks as the kernel is entered, stand on four levels, so that no table
leads to itself or to one above it. Tables may have any number of entries, and large pages on both
levels. The conditions are on what nothing in the code guards against. `NoLargePages`: no page
`map_page` is asked for lies under a large one, whose memory it would take for a table
(`paging.c:26`). `BootTablesUnshared`: no two entries of the boot loader's tables lead to one table.
It matters only if the copy fails for want of frames, so that `map_page` writes to the original: a
write to a shared table maps two pages anew. The copy itself never shares a table, whatever the
original does. TLC evaluates all of this in the run `vmm`.

**Argument.** `IInv` (theorem `InductiveCorrect`) says where `memory_init` is, what it has done by then,
and that each activation of `clone_table` stands at the entry for which it has called the next, one
level down. `CopyInv` says that there is a function `org` from frames to the tables they are copies
of, such that entries already written are like the original's: absent where that is, the same where
that maps memory, and leading to a finished copy where that leads on. Each finished copy has exactly
one entry that leads to it, but for the root and the tables still being written. It holds between
any two entries of any table, so that a child that is linked in is the one case that is hard: the
entry of the caller becomes right only because the child just left the stack.

The first lemmas are about the processor's walk in any memory: it goes down a tree of tables one level
at a time (`WalkIn`); two walks that meet in a table with one entry leading to it came the same way
(`SameWay`); memory in which the tables read are the same, or are a copy, or have an empty table
more, translates alike (`SameTables`, `CopyTranslates`, `GrownWalks`). `LiveInv` then says that the
live tables are such a tree, that paging.c holds all of it (and nothing else, once it runs on the
copy), and that the table `map_page` has come to is the one the processor would come to. The last
needs that every page it is asked for is mapped by all four levels or by none, which it keeps true
itself. Moving to the copy keeps all of it because of `CopyInv`, linking in a table because the entry
was absent, and the last write because a table of the last level leads nowhere.

### The interrupt entry

`InterruptsProofs` proves every property the run `interrupts` checks.

| Theorem | Property |
| --- | --- |
| `TypeCorrect` | `TypeOK` |
| `ProgramSeenCorrect` | `HandlerSeesProgram` |
| `TransparentCorrect` | `SyscallTransparent` |
| `ParametersCorrect` | `SyscallParameters` |
| `AcknowledgedCorrect` | `AllAcknowledged` |

**Assumptions.** `GateAssumption` and `VectorAssumption`: the types of what is passed to
`set_idt_gate_descriptor` and of vectors. The values passed are any: the theorems hold for the
code's own arguments, with which no gate is usable, and for those its signature calls for. The
vectors whose stubs are wrong (section 4) are left out by the properties themselves, as in the run.

**Argument.** No exception returns, non-maskable interrupts included, so that the entry code of the
last interruption taken, `at`, is the only one ever continued. `EntryInv` says that there is a
position `i` in it such that the code left to run is that code from `i` on, and the stack above the
interrupted program's is the processor's frame and what the first `i` instructions left there
(`Position`); and that the PICs have in service no more than the line of this interrupt, and nothing
after its handler (`Awaited`). That pops restore what pushes saved, and that fields of the struct
lie where pushes put them, are facts about three lists of names (`SavedFacts`,
`RestoredMirrorsSaved`, `LayoutMirrorsSaved`). `GatesInv` ties descriptors to stubs, `HaltedInv`
says what a halted handler has before it, `OutsideInv` what holds between interrupts.

### The timer and the boot

| Theorem | Property |
| --- | --- |
| `TimerProofs!TypeCorrect` | `TypeOK` of `Timer` |
| `TimerProofs!RegisteredStaysCorrect` | `RegisteredStays` |
| `TimerProofs!NoOverrunCorrect` | `~overrun`, where callbacks register none |
| `TimerProofs!EveryCallbackCalledCorrect` | `EveryCallbackCalled` |
| `KernelMainProofs!FaultExplainedCorrect` | `FaultExplained`, where `RowsHoldPixels` |
| `KernelMainProofs!WireCorrect` | `WireIsLog` |
| `KernelMainProofs!ScreenCorrect` | `ScreenShowsText`, where `RowsHoldPixels` |

**`TimerProofs`** assumes of the constants what `TimerAssumption` says. `RegInv` describes the
registrations in progress: a call is `Whole` while nobody has registered since it looked at the count,
so that the count it loaded or is to load is still the one it checked. A callback's always is, since the
kernel waits for it; the kernel's is until it is overtaken. From then to the end of that call only the
types hold, and that a count beyond the table belongs to a kernel whose next store is `StoreBeyond`,
so that a call that ends has left the count in the table, and the next registration starts afresh.
`NoOverrun` needs only that callbacks which register nothing never overtake.

`EveryCallbackCalled` needs `TickInv`: in a tick, as many calls have been made as there are filled
slots below the loop's index, in their order. It is inductive because a callback that registers
another stores it at or ahead of the index, so that nothing is filled behind the loop's back; the
kernel's own stores wait until the tick has ended.

**`KernelMainProofs`** assumes `ConsoleAssumption` (`NULL` is no block's number, the font's figures
are natural numbers) and `KernelMainAssumption` (texts are sequences of characters).
`FaultExplained` is not inductive. `IInv` says that the device's block is in use and is not the
font's, and that the font's data is in use, null, or what was never assigned (`Pointers`); that unless
it is `missing`, the font is complete and in use (`FontMade`) and the console's functions are set, from
the step on that made them (`Prepared`); and why the last fault came (`Explained`). That blocks are apart
rests on each `kmalloc` returning a new one, which `KHeap` proves as `EachBlockOwned`; that a closed
device is not freed twice rests on `Closed`; that data which was never assigned is freed only if no font
was made rests on `font.set => font.data # Junk`, through failures and closes. Pixels need the screen's
invariant below: `CellInside` shows that before the screen is full the cursor's cell lies in the
framebuffer with its last byte, `PixelInv` that a pixel therefore faults only after that.

`WireIsLog` needs `WireInv`: a port whose status was read as empty has an empty buffer until the
processor writes, though it goes on sending between the read and the write, and all but the first
and the last thing the processor does finds the port initialised. That the wire carries the whole
log, byte by byte with a carriage return in front of each line feed, is an equation between a
recursive function (`OnTerminal`) and a flattened sequence (`BytesOnTerminal`).

`ScreenShowsText` needs `ScreenInv`: what is left to draw is an end of the text (`LeftToDraw`), the
cursor's row and column count the glyphs drawn (`CursorCounts`), and each glyph drawn so far is
where it belongs (`DrawnShown`). The last needs that two cells do not share bytes, for any font,
pitch and depth for which `RowsHoldPixels`: a row has room for its last pixel, which
`tui_device.c:31` stores as four bytes. With 32 bits for a pixel it always has. TLC evaluates the
condition for the run `kernel`, and finds `ScreenShowsText` violated where it fails.

### The strings

`StringsProofs` proves every property the run `strings` checks.

| Theorem | Property |
| --- | --- |
| `TokensInOrderCorrect` | `TokensInOrder` |
| `MoveExactCorrect` | `MoveExact` |
| `SearchesAgreeCorrect` | `SearchesAgree` |

**Assumptions.** `StringsAssumption`: sizes are positive, and sets of characters do not have the 0.
The arena, the alphabet and what is in memory are any.

**Argument.** `MoveExact` and `SearchesAgree` hold of every memory of characters (`Memory`). For the
searches, each loop is shown to stop where its specification says (`StrcspnStops`, `StrchrAgrees`,
...), and comparisons to stop at one place whichever operand is first (`StringsPart`, `PartOnce`);
both rest on loops having a first turn to stop at (`FirstTurn`). For `memmove`, the bytes copied
after k turns are exactly the first k in the order of copying, and a byte still to be read has not
been written (`MoveStep`, `TurnsMove`, `TurnsOnlyMove`): that is the choice of direction.

`TokensInOrder` is not inductive. `IInv` describes the string being split, the cursor `strtok` keeps
in a static variable, and memory together: from the cursor on, the string is as it was; behind it
only delimiters have been overwritten (`JobText`); the cursor is at the string's beginning, its end,
or just behind a delimiter, so that no stretch is cut in two (`JobPlaced`); what has been returned
lies behind it, ended by a 0 (`JobReturned`); what has not been lies ahead (`JobLeft`). `NextStretch`
shows that the next token is a stretch, `OneMore` that returning it keeps all this, `NoneLeft` that a
NULL is returned only when no stretch is ahead, and `WriterKeeps` that the other functions touch
nothing of it if they stay out of the string.

### The numbers

`NumbersProofs` proves the three properties the run `numbers` checks.

| Theorem | Property | Condition |
| --- | --- | --- |
| `EndsAfterNumberCorrect` | `EndsAfterNumber` | |
| `FormatReadToEndCorrect` | `FormatReadToEnd` | |
| `ReadsBackCorrect` | `ReadsBack` | `FormatsApart` |

**Assumptions.** `NumbersAssumption`: widths are natural numbers, an int no wider than a long, whose
bits divide into hexadecimal digits; formats and literals are sequences of characters, values and bases
are integers. `PowersAssumption`: 2 to the 0 is 1, and each power is twice the one before, which is
true but which the provers cannot know. Texts, formats, values and widths are any.
`FormatsApart` is a hypothesis of its theorem alone: in a format, a number that comes before any `%c` or
`%s` has only numbers and blanks before it, and right behind it something that is not empty and starts
with no digit. Without it the property is false and the code is not to blame: `%d%d` prints 1 and 2 as 12.
`MCNumbers` has TLC check that the formats of the run meet it.

**Argument.** `IInv` adds to the two properties that the buffer is a text of some length and that a
call starts at 1 or later. A number is described in two ways: `IsNumber` cuts the text into pieces;
`Ways` has the three ways in which a prefix and digits can go on from a position. `IsNumberIs` shows
that they agree. `WaysEnd` shows that the functions' choice of base and their loop over digits reach
the end of one way, and that no other goes further: the x of a prefix is no octal digit, a 0 that
is a prefix is also a digit, and the loop stops at the first character that is no digit of its base. `LedSame` shows that
blanks and sign can be skipped in one way only if anything follows. For formats, `GoesOnInside` shows
that each turn goes on inside the format or at its 0, and `TurnsType` that the last one ends there. That
what is printed is a text, which `EndsAfterNumber` needs to begin with, goes through every function that
prints (`emit_uintText`, `vsprintfText`).

`ReadsBack` rests on one description of a number in a text that both sides share. `Counts` says that a
function h has in h[k] what the first k digits stand for; `Numeral` that a piece of the text is a sign
or 0x, if any, and digits that count up to the size of the number, with no 0 in front in base 10, where
base 0 would take it for an octal prefix. *Printing leaves one:* `emit_uintDigits` goes by induction
over the value, a digit more for each division (`MoreDigits`), `serial_put_hexNumeral` by the quotients
by the powers of 16; `itoa`'s and `emit_int`'s minus and `%p`'s 0x come in front (`PrefixedNumeral`),
also at the least number of a width, whose magnitude only its unsigned form has room for (`Bounds`).
*Reading gives it back:* where blanks, such a number and no further digit follow (`Readable`), the
loops stop at its end, and their sums, which wrap around at the width, never do: what the first digits
count never falls (`CountsRise`), and at the end it is the size of a number the function can return
(`SumIs`, `DigitsRead`, `ScanReads`, `atoiReads`). *One after the other:* `Laid` has the places of the
numbers in the buffer. `vsprintfLaid` shows it by induction over the turns of the format, each of which
either adds a number behind blanks or leaves the ones before it readable (`TurnsLaidNext`); here the
condition is used. `BackInv` is the inductive invariant: the numbers are laid out in the buffer, and as long as
each call asked for what was printed, the next one starts where the last number ended (`InStep`).

### Induction over numbers

The library's induction theorems take an operator, which the provers here cannot instantiate.
`KernelMainProofs`, `StringsProofs` and `NumbersProofs` argue by the least counterexample instead: a set of numbers that
is not empty has a least member (`WFMin`). That suffices for what a recursive function over prefixes
computes.

### Only model-checked

Liveness (`CallsReturn`, `TickEnds`, `LogComplete`, `HelloShown`) stays with TLC: TLAPS does not
reason about fairness and ENABLED here.
`ScreenShowsText`, `RoomCorrect` and the others with a condition in their table are proved under it
alone; the runs' constants meet the conditions, which TLC checks.

## 6. Not modelled

* **Contents of messages**: the wording of log lines and of the exception report, serial settings; and
  the lines `pmm_init` itself logs (`pmm.c:37`, `:59`, `:77` and `:93`), which go the way of the others.
  `strerror` is a table of wording.
* **The direct map's offset** `hhdm_off`: added to every address alike.
* **Pixels**: a glyph is drawn in a cell or elsewhere; its bits are data. A pixel is stored as four bytes
  whatever the framebuffer's depth, which `LastByte` counts.
* **The stack and the boot loader's descriptor table**, which also lie in the memory `memory_init`
  gives to the allocator. The framebuffer's description is modelled for all three.
* **`printf`'s buffer** of 2048 bytes, which nothing bounds: texts are taken to fit.
* **The index `register_timer_callback` returns**: `pit.c:43` loads the count a third time, so that a
  callback registered just before makes it another's. Nothing in the kernel uses it.
* **Stateless one-liners**: `abs` and its kin, the port functions, getters. **`abort`** and the constraint
  handlers (compiled out).
* **Freeing twice through the heap**, or a pointer that is none: undefined, and the
  code does not guard against it.
* **Misuse of the string functions**: overlapping `restrict` operands, strings without an end, no room:
  preconditions, in the guards.
* **`init_timer(0)`** divides by zero; **unregistering** a callback with NULL (`pit.h:17`) is not
  in the code: `Timer` registers a null pointer like any other.
* **The stubs and the callback table together**: `Interrupts` has the handler's effect on the PICs, `Timer` its
  effect on the callbacks. They share no state but the table of handlers, which both have.
* **GDT**: `init_gdt` is called from nowhere, and fills a table from literals.
* **Tests**: read as statements of intent. The test build's branch of `kernel_main` is left out.
* **`src/limine/limine.h`** is vendored; **`acpi_timer.c`** is empty.

## 7. Plan

Done: `FrameAllocator`, `PMM`, `PMMProofs`, `Heap`, `KHeap`, `KHeapProofs`, `VMM`,
`VMMProofs`, `Interrupts`, `InterruptsProofs`, `Timer`, `TimerProofs`, `Strings`, `StringsProofs`, `Numbers`,
`NumbersProofs`, `Serial`, `Console`, `KernelMain`, `KernelMainProofs`.

Left, most important first:

1. `KernelMain` over `PMM` and `KHeap` themselves in place of their outlines.
2. GDT: descriptors and the selectors `isr.c` names.
