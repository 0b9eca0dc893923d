------------------------------ MODULE KernelMain ----------------------------
(***************************************************************************)
(* The boot, src/kernel/kernel_main.c, with memory_init and the capture of *)
(* the boot protocol's answers (bootinfo.c): the order in which the serial *)
(* port, the memory, the font and the console come up.                     *)
(*                                                                         *)
(* PMM, VMM and KHeap are reduced to what the rest of the boot sees of     *)
(* them: whether there is memory, whether the address space was copied and *)
(* the boot loader's memory reclaimed, and that the heap may then grow     *)
(* over the description of the framebuffer, which lies in that memory.     *)
(* kernel_main halts after its greeting; a kernel that goes on may call    *)
(* the console's functions in any order (MaxCalls, 0 for this one).  An    *)
(* exception ends it all: Interrupts shows why nothing comes back.         *)
(***************************************************************************)
EXTENDS Serial, Console

CONSTANTS
  FramebufferResponses, \* NULL, or the framebuffers the boot loader set up
  MemoryMaps,           \* NULL, or the kinds of the regions in order
  MAX_REGIONS,
  GREETING,
  Texts,                \* what a later printf prints
  MaxCalls              \* bound: calls after the greeting

ASSUME KernelMainAssumption ==
  /\ GREETING \in Seq(0 .. (CHAR_MOD - 1)) /\ Texts \subseteq Seq(0 .. (CHAR_MOD - 1))
  /\ MAX_REGIONS \in Nat /\ MaxCalls \in Nat
  /\ \A r \in FramebufferResponses : r # NULL /\ r # << >> =>
       {r[1].width, r[1].height, r[1].pitch, r[1].bpp} \subseteq Nat

(* A row has room for the last of its pixels, which is stored as four      *)
(* bytes (tui_device.c:31-32): so with 32 bits a pixel, not always with 24.*)
RowsHoldPixels ==
  \A r \in FramebufferResponses : r # NULL /\ r # << >> =>
    (r[1].width - 1) * (r[1].bpp \div 8) + 3 < r[1].pitch

VARIABLES
  pc,
  supported,     \* LIMINE_BASE_REVISION_SUPPORTED
  response,      \* framebuffer_request.response
  memmap,        \* memmap_request.response
  regions, framebuffer,  \* the copies bootinfo.c keeps
  bitmap_found,  \* whether pmm_init found room for its bitmap
  reclaimed,     \* whether the boot loader's memory was put into the pool
  calls

bootVars == <<supported, response, memmap>>
memoryVars == <<regions, framebuffer, bitmap_found, reclaimed>>
vars == <<pc, bootVars, memoryVars, calls, serialVars, consoleVars>>

Init ==
  /\ pc = "kernel_main"
  /\ supported \in BOOLEAN
  /\ response \in FramebufferResponses
  /\ memmap \in MemoryMaps
  /\ regions = << >> /\ framebuffer = [present |-> FALSE]
  /\ bitmap_found = FALSE /\ reclaimed = FALSE
  /\ calls = 0
  /\ SerialInit /\ ConsoleInit

\* The processor is through with the line it logs and the text it prints.
Step(here, next) ==
  /\ pc = here /\ pc' = next
  /\ todo = << >> /\ printing = << >> /\ fault = "none"

-----------------------------------------------------------------------------

\* The framebuffer kernel_main passes on.
fb == IF response # NULL /\ response # << >> THEN response[1] ELSE NULL

\* The test of the revision without its negation.
Start_Negated ==
  /\ \/ supported /\ Step("kernel_main", "hcf") /\ UNCHANGED serialVars
     \/ ~supported /\ Step("kernel_main", "reached") /\ serial_init
  /\ UNCHANGED <<bootVars, memoryVars, calls, consoleVars>>

Start ==
  /\ \/ ~supported /\ Step("kernel_main", "hcf") /\ UNCHANGED serialVars
     \/ supported /\ Step("kernel_main", "reached") /\ serial_init
  /\ UNCHANGED <<bootVars, memoryVars, calls, consoleVars>>

\* The log lines around isr_install and at the start of memory_init.
Log ==
  /\ \/ Step("reached", "installed") /\ LOG(LOG_INFO, <<"kernel_main reached", "\n">>)
     \/ Step("installed", "memory_init") /\ LOG(LOG_INFO, <<"IDT installed", "\n">>)
     \/ /\ Step("memory_init", "bootinfo_capture")
        /\ LOG(LOG_TRACE, <<"memmap ptr", "value", "\n", "hhdm ptr", "value", "\n">>)
  /\ UNCHANGED <<bootVars, memoryVars, calls, consoleVars>>

\* Regions beyond the table are left out.
bootinfo_capture ==
  /\ Step("bootinfo_capture", "pmm_init")
  /\ regions' = IF memmap = NULL THEN << >>
                ELSE SubSeq(memmap, 1, IF Len(memmap) > MAX_REGIONS THEN MAX_REGIONS
                                                                    ELSE Len(memmap))
  /\ framebuffer' = IF fb # NULL THEN [present |-> TRUE, of |-> fb]
                                 ELSE [framebuffer EXCEPT !.present = FALSE]
  /\ UNCHANGED <<bootVars, bitmap_found, reclaimed, calls, serialVars, consoleVars>>

Has(kind) == \E i \in DOMAIN regions : regions[i] = kind

\* The bitmap goes to a usable region, if one of them is large enough.
pmm_init ==
  /\ Step("pmm_init", "vmm_clone")
  /\ bitmap_found' \in {FALSE, Has("USABLE")}
  /\ LOG(LOG_DEBUG, <<"pmm free bytes", "value", "\n">>)
  /\ UNCHANGED <<bootVars, regions, framebuffer, reclaimed, calls, consoleVars>>

(* vmm_clone_kernel_space, and the move to the copy and the reclaim if     *)
(* there is one.  Without a bitmap the first frame asked for is a fault,   *)
(* unless there are no frames at all.                                      *)
vmm_clone ==
  /\ Step("vmm_clone", "kheap_init")
  /\ \/ /\ ~bitmap_found /\ (Has("USABLE") \/ Has("RECLAIMABLE"))
        /\ fault' = "bitmap"
        /\ UNCHANGED <<reclaimed, serialVars>>
     \/ /\ bitmap_found \/ ~(Has("USABLE") \/ Has("RECLAIMABLE"))
        /\ reclaimed' \in {FALSE, bitmap_found}
        /\ LOG(LOG_DEBUG, <<"new pml4", "value", "\n">>)
        /\ UNCHANGED fault
  /\ UNCHANGED <<bootVars, regions, framebuffer, bitmap_found, calls, heapVars,
                 fontVars, deviceVars, fb_intact, drawVars, missing>>

\* Memory that kmalloc returns comes from the pool, and the heap may have
\* grown over what was reclaimed.
HeapUsed ==
  /\ ~bitmap_found => blocks' = blocks
  /\ fb_intact' \in {fb_intact, fb_intact /\ ~(reclaimed /\ Has("RECLAIMABLE"))}

\* kheap_init takes the heap's first frames; then memory_init is done.
kheap_init ==
  /\ Step("kheap_init", "init_font_format")
  /\ LOG(LOG_INFO, <<"memory_init done", "\n">>)
  /\ UNCHANGED heapVars /\ HeapUsed
  /\ UNCHANGED <<bootVars, memoryVars, calls, fontVars, deviceVars, drawVars, fault, missing>>

\* The rest of kernel_main; init_timer, before printf, is Timer's.
Devices ==
  \/ Step("init_font_format", "char_device_init") /\ init_font_format /\ HeapUsed
  \/ Step("char_device_init", "init_char_device") /\ char_device_init
  \/ Step("init_char_device", "printf") /\ init_tui_char_device(fb) /\ HeapUsed
  \/ Step("printf", "later") /\ printf(GREETING)

\* A kernel that does not halt yet.
Later ==
  /\ Step("later", "later")
  /\ calls < MaxCalls
  /\ \/ \E text \in Texts : printf(text)
     \/ read_from_tui
     \/ close_tui_char_device
     \/ close_psf2_font
     \/ init_font_format /\ HeapUsed
     \/ init_tui_char_device(fb) /\ HeapUsed

hcf ==
  /\ Step("later", "hcf")
  /\ UNCHANGED <<bootVars, memoryVars, calls, serialVars, consoleVars>>

Cpu ==
  \/ Start \/ Log \/ bootinfo_capture \/ pmm_init \/ vmm_clone \/ kheap_init
  \/ Devices /\ UNCHANGED <<bootVars, memoryVars, calls, serialVars>>
  \/ Later /\ calls' = calls + 1 /\ UNCHANGED <<bootVars, memoryVars, serialVars>>
  \/ hcf
  \/ (tx_empty \/ serial_putc)
       /\ fault = "none" /\ UNCHANGED <<pc, bootVars, memoryVars, calls, consoleVars>>
  \/ DrawGlyph /\ UNCHANGED <<pc, bootVars, memoryVars, calls, serialVars>>

\* The port, until a fault resets the machine.
Port == Transmit /\ fault = "none" /\ UNCHANGED <<pc, bootVars, memoryVars, calls, consoleVars>>

\* What is left to do at the end is nothing.
Stopped == (pc = "hcf" \/ fault # "none") /\ UNCHANGED vars

Next == Cpu \/ Port \/ Stopped

(* One processor runs the kernel and is never taken from it; the port      *)
(* sends what it holds.                                                    *)
Spec == Init /\ [][Next]_vars /\ WF_vars(Cpu) /\ WF_vars(Port)

-----------------------------------------------------------------------------
(***************************************************************************)
(* Properties                                                              *)
(***************************************************************************)

(* The log arrives whole: whatever has been logged is on the wire some     *)
(* time later, unless a fault comes first (serial.c:33 waits for a port    *)
(* that answers).                                                          *)
LogComplete == []<>(wire = OnTerminal(logged) \/ fault # "none")

(* The greeting gets to the screen (kernel_main.c:82), as much of it as    *)
(* fits, on a machine with a framebuffer whose description outlives the    *)
(* reclaim, with memory enough for the frame bitmap, the font and the      *)
(* device, and with a font that is one.                                    *)
HelloShown ==
  <>(\/ console.set /\ tui.fb # NULL /\ Shows(GREETING)
     \/ fb = NULL \/ ~fb_intact \/ ~supported
     \/ fault = "bitmap" \/ missing # {})
=============================================================================
