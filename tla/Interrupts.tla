----------------------------- MODULE Interrupts -----------------------------
(***************************************************************************)
(* Interrupts: the descriptor table (src/kernel/interrupt/idt.c), the      *)
(* entry code (interrupt.asm), the handlers and the two PICs (isr.c), and  *)
(* system calls (syscall.c).                                               *)
(*                                                                         *)
(* The entry code is data here: a sequence of instructions, one executed   *)
(* in each step, working on the registers and the stack.  What it moves    *)
(* around are words, pairs that tell what they are: <<"r8", "program">> is *)
(* the interrupted program's r8, <<"rip", 3>> the return address the       *)
(* processor pushed when the stack held 3 words, <<"imm", 14>> a constant. *)
(* A word from memory the program owns is never looked into.               *)
(***************************************************************************)
EXTENDS Integers, Sequences, SequencesExt

CONSTANTS
  ISR_IST, ISR_FLAGS,          \* how isr_install fills its gates
  SYSCALL_IST, SYSCALL_FLAGS,  \* how init_syscalls fills its gate
  CODE_SELECTORS,   \* selectors of 64-bit code in the descriptor table in use
  IF_SET,           \* whether programs run with interrupts on
  Exceptions,       \* the exceptions that may occur
  Lines,            \* the interrupt lines that devices use
  Numbers,          \* the system calls that programs make
  Registered        \* the ones syscall_table has an entry for

ASSUME GateAssumption ==
  /\ {ISR_IST, SYSCALL_IST, ISR_FLAGS, SYSCALL_FLAGS} \subseteq 0 .. 255
  /\ CODE_SELECTORS \subseteq Nat /\ IF_SET \in BOOLEAN

ASSUME VectorAssumption ==
  /\ Exceptions \subseteq 0 .. 31 /\ Lines \subseteq 0 .. 15
  /\ Registered \subseteq Numbers /\ Numbers \subseteq 0 .. 255

IRQ0 == 32
SYSCALL == 128
NMI == 2
DOUBLE_FAULT == 8
NOT_PRESENT == 11
PAGE_FAULT == 14

\* The exceptions for which the processor pushes an error code.
WithErrorCode == {8, 17} \cup 10 .. 14

-----------------------------------------------------------------------------
(***************************************************************************)
(* The entry code                                                          *)
(***************************************************************************)

Imm(n)  == [op |-> "imm", n |-> n]
Push(r) == [op |-> "push", reg |-> r]
Pop(r)  == [op |-> "pop", reg |-> r]
Drop(n) == [op |-> "drop", n |-> n]
Call(f) == [op |-> "call", to |-> f]
Iretq   == [op |-> "iretq"]

\* Two registers pushed in the wrong order.
Saved_Swapped ==
  <<"rax", "rbx", "rcx", "rdx", "rdi", "rsi", "rbp",
    "r8", "r9", "r10", "r11", "r12", "r13", "r14", "r15">>

\* The registers in the order the stubs push them.
Saved ==
  <<"rax", "rbx", "rcx", "rdx", "rsi", "rdi", "rbp",
    "r8", "r9", "r10", "r11", "r12", "r13", "r14", "r15">>

Registers == ToSet(Saved)
CallerSaved == {"rax", "rcx", "rdx", "rsi", "rdi", "r8", "r9", "r10", "r11"}

Pushes(regs) == [k \in DOMAIN regs |-> Push(regs[k])]
Pops(regs)   == [k \in DOMAIN regs |-> Pop(regs[k])]

isr_common_stub == Pushes(Saved) \o <<Call("isr_handler"), Drop(2), Iretq>>
irq_common_stub == Pushes(Saved) \o <<Call("irq_handler"), Drop(1), Iretq>>

\* isr0 to isr31: the first three after isr0 push their number first.
isr(n) ==
  (IF n \in 1 .. 3 THEN <<Imm(n), Imm(0)>> ELSE <<Imm(0), Imm(n)>>)
    \o isr_common_stub

\* A stub that leaves out the word an error code would take.
irq_OneWord(n) == <<Imm(IRQ0 + n)>> \o irq_common_stub

\* irq0 to irq15.
irq(n) == <<Imm(n), Imm(IRQ0 + n)>> \o irq_common_stub

\* The parameters in the order of the registers that hold them.
Parameters_Reversed == <<"rdi", "rsi", "rdx", "r10", "r8", "r9">>

\* The parameters of a system call, the last one pushed first.
Parameters == <<"r9", "r8", "r10", "rdx", "rsi", "rdi">>

\* A restore that takes two registers in the order they were saved.
SyscallRestored_Swapped ==
  <<"r15", "r14", "r13", "r12", "r11", "r10", "r9",
    "r8", "rdi", "rbp", "rsi", "rdx", "rcx", "rbx">>

SyscallRestored ==
  <<"r15", "r14", "r13", "r12", "r11", "r10", "r9",
    "r8", "rbp", "rdi", "rsi", "rdx", "rcx", "rbx">>

syscall_handler ==
  Pushes(Tail(Saved)) \o Pushes(Parameters)
    \o <<Call("syscall_table"), Drop(6)>> \o Pops(SyscallRestored) \o <<Iretq>>

\* interrupt_registers_t, from the lowest address up.
Layout ==
  <<"r15", "r14", "r13", "r12", "r11", "r10", "r9", "r8",
    "rbp", "rdi", "rsi", "rdx", "rcx", "rbx", "rax",
    "int_no", "err_code", "rip", "cs", "rflags", "rsp", "ss">>

-----------------------------------------------------------------------------

VARIABLES
  status,      \* "boot", "running" a program, "entry" code, "halted" in
               \* isr_handler, "reset" by the processor, or "lost" after a
               \* return to an address that is none
  idt,         \* the gates that have been filled
  handlers,    \* interrupt_handlers: the vectors that have one
  regs,        \* the general registers
  stack,       \* the words on the stack, the last one pushed last
  code,        \* what is left of the entry code
  at,          \* what was interrupted: vector, registers and stack depth
  view,        \* what the handler called last found from its pointer up
  in_service   \* the lines whose interrupts await an end-of-interrupt

machine == <<regs, stack, code, at>>
tables == <<idt, handlers>>
vars == <<status, tables, machine, view, in_service>>

Program == [r \in Registers |-> <<r, "program">>]

Init ==
  /\ status = "boot" /\ idt = << >> /\ handlers = {}
  /\ regs = Program /\ stack = << >> /\ code = << >>
  /\ at = [vector |-> 0, regs |-> Program, depth |-> 0]
  /\ view = << >> /\ in_service = {}

-----------------------------------------------------------------------------
(***************************************************************************)
(* The descriptor table                                                    *)
(***************************************************************************)

\* set_idt_gate_descriptor
Gate(entry, selector, ist, flags) ==
  [entry |-> entry, selector |-> selector, ist |-> ist % 8, flags |-> flags]

IsrGate(entry) == Gate(entry, 8, ISR_IST, ISR_FLAGS)

(* isr_install, which programs the PICs too: line n has vector IRQ0 + n.   *)
isr_install ==
  /\ status = "boot"
  /\ status' = "running"
  /\ idt' = [v \in 0 .. (IRQ0 + 15) |->
               IsrGate(IF v < IRQ0 THEN isr(v) ELSE irq(v - IRQ0))]
  /\ in_service' = {}
  /\ UNCHANGED <<handlers, machine, view>>

init_syscalls ==
  /\ status = "running" /\ SYSCALL \notin DOMAIN idt
  /\ idt' = [v \in DOMAIN idt \cup {SYSCALL} |->
               IF v = SYSCALL
                 THEN Gate(syscall_handler, 8, SYSCALL_IST, SYSCALL_FLAGS)
                 ELSE idt[v]]
  /\ UNCHANGED <<status, handlers, machine, view, in_service>>

(* register_interrupt_handler, as init_timer calls it; the table is there  *)
(* before isr_install.                                                     *)
register_interrupt_handler(n) ==
  /\ status \in {"boot", "running"} /\ n \notin handlers
  /\ handlers' = handlers \cup {n}
  /\ UNCHANGED <<status, idt, machine, view, in_service>>

\* The processor takes an interrupt through a gate that is present, is an
\* interrupt gate, names 64-bit code and, there being no task state segment,
\* no stack of its own.
Usable(v) ==
  /\ v \in DOMAIN idt
  /\ idt[v].flags \div 128 = 1 /\ idt[v].flags % 16 = 14
  /\ idt[v].selector \in CODE_SELECTORS
  /\ idt[v].ist = 0

\* What the processor pushes for vector v when `depth` words are on the stack.
CpuFrame(v, depth) ==
  [k \in 1 .. 5 |-> <<<<"ss", "rsp", "rflags", "cs", "rip">>[k], depth>>]
    \o (IF v \in WithErrorCode THEN <<<<"error", v>>>> ELSE << >>)

\* Vector v is taken while the registers are `now` and the stack is `below`;
\* a vector that cannot be taken becomes a fault, that a double fault, and
\* that the end.
Interrupt(v, now, below) ==
  LET tried == <<v, NOT_PRESENT, DOUBLE_FAULT>>
  IN  \/ /\ \A k \in 1 .. 3 : ~Usable(tried[k])
         /\ status' = "reset"
         /\ UNCHANGED <<stack, code, at>>
      \/ \E k \in 1 .. 3 :
           /\ Usable(tried[k]) /\ \A j \in 1 .. (k - 1) : ~Usable(tried[j])
           /\ status' = "entry"
           /\ stack' = below \o CpuFrame(tried[k], Len(below))
           /\ code' = idt[tried[k]].entry
           /\ at' = [vector |-> tried[k], regs |-> now, depth |-> Len(below)]

-----------------------------------------------------------------------------
(***************************************************************************)
(* What interrupts a program                                               *)
(***************************************************************************)

\* An instruction of the kernel or of a program raises exception v.  Before
\* isr_install there is no table to find a gate in.
Exception(v) ==
  /\ status \in {"boot", "running"}
  /\ Interrupt(v, regs, stack)
  /\ UNCHANGED <<tables, regs, view, in_service>>

\* A non-maskable interrupt comes between any two instructions.
NonMaskable ==
  /\ status \in {"boot", "running", "entry"} /\ at.vector # NMI
  /\ Interrupt(NMI, regs, stack)
  /\ UNCHANGED <<tables, regs, view, in_service>>

\* Where a line is in service: lines 8 to 15 come through line 2.
Serving(n) == IF n < 8 THEN {n} ELSE {2, n}

(* The device on line n interrupts, or a PIC reports one on its last line  *)
(* that has gone away.                                                     *)
DeviceInterrupt(n) ==
  /\ status = "running" /\ IF_SET
  /\ Interrupt(IRQ0 + n, regs, stack)
  /\ \/ in_service' = in_service \cup Serving(n)
     \/ n \in {7, 15} /\ in_service' = in_service \cup (Serving(n) \ {n})
  /\ UNCHANGED <<tables, regs, view>>

(* syscall(n): the number is in rax, and the argument registers hold what  *)
(* they hold.                                                              *)
syscall(n) ==
  /\ status = "running" /\ SYSCALL \in DOMAIN idt
  /\ regs' = [regs EXCEPT !["rax"] = <<"number", n>>]
  /\ Interrupt(SYSCALL, regs', stack)
  /\ UNCHANGED <<tables, view, in_service>>

-----------------------------------------------------------------------------
(***************************************************************************)
(* The instructions                                                        *)
(***************************************************************************)

Executing(op) == status = "entry" /\ code # << >> /\ Head(code).op = op

PushStep ==
  /\ \/ /\ Executing("imm")
        /\ stack' = Append(stack, <<"imm", Head(code).n>>)
     \/ /\ Executing("push")
        /\ stack' = Append(stack, regs[Head(code).reg])
  /\ code' = Tail(code)
  /\ UNCHANGED <<status, tables, regs, at, view, in_service>>

PopStep ==
  /\ Executing("pop")
  /\ regs' = [regs EXCEPT ![Head(code).reg] = Last(stack)]
  /\ stack' = Front(stack)
  /\ code' = Tail(code)
  /\ UNCHANGED <<status, tables, at, view, in_service>>

DropStep ==
  /\ Executing("drop")
  /\ stack' = SubSeq(stack, 1, Len(stack) - Head(code).n)
  /\ code' = Tail(code)
  /\ UNCHANGED <<status, tables, regs, at, view, in_service>>

\* The return to what was interrupted: the processor takes the top five
\* words for the frame it pushed.
IretqStep ==
  /\ Executing("iretq")
  /\ LET top == SubSeq(Reverse(stack), 1, 5)
     IN  \/ /\ \A k \in 1 .. 5 : top[k][1] = <<"rip", "cs", "rflags", "rsp", "ss">>[k]
            /\ status' = "running"
            /\ stack' = SubSeq(stack, 1, top[4][2])
         \/ /\ \E k \in 1 .. 5 : top[k][1] # <<"rip", "cs", "rflags", "rsp", "ss">>[k]
            /\ status' = "lost"
            /\ UNCHANGED stack
  /\ code' = << >>
  /\ UNCHANGED <<tables, regs, at, view, in_service>>

-----------------------------------------------------------------------------
(***************************************************************************)
(* The handlers                                                            *)
(***************************************************************************)

\* What a handler may leave in the registers.
Clobbered(result) ==
  [r \in Registers |-> IF r = "rax" THEN <<"rax", result>>
                       ELSE IF r \in CallerSaved THEN <<r, "junk">>
                       ELSE regs[r]]

Calling(f) == Executing("call") /\ Head(code).to = f

\* The field of the structure the handler called last was given.
Field(f) == view[CHOOSE k \in DOMAIN Layout : Layout[k] = f]

(* isr_handler reports what it finds and halts.                            *)
isr_handler ==
  /\ Calling("isr_handler")
  /\ view' = Reverse(stack)
  /\ status' = "halted"
  /\ UNCHANGED <<tables, machine, in_service>>

\* The end-of-interrupt command to a PIC whose lines are `pic` ends the
\* interrupt of highest priority there.
EndOfInterrupt(serving, pic) ==
  serving \ {n \in serving \cap pic : \A k \in serving \cap pic : n <= k}

\* The second PIC is told from one line too late.
Acknowledged_OffByOne(serving, int_no) ==
  LET second == IF int_no > IRQ0 + 8 THEN EndOfInterrupt(serving, 8 .. 15) ELSE serving
  IN  EndOfInterrupt(second, 0 .. 7)

\* What irq_handler leaves in service.
Acknowledged(serving, int_no) ==
  LET second == IF int_no >= IRQ0 + 8 THEN EndOfInterrupt(serving, 8 .. 15) ELSE serving
  IN  EndOfInterrupt(second, 0 .. 7)

\* What the handler registered for a vector, if any, leaves in service:
\* timer_callback sends an end-of-interrupt of its own.
Handled(serving, int_no) ==
  IF int_no \in handlers THEN EndOfInterrupt(serving, 0 .. 7) ELSE serving

(* irq_handler, and the handler it calls; what else that does is Timer's.  *)
irq_handler ==
  /\ Calling("irq_handler")
  /\ view' = Reverse(stack)
  /\ LET int_no == Field("int_no")'[2]
     IN  in_service' = Handled(Acknowledged(in_service, int_no), int_no)
  /\ regs' = Clobbered("junk")
  /\ code' = Tail(code)
  /\ UNCHANGED <<status, tables, stack, at>>

(* The call through syscall_table; an empty entry is a jump to address 0.  *)
syscall_table ==
  /\ Calling("syscall_table")
  /\ \/ /\ regs["rax"][2] \in Registered
        /\ view' = Reverse(stack)
        /\ regs' = Clobbered("result")
        /\ code' = Tail(code)
        /\ UNCHANGED <<status, stack, at>>
     \/ /\ regs["rax"][2] \notin Registered
        /\ Interrupt(PAGE_FAULT, regs, Append(stack, <<"return", 0>>))
        /\ UNCHANGED <<view, regs>>
  /\ UNCHANGED <<tables, in_service>>

\* isr_handler halts for good, and so does a processor that has no way on.
Stopped == status \in {"halted", "reset", "lost"} /\ UNCHANGED vars

Next ==
  \/ isr_install \/ init_syscalls \/ register_interrupt_handler(IRQ0)
  \/ \E v \in Exceptions : Exception(v)
  \/ NonMaskable
  \/ \E n \in Lines : DeviceInterrupt(n)
  \/ \E n \in Numbers : syscall(n)
  \/ PushStep \/ PopStep \/ DropStep \/ IretqStep
  \/ isr_handler \/ irq_handler \/ syscall_table
  \/ Stopped

Spec == Init /\ [][Next]_vars

-----------------------------------------------------------------------------
(***************************************************************************)
(* Properties                                                              *)
(***************************************************************************)

\* The instruction after a call of the handler is next: `view` is what that
\* handler was given.
Back(n) == Executing("drop") /\ Head(code).n = n
Reported == status = "halted" \/ Back(1)

(* The type invariant: the frame built by the stubs covers the whole of    *)
(* interrupt_registers_t, and entry code leaves alone what was on the stack*)
(* before it.                                                              *)
TypeOK ==
  /\ status \in {"boot", "running", "entry", "halted", "reset", "lost"}
  /\ DOMAIN idt \subseteq 0 .. 255
  /\ DOMAIN regs = Registers
  /\ at.depth <= Len(stack)
  /\ in_service \subseteq 0 .. 15 /\ handlers \subseteq 0 .. 255
  /\ Reported => Len(view) - at.depth >= Len(Layout)

(* Every handler finds the interrupted program's registers in the fields   *)
(* named after them: the pushes of the stubs and the order of the fields   *)
(* in registers.h agree, also when a non-maskable interrupt comes in the   *)
(* middle of another stub.  For every device interrupt and each exception  *)
(* without an error code but 1 to 3, it also finds the vector and the      *)
(* processor's frame in their fields.                                      *)
HandlerSeesProgram ==
  Reported =>
    /\ \A r \in Registers : Field(r) = at.regs[r]
    /\ at.vector \notin 1 .. 3 \cup WithErrorCode =>
         /\ Field("int_no") = <<"imm", at.vector>>
         /\ \A f \in {"rip", "cs", "rflags", "rsp", "ss"} : Field(f) = <<f, at.depth>>

(* A system call returns with every register but rax and the stack as they *)
(* were, whatever its handler did with the registers the calling convention*)
(* lets it use: the asm statement of syscall() declares none as changed.   *)
SyscallTransparent ==
  status = "running" /\ at.vector = SYSCALL =>
    /\ Len(stack) = at.depth
    /\ regs = [at.regs EXCEPT !["rax"] = <<"rax", "result">>]

(* The handler of a system call finds the six arguments in the order of    *)
(* the registers they are passed in (interrupt.asm:397, syscall.c:14).     *)
SyscallParameters ==
  Back(6) =>
    \A k \in 1 .. 6 : view[k] = at.regs[<<"rdi", "rsi", "rdx", "r10", "r8", "r9">>[k]]

(* Once the handler of a device interrupt has returned, neither PIC waits  *)
(* for an end-of-interrupt, which would hold up later interrupts for good, *)
(* also when the interrupt came through both PICs or was spurious.         *)
AllAcknowledged == status \in {"running", "lost"} => in_service = {}

(* kernel_main.c:58 logs that the descriptor table is installed: from then *)
(* on no interrupt finds it unusable.                                      *)
TableInstalled == status = "reset" => idt = << >>

(* The report of an exception (isr.c:127-132) names the vector that was    *)
(* raised and the address of the instruction it interrupted.               *)
ExceptionReported ==
  status = "halted" =>
    /\ Field("int_no") = <<"imm", at.vector>>
    /\ Field("rip") = <<"rip", at.depth>>

(* interrupt.asm:275 says what the stub of the device interrupts takes off *)
(* the stack after the handler: int_no.                                    *)
DiscardsIntNo == Back(1) => Last(stack) = <<"imm", at.vector>>
=============================================================================
