-------------------------- MODULE InterruptsProofs --------------------------
(***************************************************************************)
(* Proofs about Interrupts, for every choice of gates (usable or not), of  *)
(* exceptions, interrupt lines and system calls.                           *)
(*                                                                         *)
(* An interrupt may come at any instruction, but only the entry code it    *)
(* starts is executed from then on: a stub of an exception never returns   *)
(* to what it interrupted. So the invariant speaks of one entry code only, *)
(* that of `at`, and of the words above at.depth. It says how many         *)
(* instructions i have been executed (Position): the code left is what     *)
(* follows the i-th, and the stack holds the processor's frame and the     *)
(* words of the first Left(v, i) instructions, in their order. All         *)
(* properties are read off that: what a handler finds is the stack         *)
(* backwards, what a system call gets back is what the same instruction    *)
(* has pushed, and iretq takes the frame if and only if nothing is left    *)
(* above it.                                                               *)
(*                                                                         *)
(* Awaited adds which lines are in service then: those the interrupt came  *)
(* through until the handler has run, none afterwards.                     *)
(***************************************************************************)
EXTENDS Interrupts, SequenceTheorems, TLAPS

-----------------------------------------------------------------------------
(***************************************************************************)
(* The literals                                                            *)
(***************************************************************************)

(* The registers that are pushed, by place. None of them is called rip:    *)
(* what iretq of the device stubs takes for an address is never one        *)
(* (interrupt.asm:275).                                                    *)
LEMMA SavedFacts ==
  /\ Len(Saved) = 15 /\ DOMAIN Saved = 1 .. 15
  /\ Registers = {Saved[k] : k \in 1 .. 15}
  /\ Saved[1] = "rax"
  /\ \A k \in 2 .. 15 : Saved[k] # "rax"
  /\ \A k \in 1 .. 15 : Saved[k] # "rip"
<1>1. Len(Saved) = 15 /\ DOMAIN Saved = 1 .. 15 /\ Saved[1] = "rax"
  BY DEF Saved
<1>2. \A k \in 2 .. 15 : Saved[k] # "rax"
  BY DEF Saved
<1>3. \A k \in 1 .. 15 : Saved[k] # "rip"
  BY DEF Saved
<1>4. Registers = {Saved[k] : k \in 1 .. 15}
  BY <1>1 DEF Registers, ToSet
<1> QED
  BY <1>1, <1>2, <1>3, <1>4

(* The stub of the system calls pops the registers in the opposite order   *)
(* of the pushes (interrupt.asm:400-413, 429-442).                         *)
LEMMA RestoredMirrorsSaved ==
  /\ Len(SyscallRestored) = 14 /\ DOMAIN SyscallRestored = 1 .. 14
  /\ \A j \in 1 .. 14 : SyscallRestored[j] = Saved[16 - j]
BY DEF SyscallRestored, Saved

(* The fields of interrupt_registers_t are in the opposite order of the    *)
(* pushes (registers.h:6-8).                                               *)
LEMMA LayoutMirrorsSaved ==
  /\ DOMAIN Layout = 1 .. 22
  /\ \A k \in 1 .. 15 : Layout[16 - k] = Saved[k]
BY DEF Layout, Saved

(* No two fields have the same name.                                       *)
LEMMA LayoutDistinct ==
  \A j, k \in 1 .. 22 : Layout[j] = Layout[k] => j = k
<1>1. ASSUME NEW k \in 1 .. 22
      PROVE  \A j \in 1 .. 22 : Layout[j] = Layout[k] => j = k
  BY DEF Layout
<1> QED
  BY <1>1

(* The six parameters are pushed in the opposite order of the handler's    *)
(* arguments (interrupt.asm:415-421).                                      *)
LEMMA ParametersFacts ==
  /\ Len(Parameters) = 6 /\ DOMAIN Parameters = 1 .. 6
  /\ \A k \in 1 .. 6 : Parameters[k] \in Registers
  /\ \A k \in 1 .. 6 :
       <<"rdi", "rsi", "rdx", "r10", "r8", "r9">>[k] = Parameters[7 - k]
<1>1. Len(Parameters) = 6 /\ DOMAIN Parameters = 1 .. 6
  BY DEF Parameters
<1>2. \A k \in 1 .. 6 :
        <<"rdi", "rsi", "rdx", "r10", "r8", "r9">>[k] = Parameters[7 - k]
  BY DEF Parameters
<1>3. \A k \in 1 .. 6 : Parameters[k] \in {"r9", "r8", "r10", "rdx", "rsi", "rdi"}
  BY DEF Parameters
<1>4. {"r9", "r8", "r10", "rdx", "rsi", "rdi"} \subseteq Registers
  <2>1. /\ Saved[9] = "r9" /\ Saved[8] = "r8" /\ Saved[10] = "r10"
        /\ Saved[4] = "rdx" /\ Saved[5] = "rsi" /\ Saved[6] = "rdi"
    BY DEF Saved
  <2> QED
    BY <2>1, SavedFacts
<1> QED
  BY <1>1, <1>2, <1>3, <1>4

-----------------------------------------------------------------------------
(***************************************************************************)
(* The entry code                                                          *)
(***************************************************************************)

Instruction ==
  [op : {"imm", "drop"}, n : Nat] \cup [op : {"push", "pop"}, reg : Registers]
    \cup [op : {"call"}, to : {"isr_handler", "irq_handler", "syscall_table"}]
    \cup [op : {"iretq"}]

Vectors == (0 .. (IRQ0 + 15)) \cup {SYSCALL}

Entry(v) ==
  IF v = SYSCALL THEN syscall_handler
  ELSE IF v < IRQ0 THEN isr(v) ELSE irq(v - IRQ0)

\* The elements of two sequences one after the other.
LEMMA Concatenation ==
  ASSUME NEW S, NEW s \in Seq(S), NEW t \in Seq(S), NEW r, r = s \o t
  PROVE  /\ r \in Seq(S) /\ Len(r) = Len(s) + Len(t)
         /\ \A k \in 1 .. Len(s) : r[k] = s[k]
         /\ \A k \in 1 .. Len(t) : r[k + Len(s)] = t[k]
OBVIOUS

(* The pushes that all stubs but that of the system calls begin with.      *)
LEMMA SavedPushes ==
  /\ Pushes(Saved) \in Seq(Instruction) /\ Len(Pushes(Saved)) = 15
  /\ \A k \in 1 .. 15 : Pushes(Saved)[k] = Push(Saved[k])
<1>1. Pushes(Saved) = [k \in 1 .. 15 |-> Push(Saved[k])]
  BY SavedFacts DEF Pushes
<1>2. \A k \in 1 .. 15 : Push(Saved[k]) \in Instruction
  BY SavedFacts DEF Push, Instruction
<1> QED
  BY <1>1, <1>2

\* The code of the stubs of exceptions and devices.
LEMMA StubCode ==
  ASSUME NEW v \in 0 .. (IRQ0 + 15)
  PROVE  /\ Entry(v) \in Seq(Instruction) /\ Len(Entry(v)) = 20
         /\ \E a \in Nat : Entry(v)[1] = Imm(a)
         /\ \E b \in Nat : Entry(v)[2] = Imm(b) /\ (v \notin 1 .. 3 => b = v)
         /\ \A k \in 1 .. 15 : Entry(v)[k + 2] = Push(Saved[k])
         /\ Entry(v)[18] = Call(IF v < IRQ0 THEN "isr_handler" ELSE "irq_handler")
         /\ \E n \in Nat : Entry(v)[19] = Drop(n) /\ (v >= IRQ0 => n = 1)
         /\ Entry(v)[20] = Iretq
<1> DEFINE f == IF v < IRQ0 THEN "isr_handler" ELSE "irq_handler"
           n == IF v < IRQ0 THEN 2 ELSE 1
           last == <<Call(f), Drop(n), Iretq>>
<1> USE DEF IRQ0
<1>1. PICK a \in Nat, b \in Nat :
        /\ Entry(v) = <<Imm(a), Imm(b)>> \o (Pushes(Saved) \o last)
        /\ v \notin 1 .. 3 => b = v
  <2>1. CASE v \in 1 .. 3
    <3>1. Entry(v) = isr(v)
      BY <2>1 DEF Entry, SYSCALL
    <3>2. isr(v) = <<Imm(v), Imm(0)>> \o isr_common_stub
      BY <2>1, Zenon DEF isr
    <3>3. isr_common_stub = Pushes(Saved) \o last
      BY <2>1 DEF isr_common_stub
    <3>4. 0 \in Nat /\ v \in Nat
      OBVIOUS
    <3> QED
      BY <2>1, <3>1, <3>2, <3>3, <3>4, Zenon
  <2>2. CASE v < IRQ0 /\ v \notin 1 .. 3
    <3>1. Entry(v) = isr(v)
      BY <2>2 DEF Entry, SYSCALL
    <3>2. isr(v) = <<Imm(0), Imm(v)>> \o isr_common_stub
      BY <2>2, Zenon DEF isr
    <3>3. isr_common_stub = Pushes(Saved) \o last
      BY <2>2 DEF isr_common_stub
    <3>4. 0 \in Nat /\ v \in Nat
      OBVIOUS
    <3> QED
      BY <2>2, <3>1, <3>2, <3>3, <3>4, Zenon
  <2>3. CASE v >= IRQ0
    <3>1. Entry(v) = irq(v - IRQ0)
      BY <2>3 DEF Entry, SYSCALL
    <3>2. irq(v - IRQ0) = <<Imm(v - IRQ0), Imm(v)>> \o irq_common_stub
      BY <2>3 DEF irq
    <3>3. irq_common_stub = Pushes(Saved) \o last
      BY <2>3 DEF irq_common_stub
    <3>4. v - IRQ0 \in Nat /\ v \in Nat /\ v \notin 1 .. 3
      BY <2>3
    <3> QED
      BY <3>1, <3>2, <3>3, <3>4, Zenon
  <2>4. v \in 1 .. 3 \/ (v < IRQ0 /\ v \notin 1 .. 3) \/ v >= IRQ0
    OBVIOUS
  <2> QED
    BY <2>1, <2>2, <2>3, <2>4, Zenon
<1>2. /\ <<Imm(a), Imm(b)>> \in Seq(Instruction) /\ Len(<<Imm(a), Imm(b)>>) = 2
      /\ <<Imm(a), Imm(b)>>[1] = Imm(a) /\ <<Imm(a), Imm(b)>>[2] = Imm(b)
  BY DEF Imm, Instruction
<1>3. /\ last \in Seq(Instruction) /\ Len(last) = 3
      /\ last[1] = Call(f) /\ last[2] = Drop(n) /\ last[3] = Iretq
  BY DEF Call, Drop, Iretq, Instruction
<1> HIDE DEF last
<1> DEFINE pushes == Pushes(Saved)
           rest == pushes \o last
           first == <<Imm(a), Imm(b)>>
<1>4. /\ pushes \in Seq(Instruction) /\ Len(pushes) = 15
      /\ \A k \in 1 .. 15 : pushes[k] = Push(Saved[k])
  BY SavedPushes
<1>5. Entry(v) = first \o rest
  BY <1>1
<1>6. first \in Seq(Instruction) /\ Len(first) = 2 /\ first[1] = Imm(a) /\ first[2] = Imm(b)
  BY <1>2
<1> HIDE DEF pushes, first
<1>7. /\ rest \in Seq(Instruction) /\ Len(rest) = Len(pushes) + Len(last)
      /\ \A k \in 1 .. Len(pushes) : rest[k] = pushes[k]
      /\ \A k \in 1 .. Len(last) : rest[k + Len(pushes)] = last[k]
  <2>1. pushes \in Seq(Instruction) /\ last \in Seq(Instruction)
    BY <1>3, <1>4
  <2> QED
    BY <2>1, Concatenation
<1> HIDE DEF rest
<1>8. /\ Entry(v) \in Seq(Instruction) /\ Len(Entry(v)) = Len(first) + Len(rest)
      /\ \A k \in 1 .. Len(first) : Entry(v)[k] = first[k]
      /\ \A k \in 1 .. Len(rest) : Entry(v)[k + Len(first)] = rest[k]
  <2>1. first \in Seq(Instruction) /\ rest \in Seq(Instruction)
    BY <1>6, <1>7
  <2> QED
    BY <1>5, <2>1, Concatenation
<1>9. /\ \A k \in 1 .. 15 : rest[k] = Push(Saved[k])
      /\ rest[16] = Call(f) /\ rest[17] = Drop(n) /\ rest[18] = Iretq
      /\ Len(rest) = 18
  BY <1>3, <1>4, <1>7
<1>12. /\ Len(Entry(v)) = 20 /\ Entry(v)[1] = Imm(a) /\ Entry(v)[2] = Imm(b)
       /\ \A k \in 1 .. 18 : Entry(v)[k + 2] = rest[k]
  BY <1>6, <1>8, <1>9
<1>10. \A k \in 1 .. 15 : Entry(v)[k + 2] = Push(Saved[k])
  BY <1>9, <1>12
<1>11. Entry(v)[18] = Call(f) /\ Entry(v)[19] = Drop(n) /\ Entry(v)[20] = Iretq
  BY <1>9, <1>12
<1>13. \E i \in Nat : Entry(v)[19] = Drop(i) /\ (v >= IRQ0 => i = 1)
  <2>1. n \in Nat /\ (v >= IRQ0 => n = 1)
    OBVIOUS
  <2> QED
    BY <1>11, <2>1, Zenon
<1>14. /\ \E i \in Nat : Entry(v)[1] = Imm(i)
       /\ \E i \in Nat : Entry(v)[2] = Imm(i) /\ (v \notin 1 .. 3 => i = v)
  BY <1>1, <1>12, Zenon
<1> QED
  BY <1>8, <1>10, <1>11, <1>12, <1>13, <1>14, Zenon

(* The code of the stub of the system calls, by place.                     *)
LEMMA SyscallCode ==
  /\ Entry(SYSCALL) \in Seq(Instruction) /\ Len(Entry(SYSCALL)) = 37
  /\ \A k \in 1 .. 14 : Entry(SYSCALL)[k] = Push(Saved[k + 1])
  /\ \A k \in 1 .. 6 : Entry(SYSCALL)[k + 14] = Push(Parameters[k])
  /\ Entry(SYSCALL)[21] = Call("syscall_table") /\ Entry(SYSCALL)[22] = Drop(6)
  /\ \A k \in 1 .. 14 : Entry(SYSCALL)[k + 22] = Pop(Saved[16 - k])
  /\ Entry(SYSCALL)[37] = Iretq
<1> DEFINE A == Pushes(Tail(Saved))
           B == Pushes(Parameters)
           C == <<Call("syscall_table"), Drop(6)>>
           D == Pops(SyscallRestored)
           E == <<Iretq>>
<1>1. /\ A \in Seq(Instruction) /\ Len(A) = 14
      /\ \A k \in 1 .. 14 : A[k] = Push(Saved[k + 1])
  <2>1. /\ DOMAIN Tail(Saved) = 1 .. 14
        /\ \A k \in 1 .. 14 : Tail(Saved)[k] = Saved[k + 1]
    BY DEF Saved
  <2>2. A = [k \in 1 .. 14 |-> Push(Tail(Saved)[k])]
    BY <2>1 DEF Pushes
  <2>3. A = [k \in 1 .. 14 |-> Push(Saved[k + 1])]
    BY <2>1, <2>2, Zenon
  <2>4. \A k \in 1 .. 14 : Push(Saved[k + 1]) \in Instruction
    BY SavedFacts DEF Push, Instruction
  <2> HIDE DEF A
  <2> QED
    BY <2>3, <2>4
<1>2. /\ B \in Seq(Instruction) /\ Len(B) = 6
      /\ \A k \in 1 .. 6 : B[k] = Push(Parameters[k])
  <2>1. B = [k \in 1 .. 6 |-> Push(Parameters[k])]
    BY ParametersFacts DEF Pushes
  <2>2. \A k \in 1 .. 6 : Push(Parameters[k]) \in Instruction
    BY ParametersFacts DEF Push, Instruction
  <2> QED
    BY <2>1, <2>2
<1>3. /\ C \in Seq(Instruction) /\ Len(C) = 2
      /\ C[1] = Call("syscall_table") /\ C[2] = Drop(6)
  BY DEF Call, Drop, Instruction
<1>4. /\ D \in Seq(Instruction) /\ Len(D) = 14
      /\ \A k \in 1 .. 14 : D[k] = Pop(Saved[16 - k])
  <2>1. D = [k \in 1 .. 14 |-> Pop(SyscallRestored[k])]
    BY RestoredMirrorsSaved DEF Pops
  <2>2. \A k \in 1 .. 14 : Pop(Saved[16 - k]) \in Instruction
    BY SavedFacts DEF Pop, Instruction
  <2> QED
    BY <2>1, <2>2, RestoredMirrorsSaved
<1>5. E \in Seq(Instruction) /\ Len(E) = 1 /\ E[1] = Iretq
  BY DEF Iretq, Instruction
<1>6. Entry(SYSCALL) = A \o B \o C \o D \o E
  BY DEF Entry, syscall_handler
<1> DEFINE AB == A \o B
           ABC == AB \o C
           ABCD == ABC \o D
<1>7. Entry(SYSCALL) = ABCD \o E
  BY <1>6
<1>8. /\ A \in Seq(Instruction) /\ B \in Seq(Instruction) /\ C \in Seq(Instruction)
      /\ D \in Seq(Instruction) /\ E \in Seq(Instruction)
  BY <1>1, <1>2, <1>3, <1>4, <1>5
<1> HIDE DEF A, B, C, D, E
<1>9. /\ AB \in Seq(Instruction) /\ Len(AB) = Len(A) + Len(B)
      /\ \A k \in 1 .. Len(A) : AB[k] = A[k]
      /\ \A k \in 1 .. Len(B) : AB[k + Len(A)] = B[k]
  BY <1>8, Concatenation
<1> HIDE DEF AB
<1>10. /\ ABC \in Seq(Instruction) /\ Len(ABC) = Len(AB) + Len(C)
       /\ \A k \in 1 .. Len(AB) : ABC[k] = AB[k]
       /\ \A k \in 1 .. Len(C) : ABC[k + Len(AB)] = C[k]
  <2>1. AB \in Seq(Instruction)
    BY <1>9
  <2> QED
    BY <1>8, <2>1, Concatenation
<1> HIDE DEF ABC
<1>11. /\ ABCD \in Seq(Instruction) /\ Len(ABCD) = Len(ABC) + Len(D)
       /\ \A k \in 1 .. Len(ABC) : ABCD[k] = ABC[k]
       /\ \A k \in 1 .. Len(D) : ABCD[k + Len(ABC)] = D[k]
  <2>1. ABC \in Seq(Instruction)
    BY <1>10
  <2> QED
    BY <1>8, <2>1, Concatenation
<1> HIDE DEF ABCD
<1>12. /\ Entry(SYSCALL) \in Seq(Instruction)
       /\ Len(Entry(SYSCALL)) = Len(ABCD) + Len(E)
       /\ \A k \in 1 .. Len(ABCD) : Entry(SYSCALL)[k] = ABCD[k]
       /\ \A k \in 1 .. Len(E) : Entry(SYSCALL)[k + Len(ABCD)] = E[k]
  <2>1. ABCD \in Seq(Instruction)
    BY <1>11
  <2> QED
    BY <1>7, <1>8, <2>1, Concatenation
<1>13. Len(AB) = 20 /\ Len(ABC) = 22 /\ Len(ABCD) = 36
  BY <1>1, <1>2, <1>3, <1>4, <1>9, <1>10, <1>11
<1>14. /\ \A k \in 1 .. 14 : AB[k] = Push(Saved[k + 1])
       /\ \A k \in 1 .. 6 : AB[k + 14] = Push(Parameters[k])
  BY <1>1, <1>2, <1>9
<1>15. /\ \A k \in 1 .. 20 : ABC[k] = AB[k]
       /\ ABC[21] = Call("syscall_table") /\ ABC[22] = Drop(6)
  BY <1>3, <1>10, <1>13
<1>16. /\ \A k \in 1 .. 22 : ABCD[k] = ABC[k]
       /\ \A k \in 1 .. 14 : ABCD[k + 22] = Pop(Saved[16 - k])
  BY <1>4, <1>11, <1>13
<1>17. /\ \A k \in 1 .. 36 : Entry(SYSCALL)[k] = ABCD[k]
       /\ Entry(SYSCALL)[37] = Iretq /\ Len(Entry(SYSCALL)) = 37
  BY <1>5, <1>12, <1>13
<1>18. /\ \A k \in 1 .. 20 : Entry(SYSCALL)[k] = AB[k]
       /\ Entry(SYSCALL)[21] = Call("syscall_table") /\ Entry(SYSCALL)[22] = Drop(6)
  BY <1>15, <1>16, <1>17
<1>19. \A k \in 1 .. 14 : Entry(SYSCALL)[k] = Push(Saved[k + 1])
  BY <1>14, <1>18
<1>20. \A k \in 1 .. 6 : Entry(SYSCALL)[k + 14] = Push(Parameters[k])
  BY <1>14, <1>18
<1>21. \A k \in 1 .. 14 : Entry(SYSCALL)[k + 22] = Pop(Saved[16 - k])
  BY <1>16, <1>17
<1> QED
  BY <1>12, <1>17, <1>18, <1>19, <1>20, <1>21

\* How many of its instructions an entry pushes words with.
Height(v) == IF v = SYSCALL THEN 20 ELSE 17

\* Which instructions stand where.
LEMMA Operations ==
  ASSUME NEW v \in Vectors, NEW i \in 0 .. (Len(Entry(v)) - 1)
  PROVE  /\ i < Height(v) =>
              \/ \E n \in Nat : Entry(v)[i + 1] = Imm(n)
              \/ \E r \in Registers : Entry(v)[i + 1] = Push(r)
         /\ i = Height(v) =>
              Entry(v)[i + 1] = Call(IF v = SYSCALL THEN "syscall_table"
                                     ELSE IF v < IRQ0 THEN "isr_handler" ELSE "irq_handler")
         /\ i = Height(v) + 1 =>
              \E n \in Nat : /\ Entry(v)[i + 1] = Drop(n)
                             /\ v = SYSCALL => n = 6
                             /\ v # SYSCALL /\ v >= IRQ0 => n = 1
         /\ i > Height(v) + 1 /\ i < Len(Entry(v)) - 1 =>
              v = SYSCALL /\ i \in 22 .. 35 /\ Entry(v)[i + 1] = Pop(Saved[37 - i])
         /\ i = Len(Entry(v)) - 1 => Entry(v)[i + 1] = Iretq
         /\ Len(Entry(v)) = IF v = SYSCALL THEN 37 ELSE 20
<1>1. CASE v = SYSCALL
  <2>1. i \in 0 .. 36 /\ Height(v) = 20
    BY <1>1, SyscallCode DEF Height
  <2>2. ASSUME i < 20
        PROVE  \E r \in Registers : Entry(v)[i + 1] = Push(r)
    <3>1. CASE i < 14
      <4> DEFINE k == i + 1
      <4>0. k \in 1 .. 14 /\ k + 1 = i + 2
        BY <2>1, <3>1
      <4>1. Entry(v)[i + 1] = Push(Saved[i + 2])
        BY <1>1, <4>0, SyscallCode
      <4>2. Saved[i + 2] \in Registers
        BY <2>1, <3>1, SavedFacts
      <4> QED
        BY <4>1, <4>2, Zenon
    <3>2. CASE i >= 14
      <4> DEFINE k == i - 13
      <4>0. k \in 1 .. 6 /\ i + 1 = k + 14
        BY <2>1, <2>2, <3>2
      <4>1. Entry(v)[i + 1] = Push(Parameters[k])
        BY <1>1, <4>0, SyscallCode
      <4>2. Parameters[k] \in Registers
        BY <4>0, ParametersFacts
      <4> QED
        BY <4>1, <4>2, Zenon
    <3> QED
      BY <2>1, <3>1, <3>2
  <2>3. i = 20 => Entry(v)[i + 1] = Call("syscall_table")
    BY <1>1, SyscallCode
  <2>4. i = 21 => Entry(v)[i + 1] = Drop(6)
    BY <1>1, SyscallCode
  <2>5. i \in 22 .. 35 => Entry(v)[i + 1] = Pop(Saved[37 - i])
    <3> SUFFICES ASSUME i \in 22 .. 35
                 PROVE  Entry(v)[i + 1] = Pop(Saved[37 - i])
      OBVIOUS
    <3> DEFINE k == i - 21
    <3>1. k \in 1 .. 14 /\ i + 1 = k + 22 /\ 37 - i = 16 - k
      OBVIOUS
    <3> QED
      BY <1>1, <3>1, SyscallCode
  <2>6. i = 36 => Entry(v)[i + 1] = Iretq
    BY <1>1, SyscallCode
  <2>7. Len(Entry(v)) = 37
    BY <1>1, SyscallCode
  <2>8. 6 \in Nat
    OBVIOUS
  <2>9. i = Height(v) + 1 =>
          \E n \in Nat : /\ Entry(v)[i + 1] = Drop(n)
                         /\ v = SYSCALL => n = 6
                         /\ v # SYSCALL /\ v >= IRQ0 => n = 1
    BY <1>1, <2>1, <2>4, <2>8
  <2> QED
    BY <1>1, <2>1, <2>2, <2>3, <2>5, <2>6, <2>7, <2>9
<1>2. CASE v # SYSCALL
  <2>0. v \in 0 .. (IRQ0 + 15)
    BY <1>2 DEF Vectors
  <2>1. i \in 0 .. 19 /\ Height(v) = 17 /\ Len(Entry(v)) = 20
    <3>1. Len(Entry(v)) = 20
      BY <2>0, StubCode
    <3> QED
      BY <1>2, <3>1 DEF Height
  <2>2. ASSUME i < 17
        PROVE  \/ \E n \in Nat : Entry(v)[i + 1] = Imm(n)
               \/ \E r \in Registers : Entry(v)[i + 1] = Push(r)
    <3>1. CASE i < 2
      <4>1. /\ \E n \in Nat : Entry(v)[1] = Imm(n)
            /\ \E n \in Nat : Entry(v)[2] = Imm(n)
        BY <2>0, StubCode, Zenon
      <4>2. i + 1 = 1 \/ i + 1 = 2
        BY <2>1, <3>1
      <4> QED
        BY <4>1, <4>2
    <3>2. CASE i >= 2
      <4> DEFINE k == i - 1
      <4>0. k \in 1 .. 15 /\ i + 1 = k + 2
        BY <2>1, <2>2, <3>2
      <4>1. Entry(v)[i + 1] = Push(Saved[k])
        BY <2>0, <4>0, StubCode
      <4>2. Saved[k] \in Registers
        BY <4>0, SavedFacts
      <4> QED
        BY <4>1, <4>2, Zenon
    <3> QED
      BY <2>1, <3>1, <3>2
  <2>3. i = 17 => Entry(v)[i + 1] = Call(IF v < IRQ0 THEN "isr_handler" ELSE "irq_handler")
    BY <2>0, StubCode
  <2>4. i = 18 => \E n \in Nat : Entry(v)[i + 1] = Drop(n) /\ (v >= IRQ0 => n = 1)
    BY <2>0, StubCode
  <2>5. i = 19 => Entry(v)[i + 1] = Iretq
    BY <2>0, StubCode
  <2> QED
    BY <1>2, <2>1, <2>2, <2>3, <2>4, <2>5
<1> QED
  BY <1>1, <1>2

\* What is left of a sequence after its first i elements.
Rest(s, i) == SubSeq(s, i + 1, Len(s))

(* One instruction further.                                                *)
LEMMA RestFacts ==
  ASSUME NEW S, NEW s \in Seq(S), NEW i \in 0 .. (Len(s) - 1)
  PROVE  /\ Rest(s, i) # << >> /\ Head(Rest(s, i)) = s[i + 1]
         /\ Tail(Rest(s, i)) = Rest(s, i + 1)
<1>1. /\ Head(Rest(s, i)) = s[i + 1] /\ Tail(Rest(s, i)) = Rest(s, i + 1)
  BY HeadTailOfSubSeq DEF Rest
<1>2. Len(Rest(s, i)) = Len(s) - i /\ Rest(s, i) \in Seq(S)
  BY SubSeqProperties DEF Rest
<1>3. Rest(s, i) # << >>
  BY <1>2
<1> QED
  BY <1>1, <1>3

-----------------------------------------------------------------------------
(***************************************************************************)
(* The invariant                                                           *)
(***************************************************************************)

Contents == Nat \cup {"program", "junk", "result"}
RegisterWord == (Registers \cup {"number"}) \X Contents
StackWord ==
  RegisterWord \cup ({"imm", "ss", "rsp", "rflags", "cs", "rip", "error", "return"} \X Nat)

TypeInv ==
  /\ status \in {"boot", "running", "entry", "halted", "reset", "lost"}
  /\ regs \in [Registers -> RegisterWord]
  /\ stack \in Seq(StackWord)
  /\ at \in [vector : Vectors, regs : [Registers -> RegisterWord], depth : Nat]
  /\ at.depth <= Len(stack)
  /\ in_service \subseteq 0 .. 15 /\ handlers \subseteq 0 .. 255

\* A gate leads to the entry code of its vector.
GatesInv ==
  /\ DOMAIN idt \subseteq Vectors
  /\ \A v \in DOMAIN idt : idt[v].entry = Entry(v)

FrameNames == <<"ss", "rsp", "rflags", "cs", "rip">>
FrameLength(v) == IF v \in WithErrorCode THEN 6 ELSE 5

\* The word that an instruction pushes in the entry code of `at`.
Word(instr) == IF instr.op = "imm" THEN <<"imm", instr.n>> ELSE at.regs[instr.reg]

\* The stack holds what was there at the interruption, the processor's frame
\* and the words of the first n instructions.
Stacked(n) ==
  /\ Len(stack) = at.depth + FrameLength(at.vector) + n
  /\ \A k \in 1 .. 5 : stack[at.depth + k] = <<FrameNames[k], at.depth>>
  /\ \A k \in 1 .. n :
       stack[at.depth + FrameLength(at.vector) + k] = Word(Entry(at.vector)[k])

\* How many of the words are left after i instructions.
Left(v, i) ==
  IF i <= Height(v) THEN i
  ELSE IF v # SYSCALL THEN 35 - i
  ELSE IF i = 21 THEN 20 ELSE 36 - i

\* The processor has executed i instructions of the entry code.
Position(i) ==
  /\ i \in 0 .. (Len(Entry(at.vector)) - 1)
  /\ code = Rest(Entry(at.vector), i)
  /\ Stacked(Left(at.vector, i))
  /\ i <= Height(at.vector) => regs = at.regs
  /\ i = Height(at.vector) + 1 => view = Reverse(stack)
  /\ i > Height(at.vector) => at.vector >= IRQ0
  /\ at.vector = SYSCALL /\ i > 20 =>
       /\ regs["rax"] = <<"rax", "result">>
       /\ \A k \in 2 .. 15 : k >= 38 - i => regs[Saved[k]] = at.regs[Saved[k]]

\* What the PICs wait for then.
Awaited(i) ==
  /\ at.vector = SYSCALL => in_service = {}
  /\ at.vector \in IRQ0 .. (IRQ0 + 15) =>
       IF i <= Height(at.vector) THEN in_service \subseteq Serving(at.vector - IRQ0)
       ELSE in_service = {}

EntryInv == status = "entry" => \E i \in 0 .. 36 : Position(i) /\ Awaited(i)

HaltedInv ==
  status = "halted" => at.vector < IRQ0 /\ Stacked(17) /\ view = Reverse(stack)

OutsideInv ==
  /\ status = "boot" => at.vector # SYSCALL
  /\ SyscallTransparent
  /\ AllAcknowledged
  /\ status = "boot" => in_service = {}

IInv == TypeInv /\ GatesInv /\ EntryInv /\ HaltedInv /\ OutsideInv

-----------------------------------------------------------------------------

(* The processor pushes five words in a fixed order, and a sixth for some  *)
(* exceptions.                                                             *)
LEMMA CpuFrameFacts ==
  ASSUME NEW v \in Vectors, NEW d \in Nat
  PROVE  /\ CpuFrame(v, d) \in Seq(StackWord)
         /\ Len(CpuFrame(v, d)) = FrameLength(v)
         /\ \A k \in 1 .. 5 : CpuFrame(v, d)[k] = <<FrameNames[k], d>>
<1> DEFINE five == [k \in 1 .. 5 |-> <<FrameNames[k], d>>]
           rest == IF v \in WithErrorCode THEN <<<<"error", v>>>> ELSE << >>
<1>1. CpuFrame(v, d) = five \o rest
  BY DEF CpuFrame, FrameNames
<1>2. five \in Seq(StackWord) /\ Len(five) = 5
  <2>1. \A k \in 1 .. 5 : <<FrameNames[k], d>> \in StackWord
    BY DEF FrameNames, StackWord
  <2> QED
    BY <2>1
<1>3. rest \in Seq(StackWord) /\ Len(rest) = IF v \in WithErrorCode THEN 1 ELSE 0
  <2>1. v \in Nat
    BY DEF Vectors, IRQ0, SYSCALL
  <2>2. <<"error", v>> \in StackWord
    BY <2>1 DEF StackWord
  <2> QED
    BY <2>2
<1>4. \A k \in 1 .. 5 : five[k] = <<FrameNames[k], d>>
  OBVIOUS
<1>5. five \in Seq(StackWord) /\ rest \in Seq(StackWord)
  BY <1>2, <1>3
<1> HIDE DEF five, rest
<1>6. /\ CpuFrame(v, d) \in Seq(StackWord)
      /\ Len(CpuFrame(v, d)) = Len(five) + Len(rest)
      /\ \A k \in 1 .. Len(five) : CpuFrame(v, d)[k] = five[k]
  BY <1>1, <1>5, Concatenation
<1> QED
  BY <1>2, <1>3, <1>4, <1>6 DEF FrameLength

\* The end of an interrupt that irq_handler sends leaves no line in service
\* that the interrupt came through (isr.c:154-158).
LEMMA AcknowledgedFacts ==
  ASSUME NEW n \in 0 .. 15, NEW serving \in SUBSET Serving(n)
  PROVE  Acknowledged(serving, IRQ0 + n) = {}
<1>1. CASE n < 8
  <2>1. serving = {} \/ serving = {n}
    BY <1>1 DEF Serving
  <2>2. EndOfInterrupt(serving, 0 .. 7) = {}
    BY <1>1, <2>1 DEF EndOfInterrupt
  <2> QED
    BY <1>1, <2>2 DEF Acknowledged, IRQ0
<1>2. CASE n >= 8
  <2>1. serving \in {{}, {2}, {n}, {2, n}}
    BY <1>2 DEF Serving
  <2>2. EndOfInterrupt(serving, 8 .. 15) \in {{}, {2}}
    <3>1. EndOfInterrupt(serving, 8 .. 15) = serving \ {n}
      BY <1>2, <2>1 DEF EndOfInterrupt
    <3> QED
      BY <1>2, <2>1, <3>1
  <2>3. EndOfInterrupt({}, 0 .. 7) = {} /\ EndOfInterrupt({2}, 0 .. 7) = {}
    BY DEF EndOfInterrupt
  <2> QED
    BY <1>2, <2>2, <2>3 DEF Acknowledged, IRQ0
<1> QED
  BY <1>1, <1>2

(* The end of an interrupt that timer_callback sends once more finds       *)
(* nothing in service and ends nothing (pit.c:17).                         *)
LEMMA HandledFacts ==
  ASSUME NEW v
  PROVE  Handled({}, v) = {}
BY DEF Handled, EndOfInterrupt

(* Nothing has been executed yet.                                          *)
LEMMA RestZero ==
  ASSUME NEW S, NEW s \in Seq(S)
  PROVE  Rest(s, 0) = s
BY DEF Rest

(* Each entry code is a sequence of instructions.                          *)
LEMMA EntryType ==
  ASSUME NEW v \in Vectors
  PROVE  /\ Entry(v) \in Seq(Instruction)
         /\ Len(Entry(v)) = IF v = SYSCALL THEN 37 ELSE 20
<1>1. CASE v = SYSCALL
  BY <1>1, SyscallCode
<1>2. CASE v # SYSCALL
  BY <1>2, StubCode DEF Vectors
<1> QED
  BY <1>1, <1>2

\* What takes an interrupt begins the entry code of its vector or of a fault.
LEMMA Taken ==
  ASSUME TypeInv, GatesInv,
         NEW v \in Vectors, NEW now \in [Registers -> RegisterWord],
         NEW below \in Seq(StackWord), Interrupt(v, now, below), regs' = now
  PROVE  \/ status' = "reset" /\ UNCHANGED <<stack, code, at>>
         \/ /\ status' = "entry"
            /\ at' \in [vector : Vectors, regs : [Registers -> RegisterWord], depth : Nat]
            /\ at'.vector \in {v, NOT_PRESENT, DOUBLE_FAULT}
            /\ stack' \in Seq(StackWord) /\ at'.depth <= Len(stack')
            /\ Position(0)'
<1> DEFINE tried == <<v, NOT_PRESENT, DOUBLE_FAULT>>
<1>1. CASE status' = "reset" /\ UNCHANGED <<stack, code, at>>
  BY <1>1
<1>2. ASSUME NEW k \in 1 .. 3,
             Usable(tried[k]), status' = "entry",
             stack' = below \o CpuFrame(tried[k], Len(below)),
             code' = idt[tried[k]].entry,
             at' = [vector |-> tried[k], regs |-> now, depth |-> Len(below)]
      PROVE  /\ status' = "entry"
             /\ at' \in [vector : Vectors, regs : [Registers -> RegisterWord], depth : Nat]
             /\ at'.vector \in {v, NOT_PRESENT, DOUBLE_FAULT}
             /\ stack' \in Seq(StackWord) /\ at'.depth <= Len(stack')
             /\ Position(0)'
  <2>0. PICK u, d : u = tried[k] /\ d = Len(below)
    OBVIOUS
  <2>1. u \in {v, NOT_PRESENT, DOUBLE_FAULT} /\ u \in Vectors
    <3>1. u = v \/ u = NOT_PRESENT \/ u = DOUBLE_FAULT
      BY <2>0
    <3>2. NOT_PRESENT \in Vectors /\ DOUBLE_FAULT \in Vectors
      BY DEF Vectors, NOT_PRESENT, DOUBLE_FAULT, IRQ0
    <3> QED
      BY <3>1, <3>2
  <2>2. u \in DOMAIN idt
    BY <1>2, <2>0 DEF Usable
  <2>3. code' = Entry(u)
    BY <1>2, <2>0, <2>2 DEF GatesInv
  <2>4. at' = [vector |-> u, regs |-> now, depth |-> d]
    BY <1>2, <2>0
  <2>5. /\ at' \in [vector : Vectors, regs : [Registers -> RegisterWord], depth : Nat]
        /\ at'.vector = u /\ at'.regs = now /\ at'.depth = d /\ d \in Nat
    BY <2>0, <2>1, <2>4
  <2>15. PICK frame : frame = CpuFrame(u, d)
    OBVIOUS
  <2>6. /\ frame \in Seq(StackWord) /\ Len(frame) = FrameLength(u)
        /\ \A j \in 1 .. 5 : frame[j] = <<FrameNames[j], d>>
    BY <2>1, <2>5, <2>15, CpuFrameFacts
  <2>7. stack' = below \o frame
    BY <1>2, <2>0, <2>15
  <2>8. /\ stack' \in Seq(StackWord) /\ Len(stack') = d + Len(frame)
        /\ \A j \in 1 .. Len(frame) : stack'[j + d] = frame[j]
    <3>1. PICK r : r = below \o frame
      OBVIOUS
    <3>2. frame \in Seq(StackWord)
      BY <2>6
    <3>3. /\ r \in Seq(StackWord) /\ Len(r) = Len(below) + Len(frame)
          /\ \A j \in 1 .. Len(frame) : r[j + Len(below)] = frame[j]
      BY <3>1, <3>2, Concatenation
    <3>4. stack' = r
      BY <2>7, <3>1
    <3> QED
      BY <2>0, <3>3, <3>4, Zenon
  <2>9. FrameLength(u) \in {5, 6}
    BY DEF FrameLength
  <2>10. \A j \in 1 .. 5 : stack'[d + j] = <<FrameNames[j], d>>
    <3> SUFFICES ASSUME NEW j \in 1 .. 5
                 PROVE  stack'[d + j] = <<FrameNames[j], d>>
      OBVIOUS
    <3>1. j \in 1 .. Len(frame) /\ j + d = d + j
      BY <2>5, <2>6, <2>9
    <3>2. stack'[j + d] = frame[j]
      BY <2>8, <3>1
    <3> QED
      BY <2>6, <3>1, <3>2, Zenon
  <2>11. Stacked(0)'
    <3>1. Len(stack') = d + FrameLength(u) + 0
      BY <2>5, <2>6, <2>8, <2>9
    <3> QED
      BY <2>5, <2>10, <3>1 DEF Stacked
  <2>12. Height(u) \in 17 .. 20 /\ Left(u, 0) = 0
    BY DEF Height, Left
  <2>16. Entry(u) \in Seq(Instruction) /\ Len(Entry(u)) > 0
    <3>1. /\ Entry(u) \in Seq(Instruction)
          /\ Len(Entry(u)) = IF u = SYSCALL THEN 37 ELSE 20
      BY <2>1, EntryType, Zenon
    <3> QED
      BY <3>1
  <2>13. code' = Rest(Entry(u), 0)
    BY <2>3, <2>16, RestZero
  <2>14. Position(0)'
    <3>1. 0 \in 0 .. (Len(Entry(u)) - 1) /\ 0 <= Height(u) /\ 0 # Height(u) + 1
          /\ ~(0 > Height(u)) /\ ~(0 > 20)
      BY <2>12, <2>16
    <3>2. Stacked(Left(u, 0))'
      BY <2>11, <2>12, Zenon
    <3>3. regs' = at'.regs
      BY <2>5
    <3> QED
      BY <2>5, <2>13, <3>1, <3>2, <3>3 DEF Position
  <2> QED
    BY <1>2, <2>1, <2>5, <2>8, <2>9, <2>6, <2>14
<1> QED
  BY <1>1, <1>2 DEF Interrupt

\* The instruction executed in a position.
LEMMA Executes ==
  ASSUME TypeInv, NEW i, Position(i)
  PROVE  /\ code # << >> /\ Head(code) = Entry(at.vector)[i + 1]
         /\ Tail(code) = Rest(Entry(at.vector), i + 1)
         /\ at.vector \in Vectors
         /\ Len(Entry(at.vector)) = IF at.vector = SYSCALL THEN 37 ELSE 20
<1>1. at.vector \in Vectors /\ Entry(at.vector) \in Seq(Instruction)
  BY EntryType DEF TypeInv
<1>2. i \in 0 .. (Len(Entry(at.vector)) - 1) /\ code = Rest(Entry(at.vector), i)
  BY DEF Position
<1> QED
  BY <1>1, <1>2, RestFacts, EntryType

\* Which position an instruction is executed in.
LEMMA Kinds ==
  ASSUME NEW v \in Vectors, NEW i \in 0 .. (Len(Entry(v)) - 1)
  PROVE  /\ Entry(v)[i + 1].op \in {"imm", "push"} => i < Height(v)
         /\ Entry(v)[i + 1].op = "call" => i = Height(v)
         /\ Entry(v)[i + 1].op = "drop" => i = Height(v) + 1
         /\ Entry(v)[i + 1].op = "pop" => v = SYSCALL /\ i \in 22 .. 35
         /\ Entry(v)[i + 1].op = "iretq" => i = Len(Entry(v)) - 1
<1> DEFINE e == Entry(v)[i + 1]
<1>0. /\ \E n \in Nat : e = Imm(n) => e.op = "imm"
      /\ \A n : e = Imm(n) => e.op = "imm"
      /\ \A r : e = Push(r) => e.op = "push"
      /\ \A r : e = Pop(r) => e.op = "pop"
      /\ \A f : e = Call(f) => e.op = "call"
      /\ \A n : e = Drop(n) => e.op = "drop"
      /\ e = Iretq => e.op = "iretq"
  BY DEF Imm, Push, Pop, Call, Drop, Iretq
<1>1. i < Height(v) => e.op \in {"imm", "push"}
  BY <1>0, Operations
<1>2. i = Height(v) => e.op = "call"
  BY <1>0, Operations
<1>3. i = Height(v) + 1 => e.op = "drop"
  BY <1>0, Operations
<1>4. i > Height(v) + 1 /\ i < Len(Entry(v)) - 1 =>
        e.op = "pop" /\ v = SYSCALL /\ i \in 22 .. 35
  BY <1>0, Operations
<1>5. i = Len(Entry(v)) - 1 => e.op = "iretq"
  BY <1>0, Operations
<1> HIDE DEF e
<1>6. Height(v) \in Nat /\ Len(Entry(v)) \in Nat
  BY EntryType DEF Height
<1>7. \/ i < Height(v) \/ i = Height(v) \/ i = Height(v) + 1
      \/ i > Height(v) + 1 /\ i < Len(Entry(v)) - 1
      \/ i = Len(Entry(v)) - 1
  BY <1>6
<1>8. /\ e.op \in {"imm", "push"} => i < Height(v)
      /\ e.op = "call" => i = Height(v)
      /\ e.op = "drop" => i = Height(v) + 1
      /\ e.op = "pop" => v = SYSCALL /\ i \in 22 .. 35
      /\ e.op = "iretq" => i = Len(Entry(v)) - 1
  BY <1>1, <1>2, <1>3, <1>4, <1>5, <1>7
<1> QED
  BY <1>8 DEF e

(* A push adds the next word.                                              *)
LEMMA StackedPush ==
  ASSUME TypeInv, NEW n \in Nat, Stacked(n), UNCHANGED at,
         NEW w \in StackWord, w = Word(Entry(at.vector)[n + 1]),
         stack' = Append(stack, w)
  PROVE  Stacked(n + 1)' /\ stack' \in Seq(StackWord) /\ at'.depth <= Len(stack')
<1> DEFINE d == at.depth
           f == FrameLength(at.vector)
<1>1. d \in Nat /\ f \in {5, 6} /\ stack \in Seq(StackWord)
  BY DEF TypeInv, FrameLength
<1>2. /\ Len(stack) = d + f + n
      /\ \A k \in 1 .. 5 : stack[d + k] = <<FrameNames[k], d>>
      /\ \A k \in 1 .. n : stack[d + f + k] = Word(Entry(at.vector)[k])
  BY DEF Stacked
<1> HIDE DEF d, f
<1>3. /\ stack' \in Seq(StackWord) /\ Len(stack') = Len(stack) + 1
      /\ \A k \in 1 .. Len(stack) : stack'[k] = stack[k]
      /\ stack'[Len(stack) + 1] = w
  BY <1>1, AppendProperties
<1>4. Len(stack') = d + f + (n + 1)
  BY <1>1, <1>2, <1>3
<1>5. \A k \in 1 .. 5 : stack'[d + k] = <<FrameNames[k], d>>
  BY <1>1, <1>2, <1>3, SMTT(30)
<1>6. \A k \in 1 .. (n + 1) : stack'[d + f + k] = Word(Entry(at.vector)[k])
  <2>1. ASSUME NEW k \in 1 .. n
        PROVE  stack'[d + f + k] = Word(Entry(at.vector)[k])
    <3>1. d + f + k \in 1 .. Len(stack)
      BY <1>1, <1>2
    <3> QED
      BY <1>2, <1>3, <3>1
  <2>2. stack'[d + f + (n + 1)] = Word(Entry(at.vector)[n + 1])
    <3>1. d + f + (n + 1) = Len(stack) + 1
      BY <1>1, <1>2
    <3> QED
      BY <1>3, <3>1
  <2>3. \A k \in 1 .. (n + 1) : k \in 1 .. n \/ k = n + 1
    OBVIOUS
  <2> QED
    BY <2>1, <2>2, <2>3, Zenon
<1>7. d <= Len(stack')
  BY <1>1, <1>4
<1> QED
  BY <1>3, <1>4, <1>5, <1>6, <1>7 DEF Stacked, Word, d, f

(* What is taken off the stack leaves the words below.                     *)
LEMMA StackedDrop ==
  ASSUME TypeInv, NEW n \in Nat, NEW m \in 0 .. n, Stacked(n), UNCHANGED at,
         stack' = SubSeq(stack, 1, Len(stack) - (n - m))
  PROVE  Stacked(m)' /\ stack' \in Seq(StackWord) /\ at'.depth <= Len(stack')
<1> DEFINE d == at.depth
           f == FrameLength(at.vector)
<1>1. d \in Nat /\ f \in {5, 6} /\ stack \in Seq(StackWord)
  BY DEF TypeInv, FrameLength
<1>2. /\ Len(stack) = d + f + n
      /\ \A k \in 1 .. 5 : stack[d + k] = <<FrameNames[k], d>>
      /\ \A k \in 1 .. n : stack[d + f + k] = Word(Entry(at.vector)[k])
  BY DEF Stacked
<1> HIDE DEF d, f
<1>3. PICK l \in Nat : l = Len(stack) - (n - m) /\ l = d + f + m
  BY <1>1, <1>2
<1>4. /\ stack' \in Seq(StackWord) /\ Len(stack') = l
      /\ \A k \in 1 .. l : stack'[k] = stack[k]
  <2>1. stack' = SubSeq(stack, 1, l) /\ l <= Len(stack)
    BY <1>1, <1>2, <1>3, SMTT(30)
  <2> QED
    BY <1>1, <2>1
<1>5. \A k \in 1 .. 5 : stack'[d + k] = <<FrameNames[k], d>>
  <2> SUFFICES ASSUME NEW k \in 1 .. 5
               PROVE  stack'[d + k] = <<FrameNames[k], d>>
    OBVIOUS
  <2>1. d + k \in 1 .. l
    BY <1>1, <1>3
  <2>2. stack'[d + k] = stack[d + k]
    BY <1>4, <2>1, Zenon
  <2> QED
    BY <1>2, <2>2, Zenon
<1>6. \A k \in 1 .. m : stack'[d + f + k] = Word(Entry(at.vector)[k])
  <2> SUFFICES ASSUME NEW k \in 1 .. m
               PROVE  stack'[d + f + k] = Word(Entry(at.vector)[k])
    OBVIOUS
  <2>1. d + f + k \in 1 .. l /\ k \in 1 .. n
    BY <1>1, <1>3
  <2>2. stack'[d + f + k] = stack[d + f + k]
    BY <1>4, <2>1, Zenon
  <2>3. stack[d + f + k] = Word(Entry(at.vector)[k])
    BY <1>2, <2>1, Zenon
  <2> QED
    BY <2>2, <2>3, Zenon
<1>7. d <= Len(stack')
  BY <1>1, <1>3, <1>4
<1> QED
  BY <1>3, <1>4, <1>5, <1>6, <1>7 DEF Stacked, Word, d, f

-----------------------------------------------------------------------------
(***************************************************************************)
(* One lemma for each instruction and each handler                         *)
(***************************************************************************)

(* A push is executed before the handler is called, when the registers     *)
(* still are the interrupted program's.                                    *)
LEMMA PushPreserves ==
  ASSUME IInv, PushStep
  PROVE  IInv'
<1>0. TypeInv /\ status = "entry" /\ UNCHANGED <<status, idt, handlers, regs, at, view, in_service>>
  BY DEF IInv, PushStep, Executing, tables
<1>1. PICK i \in 0 .. 36 : Position(i) /\ Awaited(i)
  BY <1>0 DEF IInv, EntryInv
<1>2. PICK v \in Vectors : v = at.vector
  BY <1>0 DEF TypeInv
<1>3. /\ Head(code) = Entry(v)[i + 1] /\ Tail(code) = Rest(Entry(v), i + 1)
      /\ Len(Entry(v)) = IF v = SYSCALL THEN 37 ELSE 20
  BY <1>0, <1>1, <1>2, Executes, Zenon
<1>4. i \in 0 .. (Len(Entry(v)) - 1)
  BY <1>1, <1>2 DEF Position
<1>5. Entry(v)[i + 1].op \in {"imm", "push"}
  BY <1>3 DEF PushStep, Executing
<1>6. i < Height(v) /\ i \in Nat
  BY <1>4, <1>5, Kinds
<1>7. Height(v) < Len(Entry(v)) - 1 /\ Height(v) \in Nat
  BY <1>3 DEF Height
<1>8. Left(v, i) = i /\ Left(v, i + 1) = i + 1
  BY <1>6, <1>7 DEF Left
<1>9. Stacked(i) /\ regs = at.regs
  BY <1>1, <1>2, <1>6, <1>7, <1>8 DEF Position
<1>10. PICK w \in StackWord : /\ w = Word(Entry(at.vector)[i + 1])
                              /\ stack' = Append(stack, w)
  <2>1. \/ \E n \in Nat : Entry(v)[i + 1] = Imm(n)
        \/ \E r \in Registers : Entry(v)[i + 1] = Push(r)
    BY <1>4, <1>6, Operations
  <2>2. CASE \E n \in Nat : Entry(v)[i + 1] = Imm(n)
    <3>1. PICK n \in Nat : Entry(v)[i + 1] = Imm(n)
      BY <2>2
    <3>2. Head(code).op = "imm" /\ Head(code).n = n
      BY <1>3, <3>1 DEF Imm
    <3>3. stack' = Append(stack, <<"imm", n>>)
      BY <3>2 DEF PushStep, Executing
    <3>4. <<"imm", n>> \in StackWord
      BY DEF StackWord
    <3>5. <<"imm", n>> = Word(Entry(at.vector)[i + 1])
      BY <1>2, <1>3, <3>2 DEF Word
    <3> QED
      BY <3>3, <3>4, <3>5
  <2>3. CASE \E r \in Registers : Entry(v)[i + 1] = Push(r)
    <3>1. PICK r \in Registers : Entry(v)[i + 1] = Push(r)
      BY <2>3
    <3>2. Head(code).op = "push" /\ Head(code).reg = r
      BY <1>3, <3>1 DEF Push
    <3>3. stack' = Append(stack, regs[r])
      BY <3>2 DEF PushStep, Executing
    <3>4. regs[r] \in StackWord
      BY <1>0 DEF TypeInv, StackWord
    <3>5. regs[r] = Word(Entry(at.vector)[i + 1])
      BY <1>2, <1>3, <1>9, <3>2 DEF Word
    <3> QED
      BY <3>3, <3>4, <3>5
  <2> QED
    BY <2>1, <2>2, <2>3
<1>11. Stacked(i + 1)' /\ stack' \in Seq(StackWord) /\ at'.depth <= Len(stack')
  BY <1>0, <1>6, <1>9, <1>10, StackedPush
<1>12. Position(i + 1)'
  <2>1. code' = Rest(Entry(v), i + 1)
    BY <1>3 DEF PushStep
  <2>2. /\ i + 1 \in 0 .. (Len(Entry(v)) - 1) /\ i + 1 # Height(v) + 1
        /\ ~(i + 1 > Height(v)) /\ (v = SYSCALL => ~(i + 1 > 20))
    BY <1>4, <1>6, <1>7 DEF Height
  <2>3. Stacked(Left(v, i + 1))'
    BY <1>8, <1>11, Zenon
  <2>4. at'.vector = v /\ regs' = at'.regs
    BY <1>0, <1>2, <1>9
  <2> QED
    BY <2>1, <2>2, <2>3, <2>4 DEF Position
<1>13. Awaited(i + 1)'
  <2>1. i <= Height(v) /\ i + 1 <= Height(v)
    BY <1>6, <1>7
  <2> QED
    BY <1>0, <1>1, <1>2, <2>1 DEF Awaited
<1>14. TypeInv'
  BY <1>0, <1>11 DEF TypeInv
<1>15. i + 1 \in 0 .. 36
  BY <1>3, <1>4, <1>6, <1>7
<1>16. EntryInv'
  BY <1>12, <1>13, <1>15 DEF EntryInv
<1>17. GatesInv' /\ HaltedInv' /\ OutsideInv'
  BY <1>0 DEF IInv, GatesInv, HaltedInv, OutsideInv, SyscallTransparent, AllAcknowledged
<1> QED
  BY <1>14, <1>16, <1>17 DEF IInv

(* Only the stub of the system calls pops: the word on top is the one its  *)
(* mirror image has pushed.                                                *)
LEMMA PopPreserves ==
  ASSUME IInv, PopStep
  PROVE  IInv'
<1>0. TypeInv /\ status = "entry" /\ UNCHANGED <<status, idt, handlers, at, view, in_service>>
  BY DEF IInv, PopStep, Executing, tables
<1>1. PICK i \in 0 .. 36 : Position(i) /\ Awaited(i)
  BY <1>0 DEF IInv, EntryInv
<1>2. PICK v \in Vectors : v = at.vector
  BY <1>0 DEF TypeInv
<1>3. /\ Head(code) = Entry(v)[i + 1] /\ Tail(code) = Rest(Entry(v), i + 1)
      /\ Len(Entry(v)) = IF v = SYSCALL THEN 37 ELSE 20
  BY <1>0, <1>1, <1>2, Executes, Zenon
<1>4. i \in 0 .. (Len(Entry(v)) - 1)
  BY <1>1, <1>2 DEF Position
<1>5. Entry(v)[i + 1].op = "pop"
  BY <1>3 DEF PopStep, Executing
<1>6. v = SYSCALL /\ i \in 22 .. 35
  BY <1>4, <1>5, Kinds
<1>7. Height(v) = 20 /\ Len(Entry(v)) = 37
  BY <1>3, <1>6 DEF Height
<1>8. PICK n \in 1 .. 14 : n = 36 - i /\ Left(v, i) = n /\ Left(v, i + 1) = n - 1
  BY <1>6, <1>7 DEF Left
<1>9. Stacked(n)
  BY <1>1, <1>2, <1>8 DEF Position
<1>10. /\ regs["rax"] = <<"rax", "result">>
       /\ \A k \in 2 .. 15 : k >= 38 - i => regs[Saved[k]] = at.regs[Saved[k]]
  BY <1>1, <1>2, <1>6 DEF Position
<1>11. PICK r \in Registers : r = Saved[n + 1] /\ r # "rax" /\ Head(code).reg = r
  <2>1. Entry(v)[i + 1] = Pop(Saved[37 - i])
    <3>1. i > Height(v) + 1 /\ i < Len(Entry(v)) - 1
      BY <1>6, <1>7
    <3> QED
      BY <1>4, <3>1, Operations
  <2>2. 37 - i = n + 1 /\ n + 1 \in 2 .. 15
    BY <1>6, <1>8
  <2>3. Head(code).reg = Saved[n + 1]
    BY <1>3, <2>1, <2>2 DEF Pop
  <2>4. Saved[n + 1] \in Registers /\ Saved[n + 1] # "rax"
    BY <2>2, SavedFacts
  <2> QED
    BY <2>3, <2>4
<1>12. stack \in Seq(StackWord) /\ Len(stack) \in Nat /\ Len(stack) > 0
  BY <1>0, <1>9, SMTT(30) DEF TypeInv, Stacked, FrameLength
<1>13. Last(stack) = at.regs[r]
  <2>1. PICK f \in {5, 6} : f = FrameLength(at.vector)
    BY DEF FrameLength
  <2>2. /\ Len(stack) = at.depth + f + n
        /\ stack[at.depth + f + n] = Word(Entry(v)[n])
    BY <1>2, <1>9, <2>1 DEF Stacked
  <2>3. Entry(v)[n] = Push(r)
    BY <1>6, <1>11, SyscallCode
  <2>4. Word(Entry(v)[n]) = at.regs[r]
    BY <2>3 DEF Word, Push
  <2> QED
    BY <2>2, <2>4 DEF Last
<1>14. Stacked(n - 1)' /\ stack' \in Seq(StackWord) /\ at'.depth <= Len(stack')
  <2>1. n - 1 \in 0 .. n /\ n \in Nat /\ Len(stack) - (n - (n - 1)) = Len(stack) - 1
    BY <1>12
  <2>2. stack' = SubSeq(stack, 1, Len(stack) - (n - (n - 1)))
    BY <2>1 DEF PopStep, Front
  <2> QED
    BY <1>0, <1>9, <2>1, <2>2, StackedDrop
<1>15. regs' = [regs EXCEPT ![r] = at.regs[r]]
  BY <1>11, <1>13 DEF PopStep
<1>16. /\ regs' \in [Registers -> RegisterWord]
       /\ regs'["rax"] = <<"rax", "result">>
  <2>1. "rax" \in Registers
    BY SavedFacts
  <2> QED
    BY <1>0, <1>10, <1>11, <1>15, <2>1 DEF TypeInv
<1>17. ASSUME NEW k \in 2 .. 15, k >= 38 - (i + 1)
       PROVE  regs'[Saved[k]] = at.regs[Saved[k]]
  <2>1. Saved[k] \in Registers
    BY SavedFacts
  <2>2. k = n + 1 \/ k >= 38 - i
    BY <1>6, <1>8, <1>17
  <2> QED
    BY <1>0, <1>10, <1>11, <1>15, <2>1, <2>2 DEF TypeInv
<1>18. Position(i + 1)'
  <2>1. code' = Rest(Entry(v), i + 1)
    BY <1>3 DEF PopStep
  <2>2. /\ i + 1 \in 0 .. (Len(Entry(v)) - 1) /\ i + 1 # Height(v) + 1
        /\ ~(i + 1 <= Height(v)) /\ v >= IRQ0
    <3>1. v >= IRQ0
      BY <1>6 DEF SYSCALL, IRQ0
    <3>2. i + 1 \in 0 .. 36 /\ i + 1 # 21 /\ ~(i + 1 <= 20)
      BY <1>6
    <3> QED
      BY <1>7, <3>1, <3>2
  <2>3. Stacked(Left(v, i + 1))'
    BY <1>8, <1>14, Zenon
  <2> QED
    BY <1>0, <1>2, <1>16, <1>17, <2>1, <2>2, <2>3 DEF Position
<1>19. Awaited(i + 1)'
  BY <1>0, <1>1, <1>2, <1>6 DEF Awaited, SYSCALL, IRQ0
<1>20. TypeInv'
  BY <1>0, <1>14, <1>16 DEF TypeInv
<1>21. EntryInv'
  <2>1. i + 1 \in 0 .. 36
    BY <1>6
  <2> QED
    BY <1>18, <1>19, <2>1 DEF EntryInv
<1>22. GatesInv' /\ HaltedInv' /\ OutsideInv'
  BY <1>0 DEF IInv, GatesInv, HaltedInv, OutsideInv, SyscallTransparent, AllAcknowledged
<1> QED
  BY <1>20, <1>21, <1>22 DEF IInv

(* After a handler: the stub of the system calls takes off the six         *)
(* parameters, that of the devices one word of the sixteen it should       *)
(* (interrupt.asm:275, 427).                                               *)
LEMMA DropPreserves ==
  ASSUME IInv, DropStep
  PROVE  IInv'
<1>0. /\ TypeInv /\ status = "entry"
      /\ UNCHANGED <<status, idt, handlers, regs, at, view, in_service>>
  BY DEF IInv, DropStep, Executing, tables
<1>1. PICK i \in 0 .. 36 : Position(i) /\ Awaited(i)
  BY <1>0 DEF IInv, EntryInv
<1>2. PICK v \in Vectors : v = at.vector
  BY <1>0 DEF TypeInv
<1>3. /\ Head(code) = Entry(v)[i + 1] /\ Tail(code) = Rest(Entry(v), i + 1)
      /\ Len(Entry(v)) = IF v = SYSCALL THEN 37 ELSE 20
  BY <1>0, <1>1, <1>2, Executes, Zenon
<1>4. i \in 0 .. (Len(Entry(v)) - 1)
  BY <1>1, <1>2 DEF Position
<1>5. Entry(v)[i + 1].op = "drop"
  BY <1>3 DEF DropStep, Executing
<1>6. i = Height(v) + 1
  BY <1>4, <1>5, Kinds
<1>7. /\ v >= IRQ0 /\ Height(v) \in Nat /\ i > Height(v)
      /\ i + 1 < Len(Entry(v)) /\ (v = SYSCALL => i = 21)
  BY <1>1, <1>2, <1>3, <1>6 DEF Position, Height
<1>8. PICK n \in Nat, m \in Nat : m <= n /\
        Left(v, i) = n /\ Left(v, i + 1) = m /\ Head(code).n = n - m
  <2>1. PICK q \in Nat : /\ Entry(v)[i + 1] = Drop(q)
                         /\ v = SYSCALL => q = 6
                         /\ v # SYSCALL /\ v >= IRQ0 => q = 1
    BY <1>4, <1>6, Operations
  <2>2. Head(code).n = q
    BY <1>3, <2>1 DEF Drop
  <2>3. CASE v = SYSCALL
    <3>1. Left(v, i) = 20 /\ Left(v, i + 1) = 14 /\ q = 20 - 14
      BY <1>6, <2>1, <2>3 DEF Left, Height
    <3> QED
      BY <2>2, <3>1
  <2>4. CASE v # SYSCALL
    <3>1. Left(v, i) = 17 /\ Left(v, i + 1) = 16 /\ q = 17 - 16
      BY <1>6, <1>7, <2>1, <2>4 DEF Left, Height
    <3> QED
      BY <2>2, <3>1
  <2> QED
    BY <2>3, <2>4
<1>9. Stacked(n)
  BY <1>1, <1>2, <1>8 DEF Position
<1>10. Stacked(m)' /\ stack' \in Seq(StackWord) /\ at'.depth <= Len(stack')
  <2>1. stack' = SubSeq(stack, 1, Len(stack) - (n - m)) /\ m \in 0 .. n
    BY <1>8 DEF DropStep
  <2> QED
    BY <1>0, <1>9, <2>1, StackedDrop
<1>11. Position(i + 1)'
  <2>1. code' = Rest(Entry(v), i + 1)
    BY <1>3 DEF DropStep
  <2>2. /\ i + 1 \in 0 .. (Len(Entry(v)) - 1) /\ i + 1 # Height(v) + 1
        /\ ~(i + 1 <= Height(v))
    BY <1>3, <1>4, <1>6, <1>7
  <2>3. Stacked(Left(v, i + 1))'
    BY <1>8, <1>10, Zenon
  <2>4. v = SYSCALL => /\ regs["rax"] = <<"rax", "result">>
                       /\ \A k \in 2 .. 15 : ~(k >= 38 - (i + 1))
    BY <1>1, <1>2, <1>7 DEF Position
  <2> QED
    BY <1>0, <1>2, <1>7, <2>1, <2>2, <2>3, <2>4 DEF Position
<1>12. Awaited(i + 1)'
  <2>1. ~(i <= Height(v)) /\ ~(i + 1 <= Height(v))
    BY <1>6, <1>7
  <2> QED
    BY <1>0, <1>1, <1>2, <2>1 DEF Awaited
<1>13. TypeInv'
  BY <1>0, <1>10 DEF TypeInv
<1>14. EntryInv'
  <2>1. i + 1 \in 0 .. 36
    BY <1>3, <1>4, <1>7
  <2> QED
    BY <1>11, <1>12, <2>1 DEF EntryInv
<1>15. GatesInv' /\ HaltedInv' /\ OutsideInv'
  BY <1>0 DEF IInv, GatesInv, HaltedInv, OutsideInv, SyscallTransparent, AllAcknowledged
<1> QED
  BY <1>13, <1>14, <1>15 DEF IInv

(* A sequence from its end.                                                *)
LEMMA Reversed ==
  ASSUME NEW S, NEW s \in Seq(S)
  PROVE  /\ Reverse(s) \in Seq(S) /\ Len(Reverse(s)) = Len(s)
         /\ \A k \in 1 .. Len(s) : Reverse(s)[k] = s[Len(s) - k + 1]
BY DEF Reverse

\* The topmost words.
LEMMA TopWords ==
  ASSUME NEW S, NEW s \in Seq(S), Len(s) >= 5
  PROVE  \A k \in 1 .. 5 : SubSeq(Reverse(s), 1, 5)[k] = s[Len(s) - k + 1]
<1>1. PICK r \in Seq(S) : /\ r = Reverse(s) /\ Len(r) = Len(s)
                          /\ \A k \in 1 .. Len(s) : r[k] = s[Len(s) - k + 1]
  BY Reversed
<1>2. \A k \in 1 .. 5 : SubSeq(r, 1, 5)[k] = r[k]
  BY <1>1
<1> QED
  BY <1>1, <1>2

(* The stub of the system calls returns with nothing above the processor's *)
(* frame; that of the devices finds r14 where the address should be, and   *)
(* the program is lost. That of the exceptions is never that far.          *)
LEMMA IretqPreserves ==
  ASSUME IInv, IretqStep
  PROVE  IInv'
<1>0. /\ TypeInv /\ status = "entry"
      /\ UNCHANGED <<idt, handlers, regs, at, view, in_service>>
  BY DEF IInv, IretqStep, Executing, tables
<1>1. PICK i \in 0 .. 36 : Position(i) /\ Awaited(i)
  BY <1>0 DEF IInv, EntryInv
<1>2. PICK v \in Vectors : v = at.vector
  BY <1>0 DEF TypeInv
<1>3. /\ Head(code) = Entry(v)[i + 1]
      /\ Len(Entry(v)) = IF v = SYSCALL THEN 37 ELSE 20
  BY <1>0, <1>1, <1>2, Executes, Zenon
<1>4. i \in 0 .. (Len(Entry(v)) - 1)
  BY <1>1, <1>2 DEF Position
<1>5. Entry(v)[i + 1].op = "iretq"
  BY <1>3 DEF IretqStep, Executing
<1>6. i = IF v = SYSCALL THEN 36 ELSE 19
  <2>1. i = Len(Entry(v)) - 1
    BY <1>4, <1>5, Kinds
  <2> QED
    BY <1>3, <2>1
<1>7. v >= IRQ0 /\ i > Height(v)
  BY <1>1, <1>2, <1>6 DEF Position, Height
<1>8. in_service = {}
  <2>1. v = SYSCALL \/ v \in IRQ0 .. (IRQ0 + 15)
    BY <1>7 DEF Vectors, IRQ0
  <2>2. ~(i <= Height(v))
    BY <1>6 DEF Height
  <2> QED
    BY <1>1, <1>2, <2>1, <2>2 DEF Awaited
<1>9. PICK d \in Nat : d = at.depth
  BY <1>0 DEF TypeInv
<1>10. stack \in Seq(StackWord)
  BY <1>0 DEF TypeInv
<1> DEFINE names == <<"rip", "cs", "rflags", "rsp", "ss">>
<1>11. PICK top :
         /\ top = SubSeq(Reverse(stack), 1, 5)
         /\ \/ /\ \A k \in 1 .. 5 : top[k][1] = names[k]
               /\ status' = "running"
               /\ stack' = SubSeq(stack, 1, top[4][2])
            \/ /\ \E k \in 1 .. 5 : top[k][1] # names[k]
               /\ status' = "lost"
               /\ UNCHANGED stack
  BY Zenon DEF IretqStep
<1>12. GatesInv' /\ EntryInv' /\ HaltedInv'
  <2>1. status' \in {"running", "lost"}
    BY <1>11
  <2> QED
    BY <1>0, <2>1 DEF IInv, GatesInv, EntryInv, HaltedInv
<1>13. CASE v = SYSCALL
  <2>1. FrameLength(v) = 5 /\ Left(v, i) = 0
    BY <1>6, <1>13 DEF FrameLength, WithErrorCode, SYSCALL, Left, Height
  <2>2. /\ Len(stack) = d + 5
        /\ \A k \in 1 .. 5 : stack[d + k] = <<FrameNames[k], d>>
    <3>1. Stacked(0)
      BY <1>1, <1>2, <2>1 DEF Position
    <3>2. Len(stack) = d + 5 + 0
      BY <1>2, <1>9, <2>1, <3>1 DEF Stacked
    <3> QED
      BY <1>2, <1>9, <3>1, <3>2, SMTT(30) DEF Stacked
  <2>3. ASSUME NEW k \in 1 .. 5
        PROVE  top[k] = <<names[k], d>>
    <3>1. top[k] = stack[Len(stack) - k + 1]
      <4>1. Len(stack) >= 5
        BY <2>2
      <4> QED
        BY <1>10, <1>11, <4>1, TopWords
    <3>2. Len(stack) - k + 1 = d + (6 - k) /\ 6 - k \in 1 .. 5
      BY <2>2
    <3>3. top[k] = <<FrameNames[6 - k], d>>
      BY <2>2, <3>1, <3>2, Zenon
    <3>4. FrameNames[6 - k] = names[k]
      BY DEF FrameNames
    <3> QED
      BY <3>3, <3>4
  <2>4. /\ \A k \in 1 .. 5 : top[k][1] = names[k]
        /\ top[4][2] = d
    BY <2>3
  <2>5. status' = "running" /\ stack' = SubSeq(stack, 1, d)
    BY <1>11, <2>4
  <2>6. stack' \in Seq(StackWord) /\ Len(stack') = d
    <3>1. d <= Len(stack)
      BY <2>2
    <3> QED
      BY <1>9, <1>10, <2>5, <3>1
  <2>7. regs = [at.regs EXCEPT !["rax"] = <<"rax", "result">>]
    <3>1. /\ regs["rax"] = <<"rax", "result">>
          /\ \A k \in 2 .. 15 : regs[Saved[k]] = at.regs[Saved[k]]
      BY <1>1, <1>2, <1>6, <1>13 DEF Position
    <3>2. /\ regs \in [Registers -> RegisterWord]
          /\ at.regs \in [Registers -> RegisterWord]
      BY <1>0 DEF TypeInv
    <3>3. \A r \in Registers : r = "rax" \/ \E k \in 2 .. 15 : r = Saved[k]
      <4>1. \A k \in 1 .. 15 : k = 1 \/ k \in 2 .. 15
        OBVIOUS
      <4> QED
        BY <4>1, SavedFacts
    <3> QED
      BY <3>1, <3>2, <3>3
  <2>8. TypeInv'
    BY <1>0, <1>9, <2>5, <2>6 DEF TypeInv
  <2>9. OutsideInv'
    BY <1>0, <1>8, <1>9, <2>5, <2>6, <2>7
       DEF OutsideInv, SyscallTransparent, AllAcknowledged
  <2> QED
    BY <1>12, <2>8, <2>9 DEF IInv
<1>14. CASE v # SYSCALL
  <2>1. FrameLength(v) = 5 /\ Left(v, i) = 16
    BY <1>6, <1>7, <1>14 DEF FrameLength, WithErrorCode, IRQ0, Left, Height
  <2>2. /\ Len(stack) = d + 21
        /\ stack[d + 21] = Word(Entry(v)[16])
    <3>1. Stacked(16)
      BY <1>1, <1>2, <2>1 DEF Position
    <3>2. /\ Len(stack) = d + 5 + 16
          /\ \A k \in 1 .. 16 : stack[d + 5 + k] = Word(Entry(v)[k])
      BY <1>2, <1>9, <2>1, <3>1 DEF Stacked
    <3> QED
      BY <3>2
  <2>3. Entry(v)[16] = Push(Saved[14])
    <3>1. v \in 0 .. (IRQ0 + 15)
      BY <1>14 DEF Vectors
    <3> QED
      BY <3>1, StubCode
  <2>4. Word(Entry(v)[16]) = at.regs[Saved[14]]
    BY <2>3 DEF Word, Push
  <2>5. at.regs[Saved[14]] \in RegisterWord
    BY <1>0, SavedFacts DEF TypeInv
  <2>6. at.regs[Saved[14]][1] # "rip"
    BY <2>5, SavedFacts DEF RegisterWord
  <2>7. top[1] = stack[Len(stack) - 1 + 1]
    <3>1. Len(stack) >= 5
      BY <2>2
    <3> QED
      BY <1>10, <1>11, <3>1, TopWords
  <2>8. top[1][1] # names[1]
    BY <2>2, <2>4, <2>6, <2>7
  <2>9. status' = "lost" /\ UNCHANGED stack
    BY <1>11, <2>8
  <2>10. TypeInv' /\ OutsideInv'
    BY <1>0, <1>8, <2>9 DEF TypeInv, OutsideInv, SyscallTransparent, AllAcknowledged
  <2> QED
    BY <1>12, <2>10 DEF IInv
<1> QED
  BY <1>13, <1>14

\* The field of the structure that Layout names k-th is the k-th word.
LEMMA FieldIndex ==
  ASSUME NEW k \in 1 .. 22
  PROVE  (CHOOSE j \in DOMAIN Layout : Layout[j] = Layout[k]) = k
BY LayoutDistinct, LayoutMirrorsSaved

\* Whatever is interrupted, the invariant holds at the first instruction.
LEMMA InterruptPreserves ==
  ASSUME IInv, NEW v \in Vectors, NEW now \in [Registers -> RegisterWord],
         NEW below \in Seq(StackWord), Interrupt(v, now, below),
         regs' = now, UNCHANGED <<idt, handlers>>, in_service' \subseteq 0 .. 15,
         v = SYSCALL => in_service' = {},
         v \in IRQ0 .. (IRQ0 + 15) => in_service' \subseteq Serving(v - IRQ0)
  PROVE  IInv'
<1>0. TypeInv /\ GatesInv
  BY DEF IInv
<1>1. \/ status' = "reset" /\ UNCHANGED <<stack, code, at>>
      \/ /\ status' = "entry"
         /\ at' \in [vector : Vectors, regs : [Registers -> RegisterWord], depth : Nat]
         /\ at'.vector \in {v, NOT_PRESENT, DOUBLE_FAULT}
         /\ stack' \in Seq(StackWord) /\ at'.depth <= Len(stack')
         /\ Position(0)'
  BY <1>0, Taken
<1>2. GatesInv'
  BY <1>0 DEF GatesInv
<1>3. CASE status' = "reset" /\ UNCHANGED <<stack, code, at>>
  <2>1. TypeInv'
    BY <1>0, <1>3 DEF TypeInv
  <2> QED
    BY <1>2, <1>3, <2>1
       DEF IInv, EntryInv, HaltedInv, OutsideInv, SyscallTransparent, AllAcknowledged
<1>4. CASE /\ status' = "entry"
           /\ at' \in [vector : Vectors, regs : [Registers -> RegisterWord], depth : Nat]
           /\ at'.vector \in {v, NOT_PRESENT, DOUBLE_FAULT}
           /\ stack' \in Seq(StackWord) /\ at'.depth <= Len(stack')
           /\ Position(0)'
  <2>1. TypeInv'
    BY <1>0, <1>4 DEF TypeInv
  <2>2. Awaited(0)'
    <3>1. PICK u \in {v, NOT_PRESENT, DOUBLE_FAULT} : u = at'.vector
      BY <1>4
    <3>2. u = SYSCALL => in_service' = {}
      BY <3>1 DEF SYSCALL, NOT_PRESENT, DOUBLE_FAULT
    <3>3. u \in IRQ0 .. (IRQ0 + 15) => in_service' \subseteq Serving(u - IRQ0)
      <4>1. u \in IRQ0 .. (IRQ0 + 15) => u = v
        <5>1. NOT_PRESENT \notin IRQ0 .. (IRQ0 + 15) /\ DOUBLE_FAULT \notin IRQ0 .. (IRQ0 + 15)
          BY DEF IRQ0, NOT_PRESENT, DOUBLE_FAULT
        <5> QED
          BY <3>1, <5>1, Zenon
      <4> QED
        BY <4>1, Zenon
    <3>4. 0 <= Height(u)
      BY DEF Height
    <3> QED
      BY <3>1, <3>2, <3>3, <3>4 DEF Awaited
  <2>3. EntryInv'
    <3>1. 0 \in 0 .. 36
      OBVIOUS
    <3> QED
      BY <1>4, <2>2, <3>1 DEF EntryInv
  <2> QED
    BY <1>2, <1>4, <2>1, <2>3
       DEF IInv, HaltedInv, OutsideInv, SyscallTransparent, AllAcknowledged
<1> QED
  BY <1>1, <1>3, <1>4

\* What is known when a handler is called.
LEMMA Called ==
  ASSUME IInv, NEW f, Calling(f)
  PROVE  \E v \in Vectors :
           /\ v = at.vector /\ Position(Height(v)) /\ Awaited(Height(v))
           /\ Stacked(Height(v)) /\ regs = at.regs
           /\ f = IF v = SYSCALL THEN "syscall_table"
                  ELSE IF v < IRQ0 THEN "isr_handler" ELSE "irq_handler"
           /\ Tail(code) = Rest(Entry(v), Height(v) + 1)
<1>0. TypeInv /\ status = "entry"
  BY DEF IInv, Calling, Executing
<1>1. PICK i \in 0 .. 36 : Position(i) /\ Awaited(i)
  BY <1>0 DEF IInv, EntryInv
<1>2. PICK v \in Vectors : v = at.vector
  BY <1>0 DEF TypeInv
<1>3. Head(code) = Entry(v)[i + 1] /\ Tail(code) = Rest(Entry(v), i + 1)
  BY <1>0, <1>1, <1>2, Executes, Zenon
<1>4. i \in 0 .. (Len(Entry(v)) - 1)
  BY <1>1, <1>2 DEF Position
<1>5. Entry(v)[i + 1].op = "call" /\ Entry(v)[i + 1].to = f
  BY <1>3 DEF Calling, Executing
<1>6. i = Height(v)
  BY <1>4, <1>5, Kinds
<1>7. Entry(v)[i + 1] = Call(IF v = SYSCALL THEN "syscall_table"
                             ELSE IF v < IRQ0 THEN "isr_handler" ELSE "irq_handler")
  BY <1>4, <1>6, Operations
<1>8. f = IF v = SYSCALL THEN "syscall_table"
          ELSE IF v < IRQ0 THEN "isr_handler" ELSE "irq_handler"
  BY <1>5, <1>7 DEF Call
<1>9. i <= Height(v) /\ Left(v, i) = i
  BY <1>6 DEF Left, Height
<1>10. Stacked(i) /\ regs = at.regs
  BY <1>1, <1>2, <1>9 DEF Position
<1> QED
  BY <1>1, <1>2, <1>3, <1>6, <1>8, <1>10

(* A handler leaves words in the registers, and its result in rax.         *)
LEMMA ClobberedType ==
  ASSUME TypeInv, NEW result \in {"junk", "result"}
  PROVE  /\ Clobbered(result) \in [Registers -> RegisterWord]
         /\ Clobbered(result)["rax"] = <<"rax", result>>
<1>1. "rax" \in Registers
  BY SavedFacts
<1>2. ASSUME NEW r \in Registers
      PROVE  /\ <<r, "junk">> \in RegisterWord /\ <<"rax", result>> \in RegisterWord
             /\ regs[r] \in RegisterWord
  BY <1>1 DEF RegisterWord, Contents, TypeInv
<1> QED
  BY <1>1, <1>2 DEF Clobbered

(* isr_handler is called with the whole structure on the stack and halts.  *)
LEMMA IsrHandlerPreserves ==
  ASSUME IInv, isr_handler
  PROVE  IInv'
<1>1. PICK v \in Vectors :
        /\ v = at.vector /\ Stacked(Height(v))
        /\ "isr_handler" = IF v = SYSCALL THEN "syscall_table"
                           ELSE IF v < IRQ0 THEN "isr_handler" ELSE "irq_handler"
  BY Called DEF isr_handler
<1>2. v < IRQ0 /\ Height(v) = 17
  BY <1>1 DEF Height, IRQ0
<1>3. /\ status' = "halted" /\ view' = Reverse(stack)
      /\ UNCHANGED <<idt, handlers, regs, stack, code, at, in_service>>
  BY DEF isr_handler, tables, machine
<1>4. HaltedInv'
  BY <1>1, <1>2, <1>3 DEF HaltedInv, Stacked, Word
<1>5. TypeInv' /\ GatesInv'
  BY <1>3 DEF IInv, TypeInv, GatesInv
<1> QED
  BY <1>3, <1>4, <1>5 DEF IInv, EntryInv, OutsideInv, SyscallTransparent, AllAcknowledged

(* irq_handler finds the vector in int_no, so that it ends the interrupt   *)
(* at the PICs it came through.                                            *)
LEMMA IrqHandlerPreserves ==
  ASSUME IInv, irq_handler
  PROVE  IInv'
<1>0. TypeInv
  BY DEF IInv
<1>1. PICK v \in Vectors :
        /\ v = at.vector /\ Stacked(Height(v)) /\ Awaited(Height(v))
        /\ "irq_handler" = IF v = SYSCALL THEN "syscall_table"
                           ELSE IF v < IRQ0 THEN "isr_handler" ELSE "irq_handler"
        /\ Tail(code) = Rest(Entry(v), Height(v) + 1)
  BY Called DEF irq_handler
<1>2. v \in IRQ0 .. (IRQ0 + 15) /\ v # SYSCALL /\ Height(v) = 17
  <2>1. v # SYSCALL /\ ~(v < IRQ0)
    BY <1>1
  <2>2. v \in 0 .. (IRQ0 + 15)
    BY <2>1 DEF Vectors
  <2> QED
    BY <2>1, <2>2 DEF Height, IRQ0
<1>3. /\ status' = "entry" /\ view' = Reverse(stack) /\ regs' = Clobbered("junk")
      /\ code' = Tail(code)
      /\ in_service' = Handled(Acknowledged(in_service, Field("int_no")'[2]),
                               Field("int_no")'[2])
      /\ UNCHANGED <<idt, handlers, stack, at>>
  BY DEF irq_handler, tables, Calling, Executing
<1>4. Field("int_no")'[2] = v
  <2>1. FrameLength(v) = 5
    BY <1>2 DEF FrameLength, WithErrorCode, IRQ0
  <2>2. PICK d \in Nat : d = at.depth
    BY <1>0 DEF TypeInv
  <2>3. Stacked(17)
    BY <1>1, <1>2
  <2>4. /\ Len(stack) = d + 5 + 17
        /\ stack[d + 5 + 2] = Word(Entry(v)[2])
    <3>1. at.vector = v
      BY <1>1
    <3>2. /\ Len(stack) = d + FrameLength(v) + 17
          /\ \A k \in 1 .. 17 : stack[d + FrameLength(v) + k] = Word(Entry(v)[k])
      BY <2>2, <2>3, <3>1, Zenon DEF Stacked
    <3>3. 2 \in 1 .. 17
      OBVIOUS
    <3> QED
      BY <2>1, <3>2, <3>3, Zenon
  <2>5. PICK n \in Nat : Entry(v)[2] = Imm(n) /\ n = v
    <3>1. v \in 0 .. (IRQ0 + 15) /\ v \notin 1 .. 3
      BY <1>2 DEF IRQ0
    <3> QED
      BY <3>1, StubCode
  <2>6. Word(Entry(v)[2]) = <<"imm", v>>
    BY <2>5 DEF Word, Imm
  <2>7. view'[16] = stack[Len(stack) - 16 + 1]
    <3>1. 16 \in 1 .. Len(stack) /\ stack \in Seq(StackWord)
      BY <1>0, <2>4 DEF TypeInv
    <3> QED
      BY <1>3, <3>1, Reversed
  <2>8. view'[16] = <<"imm", v>>
    BY <2>4, <2>6, <2>7
  <2>9. Layout[16] = "int_no"
    BY DEF Layout
  <2>10. Field("int_no")' = view'[16]
    <3>1. (CHOOSE j \in DOMAIN Layout : Layout[j] = "int_no") = 16
      BY <2>9, FieldIndex
    <3> QED
      BY <3>1 DEF Field
  <2> QED
    BY <2>8, <2>10
<1>5. in_service' = {}
  <2>1. in_service \subseteq Serving(v - IRQ0)
    BY <1>1, <1>2 DEF Awaited
  <2>2. v - IRQ0 \in 0 .. 15 /\ IRQ0 + (v - IRQ0) = v
    BY <1>2 DEF IRQ0
  <2>3. Acknowledged(in_service, v) = {}
    BY <2>1, <2>2, AcknowledgedFacts
  <2> QED
    BY <1>3, <1>4, <2>3, HandledFacts
<1>6. regs' \in [Registers -> RegisterWord]
  BY <1>0, <1>3, ClobberedType
<1>7. TypeInv' /\ GatesInv'
  BY <1>3, <1>5, <1>6 DEF IInv, TypeInv, GatesInv
<1>8. Position(18)'
  <2>1. Len(Entry(v)) = 20
    BY <1>2, EntryType
  <2>2. Left(v, 18) = 17
    BY <1>2 DEF Left
  <2>3. Stacked(17)'
    BY <1>1, <1>2, <1>3 DEF Stacked, Word
  <2>4. 18 \in 0 .. (Len(Entry(v)) - 1) /\ ~(18 <= 17) /\ v >= IRQ0
    BY <1>2, <2>1 DEF IRQ0
  <2> QED
    BY <1>1, <1>2, <1>3, <2>2, <2>3, <2>4 DEF Position
<1>9. Awaited(18)'
  BY <1>5 DEF Awaited
<1>10. EntryInv'
  BY <1>8, <1>9 DEF EntryInv
<1> QED
  BY <1>3, <1>7, <1>10 DEF IInv, HaltedInv, OutsideInv, SyscallTransparent, AllAcknowledged

(* The call of a handler in syscall_table, or the page fault of an empty   *)
(* entry: at that time no line is in service.                              *)
LEMMA SyscallTablePreserves ==
  ASSUME IInv, syscall_table
  PROVE  IInv'
<1>0. TypeInv
  BY DEF IInv
<1>1. PICK v \in Vectors :
        /\ v = at.vector /\ Stacked(Height(v)) /\ Awaited(Height(v)) /\ regs = at.regs
        /\ "syscall_table" = IF v = SYSCALL THEN "syscall_table"
                             ELSE IF v < IRQ0 THEN "isr_handler" ELSE "irq_handler"
        /\ Tail(code) = Rest(Entry(v), Height(v) + 1)
  BY Called DEF syscall_table
<1>2. v = SYSCALL /\ Height(v) = 20
  BY <1>1 DEF Height
<1>3. in_service = {}
  BY <1>1, <1>2 DEF Awaited
<1>4. UNCHANGED <<idt, handlers, in_service>> /\ status = "entry"
  BY DEF syscall_table, tables, Calling, Executing
<1>5. CASE /\ view' = Reverse(stack) /\ regs' = Clobbered("result")
           /\ code' = Tail(code) /\ UNCHANGED <<status, stack, at>>
  <2>1. /\ regs' \in [Registers -> RegisterWord]
        /\ regs'["rax"] = <<"rax", "result">>
    BY <1>0, <1>5, ClobberedType
  <2>2. TypeInv' /\ GatesInv'
    BY <1>0, <1>4, <1>5, <2>1 DEF IInv, TypeInv, GatesInv
  <2>3. Position(21)'
    <3>1. Len(Entry(v)) = 37
      BY <1>2, SyscallCode
    <3>2. Left(v, 21) = 20
      BY <1>2 DEF Left
    <3>3. Stacked(20)'
      BY <1>1, <1>2, <1>5 DEF Stacked, Word
    <3>4. 21 \in 0 .. (Len(Entry(v)) - 1)
      BY <3>1
    <3>5. ~(21 <= Height(v)) /\ 21 = Height(v) + 1 /\ v >= IRQ0
      BY <1>2 DEF IRQ0, SYSCALL
    <3>6. Stacked(Left(v, 21))'
      BY <3>2, <3>3, Zenon
    <3>7. code' = Rest(Entry(v), 21)
      BY <1>1, <1>2, <1>5
    <3>8. view' = Reverse(stack')
      BY <1>5
    <3>9. \A k \in 2 .. 15 : ~(k >= 38 - 21)
      OBVIOUS
    <3> QED
      BY <1>1, <1>5, <2>1, <3>4, <3>5, <3>6, <3>7, <3>8, <3>9 DEF Position
  <2>4. Awaited(21)'
    BY <1>3, <1>4 DEF Awaited
  <2>5. EntryInv'
    BY <2>3, <2>4 DEF EntryInv
  <2> QED
    BY <1>4, <1>5, <2>2, <2>5
       DEF IInv, HaltedInv, OutsideInv, SyscallTransparent, AllAcknowledged
<1>6. CASE /\ Interrupt(PAGE_FAULT, regs, Append(stack, <<"return", 0>>))
           /\ UNCHANGED <<view, regs>>
  <2>1. regs \in [Registers -> RegisterWord] /\ regs' = regs
    BY <1>0, <1>6 DEF TypeInv
  <2>2. PICK below : below = Append(stack, <<"return", 0>>)
    OBVIOUS
  <2>3. below \in Seq(StackWord)
    <3>1. stack \in Seq(StackWord) /\ <<"return", 0>> \in StackWord
      BY <1>0 DEF TypeInv, StackWord
    <3> QED
      BY <2>2, <3>1
  <2>4. /\ PAGE_FAULT \in Vectors /\ PAGE_FAULT # SYSCALL
        /\ PAGE_FAULT \notin IRQ0 .. (IRQ0 + 15)
    BY DEF PAGE_FAULT, Vectors, SYSCALL, IRQ0
  <2>5. in_service' \subseteq 0 .. 15
    BY <1>3, <1>4
  <2>6. Interrupt(PAGE_FAULT, regs, below)
    BY <1>6, <2>2
  <2> QED
    BY <1>4, <2>1, <2>3, <2>4, <2>5, <2>6, InterruptPreserves
<1> QED
  BY <1>5, <1>6 DEF syscall_table

-----------------------------------------------------------------------------

(* isr_install fills each gate with the stub of its vector.                *)
LEMMA IsrInstallPreserves ==
  ASSUME IInv, isr_install
  PROVE  IInv'
<1>1. /\ status = "boot" /\ status' = "running" /\ in_service' = {}
      /\ idt' = [v \in 0 .. (IRQ0 + 15) |->
                   IsrGate(IF v < IRQ0 THEN isr(v) ELSE irq(v - IRQ0))]
      /\ UNCHANGED <<handlers, regs, stack, code, at, view>>
  BY DEF isr_install, machine
<1>2. TypeInv'
  BY <1>1 DEF IInv, TypeInv
<1>3. GatesInv'
  <2>1. ASSUME NEW v \in 0 .. (IRQ0 + 15)
        PROVE  idt'[v].entry = Entry(v) /\ v \in Vectors
    <3>1. idt'[v].entry = IF v < IRQ0 THEN isr(v) ELSE irq(v - IRQ0)
      BY <1>1 DEF IsrGate, Gate
    <3>2. v # SYSCALL /\ v \in Vectors
      BY DEF SYSCALL, IRQ0, Vectors
    <3> QED
      BY <3>1, <3>2 DEF Entry
  <2>2. DOMAIN idt' = 0 .. (IRQ0 + 15)
    BY <1>1
  <2> QED
    BY <2>1, <2>2 DEF GatesInv
<1> QED
  BY <1>1, <1>2, <1>3
     DEF IInv, EntryInv, HaltedInv, OutsideInv, SyscallTransparent, AllAcknowledged

(* init_syscalls fills one gate more and leaves the others.                *)
LEMMA InitSyscallsPreserves ==
  ASSUME IInv, init_syscalls
  PROVE  IInv'
<1>1. /\ status = "running"
      /\ idt' = [v \in DOMAIN idt \cup {SYSCALL} |->
                   IF v = SYSCALL
                     THEN Gate(syscall_handler, 8, SYSCALL_IST, SYSCALL_FLAGS)
                     ELSE idt[v]]
      /\ UNCHANGED <<status, handlers, regs, stack, code, at, view, in_service>>
  BY DEF init_syscalls, machine
<1>2. TypeInv'
  BY <1>1 DEF IInv, TypeInv
<1>3. GatesInv'
  <2>1. GatesInv
    BY DEF IInv
  <2>2. DOMAIN idt' = DOMAIN idt \cup {SYSCALL} /\ SYSCALL \in Vectors
    BY <1>1 DEF Vectors
  <2>3. idt'[SYSCALL].entry = Entry(SYSCALL)
    BY <1>1 DEF Gate, Entry
  <2>4. \A v \in DOMAIN idt : v # SYSCALL => idt'[v].entry = Entry(v)
    BY <1>1, <2>1 DEF GatesInv
  <2> QED
    BY <2>1, <2>2, <2>3, <2>4 DEF GatesInv
<1> QED
  BY <1>1, <1>2, <1>3
     DEF IInv, EntryInv, HaltedInv, OutsideInv, SyscallTransparent, AllAcknowledged

(* A handler is registered while no entry code is executed.                *)
LEMMA RegisterPreserves ==
  ASSUME IInv, register_interrupt_handler(IRQ0)
  PROVE  IInv'
<1>1. /\ status \in {"boot", "running"} /\ handlers' = handlers \cup {IRQ0}
      /\ UNCHANGED <<status, idt, regs, stack, code, at, view, in_service>>
  BY DEF register_interrupt_handler, machine
<1>2. TypeInv'
  BY <1>1 DEF IInv, TypeInv, IRQ0
<1> QED
  BY <1>1, <1>2
     DEF IInv, GatesInv, EntryInv, HaltedInv, OutsideInv, SyscallTransparent, AllAcknowledged

(* An exception, before or after the table is there.                       *)
LEMMA ExceptionPreserves ==
  ASSUME IInv, NEW v \in Exceptions, Exception(v)
  PROVE  IInv'
<1>1. /\ v \in Vectors /\ v # SYSCALL /\ v \notin IRQ0 .. (IRQ0 + 15)
  BY VectorAssumption DEF Vectors, SYSCALL, IRQ0
<1>2. /\ Interrupt(v, regs, stack) /\ regs' = regs
      /\ UNCHANGED <<idt, handlers>> /\ in_service' = in_service
  BY DEF Exception, tables
<1>3. /\ regs \in [Registers -> RegisterWord] /\ stack \in Seq(StackWord)
      /\ in_service' \subseteq 0 .. 15
  BY <1>2 DEF IInv, TypeInv
<1> QED
  BY <1>1, <1>2, <1>3, InterruptPreserves

(* A non-maskable interrupt: whatever was being executed is not continued. *)
LEMMA NonMaskablePreserves ==
  ASSUME IInv, NonMaskable
  PROVE  IInv'
<1>1. /\ NMI \in Vectors /\ NMI # SYSCALL /\ NMI \notin IRQ0 .. (IRQ0 + 15)
  BY DEF NMI, Vectors, SYSCALL, IRQ0
<1>2. /\ Interrupt(NMI, regs, stack) /\ regs' = regs
      /\ UNCHANGED <<idt, handlers>> /\ in_service' = in_service
  BY DEF NonMaskable, tables
<1>3. /\ regs \in [Registers -> RegisterWord] /\ stack \in Seq(StackWord)
      /\ in_service' \subseteq 0 .. 15
  BY <1>2 DEF IInv, TypeInv
<1> QED
  BY <1>1, <1>2, <1>3, InterruptPreserves

(* A device interrupts a program, so that no other line is in service.     *)
LEMMA DeviceInterruptPreserves ==
  ASSUME IInv, NEW n \in Lines, DeviceInterrupt(n)
  PROVE  IInv'
<1>1. n \in 0 .. 15
  BY VectorAssumption
<1>2. PICK v \in Vectors : v = IRQ0 + n /\ v # SYSCALL /\ v - IRQ0 = n
  BY <1>1 DEF Vectors, IRQ0, SYSCALL
<1>3. /\ status = "running" /\ Interrupt(v, regs, stack) /\ regs' = regs
      /\ UNCHANGED <<idt, handlers>>
      /\ \/ in_service' = in_service \cup Serving(n)
         \/ in_service' = in_service \cup (Serving(n) \ {n})
  BY <1>2 DEF DeviceInterrupt, tables
<1>4. in_service = {}
  BY <1>3 DEF IInv, OutsideInv, AllAcknowledged
<1>5. in_service' \subseteq Serving(n) /\ in_service' \subseteq 0 .. 15
  <2>1. Serving(n) \subseteq 0 .. 15
    BY <1>1 DEF Serving
  <2> QED
    BY <1>3, <1>4, <2>1
<1>6. regs \in [Registers -> RegisterWord] /\ stack \in Seq(StackWord)
  BY DEF IInv, TypeInv
<1> QED
  BY <1>2, <1>3, <1>5, <1>6, InterruptPreserves

(* A program makes a system call, with the number in rax.                  *)
LEMMA SyscallPreserves ==
  ASSUME IInv, NEW n \in Numbers, syscall(n)
  PROVE  IInv'
<1>1. /\ status = "running" /\ regs' = [regs EXCEPT !["rax"] = <<"number", n>>]
      /\ Interrupt(SYSCALL, regs', stack)
      /\ UNCHANGED <<idt, handlers>> /\ in_service' = in_service
  BY DEF syscall, tables
<1>2. in_service = {}
  BY <1>1 DEF IInv, OutsideInv, AllAcknowledged
<1>3. PICK now \in [Registers -> RegisterWord] : now = regs'
  <2>1. <<"number", n>> \in RegisterWord
    BY VectorAssumption DEF RegisterWord, Contents
  <2>2. regs \in [Registers -> RegisterWord]
    BY DEF IInv, TypeInv
  <2> QED
    BY <1>1, <2>1, <2>2
<1>4. /\ SYSCALL \in Vectors /\ SYSCALL \notin IRQ0 .. (IRQ0 + 15)
      /\ stack \in Seq(StackWord)
  BY DEF IInv, TypeInv, Vectors, SYSCALL, IRQ0
<1>5. Interrupt(SYSCALL, now, stack)
  BY <1>1, <1>3
<1>6. in_service' = {} /\ in_service' \subseteq 0 .. 15
  BY <1>1, <1>2
<1> QED
  BY <1>1, <1>3, <1>4, <1>5, <1>6, InterruptPreserves

(* At boot the table is empty and nothing is on the stack.                 *)
LEMMA InitHolds ==
  ASSUME Init
  PROVE  IInv
<1>1. Program \in [Registers -> RegisterWord]
  BY DEF Program, RegisterWord, Contents
<1>2. 0 \in Vectors /\ 0 # SYSCALL
  BY DEF Vectors, SYSCALL, IRQ0
<1>3. stack \in Seq(StackWord) /\ Len(stack) = 0
  BY DEF Init
<1>4. TypeInv
  BY <1>1, <1>2, <1>3 DEF Init, TypeInv
<1>5. GatesInv
  BY DEF Init, GatesInv
<1> QED
  BY <1>2, <1>4, <1>5
     DEF Init, IInv, EntryInv, HaltedInv, OutsideInv, SyscallTransparent, AllAcknowledged

(* Nothing changes, or the machine has stopped.                            *)
LEMMA StutterPreserves ==
  ASSUME IInv, UNCHANGED vars
  PROVE  IInv'
<1>1. UNCHANGED <<status, idt, handlers, regs, stack, code, at, view, in_service>>
  BY DEF vars, tables, machine
<1>2. TypeInv' /\ GatesInv'
  BY <1>1 DEF IInv, TypeInv, GatesInv
<1>3. \A n : Stacked(n) => Stacked(n)'
  BY <1>1 DEF Stacked, Word
<1>4. \A i : Position(i) => Position(i)'
  BY <1>1, <1>3 DEF Position
<1>5. EntryInv'
  BY <1>1, <1>4 DEF IInv, EntryInv, Awaited
<1>6. HaltedInv'
  BY <1>1, <1>3 DEF IInv, HaltedInv
<1>7. OutsideInv'
  BY <1>1 DEF IInv, OutsideInv, SyscallTransparent, AllAcknowledged
<1> QED
  BY <1>2, <1>5, <1>6, <1>7 DEF IInv

(* The invariant holds, whatever the gates are filled with and whatever    *)
(* interrupts whatever (interrupt.asm, isr.c).                             *)
THEOREM InductiveCorrect == Spec => []IInv
<1>1. Init => IInv
  BY InitHolds
<1>2. IInv /\ [Next]_vars => IInv'
  <2> SUFFICES ASSUME IInv, [Next]_vars
               PROVE  IInv'
    OBVIOUS
  <2>1. CASE UNCHANGED vars \/ Stopped
    BY <2>1, StutterPreserves DEF Stopped
  <2>2. CASE isr_install \/ init_syscalls \/ register_interrupt_handler(IRQ0)
    BY <2>2, IsrInstallPreserves, InitSyscallsPreserves, RegisterPreserves
  <2>3. CASE \E v \in Exceptions : Exception(v)
    BY <2>3, ExceptionPreserves
  <2>4. CASE NonMaskable
    BY <2>4, NonMaskablePreserves
  <2>5. CASE \E n \in Lines : DeviceInterrupt(n)
    BY <2>5, DeviceInterruptPreserves
  <2>6. CASE \E n \in Numbers : syscall(n)
    BY <2>6, SyscallPreserves
  <2>7. CASE PushStep \/ PopStep \/ DropStep \/ IretqStep
    BY <2>7, PushPreserves, PopPreserves, DropPreserves, IretqPreserves
  <2>8. CASE isr_handler \/ irq_handler \/ syscall_table
    BY <2>8, IsrHandlerPreserves, IrqHandlerPreserves, SyscallTablePreserves
  <2> QED
    BY <2>1, <2>2, <2>3, <2>4, <2>5, <2>6, <2>7, <2>8 DEF Next
<1> QED
  BY <1>1, <1>2, PTL DEF Spec

-----------------------------------------------------------------------------
(***************************************************************************)
(* The properties                                                          *)
(***************************************************************************)

\* When an instruction of kind "drop" is next, its handler has just returned.
LEMMA AfterCall ==
  ASSUME IInv, NEW n, Back(n)
  PROVE  /\ view = Reverse(stack) /\ at.vector >= IRQ0
         /\ Stacked(Left(at.vector, Height(at.vector) + 1))
         /\ n = IF at.vector = SYSCALL THEN 6 ELSE 1
<1>0. TypeInv /\ status = "entry"
  BY DEF IInv, Back, Executing
<1>1. PICK i \in 0 .. 36 : Position(i)
  BY <1>0 DEF IInv, EntryInv
<1>2. PICK v \in Vectors : v = at.vector
  BY <1>0 DEF TypeInv
<1>3. Head(code) = Entry(v)[i + 1]
  BY <1>0, <1>1, <1>2, Executes, Zenon
<1>4. i \in 0 .. (Len(Entry(v)) - 1)
  BY <1>1, <1>2 DEF Position
<1>5. Entry(v)[i + 1].op = "drop" /\ Entry(v)[i + 1].n = n
  BY <1>3 DEF Back, Executing
<1>6. i = Height(v) + 1
  BY <1>4, <1>5, Kinds
<1>7. i > Height(v)
  BY <1>6 DEF Height
<1>8. view = Reverse(stack) /\ v >= IRQ0 /\ Stacked(Left(v, i))
  BY <1>1, <1>2, <1>6, <1>7 DEF Position
<1>9. PICK q \in Nat : /\ Entry(v)[i + 1] = Drop(q)
                       /\ v = SYSCALL => q = 6
                       /\ v # SYSCALL /\ v >= IRQ0 => q = 1
  BY <1>4, <1>6, Operations
<1>10. q = n
  BY <1>5, <1>9 DEF Drop
<1> QED
  BY <1>2, <1>6, <1>8, <1>9, <1>10

\* A handler of an exception or a device has been given the structure.
LEMMA ReportedFacts ==
  ASSUME IInv, Reported
  PROVE  /\ Stacked(17) /\ view = Reverse(stack)
         /\ at.vector \in 0 .. (IRQ0 + 15)
<1>0. at.vector \in Vectors
  BY DEF IInv, TypeInv
<1>1. CASE status = "halted"
  <2>1. at.vector < IRQ0
    BY <1>1 DEF IInv, HaltedInv
  <2>2. at.vector \in 0 .. (IRQ0 + 15)
    BY <1>0, <2>1 DEF Vectors, SYSCALL, IRQ0
  <2> QED
    BY <1>1, <2>2 DEF IInv, HaltedInv
<1>2. CASE Back(1)
  <2>1. at.vector # SYSCALL
    BY <1>2, AfterCall
  <2>2. Left(at.vector, Height(at.vector) + 1) = 17
    BY <2>1 DEF Left, Height
  <2> QED
    BY <1>0, <1>2, <2>1, <2>2, AfterCall DEF Vectors
<1> QED
  BY <1>1, <1>2 DEF Reported

\* What the handler finds is what the stubs have pushed.
LEMMA ViewFacts ==
  ASSUME IInv, Reported
  PROVE  /\ Len(view) = at.depth + FrameLength(at.vector) + 17
         /\ \A k \in 1 .. 17 : view[k] = Word(Entry(at.vector)[18 - k])
         /\ FrameLength(at.vector) = 5 =>
              \A k \in 18 .. 22 : view[k] = <<FrameNames[23 - k], at.depth>>
<1>0. /\ Stacked(17) /\ view = Reverse(stack) /\ stack \in Seq(StackWord)
      /\ at.depth \in Nat
  BY ReportedFacts DEF IInv, TypeInv
<1>1. PICK d \in Nat, f \in {5, 6} : d = at.depth /\ f = FrameLength(at.vector)
  BY <1>0 DEF FrameLength
<1>6. PICK l \in Nat : l = Len(stack) /\ l = d + f + 17
  BY <1>0, <1>1 DEF Stacked
<1>2. /\ \A k \in 1 .. 5 : stack[d + k] = <<FrameNames[k], d>>
      /\ \A k \in 1 .. 17 : stack[d + f + k] = Word(Entry(at.vector)[k])
  BY <1>0, <1>1 DEF Stacked
<1>3. /\ Len(view) = l
      /\ \A k \in 1 .. l : view[k] = stack[l - k + 1]
  <2>1. /\ Len(view) = Len(stack)
        /\ \A k \in 1 .. Len(stack) : view[k] = stack[Len(stack) - k + 1]
    BY <1>0, Reversed
  <2> QED
    BY <1>6, <2>1, Zenon
<1>4. ASSUME NEW k \in 1 .. 17
      PROVE  view[k] = Word(Entry(at.vector)[18 - k])
  <2>1. k \in 1 .. l /\ 18 - k \in 1 .. 17 /\ l - k + 1 = d + f + (18 - k)
    BY <1>6
  <2>2. view[k] = stack[d + f + (18 - k)]
    BY <1>3, <2>1
  <2> QED
    BY <1>2, <2>1, <2>2
<1>5. ASSUME NEW k \in 18 .. 22, f = 5
      PROVE  view[k] = <<FrameNames[23 - k], d>>
  <2>1. k \in 1 .. l /\ 23 - k \in 1 .. 5 /\ l - k + 1 = d + (23 - k)
    BY <1>5, <1>6
  <2>2. view[k] = stack[d + (23 - k)]
    BY <1>3, <2>1
  <2> QED
    BY <1>2, <2>1, <2>2
<1> QED
  BY <1>1, <1>3, <1>4, <1>5, <1>6

(* The types, and the two things TypeOK adds: the stubs push the whole of  *)
(* interrupt_registers_t, and nothing below the point of interruption is   *)
(* touched (interrupt.asm:5-279).                                          *)
THEOREM TypeCorrect == Spec => []TypeOK
<1>1. IInv => TypeOK
  <2> SUFFICES ASSUME IInv
               PROVE  TypeOK
    OBVIOUS
  <2>1. /\ status \in {"boot", "running", "entry", "halted", "reset", "lost"}
        /\ DOMAIN regs = Registers /\ at.depth <= Len(stack)
        /\ in_service \subseteq 0 .. 15 /\ handlers \subseteq 0 .. 255
    BY DEF IInv, TypeInv
  <2>2. DOMAIN idt \subseteq 0 .. 255
    BY DEF IInv, GatesInv, Vectors, IRQ0, SYSCALL
  <2>3. ASSUME Reported
        PROVE  Len(view) - at.depth >= Len(Layout)
    <3>1. Len(Layout) = 22 /\ at.depth \in Nat /\ FrameLength(at.vector) >= 5
          /\ FrameLength(at.vector) \in Nat
      BY DEF Layout, IInv, TypeInv, FrameLength
    <3>2. Len(view) = at.depth + FrameLength(at.vector) + 17
      BY <2>3, ViewFacts
    <3> QED
      BY <3>1, <3>2
  <2> QED
    BY <2>1, <2>2, <2>3 DEF TypeOK
<1> QED
  BY <1>1, InductiveCorrect, PTL

(* Every handler finds the interrupted program's registers in the fields   *)
(* named after them, and except for the vectors with the two disagreements *)
(* found, the vector and the processor's frame (interrupt.asm:5-279,       *)
(* registers.h:6-11).                                                      *)
THEOREM ProgramSeenCorrect == Spec => []HandlerSeesProgram
<1>1. IInv => HandlerSeesProgram
  <2> SUFFICES ASSUME IInv, Reported
               PROVE  /\ \A r \in Registers : Field(r) = at.regs[r]
                      /\ at.vector \notin 1 .. 3 \cup WithErrorCode =>
                           /\ Field("int_no") = <<"imm", at.vector>>
                           /\ \A f \in {"rip", "cs", "rflags", "rsp", "ss"} :
                                Field(f) = <<f, at.depth>>
    BY DEF HandlerSeesProgram
  <2>1. PICK v \in 0 .. (IRQ0 + 15) : v = at.vector
    BY ReportedFacts
  <2>2. \A k \in 1 .. 17 : view[k] = Word(Entry(v)[18 - k])
    BY <2>1, ViewFacts
  <2>3. ASSUME NEW k \in 1 .. 22
        PROVE  Field(Layout[k]) = view[k]
    BY FieldIndex DEF Field
  <2>4. ASSUME NEW r \in Registers
        PROVE  Field(r) = at.regs[r]
    <3>1. PICK k \in 1 .. 15 : r = Saved[k]
      BY SavedFacts
    <3>2. r = Layout[16 - k] /\ 16 - k \in 1 .. 17 /\ 18 - (16 - k) = k + 2
      BY <3>1, LayoutMirrorsSaved
    <3>3. Field(r) = Word(Entry(v)[k + 2])
      BY <2>2, <2>3, <3>2
    <3>4. Entry(v)[k + 2] = Push(r)
      BY <3>1, StubCode
    <3> QED
      BY <3>3, <3>4 DEF Word, Push
  <2>5. ASSUME v \notin 1 .. 3 \cup WithErrorCode
        PROVE  Field("int_no") = <<"imm", v>>
    <3>1. Layout[16] = "int_no"
      BY DEF Layout
    <3>2. Field("int_no") = Word(Entry(v)[2])
      BY <2>2, <2>3, <3>1
    <3>3. PICK n \in Nat : Entry(v)[2] = Imm(n) /\ n = v
      BY <2>5, StubCode
    <3> QED
      BY <3>2, <3>3 DEF Word, Imm
  <2>6. ASSUME v \notin 1 .. 3 \cup WithErrorCode,
               NEW f \in {"rip", "cs", "rflags", "rsp", "ss"}
        PROVE  Field(f) = <<f, at.depth>>
    <3>1. PICK k \in 18 .. 22 : Layout[k] = f /\ FrameNames[23 - k] = f
      <4>1. /\ Layout[18] = "rip" /\ Layout[19] = "cs" /\ Layout[20] = "rflags"
            /\ Layout[21] = "rsp" /\ Layout[22] = "ss"
        BY DEF Layout
      <4>2. /\ FrameNames[5] = "rip" /\ FrameNames[4] = "cs" /\ FrameNames[3] = "rflags"
            /\ FrameNames[2] = "rsp" /\ FrameNames[1] = "ss"
        BY DEF FrameNames
      <4> QED
        BY <4>1, <4>2
    <3>2. FrameLength(v) = 5
      BY <2>6 DEF FrameLength
    <3>3. view[k] = <<FrameNames[23 - k], at.depth>>
      BY <2>1, <3>2, ViewFacts
    <3>4. Field(Layout[k]) = view[k]
      BY <2>3
    <3> QED
      BY <3>1, <3>3, <3>4
  <2> QED
    BY <2>1, <2>4, <2>5, <2>6
<1> QED
  BY <1>1, InductiveCorrect, PTL

(* A system call changes no register but rax and leaves the stack as it    *)
(* was (syscall.c:33, interrupt.asm:395-444).                              *)
THEOREM TransparentCorrect == Spec => []SyscallTransparent
<1>1. IInv => SyscallTransparent
  BY DEF IInv, OutsideInv
<1> QED
  BY <1>1, InductiveCorrect, PTL

(* The handler of a system call gets the six arguments in their order      *)
(* (interrupt.asm:415-421, syscall.c:14).                                  *)
THEOREM ParametersCorrect == Spec => []SyscallParameters
<1>1. IInv => SyscallParameters
  <2> SUFFICES ASSUME IInv, Back(6), NEW k \in 1 .. 6
               PROVE  view[k] = at.regs[<<"rdi", "rsi", "rdx", "r10", "r8", "r9">>[k]]
    BY DEF SyscallParameters
  <2>1. at.vector = SYSCALL /\ view = Reverse(stack) /\ Stacked(20)
    <3>1. at.vector = SYSCALL
      BY AfterCall
    <3>2. Left(SYSCALL, Height(SYSCALL) + 1) = 20
      BY DEF Left, Height
    <3> QED
      BY <3>1, <3>2, AfterCall
  <2>2. PICK d \in Nat : d = at.depth
    BY DEF IInv, TypeInv
  <2>3. FrameLength(SYSCALL) = 5
    BY DEF FrameLength, WithErrorCode, SYSCALL
  <2>4. /\ Len(stack) = d + 5 + 20
        /\ \A j \in 1 .. 20 : stack[d + 5 + j] = Word(Entry(SYSCALL)[j])
    BY <2>1, <2>2, <2>3 DEF Stacked
  <2>5. view[k] = stack[Len(stack) - k + 1]
    <3>1. stack \in Seq(StackWord)
      BY DEF IInv, TypeInv
    <3>2. k \in 1 .. Len(stack)
      <4>1. Len(stack) >= 20
        BY <2>4
      <4> QED
        BY <4>1
    <3> QED
      BY <2>1, <3>1, <3>2, Reversed
  <2>6. view[k] = Word(Entry(SYSCALL)[(7 - k) + 14])
    <3>1. Len(stack) - k + 1 = d + 5 + ((7 - k) + 14) /\ (7 - k) + 14 \in 1 .. 20
      BY <2>4
    <3> QED
      BY <2>4, <2>5, <3>1
  <2>7. 7 - k \in 1 .. 6
    OBVIOUS
  <2>8. Entry(SYSCALL)[(7 - k) + 14] = Push(Parameters[7 - k])
    BY <2>7, SyscallCode
  <2>9. view[k] = at.regs[Parameters[7 - k]]
    BY <2>6, <2>8 DEF Word, Push
  <2> QED
    BY <2>9, ParametersFacts
<1> QED
  BY <1>1, InductiveCorrect, PTL

(* When a device interrupt has been handled, no line is left in service:   *)
(* one end at the PIC it came through, two for the lines of the second,    *)
(* none too many for a spurious one (isr.c:154-158).                       *)
THEOREM AcknowledgedCorrect == Spec => []AllAcknowledged
<1>1. IInv => AllAcknowledged
  BY DEF IInv, OutsideInv
<1> QED
  BY <1>1, InductiveCorrect, PTL
=============================================================================
