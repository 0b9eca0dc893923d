------------------------------- MODULE Timer --------------------------------
(***************************************************************************)
(* The timer, src/kernel/timer/pit.c, and the table of handlers it is      *)
(* called through (register_interrupt_handler and irq_handler of isr.c).   *)
(*                                                                         *)
(* Two actors share the callback table: the kernel, which calls init_timer *)
(* and register_timer_callback, and the timer interrupt, which comes       *)
(* between any two of the kernel's loads and stores and runs to its end.   *)
(* A callback may itself call register_timer_callback.                     *)
(***************************************************************************)
EXTENDS Integers, Sequences, FiniteSets

CONSTANTS
  TIMER_CALLBACK_MAX_HANDLERS,
  Callbacks,   \* functions that may be registered
  NULL,        \* the null function pointer
  KernelRegisters,   \* what the kernel registers: of Callbacks and NULL
  CallbackRegisters, \* what a callback registers, if anything
  Frequencies,       \* what init_timer is asked for
  MaxTicks     \* bound: ticks considered

ASSUME TimerAssumption ==
  /\ TIMER_CALLBACK_MAX_HANDLERS \in Nat \ {0} /\ MaxTicks \in Nat
  /\ NULL \notin Callbacks
  /\ KernelRegisters \subseteq Callbacks \cup {NULL}
  /\ CallbackRegisters \subseteq Callbacks
  /\ Frequencies \subseteq Nat

PIT_HZ == 1193180
Actors == {"kernel", "interrupt"}

VARIABLES
  handler,    \* whether interrupt_handlers[IRQ0] is timer_callback
  latch,      \* the divisor the device was given: low byte, high byte
  tick,       \* _tick
  slots,      \* _tick_callbacks
  count,      \* _tick_callback_count
  reg,        \* each actor's register_timer_callback: what it has left to do
  loop,       \* timer_callback's loop: its index, -1 outside the interrupt
  overrun,    \* whether memory behind the table was written or called through
  called,     \* history: the callbacks of the last tick, in the order called
  overtaken   \* history: a callback has registered one while the kernel was
              \* between its check of the count and its store of it

vars == <<handler, latch, tick, slots, count, reg, loop, overrun, called, overtaken>>

NoCall == [todo |-> {}, callback |-> NULL, index |-> 0]
Slot == 0 .. (TIMER_CALLBACK_MAX_HANDLERS - 1)

Init ==
  /\ handler = FALSE /\ latch = <<0, 0>>
  /\ tick = 0
  /\ slots = [i \in Slot |-> NULL] /\ count = 0
  /\ reg = [a \in Actors |-> NoCall]
  /\ loop = -1 /\ overrun = FALSE
  /\ called = << >> /\ overtaken = FALSE

-----------------------------------------------------------------------------

\* The kernel takes a step only while no interrupt is being handled.  What
\* lies behind the table is the linker's choice: nobody's steps are followed
\* once it has been written or called.
Runs(a) == ~overrun /\ (a = "interrupt" <=> loop >= 0)

\* The divisor's bytes without the cast to 8 bits.
Bytes_NotCut(divisor) == <<divisor % 256, divisor \div 256>>

\* The two bytes of the divisor the device gets; higher ones are cut off.
Bytes(divisor) == <<divisor % 256, (divisor \div 256) % 256>>

(* init_timer(freq).  Asked for 0 it divides by 0, which is an exception.  *)
(* The quotient fits the 32 bits of `divisor` for every frequency.         *)
init_timer(freq) ==
  /\ Runs("kernel") /\ reg["kernel"] = NoCall
  /\ freq > 0
  /\ handler' = TRUE
  /\ latch' = Bytes(PIT_HZ \div freq)
  /\ UNCHANGED <<tick, slots, count, reg, loop, overrun, called, overtaken>>

\* A table that is thought full one registration too late.
Full_OffByOne == count > TIMER_CALLBACK_MAX_HANDLERS

Full == count >= TIMER_CALLBACK_MAX_HANDLERS

\* The actor's call has not stored the count it will store.
CountPending(a) == reg[a].todo \cap {"index", "count"} # {}

(* register_timer_callback up to its check of the count, which is a load   *)
(* of its own: it fails, or goes on to `slots[count++] = callback`.        *)
Register(a, callback) ==
  /\ reg[a] = NoCall
  /\ \/ Full /\ UNCHANGED <<reg, overtaken>>
     \/ /\ ~Full
        /\ reg' = [reg EXCEPT ![a] = [NoCall EXCEPT !.todo = {"index"},
                                                    !.callback = callback]]
        /\ overtaken' = (overtaken \/ (a = "interrupt" /\ CountPending("kernel")))

RegisterFromKernel(callback) ==
  /\ Runs("kernel")
  /\ Register("kernel", callback)
  /\ UNCHANGED <<handler, latch, tick, slots, count, loop, overrun, called>>

(* The count is loaded again, for the index and the increment.  A compiler *)
(* that keeps the first load is this step right after the check.           *)
Load(a) ==
  /\ Runs(a)
  /\ reg[a].todo = {"index"}
  /\ reg' = [reg EXCEPT ![a].index = count, ![a].todo = {"slot", "count"}]
  /\ UNCHANGED <<handler, latch, tick, slots, count, loop, overrun, called, overtaken>>

(* The stores of the slot and of the count, in the order the compiler      *)
(* likes.                                                                  *)
Store(a) ==
  /\ Runs(a)
  /\ \E what \in reg[a].todo \cap {"slot", "count"} :
       LET c    == reg[a]
           rest == c.todo \ {what}
       IN  /\ what = "slot" => c.index \in Slot
           /\ slots' = IF what = "slot" THEN [slots EXCEPT ![c.index] = c.callback]
                                        ELSE slots
           /\ count' = IF what = "count" THEN c.index + 1 ELSE count
           /\ reg' = [reg EXCEPT ![a] = IF rest = {} THEN NoCall
                                        ELSE [c EXCEPT !.todo = rest]]
           /\ overtaken' = (overtaken /\ ~(a = "kernel" /\ rest = {}))
  /\ UNCHANGED <<handler, latch, tick, loop, overrun, called>>

(* The same store with the index behind the table's last slot.             *)
StoreBeyond(a) ==
  /\ Runs(a)
  /\ "slot" \in reg[a].todo /\ reg[a].index \notin Slot
  /\ overrun' = TRUE
  /\ UNCHANGED <<handler, latch, tick, slots, count, reg, loop, called, overtaken>>

-----------------------------------------------------------------------------

(* A timer interrupt: irq_handler calls timer_callback if it is registered.*)
TimerInterrupt ==
  /\ Runs("kernel") /\ handler /\ tick < MaxTicks
  /\ tick' = tick + 1
  /\ loop' = 0
  /\ called' = << >>
  /\ UNCHANGED <<handler, latch, slots, count, reg, overrun, overtaken>>

\* Between two turns of the loop: no callback is running.
AtLoop == Runs("interrupt") /\ reg["interrupt"] = NoCall

InLoop == AtLoop /\ loop < count

\* A loop that starts over whenever a callback may have added to the table.
CallCallback_StartsOver ==
  /\ InLoop /\ loop \in Slot
  /\ LET callback == slots[loop]
     IN  \/ /\ callback # NULL
            /\ \/ /\ loop' = loop + 1
                  /\ called' = Append(called, callback)
                  /\ UNCHANGED <<reg, overtaken>>
               \/ /\ loop' = 0 /\ called' = << >>
                  /\ \E other \in CallbackRegisters : Register("interrupt", other)
         \/ /\ callback = NULL
            /\ loop' = loop + 1
            /\ UNCHANGED <<called, reg, overtaken>>
  /\ UNCHANGED <<handler, latch, tick, slots, count, overrun>>

(* One turn of the loop; the callback may start a registration, which is   *)
(* finished before the next turn.                                          *)
CallCallback ==
  /\ InLoop /\ loop \in Slot
  /\ LET callback == slots[loop]
     IN  \/ /\ callback # NULL
            /\ called' = Append(called, callback)
            /\ \/ UNCHANGED <<reg, overtaken>>
               \/ \E other \in CallbackRegisters : Register("interrupt", other)
         \/ callback = NULL /\ UNCHANGED <<called, reg, overtaken>>
  /\ loop' = loop + 1
  /\ UNCHANGED <<handler, latch, tick, slots, count, overrun>>

(* A turn of the loop behind the table's last slot.                        *)
CallBeyond ==
  /\ InLoop /\ loop \notin Slot
  /\ overrun' = TRUE
  /\ UNCHANGED <<handler, latch, tick, slots, count, reg, loop, called, overtaken>>

\* A loop that ends at the first empty slot.
LoopEnds_AtNull ==
  /\ AtLoop
  /\ loop >= count \/ (loop \in Slot /\ slots[loop] = NULL)
  /\ loop' = -1
  /\ UNCHANGED <<handler, latch, tick, slots, count, reg, overrun, called, overtaken>>

(* The loop is done, and the interrupt returns.                            *)
LoopEnds ==
  /\ AtLoop /\ loop >= count
  /\ loop' = -1
  /\ UNCHANGED <<handler, latch, tick, slots, count, reg, overrun, called, overtaken>>

Next ==
  \/ \E freq \in Frequencies : init_timer(freq)
  \/ \E callback \in KernelRegisters : RegisterFromKernel(callback)
  \/ \E a \in Actors : Load(a) \/ Store(a) \/ StoreBeyond(a)
  \/ TimerInterrupt \/ CallCallback \/ CallBeyond \/ LoopEnds

(* An interrupt that has come is carried through.                          *)
Spec ==
  /\ Init /\ [][Next]_vars
  /\ WF_vars(\/ CallCallback \/ CallBeyond \/ LoopEnds
             \/ Load("interrupt") \/ Store("interrupt") \/ StoreBeyond("interrupt"))

-----------------------------------------------------------------------------
(***************************************************************************)
(* Properties                                                              *)
(***************************************************************************)

(* The type invariant.  It does not say that the table never overflows:    *)
(* a kernel overtaken by callbacks stores one past it.                     *)
TypeOK ==
  /\ handler \in BOOLEAN
  /\ latch \in (0 .. 255) \X (0 .. 255)
  /\ tick \in 0 .. MaxTicks
  /\ slots \in [Slot -> Callbacks \cup {NULL}]
  /\ count \in 0 .. (TIMER_CALLBACK_MAX_HANDLERS + 1)
  /\ reg \in [Actors -> [todo : SUBSET {"index", "slot", "count"},
                         callback : Callbacks \cup {NULL},
                         index : 0 .. TIMER_CALLBACK_MAX_HANDLERS]]
  /\ loop \in -1 .. TIMER_CALLBACK_MAX_HANDLERS
  /\ overrun \in BOOLEAN /\ called \in Seq(Callbacks) /\ overtaken \in BOOLEAN

\* The slots below the count that no call in progress has yet to fill.
Settled == {i \in 0 .. (count - 1) :
              \A a \in Actors : "slot" \in reg[a].todo => reg[a].index # i}

(* Unless a callback registers one while the kernel is between its check   *)
(* of the count (pit.c:39) and its store of it (pit.c:42), the memory      *)
(* behind the table is neither written nor called, what is registered      *)
(* keeps its place below the count, and a call that ends has its callback  *)
(* in the slot it took.  (That it also returns that slot's index is not    *)
(* said: pit.c:43 loads the count once more, which is not modelled.)       *)
RegisteredStays ==
  [][~overtaken =>
       /\ ~overrun'
       /\ count' >= count
       /\ \A i \in Settled : slots'[i] = slots[i]
       /\ \A a \in Actors :
            reg[a] # NoCall /\ reg'[a] = NoCall =>
              reg[a].index < count' /\ slots'[reg[a].index] = reg[a].callback]_vars

\* The slots below n that hold a callback.
Occupied(n) == {i \in 0 .. (n - 1) : slots[i] # NULL}

\* What the tick has called is what is in the slots below n, one by one.
CalledBelow(n) ==
  /\ Len(called) = Cardinality(Occupied(n))
  /\ \A i \in Occupied(n) : called[Cardinality(Occupied(i + 1))] = slots[i]

(* At the end of a tick every callback in the table has been called, each  *)
(* once and in the order of the indices, those registered during the tick  *)
(* included (pit.c:11-16).                                                 *)
EveryCallbackCalled ==
  [][loop >= 0 /\ loop' = -1 => CalledBelow(count)]_vars

(* Each timer interrupt ends, even if callbacks register callbacks while   *)
(* the loop is going over them, since the table fills up; or it runs over  *)
(* the table's end.                                                        *)
TickEnds == loop >= 0 ~> loop = -1 \/ overrun

=============================================================================
