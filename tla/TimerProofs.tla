---------------------------- MODULE TimerProofs -----------------------------
(***************************************************************************)
(* Proofs about Timer, for every size of the table, every set of callbacks *)
(* and every choice of what registers what.                                *)
(*                                                                         *)
(* Nobody comes between a callback's loads and stores, so its registration *)
(* is always whole.  The kernel's is whole until a callback registers one  *)
(* between the kernel's check of the count and its store of it; from then  *)
(* to the end of that call nothing is promised but the types, and that a   *)
(* call which ended without running over the table left the count in it.   *)
(***************************************************************************)
EXTENDS Timer, FiniteSetTheorems, TLAPS

M == TIMER_CALLBACK_MAX_HANDLERS

Calls == [todo : SUBSET {"index", "slot", "count"},
          callback : Callbacks \cup {NULL}, index : 0 .. M]

\* The order a call goes through: check, load, and the stores in either order.
Phases == {{}, {"index"}, {"slot", "count"}, {"slot"}, {"count"}}

\* Nobody has registered anything since the actor's call looked at the count.
Whole(a) ==
  /\ reg[a].todo = {"index"} => count < M
  /\ "count" \in reg[a].todo => reg[a].index = count /\ count < M
  /\ reg[a].todo = {"slot"} => reg[a].index < count /\ reg[a].index < M
  /\ reg[a].todo = {"count"} => slots[reg[a].index] = reg[a].callback

\* The registrations in progress.
RegInv ==
  /\ loop = -1 => reg["interrupt"] = NoCall
  /\ \A a \in Actors :
       /\ reg[a].todo \in Phases
       /\ reg[a].todo = {} => reg[a] = NoCall
       /\ reg[a].todo = {"count"} => reg[a].index \in Slot
  /\ Whole("interrupt")
  /\ ~overtaken => Whole("kernel") /\ count <= M
  /\ reg["interrupt"] # NoCall /\ CountPending("kernel") => overtaken
  /\ count > M => reg["kernel"].todo = {"slot"} /\ reg["kernel"].index = M

\* The divisor's two bytes, whatever the frequency (pit.c:27-31).
LEMMA BytesFit ==
  ASSUME NEW freq \in Nat \ {0}
  PROVE  Bytes(PIT_HZ \div freq) \in (0 .. 255) \X (0 .. 255)
<1>1. ASSUME NEW d \in Int
      PROVE  Bytes(d) \in (0 .. 255) \X (0 .. 255)
  <2>1. d % 256 \in 0 .. 255 /\ d \div 256 \in Int
    OBVIOUS
  <2>2. (d \div 256) % 256 \in 0 .. 255
    BY <2>1
  <2> QED
    BY <2>1, <2>2 DEF Bytes
<1>2. PIT_HZ \div freq \in Int
  BY DEF PIT_HZ
<1> QED
  BY <1>1, <1>2

LEMMA Types ==
  ASSUME TypeOK
  PROVE  /\ M \in Nat \ {0} /\ count \in Nat /\ count <= M + 1
         /\ reg \in [Actors -> Calls] /\ NoCall \in Calls
         /\ loop \in Int /\ loop >= -1 /\ loop <= M
         /\ slots \in [Slot -> Callbacks \cup {NULL}]
         /\ Slot = {i \in Nat : i < M}
         /\ "kernel" \in Actors /\ "interrupt" \in Actors
BY TimerAssumption DEF TypeOK, M, Calls, NoCall, Slot, Actors

\* A registration that passes its check is whole (pit.c:39); one of the
\* interrupt's overtakes the kernel's.
LEMMA RegisterKeeps ==
  ASSUME TypeOK, RegInv, NEW a \in Actors, NEW callback \in Callbacks \cup {NULL},
         Runs(a), Register(a, callback),
         UNCHANGED <<slots, count>>, loop' = loop \/ (loop >= 0 /\ loop' = loop + 1)
  PROVE  reg' \in [Actors -> Calls] /\ overtaken' \in BOOLEAN /\ RegInv'
<1> DEFINE c == [NoCall EXCEPT !.todo = {"index"}, !.callback = callback]
<1>0. overtaken \in BOOLEAN
  BY DEF TypeOK
<1>1. CASE UNCHANGED <<reg, overtaken>>
  BY <1>0, <1>1, Types DEF RegInv, Whole, CountPending
<1>2. CASE ~Full /\ reg' = [reg EXCEPT ![a] = c]
           /\ overtaken' = (overtaken \/ (a = "interrupt" /\ CountPending("kernel")))
  <2>1. c \in Calls /\ c.todo = {"index"} /\ c # NoCall
    BY Types DEF NoCall, Calls
  <2>0. {"index"} # {"slot"} /\ {"index"} # {"count"} /\ "count" \notin {"index"}
    OBVIOUS
  <2>2. reg' \in [Actors -> Calls] /\ reg'[a] = c /\ \A b \in Actors : b # a => reg'[b] = reg[b]
    BY <1>2, <2>1, Types
  <2>3. count < M
    BY <1>2, Types DEF Full, M
  <2>4. overtaken' \in BOOLEAN
    BY <1>0, <1>2 DEF CountPending
  <2>5. \A b \in Actors : reg'[b].todo \in Phases
                         /\ (reg'[b].todo = {} => reg'[b] = NoCall)
                         /\ (reg'[b].todo = {"count"} => reg'[b].index \in Slot)
    BY <2>1, <2>2 DEF RegInv, Phases
  <2>6. CASE a = "interrupt"
    <3>1. reg'["kernel"] = reg["kernel"] /\ loop # -1 /\ loop' # -1
      BY <2>2, <2>6, Types DEF Runs, Actors
    <3>2. Whole("interrupt")'
      BY <1>2, <2>0, <2>1, <2>2, <2>3, <2>6 DEF Whole
    <3>3. ~overtaken' => Whole("kernel")' /\ count' <= M
      BY <1>2, <3>1 DEF RegInv, Whole
    <3>4. CountPending("kernel")' => overtaken'
      BY <1>2, <2>6, <3>1 DEF CountPending
    <3> QED
      BY <2>2, <2>3, <2>4, <2>5, <3>1, <3>2, <3>3, <3>4, Types DEF RegInv
  <2>7. CASE a = "kernel"
    <3>1. reg'["interrupt"] = reg["interrupt"] /\ reg["interrupt"] = NoCall
      BY <2>2, <2>7, Types DEF Runs, Actors, RegInv
    <3>2. overtaken' = overtaken
      BY <1>0, <1>2, <2>7
    <3>3. Whole("kernel")'
      BY <2>0, <2>1, <2>2, <2>3, <2>7 DEF Whole
    <3>4. Whole("interrupt")'
      BY <3>1 DEF Whole, NoCall
    <3> QED
      BY <2>2, <2>3, <2>4, <2>5, <3>1, <3>2, <3>3, <3>4, Types DEF RegInv
  <2> QED
    BY <2>6, <2>7 DEF Actors
<1> QED
  BY <1>1, <1>2 DEF Register

\* The second load of the count (pit.c:42).
LEMMA LoadKeeps ==
  ASSUME TypeOK, RegInv, NEW a \in Actors, Load(a)
  PROVE  reg' \in [Actors -> Calls] /\ RegInv'
<1> DEFINE c == [reg[a] EXCEPT !.index = count, !.todo = {"slot", "count"}]
<1>0. reg[a].todo = {"index"} /\ Runs(a) /\ a \in {"kernel", "interrupt"}
  BY DEF Load, Actors
<1>1. reg[a].todo = {"index"} /\ count <= M
  <2>1. CASE a = "interrupt"
    BY <1>0, <2>1, Types DEF RegInv, Whole
  <2>2. CASE a = "kernel"
    <3>1. {"index"} # {"slot"}
      OBVIOUS
    <3> QED
      BY <1>0, <2>2, <3>1, Types DEF RegInv
  <2> QED
    BY <1>0, <2>1, <2>2
<1>2. c \in Calls /\ c.todo = {"slot", "count"} /\ c.index = count
  <2>1. reg[a] \in Calls /\ count \in 0 .. M
    BY <1>1, Types
  <2> QED
    BY <2>1 DEF Calls
<1>3. reg' = [reg EXCEPT ![a] = c] /\ UNCHANGED <<slots, count, loop, overtaken>> /\ Runs(a)
  BY DEF Load
<1>4. reg' \in [Actors -> Calls] /\ reg'[a] = c /\ \A b \in Actors : b # a => reg'[b] = reg[b]
  BY <1>2, <1>3, Types
<1>5. \A b \in Actors : reg'[b].todo \in Phases
                       /\ (reg'[b].todo = {} => reg'[b] = NoCall)
                       /\ (reg'[b].todo = {"count"} => reg'[b].index \in Slot)
  <2>1. {"slot", "count"} # {"count"} /\ {"slot", "count"} # {} /\ {"slot", "count"} \in Phases
    BY DEF Phases
  <2> QED
    BY <1>2, <1>4, <2>1 DEF RegInv
<1>6. Whole(a) => Whole(a)'
  BY <1>1, <1>2, <1>3, <1>4 DEF Whole
<1>7. reg[a] # NoCall
  BY <1>1 DEF NoCall
<1>8. CountPending(a) /\ CountPending(a)'
  BY <1>1, <1>2, <1>4 DEF CountPending
<1>9. \A b \in Actors : b # a => (Whole(b) => Whole(b)') /\ CountPending(b)' = CountPending(b)
  BY <1>3, <1>4 DEF Whole, CountPending
<1>10. loop = -1 => a = "kernel"
  BY <1>3, Types DEF Runs, Actors
<1> QED
  BY <1>1, <1>3, <1>4, <1>5, <1>6, <1>7, <1>8, <1>9, <1>10, Types DEF RegInv, Actors

\* What a store does to the actor's call, and that it leaves the other's be.
LEMMA StoreDoes ==
  ASSUME TypeOK, RegInv, NEW a \in Actors, Store(a)
  PROVE  \E what \in reg[a].todo \cap {"slot", "count"} :
           /\ what = "slot" => /\ reg[a].index \in Slot
                              /\ slots' = [slots EXCEPT ![reg[a].index] = reg[a].callback]
                              /\ count' = count
           /\ what = "count" => slots' = slots /\ count' = reg[a].index + 1
           /\ reg[a].todo = {what} => reg'[a] = NoCall
           /\ reg[a].todo # {what} => /\ reg[a].todo = {"slot", "count"}
                                     /\ reg'[a] \in Calls
                                     /\ reg'[a].todo = {"slot", "count"} \ {what}
                                     /\ reg'[a].index = reg[a].index
                                     /\ reg'[a].callback = reg[a].callback
           /\ overtaken' = (overtaken /\ ~(a = "kernel" /\ reg[a].todo = {what}))
           /\ reg' \in [Actors -> Calls]
           /\ \A b \in Actors : b # a => reg'[b] = reg[b]
<1> DEFINE c == reg[a]
<1>1. PICK what \in c.todo \cap {"slot", "count"} :
        /\ what = "slot" => c.index \in Slot
        /\ slots' = IF what = "slot" THEN [slots EXCEPT ![c.index] = c.callback] ELSE slots
        /\ count' = IF what = "count" THEN c.index + 1 ELSE count
        /\ reg' = [reg EXCEPT ![a] = IF c.todo \ {what} = {} THEN NoCall
                                     ELSE [c EXCEPT !.todo = c.todo \ {what}]]
        /\ overtaken' = (overtaken /\ ~(a = "kernel" /\ c.todo \ {what} = {}))
  BY DEF Store
<1>2. c \in Calls /\ c.todo \in Phases
  BY Types DEF RegInv
<1>3. c.todo \ {what} = {} <=> c.todo = {what}
  BY <1>1
<1>4. c.todo # {what} => c.todo = {"slot", "count"}
  BY <1>1, <1>2 DEF Phases
<1>5. /\ [c EXCEPT !.todo = c.todo \ {what}] \in Calls
      /\ [c EXCEPT !.todo = c.todo \ {what}].todo = c.todo \ {what}
      /\ [c EXCEPT !.todo = c.todo \ {what}].index = c.index
      /\ [c EXCEPT !.todo = c.todo \ {what}].callback = c.callback
  BY <1>2 DEF Calls
<1>6. reg' \in [Actors -> Calls] /\ \A b \in Actors : b # a => reg'[b] = reg[b]
  BY <1>1, <1>5, Types
<1>7. /\ c.todo = {what} => reg'[a] = NoCall
      /\ c.todo # {what} => reg'[a] = [c EXCEPT !.todo = c.todo \ {what}]
  BY <1>1, <1>3, Types
<1>8. /\ c.todo # {what} => /\ reg'[a] \in Calls
                            /\ reg'[a].todo = {"slot", "count"} \ {what}
                            /\ reg'[a].index = c.index
                            /\ reg'[a].callback = c.callback
  BY <1>4, <1>5, <1>7
<1>9. overtaken' = (overtaken /\ ~(a = "kernel" /\ c.todo = {what}))
  BY <1>1, <1>3
<1>10. /\ what = "slot" => /\ c.index \in Slot
                           /\ slots' = [slots EXCEPT ![c.index] = c.callback]
                           /\ count' = count
       /\ what = "count" => slots' = slots /\ count' = c.index + 1
  BY <1>1
<1> QED
  BY <1>1, <1>4, <1>6, <1>7, <1>8, <1>9, <1>10

\* A store stays in the table, and leaves the registrations as they should be.
LEMMA StoreKeeps ==
  ASSUME TypeOK, RegInv, NEW a \in Actors, Store(a)
  PROVE  TypeOK' /\ RegInv'
<1> DEFINE c == reg[a]
<1>1. PICK what \in c.todo \cap {"slot", "count"} :
           /\ what = "slot" => /\ c.index \in Slot
                              /\ slots' = [slots EXCEPT ![c.index] = c.callback]
                              /\ count' = count
           /\ what = "count" => slots' = slots /\ count' = c.index + 1
           /\ c.todo = {what} => reg'[a] = NoCall
           /\ c.todo # {what} => /\ c.todo = {"slot", "count"}
                                /\ reg'[a] \in Calls
                                /\ reg'[a].todo = {"slot", "count"} \ {what}
                                /\ reg'[a].index = c.index
                                /\ reg'[a].callback = c.callback
           /\ overtaken' = (overtaken /\ ~(a = "kernel" /\ c.todo = {what}))
           /\ reg' \in [Actors -> Calls]
           /\ \A b \in Actors : b # a => reg'[b] = reg[b]
  BY StoreDoes
<1>2. /\ c \in Calls /\ c.index \in Nat /\ c.index <= M /\ c.callback \in Callbacks \cup {NULL}
      /\ what \in {"slot", "count"} /\ what \in c.todo /\ overtaken \in BOOLEAN
  BY <1>1, Types DEF Calls, TypeOK
<1>3. UNCHANGED <<handler, latch, tick, loop, overrun, called>> /\ Runs(a)
  BY DEF Store
<1>4. slots' \in [Slot -> Callbacks \cup {NULL}] /\ count' \in 0 .. (M + 1) /\ overtaken' \in BOOLEAN
  BY <1>1, <1>2, Types
<1>5. TypeOK'
  BY <1>1, <1>3, <1>4 DEF TypeOK, Calls, M
<1>6. \A b \in Actors : reg'[b].todo \in Phases
                       /\ (reg'[b].todo = {} => reg'[b] = NoCall)
                       /\ (reg'[b].todo = {"count"} => reg'[b].index \in Slot)
  <2>1. ASSUME c.todo # {what}
        PROVE  /\ reg'[a].todo \in Phases /\ reg'[a].todo # {}
               /\ (reg'[a].todo = {"count"} => reg'[a].index \in Slot)
    BY <1>1, <1>2, <2>1 DEF Phases
  <2>2. NoCall.todo = {}
    BY DEF NoCall
  <2> QED
    BY <1>1, <2>1, <2>2 DEF RegInv, Phases
<1>7. Whole(a) => Whole(a)' /\ (count <= M => count' <= M)
  <2> SUFFICES ASSUME Whole(a) PROVE Whole(a)' /\ (count <= M => count' <= M)
    OBVIOUS
  <2>1. CASE what = "slot" /\ c.todo = {what}
    BY <1>1, <2>1 DEF Whole, NoCall
  <2>2. CASE what = "slot" /\ c.todo # {what}
    <3>1. reg'[a].todo = {"count"} /\ slots'[c.index] = c.callback
      BY <1>1, <1>2, <2>2, Types
    <3> QED
      BY <1>1, <1>2, <2>2, <3>1 DEF Whole
  <2>3. CASE what = "count" /\ c.todo = {what}
    BY <1>1, <1>2, <2>3, Types DEF Whole, NoCall
  <2>4. CASE what = "count" /\ c.todo # {what}
    <3>1. reg'[a].todo = {"slot"} /\ c.index = count /\ count < M /\ count' = count + 1
      BY <1>1, <1>2, <2>4 DEF Whole
    <3> QED
      BY <1>1, <1>2, <2>4, <3>1, Types DEF Whole
  <2> QED
    BY <1>2, <2>1, <2>2, <2>3, <2>4
<1>8. CASE a = "interrupt"
  <2>1. loop # -1 /\ reg'["kernel"] = reg["kernel"] /\ overtaken' = overtaken /\ c # NoCall
    BY <1>1, <1>2, <1>3, <1>8, Types DEF Runs, Actors, NoCall
  <2>2. Whole("interrupt")
    BY DEF RegInv
  <2>3. CountPending("kernel")' = CountPending("kernel")
    BY <2>1 DEF CountPending
  <2>4. CountPending("kernel") => overtaken
    BY <1>8, <2>1 DEF RegInv
  <2>5. count' > M => count' = count
    BY <1>1, <1>2, <1>8, <2>2, Types DEF Whole
  <2>6. count' >= count
    BY <1>1, <1>2, <1>8, <2>2, Types DEF Whole
  <2>7. ASSUME ~overtaken PROVE Whole("kernel")' /\ count' <= M
    <3>1. reg["kernel"].todo \cap {"index", "count"} = {} /\ Whole("kernel") /\ count <= M
      BY <2>4, <2>7 DEF CountPending, RegInv
    <3>2. Whole("kernel")'
      <4>1. reg["kernel"].todo # {"index"} /\ reg["kernel"].todo # {"count"}
            /\ "count" \notin reg["kernel"].todo
        BY <3>1
      <4>2. reg["kernel"].todo = {"slot"} => reg["kernel"].index < count' /\ reg["kernel"].index < M
        <5>1. reg["kernel"].index \in Nat /\ count' \in Nat
          BY <1>4, Types DEF Calls
        <5> QED
          BY <2>6, <3>1, <5>1, Types DEF Whole
      <4> QED
        BY <2>1, <4>1, <4>2 DEF Whole
    <3>3. count' <= M
      BY <2>5, <3>1, Types, <1>4
    <3> QED
      BY <3>2, <3>3
  <2>8. count' > M => reg'["kernel"].todo = {"slot"} /\ reg'["kernel"].index = M
    BY <2>1, <2>5 DEF RegInv
  <2>9. ~overtaken' => Whole("kernel")' /\ count' <= M
    BY <2>1, <2>7
  <2> QED
    BY <1>3, <1>5, <1>6, <1>7, <1>8, <2>1, <2>2, <2>3, <2>4, <2>8, <2>9 DEF RegInv
<1>9. CASE a = "kernel"
  <2>1. reg["interrupt"] = NoCall /\ reg'["interrupt"] = NoCall
    BY <1>1, <1>3, <1>9, Types DEF Runs, Actors, RegInv
  <2>2. Whole("interrupt")'
    BY <2>1 DEF Whole, NoCall
  <2>3. count' > M => reg'["kernel"].todo = {"slot"} /\ reg'["kernel"].index = M
    <3> SUFFICES ASSUME count' > M
                 PROVE  reg'["kernel"].todo = {"slot"} /\ reg'["kernel"].index = M
      OBVIOUS
    <3>1. CASE what = "slot"
      <4>1. c.index = M
        BY <1>1, <1>9, <3>1 DEF RegInv
      <4> QED
        BY <1>1, <3>1, <4>1, Types
    <3>2. CASE what = "count"
      <4>1. c.index = M
        BY <1>1, <1>2, <3>2, Types
      <4>2. c.todo # {"count"}
        BY <1>9, <4>1, Types DEF RegInv
      <4> QED
        BY <1>1, <1>2, <1>9, <3>2, <4>1, <4>2
    <3> QED
      BY <1>2, <3>1, <3>2
  <2>4. ~overtaken' => Whole("kernel")' /\ count' <= M
    <3>1. CASE c.todo = {what}
      <4>1. reg'["kernel"] = NoCall
        BY <1>1, <1>9, <3>1
      <4>2. Whole("kernel")'
        BY <4>1 DEF Whole, NoCall
      <4>3. count' <= M
        BY <2>3, <4>1, <1>4, Types DEF NoCall
      <4> QED
        BY <4>2, <4>3
    <3>2. CASE c.todo # {what}
      <4>1. overtaken' = overtaken
        BY <1>1, <1>2, <3>2
      <4> QED
        BY <1>7, <1>9, <4>1 DEF RegInv
    <3> QED
      BY <3>1, <3>2
  <2>5. loop' = -1 => reg'["interrupt"] = NoCall
    BY <2>1
  <2>6. reg'["interrupt"] # NoCall /\ CountPending("kernel")' => overtaken'
    BY <2>1
  <2> QED
    BY <1>5, <1>6, <2>2, <2>3, <2>4, <2>5, <2>6 DEF RegInv
<1> QED
  BY <1>5, <1>8, <1>9 DEF Actors

\* A turn of the loop calls what is in the slot, if anything is.
LEMMA CallKeeps ==
  ASSUME TypeOK, RegInv, CallCallback
  PROVE  TypeOK' /\ RegInv'
<1>1. /\ loop \in Slot /\ loop' = loop + 1 /\ Runs("interrupt") /\ reg["interrupt"] = NoCall
      /\ UNCHANGED <<handler, latch, tick, slots, count, overrun>>
  BY DEF CallCallback, InLoop, AtLoop
<1>2. slots[loop] \in Callbacks \cup {NULL} /\ called \in Seq(Callbacks)
  BY <1>1, Types DEF TypeOK
<1>3. called' \in Seq(Callbacks)
  BY <1>2 DEF CallCallback
<1>4. reg' \in [Actors -> Calls] /\ overtaken' \in BOOLEAN /\ RegInv'
  <2>1. loop >= 0 /\ loop' # -1
    BY <1>1, Types
  <2>2. CASE UNCHANGED <<reg, overtaken>>
    BY <1>1, <2>1, <2>2, Types DEF RegInv, Whole, CountPending, TypeOK
  <2>3. ASSUME NEW other \in CallbackRegisters, Register("interrupt", other)
        PROVE  reg' \in [Actors -> Calls] /\ overtaken' \in BOOLEAN /\ RegInv'
    <3>1. other \in Callbacks \cup {NULL}
      BY TimerAssumption
    <3> QED
      BY <1>1, <2>1, <2>3, <3>1, RegisterKeeps, Types
  <2> QED
    BY <2>2, <2>3 DEF CallCallback
<1>5. loop' \in -1 .. M
  BY <1>1, Types
<1> QED
  BY <1>1, <1>3, <1>4, <1>5 DEF TypeOK, Calls, M

\* The invariant holds to begin with and is kept by every step.
LEMMA SpecIInv == Spec => [](TypeOK /\ RegInv)
<1>1. Init => TypeOK /\ RegInv
  <2> SUFFICES ASSUME Init PROVE TypeOK /\ RegInv
    OBVIOUS
  <2>1. NoCall \in Calls /\ NoCall.todo = {}
    BY TimerAssumption DEF NoCall, Calls, M
  <2>2. reg \in [Actors -> Calls]
    BY <2>1 DEF Init
  <2>3. latch \in (0 .. 255) \X (0 .. 255) /\ slots \in [Slot -> Callbacks \cup {NULL}]
    BY DEF Init
  <2>4. /\ tick \in 0 .. MaxTicks
        /\ count \in 0 .. (TIMER_CALLBACK_MAX_HANDLERS + 1) /\ count <= M
        /\ loop \in -1 .. TIMER_CALLBACK_MAX_HANDLERS
    BY TimerAssumption DEF Init, M
  <2>5. TypeOK
    <3>0. << >> \in Seq(Callbacks) /\ FALSE \in BOOLEAN
      OBVIOUS
    <3>1. called \in Seq(Callbacks) /\ handler \in BOOLEAN /\ overrun \in BOOLEAN
          /\ overtaken \in BOOLEAN
      BY <3>0, Zenon DEF Init
    <3> QED
      BY <2>2, <2>3, <2>4, <3>1 DEF TypeOK, Calls, M
  <2>6. \A a \in Actors : reg[a] = NoCall
    BY DEF Init
  <2>7. Whole("kernel") /\ Whole("interrupt")
    BY <2>1, <2>6 DEF Whole, Actors
  <2>8. \A a \in Actors : reg[a].todo \in Phases /\ reg[a].todo # {"count"}
    BY <2>1, <2>6 DEF Phases
  <2>9. RegInv
    BY <2>1, <2>4, <2>5, <2>6, <2>7, <2>8, Types DEF RegInv
  <2> QED
    BY <2>5, <2>9
<1>2. TypeOK /\ RegInv /\ [Next]_vars => TypeOK' /\ RegInv'
  <2> SUFFICES ASSUME TypeOK, RegInv, [Next]_vars PROVE TypeOK' /\ RegInv'
    OBVIOUS
  <2>1. ASSUME NEW freq \in Frequencies, init_timer(freq) PROVE TypeOK' /\ RegInv'
    <3>1. Bytes(PIT_HZ \div freq) \in (0 .. 255) \X (0 .. 255)
      BY <2>1, BytesFit, TimerAssumption DEF init_timer
    <3>2. TypeOK'
      BY <2>1, <3>1 DEF init_timer, TypeOK
    <3> QED
      BY <2>1, <3>2 DEF init_timer, RegInv, Whole, CountPending
  <2>2. ASSUME NEW callback \in KernelRegisters, RegisterFromKernel(callback)
        PROVE  TypeOK' /\ RegInv'
    <3>1. callback \in Callbacks \cup {NULL}
      BY TimerAssumption
    <3>2. reg' \in [Actors -> Calls] /\ overtaken' \in BOOLEAN /\ RegInv'
      BY <2>2, <3>1, RegisterKeeps, Types DEF RegisterFromKernel
    <3> QED
      BY <2>2, <3>2 DEF RegisterFromKernel, TypeOK, Calls, M
  <2>3. ASSUME NEW a \in Actors, Load(a) PROVE TypeOK' /\ RegInv'
    BY <2>3, LoadKeeps DEF Load, TypeOK, Calls, M
  <2>4. ASSUME NEW a \in Actors, Store(a) PROVE TypeOK' /\ RegInv'
    BY <2>4, StoreKeeps
  <2>5. ASSUME NEW a \in Actors, StoreBeyond(a) PROVE TypeOK' /\ RegInv'
    BY <2>5 DEF StoreBeyond, TypeOK, RegInv, Whole, CountPending
  <2>6. CASE TimerInterrupt
    <3>1. reg["interrupt"] = NoCall /\ loop' = 0
      BY <2>6, Types DEF TimerInterrupt, Runs, RegInv
    <3>2. TypeOK'
      BY <2>6, TimerAssumption DEF TimerInterrupt, TypeOK
    <3> QED
      BY <2>6, <3>1, <3>2 DEF TimerInterrupt, RegInv, Whole, CountPending
  <2>7. CASE CallCallback
    BY <2>7, CallKeeps
  <2>8. CASE CallBeyond
    BY <2>8 DEF CallBeyond, TypeOK, RegInv, Whole, CountPending
  <2>9. CASE LoopEnds
    BY <2>9, TimerAssumption DEF LoopEnds, AtLoop, TypeOK, RegInv, Whole, CountPending
  <2>10. CASE UNCHANGED vars
    BY <2>10 DEF vars, TypeOK, RegInv, Whole, CountPending
  <2> QED
    BY <2>1, <2>2, <2>3, <2>4, <2>5, <2>6, <2>7, <2>8, <2>9, <2>10 DEF Next
<1> QED
  BY <1>1, <1>2, PTL DEF Spec

(* The types, whoever registers while the other is in the middle of it:    *)
(* the count is never more than one past the size of the table, and the    *)
(* loop of the interrupt never steps past its end.                         *)
THEOREM TypeCorrect == Spec => []TypeOK
BY SpecIInv, PTL

(* A registration no callback overtakes between its check of the count and *)
(* its store of it keeps within the table, disturbs no other and ends with *)
(* its callback registered (pit.c:39-42), whatever the size of the table   *)
(* and wherever else the interrupt comes.                                  *)
THEOREM RegisteredStaysCorrect == Spec => RegisteredStays
<1> DEFINE Stays ==
      ~overtaken =>
       /\ ~overrun'
       /\ count' >= count
       /\ \A i \in Settled : slots'[i] = slots[i]
       /\ \A a \in Actors :
            reg[a] # NoCall /\ reg'[a] = NoCall =>
              reg[a].index < count' /\ slots'[reg[a].index] = reg[a].callback
<1>1. TypeOK /\ RegInv /\ Next => Stays
  <2> SUFFICES ASSUME TypeOK, RegInv, Next, ~overtaken PROVE Stays
    OBVIOUS
  <2>0. Whole("kernel") /\ Whole("interrupt") /\ count <= M
    BY DEF RegInv
  <2>1. ASSUME ~overrun', UNCHANGED <<slots, count>>,
               \A a \in Actors : reg'[a] = NoCall => reg[a] = NoCall
        PROVE  Stays
    BY <2>1, Types
  <2>2. ASSUME NEW a \in Actors, NEW callback, Register(a, callback)
        PROVE  \A b \in Actors : reg'[b] = NoCall => reg[b] = NoCall
    BY <2>2, Types DEF Register, NoCall
  <2>3. ASSUME NEW a \in Actors, Store(a) PROVE Stays
    <3> DEFINE c == reg[a]
    <3>1. PICK what \in c.todo \cap {"slot", "count"} :
           /\ what = "slot" => /\ c.index \in Slot
                              /\ slots' = [slots EXCEPT ![c.index] = c.callback]
                              /\ count' = count
           /\ what = "count" => slots' = slots /\ count' = c.index + 1
           /\ c.todo = {what} => reg'[a] = NoCall
           /\ c.todo # {what} => /\ c.todo = {"slot", "count"}
                                /\ reg'[a].todo = {"slot", "count"} \ {what}
           /\ \A b \in Actors : b # a => reg'[b] = reg[b]
      BY <2>3, StoreDoes
    <3>2. Whole(a)
      BY <2>0 DEF Actors
    <3>3. ~overrun'
      BY <2>3 DEF Store, Runs
    <3>4. c.index \in Nat /\ what \in c.todo /\ what \in {"slot", "count"}
      BY <3>1, Types DEF Calls
    <3>5. count' >= count
      BY <3>1, <3>2, <3>4, Types DEF Whole
    <3>6. ASSUME NEW i \in Settled PROVE slots'[i] = slots[i]
      <4>1. "slot" \in c.todo => c.index # i
        BY <3>6 DEF Settled
      <4>2. i \in Slot
        BY <2>0, <3>6, Types DEF Settled
      <4>3. CASE what = "slot"
        BY <3>1, <3>4, <4>1, <4>2, <4>3, Types
      <4> QED
        BY <3>1, <3>4, <4>3
    <3>7. ASSUME reg'[a] = NoCall
          PROVE  c.index < count' /\ slots'[c.index] = c.callback
      <4>1. c.todo = {what}
        BY <3>1, <3>4, <3>7 DEF NoCall
      <4>2. CASE what = "slot"
        BY <3>1, <3>2, <3>4, <4>1, <4>2, Types DEF Whole
      <4>3. CASE what = "count"
        BY <3>1, <3>2, <3>4, <4>1, <4>3, Types DEF Whole
      <4> QED
        BY <3>4, <4>2, <4>3
    <3> QED
      BY <3>1, <3>3, <3>5, <3>6, <3>7
  <2>4. ASSUME NEW freq \in Frequencies, init_timer(freq) PROVE Stays
    BY <2>1, <2>4 DEF init_timer, Runs
  <2>5. ASSUME NEW callback \in KernelRegisters, RegisterFromKernel(callback) PROVE Stays
    <3>1. ~overrun' /\ UNCHANGED <<slots, count>> /\ Register("kernel", callback)
      BY <2>5 DEF RegisterFromKernel, Runs
    <3> QED
      BY <2>1, <2>2, <3>1, Types
  <2>6. ASSUME NEW a \in Actors, Load(a) PROVE Stays
    <3>1. ~overrun' /\ UNCHANGED <<slots, count>>
      BY <2>6 DEF Load, Runs
    <3>2. \A b \in Actors : reg'[b] = NoCall => reg[b] = NoCall
      BY <2>6, Types DEF Load, NoCall
    <3> QED
      BY <2>1, <3>1, <3>2
  <2>7. ASSUME NEW a \in Actors, StoreBeyond(a) PROVE FALSE
    <3>1. "slot" \in reg[a].todo /\ reg[a].index \notin Slot /\ reg[a].todo \in Phases /\ Whole(a)
      BY <2>0, <2>7 DEF StoreBeyond, RegInv, Actors
    <3>2. reg[a].index \in Nat /\ reg[a].index < M
      BY <3>1, Types DEF Whole, Phases, Calls
    <3> QED
      BY <3>1, <3>2, Types
  <2>8. CASE TimerInterrupt
    BY <2>1, <2>8 DEF TimerInterrupt, Runs
  <2>9. CASE CallCallback
    <3>1. ~overrun' /\ UNCHANGED <<slots, count>>
      BY <2>9 DEF CallCallback, InLoop, AtLoop, Runs
    <3>2. \A b \in Actors : reg'[b] = NoCall => reg[b] = NoCall
      BY <2>2, <2>9, Types DEF CallCallback
    <3> QED
      BY <2>1, <3>1, <3>2
  <2>10. CASE CallBeyond
    <3>1. loop >= 0 /\ loop < count /\ loop \notin Slot
      BY <2>10, Types DEF CallBeyond, InLoop, AtLoop, Runs
    <3> QED
      BY <2>0, <3>1, Types
  <2>11. CASE LoopEnds
    BY <2>1, <2>11 DEF LoopEnds, AtLoop, Runs
  <2> QED
    BY <2>3, <2>4, <2>5, <2>6, <2>7, <2>8, <2>9, <2>10, <2>11 DEF Next
<1>2. TypeOK /\ RegInv /\ [Next]_vars => [Stays]_vars
  BY <1>1
<1> QED
  BY <1>2, SpecIInv, PTL DEF Spec, RegisteredStays

(* As long as no callback registers callbacks, no order of the stores and  *)
(* no moment of the interrupt makes either run over the table's end.       *)
THEOREM NoOverrunCorrect ==
  ASSUME CallbackRegisters = {}
  PROVE  Spec => []~overrun
<1> DEFINE Calm == ~overrun /\ ~overtaken
<1>1. Init => Calm
  BY DEF Init
<1>2. TypeOK /\ RegInv /\ Calm /\ [Next]_vars /\ [~overtaken => ~overrun']_vars => Calm'
  <2> SUFFICES ASSUME TypeOK, RegInv, Calm, [Next]_vars, [~overtaken => ~overrun']_vars
               PROVE  Calm'
    OBVIOUS
  <2>1. ~overrun'
    BY DEF vars
  <2>2. ASSUME NEW callback, Register("kernel", callback) PROVE ~overtaken'
    BY <2>2 DEF Register
  <2>3. ASSUME NEW callback \in KernelRegisters, RegisterFromKernel(callback) PROVE ~overtaken'
    BY <2>2, <2>3 DEF RegisterFromKernel
  <2>4. ASSUME NEW a \in Actors, Store(a) PROVE ~overtaken'
    BY <2>4 DEF Store
  <2>5. CASE CallCallback
    BY <2>1, <2>5 DEF CallCallback
  <2>6. overtaken' = overtaken \/ ~overtaken'
    BY <2>3, <2>4, <2>5 DEF Next, vars, init_timer, Load, StoreBeyond, TimerInterrupt,
                            CallBeyond, LoopEnds
  <2> QED
    BY <2>1, <2>6
<1>3. RegisteredStays => [][~overtaken => ~overrun']_vars
  <2>1. [~overtaken =>
         /\ ~overrun'
         /\ count' >= count
         /\ \A i \in Settled : slots'[i] = slots[i]
         /\ \A a \in Actors :
              reg[a] # NoCall /\ reg'[a] = NoCall =>
                reg[a].index < count' /\ slots'[reg[a].index] = reg[a].callback]_vars
        => [~overtaken => ~overrun']_vars
    OBVIOUS
  <2> QED
    BY <2>1, PTL DEF RegisteredStays
<1> QED
  BY <1>1, <1>2, <1>3, SpecIInv, RegisteredStaysCorrect, PTL DEF Spec

-----------------------------------------------------------------------------
(***************************************************************************)
(* What a tick has called                                                  *)
(***************************************************************************)

\* A registration a callback has begun is in a slot the loop has yet to come to.
Ahead(c) == c.todo \cap {"slot", "count"} # {} => c.index >= loop

\* In the loop: what lies below its index has been called, and will not change.
TickInv ==
  loop >= 0 => loop <= count /\ CalledBelow(loop) /\ Ahead(reg["interrupt"])

\* The slots below an index are as many as are below it or fewer.
LEMMA OccupiedFinite ==
  ASSUME NEW n \in Int
  PROVE  /\ IsFiniteSet(Occupied(n))
         /\ Cardinality(Occupied(n)) \in Nat
<1>1. IsFiniteSet(0 .. (n - 1))
  BY FS_Interval
<1>2. Occupied(n) \subseteq 0 .. (n - 1)
  BY DEF Occupied
<1>3. IsFiniteSet(Occupied(n))
  BY <1>1, <1>2, FS_Subset
<1> QED
  BY <1>3, FS_CardinalityType

\* One slot more is one more callback, or none.
LEMMA OccupiedNext ==
  ASSUME NEW n \in Nat
  PROVE  /\ slots[n] # NULL =>
              /\ Occupied(n + 1) = Occupied(n) \cup {n}
              /\ Cardinality(Occupied(n + 1)) = Cardinality(Occupied(n)) + 1
         /\ slots[n] = NULL => Occupied(n + 1) = Occupied(n)
<1>1. 0 .. ((n + 1) - 1) = (0 .. (n - 1)) \cup {n}
  OBVIOUS
<1>2. slots[n] = NULL => Occupied(n + 1) = Occupied(n)
  BY <1>1 DEF Occupied
<1>3. ASSUME slots[n] # NULL
      PROVE  /\ Occupied(n + 1) = Occupied(n) \cup {n}
             /\ Cardinality(Occupied(n + 1)) = Cardinality(Occupied(n)) + 1
  <2>1. Occupied(n + 1) = Occupied(n) \cup {n}
    BY <1>1, <1>3 DEF Occupied
  <2>2. n \notin Occupied(n)
    BY DEF Occupied
  <2> QED
    BY <2>1, <2>2, OccupiedFinite, FS_AddElement
<1> QED
  BY <1>2, <1>3

\* The callback of a slot is counted below every later one.
LEMMA OccupiedGrows ==
  ASSUME NEW n \in Nat, NEW i \in Occupied(n)
  PROVE  Cardinality(Occupied(i + 1)) \in 1 .. Cardinality(Occupied(n))
<1>1. i \in Nat /\ i + 1 <= n /\ slots[i] # NULL
  BY DEF Occupied
<1>2. Occupied(i + 1) \subseteq Occupied(n)
  BY <1>1 DEF Occupied
<1>3. Cardinality(Occupied(i + 1)) <= Cardinality(Occupied(n))
  BY <1>1, <1>2, OccupiedFinite, FS_Subset
<1>4. Cardinality(Occupied(i + 1)) = Cardinality(Occupied(i)) + 1
  BY <1>1, OccupiedNext
<1>5. /\ Cardinality(Occupied(i)) \in Nat /\ Cardinality(Occupied(n)) \in Nat
  BY <1>1, OccupiedFinite
<1> QED
  BY <1>3, <1>4, <1>5

\* Stores above an index leave what has been called below it.
LEMMA CalledKept ==
  ASSUME NEW n \in Nat, CalledBelow(n), called' = called,
         \A i \in 0 .. (n - 1) : slots'[i] = slots[i]
  PROVE  CalledBelow(n)'
<1>1. ASSUME NEW k \in 0 .. n PROVE Occupied(k)' = Occupied(k)
  BY <1>1 DEF Occupied
<1>2. Occupied(n)' = Occupied(n)
  BY <1>1
<1>3. ASSUME NEW i \in Occupied(n)
      PROVE  called'[Cardinality(Occupied(i + 1)')] = slots'[i]
  <2>1. i \in 0 .. (n - 1) /\ i + 1 \in 0 .. n
    BY DEF Occupied
  <2>2. Occupied(i + 1)' = Occupied(i + 1)
    BY <1>1, <2>1
  <2> QED
    BY <2>1, <2>2 DEF CalledBelow
<1> QED
  BY <1>2, <1>3 DEF CalledBelow

\* A turn of the loop adds the callback it finds to those called.
LEMMA CallKeepsTick ==
  ASSUME TypeOK, RegInv, TickInv, CallCallback
  PROVE  TickInv'
<1>1. /\ loop \in Nat /\ loop \in Slot /\ loop < count /\ count \in Nat
      /\ loop' = loop + 1 /\ slots' = slots /\ count' = count
      /\ reg["interrupt"] = NoCall
  BY Types DEF CallCallback, InLoop, AtLoop
<1>2. Ahead(reg["interrupt"])'
  <2>1. reg'["interrupt"] = NoCall \/ reg'["interrupt"].todo = {"index"}
    BY <1>1, Types DEF CallCallback, Register, NoCall
  <2> QED
    BY <2>1 DEF Ahead, NoCall
<1>3. Occupied(loop)' = Occupied(loop + 1) /\ \A i \in Nat : Occupied(i + 1)' = Occupied(i + 1)
  BY <1>1 DEF Occupied
<1>4. /\ Len(called) = Cardinality(Occupied(loop))
      /\ \A i \in Occupied(loop) : called[Cardinality(Occupied(i + 1))] = slots[i]
      /\ called \in Seq(Callbacks)
  BY <1>1 DEF TickInv, CalledBelow, TypeOK
<1>5. loop' <= count'
  BY <1>1
<1>6. CASE slots[loop] = NULL
  <2>1. called' = called
    BY <1>6 DEF CallCallback
  <2>2. Occupied(loop + 1) = Occupied(loop)
    BY <1>1, <1>6, OccupiedNext
  <2>3. \A i \in Occupied(loop) : i \in Nat
    BY DEF Occupied
  <2>4. CalledBelow(loop)'
    BY <1>1, <1>3, <1>4, <2>1, <2>2, <2>3 DEF CalledBelow
  <2> QED
    BY <1>2, <1>5, <2>4, Zenon DEF TickInv
<1>7. CASE slots[loop] # NULL
  <2>1. called' = Append(called, slots[loop])
    BY <1>7 DEF CallCallback
  <2>2. /\ Occupied(loop + 1) = Occupied(loop) \cup {loop}
        /\ Cardinality(Occupied(loop + 1)) = Cardinality(Occupied(loop)) + 1
    BY <1>1, <1>7, OccupiedNext
  <2>3. Len(called') = Cardinality(Occupied(loop + 1))
    BY <1>4, <2>1, <2>2
  <2>4. ASSUME NEW i \in Occupied(loop + 1)
        PROVE  called'[Cardinality(Occupied(i + 1))] = slots[i]
    <3>1. CASE i = loop
      BY <1>4, <2>1, <2>2, <3>1
    <3>2. CASE i \in Occupied(loop)
      <4>1. Cardinality(Occupied(i + 1)) \in 1 .. Len(called)
        BY <1>1, <1>4, <3>2, OccupiedGrows
      <4> QED
        BY <1>4, <2>1, <3>2, <4>1
    <3> QED
      BY <2>2, <3>1, <3>2
  <2>5. \A i \in Occupied(loop + 1) : i \in Nat
    BY DEF Occupied
  <2>6. CalledBelow(loop)'
    BY <1>1, <1>3, <2>3, <2>4, <2>5 DEF CalledBelow
  <2> QED
    BY <1>2, <1>5, <2>6, Zenon DEF TickInv
<1> QED
  BY <1>6, <1>7

\* A registration within a tick stores where the loop has not been.
LEMMA StoreKeepsTick ==
  ASSUME TypeOK, RegInv, TickInv, NEW a \in Actors, Store(a)
  PROVE  TickInv'
<1> DEFINE c == reg[a]
<1>1. PICK what \in c.todo \cap {"slot", "count"} :
           /\ what = "slot" => /\ c.index \in Slot
                              /\ slots' = [slots EXCEPT ![c.index] = c.callback]
                              /\ count' = count
           /\ what = "count" => slots' = slots /\ count' = c.index + 1
           /\ c.todo = {what} => reg'[a] = NoCall
           /\ c.todo # {what} => reg'[a].index = c.index
  BY StoreDoes
<1>2. c.index \in Nat /\ what \in c.todo \cap {"slot", "count"}
  BY <1>1, Types DEF Calls
<1>3. loop' = loop /\ called' = called /\ Runs(a)
  BY DEF Store
<1>4. CASE a = "interrupt"
  <2>1. loop >= 0 /\ loop \in Nat
    BY <1>3, <1>4, Types DEF Runs
  <2>2. /\ loop <= count /\ CalledBelow(loop) /\ c.index >= loop
        /\ "count" \in c.todo => c.index = count
    BY <1>2, <1>4, <2>1 DEF TickInv, Ahead, RegInv, Whole
  <2>3. \A i \in 0 .. (loop - 1) : slots'[i] = slots[i]
    BY <1>1, <1>2, <2>1, <2>2, Types
  <2>4. CalledBelow(loop)'
    BY <1>3, <2>1, <2>2, <2>3, CalledKept DEF CalledBelow, Occupied
  <2>5. Ahead(reg["interrupt"])'
    BY <1>1, <1>3, <1>4, <2>2 DEF Ahead, NoCall
  <2>6. loop <= count'
    BY <1>1, <1>2, <2>1, <2>2, Types
  <2>7. (loop >= 0 => loop <= count /\ CalledBelow(loop) /\ Ahead(reg["interrupt"]))'
    BY <1>3, <2>4, <2>5, <2>6
  <2> QED
    BY <2>7 DEF TickInv
<1>5. CASE a # "interrupt"
  BY <1>3, <1>5, Types DEF Runs, TickInv
<1> QED
  BY <1>4, <1>5

LEMMA SpecTickInv == Spec => []TickInv
<1>1. Init => TickInv
  BY DEF Init, TickInv
<1>2. TypeOK /\ RegInv /\ TickInv /\ [Next]_vars => TickInv'
  <2> SUFFICES ASSUME TypeOK, RegInv, TickInv, [Next]_vars PROVE TickInv'
    OBVIOUS
  <2>1. ASSUME NEW freq \in Frequencies, init_timer(freq) PROVE TickInv'
    BY <2>1, Types DEF init_timer, Runs, TickInv
  <2>2. ASSUME NEW callback \in KernelRegisters, RegisterFromKernel(callback) PROVE TickInv'
    BY <2>2, Types DEF RegisterFromKernel, Runs, TickInv
  <2>3. ASSUME NEW a \in Actors, Load(a) PROVE TickInv'
    <3>1. UNCHANGED <<slots, count, loop, called>> /\ Runs(a)
      BY <2>3 DEF Load
    <3>2. CASE a = "interrupt"
      <4>1. loop >= 0 /\ reg'["interrupt"].index = count
        BY <2>3, <3>1, <3>2, Types DEF Load, Runs, Calls
      <4> QED
        BY <3>1, <4>1 DEF TickInv, Ahead, CalledBelow, Occupied
    <3>3. CASE a # "interrupt"
      BY <3>1, <3>3, Types DEF Runs, TickInv
    <3> QED
      BY <3>2, <3>3
  <2>4. ASSUME NEW a \in Actors, Store(a) PROVE TickInv'
    BY <2>4, StoreKeepsTick
  <2>5. ASSUME NEW a \in Actors, StoreBeyond(a) PROVE TickInv'
    BY <2>5 DEF StoreBeyond, TickInv, CalledBelow, Occupied, Ahead
  <2>6. CASE TimerInterrupt
    <3>1. /\ loop' = 0 /\ called' = << >> /\ reg' = reg /\ count' = count
          /\ reg["interrupt"] = NoCall
      BY <2>6, Types DEF TimerInterrupt, Runs, RegInv
    <3>2. Occupied(0)' = {}
      BY DEF Occupied
    <3>3. CalledBelow(0)'
      BY <3>1, <3>2, FS_EmptySet DEF CalledBelow
    <3> QED
      BY <3>1, <3>3, Types DEF TickInv, Ahead, NoCall
  <2>7. CASE CallCallback
    BY <2>7, CallKeepsTick
  <2>8. CASE CallBeyond
    BY <2>8 DEF CallBeyond, TickInv, CalledBelow, Occupied, Ahead
  <2>9. CASE LoopEnds
    BY <2>9 DEF LoopEnds, TickInv
  <2>10. CASE UNCHANGED vars
    BY <2>10 DEF vars, TickInv, CalledBelow, Occupied, Ahead
  <2> QED
    BY <2>1, <2>2, <2>3, <2>4, <2>5, <2>6, <2>7, <2>8, <2>9, <2>10 DEF Next
<1> QED
  BY <1>1, <1>2, SpecIInv, PTL DEF Spec

(* A tick calls each registered callback exactly once, in the order of the *)
(* indices, those included that callbacks registered meanwhile: the loop   *)
(* reads the count anew at each turn (pit.c:11), and what a registration   *)
(* stores lies ahead of it.                                                *)
THEOREM EveryCallbackCalledCorrect == Spec => EveryCallbackCalled
<1>1. TypeOK /\ TickInv /\ [Next]_vars => [loop >= 0 /\ loop' = -1 => CalledBelow(count)]_vars
  <2> SUFFICES ASSUME TypeOK, TickInv, Next, loop >= 0, loop' = -1
               PROVE  CalledBelow(count)
    OBVIOUS
  <2>1. CASE LoopEnds
    <3>1. loop = count
      BY <2>1, Types DEF LoopEnds, TickInv
    <3> QED
      BY <3>1 DEF TickInv
  <2>2. CASE ~ LoopEnds
    <3>1. loop' = loop \/ loop' = 0 \/ loop' = loop + 1
      BY <2>2 DEF Next, init_timer, RegisterFromKernel, Load, Store, StoreBeyond,
                  TimerInterrupt, CallCallback, CallBeyond
    <3> QED
      BY <3>1, Types
  <2> QED
    BY <2>1, <2>2
<1> QED
  BY <1>1, SpecIInv, SpecTickInv, PTL DEF Spec, EveryCallbackCalled
=============================================================================
