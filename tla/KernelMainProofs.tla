--------------------------- MODULE KernelMainProofs -------------------------
(***************************************************************************)
(* Proofs about KernelMain, for every font, framebuffer, memory map and    *)
(* text, every port and any number of calls after the boot: each access    *)
(* faults for no reason but its own, the log arrives whole, and text       *)
(* stands where it belongs.  Each of the three has its own invariant.      *)
(*                                                                         *)
(* Faults: the blocks the console and the font point to are in use and are *)
(* not the same, whatever failed before; and unless the last call to make  *)
(* it failed, what a later step calls or reads through has been set.       *)
(***************************************************************************)
EXTENDS KernelMain, FiniteSetTheorems, SequenceTheorems, NaturalsInduction,
        WellFoundedInduction, TLAPS

\* A font init_psf2_font was through with.
FontMade ==
  global_font # NULL /\ font.set /\ font.glyph_buffer # NULL /\ font.data \in heap

\* Blocks are numbered as they are handed out, the device's is its own, and
\* the font's data is one, unless it was closed or never made.
Pointers ==
  /\ blocks \in Nat /\ heap \subseteq 1 .. blocks
  /\ console \in [set : BOOLEAN, data : Nat \cup {NULL}]
  /\ console.data # NULL => console.data \in heap /\ console.data # font.data
  /\ font \in [data : Nat \cup {NULL, Junk}, glyph_buffer : Nat \cup {NULL, Junk}, set : BOOLEAN]
  /\ font.data \in heap \cup {NULL, Junk}
  /\ font.set => font.data # Junk

\* What the steps before pc have brought about, if they did not fail.
Prepared ==
  /\ pc \in {"char_device_init", "init_char_device", "printf", "later"} =>
       "font" \in missing \/ FontMade
  /\ pc \in {"init_char_device", "printf", "later"} => init_char_device
  /\ pc \in {"printf", "later"} => "device" \in missing \/ console.set

\* The text at hand is one of the kernel's.
Printable ==
  /\ printing \in Seq(0 .. (CHAR_MOD - 1))
  /\ printing # << >> => pc = "later"

\* Every fault but those of pixels has its reason.
Explained ==
  /\ fault \notin {"device", "kfree of the device"}
  /\ fault = "call" => "device" \in missing
  /\ fault = "kfree of the font" => ~font.set
  /\ fault = "glyph" => "font" \in missing \/ Codepoint(Head(printing)) >= FONT.numglyph

\* The inductive invariant.
IInv == Pointers /\ Prepared /\ Printable /\ Explained

-----------------------------------------------------------------------------

LEMMA NullInNoHeap ==
  ASSUME Pointers
  PROVE  NULL \notin heap /\ Junk \notin heap /\ NULL # Junk
<1>1. \A b \in 1 .. blocks : b \in Nat
  BY DEF Pointers
<1>2. NULL \notin Nat /\ Junk \notin Nat /\ NULL # Junk
  BY ConsoleAssumption
<1> QED
  BY <1>1, <1>2 DEF Pointers

\* The next m blocks are handed out, and one of them or none goes back.
LEMMA HeapGains ==
  ASSUME Pointers, NEW m \in Nat, NEW got, got \ {NULL} = (blocks + 1) .. (blocks + m),
         NEW freed, Heap(got, freed)
  PROVE  /\ blocks' = blocks + m
         /\ heap' = (heap \cup ((blocks + 1) .. (blocks + m))) \ (freed \cup {NULL})
<1>1. blocks \in Nat
  BY DEF Pointers
<1>2. Cardinality((blocks + 1) .. (blocks + m)) = m
  <2>1. CASE m = 0
    BY <1>1, <2>1, FS_EmptySet, FS_Interval
  <2>2. CASE m > 0
    BY <1>1, <2>2, FS_Interval
  <2> QED
    BY <2>1, <2>2
<1>3. heap' = (heap \cup got) \ (freed \cup {NULL}) /\ blocks' = blocks + Cardinality(got \ {NULL})
  BY DEF Heap
<1>4. blocks' = blocks + m
  BY <1>2, <1>3, Zenon
<1>5. (heap \cup got) \ (freed \cup {NULL}) = (heap \cup (got \ {NULL})) \ (freed \cup {NULL})
  OBVIOUS
<1> QED
  BY <1>3, <1>4, <1>5, Zenon

-----------------------------------------------------------------------------
(***************************************************************************)
(* What each operation keeps                                               *)
(***************************************************************************)

\* init_psf2_font leaves a font that is made, one that was and has lost its
\* glyphs, or the font as it was; it uses up the next blocks in order.
LEMMA Psf2Sound ==
  ASSUME Pointers, global_font' # NULL, NEW n \in {0, 1}, NEW mine,
         mine = (blocks + 1) .. (blocks + n), Cardinality(mine) = n,
         init_psf2_font(font, mine), UNCHANGED console
  PROVE  /\ Pointers'
         /\ "font" \in missing' \/ FontMade'
         /\ "device" \in missing => "device" \in missing'
<1>1. PICK header \in kmalloc(n + 1), glyphs \in kmalloc(n + 2) :
        LET asks   == header # NULL /\ FONT.valid
            failed == ~asks \/ glyphs = NULL
        IN  /\ ~asks => glyphs = NULL
            /\ font' = FontAfter(font, header, glyphs)
            /\ Heap(mine \cup {header, glyphs}, IF failed THEN {header} ELSE {})
            /\ Makes("font", failed)
  BY DEF init_psf2_font
<1> DEFINE got == mine \cup {header, glyphs}
           failed == ~(header # NULL /\ FONT.valid) \/ glyphs = NULL
<1>0. /\ blocks \in Nat /\ NULL \notin Nat /\ Junk \notin Nat /\ NULL # Junk
      /\ heap \subseteq 1 .. blocks
      /\ NULL \notin heap /\ Junk \notin heap /\ n \in Nat
  BY NullInNoHeap, ConsoleAssumption DEF Pointers
<1>2. header \in {NULL, blocks + (n + 1)} /\ glyphs \in {NULL, blocks + (n + 2)}
  BY <1>1 DEF kmalloc
<1>3. font' = FontAfter(font, header, glyphs)
      /\ Heap(got, IF failed THEN {header} ELSE {}) /\ Makes("font", failed)
  BY <1>1
<1>9. got = mine \cup {header, glyphs}
  OBVIOUS
<1> HIDE DEF got
<1>4. header = NULL => glyphs = NULL
  BY <1>1
<1>5. NULL \notin mine
  BY <1>0
<1>6. "device" \in missing => "device" \in missing'
  BY <1>3 DEF Makes
<1>7. CASE failed
  <2>1. Heap(got, {header}) /\ missing' = missing \cup {"font"} /\ (glyphs = NULL)
    BY <1>1, <1>3, <1>7 DEF Makes
  <2>2. PICK m \in Nat : got \ {NULL} = (blocks + 1) .. (blocks + m)
                         /\ (header # NULL => header > blocks)
    <3>1. CASE header = NULL
      <4>1. got \ {NULL} = mine
        BY <1>5, <1>9, <2>1, <3>1
      <4> QED
        BY <1>0, <3>1, <4>1
    <3>2. CASE header = blocks + (n + 1)
      <4>1. got \ {NULL} = mine \cup {header}
        BY <1>0, <1>5, <1>9, <2>1, <3>2
      <4>2. mine \cup {header} = (blocks + 1) .. (blocks + (n + 1))
        BY <1>0, <3>2
      <4>3. n + 1 \in Nat /\ header > blocks
        BY <1>0, <3>2
      <4> QED
        BY <4>1, <4>2, <4>3, Zenon
    <3> QED
      BY <1>2, <3>1, <3>2
  <2>3. /\ blocks' = blocks + m
        /\ heap' = (heap \cup ((blocks + 1) .. (blocks + m))) \ ({header} \cup {NULL})
    BY <2>1, <2>2, HeapGains
  <2>4. blocks' \in Nat /\ heap' \subseteq 1 .. blocks' /\ heap \subseteq heap'
    <3>1. \A b \in heap : b \in Nat /\ 1 <= b /\ b <= blocks /\ b # NULL
      BY <1>0
    <3>2. header \notin heap
      <4>1. header = NULL \/ header = blocks + (n + 1)
        BY <1>2
      <4>2. blocks + (n + 1) > blocks
        BY <1>0
      <4> QED
        BY <1>0, <3>1, <4>1, <4>2
    <3>3. heap \subseteq heap'
      BY <1>0, <2>3, <3>2
    <3>4. \A b \in heap' : b \in heap \/ b \in (blocks + 1) .. (blocks + m)
      BY <2>3
    <3>5. blocks' \in Nat /\ blocks <= blocks'
      BY <1>0, <2>3
    <3>6. \A b \in heap' : b \in 1 .. blocks'
      BY <1>0, <2>3, <3>1, <3>4, <3>5
    <3> QED
      BY <3>3, <3>5, <3>6
  <2>5. /\ font' \in [data : Nat \cup {NULL, Junk}, glyph_buffer : Nat \cup {NULL, Junk}, set : BOOLEAN]
        /\ font'.data = font.data /\ font'.set = font.set
    BY <1>3, <2>1 DEF FontAfter, Pointers
  <2> QED
    BY <1>6, <2>1, <2>4, <2>5 DEF Pointers
<1>8. CASE ~failed
  <2>1. /\ header = blocks + (n + 1) /\ glyphs = blocks + (n + 2)
        /\ header \in Nat /\ glyphs \in Nat
    BY <1>0, <1>2, <1>8
  <2>2. font' = [data |-> header, glyph_buffer |-> glyphs, set |-> TRUE] /\ Heap(got, {})
    BY <1>3, <1>8 DEF FontAfter
  <2>3. got \ {NULL} = (blocks + 1) .. (blocks + (n + 2))
    <3>1. got = (blocks + 1) .. (blocks + (n + 2))
      BY <1>0, <1>9, <2>1
    <3>2. NULL \notin (blocks + 1) .. (blocks + (n + 2))
      BY <1>0
    <3> QED
      BY <3>1, <3>2
  <2>4. /\ blocks' = blocks + (n + 2)
        /\ heap' = (heap \cup ((blocks + 1) .. (blocks + (n + 2)))) \ ({} \cup {NULL})
    <3>1. n + 2 \in Nat
      BY <1>0
    <3> QED
      BY <2>2, <2>3, <3>1, HeapGains, Zenon
  <2>5. /\ blocks' \in Nat /\ heap' \subseteq 1 .. blocks' /\ heap \subseteq heap'
        /\ header \in heap' /\ header \notin heap
    <3>1. \A b \in heap : b \in Nat /\ 1 <= b /\ b <= blocks /\ b # NULL
      BY <1>0
    <3>2. heap \subseteq heap' /\ header \notin heap
      BY <1>0, <2>1, <2>4, <3>1
    <3>3. header \in (blocks + 1) .. (blocks + (n + 2)) /\ header # NULL
      BY <1>0, <2>1
    <3>4. header \in heap'
      BY <2>4, <3>3
    <3>5. blocks' \in Nat /\ blocks <= blocks'
      BY <1>0, <2>4
    <3>6. \A b \in heap' : b \in heap \/ b \in (blocks + 1) .. (blocks + (n + 2))
      BY <2>4
    <3>7. \A b \in heap' : b \in 1 .. blocks'
      BY <1>0, <2>4, <3>1, <3>5, <3>6
    <3> QED
      BY <3>2, <3>4, <3>5, <3>7
  <2>6. FontMade'
    BY <1>0, <2>1, <2>2, <2>5 DEF FontMade
  <2>7. Pointers'
    BY <1>0, <2>1, <2>2, <2>5 DEF Pointers
  <2> QED
    BY <1>6, <2>6, <2>7
<1> QED
  BY <1>7, <1>8

\* init_font_format makes the font, or it is missing.
LEMMA FontSound ==
  ASSUME Pointers, init_font_format
  PROVE  /\ Pointers'
         /\ "font" \in missing' \/ FontMade'
         /\ "device" \in missing => "device" \in missing'
<1>1. UNCHANGED console
  BY DEF init_font_format, deviceVars
<1>2. blocks \in Nat /\ NULL \notin Nat
  BY ConsoleAssumption DEF Pointers
<1>3. CASE global_font = NULL /\ UNCHANGED <<global_font, font, heapVars>> /\ Makes("font", TRUE)
  BY <1>1, <1>3 DEF heapVars, Pointers, Makes
<1>4. CASE global_font' = blocks + 1 /\ init_psf2_font(font, {blocks + 1})
  <2>1. {blocks + 1} = (blocks + 1) .. (blocks + 1) /\ Cardinality({blocks + 1}) = 1
    <3>1. \A e : e \in {blocks + 1} <=> e \in (blocks + 1) .. (blocks + 1)
      BY <1>2
    <3>2. Cardinality({blocks + 1}) = 1
      BY FS_Singleton, Zenon
    <3> QED
      BY <3>1, <3>2
  <2> QED
    BY <1>1, <1>2, <1>4, <2>1, Psf2Sound
<1>5. CASE global_font # NULL /\ UNCHANGED global_font /\ init_psf2_font(font, {})
  <2>1. {} = (blocks + 1) .. (blocks + 0) /\ Cardinality({}) = 0
    BY <1>2, FS_EmptySet
  <2> QED
    BY <1>1, <1>5, <2>1, Psf2Sound
<1> QED
  BY <1>3, <1>4, <1>5 DEF init_font_format

\* A device that is made gets a block of its own.
LEMMA DeviceSound ==
  ASSUME Pointers, init_char_device, NEW frame, init_tui_char_device(frame)
  PROVE  /\ Pointers' /\ (FontMade => FontMade') /\ UNCHANGED fault
         /\ "device" \in missing' \/ console'.set
         /\ "font" \in missing => "font" \in missing'
<1>1. PICK p \in kmalloc(1) :
        /\ Heap({p}, {})
        /\ Makes("device", init_char_device /\ p = NULL)
        /\ \/ p = NULL /\ UNCHANGED <<console, tui, asked, astray>>
           \/ /\ p # NULL
              /\ console' = [set |-> TRUE, data |-> p]
              /\ tui' = [NoTui EXCEPT !.fb = frame]
              /\ asked' = << >> /\ astray' = FALSE
  BY DEF init_tui_char_device
<1>2. UNCHANGED <<global_font, font, fault>>
  BY DEF init_tui_char_device, fontVars
<1>3. /\ blocks \in Nat /\ NULL \notin Nat /\ Junk \notin Nat /\ heap \subseteq 1 .. blocks
      /\ NULL \notin heap
  BY NullInNoHeap, ConsoleAssumption DEF Pointers
<1>4. "font" \in missing => "font" \in missing'
  BY <1>1 DEF Makes
<1>5. CASE p = NULL
  <2>1. {p} \ {NULL} = (blocks + 1) .. (blocks + 0)
    BY <1>3, <1>5
  <2>2. blocks' = blocks + 0 /\ heap' = (heap \cup ((blocks + 1) .. (blocks + 0))) \ ({} \cup {NULL})
    BY <1>1, <2>1, HeapGains
  <2>3. blocks' = blocks /\ heap' = heap
    BY <1>3, <2>2
  <2>4. UNCHANGED console /\ "device" \in missing'
    BY <1>1, <1>5 DEF Makes
  <2> QED
    BY <1>2, <1>4, <2>3, <2>4 DEF Pointers, FontMade
<1>6. CASE p = blocks + 1
  <2>1. {p} \ {NULL} = (blocks + 1) .. (blocks + 1)
    BY <1>3, <1>6
  <2>2. blocks' = blocks + 1 /\ heap' = (heap \cup ((blocks + 1) .. (blocks + 1))) \ ({} \cup {NULL})
    BY <1>1, <2>1, HeapGains
  <2>3. heap' = heap \cup {p} /\ heap' \subseteq 1 .. blocks' /\ p \in Nat /\ p \notin heap
    <3>1. \A e : e \in {p} <=> e \in (blocks + 1) .. (blocks + 1)
      BY <1>3, <1>6
    <3>2. heap' = heap \cup {p}
      BY <1>3, <1>6, <2>2, <3>1
    <3>3. \A b \in heap : b \in Nat /\ 1 <= b /\ b <= blocks
      BY <1>3
    <3>4. p \in Nat /\ p \notin heap
      BY <1>3, <1>6, <3>3
    <3>5. blocks' = blocks + 1
      BY <2>2
    <3>6. \A b \in heap \cup {p} : b \in 1 .. blocks'
      BY <1>3, <1>6, <3>3, <3>5
    <3> QED
      BY <3>2, <3>4, <3>6
  <2>4. console' = [set |-> TRUE, data |-> p]
    BY <1>1, <1>3, <2>3
  <2>5. font.data # p
    BY <1>3, <2>3 DEF Pointers
  <2> QED
    BY <1>2, <1>3, <1>4, <2>2, <2>3, <2>4, <2>5 DEF Pointers, FontMade
<1> QED
  BY <1>1, <1>5, <1>6 DEF kmalloc

\* A device that is closed leaves the font its block, and has had its own.
LEMMA CloseSound ==
  ASSUME Pointers, close_tui_char_device
  PROVE  /\ Pointers' /\ (FontMade => FontMade') /\ UNCHANGED <<fault, missing>>
         /\ console'.set = console.set
<1>1. UNCHANGED <<global_font, font, missing>>
  BY DEF close_tui_char_device, fontVars
<1>2. CASE console.data = NULL
  <2>1. UNCHANGED <<heap, blocks, console, fault>>
    BY <1>2 DEF close_tui_char_device, heapVars
  <2> QED
    BY <1>1, <2>1 DEF Pointers, FontMade
<1>3. CASE console.data # NULL
  <2>1. /\ Heap({}, {console.data}) /\ UNCHANGED fault
        /\ console' = [console EXCEPT !.data = NULL]
    BY <1>3 DEF close_tui_char_device, Pointers, Closed, Access
  <2>2. {} \ {NULL} = (blocks + 1) .. (blocks + 0) /\ blocks \in Nat
    BY DEF Pointers
  <2>3. /\ blocks' = blocks + 0
        /\ heap' = (heap \cup ((blocks + 1) .. (blocks + 0))) \ ({console.data} \cup {NULL})
    BY <2>1, <2>2, HeapGains
  <2>4. blocks' = blocks /\ heap' = heap \ {console.data, NULL}
    BY <2>2, <2>3
  <2>5. /\ console' \in [set : BOOLEAN, data : Nat \cup {NULL}] /\ console'.data = NULL
        /\ console'.set = console.set
    BY <2>1 DEF Pointers
  <2>6. font.data \in heap => font.data \in heap'
    BY <1>3, <2>4, NullInNoHeap DEF Pointers
  <2> QED
    BY <1>1, <2>1, <2>4, <2>5, <2>6 DEF Pointers, FontMade
<1> QED
  BY <1>2, <1>3

\* A font that is closed gives its data back, if it ever had any.
LEMMA FontCloseSound ==
  ASSUME Pointers, close_psf2_font, fault = "none"
  PROVE  /\ Pointers' /\ UNCHANGED console
         /\ fault' = "none" \/ (fault' = "kfree of the font" /\ ~font'.set)
         /\ "font" \in missing' \/ (FontMade => FontMade')
         /\ \A what : what \in missing => what \in missing'
<1>1. UNCHANGED <<global_font, console>>
  BY DEF close_psf2_font, deviceVars
<1>2. CASE UNCHANGED <<heapVars, font, fault, missing>>
  BY <1>1, <1>2 DEF heapVars, Pointers, FontMade
<1>3. CASE /\ global_font # NULL /\ font.data # NULL
           /\ Heap({}, {font.data})
           /\ Access(font.data, "kfree of the font")
           /\ font' = [font EXCEPT !.data = NULL]
           /\ missing' = IF font.data \in heap THEN missing \cup {"font"} ELSE missing
  <2>1. {} \ {NULL} = (blocks + 1) .. (blocks + 0) /\ blocks \in Nat
    BY DEF Pointers
  <2>2. /\ blocks' = blocks + 0
        /\ heap' = (heap \cup ((blocks + 1) .. (blocks + 0))) \ ({font.data} \cup {NULL})
    BY <1>3, <2>1, HeapGains
  <2>3. blocks' = blocks /\ heap' = heap \ {font.data, NULL}
    BY <2>1, <2>2
  <2>4. /\ font' \in [data : Nat \cup {NULL, Junk}, glyph_buffer : Nat \cup {NULL, Junk}, set : BOOLEAN]
        /\ font'.data = NULL /\ font'.set = font.set
    BY <1>3 DEF Pointers
  <2>5. NULL \notin heap /\ NULL # Junk
    BY NullInNoHeap
  <2>6. Pointers'
    BY <1>1, <2>3, <2>4, <2>5 DEF Pointers
  <2>7. CASE font.data \in heap
    BY <1>1, <1>3, <2>6, <2>7 DEF Access
  <2>8. CASE font.data \notin heap
    <3>1. font.data = Junk /\ ~font.set
      BY <1>3, <2>8 DEF Pointers
    <3>2. ~FontMade
      BY <2>8 DEF FontMade
    <3> QED
      BY <1>1, <1>3, <2>4, <2>6, <2>8, <3>1, <3>2 DEF Access
  <2> QED
    BY <2>7, <2>8
<1> QED
  BY <1>2, <1>3 DEF close_psf2_font

\* A write calls a device that was made, or one that is missing.
LEMMA WriteSound ==
  ASSUME Pointers, fault = "none", printing = << >>,
         NEW text \in Seq(0 .. (CHAR_MOD - 1)), write_to_tui(text)
  PROVE  /\ fault' = "none" \/ (fault' = "call" /\ ~console.set)
         /\ printing' \in Seq(0 .. (CHAR_MOD - 1))
<1>1. printing' = text \/ printing' = << >>
  BY DEF write_to_tui
<1>2. << >> \in Seq(0 .. (CHAR_MOD - 1))
  OBVIOUS
<1>3. fault' = "none" \/ (fault' = "call" /\ ~console.set)
  BY DEF write_to_tui, Access, Pointers
<1> QED
  BY <1>1, <1>2, <1>3

\* The read writes its message and two characters more.
LEMMA ReadIsText ==
  ASSUME NEW beyond \in Characters
  PROVE  MESSAGE \o <<NUL, beyond>> \in Seq(0 .. (CHAR_MOD - 1))
<1>1. MESSAGE \in Seq(0 .. (CHAR_MOD - 1)) /\ beyond \in 0 .. (CHAR_MOD - 1) /\ CHAR_MOD \in Nat
  BY ConsoleAssumption
<1>2. NUL \in 0 .. (CHAR_MOD - 1)
  BY <1>1 DEF NUL
<1>3. <<NUL, beyond>> \in Seq(0 .. (CHAR_MOD - 1))
  BY <1>1, <1>2
<1> QED
  BY <1>1, <1>3, ConcatProperties

\* A glyph is there to be drawn, or the font or the character is missing.
LEMMA DrawSound ==
  ASSUME IInv, DrawGlyph, UNCHANGED pc
  PROVE  IInv'
<1>1. printing # << >> /\ pc = "later" /\ fault = "none"
  BY DEF DrawGlyph, IInv, Printable
<1>2. UNCHANGED <<heap, blocks, global_font, font, init_char_device, console, missing>>
  BY DEF DrawGlyph, heapVars, fontVars
<1>3. Pointers' /\ Prepared'
  BY <1>2 DEF IInv, Pointers, Prepared, FontMade
<1>4. CASE UNCHANGED fault /\ printing' = Tail(printing)
  <2>1. printing' \in Seq(0 .. (CHAR_MOD - 1))
    BY <1>1, <1>4 DEF IInv, Printable
  <2> QED
    BY <1>1, <1>3, <1>4, <2>1 DEF IInv, Printable, Explained
<1>5. CASE UNCHANGED printing /\ fault' = "pixel"
  BY <1>1, <1>3, <1>5 DEF IInv, Printable, Explained
<1>6. CASE /\ UNCHANGED printing /\ fault' = "glyph"
           /\ ~(FontUsable /\ HasGlyph(Head(printing)))
  <2>1. ASSUME "font" \notin missing
        PROVE  Codepoint(Head(printing)) >= FONT.numglyph
    <3>1. FontUsable /\ font.glyph_buffer # NULL
      BY <1>1, <2>1 DEF IInv, Prepared, FontMade, FontUsable
    <3>2. ~(Codepoint(Head(printing)) < FONT.numglyph)
      BY <1>6, <3>1 DEF HasGlyph
    <3>3. Head(printing) \in 0 .. (CHAR_MOD - 1)
      <4>1. PICK S : S = 0 .. (CHAR_MOD - 1)
        OBVIOUS
      <4>2. printing \in Seq(S) /\ printing # << >>
        BY <1>1, <4>1 DEF IInv, Printable
      <4>3. Head(printing) \in S
        BY <4>2
      <4> QED
        BY <4>1, <4>3
    <3>4. Codepoint(Head(printing)) \in Int /\ FONT.numglyph \in Nat
      BY <3>3, ConsoleAssumption DEF Codepoint
    <3> QED
      BY <3>2, <3>4
  <2>2. "font" \in missing' \/ Codepoint(Head(printing')) >= FONT.numglyph
    BY <1>2, <1>6, <2>1
  <2>3. Printable'
    BY <1>1, <1>6 DEF IInv, Printable
  <2>4. Explained'
    BY <1>6, <2>2 DEF Explained
  <2> QED
    BY <1>3, <2>3, <2>4 DEF IInv
<1> QED
  BY <1>4, <1>5, <1>6 DEF DrawGlyph

\* Steps that leave the console alone.
LEMMA ConsoleKept ==
  ASSUME IInv,
         UNCHANGED <<heap, blocks, global_font, font, init_char_device, console>>,
         UNCHANGED <<printing, missing>>,
         fault' = fault \/ fault' = "bitmap",
         \/ pc' = pc
         \/ /\ printing = << >>
            /\ pc' \notin {"char_device_init", "init_char_device", "printf", "later"}
  PROVE  IInv'
BY DEF IInv, Pointers, Prepared, FontMade, Printable, Explained

-----------------------------------------------------------------------------

\* What may fault in the calls of the console, before their text is drawn.
Excused ==
  \/ fault' = "none"
  \/ fault' = "call" /\ "device" \in missing'
  \/ fault' = "kfree of the font" /\ ~font'.set

\* The steps of kernel_main that bring up the font and the console.
LEMMA DevicesSound ==
  ASSUME IInv, Devices
  PROVE  IInv'
<1> USE DEF Step
<1>0. Pointers /\ fault = "none" /\ printing = << >>
  BY DEF IInv, Devices
<1>1. ASSUME Pointers', Prepared', Printable', Excused PROVE IInv'
  BY <1>1 DEF IInv, Explained, Excused
<1>2. CASE Step("init_font_format", "char_device_init") /\ init_font_format
  <2>1. Pointers' /\ ("font" \in missing' \/ FontMade')
    BY <1>0, <1>2, FontSound
  <2>2. UNCHANGED <<printing, fault>>
    BY <1>2 DEF init_font_format, drawVars
  <2> QED
    BY <1>0, <1>1, <1>2, <2>1, <2>2 DEF Prepared, Printable, Excused
<1>3. CASE Step("char_device_init", "init_char_device") /\ char_device_init
  <2>1. /\ UNCHANGED <<heap, blocks, global_font, font, console, printing, fault, missing>>
        /\ init_char_device'
    BY <1>3 DEF char_device_init, heapVars, fontVars, drawVars
  <2> QED
    BY <1>0, <1>1, <1>3, <2>1 DEF IInv, Pointers, Prepared, FontMade, Printable, Excused
<1>4. CASE Step("init_char_device", "printf") /\ init_tui_char_device(fb)
  <2>1. init_char_device /\ ("font" \in missing \/ FontMade)
    BY <1>4 DEF IInv, Prepared
  <2>2. /\ Pointers' /\ (FontMade => FontMade') /\ UNCHANGED fault
        /\ "device" \in missing' \/ console'.set
        /\ "font" \in missing => "font" \in missing'
    BY <1>0, <1>4, <2>1, DeviceSound
  <2>3. UNCHANGED <<printing, init_char_device>>
    BY <1>4 DEF init_tui_char_device
  <2> QED
    BY <1>0, <1>1, <1>4, <2>1, <2>2, <2>3 DEF IInv, Prepared, Printable, Excused
<1>5. CASE Step("printf", "later") /\ printf(GREETING)
  <2>1. /\ fault' = "none" \/ (fault' = "call" /\ ~console.set)
        /\ printing' \in Seq(0 .. (CHAR_MOD - 1))
    BY <1>0, <1>5, WriteSound, KernelMainAssumption DEF printf
  <2>2. UNCHANGED <<heap, blocks, global_font, font, console, init_char_device, missing>>
    BY <1>5 DEF printf, heapVars, fontVars, deviceVars
  <2>3. ("device" \in missing \/ console.set) /\ Prepared'
    BY <1>5, <2>2 DEF IInv, Prepared, FontMade
  <2>4. Pointers'
    BY <1>0, <2>2 DEF Pointers
  <2> QED
    BY <1>1, <1>5, <2>1, <2>2, <2>3, <2>4 DEF Printable, Excused
<1> QED
  BY <1>2, <1>3, <1>4, <1>5 DEF Devices

\* Any call after the boot.
LEMMA LaterSound ==
  ASSUME IInv, Later
  PROVE  IInv'
<1>0. /\ pc = "later" /\ pc' = "later" /\ printing = << >> /\ fault = "none"
      /\ Pointers
  BY DEF IInv, Later, Step
<1>1. /\ "font" \in missing \/ FontMade
      /\ init_char_device /\ ("device" \in missing \/ console.set)
  BY <1>0 DEF IInv, Prepared
<1>2. ASSUME Pointers', "font" \in missing' \/ FontMade', init_char_device',
             "device" \in missing' \/ console'.set,
             printing' \in Seq(0 .. (CHAR_MOD - 1)), Excused
      PROVE  IInv'
  BY <1>0, <1>2 DEF IInv, Prepared, Printable, Explained, Excused
<1>3. ASSUME NEW text \in Seq(0 .. (CHAR_MOD - 1)), write_to_tui(text),
             UNCHANGED <<heapVars, fontVars, deviceVars, missing>>
      PROVE  IInv'
  <2>1. /\ fault' = "none" \/ (fault' = "call" /\ ~console.set)
        /\ printing' \in Seq(0 .. (CHAR_MOD - 1))
    BY <1>0, <1>3, WriteSound
  <2>2. UNCHANGED <<heap, blocks, global_font, font, console, init_char_device, missing>>
    BY <1>3 DEF heapVars, fontVars, deviceVars
  <2>3. Pointers' /\ (FontMade => FontMade')
    BY <1>0, <2>2 DEF Pointers, FontMade
  <2> QED
    BY <1>1, <1>2, <2>1, <2>2, <2>3 DEF Excused
<1>4. ASSUME NEW text \in Texts, printf(text) PROVE IInv'
  BY <1>3, <1>4, KernelMainAssumption DEF printf
<1>5. CASE read_from_tui
  <2>1. PICK beyond \in Characters : write_to_tui(MESSAGE \o <<NUL, beyond>>)
    BY <1>5 DEF read_from_tui
  <2>2. UNCHANGED <<heapVars, fontVars, deviceVars, missing>>
    BY <1>5 DEF read_from_tui
  <2> QED
    BY <1>3, <2>1, <2>2, ReadIsText
<1>6. UNCHANGED printing => printing' \in Seq(0 .. (CHAR_MOD - 1))
  BY DEF IInv, Printable
<1>7. CASE close_tui_char_device
  <2>1. UNCHANGED <<init_char_device, printing>>
    BY <1>7 DEF close_tui_char_device, drawVars
  <2> QED
    BY <1>0, <1>1, <1>2, <1>6, <1>7, <2>1, CloseSound DEF Excused
<1>8. CASE close_psf2_font
  <2>1. UNCHANGED <<init_char_device, printing>>
    BY <1>8 DEF close_psf2_font, drawVars, deviceVars
  <2>2. /\ Pointers' /\ UNCHANGED console
        /\ fault' = "none" \/ (fault' = "kfree of the font" /\ ~font'.set)
        /\ "font" \in missing' \/ (FontMade => FontMade')
        /\ \A what : what \in missing => what \in missing'
    BY <1>0, <1>8, FontCloseSound
  <2> QED
    BY <1>1, <1>2, <1>6, <2>1, <2>2 DEF Excused
<1>9. CASE init_font_format
  <2>1. UNCHANGED <<init_char_device, console, printing, fault>>
    BY <1>9 DEF init_font_format, deviceVars, drawVars
  <2> QED
    BY <1>0, <1>1, <1>2, <1>6, <1>9, <2>1, FontSound DEF Excused
<1>10. CASE init_tui_char_device(fb)
  <2>1. UNCHANGED <<printing, init_char_device>>
    BY <1>10 DEF init_tui_char_device
  <2> QED
    BY <1>0, <1>1, <1>2, <1>6, <1>10, <2>1, DeviceSound DEF Excused
<1> QED
  BY <1>4, <1>5, <1>7, <1>8, <1>9, <1>10 DEF Later

LEMMA SpecIInv == Spec => []IInv
<1>1. Init => IInv
  <2> SUFFICES ASSUME Init PROVE IInv
    OBVIOUS
  <2>1. /\ heap = {} /\ blocks = 0 /\ console = [set |-> FALSE, data |-> NULL]
        /\ font = [data |-> Junk, glyph_buffer |-> Junk, set |-> FALSE]
        /\ pc = "kernel_main" /\ printing = << >> /\ fault = "none"
    BY DEF Init, ConsoleInit
  <2>2. Pointers
    BY <2>1 DEF Pointers
  <2> QED
    BY <2>1, <2>2 DEF IInv, Prepared, Printable, Explained
<1>2. IInv /\ [Next]_vars => IInv'
  <2> SUFFICES ASSUME IInv, [Next]_vars PROVE IInv'
    OBVIOUS
  <2>0. UNCHANGED consoleVars =>
          /\ UNCHANGED <<heap, blocks, global_font, font, init_char_device, console>>
          /\ UNCHANGED <<printing, missing>> /\ fault' = fault
    BY DEF consoleVars, heapVars, fontVars, deviceVars, drawVars
  <2>1. CASE Start \/ Log \/ bootinfo_capture \/ pmm_init \/ hcf
    <3>1. UNCHANGED consoleVars /\ printing = << >>
      BY <2>1 DEF Start, Log, bootinfo_capture, pmm_init, hcf, Step
    <3>2. pc' \notin {"char_device_init", "init_char_device", "printf", "later"}
      BY <2>1 DEF Start, Log, bootinfo_capture, pmm_init, hcf, Step
    <3> QED
      BY <2>0, <3>1, <3>2, ConsoleKept
  <2>2. CASE vmm_clone \/ kheap_init
    <3>1. /\ UNCHANGED <<heap, blocks, global_font, font, init_char_device, console>>
          /\ UNCHANGED <<printing, missing>>
      BY <2>2 DEF vmm_clone, kheap_init, heapVars, fontVars, deviceVars, drawVars
    <3>2. printing = << >> /\ pc' \in {"kheap_init", "init_font_format"}
      BY <2>2 DEF vmm_clone, kheap_init, Step
    <3>3. fault' = fault \/ fault' = "bitmap"
      BY <2>2 DEF vmm_clone, kheap_init
    <3> QED
      BY <3>1, <3>2, <3>3, ConsoleKept
  <2>3. CASE Devices
    BY <2>3, DevicesSound
  <2>4. CASE Later
    BY <2>4, LaterSound
  <2>5. CASE DrawGlyph /\ UNCHANGED pc
    BY <2>5, DrawSound
  <2>6. CASE UNCHANGED <<pc, consoleVars>>
    BY <2>0, <2>6, ConsoleKept
  <2>7. CASE UNCHANGED vars
    BY <2>0, <2>7, ConsoleKept DEF vars
  <2> QED
    BY <2>1, <2>2, <2>3, <2>4, <2>5, <2>6, <2>7 DEF Next, Cpu, Port, Stopped
<1> QED
  BY <1>1, <1>2, PTL DEF Spec

-----------------------------------------------------------------------------
(***************************************************************************)
(* What is written to the port for a text.  The functions are recursive,   *)
(* so these lemmas go from number to number, or to the least exception.    *)
(***************************************************************************)

\* Strictly less, as a relation.
Below == {p \in Nat \X Nat : p[1] < p[2]}

(* A nonempty set of numbers has a least one.                              *)
LEMMA LeastNumber ==
  ASSUME NEW S \in SUBSET Nat, S # {}
  PROVE  \E n \in S : \A m \in S : n <= m
<1>1. IsWellFoundedOn(OpToRel(<, Nat), Nat)
  BY NatLessThanWellFounded
<1>2. OpToRel(<, Nat) = Below
  BY DEF OpToRel, Below
<1>3. IsWellFoundedOn(Below, Nat)
  BY <1>1, <1>2
<1>4. \E n \in S : \A m \in S : ~ (<<m, n>> \in Below)
  BY <1>3, WFMin
<1>5. \A m, n \in Nat : <<m, n>> \in Below <=> m < n
  BY DEF Below
<1>6. PICK n \in S : \A m \in S : ~ (<<m, n>> \in Below)
  BY <1>4
<1>7. \A m \in S : ~ (m < n)
  BY <1>5, <1>6
<1> QED
  BY <1>6, <1>7

(* What holds of 0 and of each number's successor up to l.                 *)
LEMMA Induction ==
  ASSUME NEW l \in Nat, NEW S \in SUBSET (0 .. l), 0 \in S,
         \A n \in 1 .. l : n - 1 \in S => n \in S
  PROVE  S = 0 .. l
<1> SUFFICES ASSUME (0 .. l) \ S # {} PROVE FALSE
  OBVIOUS
<1>1. (0 .. l) \ S \in SUBSET Nat
  OBVIOUS
<1>2. PICK n \in (0 .. l) \ S : \A m \in (0 .. l) \ S : n <= m
  BY <1>1, LeastNumber
<1>3. n \in 1 .. l
  BY <1>2
<1>4. n - 1 \in S
  BY <1>2, <1>3
<1> QED
  BY <1>2, <1>3, <1>4

\* g[n] is what a terminal gets for the first n characters of s.
Grows(s, g) ==
  g = [n \in 0 .. Len(s) |-> IF n = 0 THEN << >> ELSE g[n - 1] \o Sent(s[n])]

\* A character takes one byte or two.
LEMMA SentType ==
  ASSUME NEW S, "\r" \in S, NEW c \in S
  PROVE  Sent(c) \in Seq(S)
BY DEF Sent

\* The equation at each number.
LEMMA GrowthValues ==
  ASSUME NEW S, NEW s \in Seq(S), NEW g, Grows(s, g)
  PROVE  /\ g[0] = << >>
         /\ \A n \in 1 .. Len(s) : g[n] = g[n - 1] \o Sent(s[n])
<1>1. g = [n \in 0 .. Len(s) |-> IF n = 0 THEN << >> ELSE g[n - 1] \o Sent(s[n])]
  BY DEF Grows
<1> DEFINE e(n) == IF n = 0 THEN << >> ELSE g[n - 1] \o Sent(s[n])
<1>2. \A n \in 0 .. Len(s) : g[n] = e(n)
  BY <1>1, Zenon
<1>3. Len(s) \in Nat
  OBVIOUS
<1>4. 0 \in 0 .. Len(s) /\ \A n \in 1 .. Len(s) : n \in 0 .. Len(s) /\ n # 0
  BY <1>3
<1> QED
  BY <1>2, <1>4, Zenon

\* What a terminal gets is bytes.
LEMMA GrowthType ==
  ASSUME NEW S, "\r" \in S, NEW s \in Seq(S), NEW g, Grows(s, g)
  PROVE  \A n \in 0 .. Len(s) : g[n] \in Seq(S)
<1> DEFINE T == {n \in 0 .. Len(s) : g[n] \in Seq(S)}
<1>1. Len(s) \in Nat
  OBVIOUS
<1>2. 0 \in T
  <2>1. g[0] = << >>
    BY GrowthValues
  <2>2. g[0] \in Seq(S)
    BY <2>1
  <2> QED
    BY <1>1, <2>2
<1>3. ASSUME NEW n \in 1 .. Len(s), n - 1 \in T PROVE n \in T
  <2>1. s[n] \in S
    OBVIOUS
  <2>2. Sent(s[n]) \in Seq(S)
    BY <2>1, SentType
  <2>3. g[n] = g[n - 1] \o Sent(s[n])
    BY GrowthValues
  <2>4. g[n] \in Seq(S)
    BY <1>3, <2>2, <2>3, ConcatProperties
  <2> QED
    BY <1>1, <2>4
<1>4. T = 0 .. Len(s)
  <2> HIDE DEF T
  <2>1. T \in SUBSET (0 .. Len(s))
    BY DEF T
  <2> QED
    BY <1>1, <1>2, <1>3, <2>1, Induction
<1> QED
  BY <1>4

\* The recursion of OnTerminal has a solution.
LEMMA GrowthExists ==
  ASSUME NEW S, NEW s \in Seq(S)
  PROVE  \E g : Grows(s, g)
<1> DEFINE Up(l, g) == g = [n \in 0 .. l |-> IF n = 0 THEN << >> ELSE g[n - 1] \o Sent(s[n])]
           T == {l \in 0 .. Len(s) : \E g : Up(l, g)}
<1>1. Len(s) \in Nat
  OBVIOUS
<1>2. 0 \in T
  <2> DEFINE g == [n \in 0 .. 0 |-> << >>]
  <2>1. Up(0, g)
    OBVIOUS
  <2>2. \E f : Up(0, f)
    <3> HIDE DEF g, Up
    <3> QED
      BY <2>1, Zenon
  <2>3. 0 \in 0 .. Len(s)
    BY <1>1
  <2> QED
    BY <2>2, <2>3, Zenon
<1>3. ASSUME NEW l \in 1 .. Len(s), l - 1 \in T PROVE l \in T
  <2>1. PICK g : Up(l - 1, g)
    BY <1>3
  <2> DEFINE e(f, n) == IF n = 0 THEN << >> ELSE f[n - 1] \o Sent(s[n])
             h == [n \in 0 .. l |-> IF n = l THEN g[l - 1] \o Sent(s[l]) ELSE g[n]]
  <2>2. ASSUME NEW n \in 0 .. l PROVE h[n] = e(h, n)
    <3>1. CASE n = 0
      <4>1. g[0] = << >>
        BY <2>1
      <4> QED
        BY <3>1, <4>1
    <3>2. CASE n = l
      <4>1. l - 1 \in 0 .. l /\ l - 1 # l /\ l # 0 /\ l \in 0 .. l
        OBVIOUS
      <4>2. h[l - 1] = g[l - 1] /\ h[l] = g[l - 1] \o Sent(s[l])
        BY <4>1, Zenon
      <4> QED
        BY <3>2, <4>1, <4>2, Zenon
    <3>3. CASE n \in 1 .. (l - 1)
      <4>1. n \in 0 .. l /\ n - 1 \in 0 .. l /\ n # l /\ n - 1 # l /\ n # 0 /\ n \in 0 .. (l - 1)
        BY <3>3
      <4>2. g[n] = e(g, n)
        BY <2>1, <4>1, Zenon
      <4>3. h[n] = g[n] /\ h[n - 1] = g[n - 1]
        BY <4>1, Zenon
      <4> QED
        BY <4>1, <4>2, <4>3, Zenon
    <3> QED
      BY <3>1, <3>2, <3>3
  <2>3. h = [n \in 0 .. l |-> e(h, n)]
    <3>1. h = [n \in 0 .. l |-> h[n]]
      OBVIOUS
    <3> HIDE DEF h, e
    <3> QED
      BY <2>2, <3>1
  <2>4. Up(l, h)
    BY <2>3, Zenon
  <2> HIDE DEF h
  <2>5. \E f : Up(l, f)
    <3> HIDE DEF Up
    <3> QED
      BY <2>4, Zenon
  <2>6. l \in 0 .. Len(s)
    BY <1>1
  <2> QED
    BY <2>5, <2>6, Zenon
<1>4. T = 0 .. Len(s)
  <2> HIDE DEF T
  <2>1. T \in SUBSET (0 .. Len(s))
    BY DEF T
  <2> QED
    BY <1>1, <1>2, <1>3, <2>1, Induction
<1>5. Len(s) \in T
  <2> HIDE DEF T
  <2> QED
    BY <1>1, <1>4
<1> QED
  BY <1>5, Zenon DEF Grows

\* So OnTerminal, which chooses one, is its value at the end.
LEMMA OnTerminalIs ==
  ASSUME NEW S, NEW s \in Seq(S)
  PROVE  \E h : Grows(s, h) /\ OnTerminal(s) = h[Len(s)]
<1> DEFINE h == CHOOSE x : x = [n \in 0 .. Len(s) |->
                                  IF n = 0 THEN << >> ELSE x[n - 1] \o Sent(s[n])]
<1>1. h = [n \in 0 .. Len(s) |-> IF n = 0 THEN << >> ELSE h[n - 1] \o Sent(s[n])]
  BY GrowthExists, Zenon DEF Grows
<1>2. OnTerminal(s) = h[Len(s)]
  BY Zenon DEF OnTerminal
<1> HIDE DEF h
<1> QED
  BY <1>1, <1>2, Zenon DEF Grows

\* A log that is made longer gets to the terminal longer by what was added.
LEMMA OnTerminalAdds ==
  ASSUME NEW S, "\r" \in S, NEW s \in Seq(S), NEW t \in Seq(S)
  PROVE  /\ OnTerminal(s) \in Seq(S) /\ OnTerminal(t) \in Seq(S)
         /\ OnTerminal(s \o t) = OnTerminal(s) \o OnTerminal(t)
<1>1. PICK f : Grows(s, f) /\ OnTerminal(s) = f[Len(s)]
  BY OnTerminalIs
<1>2. PICK g : Grows(t, g) /\ OnTerminal(t) = g[Len(t)]
  BY OnTerminalIs
<1>3. PICK u : u = s \o t
  OBVIOUS
<1>4. /\ u \in Seq(S) /\ Len(u) = Len(s) + Len(t)
      /\ \A n \in 1 .. Len(s) : u[n] = s[n]
      /\ \A n \in 1 .. Len(t) : u[Len(s) + n] = t[n]
  <2>1. /\ u \in Seq(S) /\ Len(u) = Len(s) + Len(t)
        /\ \A n \in 1 .. Len(s) + Len(t) : u[n] = IF n <= Len(s) THEN s[n] ELSE t[n - Len(s)]
    BY <1>3, ConcatProperties
  <2>2. PICK a \in Nat, b \in Nat : a = Len(s) /\ b = Len(t)
    OBVIOUS
  <2>3. \A n \in 1 .. a + b : u[n] = IF n <= a THEN s[n] ELSE t[n - a]
    BY <2>1, <2>2
  <2>4. ASSUME NEW n \in 1 .. a PROVE u[n] = s[n]
    <3>1. n \in 1 .. a + b /\ n <= a
      OBVIOUS
    <3> QED
      BY <2>3, <3>1, Zenon
  <2>5. ASSUME NEW n \in 1 .. b PROVE u[a + n] = t[n]
    <3>1. a + n \in 1 .. a + b /\ ~ (a + n <= a) /\ (a + n) - a = n
      OBVIOUS
    <3> QED
      BY <2>3, <3>1, Zenon
  <2> QED
    BY <2>1, <2>2, <2>4, <2>5, Zenon
<1>5. PICK h : Grows(u, h) /\ OnTerminal(u) = h[Len(u)]
  BY <1>4, OnTerminalIs
<1>6. PICK a \in Nat, b \in Nat : a = Len(s) /\ b = Len(t) /\ Len(u) = a + b
  BY <1>4
<1>7. /\ f[0] = << >> /\ \A n \in 1 .. a : f[n] = f[n - 1] \o Sent(s[n])
      /\ \A n \in 0 .. a : f[n] \in Seq(S)
  BY <1>1, <1>6, GrowthValues, GrowthType
<1>8. /\ g[0] = << >> /\ \A n \in 1 .. b : g[n] = g[n - 1] \o Sent(t[n])
      /\ \A n \in 0 .. b : g[n] \in Seq(S)
  BY <1>2, <1>6, GrowthValues, GrowthType
<1>9. h[0] = << >> /\ \A n \in 1 .. a + b : h[n] = h[n - 1] \o Sent(u[n])
  <2>1. h[0] = << >> /\ \A n \in 1 .. Len(u) : h[n] = h[n - 1] \o Sent(u[n])
    BY <1>4, <1>5, GrowthValues
  <2> QED
    BY <1>6, <2>1, Zenon
<1>10. h[a] = f[a]
  <2> DEFINE T == {n \in 0 .. a : h[n] = f[n]}
  <2>1. 0 \in T
    BY <1>7, <1>9
  <2>2. ASSUME NEW n \in 1 .. a, n - 1 \in T PROVE n \in T
    <3>1. h[n - 1] = f[n - 1] /\ n \in 0 .. a /\ n \in 1 .. a + b
      BY <2>2
    <3>2. u[n] = s[n]
      BY <1>4, <1>6
    <3>3. h[n] = f[n]
      BY <1>7, <1>9, <3>1, <3>2, Zenon
    <3> QED
      BY <3>1, <3>3, Zenon
  <2>3. T \in SUBSET (0 .. a)
    OBVIOUS
  <2>4. a \in T
    <3> HIDE DEF T
    <3>1. T = 0 .. a
      BY <2>1, <2>2, <2>3, Induction
    <3> QED
      BY <3>1
  <2> QED
    BY <2>4
<1>11. h[a + b] = f[a] \o g[b]
  <2> DEFINE T == {n \in 0 .. b : h[a + n] = f[a] \o g[n]}
  <2>0. f[a] \in Seq(S)
    BY <1>7
  <2>1. 0 \in T
    <3>1. f[a] \o << >> = f[a]
      BY <2>0, ConcatEmptySeq
    <3>2. 0 \in 0 .. b /\ a + 0 = a
      OBVIOUS
    <3>3. h[a + 0] = f[a] \o g[0]
      BY <1>8, <1>10, <3>1, <3>2, Zenon
    <3> QED
      BY <3>2, <3>3, Zenon
  <2>2. ASSUME NEW n \in 1 .. b, n - 1 \in T PROVE n \in T
    <3>0. /\ n \in 0 .. b /\ n - 1 \in 0 .. b
          /\ a + n \in 1 .. a + b /\ (a + n) - 1 = a + (n - 1)
      OBVIOUS
    <3>1. /\ h[a + (n - 1)] = f[a] \o g[n - 1] /\ n \in 0 .. b /\ n - 1 \in 0 .. b
          /\ a + n \in 1 .. a + b /\ (a + n) - 1 = a + (n - 1)
      BY <2>2, <3>0, Zenon
    <3>2. u[a + n] = t[n] /\ t[n] \in S
      BY <1>4, <1>6
    <3>3. Sent(t[n]) \in Seq(S) /\ g[n - 1] \in Seq(S)
      BY <1>8, <3>1, <3>2, SentType
    <3>4. h[a + n] = (f[a] \o g[n - 1]) \o Sent(t[n])
      BY <1>9, <3>1, <3>2, Zenon
    <3>5. (f[a] \o g[n - 1]) \o Sent(t[n]) = f[a] \o (g[n - 1] \o Sent(t[n]))
      <4>1. PICK x \in Seq(S), y \in Seq(S), z \in Seq(S) :
              x = f[a] /\ y = g[n - 1] /\ z = Sent(t[n])
        BY <2>0, <3>3
      <4>2. (x \o y) \o z = x \o (y \o z)
        BY ConcatAssociative, SMTT(30)
      <4> QED
        BY <4>1, <4>2, Zenon
    <3>6. g[n] = g[n - 1] \o Sent(t[n])
      BY <1>8, Zenon
    <3>7. h[a + n] = f[a] \o g[n]
      BY <3>4, <3>5, <3>6, Zenon
    <3> QED
      BY <3>1, <3>7, Zenon
  <2>3. T \in SUBSET (0 .. b)
    OBVIOUS
  <2>4. b \in T
    <3> HIDE DEF T
    <3>1. T = 0 .. b
      BY <2>1, <2>2, <2>3, Induction
    <3> QED
      BY <3>1
  <2> QED
    BY <2>4
<1>12. a \in 0 .. a /\ b \in 0 .. b
  OBVIOUS
<1> QED
  BY <1>1, <1>2, <1>3, <1>5, <1>6, <1>7, <1>8, <1>11, <1>12, Zenon

\* serial_puts writes what a terminal expects of the line (serial.c:29-44).
LEMMA BytesOnTerminal ==
  ASSUME NEW S, "\r" \in S, NEW s \in Seq(S)
  PROVE  Bytes(s) = OnTerminal(s)
<1> DEFINE p == [i \in DOMAIN s |-> IF s[i] = "\n" THEN <<"\r", "\n">> ELSE <<s[i]>>]
<1>1. PICK l \in Nat : l = Len(s)
  OBVIOUS
<1>2. p = [i \in 1 .. l |-> Sent(s[i])]
  BY <1>1 DEF Sent
<1>3. Len(p) = l /\ \A i \in 1 .. l : p[i] = Sent(s[i]) /\ Sent(s[i]) \in Seq(S)
  <2>1. \A i \in 1 .. l : Sent(s[i]) \in Seq(S)
    BY <1>1, SentType
  <2> HIDE DEF p
  <2>2. Len(p) = l
    BY <1>2
  <2> QED
    BY <1>2, <2>1, <2>2
<1>4. PICK g : Grows(s, g) /\ OnTerminal(s) = g[l]
  BY <1>1, OnTerminalIs
<1>5. /\ g[0] = << >> /\ \A n \in 1 .. l : g[n] = g[n - 1] \o Sent(s[n])
      /\ \A n \in 0 .. l : g[n] \in Seq(S)
  BY <1>1, <1>4, GrowthValues, GrowthType
<1>6. Bytes(s) = FlattenSeq(p)
  BY Zenon DEF Bytes
<1>7. CASE l = 0
  <2>1. p = << >>
    BY <1>2, <1>7
  <2> HIDE DEF p
  <2>2. FlattenSeq(p) = p
    BY <1>3, <1>7, Zenon DEF FlattenSeq
  <2> QED
    BY <1>4, <1>5, <1>6, <1>7, <2>1, <2>2
<1>8. CASE l # 0
  <2> HIDE DEF p
  <2> DEFINE h == CHOOSE x : x = [i \in 1 .. Len(p) |->
                                    IF i = 1 THEN p[i] ELSE x[i - 1] \o p[i]]
  <2>1. \E x : x = [i \in 1 .. Len(p) |-> IF i = 1 THEN p[i] ELSE x[i - 1] \o p[i]]
    <3> DEFINE x == [i \in 1 .. l |-> g[i]]
               e(y, i) == IF i = 1 THEN p[i] ELSE y[i - 1] \o p[i]
    <3>1. ASSUME NEW i \in 1 .. l PROVE g[i] = e(x, i)
      <4>1. CASE i = 1
        <5>1. g[1] = g[1 - 1] \o Sent(s[1]) /\ 1 - 1 = 0
          <6>1. 1 \in 1 .. l /\ 1 - 1 = 0
            BY <1>8
          <6> QED
            BY <1>5, <6>1, Zenon
        <5>2. << >> \o Sent(s[1]) = Sent(s[1])
          BY <1>3, <4>1, ConcatEmptySeq
        <5> QED
          BY <1>3, <1>5, <4>1, <5>1, <5>2, Zenon
      <4>2. CASE i # 1
        <5>1. i - 1 \in 1 .. l
          BY <4>2
        <5>2. x[i - 1] = g[i - 1]
          BY <5>1, Zenon
        <5> QED
          BY <1>3, <1>5, <4>2, <5>2, Zenon
      <4> QED
        BY <4>1, <4>2
    <3>2. x = [i \in 1 .. l |-> e(x, i)]
      <4>1. x = [i \in 1 .. l |-> g[i]]
        OBVIOUS
      <4> HIDE DEF x, e
      <4> QED
        BY <3>1, <4>1
    <3> QED
      BY <1>3, <3>2, Zenon
  <2>2. h = [i \in 1 .. Len(p) |-> IF i = 1 THEN p[i] ELSE h[i - 1] \o p[i]]
    BY <2>1, Zenon
  <2>3. FlattenSeq(p) = h[l]
    BY <1>3, <1>8, Zenon DEF FlattenSeq
  <2> HIDE DEF h
  <2>4. \A i \in 1 .. l : h[i] = IF i = 1 THEN p[i] ELSE h[i - 1] \o p[i]
    BY <1>3, <2>2, Zenon
  <2> DEFINE T == {n \in 0 .. l : n = 0 \/ h[n] = g[n]}
  <2>5. 0 \in T
    OBVIOUS
  <2>6. ASSUME NEW n \in 1 .. l, n - 1 \in T PROVE n \in T
    <3>0. n \in 0 .. l
      OBVIOUS
    <3>1. g[n] = g[n - 1] \o Sent(s[n]) /\ p[n] = Sent(s[n])
      BY <1>3, <1>5
    <3>2. h[n] = IF n = 1 THEN p[n] ELSE h[n - 1] \o p[n]
      BY <2>4
    <3>3. CASE n = 1
      <4>1. g[n - 1] = << >>
        BY <1>5, <3>3
      <4>2. << >> \o Sent(s[n]) = Sent(s[n])
        BY <1>3, ConcatEmptySeq
      <4> QED
        BY <3>0, <3>1, <3>2, <3>3, <4>1, <4>2, Zenon
    <3>4. CASE n # 1
      <4>1. h[n - 1] = g[n - 1]
        BY <2>6, <3>4
      <4> QED
        BY <3>0, <3>1, <3>2, <3>4, <4>1, Zenon
    <3> QED
      BY <3>3, <3>4
  <2>7. T \in SUBSET (0 .. l)
    OBVIOUS
  <2>8. l \in T
    <3> HIDE DEF T
    <3>1. T = 0 .. l
      BY <2>5, <2>6, <2>7, Induction
    <3> QED
      BY <3>1
  <2>9. h[l] = g[l]
    BY <1>8, <2>8
  <2> QED
    BY <1>4, <1>6, <2>3, <2>9, Zenon
<1> QED
  BY <1>7, <1>8

-----------------------------------------------------------------------------
(***************************************************************************)
(* The log                                                                 *)
(***************************************************************************)

\* Labels, values and ends of lines.
LogText ==
  {"\r", "\n", "value", "kernel_main reached", "IDT installed", "memmap ptr", "hhdm ptr",
   "pmm free bytes", "new pml4", "memory_init done"}

(* The invariant of the log.  A status read as empty stays true until the  *)
(* processor writes, since the port only ever takes bytes away; and no     *)
(* line is logged before the port is ready, or serial_init would lose it.  *)
WireInv ==
  /\ wire \in Seq(LogText) /\ fifo \in Seq(LogText)
  /\ todo \in Seq(LogText) /\ logged \in Seq(LogText)
  /\ WireIsLog
  /\ empty => fifo = << >>
  /\ pc = "kernel_main" => fifo = << >> /\ todo = << >>
  /\ pc \notin {"kernel_main", "hcf"} => serial_ready

\* A log line is asked for and is what is left to write.
LEMMA LogKept ==
  ASSUME WireInv, todo = << >>, serial_ready, NEW level, NEW line \in Seq(LogText),
         LOG(level, line), pc' # "kernel_main"
  PROVE  WireInv'
<1>1. PICK said \in Seq(LogText) : said = IF level <= LOG_LEVEL THEN line ELSE << >>
  <2>1. << >> \in Seq(LogText)
    OBVIOUS
  <2> QED
    BY <2>1, Zenon
<1>2. /\ logged' = logged \o said /\ todo' = Bytes(said)
      /\ UNCHANGED <<serial_ready, fifo, wire, empty>>
  BY <1>1, Zenon DEF LOG
<1>3. "\r" \in LogText
  BY DEF LogText
<1>4. /\ OnTerminal(said) \in Seq(LogText) /\ Bytes(said) = OnTerminal(said)
      /\ OnTerminal(logged') = OnTerminal(logged) \o OnTerminal(said)
  <2>1. logged \in Seq(LogText)
    BY DEF WireInv
  <2>2. OnTerminal(logged \o said) = OnTerminal(logged) \o OnTerminal(said)
    BY <1>3, <2>1, OnTerminalAdds
  <2>3. OnTerminal(said) \in Seq(LogText) /\ Bytes(said) = OnTerminal(said)
    BY <1>3, OnTerminalAdds, BytesOnTerminal
  <2> QED
    BY <1>2, <2>2, <2>3, Zenon
<1>5. logged' \in Seq(LogText)
  BY <1>2, ConcatProperties DEF WireInv
<1>6. WireIsLog'
  <2>1. (wire \o fifo) \o << >> = OnTerminal(logged)
    BY Zenon DEF WireInv, WireIsLog
  <2>2. wire \o fifo \in Seq(LogText)
    BY ConcatProperties DEF WireInv
  <2>3. wire \o fifo = OnTerminal(logged)
    BY <2>1, <2>2, ConcatEmptySeq
  <2>4. wire' \o fifo' \o todo' = (wire \o fifo) \o OnTerminal(said)
    BY <1>2, <1>4, Zenon
  <2> QED
    BY <1>4, <2>3, <2>4, Zenon DEF WireIsLog
<1> QED
  BY <1>2, <1>4, <1>5, <1>6, Zenon DEF WireInv

\* The byte written goes to an empty port.
LEMMA PutKept ==
  ASSUME WireInv, serial_putc, UNCHANGED pc
  PROVE  WireInv'
<1>1. /\ todo # << >> /\ empty /\ todo' = Tail(todo) /\ empty' = FALSE
      /\ fifo' = IF Len(fifo) < FIFO_SIZE THEN Append(fifo, Head(todo)) ELSE fifo
      /\ UNCHANGED <<serial_ready, wire, logged>>
  BY DEF serial_putc
<1>2. fifo = << >> /\ pc # "kernel_main"
  BY <1>1 DEF WireInv
<1>3. PICK w \in Seq(LogText), t \in Seq(LogText) : w = wire /\ t = todo
  BY DEF WireInv
<1>4. PICK c \in LogText, u \in Seq(LogText) : c = Head(t) /\ u = Tail(t)
  BY <1>1, <1>3, HeadTailProperties
<1>5. fifo' = <<c>>
  <2>1. Len(fifo) < FIFO_SIZE
    BY <1>2, SerialAssumption
  <2>2. Append(<< >>, c) = <<c>>
    OBVIOUS
  <2> QED
    BY <1>1, <1>2, <1>3, <1>4, <2>1, <2>2, Zenon
<1>6. t = <<c>> \o u
  <2>1. Len(t) \in Nat /\ Len(t) > 0
    BY <1>1, <1>3
  <2> QED
    BY <1>4, <2>1
<1>7. <<c>> \in Seq(LogText)
  BY <1>4
<1>8. w \o << >> = w /\ (w \o <<c>>) \o u = w \o (<<c>> \o u)
  BY <1>7, ConcatEmptySeq, ConcatAssociative
<1>9. WireIsLog'
  <2>1. (w \o << >>) \o t = OnTerminal(logged)
    BY <1>2, <1>3, Zenon DEF WireInv, WireIsLog
  <2> QED
    BY <1>1, <1>3, <1>4, <1>5, <1>6, <1>8, <2>1, Zenon DEF WireIsLog
<1> QED
  BY <1>1, <1>2, <1>3, <1>4, <1>5, <1>7, <1>9, Zenon DEF WireInv

\* The byte the port sends moves to the wire.
LEMMA TransmitKept ==
  ASSUME WireInv, Transmit, UNCHANGED pc
  PROVE  WireInv'
<1>1. /\ fifo # << >> /\ fifo' = Tail(fifo) /\ wire' = Append(wire, Head(fifo))
      /\ UNCHANGED <<serial_ready, empty, todo, logged>>
  BY DEF Transmit
<1>2. pc # "kernel_main" /\ ~empty
  BY <1>1 DEF WireInv
<1>3. PICK w \in Seq(LogText), f \in Seq(LogText) : w = wire /\ f = fifo
  BY DEF WireInv
<1>4. PICK c \in LogText, u \in Seq(LogText) : c = Head(f) /\ u = Tail(f)
  BY <1>1, <1>3, HeadTailProperties
<1>5. Append(w, c) = w \o <<c>> /\ Append(w, c) \in Seq(LogText)
  BY AppendIsConcat, AppendProperties
<1>6. f = <<c>> \o u
  <2>1. Len(f) \in Nat /\ Len(f) > 0
    BY <1>1, <1>3
  <2> QED
    BY <1>4, <2>1
<1>7. <<c>> \in Seq(LogText)
  BY <1>4
<1>8. (w \o <<c>>) \o u = w \o (<<c>> \o u)
  BY <1>7, ConcatAssociative
<1>9. WireIsLog'
  <2>1. (w \o f) \o todo = OnTerminal(logged)
    BY <1>3, Zenon DEF WireInv, WireIsLog
  <2> QED
    BY <1>1, <1>3, <1>4, <1>5, <1>6, <1>8, <2>1, Zenon DEF WireIsLog
<1> QED
  BY <1>1, <1>2, <1>3, <1>4, <1>5, <1>9, Zenon DEF WireInv

\* The invariant of the log.
THEOREM SpecWireInv == Spec => []WireInv
<1>1. Init => WireInv
  <2> SUFFICES ASSUME Init PROVE WireInv
    OBVIOUS
  <2>1. /\ wire = << >> /\ fifo = << >> /\ todo = << >> /\ logged = << >> /\ empty = FALSE
        /\ pc = "kernel_main"
    BY DEF Init, SerialInit
  <2>2. << >> \in Seq(LogText) /\ << >> \o << >> = << >>
    <3>1. << >> \in Seq(LogText)
      OBVIOUS
    <3> QED
      BY <3>1, ConcatEmptySeq
  <2>3. OnTerminal(<< >>) = << >>
    <3>1. PICK h : Grows(<< >>, h) /\ OnTerminal(<< >>) = h[Len(<< >>)]
      BY <2>2, OnTerminalIs
    <3>2. h[0] = << >>
      BY <2>2, <3>1, GrowthValues
    <3>3. Len(<< >>) = 0
      OBVIOUS
    <3> QED
      BY <3>1, <3>2, <3>3
  <2> QED
    BY <2>1, <2>2, <2>3 DEF WireInv, WireIsLog
<1>2. WireInv /\ [Next]_vars => WireInv'
  <2> SUFFICES ASSUME WireInv, [Next]_vars PROVE WireInv'
    OBVIOUS
  <2>0. ASSUME UNCHANGED serialVars, pc' \in {pc, "hcf"} \/ pc \notin {"kernel_main", "hcf"},
               pc' # "kernel_main" \/ UNCHANGED pc
        PROVE  WireInv'
    BY <2>0 DEF WireInv, WireIsLog, serialVars
  <2>1. CASE Start
    <3>1. CASE ~supported /\ Step("kernel_main", "hcf") /\ UNCHANGED serialVars
      BY <2>0, <3>1 DEF Step
    <3>2. CASE supported /\ Step("kernel_main", "reached") /\ serial_init
      <4>1. /\ pc = "kernel_main" /\ pc' = "reached" /\ serial_ready' = TRUE /\ fifo' = << >>
            /\ UNCHANGED <<wire, empty, todo, logged>>
        BY <3>2 DEF Step, serial_init
      <4>2. fifo' = fifo
        BY <4>1 DEF WireInv
      <4> QED
        BY <4>1, <4>2 DEF WireInv, WireIsLog
    <3> QED
      BY <2>1, <3>1, <3>2 DEF Start
  <2>2. CASE Log \/ pmm_init \/ kheap_init \/ vmm_clone
    <3>1. /\ pc \in {"reached", "installed", "memory_init", "pmm_init", "vmm_clone", "kheap_init"}
          /\ pc' \in {"installed", "memory_init", "bootinfo_capture", "vmm_clone", "kheap_init",
                      "init_font_format"}
          /\ todo = << >>
      BY <2>2 DEF Log, pmm_init, kheap_init, vmm_clone, Step
    <3>2. serial_ready /\ pc' # "kernel_main"
      BY <3>1 DEF WireInv
    <3>3. \/ UNCHANGED serialVars
          \/ \E level \in {LOG_INFO, LOG_DEBUG, LOG_TRACE}, line \in Seq(LogText) :
               LOG(level, line)
      <4>1. /\ <<"kernel_main reached", "\n">> \in Seq(LogText)
            /\ <<"IDT installed", "\n">> \in Seq(LogText)
            /\ <<"memmap ptr", "value", "\n", "hhdm ptr", "value", "\n">> \in Seq(LogText)
            /\ <<"pmm free bytes", "value", "\n">> \in Seq(LogText)
            /\ <<"new pml4", "value", "\n">> \in Seq(LogText)
            /\ <<"memory_init done", "\n">> \in Seq(LogText)
        BY DEF LogText
      <4>2. \/ UNCHANGED serialVars
            \/ LOG(LOG_INFO, <<"kernel_main reached", "\n">>)
            \/ LOG(LOG_INFO, <<"IDT installed", "\n">>)
            \/ LOG(LOG_TRACE, <<"memmap ptr", "value", "\n", "hhdm ptr", "value", "\n">>)
            \/ LOG(LOG_DEBUG, <<"pmm free bytes", "value", "\n">>)
            \/ LOG(LOG_DEBUG, <<"new pml4", "value", "\n">>)
            \/ LOG(LOG_INFO, <<"memory_init done", "\n">>)
        BY <2>2, Zenon DEF Log, pmm_init, kheap_init, vmm_clone
      <4> QED
        BY <4>1, <4>2, Zenon
    <3> QED
      BY <2>0, <3>1, <3>2, <3>3, LogKept
  <2>3. CASE bootinfo_capture \/ hcf
    BY <2>0, <2>3 DEF bootinfo_capture, hcf, Step
  <2>4. CASE Devices /\ UNCHANGED serialVars
    BY <2>0, <2>4 DEF Devices, Step
  <2>5. CASE Later /\ UNCHANGED serialVars
    BY <2>0, <2>5 DEF Later, Step
  <2>6. CASE tx_empty /\ UNCHANGED pc
    <3>1. /\ empty' = (fifo = << >>) /\ UNCHANGED <<serial_ready, fifo, wire, todo, logged>>
      BY <2>6 DEF tx_empty, StatusBit
    <3> QED
      BY <2>6, <3>1 DEF WireInv, WireIsLog
  <2>7. CASE serial_putc /\ UNCHANGED pc
    BY <2>7, PutKept
  <2>8. CASE Transmit /\ UNCHANGED pc
    BY <2>8, TransmitKept
  <2>9. CASE UNCHANGED <<pc, serialVars>>
    BY <2>0, <2>9
  <2> QED
    BY <2>1, <2>2, <2>3, <2>4, <2>5, <2>6, <2>7, <2>8, <2>9
       DEF Next, Cpu, Port, Stopped, vars
<1> QED
  BY <1>1, <1>2, PTL DEF Spec

(* What has been sent, what the port holds and what is still to be written *)
(* are together the log, at every moment and for a port of any size: no    *)
(* byte is dropped, doubled or overtaken (serial.c:33).                    *)
THEOREM WireCorrect == Spec => []WireIsLog
<1>1. WireInv => WireIsLog
  BY DEF WireInv
<1> QED
  BY <1>1, SpecWireInv, PTL

-----------------------------------------------------------------------------
(***************************************************************************)
(* The screen                                                              *)
(***************************************************************************)

\* What texts are made of.
Char == 0 .. (CHAR_MOD - 1)

\* The description drawn on is the one kernel_main passes on.
ScreenTypes ==
  /\ response \in FramebufferResponses /\ fb_intact \in BOOLEAN
  /\ tui \in [fb : {NULL, fb}, cursor_x : Nat, cursor_y : Nat]
  /\ asked \in Seq(Char) /\ printing \in Seq(Char)

\* What is left to draw is the end of what was asked for.
LeftToDraw ==
  /\ Len(printing) <= Len(asked)
  /\ \A i \in 1 .. Len(printing) : printing[i] = asked[Drawn + i]

\* The cursor has counted the characters drawn.
CursorCounts ==
  tui.fb # NULL /\ Columns(tui.fb) > 0 =>
    /\ tui.cursor_x < Columns(tui.fb)
    /\ Drawn = tui.cursor_y * Columns(tui.fb) + tui.cursor_x

\* What has been drawn is on the screen, and nothing else before it is full.
DrawnShown ==
  tui.fb # NULL /\ fb_intact =>
    /\ \A n \in 1 .. Drawn :
         n <= Cells => <<Cell(n - 1)[1], Cell(n - 1)[2], asked[n]>> \in screen
    /\ Drawn <= Cells => ~astray

ScreenInv == ScreenTypes /\ LeftToDraw /\ CursorCounts /\ DrawnShown

\* The cell of a cursor position, and the bounds of what fits.
LEMMA DivMod ==
  ASSUME NEW c \in Nat, NEW x \in Nat, NEW y \in Nat, x < c
  PROVE  (y * c + x) % c = x /\ (y * c + x) \div c = y
OBVIOUS

LEMMA DivBelow ==
  ASSUME NEW a \in Nat, NEW b \in Nat \ {0}
  PROVE  a \div b \in Nat /\ (a \div b) * b <= a
OBVIOUS
LEMMA RowBelow ==
  ASSUME NEW x \in Nat, NEW y \in Nat, NEW c \in Nat, NEW r \in Nat, x < c, y * c + x < c * r
  PROVE y + 1 <= r
OBVIOUS

LEMMA ProductMonotonic ==
  ASSUME NEW a \in Int, NEW b \in Int, NEW c \in Nat, a <= b
  PROVE  a * c <= b * c
OBVIOUS

\* A glyph in a cell of the screen lies in the framebuffer with all its pixels.
LEMMA InsideFramebuffer ==
  ASSUME RowsHoldPixels, response \in FramebufferResponses, fb # NULL,
         NEW x \in Nat, NEW y \in Nat, x < Columns(fb), y + 1 <= fb.height \div FONT.height
  PROVE  LastByte(fb, x, y) < fb.pitch * fb.height
<1>1. /\ response # NULL /\ response # << >> /\ fb = response[1]
  BY DEF fb
<1>2. PICK w \in Nat, h \in Nat, p \in Nat, b \in Nat :
        w = fb.width /\ h = fb.height /\ p = fb.pitch /\ b = fb.bpp
  BY <1>1, KernelMainAssumption
<1>3. PICK fw \in Nat \ {0}, fh \in Nat \ {0} : fw = FONT.width /\ fh = FONT.height
  BY ConsoleAssumption
<1>4. PICK q \in Nat : q = b \div 8
  OBVIOUS
<1>5. (w - 1) * q + 3 < p
  BY <1>1, <1>2, <1>4 DEF RowsHoldPixels
<1>6. PICK u \in Nat : u = (x + 1) * fw /\ u <= w
  <2>1. w \div fw \in Nat /\ (w \div fw) * fw <= w
    BY DivBelow
  <2>2. x + 1 <= w \div fw
    BY <1>2, <1>3, <2>1 DEF Columns
  <2>3. (x + 1) * fw <= (w \div fw) * fw /\ (x + 1) * fw \in Nat /\ (w \div fw) * fw \in Nat
    BY <2>1, <2>2, ProductMonotonic
  <2> QED
    BY <2>1, <2>3
<1>7. PICK v \in Nat : v = (y + 1) * fh /\ v <= h
  <2>1. h \div fh \in Nat /\ (h \div fh) * fh <= h
    BY DivBelow
  <2>2. y + 1 <= h \div fh
    BY <1>2, <1>3
  <2>3. (y + 1) * fh <= (h \div fh) * fh /\ (y + 1) * fh \in Nat /\ (h \div fh) * fh \in Nat
    BY <2>1, <2>2, ProductMonotonic
  <2> QED
    BY <2>1, <2>3
<1>8. LastByte(fb, x, y) = (v - 1) * p + (u - 1) * q + 3
  BY <1>2, <1>3, <1>4, <1>6, <1>7, Zenon DEF LastByte
<1>9. (u - 1) * q <= (w - 1) * q
  BY <1>6, ProductMonotonic
<1>10. (v - 1) * p <= (h - 1) * p
  BY <1>7, ProductMonotonic
<1>11. (h - 1) * p = p * h - p
  OBVIOUS
<1>12. (v - 1) * p + (u - 1) * q + 3 < p * h
  <2>1. /\ (v - 1) * p \in Int /\ (u - 1) * q \in Int /\ (w - 1) * q \in Int
        /\ (h - 1) * p \in Int /\ p * h \in Int
    OBVIOUS
  <2> QED
    BY <1>5, <1>9, <1>10, <1>11, <2>1
<1> QED
  BY <1>2, <1>8, <1>12

\* Before the screen is full the cursor is in the next cell, which lies inside.
LEMMA CellInside ==
  ASSUME RowsHoldPixels, ScreenInv, tui.fb # NULL, Drawn < Cells
  PROVE  /\ LastByte(tui.fb, tui.cursor_x, tui.cursor_y) < tui.fb.pitch * tui.fb.height
         /\ Cell(Drawn) = <<tui.cursor_x, tui.cursor_y>>
<1>1. /\ printing \in Seq(Char) /\ asked \in Seq(Char) /\ Len(printing) <= Len(asked)
      /\ tui \in [fb : {NULL, fb}, cursor_x : Nat, cursor_y : Nat]
      /\ response \in FramebufferResponses
  BY DEF ScreenInv, ScreenTypes, LeftToDraw
<1>2. PICK k \in Nat : k = Drawn
  <2>1. Drawn \in Nat
    BY <1>1 DEF Drawn
  <2> QED
    BY <2>1
<1>3. tui.fb = fb /\ fb # NULL /\ fb = response[1] /\ response # NULL /\ response # << >>
  BY <1>1 DEF fb
<1>4. PICK C \in Nat, R \in Nat : C = Columns(tui.fb) /\ R = tui.fb.height \div FONT.height
  <2>1. /\ fb.width \in Nat /\ FONT.width \in Nat \ {0}
        /\ fb.height \in Nat /\ FONT.height \in Nat \ {0}
    BY <1>1, <1>3, KernelMainAssumption, ConsoleAssumption
  <2>2. fb.width \div FONT.width \in Nat /\ fb.height \div FONT.height \in Nat
    BY <2>1, DivBelow
  <2> QED
    BY <1>3, <2>2 DEF Columns
<1>5. PICK x \in Nat, y \in Nat : x = tui.cursor_x /\ y = tui.cursor_y
  BY <1>1
<1>6. k < C * R /\ C * R \in Nat
  BY <1>2, <1>4 DEF Cells
<1>7. C > 0
  <2>1. C = 0 => C * R = 0
    OBVIOUS
  <2> QED
    BY <1>6, <2>1
<1>8. x < C /\ k = y * C + x
  BY <1>2, <1>4, <1>5, <1>7 DEF ScreenInv, CursorCounts
<1>9. y + 1 <= R
  BY <1>6, <1>8, RowBelow
<1>10. LastByte(fb, x, y) < fb.pitch * fb.height
  BY <1>1, <1>3, <1>4, <1>8, <1>9, InsideFramebuffer
<1>11. k % C = x /\ k \div C = y
  BY <1>8, DivMod
<1>12. Cell(k) = <<k % C, k \div C>>
  BY <1>4, Zenon DEF Cell
<1>13. Cell(k) = <<x, y>>
  BY <1>11, <1>12
<1> QED
  BY <1>2, <1>3, <1>5, <1>10, <1>13, Zenon

\* A write begins with all of its text to draw.
LEMMA WriteKept ==
  ASSUME ScreenInv, printing = << >>, NEW text \in Seq(Char), write_to_tui(text),
         UNCHANGED <<response, fb_intact, tui, screen, astray>>
  PROVE  ScreenInv'
<1>1. CASE UNCHANGED <<printing, asked>>
  BY <1>1 DEF ScreenInv, ScreenTypes, LeftToDraw, CursorCounts, DrawnShown, Drawn, Cells,
              Cell, fb
<1>2. CASE printing' = text /\ asked' = asked \o text
  <2>1. PICK a \in Nat, t \in Nat : a = Len(asked) /\ t = Len(text)
    BY DEF ScreenInv, ScreenTypes
  <2>2. /\ asked' \in Seq(Char) /\ Len(asked') = a + t
        /\ \A i \in 1 .. a + t : asked'[i] = IF i <= a THEN asked[i] ELSE text[i - a]
    BY <1>2, <2>1, ConcatProperties DEF ScreenInv, ScreenTypes
  <2>3. Drawn = a /\ Drawn' = a
    <3>1. Len(printing) = 0 /\ Len(printing') = t
      BY <1>2, <2>1
    <3> QED
      BY <2>1, <2>2, <3>1 DEF Drawn
  <2>4. \A i \in 1 .. t : text[i] = asked'[a + i]
    <3> SUFFICES ASSUME NEW i \in 1 .. t PROVE text[i] = asked'[a + i]
      OBVIOUS
    <3>1. a + i \in 1 .. a + t /\ ~ (a + i <= a) /\ (a + i) - a = i
      OBVIOUS
    <3> QED
      BY <2>2, <3>1, Zenon
  <2>5. \A n \in 1 .. a : asked'[n] = asked[n]
    <3> SUFFICES ASSUME NEW n \in 1 .. a PROVE asked'[n] = asked[n]
      OBVIOUS
    <3>1. n \in 1 .. a + t /\ n <= a
      OBVIOUS
    <3> QED
      BY <2>2, <3>1, Zenon
  <2>6. ScreenTypes'
    BY <1>2, <2>2 DEF ScreenInv, ScreenTypes, fb
  <2>7. LeftToDraw'
    <3>1. Len(printing') <= Len(asked')
      BY <1>2, <2>1, <2>2
    <3> QED
      BY <1>2, <2>1, <2>3, <2>4, <3>1, Zenon DEF LeftToDraw
  <2>8. CursorCounts'
    BY <2>3 DEF ScreenInv, CursorCounts
  <2>9. DrawnShown'
    <3>1. tui.fb # NULL /\ fb_intact =>
       /\ \A n \in 1 .. a :
            n <= Cells => <<Cell(n - 1)[1], Cell(n - 1)[2], asked[n]>> \in screen
       /\ a <= Cells => ~astray
      BY <2>3, Zenon DEF ScreenInv, DrawnShown
    <3>2. Cells' = Cells /\ \A n : Cell(n)' = Cell(n)
      BY DEF Cells, Cell
    <3> QED
      BY <2>3, <2>5, <3>1, <3>2 DEF DrawnShown
  <2> QED
    BY <2>6, <2>7, <2>8, <2>9 DEF ScreenInv
<1> QED
  BY <1>1, <1>2 DEF write_to_tui

\* A device just initialised has drawn nothing, and its cursor is at the start.
LEMMA DeviceKept ==
  ASSUME ScreenInv, UNCHANGED response, fb_intact' \in BOOLEAN, printing' = << >>,
         asked' = << >>, astray' = FALSE, tui' = [NoTui EXCEPT !.fb = fb]
  PROVE  ScreenInv'
<1>1. Drawn' = 0 /\ Len(printing') = 0 /\ Len(asked') = 0
  BY DEF Drawn
<1>2. tui' = [fb |-> fb, cursor_x |-> 0, cursor_y |-> 0] /\ fb' = fb
  BY DEF NoTui, fb
<1>3. tui'.fb = fb /\ tui'.cursor_x = 0 /\ tui'.cursor_y = 0
      /\ tui' \in [fb : {NULL, fb'}, cursor_x : Nat, cursor_y : Nat]
  <2>1. PICK f, F : f = fb /\ F = {NULL, fb'}
    OBVIOUS
  <2>2. f \in F
    BY <1>2, <2>1
  <2>3. [fb |-> f, cursor_x |-> 0, cursor_y |-> 0] \in [fb : F, cursor_x : Nat, cursor_y : Nat]
    BY <2>2
  <2>4. tui' = [fb |-> f, cursor_x |-> 0, cursor_y |-> 0]
    BY <1>2, <2>1, Zenon
  <2>5. tui'.fb = f /\ tui'.cursor_x = 0 /\ tui'.cursor_y = 0
    BY <2>4
  <2> QED
    BY <2>1, <2>3, <2>4, <2>5, Zenon
<1>4. ScreenTypes'
  BY <1>3 DEF ScreenInv, ScreenTypes
<1>5. LeftToDraw'
  BY <1>1 DEF LeftToDraw
<1>6. CursorCounts'
  <2> SUFFICES ASSUME fb # NULL, Columns(fb) > 0
               PROVE  0 < Columns(fb) /\ 0 = 0 * Columns(fb) + 0
    BY <1>1, <1>3 DEF CursorCounts
  <2>1. fb = response[1] /\ response # NULL /\ response # << >> /\ response \in FramebufferResponses
    BY DEF fb, ScreenInv, ScreenTypes
  <2>2. fb.width \in Nat /\ FONT.width \in Nat \ {0}
    BY <2>1, KernelMainAssumption, ConsoleAssumption
  <2>3. Columns(fb) \in Int
    BY <2>2 DEF Columns
  <2> QED
    BY <2>3
<1>7. DrawnShown'
  <2>1. \A n \in 1 .. Drawn' : FALSE
    BY <1>1
  <2>2. ~astray'
    OBVIOUS
  <2> QED
    BY <2>1, <2>2 DEF DrawnShown
<1> QED
  BY <1>4, <1>5, <1>6, <1>7 DEF ScreenInv

\* Steps that neither draw nor write, and may spoil the framebuffer's description.
LEMMA ScreenKept ==
  ASSUME ScreenInv, UNCHANGED <<response, tui, drawVars>>,
         fb_intact' \in BOOLEAN, fb_intact' => fb_intact
  PROVE  ScreenInv'
BY DEF ScreenInv, ScreenTypes, LeftToDraw, CursorCounts, DrawnShown, Drawn, Cells, Cell, fb,
       drawVars

\* The cursor at the start of a line.
LEMMA LineStart ==
  ASSUME NEW F, NEW t \in [fb : F, cursor_x : Nat, cursor_y : Nat], NEW y \in Nat
  PROVE  /\ [t EXCEPT !.cursor_x = 0, !.cursor_y = y]
              \in [fb : F, cursor_x : Nat, cursor_y : Nat]
         /\ [t EXCEPT !.cursor_x = 0, !.cursor_y = y].fb = t.fb
         /\ [t EXCEPT !.cursor_x = 0, !.cursor_y = y].cursor_x = 0
         /\ [t EXCEPT !.cursor_x = 0, !.cursor_y = y].cursor_y = y
OBVIOUS

\* A glyph goes to the next cell, and the cursor to the one after it.
LEMMA GlyphKept ==
  ASSUME RowsHoldPixels, ScreenInv, DrawGlyph, UNCHANGED response
  PROVE  ScreenInv'
<1> DEFINE c == Head(printing)
           inside == /\ fb_intact
                     /\ LastByte(tui.fb, tui.cursor_x, tui.cursor_y)
                          < tui.fb.pitch * tui.fb.height
<1>1. CASE UNCHANGED <<printing, screen, astray, tui, fb_intact, asked>>
  BY <1>1 DEF ScreenInv, ScreenTypes, LeftToDraw, CursorCounts, DrawnShown, Drawn, Cells,
              Cell, fb
<1>2. CASE /\ printing # << >> /\ printing' = Tail(printing)
           /\ screen' = IF inside THEN screen \cup {<<tui.cursor_x, tui.cursor_y, c>>}
                                  ELSE screen
           /\ astray' = (astray \/ ~inside) /\ tui' = Advanced(tui)
           /\ UNCHANGED <<fb_intact, asked>>
  <2>1. /\ printing \in Seq(Char) /\ asked \in Seq(Char)
        /\ tui \in [fb : {NULL, fb}, cursor_x : Nat, cursor_y : Nat]
        /\ response \in FramebufferResponses
    BY DEF ScreenInv, ScreenTypes
  <2>2. PICK a \in Nat, l \in Nat, k \in Nat :
          a = Len(asked) /\ l = Len(printing) /\ k = Drawn /\ k = a - l /\ l > 0
    <3>1. Len(printing) # 0
      BY <1>2, <2>1
    <3> QED
      BY <2>1, <3>1 DEF Drawn, ScreenInv, LeftToDraw
  <2>3. /\ Len(printing') = l - 1 /\ printing' \in Seq(Char) /\ Drawn' = k + 1
        /\ \A i \in 1 .. (l - 1) : printing'[i] = printing[i + 1]
    <3>1. /\ Len(printing') = l - 1 /\ printing' \in Seq(Char)
          /\ \A i \in 1 .. (l - 1) : printing'[i] = printing[i + 1]
      BY <1>2, <2>1, <2>2, HeadTailProperties
    <3> QED
      BY <1>2, <2>2, <3>1 DEF Drawn
  <2>4. \A i \in 1 .. l : printing[i] = asked[k + i]
    BY <2>2 DEF ScreenInv, LeftToDraw
  <2>5. c = asked[k + 1]
    <3>1. c = printing[1]
      BY <1>2, <2>1
    <3>2. 1 \in 1 .. l
      BY <2>2
    <3> QED
      BY <2>4, <3>1, <3>2
  <2>6. LeftToDraw'
    <3>1. \A i \in 1 .. (l - 1) : printing'[i] = asked[(k + 1) + i]
      <4> SUFFICES ASSUME NEW i \in 1 .. (l - 1) PROVE printing'[i] = asked[(k + 1) + i]
        OBVIOUS
      <4>1. i + 1 \in 1 .. l /\ k + (i + 1) = (k + 1) + i
        BY <2>2
      <4> QED
        BY <2>3, <2>4, <4>1, Zenon
    <3>2. Len(printing') <= Len(asked')
      BY <1>2, <2>2, <2>3
    <3> QED
      BY <1>2, <2>3, <3>1, <3>2, Zenon DEF LeftToDraw
  <2>7. /\ tui' \in [fb : {NULL, fb}, cursor_x : Nat, cursor_y : Nat] /\ tui'.fb = tui.fb
        /\ IF tui.cursor_x + 1 >= Columns(tui.fb)
             THEN tui'.cursor_x = 0 /\ tui'.cursor_y = tui.cursor_y + 1
             ELSE tui'.cursor_x = tui.cursor_x + 1 /\ tui'.cursor_y = tui.cursor_y
    <3>1. PICK f \in {NULL, fb}, x \in Nat, y \in Nat :
            tui = [fb |-> f, cursor_x |-> x, cursor_y |-> y]
      BY <2>1
    <3>2. tui.fb = f /\ tui.cursor_x = x /\ tui.cursor_y = y
      BY <3>1
    <3>3. tui' = IF x + 1 >= Columns(f)
                   THEN [tui EXCEPT !.cursor_x = 0, !.cursor_y = y + 1]
                   ELSE [tui EXCEPT !.cursor_x = x + 1]
      BY <1>2, <3>2, Zenon DEF Advanced
    <3>4. CASE x + 1 >= Columns(f)
      <4>1. tui' = [tui EXCEPT !.cursor_x = 0, !.cursor_y = y + 1]
        BY <3>3, <3>4, Zenon
      <4>2. PICK z \in Nat : z = y + 1
        OBVIOUS
      <4>3. PICK F : F = {NULL, fb}
        OBVIOUS
      <4>4. /\ tui' \in [fb : F, cursor_x : Nat, cursor_y : Nat]
            /\ tui'.fb = tui.fb /\ tui'.cursor_x = 0 /\ tui'.cursor_y = z
        BY <2>1, <4>1, <4>2, <4>3, LineStart
      <4> QED
        BY <3>2, <3>4, <4>2, <4>3, <4>4
    <3>5. CASE ~(x + 1 >= Columns(f))
      <4>1. tui' = [tui EXCEPT !.cursor_x = x + 1]
        BY <3>3, <3>5, Zenon
      <4>2. tui' \in [fb : {NULL, fb}, cursor_x : Nat, cursor_y : Nat]
        BY <2>1, <4>1
      <4>3. tui'.fb = f /\ tui'.cursor_x = x + 1 /\ tui'.cursor_y = y
        BY <2>1, <3>2, <4>1
      <4> QED
        BY <3>2, <3>5, <4>2, <4>3
    <3> QED
      BY <3>4, <3>5
  <2>8. ScreenTypes'
    <3>1. fb' = fb
      BY DEF fb
    <3> QED
      BY <1>2, <2>1, <2>3, <2>7, <3>1 DEF ScreenInv, ScreenTypes
  <2>9. CASE tui.fb = NULL
    BY <2>6, <2>7, <2>8, <2>9 DEF ScreenInv, CursorCounts, DrawnShown
  <2>10. CASE tui.fb # NULL
    <3>1. tui.fb = fb /\ fb # NULL /\ fb = response[1] /\ response # NULL /\ response # << >>
      BY <2>1, <2>10 DEF fb
    <3>2. PICK C \in Nat, R \in Nat : C = Columns(tui.fb) /\ R = tui.fb.height \div FONT.height
      <4>1. /\ fb.width \in Nat /\ FONT.width \in Nat \ {0}
            /\ fb.height \in Nat /\ FONT.height \in Nat \ {0}
        BY <2>1, <3>1, KernelMainAssumption, ConsoleAssumption
      <4>2. fb.width \div FONT.width \in Nat /\ fb.height \div FONT.height \in Nat
        BY <4>1, DivBelow
      <4> QED
        BY <3>1, <4>2 DEF Columns
    <3>3. PICK x \in Nat, y \in Nat : x = tui.cursor_x /\ y = tui.cursor_y
      BY <2>1
    <3>4. C > 0 => x < C /\ k = y * C + x
      BY <2>2, <2>10, <3>2, <3>3 DEF ScreenInv, CursorCounts
    <3>5. CursorCounts'
      <4> SUFFICES ASSUME C > 0
                   PROVE  /\ tui'.cursor_x < C
                          /\ k + 1 = tui'.cursor_y * C + tui'.cursor_x
        BY <2>3, <2>7, <3>2 DEF CursorCounts
      <4>1. CASE x + 1 >= C
        <5>1. tui'.cursor_x = 0 /\ tui'.cursor_y = y + 1
          BY <2>7, <3>2, <3>3, <4>1
        <5>2. x + 1 = C /\ k = y * C + x
          BY <3>4, <4>1
        <5>3. (y + 1) * C = y * C + C
          OBVIOUS
        <5>4. k + 1 = (y + 1) * C + 0
          <6>1. PICK m \in Nat : m = y * C
            OBVIOUS
          <6> QED
            BY <5>2, <5>3, <6>1
        <5> QED
          BY <5>1, <5>4
      <4>2. CASE ~(x + 1 >= C)
        <5>1. tui'.cursor_x = x + 1 /\ tui'.cursor_y = y
          BY <2>7, <3>2, <3>3, <4>2
        <5>2. x + 1 < C /\ k = y * C + x
          BY <3>4, <4>2
        <5>3. k + 1 = y * C + (x + 1)
          <6>1. PICK m \in Nat : m = y * C
            OBVIOUS
          <6> QED
            BY <5>2, <6>1
        <5> QED
          BY <5>1, <5>2, <5>3
      <4> QED
        BY <4>1, <4>2
    <3>6. DrawnShown'
      <4>1. Cells' = Cells /\ Cells = C * R /\ \A n : Cell(n)' = Cell(n)
        BY <2>7, <3>2 DEF Cells, Cell
      <4> SUFFICES ASSUME fb_intact
                   PROVE  /\ \A n \in 1 .. (k + 1) : n <= C * R =>
                               <<Cell(n - 1)[1], Cell(n - 1)[2], asked[n]>> \in screen'
                          /\ k + 1 <= C * R => ~astray'
        BY <1>2, <2>3, <4>1 DEF DrawnShown
      <4>2. /\ \A n \in 1 .. k : n <= C * R =>
                  <<Cell(n - 1)[1], Cell(n - 1)[2], asked[n]>> \in screen
            /\ k <= C * R => ~astray
        BY <2>2, <2>10, <4>1, Zenon DEF ScreenInv, DrawnShown
      <4>3. C * R \in Nat
        OBVIOUS
      <4>4. ASSUME k + 1 <= C * R
            PROVE  inside /\ Cell(k) = <<x, y>>
        <5>1. Drawn < Cells
          BY <2>2, <4>1, <4>3, <4>4
        <5>2. /\ LastByte(tui.fb, tui.cursor_x, tui.cursor_y) < tui.fb.pitch * tui.fb.height
              /\ Cell(Drawn) = <<tui.cursor_x, tui.cursor_y>>
          BY <2>10, <5>1, CellInside
        <5> QED
          BY <2>2, <3>3, <5>2, Zenon
      <4>5. screen \subseteq screen'
        BY <1>2
      <4>6. ASSUME k + 1 <= C * R
            PROVE  <<Cell(k)[1], Cell(k)[2], asked[k + 1]>> \in screen'
        <5>1. inside /\ Cell(k) = <<x, y>>
          BY <4>4, <4>6
        <5>2. Cell(k)[1] = x /\ Cell(k)[2] = y
          BY <5>1
        <5>3. <<tui.cursor_x, tui.cursor_y, c>> \in screen'
          BY <1>2, <5>1
        <5> HIDE DEF c
        <5> QED
          BY <2>5, <3>3, <5>2, <5>3, Zenon
      <4>7. ASSUME NEW n \in 1 .. (k + 1), n <= C * R
            PROVE  <<Cell(n - 1)[1], Cell(n - 1)[2], asked[n]>> \in screen'
        <5>1. CASE n = k + 1
          <6>1. n - 1 = k
            BY <5>1
          <6> QED
            BY <4>6, <4>7, <5>1, <6>1, Zenon
        <5>2. CASE n \in 1 .. k
          BY <4>2, <4>5, <4>7, <5>2, Zenon
        <5> QED
          BY <5>1, <5>2
      <4>8. k + 1 <= C * R => ~astray'
        <5>1. k + 1 <= C * R => k <= C * R
          BY <4>3
        <5> QED
          BY <1>2, <4>2, <4>4, <5>1
      <4> QED
        BY <4>7, <4>8
    <3> QED
      BY <2>6, <2>8, <3>5, <3>6 DEF ScreenInv
  <2> QED
    BY <2>9, <2>10
<1> QED
  BY <1>1, <1>2 DEF DrawGlyph

\* The invariant of the screen.
THEOREM SpecScreenInv == ASSUME RowsHoldPixels PROVE Spec => []ScreenInv
<1>1. Init => ScreenInv
  <2> SUFFICES ASSUME Init PROVE ScreenInv
    OBVIOUS
  <2>1. /\ response \in FramebufferResponses /\ fb_intact = TRUE /\ tui = NoTui
        /\ printing = << >> /\ asked = << >>
    BY DEF Init, ConsoleInit
  <2>2. tui.fb = NULL /\ Len(printing) = 0 /\ Len(asked) = 0
    BY <2>1 DEF NoTui
  <2> QED
    BY <2>1, <2>2 DEF ScreenInv, ScreenTypes, LeftToDraw, CursorCounts, DrawnShown, Drawn, NoTui
<1>2. RowsHoldPixels /\ ScreenInv /\ [Next]_vars => ScreenInv'
  <2> SUFFICES ASSUME RowsHoldPixels, ScreenInv, [Next]_vars PROVE ScreenInv'
    OBVIOUS
  <2>0. fb_intact \in BOOLEAN
    BY DEF ScreenInv, ScreenTypes
  <2>1. CASE Start \/ Log \/ bootinfo_capture \/ pmm_init \/ vmm_clone \/ hcf
    <3>1. UNCHANGED <<response, tui, drawVars, fb_intact>>
      BY <2>1 DEF Start, Log, bootinfo_capture, pmm_init, vmm_clone, hcf, bootVars, consoleVars,
                  deviceVars
    <3> QED
      BY <2>0, <3>1, ScreenKept
  <2>2. ASSUME HeapUsed
        PROVE  fb_intact' \in BOOLEAN /\ (fb_intact' => fb_intact)
    BY <2>0, <2>2 DEF HeapUsed
  <2>3. CASE kheap_init
    <3>1. UNCHANGED <<response, tui, drawVars>> /\ HeapUsed
      BY <2>3 DEF kheap_init, bootVars, deviceVars
    <3> QED
      BY <2>2, <3>1, ScreenKept
  <2>4. CASE init_font_format /\ HeapUsed /\ UNCHANGED bootVars
    <3>1. UNCHANGED <<response, tui, drawVars>> /\ HeapUsed
      BY <2>4 DEF init_font_format, bootVars, deviceVars
    <3> QED
      BY <2>2, <3>1, ScreenKept
  <2>5. CASE /\ init_tui_char_device(fb) /\ HeapUsed /\ UNCHANGED bootVars
             /\ printing = << >>
    <3>1. UNCHANGED <<response, printing, screen>> /\ HeapUsed
      BY <2>5 DEF init_tui_char_device, bootVars
    <3>2. \/ UNCHANGED <<tui, asked, astray>>
          \/ tui' = [NoTui EXCEPT !.fb = fb] /\ asked' = << >> /\ astray' = FALSE
      BY <2>5 DEF init_tui_char_device
    <3> QED
      BY <2>2, <2>5, <3>1, <3>2, ScreenKept, DeviceKept DEF drawVars
  <2>6. CASE /\ char_device_init \/ close_tui_char_device \/ close_psf2_font
             /\ UNCHANGED bootVars
    <3>1. UNCHANGED <<response, tui, drawVars, fb_intact>>
      BY <2>6 DEF char_device_init, close_tui_char_device, close_psf2_font, bootVars, deviceVars
    <3> QED
      BY <2>0, <3>1, ScreenKept
  <2>7. ASSUME NEW text \in Seq(Char), printf(text), UNCHANGED bootVars, printing = << >>
        PROVE  ScreenInv'
    <3>1. /\ write_to_tui(text)
          /\ UNCHANGED <<response, fb_intact, tui, screen, astray>>
      BY <2>7 DEF printf, bootVars, deviceVars
    <3> QED
      BY <2>7, <3>1, WriteKept
  <2>8. CASE read_from_tui /\ UNCHANGED bootVars /\ printing = << >>
    <3>1. PICK beyond \in Characters : write_to_tui(MESSAGE \o <<NUL, beyond>>)
      BY <2>8 DEF read_from_tui
    <3>2. MESSAGE \o <<NUL, beyond>> \in Seq(Char)
      <4>1. MESSAGE \in Seq(Char) /\ Characters \subseteq Char
        BY ConsoleAssumption DEF Char
      <4>2. NUL \in Char
        <5>1. beyond \in 0 .. (CHAR_MOD - 1) /\ CHAR_MOD \in Nat
          BY ConsoleAssumption
        <5> QED
          BY <5>1 DEF NUL, Char
      <4>3. <<NUL, beyond>> \in Seq(Char)
        BY <4>1, <4>2
      <4> QED
        BY <4>1, <4>3, ConcatProperties
    <3>3. UNCHANGED <<response, fb_intact, tui, screen, astray>>
      BY <2>8 DEF read_from_tui, bootVars, deviceVars
    <3> QED
      BY <2>8, <3>1, <3>2, <3>3, WriteKept
  <2>9. CASE Devices /\ UNCHANGED <<bootVars, memoryVars, calls, serialVars>>
    <3>1. printing = << >>
      BY <2>9 DEF Devices, Step
    <3>2. GREETING \in Seq(Char)
      BY KernelMainAssumption DEF Char
    <3> QED
      BY <2>4, <2>5, <2>6, <2>7, <2>9, <3>1, <3>2 DEF Devices
  <2>10. CASE Later /\ calls' = calls + 1 /\ UNCHANGED <<bootVars, memoryVars, serialVars>>
    <3>1. printing = << >>
      BY <2>10 DEF Later, Step
    <3>2. \A text \in Texts : text \in Seq(Char)
      BY KernelMainAssumption DEF Char
    <3> QED
      BY <2>4, <2>5, <2>6, <2>7, <2>8, <2>10, <3>1, <3>2 DEF Later
  <2>11. CASE DrawGlyph /\ UNCHANGED <<pc, bootVars, memoryVars, calls, serialVars>>
    BY <2>11, GlyphKept DEF bootVars
  <2>12. CASE UNCHANGED <<bootVars, consoleVars>>
    <3>1. UNCHANGED <<response, tui, drawVars, fb_intact>>
      BY <2>12 DEF bootVars, consoleVars, deviceVars
    <3> QED
      BY <2>0, <3>1, ScreenKept
  <2> QED
    BY <2>1, <2>3, <2>9, <2>10, <2>11, <2>12 DEF Next, Cpu, Port, Stopped, vars
<1> QED
  BY <1>1, <1>2, PTL DEF Spec

(* A device's text stands on the screen from its first cell on, in order   *)
(* and one character a cell, whatever the sizes of the screen and the font *)
(* (tui_device.c:37-41), provided a row of pixels has room for its last.   *)
THEOREM ScreenCorrect == ASSUME RowsHoldPixels PROVE Spec => []ScreenShowsText
<1>1. ScreenInv => ScreenShowsText
  <2> SUFFICES ASSUME ScreenInv, tui.fb # NULL, fb_intact
               PROVE  Shows(SubSeq(asked, 1, Drawn)) /\ (Drawn <= Cells => ~astray)
    BY Zenon DEF ScreenShowsText
  <2>1. asked \in Seq(Char) /\ Drawn \in Nat /\ Drawn <= Len(asked)
    <3>1. asked \in Seq(Char) /\ printing \in Seq(Char) /\ Len(printing) <= Len(asked)
      BY DEF ScreenInv, ScreenTypes, LeftToDraw
    <3> QED
      BY <3>1 DEF Drawn
  <2>2. PICK d \in Nat, s \in Seq(Char) : d = Drawn /\ s = SubSeq(asked, 1, Drawn)
    <3>1. PICK d \in Nat : d = Drawn /\ d <= Len(asked)
      BY <2>1
    <3>2. SubSeq(asked, 1, d) \in Seq(Char)
      BY <2>1, <3>1
    <3> QED
      BY <3>1, <3>2
  <2>3. Len(s) = d /\ DOMAIN s = 1 .. d /\ \A n \in 1 .. d : s[n] = asked[n]
    BY <2>1, <2>2
  <2>4. /\ \A n \in 1 .. d :
             n <= Cells => <<Cell(n - 1)[1], Cell(n - 1)[2], asked[n]>> \in screen
        /\ d <= Cells => ~astray
    BY <2>2, Zenon DEF ScreenInv, DrawnShown
  <2>5. Shows(s)
    BY <2>3, <2>4, Zenon DEF Shows
  <2> QED
    BY <2>2, <2>3, <2>4, <2>5, Zenon
<1> QED
  BY <1>1, SpecScreenInv, PTL

-----------------------------------------------------------------------------
(***************************************************************************)
(* The reasons of the faults                                               *)
(***************************************************************************)

\* What is drawn is drawn on a framebuffer, and a pixel behind it faults only
\* where FaultExplained says.
PixelInv ==
  /\ printing # << >> => tui.fb # NULL
  /\ fault = "pixel" => ~fb_intact \/ Drawn >= Cells

\* Steps that neither write nor draw, nor fault at a pixel.
LEMMA PixelKept ==
  ASSUME PixelInv, fault # "pixel", fault' # "pixel", UNCHANGED printing,
         printing = << >> \/ UNCHANGED tui
  PROVE  PixelInv'
BY DEF PixelInv

\* A pixel lies behind the framebuffer only when there is no cell left.
LEMMA PixelDrawn ==
  ASSUME RowsHoldPixels, ScreenInv, PixelInv, DrawGlyph
  PROVE  PixelInv'
<1>1. printing # << >> /\ fault = "none" /\ tui.fb # NULL
  BY DEF DrawGlyph, PixelInv
<1>2. CASE UNCHANGED fault /\ tui' = Advanced(tui)
  <2>1. tui'.fb = tui.fb
    BY <1>2 DEF Advanced, ScreenInv, ScreenTypes
  <2> QED
    BY <1>1, <1>2, <2>1 DEF PixelInv
<1>3. CASE fault' = "glyph" /\ UNCHANGED tui
  BY <1>1, <1>3 DEF PixelInv
<1>4. CASE /\ fault' = "pixel" /\ UNCHANGED <<printing, asked, tui, fb_intact>>
           /\ ~(/\ fb_intact
                /\ LastByte(tui.fb, tui.cursor_x, tui.cursor_y)
                     < tui.fb.pitch * tui.fb.height)
  <2>1. ~fb_intact \/ ~(Drawn < Cells)
    BY <1>1, <1>4, CellInside
  <2>2. Drawn \in Int /\ (tui.fb = fb) /\ Cells \in Int
    <3>1. /\ printing \in Seq(Char) /\ asked \in Seq(Char)
          /\ tui.fb \in {NULL, fb} /\ response \in FramebufferResponses
      BY DEF ScreenInv, ScreenTypes
    <3>2. /\ tui.fb = fb /\ fb = response[1] /\ response # NULL /\ response # << >>
      BY <1>1, <3>1 DEF fb
    <3>3. /\ tui.fb.width \in Nat /\ FONT.width \in Nat \ {0}
          /\ tui.fb.height \in Nat /\ FONT.height \in Nat \ {0}
      BY <3>1, <3>2, KernelMainAssumption, ConsoleAssumption
    <3>4. tui.fb.width \div FONT.width \in Nat /\ tui.fb.height \div FONT.height \in Nat
      BY <3>3, DivBelow
    <3>5. Cells \in Int
      BY <3>4 DEF Cells, Columns
    <3> QED
      BY <3>1, <3>2, <3>5 DEF Drawn
  <2>3. ~fb_intact \/ Drawn >= Cells
    BY <2>1, <2>2
  <2>4. Drawn' = Drawn /\ Cells' = Cells
    BY <1>4 DEF Drawn, Cells, Columns
  <2> QED
    BY <1>1, <1>4, <2>3, <2>4 DEF PixelInv
<1> QED
  BY <1>2, <1>3, <1>4 DEF DrawGlyph, deviceVars, fontVars, heapVars

\* The invariant of the pixels; it rests on ScreenInv.
LEMMA SpecPixelInv == ASSUME RowsHoldPixels PROVE Spec => []PixelInv
<1>1. Init => PixelInv
  BY DEF Init, ConsoleInit, PixelInv
<1>2. RowsHoldPixels /\ ScreenInv /\ PixelInv /\ [Next]_vars => PixelInv'
  <2> SUFFICES ASSUME RowsHoldPixels, ScreenInv, PixelInv, [Next]_vars PROVE PixelInv'
    OBVIOUS
  <2>1. CASE Start \/ Log \/ bootinfo_capture \/ pmm_init \/ vmm_clone \/ kheap_init \/ hcf
    <3>1. /\ UNCHANGED <<printing, tui>> /\ fault = "none"
          /\ fault' \in {"none", "bitmap"}
      BY <2>1 DEF Start, Log, bootinfo_capture, pmm_init, vmm_clone, kheap_init, hcf, Step,
                  consoleVars, deviceVars, drawVars
    <3> QED
      BY <3>1, PixelKept
  <2>2. ASSUME NEW text, write_to_tui(text), UNCHANGED tui, printing = << >>, fault = "none"
        PROVE  PixelInv'
    <3>1. fault' # "pixel"
      BY <2>2 DEF write_to_tui, Access
    <3>2. UNCHANGED printing \/ tui.fb # NULL
      BY <2>2 DEF write_to_tui
    <3> QED
      BY <2>2, <3>1, <3>2 DEF PixelInv
  <2>3. CASE /\ printing = << >> /\ fault = "none"
             /\ \/ init_font_format \/ char_device_init \/ close_tui_char_device
                \/ close_psf2_font \/ init_tui_char_device(fb)
    <3>1. UNCHANGED printing
      BY <2>3 DEF init_font_format, char_device_init, close_tui_char_device, close_psf2_font,
                  init_tui_char_device, drawVars
    <3>2. fault' # "pixel"
      BY <2>3 DEF init_font_format, char_device_init, close_tui_char_device, close_psf2_font,
                  init_tui_char_device, Access
    <3> QED
      BY <2>3, <3>1, <3>2, PixelKept
  <2>4. CASE Devices \/ Later
    <3>1. printing = << >> /\ fault = "none"
      BY <2>4 DEF Devices, Later, Step
    <3>2. ASSUME NEW text, printf(text) PROVE PixelInv'
      BY <2>2, <3>1, <3>2 DEF printf, deviceVars
    <3>3. CASE read_from_tui
      BY <2>2, <3>1, <3>3 DEF read_from_tui, deviceVars
    <3> QED
      BY <2>3, <2>4, <3>1, <3>2, <3>3 DEF Devices, Later
  <2>5. CASE DrawGlyph
    BY <2>5, PixelDrawn
  <2>6. CASE UNCHANGED consoleVars
    BY <2>6 DEF PixelInv, consoleVars, deviceVars, drawVars, Drawn, Cells, Columns
  <2> QED
    BY <2>1, <2>4, <2>5, <2>6 DEF Next, Cpu, Port, Stopped, vars
<1> QED
  BY <1>1, <1>2, SpecScreenInv, PTL DEF Spec

(* No access faults but for a reason of its own: for every font, whatever  *)
(* the framebuffer, the texts and the failures of kmalloc, and any number  *)
(* of calls after the boot, the device's block is not used once it is      *)
(* freed (tui_device.c:74-79), what is called was set unless kmalloc had   *)
(* nothing for the device, what is freed was allocated unless no font was  *)
(* made, what is drawn is in the font unless that is missing or closed or  *)
(* lacks the character, and a pixel lies inside the framebuffer until the  *)
(* screen is full or the description of it is overwritten; provided a row  *)
(* of pixels has room for its last.                                        *)
THEOREM FaultExplainedCorrect == ASSUME RowsHoldPixels PROVE Spec => []FaultExplained
<1>1. IInv /\ PixelInv => FaultExplained
  BY DEF IInv, Explained, PixelInv, FaultExplained
<1> QED
  BY <1>1, SpecIInv, SpecPixelInv, PTL
=============================================================================
