------------------------------- MODULE Console ------------------------------
(***************************************************************************)
(* The console: src/drivers/char_device (a text device on a framebuffer),  *)
(* src/drivers/font (the PSF2 font it draws with) and printf of            *)
(* src/libs/stdio.c, whose text is taken as formatted.                     *)
(*                                                                         *)
(* A glyph is drawn whole or, when one of its pixels lies behind the       *)
(* framebuffer, counted as astray.  Pixels are only ever switched on, so a *)
(* cell shows every glyph drawn in it.  A block of the heap is a number,   *)
(* and kmalloc may fail at any call; what is called or read through a bad  *)
(* pointer, or from a block given back, is a fault of that access, and so  *)
(* is such a pointer's kfree.                                              *)
(***************************************************************************)
EXTENDS Integers, Sequences, FiniteSets

CONSTANTS
  NULL,
  Junk,      \* the value of memory nobody has written
  Characters,\* what a char may hold, as unsigned; CHAR_MOD values
  CHAR_MOD,
  CODE_MOD,  \* values of a uint32_t
  FONT,      \* the embedded font: valid, numglyph, height, width
  MESSAGE    \* read_from_tui's message

ASSUME ConsoleAssumption ==
  /\ NULL \notin Nat /\ Junk \notin Nat \cup {NULL}
  /\ CHAR_MOD \in Nat /\ CODE_MOD \in Nat /\ CHAR_MOD <= CODE_MOD
  /\ Characters \subseteq 0 .. (CHAR_MOD - 1)
  /\ MESSAGE \in Seq(0 .. (CHAR_MOD - 1))
  /\ FONT.numglyph \in Nat /\ FONT.height \in Nat \ {0} /\ FONT.width \in Nat \ {0}

NUL == 0

VARIABLES
  heap, blocks,  \* the blocks in use and the number handed out
  global_font,   \* NULL or a block, whose fields are in `font`
  font,          \* data, glyph_buffer, and whether the functions are set
  init_char_device,  \* whether the function pointers are set
  console,       \* whether write and read are set, and the block of its data
  tui,           \* the console's data: framebuffer and cursor
  fb_intact,     \* whether the framebuffer's description is what it was
  printing,      \* what the write in progress has left to draw
  asked,         \* what was written since the device was initialised
  screen, astray,\* the glyphs drawn, <<x, y, char>>, and one drawn elsewhere
  fault,         \* the access at which the processor took an exception, or the
                 \* bad pointer that was freed; "none" until then
  missing        \* history: "font" or "device", while the last call to make one
                 \* failed, and "font" once it is closed

heapVars == <<heap, blocks>>
fontVars == <<global_font, font>>
deviceVars == <<init_char_device, console, tui>>
drawVars == <<printing, asked, screen, astray>>
consoleVars == <<heapVars, fontVars, deviceVars, fb_intact, drawVars, fault, missing>>

NoTui == [fb |-> NULL, cursor_x |-> 0, cursor_y |-> 0]

ConsoleInit ==
  /\ heap = {} /\ blocks = 0
  /\ global_font = NULL
  /\ font = [data |-> Junk, glyph_buffer |-> Junk, set |-> FALSE]
  /\ init_char_device = FALSE
  /\ console = [set |-> FALSE, data |-> NULL] /\ tui = NoTui
  /\ fb_intact = TRUE
  /\ printing = << >> /\ asked = << >> /\ screen = {} /\ astray = FALSE
  /\ fault = "none" /\ missing = {}

-----------------------------------------------------------------------------
(***************************************************************************)
(* Memory                                                                  *)
(***************************************************************************)

\* What the n-th kmalloc from here on may return.
kmalloc(n) == {NULL, blocks + n}

\* The heap after `got` came from kmalloc and `freed` went to kfree.
Heap(got, freed) ==
  /\ heap' = (heap \cup got) \ (freed \cup {NULL})
  /\ blocks' = blocks + Cardinality(got \ {NULL})

\* A block's memory is read, or goes to kfree.
Access(block, name) == fault' = IF block \in heap THEN fault ELSE name

\* A call to make `what` is through, and failed or not.
Makes(what, failed) == missing' = IF failed THEN missing \cup {what} ELSE missing \ {what}

-----------------------------------------------------------------------------
(***************************************************************************)
(* The font                                                                *)
(***************************************************************************)

\* init_psf2_font's writes to a font f, given its two blocks.
FontAfter(f, header, glyphs) ==
  IF header = NULL \/ ~FONT.valid THEN f
  ELSE IF glyphs = NULL THEN [f EXCEPT !.glyph_buffer = NULL]
  ELSE [data |-> header, glyph_buffer |-> glyphs, set |-> TRUE]

(* init_psf2_font on a font whose fields are f.  The block of the header   *)
(* goes back if it fails; those of an earlier call are forgotten if not.   *)
init_psf2_font(f, mine) ==
  LET n == Cardinality(mine)
  IN  \E header \in kmalloc(n + 1), glyphs \in kmalloc(n + 2) :
        LET asks   == header # NULL /\ FONT.valid   \* gets as far as the glyphs
            failed == ~asks \/ glyphs = NULL
        IN  /\ ~asks => glyphs = NULL
            /\ font' = FontAfter(f, header, glyphs)
            /\ Heap(mine \cup {header, glyphs}, IF failed THEN {header} ELSE {})
            /\ Makes("font", failed)

\* init_font_format: the result of init_psf2_font is not looked at.
init_font_format ==
  /\ \/ /\ global_font = NULL
        /\ \/ /\ UNCHANGED <<global_font, font, heapVars>>
              /\ Makes("font", TRUE)
           \/ /\ global_font' = blocks + 1
              /\ init_psf2_font(font, {blocks + 1})
     \/ /\ global_font # NULL
        /\ UNCHANGED global_font
        /\ init_psf2_font(font, {})
  /\ UNCHANGED <<deviceVars, drawVars, fault>>

(* close_psf2_font(global_font); after a failed initialisation the data it *)
(* frees is whatever the block held before.                                *)
close_psf2_font ==
  /\ \/ /\ global_font = NULL \/ font.data = NULL
        /\ UNCHANGED <<heapVars, font, fault, missing>>
     \/ /\ global_font # NULL /\ font.data # NULL
        /\ Heap({}, {font.data})
        /\ Access(font.data, "kfree of the font")
        /\ font' = [font EXCEPT !.data = NULL]
        /\ missing' = IF font.data \in heap THEN missing \cup {"font"} ELSE missing
  /\ UNCHANGED <<global_font, deviceVars, fb_intact, drawVars>>

\* A glyph can be had of the font as it is.
FontUsable == global_font # NULL /\ font.set /\ font.data \in heap

\* (uint32_t)buf[i]: a char is signed.
Codepoint(c) == IF c < CHAR_MOD \div 2 THEN c ELSE c + CODE_MOD - CHAR_MOD

\* psf2_get_bitmap_for_glyph returns something that can be read.
HasGlyph(c) == Codepoint(c) < FONT.numglyph /\ font.glyph_buffer # NULL

-----------------------------------------------------------------------------
(***************************************************************************)
(* The device                                                              *)
(***************************************************************************)

char_device_init ==
  /\ init_char_device' = TRUE
  /\ UNCHANGED <<heapVars, fontVars, console, tui, fb_intact, drawVars, fault, missing>>

(* init_char_device(&console, fb), a call through a pointer that must have *)
(* been set.  An earlier record of the device is forgotten; without memory *)
(* the device stays as it was.                                             *)
init_tui_char_device(fb) ==
  /\ fault' = IF init_char_device THEN fault ELSE "call"
  /\ \E p \in IF init_char_device THEN kmalloc(1) ELSE {NULL} :
       /\ Heap({p}, {})
       /\ Makes("device", init_char_device /\ p = NULL)
       /\ \/ p = NULL /\ UNCHANGED <<console, tui, asked, astray>>
          \/ /\ p # NULL
             /\ console' = [set |-> TRUE, data |-> p]
             /\ tui' = [NoTui EXCEPT !.fb = fb]
             /\ asked' = << >> /\ astray' = FALSE
  /\ UNCHANGED <<fontVars, init_char_device, printing, screen>>

\* A close that leaves the pointer to what it has freed.
Closed_DataKept(dev) == dev

Closed(dev) == [dev EXCEPT !.data = NULL]

\* close_char_device(&console): write and read stay set.
close_tui_char_device ==
  /\ init_char_device
  /\ \/ console.data = NULL /\ UNCHANGED <<heapVars, console, fault>>
     \/ /\ console.data # NULL
        /\ Heap({}, {console.data})
        /\ Access(console.data, "kfree of the device")
        /\ console' = Closed(console)
  /\ UNCHANGED <<fontVars, init_char_device, tui, fb_intact, drawVars, missing>>

(* console.write(&console, text, Len(text)) up to its loop: nothing is     *)
(* drawn on a device that is closed or has no framebuffer.                 *)
write_to_tui(text) ==
  /\ \/ ~console.set /\ fault' = "call" /\ UNCHANGED <<printing, asked>>
     \/ console.set /\ console.data = NULL /\ UNCHANGED <<printing, asked, fault>>
     \/ /\ console.set /\ console.data # NULL
        /\ Access(console.data, "device")
        /\ \/ tui.fb = NULL /\ UNCHANGED <<printing, asked>>
           \/ tui.fb # NULL /\ printing' = text /\ asked' = asked \o text

\* printf, of a text that fits its buffer.
printf(text) ==
  /\ write_to_tui(text)
  /\ UNCHANGED <<heapVars, fontVars, deviceVars, fb_intact, screen, astray, missing>>

(* console.read(&console, buf, count): the message, the 0 behind it and    *)
(* the byte behind that.                                                   *)
read_from_tui ==
  /\ \E beyond \in Characters : write_to_tui(MESSAGE \o <<NUL, beyond>>)
  /\ UNCHANGED <<heapVars, fontVars, deviceVars, fb_intact, screen, astray, missing>>

-----------------------------------------------------------------------------
(***************************************************************************)
(* Drawing                                                                 *)
(***************************************************************************)

Columns(fb) == fb.width \div FONT.width

\* Where the last byte of the glyph at a cursor position goes: a pixel is
\* stored as four bytes whatever its size is.
LastByte(fb, x, y) ==
  ((y + 1) * FONT.height - 1) * fb.pitch
    + ((x + 1) * FONT.width - 1) * (fb.bpp \div 8) + 3

\* A line that is one glyph longer than the framebuffer is wide.
Advanced_Late(t) ==
  IF t.cursor_x + 1 > Columns(t.fb)
    THEN [t EXCEPT !.cursor_x = 0, !.cursor_y = @ + 1]
    ELSE [t EXCEPT !.cursor_x = @ + 1]

\* The cursor after a glyph.
Advanced(t) ==
  IF t.cursor_x + 1 >= Columns(t.fb)
    THEN [t EXCEPT !.cursor_x = 0, !.cursor_y = @ + 1]
    ELSE [t EXCEPT !.cursor_x = @ + 1]

(* One turn of write_to_tui's loop, and its end at a fault: there is no    *)
(* glyph to be had, or a pixel lies behind the framebuffer and nothing is  *)
(* mapped there.  With its description overwritten it may be anywhere.     *)
DrawGlyph ==
  LET c == Head(printing)
      x == tui.cursor_x
      y == tui.cursor_y
      inside == fb_intact /\ LastByte(tui.fb, x, y) < tui.fb.pitch * tui.fb.height
  IN  /\ printing # << >> /\ fault = "none"
      /\ \/ /\ FontUsable /\ HasGlyph(c)
            /\ screen' = IF inside THEN screen \cup {<<x, y, c>>} ELSE screen
            /\ astray' = (astray \/ ~inside)
            /\ tui' = Advanced(tui)
            /\ printing' = Tail(printing)
            /\ UNCHANGED fault
         \/ /\ \/ ~(FontUsable /\ HasGlyph(c)) /\ fault' = "glyph"
               \/ FontUsable /\ HasGlyph(c) /\ ~inside /\ fault' = "pixel"
            /\ UNCHANGED <<printing, screen, astray, tui>>
      /\ UNCHANGED <<heapVars, fontVars, init_char_device, console, fb_intact, asked, missing>>

-----------------------------------------------------------------------------
(***************************************************************************)
(* Properties                                                              *)
(***************************************************************************)

\* The cell of the n-th character, counted from 0.
Cell(n) == <<n % Columns(tui.fb), n \div Columns(tui.fb)>>
Cells == Columns(tui.fb) * (tui.fb.height \div FONT.height)

\* How much of what it was asked for the device has drawn.
Drawn == Len(asked) - Len(printing)

\* The text is on the screen, as much of it as fits.
Shows(text) ==
  \A n \in DOMAIN text :
    n <= Cells => <<Cell(n - 1)[1], Cell(n - 1)[2], text[n]>> \in screen

(* A device's text stands on the screen from its first cell on, in order   *)
(* and one character a cell, as far as the screen reaches; and nothing is  *)
(* drawn behind the framebuffer before the screen is full                  *)
(* (tui_device.c:31 and :37-41).                                           *)
ScreenShowsText ==
  console.set /\ tui.fb # NULL /\ fb_intact =>
    /\ Shows(SubSeq(asked, 1, Drawn))
    /\ Drawn <= Cells => ~astray

(* No access of the console and the font faults but for a reason of its    *)
(* own, as things stand when the access comes (a fault for want of the     *)
(* frame bitmap is PMM's).  However often the device is closed and made    *)
(* again, its block is never read or freed after it has gone back to the   *)
(* heap (tui_device.c:74-79).  A pointer that was never set is called only *)
(* if kmalloc had nothing for the device (tui_device.c:62); data that was  *)
(* never allocated is freed only if no font was ever made (psf2.c:81); no  *)
(* glyph is there to be read only if the last call failed to make the font *)
(* (font.c:17), the font was closed since, or it lacks the character; and  *)
(* a pixel lies behind the framebuffer only if the screen is full          *)
(* (tui_device.c:40) or the framebuffer's description is overwritten, as   *)
(* it may be after memory.c:23.                                            *)
FaultExplained ==
  /\ fault \notin {"device", "kfree of the device"}
  /\ fault = "call" => "device" \in missing
  /\ fault = "kfree of the font" => ~font.set
  /\ fault = "glyph" => "font" \in missing \/ Codepoint(Head(printing)) >= FONT.numglyph
  /\ fault = "pixel" => ~fb_intact \/ Drawn >= Cells
=============================================================================
