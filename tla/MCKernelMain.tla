---------------------------- MODULE MCKernelMain ----------------------------
(***************************************************************************)
(* KernelMain with glyphs of two by two pixels on framebuffers with room   *)
(* for four of them, for two and for none, the greeting being three        *)
(* characters: "H", "i" and "\n" are 1, 2 and 3.                           *)
(***************************************************************************)
EXTENDS KernelMain

CharNewline == 3
CharForeign == 6   \* above 127 in the code, and negative

MCFont == [valid |-> TRUE, numglyph |-> 4, height |-> 2, width |-> 2]
MCMessage == <<2, CharNewline>>
MCGreeting == <<1, 2, CharNewline>>
MCTexts == {<<2, 1>>, <<CharForeign>>}
MCCharacters == {1, CharForeign}

Framebuffer(w, h) == [width |-> w, height |-> h, pitch |-> 24, bpp |-> 32]
MCResponses ==
  {NULL, << >>, <<Framebuffer(5, 4)>>, <<Framebuffer(4, 3), Framebuffer(5, 4)>>,
   <<Framebuffer(5, 1)>>}

\* The last two are longer than the table, which has room for two regions.
MCMemoryMaps ==
  {NULL, <<"RECLAIMABLE">>, <<"USABLE", "RECLAIMABLE">>,
   <<"USABLE", "OTHER", "RECLAIMABLE">>, <<"OTHER", "RECLAIMABLE", "USABLE">>}

ASSUME FramebuffersMeetCondition ==
  FramebufferResponses = MCResponses => RowsHoldPixels
=============================================================================
