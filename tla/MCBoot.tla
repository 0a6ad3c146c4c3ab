-------------------------------- MODULE MCBoot --------------------------------
(* The stack slots have two base-8 bytes and .bss lies below address 64.  The *)
(* screen has 3 by 2 pixels in rows of 6 words; a page has 8 words, so the    *)
(* framebuffer fills one page and a half.  A colour channel has two values.   *)
EXTENDS Boot

MCBases == {0, 5}
MCBssSizes == 14 .. 26
MCWords == 0 .. 11
MCColors == {<<1, 0, 1>>}

\* An image of two colours with transparent pixels among them.  A pixel is
\* alpha * 8 + red * 4 + green * 2 + blue.
MCImages == {[i \in 0 .. 15 |-> IF i % 3 = 2 THEN 5 ELSE IF i % 2 = 0 THEN 8 + 6 ELSE 8 + 1]}

Good == [revision_supported |-> TRUE, framebuffer_count |-> 1, memmap |-> TRUE, hhdm |-> TRUE, address |-> TRUE,
         memory_suffices |-> TRUE, total_frames |-> 4, memory_model |-> 1, fb_phys |-> 128, fb_free |-> FALSE]

\* The framebuffer behind memory, at its end and inside it, at a page and not; and
\* each check that may fail.
MCResponses ==
  {Good, [Good EXCEPT !.fb_phys = 132], [Good EXCEPT !.fb_phys = 104], [Good EXCEPT !.fb_phys = 96],
   [Good EXCEPT !.fb_phys = 32, !.fb_free = TRUE], [Good EXCEPT !.fb_phys = 36],
   [Good EXCEPT !.memory_model = 0], [Good EXCEPT !.memory_suffices = FALSE],
   [Good EXCEPT !.revision_supported = FALSE], [Good EXCEPT !.framebuffer_count = 0],
   [Good EXCEPT !.memmap = FALSE], [Good EXCEPT !.hhdm = FALSE], [Good EXCEPT !.address = FALSE]}
===============================================================================
