--------------------------------- MODULE Boot ---------------------------------
(***************************************************************************)
(* The way from _start to the halt, src/kernel_entry.c: .bss is cleared    *)
(* (BssClear), the answers of the boot loader are checked, the segment     *)
(* descriptors (src/cpu/gdt.c, gdt.asm) and the interrupt gates are        *)
(* loaded, the page tables are built, and the screen is mapped and cleared *)
(* (Framebuffer).  A store to a page that is not mapped raises a page      *)
(* fault, which isr_handler turns into a panic; a panic clears the screen. *)
(*                                                                         *)
(* The console, the frames and the page tables themselves are modelled in  *)
(* modules of their own; here a page of physical memory is mapped (at its  *)
(* place in the higher half) or it is not.                                 *)
(***************************************************************************)
EXTENDS Mm, BssClear, Framebuffer

CONSTANTS
  Responses,   \* what the boot loader may have answered
  StackDepth   \* the page faults, one inside the other, that the stack has room for

VARIABLES
  response,    \* the answers in use
  gdt,         \* the kernel's descriptors
  gdtr, idtr,  \* whose tables the processor uses: "limine" or "kernel"
  selector,    \* the segment registers
  mapped,      \* the physical pages mapped in the higher half
  faults       \* the page faults so far

cpuVars == <<gdt, gdtr, idtr, selector>>
vars == <<bssVars, fbVars, cpuVars, response, mapped, faults>>

\* Limine hands over with descriptors, gates and page tables of its own.
Init ==
  /\ BssInit /\ FbInit
  /\ response = {}
  /\ gdt = <<>> /\ gdtr = "limine" /\ idtr = "limine"
  /\ selector = [r \in {"cs", "ds", "es", "fs", "gs", "ss"} |-> IF r = "cs" THEN 40 ELSE 48]
  /\ mapped = {} /\ faults = 0

\* From here on .bss belongs to the static variables, which are modelled where they
\* are used: what it holds is not followed any further.
ForgetBss == mem' = [a \in {} |-> 0] /\ bss_start' = 0 /\ bss_size' = 0 /\ frame' = 0

validate_limine_or_halt ==
  /\ pc = "kmain"
  /\ ForgetBss
  /\ \E r \in Responses :
       /\ response' = {r}
       /\ pc' = IF r.revision_supported /\ r.framebuffer_count >= 1 /\ r.memmap /\ r.hhdm /\ r.address
                THEN "gdt" ELSE "halted"
  /\ UNCHANGED <<fbVars, cpuVars, mapped, faults>>

Response == CHOOSE r \in response : TRUE

-------------------------------------------------------------------------------
(* Segments *)

\* A packed descriptor, without the base, which is 0.
gdt_set_entry(limit, access, gran) ==
  [limit_low |-> limit % 2^16,
   granularity |-> ((limit \div 2^16) % 16) + 16 * ((gran \div 16) % 16),
   access_byte |-> access]

\* gdt_init, up to the lgdt of _gdt_flush.
gdt_init ==
  /\ pc = "gdt"
  /\ gdt' = << gdt_set_entry(0, 0, 0),
               gdt_set_entry(2^20 - 1, 154, 160), gdt_set_entry(2^20 - 1, 146, 192),
               gdt_set_entry(2^20 - 1, 250, 160), gdt_set_entry(2^20 - 1, 242, 192) >>
  /\ gdtr' = "kernel" /\ pc' = "retfq"
  /\ UNCHANGED <<mem, bss_start, bss_size, frame, fbVars, idtr, selector, response, mapped, faults>>

Bit(n, k) == (n \div 2^k) % 2 = 1

\* What the processor wants of a selector that is loaded in ring 0: a present
\* segment of this ring, for cs one with 64-bit code, for ss a writable one.
Usable(sel, code) ==
  IF gdtr = "limine" THEN sel = (IF code THEN 40 ELSE 48)
  ELSE /\ sel % 8 = 0 /\ (sel \div 8) + 1 \in DOMAIN gdt
       /\ LET d == gdt[(sel \div 8) + 1]
          IN /\ Bit(d.access_byte, 7) /\ Bit(d.access_byte, 4)
             /\ ~Bit(d.access_byte, 6) /\ ~Bit(d.access_byte, 5)
             /\ IF code THEN Bit(d.access_byte, 3) /\ Bit(d.granularity, 5) /\ ~Bit(d.granularity, 6)
                        ELSE ~Bit(d.access_byte, 3) /\ Bit(d.access_byte, 1)

\* retfq to 0x8:.reload_segments
retfq ==
  /\ pc = "retfq"
  /\ pc' = IF Usable(8, TRUE) THEN "reload" ELSE "lost"
  /\ selector' = [selector EXCEPT !["cs"] = 8]
  /\ UNCHANGED <<mem, bss_start, bss_size, frame, fbVars, gdt, gdtr, idtr, response, mapped, faults>>

\* Mutant: ss keeps the selector of the boot loader.
reload_segments_but_ss ==
  /\ pc = "reload"
  /\ pc' = IF Usable(16, FALSE) THEN "idt" ELSE "lost"
  /\ selector' = [r \in DOMAIN selector |-> IF r \in {"cs", "ss"} THEN selector[r] ELSE 16]
  /\ UNCHANGED <<mem, bss_start, bss_size, frame, fbVars, gdt, gdtr, idtr, response, mapped, faults>>

reload_segments ==
  /\ pc = "reload"
  /\ pc' = IF Usable(16, FALSE) THEN "idt" ELSE "lost"
  /\ selector' = [r \in DOMAIN selector |-> IF r = "cs" THEN selector[r] ELSE 16]
  /\ UNCHANGED <<mem, bss_start, bss_size, frame, fbVars, gdt, gdtr, idtr, response, mapped, faults>>

\* Every gate that idt_set_gate makes names this code segment.
kernel_cs == 8

idt_init ==
  /\ pc = "idt"
  /\ idtr' = "kernel" /\ pc' = "memory"
  /\ UNCHANGED <<mem, bss_start, bss_size, frame, fbVars, gdt, gdtr, selector, response, mapped, faults>>

-------------------------------------------------------------------------------
(* Memory *)

\* pmm_init and paging_init: all of memory is mapped in the higher half, unless
\* a frame, or the place for the bitmap, cannot be found.
memory_init ==
  /\ pc = "memory"
  /\ IF Response.memory_suffices
     THEN mapped' = 0 .. (Response.total_frames - 1) /\ pc' = "screen"
     ELSE pc' = "panic" /\ UNCHANGED mapped
  /\ UNCHANGED <<mem, bss_start, bss_size, frame, fbVars, cpuVars, response, faults>>

pmm_is_frame_free(phys) ==
  IS_PAGE_ALIGNED(phys) /\ phys \div PAGE_SIZE < Response.total_frames /\ Response.fb_free

\* Mutant: a page that the range only begins is left out.
paging_map_range_short(phys, size) ==
  IF IS_PAGE_ALIGNED(phys)
  THEN mapped \cup {(phys \div PAGE_SIZE) + i : i \in 0 .. ((size \div PAGE_SIZE) - 1)}
  ELSE mapped

\* A range that does not start at a page is refused, with a line in the log.
paging_map_range(phys, size) ==
  IF IS_PAGE_ALIGNED(phys)
  THEN mapped \cup {(phys \div PAGE_SIZE) + i : i \in 0 .. (PAGE_COUNT(size) - 1)}
  ELSE mapped

\* screen_init, up to its fb_clear_screen.  The range may need frames for tables from the
\* first page that is not mapped yet; without one pmm_alloc_frame panics.
screen_init ==
  LET refused == Response.memory_model # 1 \/ pmm_is_frame_free(Response.fb_phys)
  IN /\ pc = "screen"
     /\ \/ refused /\ pc' = "panic" /\ UNCHANGED <<mapped, fbVars>>
        \/ /\ ~refused /\ mapped' = paging_map_range(Response.fb_phys, Pitch * Height)
           /\ fb_init
           /\ pc' = "clear"
        \/ /\ ~refused /\ IS_PAGE_ALIGNED(Response.fb_phys)
           /\ \E n \in 0 .. (PAGE_COUNT(Pitch * Height) - 1) :
                /\ (Response.fb_phys \div PAGE_SIZE) + n \notin mapped
                /\ mapped' = paging_map_range(Response.fb_phys, n * PAGE_SIZE)
           /\ pc' = "panic" /\ UNCHANGED fbVars
     /\ UNCHANGED <<mem, bss_start, bss_size, frame, cpuVars, response, faults>>

-------------------------------------------------------------------------------
(* The screen *)

VisibleWords == {At(p[1], p[2]) : p \in Visible}
IsMapped(word) == (Response.fb_phys + 4 * word) \div PAGE_SIZE \in mapped
Unmapped == {w \in VisibleWords : ~IsMapped(w)}

\* fb_clear_screen when a store of it faults: what comes before is stored, and
\* isr_handler panics, one frame deeper on the stack.
ClearFaults(color) ==
  /\ framebuffer.is_ready /\ Unmapped # {}
  /\ LET reached == {p \in Visible : \A w \in Unmapped : At(p[1], p[2]) < w}
     IN StoreAll({<<At(p[1], p[2]), Pack(color)>> : p \in reached}) /\ Shows([p \in reached |-> color])
  /\ faults' = faults + 1
  /\ pc' = IF faults = StackDepth THEN "lost" ELSE "panic"
  /\ UNCHANGED framebuffer

\* The last statement of screen_init.
ClearScreen ==
  /\ pc = "clear"
  /\ \E color \in Colors :
       \/ Unmapped = {} /\ fb_clear_screen(color) /\ pc' = "callers" /\ UNCHANGED faults
       \/ ClearFaults(color)
  /\ UNCHANGED <<mem, bss_start, bss_size, frame, cpuVars, response, mapped>>

\* kpanic: before fb_init there is nothing to clear.  Then the message, and hlt.
kpanic ==
  /\ pc = "panic"
  /\ \E color \in Colors :
       \/ Unmapped = {} /\ fb_clear_screen(color) /\ pc' = "halted" /\ UNCHANGED faults
       \/ ClearFaults(color)
       \/ ~framebuffer.is_ready /\ pc' = "halted" /\ UNCHANGED <<fbVars, faults>>
  /\ UNCHANGED <<mem, bss_start, bss_size, frame, cpuVars, response, mapped>>

\* Code that uses the drawing routines once the screen is up.
Callers ==
  /\ pc = "callers"
  /\ Draw
  /\ UNCHANGED <<bssVars, cpuVars, response, mapped, faults>>

halt ==
  /\ pc = "callers"
  /\ pc' = "halted"
  /\ UNCHANGED <<mem, bss_start, bss_size, frame, fbVars, cpuVars, response, mapped, faults>>

ClearBss == Clear /\ UNCHANGED <<fbVars, cpuVars, response, mapped, faults>>

Kernel ==
  \/ ClearBss
  \/ validate_limine_or_halt \/ gdt_init \/ retfq \/ reload_segments \/ idt_init
  \/ memory_init \/ screen_init \/ ClearScreen \/ kpanic \/ halt

\* The processor has stopped, or runs wherever it was sent.
Stopped == pc \in {"halted", "lost"} /\ UNCHANGED vars

Next == Kernel \/ Callers \/ Stopped

\* The processor goes on executing the kernel: fairness.
Spec == Init /\ [][Next]_vars /\ WF_vars(Kernel)

-------------------------------------------------------------------------------
\* Whenever the gates of the kernel are in use, an exception can be taken and can
\* return: the code segment of the gates exists, and so do the segments that iretq
\* will load again, those of the interrupted code.  This is what the order of
\* gdt_init and idt_init, and the reloading in _gdt_flush, are for.
SegmentsValid ==
  idtr = "kernel" =>
    /\ Usable(kernel_cs, TRUE) /\ Usable(selector["cs"], TRUE)
    /\ \A r \in DOMAIN selector \ {"cs"} : Usable(selector[r], FALSE)

\* Drawing raises a page fault only when the framebuffer does not start at a page
\* and lies behind memory: otherwise screen_init has mapped all of it, its last,
\* incomplete page too.
DrawsOnlyMapped ==
  faults > 0 => ~IS_PAGE_ALIGNED(Response.fb_phys)
                /\ Response.fb_phys + Pitch * Height > Response.total_frames * PAGE_SIZE

\* The kernel comes to its halt: memset returns although it clears its own frame, and
\* every check that fails ends in a halt or a panic.  The exception is the framebuffer
\* that screen_init leaves unmapped: a panic then faults on its own.
BootHalts ==
  <>(pc = "halted" \/ (faults > 0 /\ ~IS_PAGE_ALIGNED(Response.fb_phys)))
===============================================================================
