----------------------------- MODULE Framebuffer ------------------------------
(***************************************************************************)
(* Drawing, src/drivers/screen/framebuffer.c: the visible pixels are a     *)
(* rectangle inside the words of video memory, a row of which is longer    *)
(* than the visible part.  Drawing calls run one after another; the loops  *)
(* of a call are taken in one step.  A colour has three channels of        *)
(* CHANNEL values, and an image pixel a fourth on top, alpha.              *)
(***************************************************************************)
EXTENDS Integers, FiniteSets

CONSTANTS
  U32,                    \* the number of values of uint32_t
  CHANNEL,                \* the number of values of a colour channel
  Width, Height, Pitch,   \* what Limine reports; the pitch in bytes
  Words,                  \* the words of video memory
  Garbage,                \* what a word holds at first
  Coords, Sizes,          \* the coordinates and image sizes of callers
  Colors, Images          \* their colours, and their images without the size

ASSUME GeometryAssumption ==
  /\ Width \in Nat \ {0} /\ Height \in Nat \ {0} /\ Pitch \in Nat
  /\ Pitch % 4 = 0 /\ Width * 4 <= Pitch /\ Words = 0 .. (Height * (Pitch \div 4) - 1)
  /\ Width < U32 /\ Height < U32

VARIABLES
  framebuffer,  \* the static structure; address is the start of memory
  memory,       \* the words of video memory, and those behind it that were hit
  screen        \* what callers have drawn, by pixel (history)

fbVars == <<framebuffer, memory, screen>>

Visible == (0 .. (Width - 1)) \X (0 .. (Height - 1))
Black == <<0, 0, 0>>

\* RED(r) | GREEN(g) | BLUE(b), and the way back.
Pack(color) == color[1] * CHANNEL * CHANNEL + color[2] * CHANNEL + color[3]
Unpack(word) == <<(word \div (CHANNEL * CHANNEL)) % CHANNEL, (word \div CHANNEL) % CHANNEL, word % CHANNEL>>
Alpha(pixel) == pixel \div (CHANNEL * CHANNEL * CHANNEL)
Opaque(pixel) == pixel % (CHANNEL * CHANNEL * CHANNEL)

\* Mutant: a row is taken to be as long as its visible part.
AtVisible(x, y) == y * framebuffer.width + x

At(x, y) == y * (framebuffer.pitch \div 4) + x

\* The stores of a call: a set of words with their values.  A word that does not
\* belong to video memory is added to the function, so that it shows.
StoreAll(stores) ==
  memory' = [w \in DOMAIN memory \cup {s[1] : s \in stores} |->
               IF \E s \in stores : s[1] = w THEN (CHOOSE s \in stores : s[1] = w)[2] ELSE memory[w]]

Shows(drawn) ==
  screen' = [p \in Visible |-> IF p \in DOMAIN drawn THEN drawn[p] ELSE screen[p]]

FbInit ==
  /\ framebuffer = [width |-> 0, height |-> 0, pitch |-> 0, is_ready |-> FALSE]
  /\ memory = [w \in Words |-> Garbage]
  /\ screen = [p \in Visible |-> Unpack(Garbage)]

fb_init ==
  /\ ~framebuffer.is_ready
  /\ framebuffer' = [width |-> Width, height |-> Height, pitch |-> Pitch, is_ready |-> TRUE]
  /\ UNCHANGED <<memory, screen>>

fb_clear_screen(color) ==
  /\ framebuffer.is_ready
  /\ StoreAll({<<At(x, y), Pack(color)>> :
                 x \in 0 .. (framebuffer.width - 1), y \in 0 .. (framebuffer.height - 1)})
  /\ Shows([p \in Visible |-> color])
  /\ UNCHANGED framebuffer

fb_plot_pixel(x, y, color) ==
  /\ framebuffer.is_ready /\ x < framebuffer.width /\ y < framebuffer.height
  /\ StoreAll({<<At(x, y), Pack(color)>>})
  /\ Shows([p \in {<<x, y>>} |-> color])
  /\ UNCHANGED framebuffer

\* draw_width and draw_height: the part of an image that is visible.
Clip(start, size, limit) == IF (start + size) % U32 > limit THEN limit - start ELSE size

\* The pixel at a column and a row of an image: images are functions of the
\* index, and an index is 32 bits wide.
ImagePixel(pixels, width, col, row) == pixels[(row * width + col) % U32]

fb_draw_image(x, y, width, height, pixels) ==
  LET Drawn == {c \in (0 .. (Clip(x, width, framebuffer.width) - 1))
                      \X (0 .. (Clip(y, height, framebuffer.height) - 1)) :
                  Alpha(ImagePixel(pixels, width, c[1], c[2])) # 0}
      \* what the caller asks for, wherever it falls
      Asked == {p \in Visible :
                  /\ p[1] - x \in 0 .. (width - 1) /\ p[2] - y \in 0 .. (height - 1)
                  /\ Alpha(pixels[(p[2] - y) * width + (p[1] - x)]) # 0}
  IN /\ framebuffer.is_ready /\ x < framebuffer.width /\ y < framebuffer.height
     /\ StoreAll({<<At((x + c[1]) % U32, (y + c[2]) % U32),
                    Opaque(ImagePixel(pixels, width, c[1], c[2]))>> : c \in Drawn})
     /\ Shows([p \in Asked |-> Unpack(pixels[(p[2] - y) * width + (p[1] - x)])])
     /\ UNCHANGED framebuffer

\* A call that returns at once: nothing is ready, or the place is not visible.
Ignored(x, y) ==
  /\ ~framebuffer.is_ready \/ x >= framebuffer.width \/ y >= framebuffer.height
  /\ UNCHANGED fbVars

fb_get_pixel(x, y) ==
  IF framebuffer.is_ready /\ x < framebuffer.width /\ y < framebuffer.height
  THEN Unpack(memory[At(x, y)]) ELSE Black

\* Images whose right and lower ends have a coordinate: x + width and y + height
\* do not wrap.  Callers have to see to it.
Representable(start, size) == start + size < U32

\* A call of one of the routines.
Draw ==
  \/ \E color \in Colors : fb_clear_screen(color)
  \/ \E x, y \in Coords : Ignored(x, y) \/ \E color \in Colors : fb_plot_pixel(x, y, color)
  \/ \E x, y \in Coords, width, height \in Sizes, pixels \in Images :
       /\ Representable(x, width) /\ Representable(y, height)
       /\ fb_draw_image(x, y, width, height, pixels)

-------------------------------------------------------------------------------
\* No call stores outside video memory or into the words of a row that are not
\* visible, and every pixel reads as the last call that covered it has drawn it,
\* clipping and transparency included.
DrawnExactly ==
  /\ DOMAIN memory = Words
  /\ \A w \in Words : w % (Pitch \div 4) >= Width => memory[w] = Garbage
  /\ framebuffer.is_ready => \A p \in Visible : fb_get_pixel(p[1], p[2]) = screen[p]
===============================================================================
