--------------------------------- MODULE Gfx ---------------------------------
(***************************************************************************)
(* libgfx: drawing into a 16 bit surface (gfx.c) and text in character     *)
(* cells on top of it (txt.c).  Coordinates are unsigned words and wrap at *)
(* Word.  gs.pixels maps an index to a pixel; the memory around the        *)
(* surface is part of it.  A glyph is a set of lit <<column, row>>s.       *)
(***************************************************************************)
EXTENDS Integers, Sequences, SequencesExt, FiniteSetsExt

CONSTANTS CH_WIDTH, CH_HEIGHT,   \* size of a character cell (8, 16)
          CH_ROM,                \* glyph of each character
          Word,                  \* 2^32
          Newlines               \* '\r' and '\n'

ASSUME GfxAssumption == {CH_WIDTH, CH_HEIGHT, Word} \subseteq Nat \ {0}

\* One channel of an ARGB8888 colour, and the colour in RGB565.
Channel(c, shift, mask) == (c \div 2^shift) % mask
color16(c) ==
  Channel(c, 3, 32) + Channel(c, 10, 64) * 32 + Channel(c, 19, 32) * 2048

Store(gs, at, pxl) ==
  [gs EXCEPT !.pixels = [i \in DOMAIN @ |-> IF i \in at THEN pxl ELSE @[i]]]

plot16(gs, x, y, pxl) ==
  IF x >= gs.width \/ y >= gs.height THEN gs
  ELSE Store(gs, {x + y * gs.stride}, pxl)

\* Mutant of hline16: the right end is not clipped.
hline16_unclipped(gs, x0, y, x1, pxl) ==
  IF x0 >= gs.width \/ y >= gs.height \/ x1 <= x0 THEN gs
  ELSE Store(gs, x0 + y * gs.stride..x1 + y * gs.stride - 1, pxl)

hline16(gs, x0, y, x1, pxl) ==
  IF x0 >= gs.width \/ y >= gs.height \/ x1 <= x0 THEN gs
  ELSE LET first == x0 + y * gs.stride
           end   == first + Min({x1, gs.width}) - x0
       IN Store(gs, first..end - 1, pxl)

\* The pointer runs over the rows of the cell and skips stride - CH_WIDTH
\* between them.
putc16(gs, x, y, ch) ==
  IF \/ x >= gs.width  \/ (x + CH_WIDTH) % Word > gs.width
     \/ y >= gs.height \/ (y + CH_HEIGHT) % Word > gs.height
  THEN gs
  ELSE LET cell == (0..CH_WIDTH - 1) \X (0..CH_HEIGHT - 1)
           at(c) == x + y * gs.stride + c[1] + c[2] * gs.stride
           lit   == {at(c) : c \in CH_ROM[ch]}
           dark  == {at(c) : c \in cell \ CH_ROM[ch]}
       IN Store(Store(gs, lit, gs.fgcolor), dark, gs.bgcolor)

gfx_fill(gs, x0, y0, x1, y1, pxl) ==
  FoldLeft(LAMBDA g, n : hline16(g, x0, y0 + n - 1, x1, pxl), gs,
           [n \in 1..Max({y1 - y0, 0}) |-> n])

gfx_clear(gs, pxl) == gfx_fill(gs, 0, 0, gs.width, gs.height, pxl)

gfx_puts(gs, x, y, s) ==
  FoldLeft(LAMBDA g, n : putc16(g, (x + (n - 1) * CH_WIDTH) % Word, y, s[n]),
           gs, [n \in DOMAIN s |-> n])

-----------------------------------------------------------------------------
(* txt.c: ts is the cursor, the size in cells, and the surface.            *)

txt_init(gs) == [gs |-> gs, cw |-> gs.width \div CH_WIDTH,
                 ch |-> gs.height \div CH_HEIGHT, cx |-> 0, cy |-> 0]

\* A row beyond the last one moves the column, not the row.
txt_goto(ts, cx, cy) ==
  LET column == IF cx >= ts.cw THEN (ts.cw - 1) % Word ELSE cx
  IN [ts EXCEPT !.cx = IF cy >= ts.ch THEN (ts.ch - 1) % Word ELSE column,
                !.cy = cy]

newline(ts) ==
  [ts EXCEPT !.cx = 0, !.cy = IF @ + 1 >= ts.ch THEN 0 ELSE @ + 1]

txt_putc(ts, ch) ==
  LET drawn == [ts EXCEPT !.gs = putc16(@, (ts.cx * CH_WIDTH) % Word,
                                        (ts.cy * CH_HEIGHT) % Word, ch),
                          !.cx = @ + 1]
  IN IF ch \in Newlines THEN newline(ts)
     ELSE IF drawn.cx >= drawn.cw THEN newline(drawn)
     ELSE drawn

txt_puts(ts, s) == FoldLeft(txt_putc, ts, s)

-----------------------------------------------------------------------------
(* Reference: a picture as a function of positions.                        *)

Picture(gs) == [<<x, y>> \in (0..gs.width-1) \X (0..gs.height-1) |->
                  gs.pixels[x + y * gs.stride]]

\* No index outside the rows of the surface has changed.
Inside(gs, after) ==
  \A i \in DOMAIN gs.pixels :
    gs.pixels[i] = after.pixels[i] \/
    \E x \in 0..gs.width-1, y \in 0..gs.height-1 : i = x + y * gs.stride

RectShown(gs, after, x0, y0, x1, y1, pxl) ==
  Picture(after) = [p \in DOMAIN Picture(gs) |->
                      IF p[1] \in x0..x1-1 /\ p[2] \in y0..y1-1 THEN pxl
                      ELSE Picture(gs)[p]]

\* Character ch of a text whose corner is at (x, y) appears there as a whole
\* when it fits, and not at all otherwise.
Glyph(gs, x, y, ch) ==
  [p \in {<<x + i, y + j>> : i \in 0..CH_WIDTH-1, j \in 0..CH_HEIGHT-1} |->
     IF <<p[1] - x, p[2] - y>> \in CH_ROM[ch] THEN gs.fgcolor ELSE gs.bgcolor]

Fits(gs, x, y) == /\ x \in 0..gs.width-CH_WIDTH
                  /\ y \in 0..gs.height-CH_HEIGHT

\* corner[n] is where character n of s has to be: later ones are on top.
TextShown(gs, after, s, corner) ==
  Picture(after) = FoldLeft(
    LAMBDA pic, n : IF Fits(gs, corner[n][1], corner[n][2])
                    THEN Glyph(gs, corner[n][1], corner[n][2], s[n]) @@ pic
                    ELSE pic,
    Picture(gs), [n \in DOMAIN s |-> n])
===============================================================================
