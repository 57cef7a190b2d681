------------------------------ MODULE Framebuffer ------------------------------
(* framebuffer.rs: LinearFramebuffer, drawn to by clear, set_pixel, fill_rect, *)
(* blit and pixels_mut, and DoubleBuffer, which draws to its back buffer and   *)
(* swaps.  A lone framebuffer is a back buffer that is never swapped.          *)
(*                                                                             *)
(* Coordinates are u32.  Their sums and products panic when they overflow in a *)
(* build with overflow checks (cargo's default profile for development and     *)
(* tests) and wrap in one without (release; Cargo.toml has no profiles).       *)
EXTENDS Integers, SequencesExt

CONSTANTS
  U32,             \* 2^32
  OverflowChecks,  \* the build has overflow checks
  Surfaces,        \* framebuffers as new or from_raw make them
  Draws,           \* operations, with their arguments
  MaxDraws         \* bound of the model: operations in a behaviour

Bpp == 4   \* bytes_per_pixel of every format

Coordinate == 0 .. U32 - 1
Color      == [1..4 -> 0..255]

(* from_raw trusts its caller: rows do not overlap, the data holds them, and   *)
(* it is less than 2^32 bytes, beyond which set_pixel has no offset.           *)
WellFormed(s) ==
  /\ s \in [width : Coordinate, height : Coordinate, stride : Coordinate,
            format : {"rgba8", "bgra8", "bgrx8"}, pixels : Seq(0..255), dirty : BOOLEAN]
  /\ s.stride >= s.width * Bpp
  /\ Len(s.pixels) = s.stride * s.height /\ Len(s.pixels) < U32

(* What the operations are given.                                              *)
Operation(d) ==
  \/ d \in [op : {"clear"}, color : Color]
  \/ d \in [op : {"set"}, x : Coordinate, y : Coordinate, color : Color]
  \/ d \in [op : {"fill"}, x : Coordinate, y : Coordinate,
            w : Coordinate, h : Coordinate, color : Color]
  \/ /\ d \in [op : {"blit"}, x : Coordinate, y : Coordinate, src : {d.src},
               srcX : Coordinate, srcY : Coordinate, w : Coordinate, h : Coordinate]
     /\ WellFormed(d.src)

ASSUME FramebufferAssumption ==
  /\ OverflowChecks \in BOOLEAN /\ MaxDraws \in Nat /\ U32 \in Nat
  /\ \A s \in Surfaces : WellFormed(s)
  /\ \A d \in Draws : Operation(d)

VARIABLES
  front, back,  \* [width, height, stride, format, pixels, dirty]
  double,       \* whether they are a DoubleBuffer
  draws,        \* operations so far
  last          \* history: the latest operation and its outcome

frameVars == <<front, back, double, draws, last>>

--------------------------------------------------------------------------------
(* Pixels.                                                                     *)

(* A colour <<r, g, b, a>> in memory, and back: blue first unless Rgba8.       *)
Channels(format, color) ==
  IF format = "rgba8" THEN color ELSE <<color[3], color[2], color[1], color[4]>>

(* Faulty variant: rows follow each other without padding.                     *)
OffsetUnpadded(s, x, y) == (y * s.width * Bpp + x * Bpp) % U32

(* Where a pixel begins: u32 arithmetic, then usize.                           *)
Offset(s, x, y) == (y * s.stride + x * Bpp) % U32

(* get_pixel inside the framebuffer.                                           *)
Pixel(s, x, y) ==
  Channels(s.format, SubSeq(s.pixels, Offset(s, x, y) + 1, Offset(s, x, y) + Bpp))

(* A write of bytes at an offset; one behind the end panics, and nothing is    *)
(* written any more.                                                           *)
Write(memory, write) ==
  LET from == write[1]
      bytes == write[2]
  IN IF memory.sound /\ from + Len(bytes) <= Len(memory.pixels)
       THEN [memory EXCEPT !.pixels =
               [i \in DOMAIN @ |-> IF i \in from + 1 .. from + Len(bytes)
                                     THEN bytes[i - from] ELSE @[i]]]
       ELSE [memory EXCEPT !.sound = FALSE]

Written(s, writes) == FoldLeft(Write, [pixels |-> s.pixels, sound |-> TRUE], writes)

(* A rectangle row by row; the offset of a row is u32, within it usize.        *)
Rectangle(s, x, y, w, h, color) ==
  [i \in 1 .. w * h |->
     <<Offset(s, x, y + ((i - 1) \div w)) + ((i - 1) % w) * Bpp, Channels(s.format, color)>>]

--------------------------------------------------------------------------------
(* The checks and the writes of each operation.                                *)

Overflows(n) == OverflowChecks /\ n >= U32
Outside(x, y, s) == x % U32 > s.width \/ y % U32 > s.height

(* Both sums are computed before an error is returned.                         *)
Panics(s, d) ==
  CASE d.op = "fill" -> Overflows(d.x + d.w) \/ Overflows(d.y + d.h)
    [] d.op = "blit" ->
         /\ d.src.format = s.format
         /\ \/ Overflows(d.x + d.w) \/ Overflows(d.y + d.h)
            \/ ~Outside(d.x + d.w, d.y + d.h, s)
                 /\ (Overflows(d.srcX + d.w) \/ Overflows(d.srcY + d.h))
    [] OTHER -> FALSE

Refused(s, d) ==
  CASE d.op = "set"  -> d.x >= s.width \/ d.y >= s.height
    [] d.op = "fill" -> Outside(d.x + d.w, d.y + d.h, s)
    [] d.op = "blit" -> \/ d.src.format # s.format
                        \/ Outside(d.x + d.w, d.y + d.h, s)
                        \/ Outside(d.srcX + d.w, d.srcY + d.h, d.src)
    [] OTHER -> FALSE

(* The range y..y+h is empty if its end wrapped.                               *)
FillRows(d) == IF (d.y + d.h) % U32 < d.y THEN 0 ELSE d.h

(* One row of blit; a source behind the end panics like a target there.        *)
BlitRow(s, d, j) ==
  LET from == Offset(d.src, d.srcX, (d.srcY + j) % U32)
      to   == from + d.w * Bpp
  IN IF to <= Len(d.src.pixels)
       THEN <<Offset(s, d.x, (d.y + j) % U32), SubSeq(d.src.pixels, from + 1, to)>>
       ELSE <<Len(s.pixels) + 1, <<>> >>

Writes(s, d) ==
  CASE d.op = "clear" -> Rectangle(s, 0, 0, s.width, s.height, d.color)
    [] d.op = "set"   -> Rectangle(s, d.x, d.y, 1, 1, d.color)
    [] d.op = "fill"  -> Rectangle(s, d.x, d.y, d.w, FillRows(d), d.color)
    [] d.op = "blit"  -> [j \in 1 .. d.h |-> BlitRow(s, d, j - 1)]

--------------------------------------------------------------------------------
FrameInit ==
  /\ double \in BOOLEAN
  /\ back \in Surfaces
  /\ front = back
  /\ double => back.stride = back.width * Bpp
  /\ draws = 0 /\ last = [draw |-> [op |-> "none"], outcome |-> "none"]

Ended(d, outcome) ==
  /\ draws < MaxDraws /\ draws' = draws + 1
  /\ last' = [draw |-> d, outcome |-> outcome]
  /\ UNCHANGED <<front, double>>

DrawPanics(d) == Panics(back, d) /\ Ended(d, "panic") /\ UNCHANGED back

DrawRefused(d) == ~Panics(back, d) /\ Refused(back, d) /\ Ended(d, "error") /\ UNCHANGED back

(* The flag is stored after the last write.                                    *)
Draw(d) ==
  /\ ~Panics(back, d) /\ ~Refused(back, d)
  /\ LET memory == Written(back, Writes(back, d))
     IN IF memory.sound
          THEN back' = [back EXCEPT !.pixels = memory.pixels, !.dirty = TRUE] /\ Ended(d, "ok")
          ELSE back' = [back EXCEPT !.pixels = memory.pixels] /\ Ended(d, "panic")

(* pixels_mut raises the flag; then its caller overwrites what it likes.       *)
PixelsMut ==
  /\ back' = [back EXCEPT !.pixels = [i \in DOMAIN @ |-> 5], !.dirty = TRUE]
  /\ UNCHANGED <<front, double, draws, last>>

(* present of either buffer, or clear_dirty.                                   *)
PresentBack  == back' = [back EXCEPT !.dirty = FALSE] /\ UNCHANGED <<front, double, draws, last>>
PresentFront == front' = [front EXCEPT !.dirty = FALSE] /\ UNCHANGED <<back, double, draws, last>>

Swap ==
  /\ double
  /\ front' = back /\ back' = [front EXCEPT !.dirty = FALSE]
  /\ UNCHANGED <<double, draws, last>>

FrameNext ==
  \/ \E d \in Draws : DrawPanics(d) \/ DrawRefused(d) \/ Draw(d)
  \/ PixelsMut \/ PresentBack \/ PresentFront \/ Swap

FrameSpec == FrameInit /\ [][FrameNext]_frameVars

--------------------------------------------------------------------------------
(* Properties.                                                                 *)

(* What a viewer of pixels(), stride() and format() sees: a colour per point.  *)
Points(s) == (0 .. s.width - 1) \X (0 .. s.height - 1)
Place(s, p) == p[2] * s.stride + p[1] * Bpp
Image(s) ==
  [p \in Points(s) |->
     Channels(s.format, SubSeq(s.pixels, Place(s, p) + 1, Place(s, p) + Bpp))]

Covered(d, p) ==
  CASE d.op = "clear" -> TRUE
    [] d.op = "set"   -> p = <<d.x, d.y>>
    [] OTHER          -> p[1] - d.x \in 0 .. d.w - 1 /\ p[2] - d.y \in 0 .. d.h - 1

Painted(image, d) ==
  [p \in DOMAIN image |->
     IF ~Covered(d, p) THEN image[p]
     ELSE IF d.op = "blit" THEN Image(d.src)[<<p[1] - d.x + d.srcX, p[2] - d.y + d.srcY>>]
     ELSE d.color]

PixelBytes(s) == UNION {Place(s, p) + 1 .. Place(s, p) + Bpp : p \in Points(s)}

(* An operation that succeeds changes the colours of exactly the points of its *)
(* rectangle, which get_pixel then finds there, no padding byte, and raises    *)
(* the flag; one that does not leaves pixels and flag as they were.            *)
DrawsExactly ==
  [][draws' > draws =>
       IF last'.outcome = "ok"
         THEN /\ LET image == Image(back')
                 IN /\ image = Painted(Image(back), last'.draw)
                    /\ \A p \in Points(back) : Pixel(back', p[1], p[2]) = image[p]
              /\ \A i \in DOMAIN back.pixels \ PixelBytes(back) : back'.pixels[i] = back.pixels[i]
              /\ back'.dirty
         ELSE back' = back]_frameVars

(* No operation succeeds on a rectangle that has points outside of the         *)
(* framebuffer, which the OutOfBounds error and its tests say is refused.      *)
OutsideRefused ==
  LET d == last.draw
  IN last.outcome = "ok" /\ d.op \in {"fill", "blit"} /\ d.w > 0 /\ d.h > 0 =>
       d.x + d.w <= back.width /\ d.y + d.h <= back.height

================================================================================
