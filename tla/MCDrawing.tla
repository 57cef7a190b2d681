------------------------------- MODULE MCDrawing -------------------------------
(* The framebuffer's own operations on two small framebuffers, and the         *)
(* rasterizer on a larger one.                                                 *)
(*                                                                             *)
(* Framebuffers: a padded one of two by two pixels and a dense one of one by   *)
(* two, rectangles inside, across the edge, empty, and so far outside that a   *)
(* sum of coordinates does not fit 32 bits (here: below 128).                  *)
EXTENDS Rasterizer

Surface(width, height, stride, format, byte) ==
  [width |-> width, height |-> height, stride |-> stride, format |-> format,
   pixels |-> [i \in 1 .. stride * height |-> byte], dirty |-> FALSE]

Canvas == Surface(4, 3, 20, "rgba8", 0)

MCFrames == {Surface(2, 2, 12, "bgra8", 0), Surface(1, 2, 4, "rgba8", 0)}
MCSurfaces == MCFrames \cup {Canvas}
MCBgra == {Surface(4, 3, 16, "bgra8", 0)}

Stamp == [Surface(2, 2, 12, "bgra8", 0) EXCEPT !.pixels = [i \in 1..24 |-> i]]

Other == [Stamp EXCEPT !.format = "rgba8"]

Red == <<9, 8, 7, 6>>
Beyond == {U32 - 1}

MCDraws ==
  {[op |-> "clear", color |-> Red]}
    \cup [op : {"set"}, x : {0, 2}, y : {1, 2}, color : {Red}]
    \cup [op : {"fill"}, x : {0, 1} \cup Beyond, y : {0, 1} \cup Beyond,
          w : 1..2, h : 1..2, color : {Red}]
    \cup [op : {"fill"}, x : {2}, y : {1}, w : {0}, h : {1}, color : {Red}]
    \cup [op : {"blit"}, x : {0, 1} \cup Beyond, y : {0, 1}, src : {Stamp},
          srcX : {0}, srcY : {0, 1}, w : {1, 2}, h : {1, 2}]
    \cup [op : {"blit"}, x : {0}, y : {1} \cup Beyond, src : {Stamp, Other},
          srcX : {1} \cup Beyond, srcY : {0}, w : {1}, h : {1}]

--------------------------------------------------------------------------------
(* The scenes: triangles of either winding, tilted, degenerate, partly and     *)
(* wholly outside, nearer and farther, with areas that are powers of two; in   *)
(* lists of one and two and with a vertex missing; lines in every direction.   *)

Vertex(x, y, z, w, color) == [x |-> x, y |-> y, z |-> z, w |-> w, color |-> color]

Lime   == <<0, 2, 0, 2>>
Rose   == <<3, 0, 1, 1>>   \* one channel is more than 1.0

(* The corner of the frame at a depth, and one that leans away from it.        *)
Flat(z, color) ==
  <<Vertex(-1, 1, z, 1, color), Vertex(1, 1, z, 1, color), Vertex(-1, -1, z, 1, color)>>

Leaning ==
  <<Vertex(-1, 1, 0, 1, Lime), Vertex(-1, -1, 1, 1, Rose), Vertex(2, 2, 4, 2, Rose)>>

Outer ==
  <<Vertex(-3, 1, 0, 1, Rose), Vertex(1, 1, 0, 1, Rose), Vertex(1, -3, 0, 1, Rose)>>

Away == <<Vertex(2, 1, 0, 1, Lime), Vertex(3, 1, 0, 1, Lime), Vertex(2, 0, 0, 1, Lime)>>

Thin == <<Vertex(-1, 1, 0, 1, Lime), Vertex(0, 0, 0, 1, Lime), Vertex(1, -1, 0, 1, Lime)>>

MCMeshes ==
  {Flat(1, Rose), Flat(1, Lime), Flat(2, Lime), Flat(1, Lime) \o Leaning, Leaning, Outer,
   Away \o Thin, SubSeq(Outer, 1, 2)}

(* Pixel corners: x in -1 .. 1 by quarters is a column of four.                *)
Corner(column, row, color) == Vertex(6 * column - 12, 12 - 8 * row, 0, 12, color)

MCSegments ==
  {<<Corner(0, 0, Lime), Corner(c, r, Lime)>> : c \in 0..4, r \in 0..2}
    \cup {<<Corner(3, 1, Lime), Corner(c, r, Lime)>> : c \in {-1, 0, 2}, r \in {-2, 0, 1, 3}}
    \cup {<<Corner(-9, 0, Lime), Corner(11, 2, Lime)>>,      \* across the frame
          <<Corner(12, -8, Lime), Corner(-12, 10, Lime)>>,
          <<Corner(-40, 0, Lime), Corner(40, 1, Lime)>>}     \* too long for its arithmetic

MCBlack == <<0, 0, 0, 255>>
MCDepthSizes == {<<2, 3>>}

--------------------------------------------------------------------------------
DrawingVars == <<frameVars, rasterVars>>

DrawingInit == FrameInit /\ RasterInit

DrawingNext ==
  \/ back.width < 4 /\ OwnerDraws
  \/ back.width = 4 /\ RasterNext

DrawingSpec ==
  DrawingInit /\ [][DrawingNext]_DrawingVars /\ WF_call(Walk)

================================================================================
