------------------------------ MODULE Rasterizer ------------------------------
(* rasterizer.rs: triangles with a depth buffer and lines, drawn to the back   *)
(* buffer of Framebuffer point by point through set_pixel, in passes that the  *)
(* executor begins.                                                            *)
(*                                                                             *)
(* Arithmetic is f32 in the code and exact here: positions fall on a grid of   *)
(* 1/Unit pixel, depths and colours are in units of 1/One, and a weight is a   *)
(* numerator over the area of its triangle.                                    *)
EXTENDS Framebuffer

CONSTANTS
  Unit,        \* grid steps of a pixel
  One,         \* depths and colour channels from 0 to 1.0
  I32,         \* 2^32, for the signed coordinates of a line
  Meshes,      \* vertex sequences that are drawn as lists of triangles
  Segments,    \* pairs of vertices that are drawn as lines
  DepthSizes,  \* sizes given to the depth buffer other than a framebuffer's
  Black,       \* the colour that passes clear to
  MaxCalls     \* bound of the model: calls in a behaviour

(* No vertex is behind the viewer.                                             *)
Vertices ==
  [x : Int, y : Int, z : Int, w : Nat \ {0}, color : [1..4 -> Int]]

ASSUME RasterizerAssumption ==
  /\ {Unit, One, MaxCalls} \subseteq Nat \ {0}
  /\ I32 \in Nat /\ I32 > 32 /\ I32 % 32 = 0
  /\ DepthSizes \subseteq Nat \X Nat /\ Black \in Color
  /\ Meshes \subseteq Seq(Vertices) /\ Segments \subseteq Vertices \X Vertices

VARIABLES
  depth,  \* [width, height, values]: a depth <<numerator, denominator>> per point
  call,   \* the call under way: pc and what it needs
  calls,  \* calls so far
  scene   \* history: [base, drawn, known], what was drawn since the depth buffer was cleared

rasterVars == <<depth, call, calls, scene>>

--------------------------------------------------------------------------------
(* Geometry.                                                                   *)

(* perspective_divide and ndc_to_screen: y points down.                        *)
Screen(v) ==
  [x |-> ((v.w + v.x) * back.width * Unit) \div (2 * v.w),
   y |-> ((v.w - v.y) * back.height * Unit) \div (2 * v.w)]

Centre(p) == [x |-> p[1] * Unit + (Unit \div 2), y |-> p[2] * Unit + (Unit \div 2)]

Edge(a, b, c) == (c.x - a.x) * (b.y - a.y) - (c.y - a.y) * (b.x - a.x)

Between(n, low, high) == Max({low, Min({n, high})})

(* for y in min_y..max_y, for x in min_x..max_x: the points in their order.    *)
Scan(t) ==
  LET s == [k \in 1..3 |-> Screen(t[k])]
      xs == {s[k].x : k \in 1..3}
      ys == {s[k].y : k \in 1..3}
      Low(ns) == Max({Min(ns), 0}) \div Unit
      High(ns, size) == Max({Min({Max(ns), (size - 1) * Unit}) + Unit, 0}) \div Unit
      w == Max({High(xs, back.width) - Low(xs), 0})
      h == Max({High(ys, back.height) - Low(ys), 0})
  IN [i \in 1 .. w * h |-> <<Low(xs) + ((i - 1) % w), Low(ys) + ((i - 1) \div w)>>]

(* barycentric_coordinates, times the area.                                    *)
Weights(t, p) ==
  LET s == [k \in 1..3 |-> Screen(t[k])]
      c == Centre(p)
      area == Edge(s[1], s[2], s[3])
      sign == IF area < 0 THEN -1 ELSE 1
      a == sign * Edge(s[2], s[3], c)
      b == sign * Edge(s[3], s[1], c)
  IN <<a, b, sign * area - a - b>>

Area(w) == w[1] + w[2] + w[3]
Mix(w, values) == w[1] * values[1] + w[2] * values[2] + w[3] * values[3]
Inside(w) == Area(w) # 0 /\ \A k \in 1..3 : w[k] >= 0

Less(a, b) == a[1] * b[2] < b[1] * a[2]

--------------------------------------------------------------------------------
(* Depth and colour of a point.                                                *)

Far == <<One, 1>>

Fresh(width, height) ==
  [width |-> width, height |-> height,
   values |-> [p \in (0 .. width - 1) \X (0 .. height - 1) |-> Far]]

(* get_depth and set_depth.                                                    *)
At(depths, p) == IF p \in DOMAIN depths.values THEN depths.values[p] ELSE Far
Set(depths, p, d) ==
  IF p \in DOMAIN depths.values THEN [depths EXCEPT !.values[p] = d] ELSE depths

PointDepth(t, w) == <<Mix(w, [k \in 1..3 |-> t[k].z]), Area(w)>>

(* A channel n/d of a colour, clamped and truncated to a byte.                 *)
Byte(n, d) == (255 * Between(n, 0, d)) \div d

PointColor(t, w) ==
  [c \in 1..4 |-> Byte(Mix(w, [k \in 1..3 |-> t[k].color[c]]), Area(w) * One)]

(* The bytes of a colour in the format's order, which set_pixel expects in the *)
(* order of Rgba8 and converts again.                                          *)
Put(s, p, color) ==
  [s EXCEPT
     !.pixels = Write([pixels |-> @, sound |-> TRUE],
                      <<Offset(s, p[1], p[2]),
                        Channels(s.format, Channels(s.format, color))>>).pixels,
     !.dirty = TRUE]

--------------------------------------------------------------------------------
Idle == [pc |-> "idle"]

RasterInit ==
  /\ depth = Fresh(0, 0) /\ call = Idle /\ calls = 0
  /\ scene = [base |-> Image(back), drawn |-> <<>>, known |-> TRUE]

Called == call.pc = "idle" /\ calls < MaxCalls /\ calls' = calls + 1

OthersUnchanged == UNCHANGED <<front, double, draws, last>>

(* resize_depth_buffer clears as well.                                         *)
ResizeDepth(size) ==
  /\ Called
  /\ depth' = Fresh(size[1], size[2])
  /\ scene' = [scene EXCEPT !.base = Image(back), !.drawn = <<>>]
  /\ UNCHANGED <<back, call>> /\ OthersUnchanged

ClearDepth == ResizeDepth(<<depth.width, depth.height>>)

(* The executor clears the framebuffer, and sizes and clears the depth buffer. *)
BeginPass ==
  /\ Called
  /\ back' = [back EXCEPT
       !.pixels = Written(back, Writes(back, [op |-> "clear", color |-> Black])).pixels,
       !.dirty = TRUE]
  /\ depth' = Fresh(back.width, back.height)
  /\ scene' = [base |-> Image(back'), drawn |-> <<>>, known |-> TRUE]
  /\ UNCHANGED call /\ OthersUnchanged

--------------------------------------------------------------------------------
(* rasterize_triangle_list.                                                    *)

DrawTriangles(mesh, test) ==
  /\ Called
  /\ call' = IF Len(mesh) % 3 = 0 THEN [pc |-> "list", left |-> mesh, test |-> test]
             ELSE [pc |-> "error"]
  /\ UNCHANGED <<back, depth, scene>> /\ OthersUnchanged

(* Faulty variant: what is as far away as what is there replaces it.           *)
HiddenStrictly(depths, t, p, w) == Less(At(depths, p), PointDepth(t, w))

Hidden(depths, t, p, w) ==
  ~Less(PointDepth(t, w), Far) \/ ~Less(PointDepth(t, w), At(depths, p))

(* One point of the scan, in a frame of a back and a depth buffer.             *)
Paint(frame, t, p, test) ==
  LET w == Weights(t, p)
  IN IF ~Inside(w) \/ (test /\ Hidden(frame.depth, t, p, w)) THEN frame
     ELSE [back  |-> Put(frame.back, p, PointColor(t, w)),
           depth |-> IF test THEN Set(frame.depth, p, PointDepth(t, w)) ELSE frame.depth]

Rasterized(t, test) ==
  LET PaintPoint(frame, p) == Paint(frame, t, p, test)
  IN FoldLeft(PaintPoint, [back |-> back, depth |-> depth], Scan(t))

NextTriangle ==
  /\ call.pc = "list" /\ call.left # <<>>
  /\ LET t == SubSeq(call.left, 1, 3)
         frame == Rasterized(t, call.test)
     IN /\ back' = frame.back /\ depth' = frame.depth
        /\ scene' = [scene EXCEPT !.drawn =
                       Append(@, [kind |-> "triangle", vertices |-> t, test |-> call.test])]
  /\ call' = [call EXCEPT !.left = SubSeq(@, 4, Len(@))]
  /\ UNCHANGED calls /\ OthersUnchanged

EndList ==
  /\ call.pc = "list" /\ call.left = <<>>
  /\ call' = [pc |-> "ok"]
  /\ UNCHANGED <<back, depth, calls, scene>> /\ OthersUnchanged

--------------------------------------------------------------------------------
(* rasterize_line, with coordinates of type i32.                               *)

Signed(n) == ((n + (I32 \div 2)) % I32) - (I32 \div 2)
Overflown(ns) == OverflowChecks /\ \E n \in ns : n # Signed(n)

Abs(n) == IF n < 0 THEN -n ELSE n

(* as i32: towards zero, and to the ends of the type.                          *)
Truncated(n) ==
  Between(IF n < 0 THEN -(-n \div Unit) ELSE n \div Unit, -(I32 \div 2), (I32 \div 2) - 1)

Pixelled(v) == LET s == Screen(v) IN <<Truncated(s.x), Truncated(s.y)>>

Dx == Abs(Signed(call.to[1] - call.from[1]))
Dy == -Abs(Signed(call.to[2] - call.from[2]))
Heading(k) == IF call.from[k] < call.to[k] THEN 1 ELSE -1

(* How far along, n/d: the larger of the two axes, 0 if they cancel out.       *)
Along ==
  LET part(k) == <<call.at[k] - call.from[k], Max({call.to[k] - call.from[k], 1})>>
  IN IF Dx + Dy = 0 THEN <<0, 1>>
     ELSE IF Less(part(1), part(2)) THEN part(2) ELSE part(1)

LineColor ==
  LET t == <<Between(Along[1], 0, Along[2]), Along[2]>>
  IN [c \in 1..4 |->
        Byte(call.v0.color[c] * t[2] + (call.v1.color[c] - call.v0.color[c]) * t[1], t[2] * One)]

DrawLine(v0, v1) ==
  /\ Called
  /\ LET from == Pixelled(v0)
         to == Pixelled(v1)
         d == [k \in 1..2 |-> to[k] - from[k]]
     IN call' = IF Overflown({d[1], d[2], Abs(d[1]), Abs(d[2])}) THEN [pc |-> "panic"]
                ELSE [pc |-> "line", v0 |-> v0, v1 |-> v1, from |-> from, to |-> to, at |-> from,
                      err |-> Signed(Abs(Signed(d[1])) - Abs(Signed(d[2])))]
  /\ scene' = [scene EXCEPT !.known = @ /\ call'.pc = "line"]
  /\ UNCHANGED <<back, depth>> /\ OthersUnchanged

(* The error term and the next point; the comparison of e2 is made twice.      *)
Turn(k) == IF k = 1 THEN Signed(2 * call.err) >= Dy ELSE Signed(2 * call.err) <= Dx
Moved == [k \in 1..2 |-> IF Turn(k) THEN call.at[k] + Heading(k) ELSE call.at[k]]
Err1  == IF Turn(1) THEN call.err + Dy ELSE call.err
Err2  == IF Turn(2) THEN Signed(Err1) + Dx ELSE Err1

(* Faulty variant: the end is looked for inside of the framebuffer only.       *)
AtEndIfVisible == call.at = call.to /\ call.at \in Points(back)

AtEnd == call.at = call.to

LineOverflows == ~AtEnd /\ Overflown({2 * call.err, Err1, Err2, Moved[1], Moved[2]})

(* The walk along the points of the line, and the painting of each.            *)
Walk ==
  /\ call.pc = "line"
  /\ call' = IF AtEnd THEN [pc |-> "ok"]
             ELSE IF LineOverflows THEN [pc |-> "panic"]
             ELSE [call EXCEPT !.at = [k \in 1..2 |-> Signed(Moved[k])], !.err = Signed(Err2)]

LinePoint ==
  /\ Walk
  /\ back' = IF call.at \in Points(back) THEN Put(back, call.at, LineColor) ELSE back
  /\ scene' = IF AtEnd
                THEN [scene EXCEPT !.drawn =
                        Append(@, [kind |-> "line", vertices |-> <<call.v0, call.v1>>,
                                   from |-> call.from, to |-> call.to])]
                ELSE [scene EXCEPT !.known = @ /\ call'.pc = "line"]
  /\ UNCHANGED <<depth, calls>> /\ OthersUnchanged

--------------------------------------------------------------------------------
RasterReturn ==
  /\ call.pc \in {"ok", "error", "panic"}
  /\ call' = Idle
  /\ UNCHANGED <<back, depth, calls, scene>> /\ OthersUnchanged

(* Between calls the owner may show the picture.                               *)
RasterNext ==
  \/ call.pc = "idle" /\ \E size \in DepthSizes : ResizeDepth(size)
  \/ ClearDepth \/ BeginPass
  \/ call.pc = "idle" /\ \E mesh \in Meshes, test \in BOOLEAN : DrawTriangles(mesh, test)
  \/ call.pc = "idle" /\ \E s \in Segments : DrawLine(s[1], s[2])
  \/ NextTriangle \/ EndList \/ LinePoint \/ RasterReturn
  \/ call.pc = "idle" /\ PresentBack /\ UNCHANGED rasterVars

(* Between calls the owner may also draw; what is seen then is another scene.  *)
OwnerDraws ==
  /\ call.pc = "idle" /\ FrameNext
  /\ scene' = [scene EXCEPT !.known = FALSE] /\ UNCHANGED <<depth, call, calls>>

RasterSpec ==
  FrameInit /\ RasterInit /\ [][OwnerDraws \/ RasterNext]_<<frameVars, rasterVars>>

--------------------------------------------------------------------------------
(* Properties.                                                                 *)

(* A triangle covers a point if the three triangles that the point makes with  *)
(* its edges fill it; their areas are the weights of the corners.              *)
Shares(t, p) ==
  LET s == [k \in 1..3 |-> Screen(t[k])]
      c == Centre(p)
  IN <<Abs(Edge(s[2], s[3], c)), Abs(Edge(s[3], s[1], c)), Abs(Edge(s[1], s[2], c))>>

Covers(t, p) ==
  LET s == [k \in 1..3 |-> Screen(t[k])]
  IN Edge(s[1], s[2], s[3]) # 0 /\ Area(Shares(t, p)) = Abs(Edge(s[1], s[2], s[3]))

(* The points of a line: one for each step along its longer axis, the nearest  *)
(* to the ideal line, of two equally near ones the one nearer to its end.      *)
OnLine(l, p) ==
  LET d == [k \in 1..2 |-> l.to[k] - l.from[k]]
      major == IF Abs(d[1]) >= Abs(d[2]) THEN 1 ELSE 2
      minor == 3 - major
      n == Abs(d[major])
      steps == Abs(p[major] - l.from[major])
      off == 2 * n * Abs(p[minor] - l.from[minor]) - 2 * steps * Abs(d[minor])
  IN /\ \E i \in 0..n : p[major] = l.from[major] + (IF d[major] < 0 THEN -i ELSE i)
     /\ (p[minor] - l.from[minor]) * d[minor] >= 0
     /\ d[minor] = 0 => p[minor] = l.from[minor]
     /\ off <= n /\ (n > 0 => off > -n)

(* Whether a triangle of the scene is in front of all that were drawn, with    *)
(* the depth test, before it.                                                  *)
InFront(i, p) ==
  LET t == scene.drawn[i].vertices
      d(u) == PointDepth(u, Shares(u, p))
  IN /\ Less(d(t), Far)
     /\ p \in DOMAIN depth.values =>
          \A j \in 1 .. i - 1 :
            LET e == scene.drawn[j]
            IN e.kind = "triangle" /\ e.test /\ Covers(e.vertices, p) => Less(d(t), d(e.vertices))

Shows(i, p) ==
  LET e == scene.drawn[i]
  IN IF e.kind = "line" THEN OnLine(e, p)
     ELSE Covers(e.vertices, p) /\ (e.test => InFront(i, p))

Shown(i, p) ==
  LET e == scene.drawn[i]
  IN IF e.kind = "line" THEN [c \in 1..4 |-> Byte(e.vertices[1].color[c], One)]
     ELSE PointColor(e.vertices, Shares(e.vertices, p))

(* What is seen of the scene at a point: the last thing that shows there.      *)
Seen(p) ==
  LET shows == {i \in DOMAIN scene.drawn : Shows(i, p)}
  IN IF shows = {} THEN scene.base[p] ELSE Shown(Max(shows), p)

(* Between calls the framebuffer shows the scene: at each point the last       *)
(* triangle or line that covers its centre and is not hidden, with the depth   *)
(* test the nearest one in whatever order they came; triangles of both         *)
(* windings, none cut off by the bounding box, and every point of a line; the  *)
(* rest is as it was.  Lines are those whose ends have one colour.             *)
PictureExact ==
  call.pc = "idle" /\ scene.known /\ back.format = "rgba8" =>
    \A p \in Points(back) : Image(back)[p] = Seen(p)

(* The loop of a line has one way out: it must meet its end in both axes at    *)
(* once.  Every line between points near enough for i32 does, without a sum    *)
(* that overflows.                                                             *)
Near == \A k \in 1..2 : {call.from[k], call.to[k]} \subseteq -(I32 \div 16) .. I32 \div 16

LinesEnd == call.pc = "line" /\ Near ~> call.pc = "ok"

(* Where the latest triangle or line shows, get_pixel returns its colour in    *)
(* every format, as it returns the colour given to set_pixel.                  *)
ColoursKept ==
  call.pc = "idle" /\ scene.known =>
    \A i \in DOMAIN scene.drawn, p \in Points(back) :
      i = Len(scene.drawn) /\ Shows(i, p) => Pixel(back, p[1], p[2]) = Shown(i, p)

================================================================================
