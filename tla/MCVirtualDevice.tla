----------------------------- MODULE MCVirtualDevice -----------------------------
(* The two stores of host memory that hand out ids.                            *)
(*                                                                             *)
(* Device memory: two allocations, lists of two commands that name them or a   *)
(* third handle.  Textures: two, wide, high, larger than offsets can reach     *)
(* (here: eight units), without depth and in other formats.                    *)
EXTENDS Stores

Texture(width, height, format) ==
  [width |-> width, height |-> height, depth |-> 1, layers |-> 1, format |-> format]

MCDescriptors ==
  {Texture(3, 1, "rgba8"), Texture(2, 3, "bgra8"), Texture(3, 3, "rgba8"), Texture(1, 2, "rgba16"),
   [Texture(3, 3, "rgba8") EXCEPT !.depth = 0], Texture(0, 2, "rgba8")}

MCUploads == {[i \in 1..n |-> <<i, i + 10, i + 20, 1>>] : n \in {3, 6, 9}}
MCPaint == <<7, 6, 5, 4>>

MCCoordinates == {<<0, 3>>, <<4, 9>>, <<-1, 5>>, <<7, -6>>}

================================================================================
