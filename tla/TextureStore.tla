----------------------------- MODULE TextureStore -----------------------------
(* texture.rs: TextureManager owns textures and samplers under handles it      *)
(* counts up, and samples a texture at coordinates that may lie outside of it. *)
(*                                                                             *)
(* Data is in units of four bytes, the size of a texel in most formats, and    *)
(* coordinates are in units of 1/Grid, exact where the code has f32.           *)
EXTENDS Integers, SequencesExt

CONSTANTS
  Descriptors,   \* [width, height, depth, layers, format] of textures
  Uploads,       \* sequences of units that are uploaded
  Paint,         \* the unit a texture is cleared with
  Coordinates,   \* pairs of coordinates that are sampled
  Grid,          \* coordinate of the far edge of a texture
  OffsetUnits,   \* 2^32 bytes, in units
  OffsetChecks,  \* the build has overflow checks
  MaxTextures, MaxSamplers   \* bounds: textures and samplers ever created

Formats == {"rgba8", "bgra8", "depth32", "rgba16", "rgba32"}

ASSUME TextureAssumption ==
  /\ OffsetChecks \in BOOLEAN
  /\ {Grid, OffsetUnits, MaxTextures, MaxSamplers} \subseteq Nat \ {0}
  /\ Descriptors \subseteq [width : Nat, height : Nat, depth : Nat, layers : Nat, format : Formats]
  /\ \A data \in Uploads : data \in Seq(Range(data))
  /\ Coordinates \subseteq Int \X Int

VARIABLES
  textures, nextTexture,  \* id -> [desc, data], and next_id
  samplers, nextSampler,  \* id -> address_u, and next_sampler_id
  told,                 \* history: the latest question about a texture, and its answer
  made                    \* history: the textures created, by their owners' account

textureVars == <<textures, nextTexture, samplers, nextSampler, told, made>>

Modes == {"repeat", "edge", "border", "mirror"}
NoAnswer == [op |-> "none"]

UnitsPerTexel(format) ==
  CASE format \in {"rgba8", "bgra8", "depth32"} -> 1
    [] format = "rgba16" -> 2
    [] format = "rgba32" -> 4

Plane(d)    == d.width * d.height * UnitsPerTexel(d.format)
DataSize(d) == Plane(d) * d.depth * d.layers

TextureInit ==
  /\ textures = <<>> /\ nextTexture = 1
  /\ samplers = <<>> /\ nextSampler = 1
  /\ told = NoAnswer /\ made = <<>>

--------------------------------------------------------------------------------
(* Textures.                                                                   *)

With(table, id, value) ==
  [k \in DOMAIN table \cup {id} |-> IF k = id THEN value ELSE table[k]]

NoSamplerCall == told' = NoAnswer /\ UNCHANGED <<samplers, nextSampler>>

CreateTexture(d) ==
  /\ nextTexture <= MaxTextures /\ d.width > 0 /\ d.height > 0
  /\ LET data == [i \in 1 .. DataSize(d) |-> <<0, 0, 0, 0>>]
     IN /\ textures' = With(textures, nextTexture, [desc |-> d, data |-> data])
        /\ made' = Append(made, [id |-> nextTexture, desc |-> d, given |-> data, live |-> TRUE])
  /\ nextTexture' = nextTexture + 1
  /\ NoSamplerCall

(* What the owner of an id knows of its texture.                               *)
Given(id, data) ==
  made' = [k \in DOMAIN made |->
             IF made[k].id = id /\ made[k].live THEN [made[k] EXCEPT !.given = data] ELSE made[k]]

(* Data of another length is refused.                                          *)
UploadTexture(id, data) ==
  /\ id \in DOMAIN textures /\ Len(data) = DataSize(textures[id].desc)
  /\ textures' = [textures EXCEPT ![id].data = data]
  /\ Given(id, data)
  /\ NoSamplerCall /\ UNCHANGED nextTexture

(* get_texture_mut, and what the command executor does with it.                *)
ClearTexture(id) ==
  /\ id \in DOMAIN textures
  /\ LET data == [i \in DOMAIN textures[id].data |-> Paint]
     IN textures' = [textures EXCEPT ![id].data = data] /\ Given(id, data)
  /\ NoSamplerCall /\ UNCHANGED nextTexture

DeleteTexture(id) ==
  /\ id \in DOMAIN textures
  /\ textures' = Restrict(textures, DOMAIN textures \ {id})
  /\ made' = [k \in DOMAIN made |->
                IF made[k].id = id THEN [made[k] EXCEPT !.live = FALSE] ELSE made[k]]
  /\ NoSamplerCall /\ UNCHANGED nextTexture

CreateSampler(mode) ==
  /\ nextSampler <= MaxSamplers
  /\ samplers' = With(samplers, nextSampler, mode)
  /\ nextSampler' = nextSampler + 1
  /\ told' = NoAnswer /\ UNCHANGED <<textures, nextTexture, made>>

DeleteSampler(id) ==
  /\ id \in DOMAIN samplers
  /\ samplers' = Restrict(samplers, DOMAIN samplers \ {id})
  /\ told' = NoAnswer /\ UNCHANGED <<textures, nextTexture, nextSampler, made>>

--------------------------------------------------------------------------------
(* Questions.                                                                  *)

Answer(a) ==
  /\ told' = a
  /\ UNCHANGED <<textures, nextTexture, samplers, nextSampler, made>>

Download(id) ==
  Answer([op |-> "download", id |-> id,
          value |-> IF id \in DOMAIN textures THEN <<"ok", textures[id].data>> ELSE <<"notFound">>])

(* Faulty variant: the remainder of a negative number is taken for positive.   *)
FoldedForward(mode, c) ==
  CASE mode = "repeat" -> c % Grid
    [] mode = "mirror" -> IF c > 0 /\ (c \div Grid) % 2 = 1 THEN Grid - (c % Grid) ELSE c % Grid
    [] OTHER -> Max({0, Min({c, Grid})})

(* A coordinate inside of the texture.  What is left of the far edge by the    *)
(* smallest of steps and what is on it meet in the last texel.                 *)
Folded(mode, c) ==
  CASE mode = "repeat" -> c % Grid
    [] mode = "mirror" -> IF (c \div Grid) % 2 = 1 THEN Grid - (c % Grid) ELSE c % Grid
    [] OTHER -> Max({0, Min({c, Grid})})

Texel(mode, c, size) == Min({(Folded(mode, c) * size) \div Grid, size - 1})

(* One mode, address_u, serves both axes.                                      *)
TexelOffset(d, mode, c) ==
  (Texel(mode, c[2], d.height) * d.width + Texel(mode, c[1], d.width)) * UnitsPerTexel(d.format)

Ordered(format, unit) ==
  CASE format = "rgba8" -> <<"ok", unit>>
    [] format = "bgra8" -> <<"ok", <<unit[3], unit[2], unit[1], unit[4]>> >>
    [] OTHER -> <<"unsupported">>

Sampled(id, sampler, c) ==
  IF id \notin DOMAIN textures THEN <<"notFound">>
  ELSE IF sampler \notin DOMAIN samplers THEN <<"noSampler">>
  ELSE LET t == textures[id]
           n == TexelOffset(t.desc, samplers[sampler], c)
       IN IF OffsetChecks /\ n >= OffsetUnits THEN <<"panic">>
          ELSE IF n % OffsetUnits >= Len(t.data) THEN <<"outOfBounds">>
          ELSE Ordered(t.desc.format, t.data[(n % OffsetUnits) + 1])

Sample2d(id, sampler, c) ==
  Answer([op |-> "sample", id |-> id, c |-> c,
          mode |-> IF sampler \in DOMAIN samplers THEN samplers[sampler] ELSE "none",
          value |-> Sampled(id, sampler, c)])

TextureNext ==
  \/ \E d \in Descriptors : CreateTexture(d)
  \/ \E mode \in Modes : CreateSampler(mode)
  \/ \E id \in 1 .. MaxTextures :
       \/ \E data \in Uploads : UploadTexture(id, data)
       \/ ClearTexture(id) \/ DeleteTexture(id) \/ Download(id)
       \/ \E sampler \in 1 .. MaxSamplers, c \in Coordinates : Sample2d(id, sampler, c)
  \/ \E sampler \in 1 .. MaxSamplers : DeleteSampler(sampler)

TextureSpec == TextureInit /\ [][TextureNext]_textureVars

--------------------------------------------------------------------------------
(* Properties.                                                                 *)

(* The texture repeated over the plane, reflected over it, or its edge drawn   *)
(* out: the places of the texture that show at a coordinate.                   *)
Places(mode, c) ==
  CASE mode = "repeat" -> {m \in 0 .. Grid - 1 : (m - c) % Grid = 0}
    [] mode = "mirror" -> {m \in 0 .. Grid : 0 \in {(m - c) % (2 * Grid), (m + c) % (2 * Grid)}}
    [] OTHER -> {m \in 0 .. Grid : \A n \in 0 .. Grid : (m - c) * (m - c) <= (n - c) * (n - c)}

(* The texels there, two where they meet.                                      *)
At(mode, c, size) ==
  {p \in 0 .. size - 1 : \E m \in Places(mode, c) :
     p * Grid <= m * size /\ m * size <= (p + 1) * Grid}

(* Red and blue in the order of the format.                                    *)
Colour(format, unit) ==
  IF format = "rgba8" THEN unit
  ELSE [c \in 1..4 |-> unit[CASE c = 1 -> 3 [] c = 3 -> 1 [] OTHER -> c]]

(* What a sample of these data may be: the colour of a texel that the mode     *)
(* names, or a refusal that has its reason.                                    *)
Justified(value, d, data, mode, c) ==
  CASE value = <<"panic">>       -> Plane(d) > OffsetUnits
    [] value = <<"outOfBounds">> -> 0 \in {d.depth, d.layers}
    [] value = <<"unsupported">> -> d.format \notin {"rgba8", "bgra8"}
    [] OTHER -> \E x \in At(mode, c[1], d.width), y \in At(mode, c[2], d.height) :
                  value = <<"ok", Colour(d.format, data[y * d.width + x + 1])>>

(* An id belongs to one texture for ever: every answer about it tells what its *)
(* owner last put there, whatever was created, deleted or refused meanwhile,   *)
(* and none after the owner deleted it.  A sample is the colour of a texel     *)
(* that the address mode names, or fails because the sampler is gone, the      *)
(* format has no colours, there is no data, or a plane is too much for u32.    *)
AnswersExact ==
  /\ \A j, k \in DOMAIN made : made[j].id = made[k].id => j = k
  /\ LET owned == {k \in DOMAIN made : made[k].id = told.id /\ made[k].live}
         t == made[CHOOSE k \in owned : TRUE]
     IN told.op # "none" =>
          IF owned = {} THEN told.value = <<"notFound">>
          ELSE IF told.op = "download" THEN told.value = <<"ok", t.given>>
          ELSE IF told.mode = "none" THEN told.value = <<"noSampler">>
          ELSE Justified(told.value, t.desc, t.given, told.mode, told.c)

================================================================================
