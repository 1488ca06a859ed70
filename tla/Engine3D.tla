------------------------------ MODULE Engine3D ------------------------------
(***************************************************************************)
(* The register file of the 3D engine: what a method write changes.        *)
(*                                                                         *)
(* A 32-bit word is the pair of its halves, high first.  A register is a   *)
(* triple of a group, an index and a field; one that is written by a       *)
(* single method only is named by that method, in the group "method".  A   *)
(* register file holds the registers that differ from zero or were         *)
(* written; Engine3D::Reset clears the others.                             *)
(***************************************************************************)
EXTENDS Naturals, TLC

Half == 0 .. 65535
Word == Half \X Half
Zero == <<0, 0>>

(* A small number as a word.                                               *)
Num(n) == <<0, n>>

(* Bits from .. from + n - 1 of a word, n at most 14.                      *)
Field(w, from, n) ==
  Num(IF from >= 16 THEN (w[1] \div 2^(from - 16)) % 2^n
      ELSE ((w[1] % 2^14) * 2^(16 - from) + w[2] \div 2^from) % 2^n)

(* value != 0                                                              *)
Flag(w) == IF w = Zero THEN Zero ELSE Num(1)

(* A register that one method writes.                                      *)
Method(m) == <<"method", m, "">>

Get(regs, r) == IF r \in DOMAIN regs THEN regs[r] ELSE Zero

(* Engine3D::Reset: everything is zero but these.                          *)
Reset ==
  Method(\h0DF) :> Num(1)                \* rasterizer_enable
    @@ Method(\h36B) :> Num(\h1B02)      \* polygon_mode_front
    @@ Method(\h36C) :> Num(\h1B02)      \* polygon_mode_back
    @@ Method(\h647) :> Num(\h901)       \* front_face
    @@ Method(\h648) :> Num(\h405)       \* cull_face
    @@ Method(\h4C3) :> Num(2)           \* depth_func
    @@ Method(\h4BA) :> Num(1)           \* depth_write

Nothing == [r \in {} |-> Zero]

----------------------------------------------------------------------------
(* The handlers of method groups, with the offset of the method in the     *)
(* group.  Each returns the registers it writes.                           *)

(* HandleMethod divides the offset by 8 and passes the quotient on;        *)
(* HandleRenderTarget divides it again.                                    *)
HandleRenderTarget(index, v) ==
  LET field == <<"address", "width", "height", "format", "tile_mode",
                 "array_mode", "layer_stride", "base_layer">>
  IN  <<"rt", index % 8, field[index \div 8 + 1]>> :> v

HandleViewport(index, v) ==
  LET field == <<"scale_x", "scale_y", "scale_z",
                 "translate_x", "translate_y", "translate_z", "swizzle">>
      sub == index % 8
  IN  IF index \div 8 < 16 /\ sub < 7
      THEN <<"viewport", index \div 8, field[sub + 1]>> :> v
      ELSE Nothing

HandleScissor(index, v) == <<"scissor", index, "enabled">> :> Field(v, 0, 1)

HandleVertexArray(index, v) ==
  LET a(field) == <<"vertex_array", index \div 4, field>>
  IN  CASE index % 4 = 0 -> a("stride") :> Field(v, 0, 12)
                              @@ a("enabled") :> Field(v, 12, 1)
        [] index % 4 = 1 -> a("address") :> v
        [] index % 4 = 3 -> a("divisor") :> v
        [] OTHER -> Nothing

HandleVertexAttrib(index, v) ==
  LET a(field) == <<"vertex_attrib", index, field>>
  IN  a("buffer_index") :> Field(v, 0, 5)
        @@ a("is_fixed") :> Field(v, 6, 1)
        @@ a("offset") :> Field(v, 7, 14)
        @@ a("size") :> Field(v, 21, 6)
        @@ a("type") :> Field(v, 27, 3)
        @@ a("is_bgra") :> Field(v, 31, 1)

HandleBlend(index, v) ==
  LET field == <<"enabled", "color_op", "src_color", "dst_color",
                 "alpha_op", "src_alpha", "dst_alpha">>
      sub == index \div 8
  IN  <<"blend", index % 8, field[sub + 1]>> :>
        (IF sub = 0 THEN Field(v, 0, 1) ELSE v)

HandleShader(index, v) ==
  LET s(field) == <<"shader", index % 6, field>>
  IN  IF index < 6
      THEN s("enabled") :> Field(v, 0, 1) @@ s("stage_id") :> Field(v, 4, 3)
      ELSE s("offset") :> v

----------------------------------------------------------------------------
(* Methods outside the groups, by what they make of the value.  Those in   *)
(* no set are logged and ignored.                                          *)
FlagMethods ==
  {\h0DF, \h370, \h371, \h372, \h4B3, \h4B9, \h4BA, \h4BB, \h4E0, \h54D,
   \h54E, \h565, \h591, \h646, \h64B, \h66F, \h671}
NibbleMethods == {\h4E1, \h4E2, \h4E3, \h566, \h567, \h568, \h569, \h586}
ByteMethods == {\h3D5, \h3D6, \h4E5, \h4E6, \h4E7}
WordMethods ==
  {\h35D, \h35E, \h360, \h364, \h368, \h36B, \h36C, \h3E7, \h3E8, \h3F8,
   \h3FA, \h487, \h48A, \h48B, \h48C, \h4C3, \h4C4, \h4C5, \h4C7, \h557,
   \h559, \h55B, \h55D, \h55F, \h56F, \h582, \h583, \h592, \h5F2, \h5F3,
   \h5F4, \h5F5, \h5F6, \h5F7, \h5F8, \h61F, \h647, \h648, \h672, \h674}

DrawArraysCount == \h35E
DrawElementsCount == \h5F8
ClearBuffers == \h674

IsDraw(m) == m \in {DrawArraysCount, DrawElementsCount}

In(m, base, n) == m \in base .. base + n - 1

(* The registers a write of value v to method m changes, with their new    *)
(* values.                                                                 *)
Written(m, v) ==
  CASE In(m, \h200, 64) -> HandleRenderTarget((m - \h200) \div 8, v)
    [] In(m, \h280, 96) -> HandleViewport(m - \h280, v)
    [] In(m, \h380, 16) -> HandleScissor(m - \h380, v)
    [] In(m, \h458, 32) -> HandleVertexAttrib(m - \h458, v)
    [] In(m, \h4D8, 8)  -> <<"blend", m - \h4D8, "enabled">> :> Flag(v)
    [] In(m, \h620, 16) -> <<"vertex_array", m - \h620, "divisor">> :> Flag(v)
    [] In(m, \h680, 8)  -> <<"blend", m - \h680, "color_mask">> :> Field(v, 0, 4)
    [] In(m, \h700, 64) -> HandleVertexArray(m - \h700, v)
    [] In(m, \h780, 56) -> HandleBlend(m - \h780, v)
    [] In(m, \h800, 12) -> HandleShader(m - \h800, v)
    [] m = \h4E4 -> Method(m) :> Field(v, 0, 4) @@ Method(\h4E5) :> Field(v, 16, 8)
    [] m = \h54F -> Method(m) :> Field(v, 0, 1) @@ <<"method", m, "one">> :> Field(v, 4, 1)
    [] m = \h64F -> Method(m) :> Field(v, 3, 1)
    [] m \in FlagMethods -> Method(m) :> Flag(v)
    [] m \in NibbleMethods -> Method(m) :> Field(v, 0, 4)
    [] m \in ByteMethods -> Method(m) :> Field(v, 0, 8)
    [] m \in WordMethods -> Method(m) :> v
    [] OTHER -> Nothing

(* Engine3D::HandleMethod on a register file.                              *)
HandleMethod(regs, m, v) == Written(m, v) @@ regs
=============================================================================
