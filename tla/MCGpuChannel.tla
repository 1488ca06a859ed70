---------------------------- MODULE MCGpuChannel ----------------------------
(* Push buffers for TLC: each exercises other parts of the decoder.        *)
EXTENDS GpuChannel

H(mode, method, arg) == MakeHeader(mode, method, arg, 0)

(* A program with both shaders, and a draw.                                *)
ProgramAndDraw ==
  << H(Increasing, \h582, 1), Num(256),
     H(Inline, \h800, 1), H(Inline, \h806, 64),
     H(Inline, \h805, 1), H(Inline, \h80B, 128),
     H(Inline, DrawArraysCount, 3) >>

(* Two draws through another 3D channel, blended; then blending is off.    *)
BlendedDraws ==
  << H(Inline, \h4D8, 1), H(Inline, \h790, 1),
     MakeHeader(NonIncreasing, DrawArraysCount, 2, 5), Num(3), Num(4),
     H(Inline, \h4D8, 0) >>

(* An indexed draw, a host command, a 2D method, an unknown mode, a clear, *)
(* and a draw that the word limit cuts off.                                *)
IndexedAndCut ==
  << H(Increasing, \h5F2, 1), Num(64),
     H(IncreaseOnce, DrawElementsCount, 2), Num(6),
     H(Inline, \h006, 1), MakeHeader(Inline, DrawArraysCount, 9, 1),
     H(Inline, ClearBuffers, 1), H(Increasing, \h35D, 2), Num(0), Num(5) >>

MCBuffers == {ProgramAndDraw, BlendedDraws, IndexedAndCut}
=============================================================================
