---------------------------- MODULE GbiCommands ----------------------------
(***************************************************************************)
(* A caller that writes one command after the other, with arguments inside  *)
(* and outside the ranges their fields have room for.                       *)
(***************************************************************************)
EXTENDS Gbi

CONSTANTS
  Arguments,     \* arguments
  Positions,  \* x, y of rectangles, in quarters of a pixel, some negative
  Steps,      \* texture steps per pixel, 5.10
  Quads,      \* four vertices of gSP1Quadrangle, all different
  FogBands    \* <<min, max>> of gSPFogPosition, min < max

VARIABLE sent

(***************************************************************************)
(* What was written last: ops, the opcodes meant; list, the packets; type   *)
(* and fields, the packet type that describes it and the arguments meant    *)
(* for its fields; args, the arguments that a property needs.               *)
(***************************************************************************)
Plain(ops, list) == [ops |-> ops, list |-> list, type |-> <<>>,
                     fields |-> <<>>, args |-> <<>>]
One(op, gfx) == Plain(<<op>>, <<gfx>>)
Typed(op, gfx, type, fields) ==
  [One(op, gfx) EXCEPT !.type = type, !.fields = fields]

Nothing == Plain(<<>>, <<>>)
Init == sent = Nothing

\* A flag or an index that selects one of several macros or constants.
Among(v, n) == v % n

DisplayLists(a, b, c) ==
  { One(G.SPNOOP, gSPNoOp), One(G.ENDDL, gSPEndDisplayList),
    Typed(G.DL, gSPDisplayList(a), Gdma, [par |-> G_DL_PUSH, addr |-> a]),
    Typed(G.DL, gSPBranchList(a), Gdma, [par |-> G_DL_NOPUSH, addr |-> a]),
    One(G.CULLDL, gSPCullDisplayList(a, b)),
    Plain(<<G.RDPHALF_1, G.BRANCH_Z>>, gSPBranchLessZraw(a, b, c)),
    Plain(<<G.RDPHALF_1, G.LOAD_UCODE>>, gSPLoadUcodeEx(a, b, c)),
    One(G.DMA_IO, gSPDmaRead(a, b, c)), One(G.DMA_IO, gSPDmaWrite(a, b, c)),
    Plain(<<G.RDPHALF_1, G.RDPHALF_2>>, gDPWord(a, b)),
    One(G.NOOP, gDPNoOpTag(a)), One(G.NOOP, gDPSetBlendMask(a)),
    Typed(G.NOOP, gDPNoOpTag3(a, b, c), Gdma,
          [par |-> a, len |-> c, addr |-> b]),
    One(RDP.FULLSYNC, gDPFullSync), One(RDP.TILESYNC, gDPTileSync),
    One(RDP.PIPESYNC, gDPPipeSync), One(RDP.LOADSYNC, gDPLoadSync) }

Geometry(a, b, c) ==
  { One(G.MTX, gSPMatrix(a, Among(b, 8))), One(G.POPMTX, gSPPopMatrixN(a)),
    One(G.VTX, gSPVertex(a, b, c)), One(G.MODIFYVTX, gSPModifyVertex(a, b, c)),
    One(G.TRI1, gSP1Triangle(<<a, b, c>>, Among(a, 3))),
    One(G.TRI2, gSP2Triangles(<<a, b, c>>, Among(b, 3),
                              <<c, a, b>>, Among(c, 3))),
    One(G.MOVEMEM, gSPViewport(a)), One(G.MOVEMEM, gSPLight(a, b)),
    Plain(<<G.MOVEMEM, G.MOVEMEM>>, gSPLookAt(a)),
    Plain(<<G.MOVEMEM, G.MOVEWORD>>, gSPForceMatrix(a)),
    Typed(G.MOVEWORD, gSPSegment(a, b), Gdma,
          [par |-> G_MW.SEGMENT, len |-> a * 4, addr |-> b]),
    Plain([i \in 1 .. 4 |-> G.MOVEWORD], gSPClipRatio(Among(a, 6) + 1)),
    One(G.MOVEWORD, gSPPerspNormalize(a)), One(G.MOVEWORD, gSPNumLights(a)),
    Plain(<<G.MOVEWORD, G.MOVEWORD>>, gSPLightColor(Among(a, 8) + 1, b)),
    One(G.MOVEWORD, gSPFogFactor(a, b)),
    One(G.TEXTURE, gSPTexture(a, b, c, a, b)),
    One(G.TEXTURE, gSPTextureL(a, b, c, c, a, b)) }

Modes(a, b, c) ==
  { One(G.GEOMETRYMODE, gSPSetGeometryMode(Bits(a))),
    One(G.GEOMETRYMODE, gSPClearGeometryMode(Bits(a))),
    One(G.GEOMETRYMODE, gSPLoadGeometryMode(Bits(a))),
    One(G.SETOTHERMODE_H, gSPSetOtherMode(G.SETOTHERMODE_H, a, b, Bits(c))),
    One(RDP.OTHERMODE, gDPSetOtherMode(Bits(a), Bits(b))),
    Typed(RDP.COMBINE, gDPSetCombine(Bits(a), Bits(b)), Gsetcombine,
          [muxs0 |-> a, muxs1 |-> b]),
    One(RDP.COMBINE, gDPSetCombineLERP(<<a, b, c, a, b, c, a, b>>,
                                       <<c, a, b, c, a, b, c, a>>)),
    One(RDP.ENVCOLOR, gDPSetEnvColor(a, b, c, a)),
    One(RDP.BLENDCOLOR, gDPSetBlendColor(a, b, c, a)),
    One(RDP.FOGCOLOR, gDPSetFogColor(a, b, c, a)),
    One(RDP.FILLCOLOR, gDPSetFillColor(GPACK_RGBA5551(a, b, c, a))),
    One(RDP.FILLCOLOR, gDPSetFillColor(GPACK_ZDZ(a, b))),
    One(RDP.PRIMDEPTH, gDPSetPrimDepth(a, b)),
    Typed(RDP.PRIMCOLOR, gDPSetPrimColor(a, b, c, c, c, c), Gsetcolor,
          [prim_min_level |-> a, prim_level |-> b]),
    One(RDP.CONVERT, gDPSetConvert(a, b, c, a, b, c)),
    One(RDP.KEYR, gDPSetKeyR(a, b, c)),
    One(RDP.KEYGB, gDPSetKeyGB(a, b, c, a, b, c)) }

Images(a, b, c) ==
  { Typed(RDP.CIMG, gDPSetColorImage(a, b, c, a), Gsetimg,
          [fmt |-> a, siz |-> b, wd |-> c - 1, dram |-> a]),
    Typed(RDP.ZIMG, gDPSetDepthImage(a), Gsetimg, [wd |-> 0, dram |-> a]),
    Typed(RDP.TIMG, gDPSetTextureImage(a, b, c, b), Gsetimg,
          [fmt |-> a, siz |-> b, wd |-> c - 1, dram |-> b]),
    Typed(RDP.TILE, gDPSetTile(a, b, c, a, b, c, <<a, b, c>>, <<c, b, a>>),
          Gsettile, [fmt |-> a, siz |-> b, line |-> c, tmem |-> a, tile |-> b,
                     palette |-> c, ct |-> a \div 2, mt |-> a, maskt |-> b,
                     shiftt |-> c, cs |-> c \div 2, ms |-> c, masks |-> b,
                     shifts |-> a]),
    Typed(RDP.TILESIZE, gDPSetTileSize(a, b, c, a, b), Gloadtile,
          [tile |-> a, sl |-> b, tl |-> c, sh |-> a, th |-> b]),
    Typed(RDP.LOADTILE, gDPLoadTile(a, b, c, a, b), Gloadtile,
          [tile |-> a, sl |-> b, tl |-> c, sh |-> a, th |-> b]),
    Typed(RDP.LOADBLOCK, gDPLoadBlock(a, b, c, a, b), Gloadtile,
          [tile |-> a, sl |-> b, tl |-> c, sh |-> Min({a, 2047}), th |-> b]),
    Typed(RDP.LOADTLUT, gDPLoadTLUTCmd(a, b), Gloadtile,
          [tile |-> a, sl |-> 0, tl |-> 0, sh |-> (b % 1024) * 4, th |-> 0]),
    Typed(RDP.TILESIZE, gDPSetHiliteTile(a, [x |-> b, y |-> c], b, c), Gloadtile,
          [tile |-> a, sl |-> b, tl |-> c, sh |-> (b - 1) * 4 + b,
           th |-> (c - 1) * 4 + c]),
    Typed(RDP.SCISSOR, gDPSetScissor(a, b, c, a, b), Gfillrect,
          [x0 |-> b, y0 |-> c, x1 |-> a, y1 |-> b]),
    One(RDP.SCISSOR, gDPSetScissorFrac(a, b, c, a, b)),
    One(RDP.FILLRECT, gDPFillRectangle(a, b, c, a)),
    One(RDP.FILLRECT, gDPScisFillRectangle(a, b, c, a)),
    Plain(<<RDP.TEXRECT>>, gDPTextureRectangle(a, b, c, a, b, c, a, b, c)),
    Plain(<<RDP.TEXRECTFLIP>>, gDPTextureRectangleFlip(a, b, c, a, b, c, a, b, c)),
    Plain(<<RDP.TEXRECT, G.RDPHALF_1, G.RDPHALF_2>>,
          gSPTextureRectangle(a, b, c, a, b, c, a, b, c)),
    Plain(<<RDP.TEXRECTFLIP, G.RDPHALF_1, G.RDPHALF_2>>,
          gSPTextureRectangleFlip(a, b, c, a, b, c, a, b, c)) }

SendList ==
  /\ sent = Nothing
  /\ \E a, b, c \in Arguments : sent' \in DisplayLists(a, b, c)
SendGeometry ==
  /\ sent = Nothing
  /\ \E a, b, c \in Arguments : sent' \in Geometry(a, b, c)
SendModes ==
  /\ sent = Nothing
  /\ \E a, b, c \in Arguments : sent' \in Modes(a, b, c)
SendImages ==
  /\ sent = Nothing
  /\ \E a, b, c \in Arguments : sent' \in Images(a, b, c)

SendQuadrangle ==
  /\ sent = Nothing
  /\ \E v \in Quads, flag \in 0 .. 3 :
       sent' = [One(G.QUAD, gSP1Quadrangle(v, flag)) EXCEPT
                  !.args = [quad |-> v, flag |-> flag]]

SendScissored ==
  /\ sent = Nothing
  /\ \E x, y \in Positions, dsdx, dtdy \in Steps :
       sent' = [Plain(<<RDP.TEXRECT, G.RDPHALF_1, G.RDPHALF_2>>,
                      gSPScisTextureRectangle(x, y, x + 64, y + 64, 0, 320, 640,
                                              dsdx, dtdy))
                  EXCEPT !.args = [x |-> x, y |-> y, dsdx |-> dsdx,
                                   dtdy |-> dtdy]]

SendFog ==
  /\ sent = Nothing
  /\ \E band \in FogBands :
       sent' = [One(G.MOVEWORD, gSPFogPosition(band[1], band[2])) EXCEPT
                  !.args = [min |-> band[1], max |-> band[2]]]

\* The caller goes on to the next packet: no packet depends on another.
MoveOn == sent # Nothing /\ sent' = Nothing

Next == \/ SendList \/ SendGeometry \/ SendModes \/ SendImages
        \/ SendQuadrangle \/ SendScissored \/ SendFog
        \/ MoveOn

Spec == Init /\ [][Next]_sent
-----------------------------------------------------------------------------
(***************************************************************************)
(* Packets are eight bytes, and each starts with the opcode of its macro    *)
(* whatever the arguments: a negative or an oversized argument spoils its   *)
(* own field and never turns the packet into another command.               *)
(***************************************************************************)
OpcodeKept ==
  \A i \in DOMAIN sent.ops :
    /\ sent.list[i].w0 \cap (24 .. 31) = Cmd(sent.ops[i])
    /\ sent.list[i].w0 \cup sent.list[i].w1 \subseteq Width

(***************************************************************************)
(* A packet read through the union Gfx, by the bit fields of its type, holds *)
(* the arguments of the macro, each cut to the width of its field.          *)
(***************************************************************************)
FieldsKept ==
  \A name \in DOMAIN sent.fields :
    LET type == sent.type
        width == type[CHOOSE i \in DOMAIN type : type[i][1] = name][2]
    IN  FieldBits(type, name, sent.list[1]) = Low(Bits(sent.fields[name]), width)

\* The number that the bits of a word stand for, from bit s on, w bits wide.
Number(word, s, w) ==
  MapThenSumSet(LAMBDA b : 2^b, Low(Shift(word \cap (s .. 31), -s), w))

\* The vertices of a triangle, as the microcode reads them.
Vertices(word) == <<Number(word, 16, 8) \div 2, Number(word, 8, 8) \div 2,
                    Number(word, 0, 8) \div 2>>
Edges(tri) == {<<tri[1], tri[2]>>, <<tri[2], tri[3]>>, <<tri[3], tri[1]>>}

(***************************************************************************)
(* Whatever corner flat shading takes its colour from (flag), the two        *)
(* triangles of a quadrangle share one diagonal, walked in both directions,  *)
(* and have the quadrangle's four sides in its own order: both face the way  *)
(* the quadrangle does.  The flagged corner comes first in a triangle.       *)
(***************************************************************************)
QuadsKeepTheirOutline ==
  "quad" \in DOMAIN sent.args =>
    LET v == sent.args.quad
        one == Vertices(sent.list[1].w0)
        two == Vertices(sent.list[1].w1)
        all == Edges(one) \cup Edges(two)
        inner == {e \in all : <<e[2], e[1]>> \in all}
    IN  /\ Edges(one) \cap Edges(two) = {}
        /\ Cardinality(inner) = 2
        /\ all \ inner = {<<v[1], v[2]>>, <<v[2], v[3]>>, <<v[3], v[4]>>,
                          <<v[4], v[1]>>}
        /\ one[1] = v[sent.args.flag + 1]

(***************************************************************************)
(* Cutting a rectangle off at the left or the top of the screen does not     *)
(* move the texture: the texel at its first visible column (line) is, within *)
(* 1/32 of a texel, the one that the whole rectangle has there.              *)
(***************************************************************************)
SameTexel(kept, start, cut, step) ==
  LET error == 128 * S16(kept) - (128 * start - cut * step)
  IN  IF cut >= 0 THEN S16(kept) = start ELSE 0 <= error /\ error < 128

ClippedRectKeepsTexels ==
  "dsdx" \in DOMAIN sent.args =>
    LET a == sent.args
    IN  /\ SameTexel(Number(sent.list[2].w1, 16, 16), 320, a.x, a.dsdx)
        /\ SameTexel(Number(sent.list[2].w1, 0, 16), 640, a.y, a.dtdy)
        /\ Number(sent.list[1].w1, 12, 12) = NotNegative(a.x)
        /\ Number(sent.list[1].w1, 0, 12) = NotNegative(a.y)

(***************************************************************************)
(* The comment over the fog macros: min is where fog begins and max is where *)
(* it is thickest, alpha = z * fm + fo for z from -1 (near plane, 0) to 1    *)
(* (far plane, 1000), clamped to a byte.  The microcode reads fm and fo as   *)
(* signed halves of the word.  So it is exactly for bands of four units and  *)
(* more: the multiplier of a narrower one does not fit its half.             *)
(***************************************************************************)
Alpha(word, n) ==
  LET exact == (n - 500) * S16(Number(word, 16, 16)) + 500 * S16(Number(word, 0, 16))
  IN  Min({255, Max({0, exact \div 500})})

FogThickens ==
  "min" \in DOMAIN sent.args =>
    LET fog(n) == Alpha(sent.list[1].w1, n)
        at == {0, sent.args.min, sent.args.max, 1000}
    IN  (/\ fog(sent.args.min) <= 1
         /\ fog(sent.args.max) >= 254
         /\ \A n1, n2 \in at : n1 <= n2 => fog(n1) <= fog(n2))
          <=> sent.args.max - sent.args.min >= 4
=============================================================================
