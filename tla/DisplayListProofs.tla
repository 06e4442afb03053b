------------------------- MODULE DisplayListProofs -------------------------
(***************************************************************************)
(* Machine-checked proofs about DisplayList, for all arguments of macros.  *)
(***************************************************************************)
EXTENDS DisplayList, PowersOfTwo

-----------------------------------------------------------------------------
(* Words.                                                                  *)

\* _SHIFTL cuts what it is given to w bits, and puts it at s.
LEMMA ShiftedIn ==
    ASSUME NEW v, NEW s \in Nat, NEW w \in Nat
    PROVE  Packets!_SHIFTL(v, s, w) \subseteq s .. (s + w - 1)
BY DEF Packets!_SHIFTL, Packets!Shift, Packets!Low

LEMMA ShiftedDown ==
    ASSUME NEW v, NEW s \in Nat, NEW w \in Nat
    PROVE  Packets!_SHIFTR(v, s, w) \subseteq 0 .. (w - 1)
BY DEF Packets!_SHIFTR, Packets!Shift, Packets!Low

LEMMA BitsInWord ==
    ASSUME NEW v
    PROVE  Packets!Bits(v) \subseteq Packets!Width
BY DEF Packets!Bits, Packets!Width

LEMMA BitIsDigit ==
    ASSUME NEW v \in Int, NEW b \in 0 .. 30
    PROVE  b \in Packets!Bits(v) <=> (v \div 2 ^ b) % 2 = 1
<1> DEFINE P == 2 ^ b
           u == -(v + 1)
<1>1. P \in Nat \ {0}
    <2>1. b \in Nat
        OBVIOUS
    <2> QED
        BY <2>1, PowerIsPositive, Zenon
<1>2. b \in Packets!Width
    BY DEF Packets!Width
<1>3. CASE v >= 0
    BY <1>3, Zenon DEF Packets!Bits
<1>4. CASE ~(v >= 0)
    <2>1. b \in Packets!Bits(v) <=> ~((u \div P) % 2 = 1)
        BY <1>2, <1>4, Zenon DEF Packets!Bits
    <2>2. (v \div P) % 2 = 1 <=> ~((u \div P) % 2 = 1)
        <3> DEFINE q == u \div P
                   r == u % P
        <3> HIDE DEF P
        <3>1. u \in Int
            OBVIOUS
        <3>2. q \in Int /\ r \in 0 .. P - 1 /\ u = P * q + r
            BY <1>1, <3>1, DivisionOf
        <3> HIDE DEF q, r
        <3>3. P * (-q - 1) = -(P * q) - P
            BY <1>1, <3>2
        <3>4. P - 1 - r \in 0 .. P - 1 /\ v = P * (-q - 1) + (P - 1 - r)
            BY <1>1, <3>2, <3>3
        <3>5. v \div P = -q - 1
            BY <1>1, <3>2, <3>4, DivisionIs
        <3>6. (-q - 1) % 2 = 1 <=> ~(q % 2 = 1)
            BY <3>2
        <3> QED
            BY <3>5, <3>6, Zenon DEF q
    <2> QED
        BY <2>1, <2>2, Zenon DEF P, u
<1> QED
    BY <1>3, <1>4

LEMMA LowBits ==
    ASSUME NEW v \in Int, NEW w \in 0 .. 31
    PROVE  Packets!Low(Packets!Bits(v), w) = Digits(v, w)
<1>1. \A b : b \in 0 .. w - 1 => b \in 0 .. 30
    OBVIOUS
<1>2. \A b \in 0 .. w - 1 : b \in Packets!Bits(v) <=> (v \div 2 ^ b) % 2 = 1
    BY <1>1, BitIsDigit, Zenon
<1> QED
    BY <1>2, Zenon DEF Packets!Low, Digits

\* A field of a word that macros put v into, and nothing else, is read as v
\* modulo what the field can hold.
LEMMA NumberOfField ==
    ASSUME NEW v \in Int, NEW s \in Nat, NEW w \in 0 .. 31, s + w <= 32, NEW word,
           \A b \in s .. s + w - 1 : b \in word <=> b \in Packets!_SHIFTL(v, s, w)
    PROVE  Packets!Number(word, s, w) = v % 2 ^ w
<1> DEFINE S == Packets!Low(Packets!Shift(word \cap (s .. 31), -s), w)
           W == Packets!Bits(v)
<1>1. \A b \in 0 .. w - 1 : b + s \in word <=> b \in W
    <2> HIDE DEF W
    <2>1. \A b \in 0 .. w - 1 : b + s \in Packets!_SHIFTL(v, s, w) <=> b \in W
        BY DEF Packets!_SHIFTL, Packets!Shift, Packets!Low, W
    <2>2. \A b \in 0 .. w - 1 : b + s \in s .. s + w - 1
        OBVIOUS
    <2> QED
        BY <2>1, <2>2
<1>2. S = Packets!Low(W, w)
    <2> HIDE DEF W
    <2>1. \A b : b \in S <=> b \in 0 .. w - 1 /\ b + s \in word
        BY DEF Packets!Shift, Packets!Low
    <2>2. \A b : b \in Packets!Low(W, w) <=> b \in 0 .. w - 1 /\ b \in W
        BY DEF Packets!Low
    <2> HIDE DEF S
    <2> QED
        BY <1>1, <2>1, <2>2, Zenon
<1>3. Packets!Number(word, s, w) = Value(S)
    BY Zenon DEF Packets!Number, Value, MapThenSumSet, MapThenFoldSet, Packets!MapThenSumSet,
        Packets!MapThenFoldSet
<1>4. w \in Nat
    OBVIOUS
<1> QED
    BY <1>2, <1>3, <1>4, LowBits, ValueOfDigits, Zenon

-----------------------------------------------------------------------------
(* Packets.                                                                *)

\* Bit by bit: the upper byte of the first word is the opcode c.
Packet(gfx, c) ==
    /\ \A b \in Packets!Cmd(c) : b \in gfx.w0
    /\ \A b \in gfx.w0 : b \in Packets!Cmd(c) \/ b \in 0 .. 23
    /\ \A b \in gfx.w1 : b \in 0 .. 31

LEMMA FieldBit ==
    \A v, b : \A s, w \in Nat :
        b \in Packets!_SHIFTL(v, s, w) => b \in Nat /\ s <= b /\ b < s + w
BY ShiftedIn
LEMMA WordBit == \A v, b : b \in Packets!Bits(v) => b \in 0 .. 31
BY BitsInWord DEF Packets!Width

-----------------------------------------------------------------------------
(* The macros.                                                             *)

\* What the RSP's macros are made of.
LEMMA Dma ==
    /\ \A c, s, l : Packet(Packets!gDma0p(c, s, l), c)
    /\ \A c, s, l, p : Packet(Packets!gDma1p(c, s, l, p), c)
    /\ \A c, adrs, len, idx, ofs : Packet(Packets!gDma2p(c, adrs, len, idx, ofs), c)
    /\ \A c, p0 : Packet(Packets!gImmp1(c, p0), c)
    /\ \A index, offset, data :
           Packet(Packets!gMoveWd(index, offset, data), Packets!G.MOVEWORD)
<1>1. \A c, s, l : Packet(Packets!gDma0p(c, s, l), c)
    BY FieldBit, WordBit DEF Packet, Packets!gDma0p, Packets!Gfx
<1>2. \A c, s, l, p : Packet(Packets!gDma1p(c, s, l, p), c)
    BY FieldBit, WordBit DEF Packet, Packets!gDma1p, Packets!Gfx
<1>3. \A c, adrs, len, idx, ofs : Packet(Packets!gDma2p(c, adrs, len, idx, ofs), c)
    BY FieldBit, WordBit DEF Packet, Packets!gDma2p, Packets!Gfx
<1>4. \A c, p0 : Packet(Packets!gImmp1(c, p0), c)
    BY FieldBit, WordBit DEF Packet, Packets!gImmp1, Packets!Gfx
<1> QED
    BY <1>1, <1>2, <1>3, <1>4, Zenon DEF Packets!gMoveWd

-----------------------------------------------------------------------------
(* The commands.                                                           *)

\* OpcodeKept, bit by bit.
Keeps(s) == \A i \in DOMAIN s.ops : Packet(s.list[i], s.ops[i])

LEMMA OneKeeps ==
    /\ \A op, gfx : Packet(gfx, op) => Keeps(Packets!One(op, gfx))
    /\ \A op, gfx, type, fields :
           Packet(gfx, op) => Keeps(Packets!Typed(op, gfx, type, fields))
BY DEF Keeps, Packets!One, Packets!Typed, Packets!Plain

LEMMA SomeKeep ==
    /\ \A op1, op2, gfx1, gfx2 :
           Packet(gfx1, op1) /\ Packet(gfx2, op2)
             => Keeps(Packets!Plain(<<op1, op2>>, <<gfx1, gfx2>>))
    /\ \A op1, op2, op3, gfx1, gfx2, gfx3 :
           Packet(gfx1, op1) /\ Packet(gfx2, op2) /\ Packet(gfx3, op3)
             => Keeps(Packets!Plain(<<op1, op2, op3>>, <<gfx1, gfx2, gfx3>>))
BY DEF Keeps, Packets!Plain

\* Lists of lists, no-ops, syncs.
LEMMA DisplayListsKeep ==
    ASSUME NEW a, NEW b, NEW c,
           NEW s \in Packets!DisplayLists(a, b, c)
    PROVE  Keeps(s)
<1>1. /\ Packet(Packets!gSPNoOp, Packets!G.SPNOOP)
      /\ Packet(Packets!gSPDisplayList(a), Packets!G.DL)
      /\ Packet(Packets!gSPBranchList(a), Packets!G.DL)
      /\ Packet(Packets!gDPNoOpTag3(a, b, c), Packets!G.NOOP)
    BY Dma
    DEF Packets!gSPNoOp, Packets!gSPDisplayList, Packets!gSPBranchList, Packets!gDPNoOpTag3
<1>2. /\ Packet(Packets!gSPEndDisplayList, Packets!G.ENDDL)
      /\ Packet(Packets!gSPCullDisplayList(a, b), Packets!G.CULLDL)
      /\ Packet(Packets!gSPDmaRead(a, b, c), Packets!G.DMA_IO)
      /\ Packet(Packets!gSPDmaWrite(a, b, c), Packets!G.DMA_IO)
    BY FieldBit, WordBit
    DEF Packet, Packets!Gfx, Packets!gSPEndDisplayList, Packets!gSPCullDisplayList,
        Packets!gSPDmaRead, Packets!gSPDmaWrite, Packets!gSPDma_io
<1>3. /\ Packet(Packets!gDPNoOpTag(a), Packets!G.NOOP)
      /\ Packet(Packets!gDPSetBlendMask(a), Packets!G.NOOP)
      /\ Packet(Packets!gDPFullSync, Packets!RDP.FULLSYNC)
      /\ Packet(Packets!gDPTileSync, Packets!RDP.TILESYNC)
      /\ Packet(Packets!gDPPipeSync, Packets!RDP.PIPESYNC)
      /\ Packet(Packets!gDPLoadSync, Packets!RDP.LOADSYNC)
    BY FieldBit, WordBit
    DEF Packet, Packets!Gfx, Packets!gDPNoOpTag, Packets!gDPParam, Packets!gDPSetBlendMask,
        Packets!gDPNoOp, Packets!gDPNoParam, Packets!gDPFullSync, Packets!gDPTileSync,
        Packets!gDPPipeSync, Packets!gDPLoadSync
<1>4. Keeps(Packets!Plain(<<Packets!G.RDPHALF_1, Packets!G.BRANCH_Z>>,
                        Packets!gSPBranchLessZraw(a, b, c)))
    BY FieldBit, WordBit
    DEF Keeps, Packets!Plain, Packet, Packets!Gfx, Packets!gSPBranchLessZraw, Packets!gImmp1
<1>5. Keeps(Packets!Plain(<<Packets!G.RDPHALF_1, Packets!G.LOAD_UCODE>>,
                        Packets!gSPLoadUcodeEx(a, b, c)))
    BY FieldBit, WordBit
    DEF Keeps, Packets!Plain, Packet, Packets!Gfx, Packets!gSPLoadUcodeEx, Packets!gImmp1
<1>6. Keeps(Packets!Plain(<<Packets!G.RDPHALF_1, Packets!G.RDPHALF_2>>,
                        Packets!gDPWord(a, b)))
    BY Dma, SomeKeep
    DEF Packets!gDPWord
<1> QED
    BY <1>1, <1>2, <1>3, <1>4, <1>5, <1>6, OneKeeps DEF Packets!DisplayLists

\* Matrices, vertices, triangles, lights, textures on or off.
LEMMA GeometryKeeps ==
    ASSUME NEW a, NEW b, NEW c,
           NEW s \in Packets!Geometry(a, b, c)
    PROVE  Keeps(s)
<1>1. /\ Packet(Packets!gSPMatrix(a, Packets!Among(b, 8)), Packets!G.MTX)
      /\ Packet(Packets!gSPPopMatrixN(a), Packets!G.POPMTX)
      /\ Packet(Packets!gSPViewport(a), Packets!G.MOVEMEM)
      /\ Packet(Packets!gSPLight(a, b), Packets!G.MOVEMEM)
    BY Dma
    DEF Packets!gSPMatrix, Packets!gSPPopMatrixN, Packets!gSPViewport, Packets!gSPLight
<1>2. /\ Packet(Packets!gSPSegment(a, b), Packets!G.MOVEWORD)
      /\ Packet(Packets!gSPPerspNormalize(a), Packets!G.MOVEWORD)
      /\ Packet(Packets!gSPNumLights(a), Packets!G.MOVEWORD)
    BY Dma
    DEF Packets!gSPSegment, Packets!gSPPerspNormalize, Packets!gSPNumLights
<1>3. /\ Packet(Packets!gSPVertex(a, b, c), Packets!G.VTX)
      /\ Packet(Packets!gSPModifyVertex(a, b, c), Packets!G.MODIFYVTX)
    BY FieldBit, WordBit
    DEF Packet, Packets!Gfx, Packets!gSPVertex, Packets!gSPModifyVertex
<1>4. /\ Packet(Packets!gSP1Triangle(<<a, b, c>>, Packets!Among(a, 3)), Packets!G.TRI1)
      /\ Packet(Packets!gSP2Triangles(<<a, b, c>>, Packets!Among(b, 3),
                                 <<c, a, b>>, Packets!Among(c, 3)), Packets!G.TRI2)
    BY FieldBit, WordBit
    DEF Packet, Packets!Gfx, Packets!gSP1Triangle, Packets!gSP2Triangles,
        Packets!__gsSP1Triangle_w1f, Packets!__gsSP1Triangle_w1
<1>5. /\ Packet(Packets!gSPTextureL(a, b, c, c, a, b), Packets!G.TEXTURE)
      /\ Packet(Packets!gSPTexture(a, b, c, a, b), Packets!G.TEXTURE)
    BY FieldBit, WordBit
    DEF Packet, Packets!Gfx, Packets!gSPTextureL, Packets!gSPTexture
<1>6. Packet(Packets!gSPFogFactor(a, b), Packets!G.MOVEWORD)
    BY FieldBit, WordBit
    DEF Packet, Packets!Gfx, Packets!gSPFogFactor, Packets!gMoveWd, Packets!gDma1p
<1>7. Keeps(Packets!Plain(<<Packets!G.MOVEMEM, Packets!G.MOVEMEM>>,
                        Packets!gSPLookAt(a)))
    BY Dma, SomeKeep
    DEF Packets!gSPLookAt, Packets!gSPLookAtX, Packets!gSPLookAtY
<1>8. Keeps(Packets!Plain(<<Packets!G.MOVEMEM, Packets!G.MOVEWORD>>,
                        Packets!gSPForceMatrix(a)))
    BY Dma, SomeKeep
    DEF Packets!gSPForceMatrix
<1>9. Keeps(Packets!Plain(<<Packets!G.MOVEWORD, Packets!G.MOVEWORD>>,
                        Packets!gSPLightColor(Packets!Among(a, 8) + 1, b)))
    BY Dma, SomeKeep
    DEF Packets!gSPLightColor
<1>10. Keeps(Packets!Plain([i \in 1 .. 4 |-> Packets!G.MOVEWORD],
                        Packets!gSPClipRatio(Packets!Among(a, 6) + 1)))
    BY Dma
    DEF Keeps, Packets!Plain, Packets!gSPClipRatio
<1> QED
    BY <1>1, <1>2, <1>3, <1>4, <1>5, <1>6, <1>7, <1>8, <1>9, <1>10, OneKeeps DEF Packets!Geometry

\* Geometry and other modes, the combiner, colours.
LEMMA ModesKeep ==
    ASSUME NEW a, NEW b, NEW c,
           NEW s \in Packets!Modes(a, b, c)
    PROVE  Keeps(s)
<1>1. /\ Packet(Packets!gSPSetGeometryMode(Packets!Bits(a)), Packets!G.GEOMETRYMODE)
      /\ Packet(Packets!gSPClearGeometryMode(Packets!Bits(a)), Packets!G.GEOMETRYMODE)
      /\ Packet(Packets!gSPLoadGeometryMode(Packets!Bits(a)), Packets!G.GEOMETRYMODE)
    BY FieldBit, WordBit
    DEF Packet, Packets!Gfx, Packets!gSPSetGeometryMode, Packets!gSPClearGeometryMode,
        Packets!gSPLoadGeometryMode, Packets!gSPGeometryMode, Packets!Low
<1>2. /\ Packet(Packets!gSPSetOtherMode(Packets!G.SETOTHERMODE_H, a, b, Packets!Bits(c)), Packets!G.SETOTHERMODE_H)
      /\ Packet(Packets!gDPSetOtherMode(Packets!Bits(a), Packets!Bits(b)), Packets!RDP.OTHERMODE)
    BY FieldBit, WordBit
    DEF Packet, Packets!Gfx, Packets!gSPSetOtherMode, Packets!gDPSetOtherMode, Packets!Low
<1>3. Packet(Packets!gDPSetCombine(Packets!Bits(a), Packets!Bits(b)), Packets!RDP.COMBINE)
    BY FieldBit, WordBit
    DEF Packet, Packets!Gfx, Packets!gDPSetCombine, Packets!Low
<1>4. Packet(Packets!gDPSetCombineLERP(<<a, b, c, a, b, c, a, b>>,
                                         <<c, a, b, c, a, b, c, a>>), Packets!RDP.COMBINE)
    BY FieldBit, WordBit
    DEF Packet, Packets!Gfx, Packets!gDPSetCombineLERP, Packets!gDPSetCombine,
        Packets!GCCc0w0, Packets!GCCc1w0, Packets!GCCc0w1, Packets!GCCc1w1, Packets!Low
<1>5. /\ Packet(Packets!gDPSetEnvColor(a, b, c, a), Packets!RDP.ENVCOLOR)
      /\ Packet(Packets!gDPSetBlendColor(a, b, c, a), Packets!RDP.BLENDCOLOR)
      /\ Packet(Packets!gDPSetFogColor(a, b, c, a), Packets!RDP.FOGCOLOR)
      /\ Packet(Packets!gDPSetPrimDepth(a, b), Packets!RDP.PRIMDEPTH)
      /\ Packet(Packets!gDPSetPrimColor(a, b, c, c, c, c), Packets!RDP.PRIMCOLOR)
    BY FieldBit, WordBit
    DEF Packet, Packets!Gfx, Packets!gDPSetEnvColor, Packets!gDPSetBlendColor,
        Packets!gDPSetFogColor, Packets!gDPSetPrimDepth, Packets!gDPSetPrimColor,
        Packets!gDPSetColor, Packets!RGBA
<1>6. /\ Packet(Packets!gDPSetFillColor(Packets!GPACK_RGBA5551(a, b, c, a)), Packets!RDP.FILLCOLOR)
      /\ Packet(Packets!gDPSetFillColor(Packets!GPACK_ZDZ(a, b)), Packets!RDP.FILLCOLOR)
    BY FieldBit, WordBit
    DEF Packet, Packets!Gfx, Packets!gDPSetFillColor, Packets!gDPSetColor,
        Packets!GPACK_RGBA5551, Packets!GPACK_ZDZ, Packets!Low, Packets!Width
<1>7. /\ Packet(Packets!gDPSetConvert(a, b, c, a, b, c), Packets!RDP.CONVERT)
      /\ Packet(Packets!gDPSetKeyR(a, b, c), Packets!RDP.KEYR)
      /\ Packet(Packets!gDPSetKeyGB(a, b, c, a, b, c), Packets!RDP.KEYGB)
    BY FieldBit, WordBit, ShiftedDown
    DEF Packet, Packets!Gfx, Packets!gDPSetConvert, Packets!gDPSetKeyR, Packets!gDPSetKeyGB,
        Packets!RGBA
<1> QED
    BY <1>1, <1>2, <1>3, <1>4, <1>5, <1>6, <1>7, OneKeeps DEF Packets!Modes

\* A textured rectangle takes three packets.
LEMMA Rectangle ==
    ASSUME NEW xl, NEW yl, NEW xh, NEW yh, NEW tile, NEW s, NEW t, NEW dsdx, NEW dtdy
    PROVE  /\ Keeps(Packets!Plain(<<Packets!RDP.TEXRECT, Packets!G.RDPHALF_1, Packets!G.RDPHALF_2>>,
                Packets!gSPTextureRectangle(xl, yl, xh, yh, tile, s, t, dsdx, dtdy)))
           /\ Keeps(Packets!Plain(<<Packets!RDP.TEXRECTFLIP, Packets!G.RDPHALF_1, Packets!G.RDPHALF_2>>,
                Packets!gSPTextureRectangleFlip(xl, yl, xh, yh, tile, s, t, dsdx, dtdy)))
<1>1. \A cmd : Packet(Packets!TexRectCorners(cmd, xl, yl, xh, yh, tile), cmd)
    BY FieldBit DEF Packet, Packets!TexRectCorners, Packets!Gfx
<1>2. \A cmd, hi, lo : Packet(Packets!Half(cmd, Packets!Halves(hi, lo)), cmd)
    BY FieldBit DEF Packet, Packets!Half, Packets!Halves, Packets!Gfx
<1> QED
    BY <1>1, <1>2, SomeKeep DEF Packets!gSPTextureRectangle, Packets!gSPTextureRectangleFlip

\* Images, tiles, loads, rectangles.
LEMMA ImagesKeep ==
    ASSUME NEW a, NEW b, NEW c,
           NEW s \in Packets!Images(a, b, c)
    PROVE  Keeps(s)
<1>1. /\ Packet(Packets!gDPSetColorImage(a, b, c, a), Packets!RDP.CIMG)
      /\ Packet(Packets!gDPSetDepthImage(a), Packets!RDP.ZIMG)
      /\ Packet(Packets!gDPSetTextureImage(a, b, c, b), Packets!RDP.TIMG)
    BY FieldBit, WordBit
    DEF Packet, Packets!Gfx, Packets!gDPSetColorImage, Packets!gDPSetDepthImage,
        Packets!gDPSetTextureImage, Packets!gSetImage
<1>2. Packet(Packets!gDPSetTile(a, b, c, a, b, c, <<a, b, c>>, <<c, b, a>>), Packets!RDP.TILE)
    BY FieldBit, WordBit
    DEF Packet, Packets!Gfx, Packets!gDPSetTile
<1>3. /\ Packet(Packets!gDPSetTileSize(a, b, c, a, b), Packets!RDP.TILESIZE)
      /\ Packet(Packets!gDPLoadTile(a, b, c, a, b), Packets!RDP.LOADTILE)
      /\ Packet(Packets!gDPLoadBlock(a, b, c, a, b), Packets!RDP.LOADBLOCK)
      /\ Packet(Packets!gDPLoadTLUTCmd(a, b), Packets!RDP.LOADTLUT)
      /\ Packet(Packets!gDPSetHiliteTile(a, [x |-> b, y |-> c], b, c), Packets!RDP.TILESIZE)
    BY FieldBit, WordBit
    DEF Packet, Packets!Gfx, Packets!gDPSetTileSize, Packets!gDPLoadTile,
        Packets!gDPLoadBlock, Packets!gDPLoadTLUTCmd, Packets!gDPSetHiliteTile,
        Packets!gDPLoadTileGeneric
<1>4. /\ Packet(Packets!gDPSetScissor(a, b, c, a, b), Packets!RDP.SCISSOR)
      /\ Packet(Packets!gDPSetScissorFrac(a, b, c, a, b), Packets!RDP.SCISSOR)
      /\ Packet(Packets!gDPFillRectangle(a, b, c, a), Packets!RDP.FILLRECT)
      /\ Packet(Packets!gDPScisFillRectangle(a, b, c, a), Packets!RDP.FILLRECT)
    BY FieldBit, WordBit
    DEF Packet, Packets!Gfx, Packets!gDPSetScissor, Packets!gDPSetScissorFrac,
        Packets!gDPFillRectangle, Packets!gDPScisFillRectangle
<1>5. Keeps(Packets!Plain(<<Packets!RDP.TEXRECT>>,
                        Packets!gDPTextureRectangle(a, b, c, a, b, c, a, b, c)))
    BY FieldBit, WordBit
    DEF Keeps, Packets!Plain, Packet, Packets!Gfx, Packets!gDPTextureRectangle,
        Packets!TexRectCorners
<1>6. Keeps(Packets!Plain(<<Packets!RDP.TEXRECTFLIP>>,
                        Packets!gDPTextureRectangleFlip(a, b, c, a, b, c, a, b, c)))
    BY FieldBit, WordBit
    DEF Keeps, Packets!Plain, Packet, Packets!Gfx, Packets!gDPTextureRectangleFlip,
        Packets!TexRectCorners
<1>7. Keeps(Packets!Plain(<<Packets!RDP.TEXRECT, Packets!G.RDPHALF_1, Packets!G.RDPHALF_2>>,
                        Packets!gSPTextureRectangle(a, b, c, a, b, c, a, b, c)))
    BY Rectangle
<1>8. Keeps(Packets!Plain(<<Packets!RDP.TEXRECTFLIP, Packets!G.RDPHALF_1, Packets!G.RDPHALF_2>>,
                        Packets!gSPTextureRectangleFlip(a, b, c, a, b, c, a, b, c)))
    BY Rectangle
<1> QED
    BY <1>1, <1>2, <1>3, <1>4, <1>5, <1>6, <1>7, <1>8, OneKeeps DEF Packets!Images

-----------------------------------------------------------------------------
(* The caller.                                                             *)

\* What it writes.
Listed(s) == \E a, b, c \in Arguments :
    s \in Packets!DisplayLists(a, b, c) \cup Packets!Geometry(a, b, c)
            \cup Packets!Modes(a, b, c) \cup Packets!Images(a, b, c)

Quadrangle(s, v, flag) ==
    s = [Packets!One(Packets!G.QUAD, Packets!gSP1Quadrangle(v, flag))
           EXCEPT !.args = [quad |-> v, flag |-> flag]]

Scissored(s, x, y, dsdx, dtdy) ==
    s = [Packets!Plain(<<Packets!RDP.TEXRECT, Packets!G.RDPHALF_1, Packets!G.RDPHALF_2>>,
           Packets!gSPScisTextureRectangle(x, y, x + 64, y + 64, 0, 320, 640, dsdx, dtdy))
           EXCEPT !.args = [x |-> x, y |-> y, dsdx |-> dsdx, dtdy |-> dtdy]]

Fog(s, min, max) ==
    s = [Packets!One(Packets!G.MOVEWORD, Packets!gSPFogPosition(min, max))
           EXCEPT !.args = [min |-> min, max |-> max]]

Written(s) ==
    \/ s = Packets!Nothing
    \/ Listed(s)
    \/ \E v \in Quads, flag \in 0 .. 3 : Quadrangle(s, v, flag)
    \/ \E x, y \in Positions, dsdx, dtdy \in Steps : Scissored(s, x, y, dsdx, dtdy)
    \/ \E band \in FogBands : Fog(s, band[1], band[2])

LEMMA InitWritten == AllInit => Written(packet)
BY Zenon DEF AllInit, Packets!Init, Written

LEMMA NextWritten ==
    ASSUME Written(packet), [AllNext]_allVars
    PROVE  Written(packet)'
<1>1. CASE Packets!SendList \/ Packets!SendGeometry \/ Packets!SendModes \/ Packets!SendImages
    <2>1. Listed(packet')
        BY <1>1 DEF Listed, Packets!SendList, Packets!SendGeometry, Packets!SendModes,
            Packets!SendImages
    <2> QED
        BY <2>1, Zenon DEF Written
<1>2. CASE Packets!SendQuadrangle
    BY <1>2, Zenon DEF Packets!SendQuadrangle, Quadrangle, Written
<1>3. CASE Packets!SendScissored
    BY <1>3, Zenon DEF Packets!SendScissored, Scissored, Written
<1>4. CASE Packets!SendFog
    BY <1>4, Zenon DEF Packets!SendFog, Fog, Written
<1>5. CASE Packets!MoveOn
    BY <1>5, Zenon DEF Packets!MoveOn, Written
<1>6. CASE UNCHANGED packet
    BY <1>6, Zenon DEF Written
<1>7. Packets!Next \/ UNCHANGED packet
    BY Zenon DEF AllNext, allVars, WritePackets, LoadTextures, SetModes, SetScene
<1> QED
    BY <1>1, <1>2, <1>3, <1>4, <1>5, <1>6, <1>7, Zenon DEF Packets!Next

LEMMA AllWritten == AllSpec => []Written(packet)
BY InitWritten, NextWritten, PTL DEF AllSpec

-----------------------------------------------------------------------------
(* Opcodes.                                                                *)

LEMMA WrittenKeeps ==
    ASSUME NEW s, Written(s)
    PROVE  Keeps(s)
<1>1. CASE s = Packets!Nothing
    BY <1>1 DEF Packets!Nothing, Packets!Plain, Keeps
<1>2. CASE Listed(s)
    BY <1>2, DisplayListsKeep, GeometryKeeps, ModesKeep, ImagesKeep, Zenon DEF Listed
<1>3. ASSUME NEW v \in Quads, NEW flag \in 0 .. 3, Quadrangle(s, v, flag)
      PROVE  Keeps(s)
    <2>1. Packet(Packets!gSP1Quadrangle(v, flag), Packets!G.QUAD)
        BY FieldBit DEF Packet, Packets!Gfx, Packets!gSP1Quadrangle,
           Packets!__gsSP1Quadrangle_w1f, Packets!__gsSP1Quadrangle_w2f,
           Packets!__gsSP1Triangle_w1
    <2> QED
        BY <1>3, <2>1 DEF Quadrangle, Keeps, Packets!One, Packets!Plain
<1>4. ASSUME NEW x, NEW y, NEW dsdx, NEW dtdy, Scissored(s, x, y, dsdx, dtdy)
      PROVE  Keeps(s)
    <2>1. Keeps(Packets!Plain(<<Packets!RDP.TEXRECT, Packets!G.RDPHALF_1, Packets!G.RDPHALF_2>>,
            Packets!gSPScisTextureRectangle(x, y, x + 64, y + 64, 0, 320, 640, dsdx, dtdy)))
        BY Rectangle DEF Packets!gSPScisTextureRectangle
    <2> QED
        BY <1>4, <2>1 DEF Scissored, Keeps, Packets!Plain
<1>5. ASSUME NEW min, NEW max, Fog(s, min, max)
      PROVE  Keeps(s)
    <2>1. Packet(Packets!gSPFogPosition(min, max), Packets!G.MOVEWORD)
        BY FieldBit DEF Packet, Packets!Gfx, Packets!gSPFogPosition, Packets!gSPFogFactor,
           Packets!gMoveWd, Packets!gDma1p
    <2> QED
        BY <1>5, <2>1 DEF Fog, Keeps, Packets!One, Packets!Plain
<1> QED
    BY <1>1, <1>2, <1>3, <1>4, <1>5, Zenon DEF Written

LEMMA KeepsOpcodes == Keeps(packet) => OpcodeKept
<1> SUFFICES ASSUME Keeps(packet), NEW i \in DOMAIN packet.ops
             PROVE  /\ packet.list[i].w0 \cap (24 .. 31) = Packets!Cmd(packet.ops[i])
                    /\ packet.list[i].w0 \cup packet.list[i].w1 \subseteq Packets!Width
    BY Zenon DEF OpcodeKept, Packets!OpcodeKept
<1> DEFINE c == packet.ops[i]
           w0 == packet.list[i].w0
           w1 == packet.list[i].w1
<1>1. Packets!Cmd(c) \subseteq 24 .. 31
    BY ShiftedIn DEF Packets!Cmd
<1>2. /\ \A b \in Packets!Cmd(c) : b \in w0
      /\ \A b \in w0 : b \in Packets!Cmd(c) \/ b \in 0 .. 23
      /\ \A b \in w1 : b \in 0 .. 31
    BY Zenon DEF Keeps, Packet
<1> HIDE DEF c, w0, w1
<1>3. \A b : b \in w0 \cap (24 .. 31) <=> b \in Packets!Cmd(c)
    BY <1>1, <1>2
<1>4. w0 \cap (24 .. 31) = Packets!Cmd(c)
    BY <1>3, Zenon
<1>5. w0 \cup w1 \subseteq Packets!Width
    BY <1>1, <1>2 DEF Packets!Width
<1> QED
    BY <1>4, <1>5, Zenon DEF c, w0, w1

\* Whatever the arguments, positions, steps and fog bands: every packet that a
\* macro of gbi.h writes has the macro's opcode, and fits its two words.
THEOREM OpcodesKept == AllSpec => []OpcodeKept
<1>1. Written(packet) => OpcodeKept
    BY WrittenKeeps, KeepsOpcodes, Zenon
<1> QED
    BY AllWritten, <1>1, PTL

-----------------------------------------------------------------------------
(* What the properties look for.                                           *)

\* The arguments that the properties look for are those of one macro each.
LEMMA ArgumentsOf ==
    ASSUME NEW s, Written(s)
    PROVE  /\ "min" \in DOMAIN s.args => \E band \in FogBands : Fog(s, band[1], band[2])
           /\ "dsdx" \in DOMAIN s.args =>
                \E x, y \in Positions, dsdx, dtdy \in Steps : Scissored(s, x, y, dsdx, dtdy)
           /\ "quad" \in DOMAIN s.args =>
                \E v \in Quads, flag \in 0 .. 3 : Quadrangle(s, v, flag)
<1>1. /\ \A ops, gfxs : Packets!Plain(ops, gfxs).args = << >>
      /\ \A op, gfx : Packets!One(op, gfx).args = << >>
      /\ \A op, gfx, type, fields : Packets!Typed(op, gfx, type, fields).args = << >>
    BY SMT DEF Packets!Plain, Packets!One, Packets!Typed
<1>2. CASE s = Packets!Nothing \/ Listed(s)
    <2>1. s.args = << >>
        <3>1. ASSUME NEW a, NEW b, NEW c, s \in Packets!DisplayLists(a, b, c)
              PROVE  s.args = << >>
            BY <1>1, <3>1, Zenon DEF Packets!DisplayLists
        <3>2. ASSUME NEW a, NEW b, NEW c, s \in Packets!Geometry(a, b, c)
              PROVE  s.args = << >>
            BY <1>1, <3>2, Zenon DEF Packets!Geometry
        <3>3. ASSUME NEW a, NEW b, NEW c, s \in Packets!Modes(a, b, c)
              PROVE  s.args = << >>
            BY <1>1, <3>3, Zenon DEF Packets!Modes
        <3>4. ASSUME NEW a, NEW b, NEW c, s \in Packets!Images(a, b, c)
              PROVE  s.args = << >>
            BY <1>1, <3>4, SMT DEF Packets!Images
        <3>5. CASE s = Packets!Nothing
            BY <1>1, <3>5, Zenon DEF Packets!Nothing
        <3>6. CASE Listed(s)
            <4>1. PICK a, b, c :
                    s \in Packets!DisplayLists(a, b, c) \cup Packets!Geometry(a, b, c)
                            \cup Packets!Modes(a, b, c) \cup Packets!Images(a, b, c)
                BY <3>6, Zenon DEF Listed
            <4> QED
                BY <4>1, <3>1, <3>2, <3>3, <3>4, Zenon
        <3> QED
            BY <1>2, <3>5, <3>6, Zenon
    <2> QED
        BY <2>1, SMT
<1>3. CASE \E v \in Quads, flag \in 0 .. 3 : Quadrangle(s, v, flag)
    <2>1. PICK v \in Quads, flag \in 0 .. 3 : Quadrangle(s, v, flag)
        BY <1>3, Zenon
    <2>2. s.args = [quad |-> v, flag |-> flag]
        BY <2>1, SMT DEF Quadrangle, Packets!One, Packets!Plain
    <2>3. "min" \notin DOMAIN s.args /\ "dsdx" \notin DOMAIN s.args
        BY <2>2, SMT
    <2> QED
        BY <1>3, <2>3, Zenon
<1>4. CASE \E x, y \in Positions, dsdx, dtdy \in Steps : Scissored(s, x, y, dsdx, dtdy)
    <2>1. PICK x, y, dsdx, dtdy : Scissored(s, x, y, dsdx, dtdy)
        BY <1>4, Zenon
    <2>2. s.args = [x |-> x, y |-> y, dsdx |-> dsdx, dtdy |-> dtdy]
        BY <2>1, SMT DEF Scissored, Packets!Plain
    <2>3. "min" \notin DOMAIN s.args /\ "quad" \notin DOMAIN s.args
        BY <2>2, SMT
    <2> QED
        BY <1>4, <2>3, Zenon
<1>5. CASE \E band \in FogBands : Fog(s, band[1], band[2])
    <2>1. PICK min, max : Fog(s, min, max)
        BY <1>5, Zenon
    <2>2. s.args = [min |-> min, max |-> max]
        BY <2>1, SMT DEF Fog, Packets!One, Packets!Plain
    <2>3. "dsdx" \notin DOMAIN s.args /\ "quad" \notin DOMAIN s.args
        BY <2>2, SMT
    <2> QED
        BY <1>5, <2>3, Zenon
<1> QED
    BY <1>2, <1>3, <1>4, <1>5, Zenon DEF Written

-----------------------------------------------------------------------------
(* Quadrangles.                                                            *)

\* Of vertices in the RSP, as far as gbi.h can name them.
Indices == 0 .. 127

\* A word whose lower three bytes are those of a triangle has its vertices.
LEMMA VerticesOf ==
    ASSUME NEW v1 \in Indices, NEW v2 \in Indices, NEW v3 \in Indices, NEW word,
           \A n \in 0 .. 23 :
             n \in word <=> n \in Packets!__gsSP1Triangle_w1(<<v1, v2, v3>>)
    PROVE  Packets!Vertices(word) = <<v1, v2, v3>>
<1> DEFINE a == v1 * 2
           b == v2 * 2
           c == v3 * 2
<1>1. /\ a \in Int /\ (a % 256) \div 2 = v1
      /\ b \in Int /\ (b % 256) \div 2 = v2
      /\ c \in Int /\ (c % 256) \div 2 = v3
    BY SMT DEF Indices
<1>2. Packets!__gsSP1Triangle_w1(<<v1, v2, v3>>)
        = Packets!_SHIFTL(a, 16, 8) \cup Packets!_SHIFTL(b, 8, 8) \cup Packets!_SHIFTL(c, 0, 8)
    BY SMT DEF Packets!__gsSP1Triangle_w1
<1> HIDE DEF a, b, c
<1>3. \A n \in 0 .. 23 : n \in word <=> \/ n \in Packets!_SHIFTL(a, 16, 8)
                                        \/ n \in Packets!_SHIFTL(b, 8, 8)
                                        \/ n \in Packets!_SHIFTL(c, 0, 8)
    BY <1>2, SMT
<1>4. \A n \in 16 .. 16 + 8 - 1 : n \in word <=> n \in Packets!_SHIFTL(a, 16, 8)
    BY <1>3, FieldBit, SMT
<1>5. \A n \in 8 .. 8 + 8 - 1 : n \in word <=> n \in Packets!_SHIFTL(b, 8, 8)
    BY <1>3, FieldBit, SMT
<1>6. \A n \in 0 .. 0 + 8 - 1 : n \in word <=> n \in Packets!_SHIFTL(c, 0, 8)
    BY <1>3, FieldBit, SMT
<1>7. /\ 0 \in Nat /\ 8 \in Nat /\ 16 \in Nat /\ 8 \in 0 .. 31
      /\ 16 + 8 <= 32 /\ 8 + 8 <= 32 /\ 0 + 8 <= 32
    BY SMT
<1>8. /\ Packets!Number(word, 16, 8) = a % 2 ^ 8
      /\ Packets!Number(word, 8, 8) = b % 2 ^ 8
      /\ Packets!Number(word, 0, 8) = c % 2 ^ 8
    <2>1. a \in Int /\ b \in Int /\ c \in Int
        BY <1>1, Zenon
    <2>2. Packets!Number(word, 16, 8) = a % 2 ^ 8
        BY <2>1, <1>4, <1>7, NumberOfField, Zenon
    <2>3. Packets!Number(word, 8, 8) = b % 2 ^ 8
        BY <2>1, <1>5, <1>7, NumberOfField, Zenon
    <2>4. Packets!Number(word, 0, 8) = c % 2 ^ 8
        BY <2>1, <1>6, <1>7, NumberOfField, Zenon
    <2> QED
        BY <2>2, <2>3, <2>4, Zenon
<1>9. /\ Packets!Number(word, 16, 8) = a % 256
      /\ Packets!Number(word, 8, 8) = b % 256
      /\ Packets!Number(word, 0, 8) = c % 256
    BY <1>8, SMT
<1> QED
    BY <1>1, <1>9, SMT DEF Packets!Vertices

LEMMA TwoOf ==
    ASSUME NEW a, NEW b, a # b
    PROVE  Packets!Cardinality({a, b}) = 2
<1> DEFINE S == {a}
<1>1. IsFiniteSet(S) /\ Cardinality(S) = 1
    BY FS_Singleton, Zenon
<1>2. b \notin S
    BY Zenon
<1>3. S \cup {b} = {a, b}
    BY Zenon
<1> HIDE DEF S
<1>4. Cardinality(S \cup {b}) = Cardinality(S) + 1
    BY <1>1, <1>2, FS_AddElement, Zenon
<1>5. Cardinality({a, b}) = 2
    BY <1>1, <1>3, <1>4, SMT
<1> QED
    BY <1>5, Zenon DEF Cardinality, Packets!Cardinality

\* Of two triangles; those that both have, in opposite directions.
AllEdges(one, two) == Packets!Edges(one) \cup Packets!Edges(two)
InnerEdges(one, two) == {e \in AllEdges(one, two) : <<e[2], e[1]>> \in AllEdges(one, two)}

\* Two triangles that share the diagonal from p to r.
LEMMA Outline ==
    ASSUME NEW p, NEW q, NEW r, NEW s,
           p # q, p # r, p # s, q # r, q # s, r # s,
           NEW one, one = <<p, q, r>>, NEW two, two = <<p, r, s>>
    PROVE  /\ Packets!Edges(one) \cap Packets!Edges(two) = {}
           /\ Packets!Cardinality(InnerEdges(one, two)) = 2
           /\ AllEdges(one, two) \ InnerEdges(one, two)
                = {<<p, q>>, <<q, r>>, <<r, s>>, <<s, p>>}
<1> DEFINE all == AllEdges(one, two)
           inner == InnerEdges(one, two)
<1>1. /\ Packets!Edges(one) = {<<p, q>>, <<q, r>>, <<r, p>>}
      /\ Packets!Edges(two) = {<<p, r>>, <<r, s>>, <<s, p>>}
    BY SMT DEF Packets!Edges
<1>2. all = {<<p, q>>, <<q, r>>, <<r, p>>, <<p, r>>, <<r, s>>, <<s, p>>}
    BY <1>1, SMT DEF AllEdges
<1>3. Packets!Edges(one) \cap Packets!Edges(two) = {}
    BY <1>1, SMT
<1>4. inner = {<<p, r>>, <<r, p>>}
    <2>1. inner = {e \in all : <<e[2], e[1]>> \in all}
        BY Zenon DEF InnerEdges
    <2> HIDE DEF all, inner
    <2> QED
        BY <1>2, <2>1, SMT
<1>5. all \ inner = {<<p, q>>, <<q, r>>, <<r, s>>, <<s, p>>}
    BY <1>2, <1>4, SMT
<1>6. Packets!Cardinality(inner) = 2
    <2>1. <<p, r>> # <<r, p>>
        BY SMT
    <2>2. Packets!Cardinality({<<p, r>>, <<r, p>>}) = 2
        <3> DEFINE d == <<p, r>>
                   u == <<r, p>>
        <3> HIDE DEF d, u
        <3>1. d # u
            BY <2>1, Zenon DEF d, u
        <3>2. Packets!Cardinality({d, u}) = 2
            BY <3>1, TwoOf, Zenon
        <3> QED
            BY <3>2, Zenon DEF d, u
    <2> QED
        BY <1>4, <2>2, Zenon
<1> QED
    BY <1>3, <1>5, <1>6, Zenon

\* Whatever the vertices and the flag: gSP1Quadrangle writes two triangles that
\* share a diagonal and face the way the quadrangle does.
THEOREM QuadsAreWhole == AllSpec => []QuadsKeepTheirOutline
<1>1. ASSUME NEW v \in Quads, NEW flag \in 0 .. 3, Quadrangle(packet, v, flag)
      PROVE  QuadsKeepTheirOutline
    <2> DEFINE one == Packets!Vertices(packet.list[1].w0)
               two == Packets!Vertices(packet.list[1].w1)
               all == AllEdges(one, two)
               inner == InnerEdges(one, two)
    <2>1. /\ v[1] \in Indices /\ v[2] \in Indices /\ v[3] \in Indices /\ v[4] \in Indices
          /\ v[1] # v[2] /\ v[1] # v[3] /\ v[1] # v[4]
          /\ v[2] # v[3] /\ v[2] # v[4] /\ v[3] # v[4]
        BY QuadAssumption, SMT DEF QuadAssumption, Indices
    <2>2. PICK p, q, r, s :
            /\ p \in Indices /\ q \in Indices /\ r \in Indices /\ s \in Indices
            /\ p # q /\ p # r /\ p # s /\ q # r /\ q # s /\ r # s
            /\ Packets!__gsSP1Quadrangle_w1f(v, flag)
                 = Packets!__gsSP1Triangle_w1(<<p, q, r>>)
            /\ Packets!__gsSP1Quadrangle_w2f(v, flag)
                 = Packets!__gsSP1Triangle_w1(<<p, r, s>>)
            /\ p = v[flag + 1]
            /\ {<<p, q>>, <<q, r>>, <<r, s>>, <<s, p>>}
                 = {<<v[1], v[2]>>, <<v[2], v[3]>>, <<v[3], v[4]>>, <<v[4], v[1]>>}
        <3>1. CASE flag = 0
            <4> WITNESS v[1], v[2], v[3], v[4]
            <4> QED
                BY <2>1, <3>1, SMT DEF Packets!__gsSP1Quadrangle_w1f, Packets!__gsSP1Quadrangle_w2f
        <3>2. CASE flag = 1
            <4> WITNESS v[2], v[3], v[4], v[1]
            <4> QED
                BY <2>1, <3>2, SMT DEF Packets!__gsSP1Quadrangle_w1f, Packets!__gsSP1Quadrangle_w2f
        <3>3. CASE flag = 2
            <4> WITNESS v[3], v[4], v[1], v[2]
            <4> QED
                BY <2>1, <3>3, SMT DEF Packets!__gsSP1Quadrangle_w1f, Packets!__gsSP1Quadrangle_w2f
        <3>4. CASE flag = 3
            <4> WITNESS v[4], v[1], v[2], v[3]
            <4> QED
                BY <2>1, <3>4, SMT, ZenonT(60) DEF Packets!__gsSP1Quadrangle_w1f, Packets!__gsSP1Quadrangle_w2f
        <3>5. flag = 0 \/ flag = 1 \/ flag = 2 \/ flag = 3
            BY SMT
        <3> QED
            BY <3>1, <3>2, <3>3, <3>4, <3>5, Zenon
    <2>3. /\ packet.list[1] = Packets!gSP1Quadrangle(v, flag)
          /\ packet.args = [quad |-> v, flag |-> flag]
        BY <1>1, SMT DEF Quadrangle, Packets!One, Packets!Plain
    <2>4. /\ packet.list[1].w0 = Packets!Cmd(Packets!G.QUAD)
                                   \cup Packets!__gsSP1Triangle_w1(<<p, q, r>>)
          /\ packet.list[1].w1 = Packets!__gsSP1Triangle_w1(<<p, r, s>>)
        BY <2>2, <2>3, SMT DEF Packets!gSP1Quadrangle, Packets!Gfx
    <2>5. \A n \in 0 .. 23 : n \notin Packets!Cmd(Packets!G.QUAD)
        BY FieldBit, SMT DEF Packets!Cmd
    <2>6. one = <<p, q, r>> /\ two = <<p, r, s>>
        <3>1. /\ \A n \in 0 .. 23 : n \in packet.list[1].w0
                    <=> n \in Packets!__gsSP1Triangle_w1(<<p, q, r>>)
              /\ \A n \in 0 .. 23 : n \in packet.list[1].w1
                    <=> n \in Packets!__gsSP1Triangle_w1(<<p, r, s>>)
            BY <2>4, <2>5, Zenon
        <3>2. p \in Indices /\ q \in Indices /\ r \in Indices /\ s \in Indices
            BY <2>2, Zenon
        <3>3. one = <<p, q, r>>
            BY <3>1, <3>2, VerticesOf, Zenon
        <3>4. two = <<p, r, s>>
            BY <3>1, <3>2, VerticesOf, Zenon
        <3> QED
            BY <3>3, <3>4, Zenon
    <2> HIDE DEF one, two
    <2>7. /\ Packets!Edges(one) \cap Packets!Edges(two) = {}
          /\ Packets!Cardinality(inner) = 2
          /\ all \ inner = {<<p, q>>, <<q, r>>, <<r, s>>, <<s, p>>}
        <3>1. p # q /\ p # r /\ p # s /\ q # r /\ q # s /\ r # s
            BY <2>2, Zenon
        <3> HIDE DEF inner, all
        <3>2. /\ Packets!Edges(one) \cap Packets!Edges(two) = {}
              /\ Packets!Cardinality(InnerEdges(one, two)) = 2
              /\ AllEdges(one, two) \ InnerEdges(one, two)
                   = {<<p, q>>, <<q, r>>, <<r, s>>, <<s, p>>}
            BY <2>6, <3>1, Outline, SMT
        <3> QED
            BY <3>2, Zenon DEF inner, all
    <2>8. one[1] = v[flag + 1]
        BY <2>2, <2>6, SMT
    <2> HIDE DEF inner, all
    <2>9. packet.args.quad = v /\ packet.args.flag = flag
        BY <2>3, SMT
    <2>10. all \ inner = {<<v[1], v[2]>>, <<v[2], v[3]>>, <<v[3], v[4]>>, <<v[4], v[1]>>}
        BY <2>2, <2>7, Zenon
    <2> QED
        BY <2>7, <2>8, <2>9, <2>10, Zenon
        DEF QuadsKeepTheirOutline, Packets!QuadsKeepTheirOutline, one, two, inner, all,
            AllEdges, InnerEdges
<1>2. ASSUME Written(packet) PROVE QuadsKeepTheirOutline
    <2>1. CASE "quad" \in DOMAIN packet.args
        BY <1>1, <1>2, <2>1, ArgumentsOf, Zenon
    <2>2. CASE ~("quad" \in DOMAIN packet.args)
        BY <2>2, Zenon DEF QuadsKeepTheirOutline, Packets!QuadsKeepTheirOutline
    <2> QED
        BY <2>1, <2>2, Zenon
<1> QED
    BY AllWritten, <1>2, PTL

-----------------------------------------------------------------------------
(* Words in two halves.                                                    *)

LEMMA LargerOf ==
    ASSUME NEW a \in Int, NEW b \in Int
    PROVE  /\ Packets!Max({a, b}) = IF a >= b THEN a ELSE b
           /\ Packets!Min({a, b}) = IF a <= b THEN a ELSE b
<1>1. PICK m \in {a, b} : m = IF a >= b THEN a ELSE b
    OBVIOUS
<1>2. PICK n \in {a, b} : n = IF a <= b THEN a ELSE b
    OBVIOUS
<1>3. Packets!Max({a, b}) = m
    <2>1. \A y \in {a, b} : m >= y
        BY <1>1
    <2>2. \A x \in {a, b} : (\A y \in {a, b} : x >= y) => x = m
        BY <1>1
    <2> QED
        BY <2>1, <2>2, Zenon DEF Packets!Max
<1>4. Packets!Min({a, b}) = n
    <2>1. \A y \in {a, b} : n <= y
        BY <1>2
    <2>2. \A x \in {a, b} : (\A y \in {a, b} : x <= y) => x = n
        BY <1>2
    <2> QED
        BY <2>1, <2>2, Zenon DEF Packets!Min
<1> QED
    BY <1>1, <1>2, <1>3, <1>4

\* The halves of a word, read as signed.
LEMMA SignedHalves ==
    ASSUME NEW a \in Int, NEW b \in Int
    PROVE  /\ Packets!S16(Packets!Number(Packets!Halves(a, b), 16, 16)) = Packets!S16(a)
           /\ Packets!S16(Packets!Number(Packets!Halves(a, b), 0, 16)) = Packets!S16(b)
<1> DEFINE w == Packets!Halves(a, b)
<1>1. \A c \in 16 .. 16 + 16 - 1 : c \in w <=> c \in Packets!_SHIFTL(a, 16, 16)
    BY FieldBit DEF Packets!Halves
<1>2. \A c \in 0 .. 0 + 16 - 1 : c \in w <=> c \in Packets!_SHIFTL(b, 0, 16)
    BY FieldBit DEF Packets!Halves
<1> HIDE DEF w
<1>3. 16 \in Nat /\ 0 \in Nat /\ 16 \in 0 .. 31 /\ 16 + 16 <= 32 /\ 0 + 16 <= 32
    OBVIOUS
<1>4. Packets!Number(w, 16, 16) = a % 2 ^ 16 /\ Packets!Number(w, 0, 16) = b % 2 ^ 16
    BY <1>1, <1>2, <1>3, NumberOfField, Zenon
<1>5. Packets!Number(w, 16, 16) = a % 65536 /\ Packets!Number(w, 0, 16) = b % 65536
    BY <1>4
<1>6. (a % 65536) % 65536 = a % 65536 /\ (b % 65536) % 65536 = b % 65536
    OBVIOUS
<1> QED
    BY <1>5, <1>6 DEF w, Packets!S16

\* Truncation leaves a remainder of the sign of what is divided.
LEMMA Truncated ==
    ASSUME NEW a \in Int, NEW d \in Nat \ {0}
    PROVE  \E r \in Int : /\ Packets!CDiv(a, d) \in Int
                          /\ a = d * Packets!CDiv(a, d) + r
                          /\ IF a >= 0 THEN 0 <= r /\ r < d ELSE r <= 0 /\ -d < r
<1>1. CASE a >= 0
    <2>1. a \div d \in Int /\ a % d \in 0 .. d - 1 /\ a = d * (a \div d) + (a % d)
        BY DivisionOf
    <2> DEFINE q == a \div d
               r == a % d
    <2>2. Packets!CDiv(a, d) = q
        BY <1>1, Zenon DEF Packets!CDiv
    <2>3. q \in Int /\ r \in 0 .. d - 1 /\ a = d * q + r
        BY <2>1
    <2> HIDE DEF q, r
    <2> QED
        BY <1>1, <2>2, <2>3
<1>2. CASE ~(a >= 0)
    <2> DEFINE q == (-a) \div d
               r == (-a) % d
    <2>1. -a \in Int
        OBVIOUS
    <2>2. q \in Int /\ r \in 0 .. d - 1 /\ -a = d * q + r
        BY <2>1, DivisionOf
    <2>3. Packets!CDiv(a, d) = -q
        BY <1>2, Zenon DEF Packets!CDiv
    <2> HIDE DEF q, r
    <2>4. d * (-q) = -(d * q)
        BY <2>2
    <2>5. a = d * (-q) + (-r) /\ -r \in Int /\ -r <= 0 /\ -d < -r /\ -q \in Int
        BY <2>2, <2>4
    <2> QED
        BY <1>2, <2>3, <2>5
<1> QED
    BY <1>1, <1>2

-----------------------------------------------------------------------------
(* Fog.                                                                    *)

Clamp(v) == IF v < 0 THEN 0 ELSE IF v > 255 THEN 255 ELSE v
Thickness(n, fm, fo) == (n - 500) * fm + 500 * fo

LEMMA AlphaIs ==
    ASSUME NEW a \in Int, NEW b \in Int, NEW n \in Int
    PROVE  Packets!Alpha(Packets!Halves(a, b), n)
             = Clamp(Thickness(n, Packets!S16(a), Packets!S16(b)) \div 500)
<1> DEFINE w == Packets!Halves(a, b)
           v == Thickness(n, Packets!S16(a), Packets!S16(b)) \div 500
<1>1. Packets!S16(a) \in Int /\ Packets!S16(b) \in Int
    BY DEF Packets!S16
<1>2. v \in Int
    BY <1>1 DEF Thickness
<1>3. Packets!Alpha(w, n) = Packets!Min({255, Packets!Max({0, v})})
    <2>1. /\ Packets!S16(Packets!Number(w, 16, 16)) = Packets!S16(a)
          /\ Packets!S16(Packets!Number(w, 0, 16)) = Packets!S16(b)
        BY SignedHalves, SMT
    <2> DEFINE u == Thickness(n, Packets!S16(Packets!Number(w, 16, 16)),
                              Packets!S16(Packets!Number(w, 0, 16))) \div 500
    <2>2. u = v
        BY <2>1
    <2>3. Packets!Alpha(w, n) = Packets!Min({255, Packets!Max({0, u})})
        BY DEF Packets!Alpha, Thickness
    <2> HIDE DEF u, v
    <2> QED
        BY <2>2, <2>3
<1> HIDE DEF v, w
<1>4. Packets!Max({0, v}) = IF 0 >= v THEN 0 ELSE v
    BY <1>2, LargerOf
<1> DEFINE m == Packets!Max({0, v})
<1>5. m \in Int
    BY <1>2, <1>4
<1>6. Packets!Min({255, m}) = IF 255 <= m THEN 255 ELSE m
    <2> HIDE DEF m
    <2>1. 255 \in Int
        OBVIOUS
    <2> QED
        BY <1>5, <2>1, LargerOf, Zenon
<1>7. Packets!Min({255, m}) = Clamp(v)
    <2>1. m = IF 0 >= v THEN 0 ELSE v
        BY <1>4
    <2> HIDE DEF m
    <2> QED
        BY <1>2, <1>6, <2>1 DEF Clamp
<1> QED
    BY <1>3, <1>7, Zenon DEF v, w, m

LEMMA ClampRises ==
    ASSUME NEW x \in Int, NEW y \in Int, x <= y
    PROVE  Clamp(x \div 500) <= Clamp(y \div 500)
<1>1. x \div 500 <= y \div 500 /\ x \div 500 \in Int /\ y \div 500 \in Int
    OBVIOUS
<1> QED
    BY <1>1 DEF Clamp

LEMMA ThicknessRises ==
    ASSUME NEW m \in Nat, NEW n1 \in Int, NEW n2 \in Int, n1 <= n2, NEW fo \in Int
    PROVE  /\ Thickness(n1, m, fo) \in Int /\ Thickness(n2, m, fo) \in Int
           /\ Thickness(n1, m, fo) <= Thickness(n2, m, fo)
<1>1. m * (n1 - 500) <= m * (n2 - 500)
    BY TimesMonotonic
<1>2. m * (n1 - 500) = (n1 - 500) * m /\ m * (n2 - 500) = (n2 - 500) * m
    OBVIOUS
<1>3. (n1 - 500) * m \in Int /\ (n2 - 500) * m \in Int
    OBVIOUS
<1> QED
    BY <1>1, <1>2, <1>3 DEF Thickness

LEMMA Small ==
    ASSUME NEW m \in Nat \ {0}, NEW e \in Int, NEW n \in Int
    PROVE  /\ m * e < m * n => e < n
           /\ m * n < m * e => n < e
<1>1. ASSUME n <= e PROVE ~(m * e < m * n)
    BY <1>1, TimesMonotonic
<1>2. ASSUME e <= n PROVE ~(m * n < m * e)
    BY <1>2, TimesMonotonic
<1> QED
    BY <1>1, <1>2

\* The macro's two quotients for a band of d units that begins k before the
\* middle, and their remainders.
Band(d, k, fm, r1, fo, r2) ==
    /\ d \in 1 .. 1000 /\ k \in -500 .. 500 /\ -500 <= d - k /\ d - k <= 500
    /\ fm \in Int /\ r1 \in Int /\ 128000 = d * fm + r1 /\ 0 <= r1 /\ r1 < d
    /\ fo \in Int /\ r2 \in Int /\ k * 256 = d * fo + r2
    /\ IF k >= 0 THEN 0 <= r2 /\ r2 < d ELSE r2 <= 0 /\ -d < r2

LEMMA BandArithmetic ==
    ASSUME NEW d, NEW k, NEW fm, NEW r1, NEW fo, NEW r2, Band(d, k, fm, r1, fo, r2), d >= 4
    PROVE  /\ 1 <= fm /\ fm <= 32000
           /\ -32000 <= fo /\ fo <= 32000
           /\ 500 * fo - k * fm < 500
           /\ (d - k) * fm + 500 * fo >= 127000
<1> USE DEF Band
<1> DEFINE e == 500 * fo - k * fm
           df == d * fm
           do == d * fo
           kf == k * fm
           kr == k * r1
           dr == d * r1
<1>1. d \in Nat \ {0} /\ r1 \in Nat
    BY SMT
<1>2. df \in Int /\ do \in Int /\ kf \in Int /\ kr \in Int /\ dr \in Int /\ e \in Int
    BY SMT
<1>3. df = 128000 - r1 /\ do = k * 256 - r2
    BY SMT
<1>4. d * e = kr - 500 * r2 /\ d * (e - r1) = kr - 500 * r2 - dr
    <2>1. d * e = 500 * do - k * df
        BY SMT
    <2>2. k * df = k * 128000 - kr
        BY <1>3, SMT
    <2>3. d * (e - r1) = d * e - dr
        BY <1>2, SMT
    <2>4. d * e \in Int
        BY <1>2, SMT
    <2> HIDE DEF e, df, do, kf, kr, dr
    <2> QED
        BY <1>2, <1>3, <2>1, <2>2, <2>3, <2>4, SMT
<1>5. -500 * r1 <= kr /\ kr <= 500 * r1 /\ -500 * r1 <= kr - dr
      /\ (k >= 0 => 0 <= kr) /\ (k < 0 => kr <= 0)
    <2>1. r1 * (-500) <= r1 * k /\ r1 * k <= r1 * 500 /\ r1 * (-500) <= r1 * (k - d)
        BY <1>1, TimesMonotonic, SMT
    <2>2. (k >= 0 => r1 * 0 <= r1 * k) /\ (k < 0 => r1 * k <= r1 * 0)
        BY <1>1, TimesMonotonic, SMT
    <2>3. r1 * k = kr /\ r1 * (k - d) = kr - dr
        BY SMT
    <2>4. r1 * (-500) = -500 * r1 /\ r1 * 500 = 500 * r1 /\ r1 * 0 = 0
        BY SMT
    <2> HIDE DEF kr, dr
    <2> QED
        BY <2>1, <2>2, <2>3, <2>4, SMT
<1>6. e < 500 /\ e - r1 > -1000
    <2> HIDE DEF e, df, do, kf, kr, dr
    <2>1. kr - 500 * r2 < 500 * d /\ -1000 * d < kr - 500 * r2 - dr
        BY <1>2, <1>5, SMT
    <2>2. d * e < d * 500 /\ d * (-1000) < d * (e - r1)
        BY <1>2, <1>4, <2>1, SMT
    <2>3. 500 \in Int /\ -1000 \in Int /\ e - r1 \in Int
        BY <1>2, SMT
    <2> QED
        BY <1>1, <1>2, <2>2, <2>3, Small, SMT
<1>7. (d - k) * fm + 500 * fo >= 127000
    <2>1. (d - k) * fm = df - kf /\ e = 500 * fo - kf
        BY SMT
    <2> HIDE DEF e, df, kf
    <2> QED
        BY <1>2, <1>3, <1>6, <2>1, SMT
<1>8. 1 <= fm /\ fm <= 32000
    <2>1. d * 0 < d * fm
        BY <1>3, SMT DEF df
    <2>2. 0 < fm
        BY <1>1, <2>1, Small, SMT
    <2>3. fm * 4 <= fm * d
        BY <2>2, TimesMonotonic, SMT
    <2>4. fm * d = df
        BY SMT
    <2> HIDE DEF df
    <2> QED
        BY <1>2, <1>3, <2>2, <2>3, <2>4, SMTT(30)
<1>9. -32000 <= fo /\ fo <= 32000
    <2>1. ASSUME fo >= 0 PROVE fo * 4 <= do
        <3>1. fo * 4 <= fo * d
            BY <2>1, TimesMonotonic, SMT
        <3> QED
            BY <3>1, SMT
    <2>2. ASSUME fo < 0 PROVE (-fo) * 4 <= -do
        <3>1. (-fo) * 4 <= (-fo) * d
            BY <2>2, TimesMonotonic, SMT
        <3> QED
            BY <3>1, SMT
    <2> HIDE DEF do
    <2> QED
        BY <1>2, <1>3, <2>1, <2>2, SMTT(30)
<1> QED
    BY <1>6, <1>7, <1>8, <1>9, SMT

\* What the packet of a band says.
FogOf(fm, fo, n) == Clamp(Thickness(n, Packets!S16(fm), Packets!S16(fo)) \div 500)

ThickensFrom(fm, fo, min, max) ==
    /\ FogOf(fm, fo, min) <= 1
    /\ FogOf(fm, fo, max) >= 254
    /\ \A n1, n2 \in {0, min, max, 1000} : n1 <= n2 => FogOf(fm, fo, n1) <= FogOf(fm, fo, n2)

\* z on the screen.
Depths == 0 .. 1000

\* What gSPFogPosition hands to gSPFogFactor.
Scale(min, max) == Packets!CDiv(128000, max - min)
Offset(min, max) == Packets!CDiv((500 - min) * 256, max - min)

BandFor(min, max) ==
    \E r1, r2 : Band(max - min, 500 - min, Scale(min, max), r1, Offset(min, max), r2)

LEMMA BandOf ==
    ASSUME NEW min \in Depths, NEW max \in Depths, min < max
    PROVE  BandFor(min, max)
<1> DEFINE d == max - min
           k == 500 - min
           n == 128000
           m == k * 256
<1>1. d \in Nat \ {0} /\ n \in Int /\ m \in Int
    BY SMT DEF Depths
<1>2. /\ d \in 1 .. 1000 /\ k \in -500 .. 500 /\ -500 <= d - k /\ d - k <= 500
    BY SMT DEF Depths
<1>3. n >= 0 /\ (m >= 0 <=> k >= 0)
    BY SMT DEF Depths
<1> HIDE DEF d, k, n, m
<1>4. \E r \in Int : /\ Packets!CDiv(n, d) \in Int /\ n = d * Packets!CDiv(n, d) + r
                     /\ IF n >= 0 THEN 0 <= r /\ r < d ELSE r <= 0 /\ -d < r
    BY <1>1, Truncated, Zenon
<1>5. \E r \in Int : /\ Packets!CDiv(m, d) \in Int /\ m = d * Packets!CDiv(m, d) + r
                     /\ IF m >= 0 THEN 0 <= r /\ r < d ELSE r <= 0 /\ -d < r
    BY <1>1, Truncated, Zenon
<1>6. PICK r1 \in Int : /\ Packets!CDiv(n, d) \in Int /\ n = d * Packets!CDiv(n, d) + r1
                        /\ 0 <= r1 /\ r1 < d
    BY <1>4, <1>3, Zenon
<1>7. PICK r2 \in Int : /\ Packets!CDiv(m, d) \in Int /\ m = d * Packets!CDiv(m, d) + r2
                        /\ IF k >= 0 THEN 0 <= r2 /\ r2 < d ELSE r2 <= 0 /\ -d < r2
    BY <1>5, <1>3, Zenon
<1>8. n = 128000 /\ m = k * 256
    BY SMT DEF n, m
<1> DEFINE fm == Packets!CDiv(n, d)
           fo == Packets!CDiv(m, d)
<1>9. Band(d, k, fm, r1, fo, r2)
    <2> HIDE DEF fm, fo
    <2>1. /\ fm \in Int /\ n = d * fm + r1 /\ 0 <= r1 /\ r1 < d
          /\ fo \in Int /\ m = d * fo + r2
          /\ IF k >= 0 THEN 0 <= r2 /\ r2 < d ELSE r2 <= 0 /\ -d < r2
        BY <1>6, <1>7, SMT DEF fm, fo
    <2> QED
        BY <1>2, <1>8, <2>1, SMT DEF Band
<1>10. \E p, q : Band(d, k, fm, p, fo, q)
    <2> HIDE DEF fm, fo
    <2> QED
        BY <1>9, Zenon
<1> QED
    BY <1>10 DEF d, k, n, m, BandFor, Scale, Offset

LEMMA Thickens ==
    ASSUME NEW min \in Depths, NEW max \in Depths, min < max,
           BandFor(min, max)
    PROVE  ThickensFrom(Scale(min, max), Offset(min, max), min, max) <=> max - min >= 4
<1> DEFINE fm == Scale(min, max)
           fo == Offset(min, max)
<1>5. PICK r1, r2 : Band(max - min, 500 - min, fm, r1, fo, r2)
    BY SMT DEF BandFor
<1> HIDE DEF fm, fo
<1> DEFINE T(n) == Thickness(n, Packets!S16(fm), Packets!S16(fo))
<1> USE DEF Depths
<1>0. fm \in Int /\ fo \in Int
    BY <1>5, SMT DEF Band
<1>1. Packets!S16(fm) \in Int /\ Packets!S16(fo) \in Int
    BY <1>0, SMT DEF Packets!S16
<1>2. \A n \in Int : T(n) \in Int
    BY <1>1, SMT DEF Thickness
<1>3. CASE max - min >= 4
    <2> DEFINE d == max - min
               k == 500 - min
    <2>1. Band(d, k, fm, r1, fo, r2) /\ d >= 4
        BY <1>3, <1>5, SMT
    <2>2. /\ 1 <= fm /\ fm <= 32000
          /\ -32000 <= fo /\ fo <= 32000
          /\ 500 * fo - k * fm < 500
          /\ (d - k) * fm + 500 * fo >= 127000
        <3> HIDE DEF d, k
        <3> QED
            BY <2>1, BandArithmetic, SMT
    <2>3. Packets!S16(fm) = fm /\ Packets!S16(fo) = fo
        <3>1. 1 <= fm /\ fm <= 32000 /\ -32000 <= fo /\ fo <= 32000
            BY <2>2, SMT
        <3> QED
            BY <1>0, <3>1, SMTT(40) DEF Packets!S16
    <2>4. T(min) < 500
        <3>1. (min - 500) * fm = -(k * fm)
            BY <1>0, SMT
        <3> QED
            BY <1>0, <2>2, <2>3, <3>1, SMT DEF Thickness
    <2>5. T(max) >= 127000
        <3>1. (max - 500) * fm = (d - k) * fm
            BY <1>0, SMT
        <3> QED
            BY <1>0, <2>2, <2>3, <3>1, SMT DEF Thickness
    <2>6. ASSUME NEW n1 \in Int, NEW n2 \in Int, n1 <= n2
          PROVE  T(n1) <= T(n2)
        <3>1. fm \in Nat
            BY <1>0, <2>2, SMT
        <3> QED
            BY <1>0, <2>3, <2>6, <3>1, ThicknessRises, SMT
    <2>7. min \in Int /\ max \in Int /\ {0, min, max, 1000} \subseteq Int
        BY SMT
    <2>8. FogOf(fm, fo, min) <= 1
        <3> DEFINE x == T(min)
        <3>1. x \in Int /\ x < 500 /\ FogOf(fm, fo, min) = Clamp(x \div 500)
            BY <1>2, <2>4, <2>7, SMT DEF FogOf
        <3> HIDE DEF x
        <3> QED
            BY <3>1, SMT DEF Clamp
    <2>9. FogOf(fm, fo, max) >= 254
        <3> DEFINE x == T(max)
        <3>1. x \in Int /\ x >= 127000 /\ FogOf(fm, fo, max) = Clamp(x \div 500)
            BY <1>2, <2>5, <2>7, SMT DEF FogOf
        <3> HIDE DEF x
        <3> QED
            BY <3>1, SMT DEF Clamp
    <2>10. ASSUME NEW n1 \in {0, min, max, 1000}, NEW n2 \in {0, min, max, 1000}, n1 <= n2
           PROVE  FogOf(fm, fo, n1) <= FogOf(fm, fo, n2)
        <3> DEFINE x == T(n1)
                   y == T(n2)
        <3>1. n1 \in Int /\ n2 \in Int
            BY <2>7, SMT
        <3>2. x <= y /\ x \in Int /\ y \in Int
            BY <1>2, <2>6, <2>10, <3>1, SMT
        <3>3. FogOf(fm, fo, n1) = Clamp(x \div 500) /\ FogOf(fm, fo, n2) = Clamp(y \div 500)
            BY SMT DEF FogOf
        <3> HIDE DEF x, y
        <3> QED
            BY <3>2, <3>3, ClampRises, SMT
    <2> QED
        BY <1>3, <2>8, <2>9, <2>10, SMT DEF ThickensFrom, fm, fo
<1>4. CASE ~(max - min >= 4)
    <2> DEFINE x == T(min)
               y == T(max)
    <2>1. Packets!S16(fm) < 0
        <3>1. max - min = 1 => fm = 128000
            BY <1>5, SMT DEF Band
        <3>2. max - min = 2 => fm = 64000
            BY <1>5, SMT DEF Band
        <3>3. max - min = 3 => fm = 42666
            BY <1>5, SMT DEF Band
        <3>4. max - min = 1 \/ max - min = 2 \/ max - min = 3
            BY <1>4, SMT
        <3> QED
            BY <3>1, <3>2, <3>3, <3>4, SMT DEF Packets!S16
    <2>2. y <= x /\ x \in Int /\ y \in Int
        <3> DEFINE m == Packets!S16(fm)
        <3>1. -m \in Nat
            BY <1>1, <2>1, SMT
        <3>2. (-m) * (min - 500) <= (-m) * (max - 500)
            <4> DEFINE a == min - 500
                       b == max - 500
            <4>1. a \in Int /\ b \in Int /\ a <= b
                BY SMT
            <4> HIDE DEF m, a, b
            <4>2. (-m) * a <= (-m) * b
                BY <3>1, <4>1, TimesMonotonic
            <4> QED
                BY <4>2 DEF a, b
        <3>3. /\ (-m) * (min - 500) = -((min - 500) * m)
              /\ (-m) * (max - 500) = -((max - 500) * m)
            BY <1>1, SMT
        <3> QED
            BY <1>1, <3>2, <3>3, SMT DEF Thickness
    <2>3. FogOf(fm, fo, min) = Clamp(x \div 500) /\ FogOf(fm, fo, max) = Clamp(y \div 500)
        BY SMT DEF FogOf
    <2> HIDE DEF x, y
    <2>4. FogOf(fm, fo, max) <= FogOf(fm, fo, min)
        BY <2>2, <2>3, ClampRises, SMT
    <2>5. FogOf(fm, fo, max) \in Int /\ FogOf(fm, fo, min) \in Int
        BY <2>2, <2>3, SMT DEF Clamp
    <2> QED
        BY <1>4, <2>4, <2>5, SMT DEF ThickensFrom, fm, fo
<1> QED
    BY <1>3, <1>4, SMT

LEMMA FogIsRight ==
    ASSUME NEW min \in Depths, NEW max \in Depths, min < max, Fog(packet, min, max)
    PROVE  FogThickens
<1> DEFINE fm == Scale(min, max)
           fo == Offset(min, max)
           w1 == packet.list[1].w1
<1>1. /\ packet.list[1] = Packets!gSPFogPosition(min, max)
      /\ packet.args.min = min /\ packet.args.max = max
    BY SMT DEF Fog, Packets!One, Packets!Plain
<1>2. w1 = Packets!Halves(fm, fo)
    BY <1>1, SMT DEF Packets!gSPFogPosition, Packets!gSPFogFactor, Packets!Gfx, Packets!Halves,
        Scale, Offset
<1>3. BandFor(min, max)
    BY BandOf, Zenon
<1>4. ThickensFrom(fm, fo, min, max) <=> max - min >= 4
    BY <1>3, Thickens, Zenon
<1>5. fm \in Int /\ fo \in Int
    BY <1>3, SMT DEF BandFor, Band
<1> HIDE DEF fm, fo
<1>6. \A n \in Int : Packets!Alpha(w1, n) = FogOf(fm, fo, n)
    <2> HIDE DEF w1
    <2> SUFFICES ASSUME NEW n \in Int PROVE Packets!Alpha(w1, n) = FogOf(fm, fo, n)
        BY SMT
    <2>1. Packets!Alpha(Packets!Halves(fm, fo), n)
            = Clamp(Thickness(n, Packets!S16(fm), Packets!S16(fo)) \div 500)
        BY <1>5, AlphaIs, SMT
    <2> QED
        BY <1>2, <2>1, SMT DEF FogOf
<1>7. 0 \in Int /\ min \in Int /\ max \in Int /\ 1000 \in Int
    BY SMT DEF Depths
<1> HIDE DEF w1
<1>8. (/\ Packets!Alpha(w1, min) <= 1
       /\ Packets!Alpha(w1, max) >= 254
       /\ \A n1, n2 \in {0, min, max, 1000} :
            n1 <= n2 => Packets!Alpha(w1, n1) <= Packets!Alpha(w1, n2))
      <=> max - min >= 4
    BY <1>4, <1>6, <1>7, SMT DEF ThickensFrom
<1> QED
    BY <1>1, <1>8, SMT DEF FogThickens, Packets!FogThickens, w1

\* Whatever the band: the packet of gSPFogPosition makes fog that begins at min,
\* is thickest at max and never thins in between, or outside the band, exactly
\* for bands of four units of depth and more.
THEOREM FogIsThick == AllSpec => []FogThickens
<1>1. ASSUME Written(packet) PROVE FogThickens
    <2>1. CASE "min" \in DOMAIN packet.args
        <3>1. PICK band \in FogBands : Fog(packet, band[1], band[2])
            BY <1>1, <2>1, ArgumentsOf, Zenon
        <3>2. band[1] \in Depths /\ band[2] \in Depths /\ band[1] < band[2]
            BY FogAssumption, SMT DEF FogAssumption, Depths
        <3> QED
            BY <3>1, <3>2, FogIsRight, Zenon
    <2>2. CASE ~("min" \in DOMAIN packet.args)
        BY <2>2, Zenon DEF FogThickens, Packets!FogThickens
    <2> QED
        BY <2>1, <2>2, Zenon
<1> QED
    BY AllWritten, <1>1, PTL

-----------------------------------------------------------------------------
(* Clipped rectangles.                                                     *)

\* A coordinate or a step of 16 bits is what it is read as.
LEMMA InSixteenBits ==
    ASSUME NEW v \in Int, -32768 <= v, v <= 32767
    PROVE  Packets!S16(v) = v
BY SMT DEF Packets!S16

\* Where a rectangle may begin, and how its texture may run.
Scissorable(x, step) ==
    /\ x \in Int /\ -32768 <= x /\ x <= 4095
    /\ step \in Int /\ -32768 <= step /\ step <= 32767
    /\ x < 0 => -32000 <= (x * step) \div 128 /\ (x * step) \div 128 <= 32000

\* What is cut off a rectangle at x moves its texture by as much, rounded down
\* to 1/32 of a texel.
LEMMA CutOffMoves ==
    ASSUME NEW x, NEW step, Scissorable(x, step), NEW start \in 0 .. 640
    PROVE  /\ start - Packets!CutOff(x, step) \in Int
           /\ \A kept : Packets!S16(kept) = Packets!S16(start - Packets!CutOff(x, step))
                          => Packets!SameTexel(kept, start, x, step)
<1>0. /\ x \in Int /\ -32768 <= x /\ x <= 4095
      /\ step \in Int /\ -32768 <= step /\ step <= 32767
      /\ start \in Int /\ 0 <= start /\ start <= 640
      /\ x < 0 => -32000 <= (x * step) \div 128 /\ (x * step) \div 128 <= 32000
    BY SMT DEF Scissorable
<1> DEFINE p == x * step
           q == p \div 128
           c == Packets!CutOff(x, step)
<1>1. p \in Int /\ q \in Int /\ 0 <= p - 128 * q /\ p - 128 * q < 128
    <2>1. p \in Int
        BY <1>0, SMT
    <2> HIDE DEF p
    <2> QED
        BY <2>1, SMT
<1>2. Packets!S16(x) = x /\ Packets!S16(step) = step
    BY <1>0, InSixteenBits, SMT
<1>3. CASE x >= 0
    <2>1. c = 0
        BY <1>3, SMT DEF Packets!CutOff
    <2>2. Packets!S16(start - c) = start /\ start - c \in Int
        BY <1>0, <2>1, SMT DEF Packets!S16
    <2> QED
        BY <1>3, <2>2, SMT DEF Packets!SameTexel
<1>4. CASE x < 0
    <2>1. (step < 0 => 0 <= q) /\ (step >= 0 => q <= 0)
        <3>1. (step < 0 => 0 <= p) /\ (step >= 0 => p <= 0)
            <4>1. -x \in Nat /\ step \in Int
                BY <1>0, <1>4, SMT
            <4>2. step < 0 => (-x) * step <= (-x) * 0
                BY <4>1, TimesMonotonic, SMT
            <4>3. step >= 0 => (-x) * 0 <= (-x) * step
                BY <4>1, TimesMonotonic, SMT
            <4>4. (-x) * step = -p /\ (-x) * 0 = 0
                BY <1>0, SMT
            <4> QED
                BY <1>1, <4>2, <4>3, <4>4, SMT
        <3> HIDE DEF p
        <3> QED
            BY <1>1, <3>1, SMT
    <2>2. c = q
        <3>1. /\ Packets!Max({q, 0}) = IF q >= 0 THEN q ELSE 0
              /\ Packets!Min({q, 0}) = IF q <= 0 THEN q ELSE 0
            <4> HIDE DEF q
            <4> QED
                BY <1>1, LargerOf, SMT
        <3>2. c = IF step < 0 THEN Packets!Max({q, 0}) ELSE Packets!Min({q, 0})
            <4>1. ~(x >= 0)
                BY <1>0, <1>4, SMT
            <4> QED
                BY <1>2, <4>1, Zenon DEF Packets!CutOff
        <3> HIDE DEF q, c
        <3> QED
            BY <1>0, <1>1, <2>1, <3>1, <3>2, SMT
    <2>3. q \in Int /\ -32000 <= q /\ q <= 32000
        BY <1>0, <1>1, <1>4, SMT
    <2> HIDE DEF q, c
    <2>4. Packets!S16(start - c) = start - q /\ start - c \in Int
        BY <1>0, <2>2, <2>3, SMT DEF Packets!S16
    <2>5. ~(x >= 0) /\ x * step \in Int /\ x * step = p
        BY <1>0, <1>1, <1>4, SMT
    <2> HIDE DEF p
    <2>6. 0 <= 128 * (start - q) - (128 * start - p) /\ 128 * (start - q) - (128 * start - p) < 128
        BY <1>0, <1>1, SMT
    <2>7. ASSUME NEW kept, Packets!S16(kept) = start - q
          PROVE  Packets!SameTexel(kept, start, x, step)
        BY <2>5, <2>6, <2>7, SMT DEF Packets!SameTexel
    <2> QED
        BY <2>4, <2>7, SMT DEF c
<1> QED
    BY <1>0, <1>3, <1>4, SMT

\* The corner of a rectangle that its second word has.
LEMMA UpperLeft ==
    ASSUME NEW cmd, NEW xl \in Int, NEW yl \in Int, NEW xh, NEW yh, NEW tile,
           NEW w1, w1 = Packets!TexRectCorners(cmd, xl, yl, xh, yh, tile).w1
    PROVE  Packets!Number(w1, 12, 12) = xl % 4096 /\ Packets!Number(w1, 0, 12) = yl % 4096
<1>1. w1 = Packets!_SHIFTL(tile, 24, 3) \cup Packets!_SHIFTL(xl, 12, 12)
             \cup Packets!_SHIFTL(yl, 0, 12)
    BY Zenon DEF Packets!TexRectCorners, Packets!Gfx
<1>2. \A c \in 12 .. 12 + 12 - 1 : c \in w1 <=> c \in Packets!_SHIFTL(xl, 12, 12)
    BY <1>1, FieldBit, SMT
<1>3. \A c \in 0 .. 0 + 12 - 1 : c \in w1 <=> c \in Packets!_SHIFTL(yl, 0, 12)
    BY <1>1, FieldBit, SMT
<1>4. 12 \in Nat /\ 0 \in Nat /\ 12 \in 0 .. 31 /\ 12 + 12 <= 32 /\ 0 + 12 <= 32
    BY SMT
<1>5. Packets!Number(w1, 12, 12) = xl % 2 ^ 12 /\ Packets!Number(w1, 0, 12) = yl % 2 ^ 12
    BY <1>2, <1>3, <1>4, NumberOfField, Zenon
<1> QED
    BY <1>5, SMT

\* Both ends of a clipped rectangle.
LEMMA ScissoredIsRight ==
    ASSUME NEW x, NEW y, NEW dsdx, NEW dtdy, Scissored(packet, x, y, dsdx, dtdy),
           Scissorable(x, dsdx), Scissorable(y, dtdy)
    PROVE  ClippedRectKeepsTexels
<1> DEFINE s == 320 - Packets!CutOff(x, dsdx)
           t == 640 - Packets!CutOff(y, dtdy)
           word == packet.list[2].w1
           corner == packet.list[1].w1
<1>1. /\ x \in Int /\ -32768 <= x /\ x <= 4095
      /\ y \in Int /\ -32768 <= y /\ y <= 4095
    BY SMT DEF Scissorable
<1>2. Packets!S16(x) = x /\ Packets!S16(y) = y
    BY <1>1, InSixteenBits, SMT
<1>3. /\ Packets!NotNegative(x) = IF x >= 0 THEN x ELSE 0
      /\ Packets!NotNegative(y) = IF y >= 0 THEN y ELSE 0
    BY <1>1, LargerOf, SMT DEF Packets!NotNegative
<1>4. /\ Packets!NotNegative(x) \in Int /\ Packets!NotNegative(y) \in Int
      /\ 0 <= Packets!NotNegative(x) /\ Packets!NotNegative(x) <= 4095
      /\ 0 <= Packets!NotNegative(y) /\ Packets!NotNegative(y) <= 4095
    BY <1>1, <1>3, SMT
<1>5. /\ packet.args = [x |-> x, y |-> y, dsdx |-> dsdx, dtdy |-> dtdy]
      /\ packet.list = Packets!gSPScisTextureRectangle(x, y, x + 64, y + 64, 0, 320, 640,
                                                       dsdx, dtdy)
    BY SMT DEF Scissored, Packets!Plain
<1>6. packet.list = <<Packets!TexRectCorners(Packets!RDP.TEXRECT, Packets!NotNegative(x),
                        Packets!NotNegative(y), Packets!NotNegative(Packets!S16(x + 64)),
                        Packets!NotNegative(Packets!S16(y + 64)), 0),
                      Packets!Half(Packets!G.RDPHALF_1, Packets!Halves(s, t)),
                      Packets!Half(Packets!G.RDPHALF_2, Packets!Halves(dsdx, dtdy))>>
    <2> HIDE DEF word, corner
    <2> QED
        BY <1>2, <1>5, SMT DEF Packets!gSPScisTextureRectangle, Packets!gSPTextureRectangle
<1>7. word = Packets!Halves(s, t)
    <2> HIDE DEF s, t
    <2> QED
        BY <1>6, SMT DEF Packets!Half, Packets!Gfx
<1>8. /\ Packets!Number(corner, 12, 12) = Packets!NotNegative(x)
      /\ Packets!Number(corner, 0, 12) = Packets!NotNegative(y)
    <2> DEFINE nx == Packets!NotNegative(x)
               ny == Packets!NotNegative(y)
               mx == Packets!NotNegative(Packets!S16(x + 64))
               my == Packets!NotNegative(Packets!S16(y + 64))
               rect == Packets!TexRectCorners(Packets!RDP.TEXRECT, nx, ny, mx, my, 0)
    <2>1. packet.list[1] = rect
        <3> HIDE DEF rect, s, t
        <3> QED
            BY <1>6, SMT DEF rect
    <2>2. /\ nx \in Int /\ 0 <= nx /\ nx <= 4095
          /\ ny \in Int /\ 0 <= ny /\ ny <= 4095
        BY <1>4, SMT
    <2> HIDE DEF nx, ny, mx, my
    <2>3. nx \in Int /\ ny \in Int /\ nx % 4096 = nx /\ ny % 4096 = ny
        BY <2>2, SMT
    <2>4. corner = rect.w1
        BY <2>1, Zenon
    <2>5. /\ Packets!Number(corner, 12, 12) = nx % 4096
          /\ Packets!Number(corner, 0, 12) = ny % 4096
        <3> HIDE DEF corner
        <3> QED
            BY <2>3, <2>4, UpperLeft, SMT DEF rect
    <2> QED
        BY <2>3, <2>5, SMT DEF nx, ny
<1>9. 320 \in 0 .. 640 /\ 640 \in 0 .. 640
    BY SMT
<1>10. /\ s \in Int
       /\ \A kept : Packets!S16(kept) = Packets!S16(s) => Packets!SameTexel(kept, 320, x, dsdx)
       /\ t \in Int
       /\ \A kept : Packets!S16(kept) = Packets!S16(t) => Packets!SameTexel(kept, 640, y, dtdy)
    BY <1>9, CutOffMoves, SMT
<1> HIDE DEF s, t, word, corner
<1>11. /\ Packets!S16(Packets!Number(word, 16, 16)) = Packets!S16(s)
       /\ Packets!S16(Packets!Number(word, 0, 16)) = Packets!S16(t)
    BY <1>7, <1>10, SignedHalves, SMT
<1>12. /\ Packets!SameTexel(Packets!Number(word, 16, 16), 320, x, dsdx)
       /\ Packets!SameTexel(Packets!Number(word, 0, 16), 640, y, dtdy)
    BY <1>10, <1>11, SMT
<1> QED
    BY <1>5, <1>8, <1>12, SMT DEF ClippedRectKeepsTexels, Packets!ClippedRectKeepsTexels,
        word, corner

\* Wherever the rectangle begins: gSPScisTextureRectangle cuts off what is above
\* and to the left of the screen, and draws what remains with its own texels.
THEOREM TexelsAreKept == AllSpec => []ClippedRectKeepsTexels
<1>1. ASSUME Written(packet) PROVE ClippedRectKeepsTexels
    <2>1. CASE "dsdx" \in DOMAIN packet.args
        <3>1. PICK x \in Positions, y \in Positions, dsdx \in Steps, dtdy \in Steps :
                Scissored(packet, x, y, dsdx, dtdy)
            BY <1>1, <2>1, ArgumentsOf, Zenon
        <3>2. ASSUME NEW p \in Positions, NEW step \in Steps
              PROVE  Scissorable(p, step)
            BY RectAssumption, SMT DEF RectAssumption, Scissorable
        <3> QED
            BY <3>1, <3>2, ScissoredIsRight, Zenon
    <2>2. CASE ~("dsdx" \in DOMAIN packet.args)
        BY <2>2, Zenon DEF ClippedRectKeepsTexels, Packets!ClippedRectKeepsTexels
    <2> QED
        BY <2>1, <2>2, Zenon
<1> QED
    BY AllWritten, <1>1, PTL

-----------------------------------------------------------------------------
(* The bit fields of a packet.                                             *)

\* Fields 1 .. n, one after the other from the top of the first word: field i
\* comes after ends[i] bits, and the next one after ends[i + 1].
LaidOut(type, n, ends) ==
    /\ n \in Nat /\ DOMAIN type = 1 .. n
    /\ \A i \in 1 .. n : type[i][2] \in 0 .. 32
    /\ ends[1] = 0
    /\ \A i \in 1 .. n : ends[i] \in Nat /\ ends[i + 1] = ends[i] + type[i][2]

Widths(type) == [i \in DOMAIN type |-> type[i][2]]

WidthsUpTo(type, i) == Packets!MapThenSumSet(LAMBDA j : type[j][2], 1 .. i)

LEMMA WidthsWeigh ==
    ASSUME NEW type, NEW n, NEW ends, LaidOut(type, n, ends), NEW i \in 0 .. n
    PROVE  Weighs(Widths(type), 1 .. i)
<1>1. \A j \in 1 .. i : Widths(type)[j] \in 0 .. 32
    <2>1. \A j \in 1 .. i : j \in 1 .. n
        BY DEF LaidOut
    <2>2. \A j \in 1 .. n : Widths(type)[j] = type[j][2]
        BY Zenon DEF LaidOut, Widths
    <2>3. \A j \in 1 .. n : type[j][2] \in 0 .. 32
        BY Zenon DEF LaidOut
    <2> QED
        BY <2>1, <2>2, <2>3, Zenon
<1>2. IsFiniteSet(1 .. i) /\ 32 \in Nat
    <2>1. 1 \in Int /\ i \in Int
        BY DEF LaidOut
    <2> QED
        BY <2>1, FS_Interval
<1> QED
    BY <1>1, <1>2, Zenon DEF Weighs

LEMMA WidthsAddUp ==
    ASSUME NEW type, NEW n, NEW ends, LaidOut(type, n, ends), NEW i \in 0 .. n
    PROVE  WidthsUpTo(type, i) = Tally(Widths(type), 1 .. i)
<1> DEFINE S == 1 .. i
           w == Widths(type)
           T == [s \in SUBSET S |-> Tally(w, s)]
           F(f) == f = [s \in SUBSET S |-> IF s = {} THEN 0
                                           ELSE type[Pick(s)][2] + f[s \ {Pick(s)}]]
<1>1. Weighs(w, S)
    BY WidthsWeigh, Zenon
<1>2. ASSUME NEW s \in SUBSET S, s # {} PROVE w[Pick(s)] = type[Pick(s)][2]
    <2>1. Pick(s) \in s
        BY <1>2, Zenon DEF Pick
    <2>2. S \subseteq DOMAIN type
        BY DEF LaidOut
    <2>3. \A x \in s : w[x] = type[x][2]
        BY <2>2, Zenon DEF Widths
    <2> QED
        BY <2>1, <2>3, Zenon
<1> HIDE DEF w
<1>3. \A f : F(f) <=> Adds(f, w, S)
    <2> SUFFICES ASSUME NEW f PROVE F(f) <=> Adds(f, w, S)
        BY Zenon
    <2>1. [s \in SUBSET S |-> IF s = {} THEN 0 ELSE type[Pick(s)][2] + f[s \ {Pick(s)}]]
            = [s \in SUBSET S |-> IF s = {} THEN 0 ELSE w[Pick(s)] + f[s \ {Pick(s)}]]
        BY <1>2, Zenon
    <2> QED
        BY <2>1, Zenon DEF Adds
<1>4. F(T)
    BY <1>1, <1>3, TallyIsFold, Zenon
<1>5. WidthsUpTo(type, i) = (CHOOSE f : F(f))[S]
    BY Zenon DEF WidthsUpTo, Packets!MapThenSumSet, Packets!MapThenFoldSet, Pick
<1>6. F(CHOOSE f : F(f))
    BY <1>4, Zenon
<1>7. \A f : F(f) => f[S] = Tally(w, S)
    BY <1>1, <1>3, FoldIsTally, Zenon
<1> HIDE DEF F
<1> QED
    BY <1>5, <1>6, <1>7, Zenon DEF w

LEMMA EndOf ==
    ASSUME NEW type, NEW n, NEW ends, LaidOut(type, n, ends)
    PROVE  \A i \in 0 .. n : Tally(Widths(type), 1 .. i) = ends[i + 1]
<1> DEFINE w == Widths(type)
           Bad == {i \in 0 .. n : Tally(w, 1 .. i) # ends[i + 1]}
<1>0. n \in Nat /\ ends[1] = 0
    BY Zenon DEF LaidOut
<1>1. SUFFICES ASSUME Bad # {} PROVE FALSE
    BY Zenon
<1>2. PICK i \in Bad : \A j \in Bad : i <= j
    <2>1. Bad \in SUBSET Nat
        BY <1>0
    <2> QED
        BY <1>1, <2>1, LeastElement, Zenon
<1>3. i # 0
    <2>1. 1 .. 0 = {}
        OBVIOUS
    <2>2. ends[0 + 1] = 0
        BY <1>0
    <2> QED
        BY <2>1, <2>2, TallyOfNone, Zenon
<1>4. i \in 1 .. n /\ i - 1 \in 0 .. n /\ ~(i <= i - 1)
    BY <1>0, <1>3
<1>5. Weighs(w, 1 .. i) /\ Weighs(w, 1 .. i - 1)
    BY <1>4, WidthsWeigh, Zenon
<1>6. w[i] = type[i][2] /\ ends[i + 1] = ends[i] + type[i][2] /\ type[i][2] \in 0 .. 32
    BY <1>4, Zenon DEF LaidOut, Widths
<1> HIDE DEF w
<1>7. Tally(w, 1 .. i - 1) = ends[i]
    <2>1. Tally(w, 1 .. i - 1) = ends[i - 1 + 1]
        BY <1>2, <1>4, Zenon
    <2>2. i - 1 + 1 = i
        BY <1>4
    <2> QED
        BY <2>1, <2>2, Zenon
<1>8. Tally(w, 1 .. i - 1) \in Nat
    BY <1>5, UnitsFinite, Zenon
<1>9. Tally(w, 1 .. i) = w[i] + Tally(w, 1 .. i - 1)
    <2> DEFINE S == 1 .. i
    <2>1. i \in S
        BY <1>4
    <2>2. S \ {i} = 1 .. i - 1
        BY <1>4
    <2>3. Weighs(w, S)
        BY <1>5, Zenon
    <2> HIDE DEF S
    <2>4. \A x \in S : Tally(w, S) = w[x] + Tally(w, S \ {x})
        BY <2>3, TallyAdds, ZenonT(60)
    <2> QED
        BY <2>1, <2>2, <2>4, Zenon DEF S
<1>10. Tally(w, 1 .. i) = ends[i + 1]
    <2> DEFINE t == Tally(w, 1 .. i - 1)
               u == Tally(w, 1 .. i)
               x == w[i]
    <2> HIDE DEF t, u, x
    <2>1. /\ t \in Nat /\ u = x + t /\ x \in 0 .. 32
          /\ ends[i + 1] = t + x
        BY <1>6, <1>7, <1>8, <1>9, Zenon DEF t, u, x
    <2>2. u = t + x
        BY <2>1, SMT
    <2> QED
        BY <2>1, <2>2, Zenon DEF u
<1> QED
    BY <1>2, <1>10, Zenon DEF w

\* A packet's field, and the argument that it is to hold.
Right(type, name, gfx, v) ==
    Packets!FieldBits(type, name, gfx)
      = Packets!Low(Packets!Bits(v), type[CHOOSE i \in DOMAIN type : type[i][1] = name][2])

\* w bits of a word from bit s on are those of v.
Reads(word, s, w, v) == \A k \in 0 .. w - 1 : k + s \in word <=> k \in Packets!Bits(v)

IsPacket(gfx) == gfx.w0 \subseteq 0 .. 31 /\ gfx.w1 \subseteq 0 .. 31

LEMMA FieldAt ==
    ASSUME NEW type, NEW n, NEW ends, LaidOut(type, n, ends),
           NEW i \in 1 .. n, NEW name, type[i][1] = name,
           \A j \in 1 .. n : type[j][1] = name => j = i,
           NEW gfx, IsPacket(gfx), NEW v, ends[i + 1] \in 0 .. 64,
           \/ ends[i + 1] <= 32 /\ Reads(gfx.w0, 32 - ends[i + 1], type[i][2], v)
           \/ ends[i] >= 32 /\ Reads(gfx.w1, 64 - ends[i + 1], type[i][2], v)
    PROVE  Right(type, name, gfx, v)
<1> DEFINE w == type[i][2]
           low == 64 - ends[i + 1]
           all == Packets!Shift(gfx.w0, 32) \cup gfx.w1
<1>1. (CHOOSE j \in DOMAIN type : type[j][1] = name) = i
    <2>1. \A j \in DOMAIN type : type[j][1] = name <=> j = i
        BY Zenon DEF LaidOut
    <2>2. i \in DOMAIN type
        BY Zenon DEF LaidOut
    <2> QED
        BY <2>1, <2>2, Zenon
<1>2. WidthsUpTo(type, i) = ends[i + 1]
    <2>1. i \in 0 .. n
        OBVIOUS
    <2>2. WidthsUpTo(type, i) = Tally(Widths(type), 1 .. i)
        BY <2>1, WidthsAddUp, Zenon
    <2>3. \A j \in 0 .. n : Tally(Widths(type), 1 .. j) = ends[j + 1]
        BY EndOf, SMT
    <2> QED
        BY <2>1, <2>2, <2>3, Zenon
<1>3. Packets!FieldBits(type, name, gfx)
        = Packets!Low(Packets!Shift(all \cap (low .. 63), -low), w)
    BY <1>1, <1>2, Zenon DEF Packets!FieldBits, WidthsUpTo
<1> DEFINE e == ends[i + 1]
<1>4. w \in 0 .. 32 /\ e \in 0 .. 64 /\ low = 64 - e /\ ends[i] = e - w /\ ends[i] \in Nat
    <2>1. w \in 0 .. 32 /\ ends[i + 1] = ends[i] + w /\ ends[i] \in Nat
        BY Zenon DEF LaidOut
    <2> HIDE DEF w
    <2> QED
        BY <2>1
<1>5. \A k \in 0 .. w - 1 : k \in Packets!Bits(v) <=> k + low \in all \cap (low .. 63)
    <2> SUFFICES ASSUME NEW k \in 0 .. w - 1
                 PROVE  k \in Packets!Bits(v) <=> k + low \in all \cap (low .. 63)
        BY Zenon
    <2>1. CASE ends[i + 1] <= 32 /\ Reads(gfx.w0, 32 - ends[i + 1], w, v)
        <3> DEFINE b == k + (32 - e)
        <3>1. b \in gfx.w0 <=> k \in Packets!Bits(v)
            BY <2>1, Zenon DEF Reads
        <3> HIDE DEF w, low, e
        <3>2. k + low = b + 32 /\ k + low > 31 /\ k + low \in low .. 63 /\ b \in Int
            BY <1>4, <2>1 DEF e
        <3>3. k + low \in all <=> b \in gfx.w0
            BY <3>2 DEF IsPacket, Packets!Shift, all
        <3> QED
            BY <3>1, <3>2, <3>3, Zenon
    <2>2. CASE ends[i] >= 32 /\ Reads(gfx.w1, 64 - ends[i + 1], w, v)
        <3>1. k + low \in gfx.w1 <=> k \in Packets!Bits(v)
            BY <2>2, Zenon DEF Reads
        <3> HIDE DEF w, low, e
        <3>2. k + low < 32 /\ k + low \in low .. 63
            BY <1>4, <2>2
        <3>3. k + low \in all <=> k + low \in gfx.w1
            BY <3>2 DEF IsPacket, Packets!Shift, all
        <3> QED
            BY <3>1, <3>2, <3>3, Zenon
    <2> QED
        BY <2>1, <2>2, Zenon
<1>6. \A b \in all \cap (low .. 63) : b \in Int
    OBVIOUS
<1> HIDE DEF all, low, w, e
<1>7. Packets!Low(Packets!Shift(all \cap (low .. 63), -low), w)
        = Packets!Low(Packets!Bits(v), w)
    <2> DEFINE A == all \cap (low .. 63)
               B == Packets!Bits(v)
    <2> HIDE DEF A, B
    <2>1. \A k \in 0 .. w - 1 : k \in B <=> k + low \in A
        BY <1>5, Zenon DEF A, B
    <2>2. \A b \in A : b \in Int
        BY <1>6, Zenon DEF A
    <2>3. Packets!Low(Packets!Shift(A, -low), w) = Packets!Low(B, w)
        BY <1>4, <2>1, <2>2 DEF Packets!Low, Packets!Shift
    <2> QED
        BY <2>3, Zenon DEF A, B
<1> QED
    BY <1>1, <1>3, <1>7, Zenon DEF Right, w

\* The field called name is w bits wide: those of the first word from bit s on.
InFirst(type, name, s, w) ==
    \A gfx, v : IsPacket(gfx) /\ Reads(gfx.w0, s, w, v) => Right(type, name, gfx, v)
\* ... or those of the second.
InSecond(type, name, s, w) ==
    \A gfx, v : IsPacket(gfx) /\ Reads(gfx.w1, s, w, v) => Right(type, name, gfx, v)

LEMMA FieldsIn ==
    ASSUME NEW type, NEW n, NEW ends, LaidOut(type, n, ends),
           \A i, j \in 1 .. n : type[i][1] = type[j][1] => i = j
    PROVE  \A i \in 1 .. n :
             /\ ends[i + 1] <= 32
                  => InFirst(type, type[i][1], 32 - ends[i + 1], type[i][2])
             /\ ends[i] >= 32 /\ ends[i + 1] <= 64
                  => InSecond(type, type[i][1], 64 - ends[i + 1], type[i][2])
<1> SUFFICES ASSUME NEW i \in 1 .. n
             PROVE  /\ ends[i + 1] <= 32
                         => InFirst(type, type[i][1], 32 - ends[i + 1], type[i][2])
                    /\ ends[i] >= 32 /\ ends[i + 1] <= 64
                         => InSecond(type, type[i][1], 64 - ends[i + 1], type[i][2])
    BY Zenon
<1>1. ends[i] \in Nat /\ ends[i + 1] \in Nat
    <2>1. ends[i] \in Nat /\ ends[i + 1] = ends[i] + type[i][2] /\ type[i][2] \in 0 .. 32
        BY Zenon DEF LaidOut
    <2> QED
        BY <2>1
<1>2. ASSUME ends[i + 1] <= 32,
             NEW gfx, NEW v, IsPacket(gfx), Reads(gfx.w0, 32 - ends[i + 1], type[i][2], v)
      PROVE  Right(type, type[i][1], gfx, v)
    <2>1. ends[i + 1] \in 0 .. 64
        BY <1>1, <1>2
    <2> QED
        BY <1>2, <2>1, FieldAt, Zenon
<1>3. ASSUME ends[i] >= 32, ends[i + 1] <= 64,
             NEW gfx, NEW v, IsPacket(gfx), Reads(gfx.w1, 64 - ends[i + 1], type[i][2], v)
      PROVE  Right(type, type[i][1], gfx, v)
    <2>1. ends[i + 1] \in 0 .. 64
        BY <1>1, <1>3, SMTT(40)
    <2> QED
        BY <1>3, <2>1, FieldAt, Zenon
<1> QED
    BY <1>2, <1>3, Zenon DEF InFirst, InSecond

LEMMA OfGdma ==
    /\ InFirst(Packets!Gdma, "par", 16, 8)
    /\ InFirst(Packets!Gdma, "len", 0, 16)
    /\ InSecond(Packets!Gdma, "addr", 0, 32)
<1> DEFINE type == Packets!Gdma
           ends == <<0, 8, 16, 32, 64>>
<1>1. LaidOut(type, 4, ends) /\ \A i, j \in 1 .. 4 : type[i][1] = type[j][1] => i = j
    BY DEF LaidOut, Packets!Gdma
<1> HIDE DEF type, ends
<1>2. \A i \in 1 .. 4 :
        /\ ends[i + 1] <= 32 => InFirst(type, type[i][1], 32 - ends[i + 1], type[i][2])
        /\ ends[i] >= 32 /\ ends[i + 1] <= 64
             => InSecond(type, type[i][1], 64 - ends[i + 1], type[i][2])
    BY <1>1, FieldsIn, SMT
<1>3. /\ ends[2] = 8 /\ ends[2 + 1] = 16 /\ type[2] = <<"par", 8>>
      /\ ends[3] = 16 /\ ends[3 + 1] = 32 /\ type[3] = <<"len", 16>>
      /\ ends[4] = 32 /\ ends[4 + 1] = 64 /\ type[4] = <<"addr", 32>>
    BY SMT DEF type, ends, Packets!Gdma
<1> QED
    BY <1>2, <1>3, SMT DEF type

LEMMA OfGsetimg ==
    /\ InFirst(Packets!Gsetimg, "fmt", 21, 3)
    /\ InFirst(Packets!Gsetimg, "siz", 19, 2)
    /\ InFirst(Packets!Gsetimg, "wd", 0, 12)
    /\ InSecond(Packets!Gsetimg, "dram", 0, 32)
<1> DEFINE type == Packets!Gsetimg
           ends == <<0, 8, 11, 13, 20, 32, 64>>
<1>1. LaidOut(type, 6, ends) /\ \A i, j \in 1 .. 6 : type[i][1] = type[j][1] => i = j
    BY DEF LaidOut, Packets!Gsetimg
<1> HIDE DEF type, ends
<1>2. \A i \in 1 .. 6 :
        /\ ends[i + 1] <= 32 => InFirst(type, type[i][1], 32 - ends[i + 1], type[i][2])
        /\ ends[i] >= 32 /\ ends[i + 1] <= 64
             => InSecond(type, type[i][1], 64 - ends[i + 1], type[i][2])
    BY <1>1, FieldsIn, SMT
<1>3. /\ ends[2] = 8 /\ ends[2 + 1] = 11 /\ type[2] = <<"fmt", 3>>
      /\ ends[3] = 11 /\ ends[3 + 1] = 13 /\ type[3] = <<"siz", 2>>
      /\ ends[5] = 20 /\ ends[5 + 1] = 32 /\ type[5] = <<"wd", 12>>
      /\ ends[6] = 32 /\ ends[6 + 1] = 64 /\ type[6] = <<"dram", 32>>
    BY SMT DEF type, ends, Packets!Gsetimg
<1> QED
    BY <1>2, <1>3, SMT DEF type

LEMMA OfGsetcombine ==
    /\ InFirst(Packets!Gsetcombine, "muxs0", 0, 24)
    /\ InSecond(Packets!Gsetcombine, "muxs1", 0, 32)
<1> DEFINE type == Packets!Gsetcombine
           ends == <<0, 8, 32, 64>>
<1>1. LaidOut(type, 3, ends) /\ \A i, j \in 1 .. 3 : type[i][1] = type[j][1] => i = j
    BY DEF LaidOut, Packets!Gsetcombine
<1> HIDE DEF type, ends
<1>2. \A i \in 1 .. 3 :
        /\ ends[i + 1] <= 32 => InFirst(type, type[i][1], 32 - ends[i + 1], type[i][2])
        /\ ends[i] >= 32 /\ ends[i + 1] <= 64
             => InSecond(type, type[i][1], 64 - ends[i + 1], type[i][2])
    BY <1>1, FieldsIn, SMT
<1>3. /\ ends[2] = 8 /\ ends[2 + 1] = 32 /\ type[2] = <<"muxs0", 24>>
      /\ ends[3] = 32 /\ ends[3 + 1] = 64 /\ type[3] = <<"muxs1", 32>>
    BY SMT DEF type, ends, Packets!Gsetcombine
<1> QED
    BY <1>2, <1>3, SMT DEF type

LEMMA OfGsetcolor ==
    /\ InFirst(Packets!Gsetcolor, "prim_min_level", 8, 8)
    /\ InFirst(Packets!Gsetcolor, "prim_level", 0, 8)
<1> DEFINE type == Packets!Gsetcolor
           ends == <<0, 8, 16, 24, 32, 64>>
<1>1. LaidOut(type, 5, ends) /\ \A i, j \in 1 .. 5 : type[i][1] = type[j][1] => i = j
    BY DEF LaidOut, Packets!Gsetcolor
<1> HIDE DEF type, ends
<1>2. \A i \in 1 .. 5 :
        /\ ends[i + 1] <= 32 => InFirst(type, type[i][1], 32 - ends[i + 1], type[i][2])
        /\ ends[i] >= 32 /\ ends[i + 1] <= 64
             => InSecond(type, type[i][1], 64 - ends[i + 1], type[i][2])
    BY <1>1, FieldsIn, SMT
<1>3. /\ ends[3] = 16 /\ ends[3 + 1] = 24 /\ type[3] = <<"prim_min_level", 8>>
      /\ ends[4] = 24 /\ ends[4 + 1] = 32 /\ type[4] = <<"prim_level", 8>>
    BY SMT DEF type, ends, Packets!Gsetcolor
<1> QED
    BY <1>2, <1>3, SMT DEF type

LEMMA OfGfillrect ==
    /\ InFirst(Packets!Gfillrect, "x0", 14, 10)
    /\ InFirst(Packets!Gfillrect, "y0", 2, 10)
    /\ InSecond(Packets!Gfillrect, "x1", 14, 10)
    /\ InSecond(Packets!Gfillrect, "y1", 2, 10)
<1> DEFINE type == Packets!Gfillrect
           ends == <<0, 8, 18, 20, 30, 32, 40, 50, 52, 62, 64>>
<1>1. LaidOut(type, 10, ends) /\ \A i, j \in 1 .. 10 : type[i][1] = type[j][1] => i = j
    BY DEF LaidOut, Packets!Gfillrect
<1> HIDE DEF type, ends
<1>2. \A i \in 1 .. 10 :
        /\ ends[i + 1] <= 32 => InFirst(type, type[i][1], 32 - ends[i + 1], type[i][2])
        /\ ends[i] >= 32 /\ ends[i + 1] <= 64
             => InSecond(type, type[i][1], 64 - ends[i + 1], type[i][2])
    BY <1>1, FieldsIn, SMT
<1>3. /\ ends[2] = 8 /\ ends[2 + 1] = 18 /\ type[2] = <<"x0", 10>>
      /\ ends[4] = 20 /\ ends[4 + 1] = 30 /\ type[4] = <<"y0", 10>>
      /\ ends[7] = 40 /\ ends[7 + 1] = 50 /\ type[7] = <<"x1", 10>>
      /\ ends[9] = 52 /\ ends[9 + 1] = 62 /\ type[9] = <<"y1", 10>>
    BY SMT DEF type, ends, Packets!Gfillrect
<1> QED
    BY <1>2, <1>3, SMT DEF type

LEMMA OfGloadtile ==
    /\ InFirst(Packets!Gloadtile, "sl", 12, 12)
    /\ InFirst(Packets!Gloadtile, "tl", 0, 12)
    /\ InSecond(Packets!Gloadtile, "tile", 24, 3)
    /\ InSecond(Packets!Gloadtile, "sh", 12, 12)
    /\ InSecond(Packets!Gloadtile, "th", 0, 12)
<1> DEFINE type == Packets!Gloadtile
           ends == <<0, 8, 20, 32, 37, 40, 52, 64>>
<1>1. LaidOut(type, 7, ends) /\ \A i, j \in 1 .. 7 : type[i][1] = type[j][1] => i = j
    BY DEF LaidOut, Packets!Gloadtile
<1> HIDE DEF type, ends
<1>2. \A i \in 1 .. 7 :
        /\ ends[i + 1] <= 32 => InFirst(type, type[i][1], 32 - ends[i + 1], type[i][2])
        /\ ends[i] >= 32 /\ ends[i + 1] <= 64
             => InSecond(type, type[i][1], 64 - ends[i + 1], type[i][2])
    BY <1>1, FieldsIn, SMT
<1>3. /\ ends[2] = 8 /\ ends[2 + 1] = 20 /\ type[2] = <<"sl", 12>>
      /\ ends[3] = 20 /\ ends[3 + 1] = 32 /\ type[3] = <<"tl", 12>>
      /\ ends[5] = 37 /\ ends[5 + 1] = 40 /\ type[5] = <<"tile", 3>>
      /\ ends[6] = 40 /\ ends[6 + 1] = 52 /\ type[6] = <<"sh", 12>>
      /\ ends[7] = 52 /\ ends[7 + 1] = 64 /\ type[7] = <<"th", 12>>
    BY SMT DEF type, ends, Packets!Gloadtile
<1> QED
    BY <1>2, <1>3, SMT DEF type

LEMMA OfGsettile ==
    /\ InFirst(Packets!Gsettile, "fmt", 21, 3)
    /\ InFirst(Packets!Gsettile, "siz", 19, 2)
    /\ InFirst(Packets!Gsettile, "line", 9, 9)
    /\ InFirst(Packets!Gsettile, "tmem", 0, 9)
    /\ InSecond(Packets!Gsettile, "tile", 24, 3)
    /\ InSecond(Packets!Gsettile, "palette", 20, 4)
    /\ InSecond(Packets!Gsettile, "ct", 19, 1)
    /\ InSecond(Packets!Gsettile, "mt", 18, 1)
    /\ InSecond(Packets!Gsettile, "maskt", 14, 4)
    /\ InSecond(Packets!Gsettile, "shiftt", 10, 4)
    /\ InSecond(Packets!Gsettile, "cs", 9, 1)
    /\ InSecond(Packets!Gsettile, "ms", 8, 1)
    /\ InSecond(Packets!Gsettile, "masks", 4, 4)
    /\ InSecond(Packets!Gsettile, "shifts", 0, 4)
<1> DEFINE type == Packets!Gsettile
           ends == <<0, 8, 11, 13, 14, 23, 32, 37, 40, 44, 45, 46, 50, 54, 55, 56, 60, 64>>
<1>1. LaidOut(type, 17, ends)
    BY DEF LaidOut, Packets!Gsettile
<1>2. \A i, j \in 1 .. 17 : type[i][1] = type[j][1] => i = j
    BY SMTT(30) DEF Packets!Gsettile
<1> HIDE DEF type, ends
<1>3. \A i \in 1 .. 17 :
        /\ ends[i + 1] <= 32 => InFirst(type, type[i][1], 32 - ends[i + 1], type[i][2])
        /\ ends[i] >= 32 /\ ends[i + 1] <= 64
             => InSecond(type, type[i][1], 64 - ends[i + 1], type[i][2])
    BY <1>1, <1>2, FieldsIn, SMTT(40)
<1>4. /\ ends[3] = 11 /\ ends[4] = 13 /\ ends[6] = 23 /\ ends[7] = 32
      /\ type[2] = <<"fmt", 3>> /\ type[3] = <<"siz", 2>>
      /\ type[5] = <<"line", 9>> /\ type[6] = <<"tmem", 9>>
    BY SMT DEF type, ends, Packets!Gsettile
<1>5. /\ ends[8] = 37 /\ ends[9] = 40 /\ ends[10] = 44 /\ ends[11] = 45 /\ ends[12] = 46
      /\ type[8] = <<"tile", 3>> /\ type[9] = <<"palette", 4>>
      /\ type[10] = <<"ct", 1>> /\ type[11] = <<"mt", 1>>
    BY SMT DEF type, ends, Packets!Gsettile
<1>6. /\ ends[12] = 46 /\ ends[13] = 50 /\ ends[14] = 54 /\ ends[15] = 55 /\ ends[16] = 56
      /\ ends[17] = 60 /\ ends[18] = 64
      /\ type[12] = <<"maskt", 4>> /\ type[13] = <<"shiftt", 4>>
      /\ type[14] = <<"cs", 1>> /\ type[15] = <<"ms", 1>>
      /\ type[16] = <<"masks", 4>> /\ type[17] = <<"shifts", 4>>
    BY SMT DEF type, ends, Packets!Gsettile
<1>7. /\ InFirst(type, "fmt", 21, 3) /\ InFirst(type, "siz", 19, 2)
      /\ InFirst(type, "line", 9, 9) /\ InFirst(type, "tmem", 0, 9)
    BY <1>3, <1>4, SMT
<1>8. /\ InSecond(type, "tile", 24, 3) /\ InSecond(type, "palette", 20, 4)
      /\ InSecond(type, "ct", 19, 1) /\ InSecond(type, "mt", 18, 1)
    BY <1>3, <1>5, <1>4, SMT
<1>9. /\ InSecond(type, "maskt", 14, 4) /\ InSecond(type, "shiftt", 10, 4)
      /\ InSecond(type, "cs", 9, 1) /\ InSecond(type, "ms", 8, 1)
      /\ InSecond(type, "masks", 4, 4) /\ InSecond(type, "shifts", 0, 4)
    BY <1>3, <1>6, SMT
<1> QED
    BY <1>7, <1>8, <1>9, Zenon DEF type

-----------------------------------------------------------------------------
(* What the macros put into them.                                          *)

LEMMA ShiftBit ==
    ASSUME NEW v, NEW s \in Nat, NEW w \in Nat, NEW b
    PROVE  b \in Packets!_SHIFTL(v, s, w) <=> b \in s .. s + w - 1 /\ b - s \in Packets!Bits(v)
<1> DEFINE W == Packets!Bits(v)
<1>1. W \subseteq 0 .. 31
    BY BitsInWord DEF Packets!Width
<1>2. b \in Packets!_SHIFTL(v, s, w) <=> \E k \in W \cap (0 .. w - 1) : b = k + s
    BY Zenon DEF Packets!_SHIFTL, Packets!Shift, Packets!Low
<1> HIDE DEF W
<1>3. (\E k \in W \cap (0 .. w - 1) : b = k + s) <=> b \in s .. s + w - 1 /\ b - s \in W
    BY <1>1
<1> QED
    BY <1>2, <1>3, Zenon DEF W

\* v was put into w bits of the word from bit s on, and nothing else there.
Holds(word, s, w, v) ==
    \A bit \in s .. s + w - 1 : bit \in word <=> bit \in Packets!_SHIFTL(v, s, w)

LEMMA ReadsBack == \A v, word : \A s, w \in Nat : Holds(word, s, w, v) => Reads(word, s, w, v)
<1>1. ASSUME NEW v, NEW word, NEW s \in Nat, NEW w \in Nat, Holds(word, s, w, v),
             NEW k \in 0 .. w - 1
      PROVE  k + s \in word <=> k \in Packets!Bits(v)
    <2>1. k + s \in s .. s + w - 1 /\ (k + s) - s = k
        OBVIOUS
    <2>2. k + s \in Packets!_SHIFTL(v, s, w) <=> k \in Packets!Bits(v)
        BY <2>1, ShiftBit, Zenon
    <2> QED
        BY <1>1, <2>1, <2>2, Zenon DEF Holds
<1> QED
    BY <1>1, Zenon DEF Reads

LEMMA ReadsWord == \A v : Reads(Packets!Bits(v), 0, 32, v)
BY DEF Reads

LEMMA CmdBit == \A c, b : b \in Packets!Cmd(c) => b \in 24 .. 31
BY FieldBit DEF Packets!Cmd

\* The words the macros write, field by field.
LEMMA DmaReads ==
    ASSUME NEW c, NEW s, NEW l, NEW p, NEW gfx,
           gfx = Packets!gDma1p(c, s, l, p)
    PROVE  /\ IsPacket(gfx)
           /\ Reads(gfx.w0, 16, 8, p) /\ Reads(gfx.w0, 0, 16, l)
           /\ Reads(gfx.w1, 0, 32, s)
<1>1. gfx.w0 = Packets!Cmd(c) \cup Packets!_SHIFTL(p, 16, 8)
                   \cup Packets!_SHIFTL(l, 0, 16)
    BY SMT DEF Packets!gDma1p, Packets!Gfx
<1>2. gfx.w1 = Packets!Bits(s)
    BY SMT DEF Packets!gDma1p, Packets!Gfx
<1>3. IsPacket(gfx)
    BY <1>1, <1>2, FieldBit, WordBit, CmdBit DEF IsPacket
<1>4. /\ Holds(gfx.w0, 16, 8, p) /\ Holds(gfx.w0, 0, 16, l)
    BY <1>1, FieldBit, CmdBit DEF Holds
<1> QED
    BY <1>2, <1>3, <1>4, ReadsBack, ReadsWord

LEMMA ImageReads ==
    ASSUME NEW c, NEW fmt, NEW siz, NEW width, NEW i, NEW gfx,
           gfx = Packets!gSetImage(c, fmt, siz, width, i)
    PROVE  /\ IsPacket(gfx)
           /\ Reads(gfx.w0, 21, 3, fmt) /\ Reads(gfx.w0, 19, 2, siz) /\ Reads(gfx.w0, 0, 12, width - 1)
           /\ Reads(gfx.w1, 0, 32, i)
<1>1. gfx.w0 = Packets!Cmd(c) \cup Packets!_SHIFTL(fmt, 21, 3)
                   \cup Packets!_SHIFTL(siz, 19, 2)
                   \cup Packets!_SHIFTL(width - 1, 0, 12)
    BY SMT DEF Packets!gSetImage, Packets!Gfx
<1>2. gfx.w1 = Packets!Bits(i)
    BY SMT DEF Packets!gSetImage, Packets!Gfx
<1>3. IsPacket(gfx)
    BY <1>1, <1>2, FieldBit, WordBit, CmdBit DEF IsPacket
<1>4. /\ Holds(gfx.w0, 21, 3, fmt) /\ Holds(gfx.w0, 19, 2, siz)
      /\ Holds(gfx.w0, 0, 12, width - 1)
    BY <1>1, FieldBit, CmdBit DEF Holds
<1> QED
    BY <1>2, <1>3, <1>4, ReadsBack, ReadsWord

LEMMA TileAreaReads ==
    ASSUME NEW c, NEW t, NEW uls, NEW ult, NEW lrs, NEW lrt, NEW gfx,
           gfx = Packets!gDPLoadTileGeneric(c, t, uls, ult, lrs, lrt)
    PROVE  /\ IsPacket(gfx)
           /\ Reads(gfx.w0, 12, 12, uls) /\ Reads(gfx.w0, 0, 12, ult)
           /\ Reads(gfx.w1, 24, 3, t) /\ Reads(gfx.w1, 12, 12, lrs) /\ Reads(gfx.w1, 0, 12, lrt)
<1>1. gfx.w0 = Packets!Cmd(c) \cup Packets!_SHIFTL(uls, 12, 12)
                   \cup Packets!_SHIFTL(ult, 0, 12)
    BY SMT DEF Packets!gDPLoadTileGeneric, Packets!Gfx
<1>2. gfx.w1 = Packets!_SHIFTL(t, 24, 3) \cup Packets!_SHIFTL(lrs, 12, 12)
                   \cup Packets!_SHIFTL(lrt, 0, 12)
    BY SMT DEF Packets!gDPLoadTileGeneric, Packets!Gfx
<1>3. IsPacket(gfx)
    BY <1>1, <1>2, FieldBit, WordBit, CmdBit DEF IsPacket
<1>4. /\ Holds(gfx.w0, 12, 12, uls) /\ Holds(gfx.w0, 0, 12, ult)
    BY <1>1, FieldBit, CmdBit DEF Holds
<1>5. /\ Holds(gfx.w1, 24, 3, t) /\ Holds(gfx.w1, 12, 12, lrs)
      /\ Holds(gfx.w1, 0, 12, lrt)
    BY <1>2, FieldBit, CmdBit DEF Holds
<1> QED
    BY <1>3, <1>4, <1>5, ReadsBack

LEMMA TileReads ==
    ASSUME NEW fmt, NEW siz, NEW line, NEW at, NEW idx, NEW pal,
           NEW t1, NEW t2, NEW t3, NEW s1, NEW s2, NEW s3, NEW gfx,
           gfx = Packets!gDPSetTile(fmt, siz, line, at, idx, pal,
                                    <<t1, t2, t3>>, <<s1, s2, s3>>)
    PROVE  /\ IsPacket(gfx)
           /\ Reads(gfx.w0, 21, 3, fmt) /\ Reads(gfx.w0, 19, 2, siz) /\ Reads(gfx.w0, 9, 9, line)
           /\ Reads(gfx.w0, 0, 9, at)
           /\ Reads(gfx.w1, 24, 3, idx) /\ Reads(gfx.w1, 20, 4, pal) /\ Reads(gfx.w1, 18, 2, t1)
           /\ Reads(gfx.w1, 14, 4, t2) /\ Reads(gfx.w1, 10, 4, t3) /\ Reads(gfx.w1, 8, 2, s1)
           /\ Reads(gfx.w1, 4, 4, s2) /\ Reads(gfx.w1, 0, 4, s3)
<1>1. gfx.w0 = Packets!Cmd(Packets!RDP.TILE) \cup Packets!_SHIFTL(fmt, 21, 3)
                   \cup Packets!_SHIFTL(siz, 19, 2) \cup Packets!_SHIFTL(line, 9, 9)
                   \cup Packets!_SHIFTL(at, 0, 9)
    BY SMT DEF Packets!gDPSetTile, Packets!Gfx
<1>2. gfx.w1 = Packets!_SHIFTL(idx, 24, 3) \cup Packets!_SHIFTL(pal, 20, 4)
                   \cup Packets!_SHIFTL(t1, 18, 2) \cup Packets!_SHIFTL(t2, 14, 4)
                   \cup Packets!_SHIFTL(t3, 10, 4) \cup Packets!_SHIFTL(s1, 8, 2)
                   \cup Packets!_SHIFTL(s2, 4, 4) \cup Packets!_SHIFTL(s3, 0, 4)
    BY SMT DEF Packets!gDPSetTile, Packets!Gfx
<1>3. IsPacket(gfx)
    BY <1>1, <1>2, FieldBit, WordBit, CmdBit DEF IsPacket
<1>4. /\ Holds(gfx.w0, 21, 3, fmt) /\ Holds(gfx.w0, 19, 2, siz)
      /\ Holds(gfx.w0, 9, 9, line) /\ Holds(gfx.w0, 0, 9, at)
    BY <1>1, FieldBit, CmdBit DEF Holds
<1>5. /\ Holds(gfx.w1, 24, 3, idx) /\ Holds(gfx.w1, 20, 4, pal)
      /\ Holds(gfx.w1, 18, 2, t1) /\ Holds(gfx.w1, 14, 4, t2)
    BY <1>2, FieldBit, CmdBit DEF Holds
<1>6. /\ Holds(gfx.w1, 10, 4, t3) /\ Holds(gfx.w1, 8, 2, s1)
      /\ Holds(gfx.w1, 4, 4, s2) /\ Holds(gfx.w1, 0, 4, s3)
    BY <1>2, FieldBit, CmdBit DEF Holds
<1> QED
    BY <1>3, <1>4, <1>5, <1>6, ReadsBack

LEMMA ColorReads ==
    ASSUME NEW m, NEW l, NEW red, NEW green, NEW blue, NEW alpha, NEW gfx,
           gfx = Packets!gDPSetPrimColor(m, l, red, green, blue, alpha)
    PROVE  /\ IsPacket(gfx)
           /\ Reads(gfx.w0, 8, 8, m) /\ Reads(gfx.w0, 0, 8, l)
<1>1. gfx.w0 = Packets!Cmd(Packets!RDP.PRIMCOLOR) \cup Packets!_SHIFTL(m, 8, 8)
                   \cup Packets!_SHIFTL(l, 0, 8)
    BY SMT DEF Packets!gDPSetPrimColor, Packets!Gfx
<1>2. gfx.w1 = Packets!RGBA(red, green, blue, alpha)
    BY SMT DEF Packets!gDPSetPrimColor, Packets!Gfx
<1>3. IsPacket(gfx)
    BY <1>1, <1>2, FieldBit, WordBit, CmdBit DEF IsPacket, Packets!RGBA
<1>4. /\ Holds(gfx.w0, 8, 8, m) /\ Holds(gfx.w0, 0, 8, l)
    BY <1>1, FieldBit, CmdBit DEF Holds
<1> QED
    BY <1>2, <1>3, <1>4, ReadsBack, ReadsWord

LEMMA ScissorReads ==
    ASSUME NEW bits, NEW ulx, NEW uly, NEW lrx, NEW lry, NEW gfx,
           gfx = Packets!gDPSetScissorFrac(bits, ulx, uly, lrx, lry)
    PROVE  /\ IsPacket(gfx)
           /\ Reads(gfx.w0, 12, 12, ulx) /\ Reads(gfx.w0, 0, 12, uly)
           /\ Reads(gfx.w1, 24, 2, bits) /\ Reads(gfx.w1, 12, 12, lrx) /\ Reads(gfx.w1, 0, 12, lry)
<1>1. gfx.w0 = Packets!Cmd(Packets!RDP.SCISSOR) \cup Packets!_SHIFTL(ulx, 12, 12)
                   \cup Packets!_SHIFTL(uly, 0, 12)
    BY SMT DEF Packets!gDPSetScissorFrac, Packets!Gfx
<1>2. gfx.w1 = Packets!_SHIFTL(bits, 24, 2) \cup Packets!_SHIFTL(lrx, 12, 12)
                   \cup Packets!_SHIFTL(lry, 0, 12)
    BY SMT DEF Packets!gDPSetScissorFrac, Packets!Gfx
<1>3. IsPacket(gfx)
    BY <1>1, <1>2, FieldBit, WordBit, CmdBit DEF IsPacket
<1>4. /\ Holds(gfx.w0, 12, 12, ulx) /\ Holds(gfx.w0, 0, 12, uly)
    BY <1>1, FieldBit, CmdBit DEF Holds
<1>5. /\ Holds(gfx.w1, 24, 2, bits) /\ Holds(gfx.w1, 12, 12, lrx)
      /\ Holds(gfx.w1, 0, 12, lry)
    BY <1>2, FieldBit, CmdBit DEF Holds
<1> QED
    BY <1>3, <1>4, <1>5, ReadsBack

LEMMA TlutReads ==
    ASSUME NEW t, NEW count, NEW gfx,
           gfx = Packets!gDPLoadTLUTCmd(t, count)
    PROVE  /\ IsPacket(gfx)
           /\ Reads(gfx.w1, 24, 3, t) /\ Reads(gfx.w1, 14, 10, count)
           /\ \A bit \in 0 .. 23 : bit \notin gfx.w0
           /\ \A bit \in 0 .. 13 : bit \notin gfx.w1
<1>1. gfx.w0 = Packets!Cmd(Packets!RDP.LOADTLUT)
    BY SMT DEF Packets!gDPLoadTLUTCmd, Packets!Gfx
<1>2. gfx.w1 = Packets!_SHIFTL(t, 24, 3) \cup Packets!_SHIFTL(count, 14, 10)
    BY SMT DEF Packets!gDPLoadTLUTCmd, Packets!Gfx
<1>3. IsPacket(gfx)
    BY <1>1, <1>2, FieldBit, WordBit, CmdBit DEF IsPacket
<1>4. /\ Holds(gfx.w1, 24, 3, t) /\ Holds(gfx.w1, 14, 10, count)
    BY <1>2, FieldBit, CmdBit DEF Holds
<1>5. /\ \A bit \in 0 .. 23 : bit \notin gfx.w0
      /\ \A bit \in 0 .. 13 : bit \notin gfx.w1
    BY <1>1, <1>2, FieldBit, CmdBit
<1> QED
    BY <1>3, <1>4, <1>5, ReadsBack

\* The bits of 4 * v are those of v, two places up.
LEMMA FourTimes ==
    ASSUME NEW v \in Int
    PROVE  /\ 0 \notin Packets!Bits(v * 4) /\ 1 \notin Packets!Bits(v * 4)
           /\ \A k \in 0 .. 28 : k + 2 \in Packets!Bits(v * 4) <=> k \in Packets!Bits(v)
<1>1. 0 \notin Packets!Bits(v * 4) /\ 1 \notin Packets!Bits(v * 4)
    <2>1. /\ 0 \in Packets!Bits(v * 4) <=> ((v * 4) \div 2 ^ 0) % 2 = 1
          /\ 1 \in Packets!Bits(v * 4) <=> ((v * 4) \div 2 ^ 1) % 2 = 1
        BY BitIsDigit, SMT
    <2> QED
        BY <2>1
<1>2. ASSUME NEW k \in 0 .. 28
      PROVE  k + 2 \in Packets!Bits(v * 4) <=> k \in Packets!Bits(v)
    <2> DEFINE P == 2 ^ k
               q == v \div P
               r == v % P
    <2>1. k \in Nat /\ k + 2 \in 0 .. 30 /\ k \in 0 .. 30 /\ v * 4 \in Int
          /\ k + 1 \in Nat /\ (k + 1) + 1 = k + 2
        OBVIOUS
    <2>2. P \in Nat \ {0}
        BY <2>1, PowerIsPositive, Zenon
    <2>3. 2 ^ (k + 2) = 4 * P
        <3>1. 2 ^ (k + 1) = 2 * 2 ^ k /\ 2 ^ ((k + 1) + 1) = 2 * 2 ^ (k + 1)
            BY <2>1, PowerOfNext, Zenon
        <3>2. 2 ^ (k + 2) = 2 * (2 * P)
            BY <2>1, <3>1, Zenon
        <3> HIDE DEF P
        <3> QED
            BY <2>2, <3>2
    <2>4. k + 2 \in Packets!Bits(v * 4) <=> ((v * 4) \div (4 * P)) % 2 = 1
        BY <2>1, <2>3, BitIsDigit, Zenon
    <2>5. k \in Packets!Bits(v) <=> q % 2 = 1
        BY <2>1, BitIsDigit, Zenon
    <2>6. (v * 4) \div (4 * P) = q
        <3> HIDE DEF P
        <3>1. q \in Int /\ r \in 0 .. P - 1 /\ v = P * q + r
            BY <2>2, DivisionOf
        <3> HIDE DEF q, r
        <3>2. 4 * P \in Nat \ {0} /\ 4 * r \in 0 .. (4 * P) - 1
            BY <2>2, <3>1
        <3>3. v * 4 = (4 * P) * q + 4 * r
            <4> DEFINE x == P * q
            <4>1. x \in Int /\ (4 * P) * q = 4 * x
                BY <2>2, <3>1
            <4>2. v = x + r
                BY <3>1
            <4> HIDE DEF x
            <4> QED
                BY <3>1, <4>1, <4>2
        <3> QED
            BY <2>1, <3>1, <3>2, <3>3, DivisionIs
    <2> QED
        BY <2>4, <2>5, <2>6, Zenon
<1> QED
    BY <1>1, <1>2

\* The low n bits of v % 2 ^ n are those of v.
LEMMA Wrapped ==
    ASSUME NEW v \in Int, NEW n \in 0 .. 31, NEW k \in 0 .. n - 1
    PROVE  k \in Packets!Bits(v % 2 ^ n) <=> k \in Packets!Bits(v)
<1> DEFINE P == 2 ^ k
           R == 2 ^ (n - 1 - k)
           N == 2 ^ n
           q == v \div N
           r == v % N
           q2 == r \div P
           r2 == r % P
<1>1. /\ k \in Nat /\ k \in 0 .. 30 /\ n \in Nat /\ n - 1 - k \in Nat /\ n - k \in Nat
      /\ (n - 1 - k) + 1 = n - k /\ (n - k) + k = n
    OBVIOUS
<1>2. P \in Nat \ {0} /\ R \in Nat \ {0} /\ N \in Nat \ {0}
    BY <1>1, PowerIsPositive, Zenon
<1>3. N = P * (2 * R)
    <2>1. 2 ^ ((n - 1 - k) + 1) = 2 * R
        BY <1>1, PowerOfNext, Zenon
    <2>2. 2 ^ ((n - k) + k) = 2 ^ (n - k) * P
        BY <1>1, PowerOfSum, Zenon
    <2>3. N = (2 * R) * P
        BY <1>1, <2>1, <2>2, Zenon
    <2> HIDE DEF N, P, R
    <2> QED
        BY <1>2, <2>3
<1> HIDE DEF P, R, N
<1>4. q \in Int /\ r \in Int /\ v = N * q + r
    BY <1>2, DivisionOf
<1> HIDE DEF q, r
<1>5. q2 \in Int /\ r2 \in 0 .. P - 1 /\ r = P * q2 + r2
    BY <1>2, <1>4, DivisionOf
<1> HIDE DEF q2, r2
<1>6. v \div P = 2 * (R * q) + q2
    <2> DEFINE x == R * q
    <2>1. x \in Int /\ N * q = P * (2 * x)
        BY <1>2, <1>3, <1>4
    <2> HIDE DEF x
    <2>2. P * (2 * x) + P * q2 = P * (2 * x + q2)
        BY <1>2, <1>5, <2>1
    <2>3. v = P * (2 * x + q2) + r2
        BY <1>2, <1>4, <1>5, <2>1, <2>2
    <2>4. 2 * x + q2 \in Int
        BY <1>5, <2>1
    <2> QED
        BY <1>2, <1>5, <2>3, <2>4, DivisionIs DEF x
<1>7. (v \div P) % 2 = q2 % 2
    <2> DEFINE x == R * q
    <2>1. x \in Int
        BY <1>2, <1>4
    <2> HIDE DEF x
    <2>2. (2 * x + q2) % 2 = q2 % 2
        BY <1>5, <2>1
    <2> QED
        BY <1>6, <2>2, Zenon DEF x
<1>8. k \in Packets!Bits(v) <=> (v \div P) % 2 = 1
    BY <1>1, BitIsDigit, Zenon DEF P
<1>9. k \in Packets!Bits(r) <=> q2 % 2 = 1
    BY <1>1, <1>4, BitIsDigit, Zenon DEF P, q2
<1> QED
    BY <1>7, <1>8, <1>9, Zenon DEF r, N

\* A field of two bits, read as two of one.
LEMMA ReadsTwo ==
    ASSUME NEW v \in Int, NEW s \in Nat, NEW word, Reads(word, s, 2, v)
    PROVE  Reads(word, s + 1, 1, v \div 2) /\ Reads(word, s, 1, v)
<1>1. /\ s \in word <=> 0 \in Packets!Bits(v)
      /\ s + 1 \in word <=> 1 \in Packets!Bits(v)
    <2>1. 0 \in 0 .. 2 - 1 /\ 1 \in 0 .. 2 - 1 /\ 0 + s = s /\ 1 + s = s + 1
        OBVIOUS
    <2> QED
        BY <2>1, Zenon DEF Reads
<1>2. 1 \in Packets!Bits(v) <=> 0 \in Packets!Bits(v \div 2)
    <2>1. v \div 2 \in Int
        OBVIOUS
    <2>2. /\ 1 \in Packets!Bits(v) <=> (v \div 2 ^ 1) % 2 = 1
          /\ 0 \in Packets!Bits(v \div 2) <=> ((v \div 2) \div 2 ^ 0) % 2 = 1
        BY <2>1, BitIsDigit, SMT
    <2> QED
        BY <2>1, <2>2
<1>3. \A k \in 0 .. 1 - 1 : k = 0
    OBVIOUS
<1>4. 0 + s = s /\ 0 + (s + 1) = s + 1
    OBVIOUS
<1> QED
    BY <1>1, <1>2, <1>3, <1>4, Zenon DEF Reads

\* A coordinate with two fraction bits.
LEMMA ReadsWhole ==
    ASSUME NEW v \in Int, NEW s \in Nat, NEW word, Reads(word, s, 12, v * 4)
    PROVE  Reads(word, s + 2, 10, v)
<1>1. ASSUME NEW k \in 0 .. 10 - 1
      PROVE  k + (s + 2) \in word <=> k \in Packets!Bits(v)
    <2>1. k + 2 \in 0 .. 12 - 1 /\ (k + 2) + s = k + (s + 2) /\ k \in 0 .. 28
        OBVIOUS
    <2>2. k + 2 \in Packets!Bits(v * 4) <=> k \in Packets!Bits(v)
        BY <2>1, FourTimes, Zenon
    <2>3. (k + 2) + s \in word <=> k + 2 \in Packets!Bits(v * 4)
        BY <2>1, Zenon DEF Reads
    <2> QED
        BY <2>1, <2>2, <2>3, Zenon
<1> QED
    BY <1>1, Zenon DEF Reads

\* An argument cut to n bits by arithmetic.
LEMMA ReadsWrapped ==
    ASSUME NEW v \in Int, NEW word, NEW s, NEW n \in 0 .. 31, NEW N, N = 2 ^ n,
           Reads(word, s, n, v % N)
    PROVE  Reads(word, s, n, v)
<1>1. \A k \in 0 .. n - 1 : k \in Packets!Bits(v % 2 ^ n) <=> k \in Packets!Bits(v)
    BY Wrapped, Zenon
<1> QED
    BY <1>1, Zenon DEF Reads

\* A count of palette entries, ten bits of it, as a coordinate.
LEMMA ReadsCount ==
    ASSUME NEW v \in Int, NEW word, Reads(word, 14, 10, v),
           12 \notin word, 13 \notin word, NEW N, N = 2 ^ 10
    PROVE  Reads(word, 12, 12, (v % N) * 4)
<1> DEFINE u == v % N
<1>1. u \in Int
    BY SMT
<1> HIDE DEF u
<1>2. ASSUME NEW k \in 0 .. 12 - 1
      PROVE  k + 12 \in word <=> k \in Packets!Bits(u * 4)
    <2>1. CASE k = 0 \/ k = 1
        <3>1. 0 + 12 \notin word /\ 1 + 12 \notin word
            BY SMT
        <3>2. 0 \notin Packets!Bits(u * 4) /\ 1 \notin Packets!Bits(u * 4)
            BY <1>1, FourTimes, Zenon
        <3> QED
            BY <2>1, <3>1, <3>2
    <2>2. CASE k \in 2 .. 11
        <3> DEFINE j == k - 2
        <3>1. j \in 0 .. 10 - 1 /\ j \in 0 .. 28 /\ 10 \in 0 .. 31 /\ j + 2 = k
              /\ j + 14 = k + 12
            BY <2>2
        <3> HIDE DEF j
        <3>2. j + 14 \in word <=> j \in Packets!Bits(v)
            BY <3>1, Zenon DEF Reads
        <3>3. j \in Packets!Bits(v) <=> j \in Packets!Bits(u)
            BY <3>1, Wrapped, Zenon DEF u
        <3>4. j + 2 \in Packets!Bits(u * 4) <=> j \in Packets!Bits(u)
            BY <1>1, <3>1, FourTimes, Zenon
        <3> QED
            BY <3>1, <3>2, <3>3, <3>4, Zenon
    <2> QED
        BY <2>1, <2>2
<1> QED
    BY <1>2, Zenon DEF Reads, u

LEMMA ReadsNothing ==
    ASSUME NEW s, NEW w, NEW word, \A k \in 0 .. w - 1 : k + s \notin word
    PROVE  Reads(word, s, w, 0)
<1>1. ASSUME NEW k \in 0 .. 30 PROVE k \notin Packets!Bits(0)
    <2>1. 2 ^ k \in Nat \ {0} /\ 0 \in Int
        BY PowerIsPositive
    <2>2. k \in Packets!Bits(0) <=> (0 \div 2 ^ k) % 2 = 1
        BY <2>1, BitIsDigit, Zenon
    <2> DEFINE P == 2 ^ k
    <2> HIDE DEF P
    <2>3. 0 = P * 0 + 0
        BY <2>1 DEF P
    <2>4. 0 \div P = 0
        BY <2>1, <2>3, DivisionIs DEF P
    <2>5. ~(0 % 2 = 1)
        BY SMT
    <2> QED
        BY <2>2, <2>4, <2>5, Zenon DEF P
<1>2. Packets!Bits(0) \subseteq 0 .. 30
    BY SMT DEF Packets!Bits
<1>3. \A k : k \notin Packets!Bits(0)
    BY <1>1, <1>2, Zenon
<1> QED
    BY <1>3, Zenon DEF Reads

\* FieldsKept, for s.
FieldsRight(s) ==
    \A name \in DOMAIN s.fields : Right(s.type, name, s.list[1], s.fields[name])

LEMMA UntypedIsRight ==
    /\ FieldsRight(Packets!Nothing)
    /\ \A ops, packets : FieldsRight(Packets!Plain(ops, packets))
    /\ \A op, gfx : FieldsRight(Packets!One(op, gfx))
BY DEF FieldsRight, Packets!Nothing, Packets!One, Packets!Plain

LEMMA TypedIsRight ==
    ASSUME NEW op, NEW gfx, NEW type, NEW fields,
           \A name \in DOMAIN fields : Right(type, name, gfx, fields[name])
    PROVE  FieldsRight(Packets!Typed(op, gfx, type, fields))
BY DEF FieldsRight, Packets!Typed, Packets!One, Packets!Plain

\* Packets of Gdma.
LEMMA DmaIsRight ==
    ASSUME NEW op, NEW c, NEW s, NEW l, NEW p
    PROVE  /\ FieldsRight(Packets!Typed(op, Packets!gDma1p(c, s, l, p), Packets!Gdma,
                                        [par |-> p, len |-> l, addr |-> s]))
           /\ FieldsRight(Packets!Typed(op, Packets!gDma1p(c, s, l, p), Packets!Gdma,
                                        [par |-> p, addr |-> s]))
<1> DEFINE gfx == Packets!gDma1p(c, s, l, p)
           type == Packets!Gdma
<1>1. /\ Right(type, "par", gfx, p) /\ Right(type, "len", gfx, l)
      /\ Right(type, "addr", gfx, s)
    <2>1. /\ IsPacket(gfx)
          /\ Reads(gfx.w0, 16, 8, p) /\ Reads(gfx.w0, 0, 16, l)
          /\ Reads(gfx.w1, 0, 32, s)
        BY DmaReads, Zenon
    <2> HIDE DEF gfx
    <2> QED
        BY <2>1, OfGdma DEF InFirst, InSecond
<1> HIDE DEF gfx, type
<1>2. \A name \in {"par", "len", "addr"} :
        Right(type, name, gfx, [par |-> p, len |-> l, addr |-> s][name])
    BY <1>1
<1>3. \A name \in {"par", "addr"} : Right(type, name, gfx, [par |-> p, addr |-> s][name])
    BY <1>1
<1> QED
    BY <1>2, <1>3, TypedIsRight DEF gfx, type

LEMMA ImageIsRight ==
    ASSUME NEW op, NEW c, NEW fmt, NEW siz, NEW width, NEW i
    PROVE  /\ FieldsRight(Packets!Typed(op, Packets!gSetImage(c, fmt, siz, width, i),
                  Packets!Gsetimg, [fmt |-> fmt, siz |-> siz, wd |-> width - 1, dram |-> i]))
           /\ FieldsRight(Packets!Typed(op, Packets!gSetImage(c, fmt, siz, width, i),
                  Packets!Gsetimg, [wd |-> width - 1, dram |-> i]))
<1> DEFINE gfx == Packets!gSetImage(c, fmt, siz, width, i)
           type == Packets!Gsetimg
<1>1. /\ Right(type, "fmt", gfx, fmt) /\ Right(type, "siz", gfx, siz)
      /\ Right(type, "wd", gfx, width - 1) /\ Right(type, "dram", gfx, i)
    <2>1. /\ IsPacket(gfx)
          /\ Reads(gfx.w0, 21, 3, fmt) /\ Reads(gfx.w0, 19, 2, siz)
          /\ Reads(gfx.w0, 0, 12, width - 1) /\ Reads(gfx.w1, 0, 32, i)
        BY ImageReads, Zenon
    <2> HIDE DEF gfx
    <2> QED
        BY <2>1, OfGsetimg DEF InFirst, InSecond
<1> DEFINE wd == width - 1
           f == [fmt |-> fmt, siz |-> siz, wd |-> wd, dram |-> i]
           g == [wd |-> wd, dram |-> i]
<1> HIDE DEF gfx, type, wd
<1>2. \A name \in {"fmt", "siz", "wd", "dram"} : Right(type, name, gfx, f[name])
    BY <1>1 DEF wd
<1>3. \A name \in {"wd", "dram"} : Right(type, name, gfx, g[name])
    BY <1>1 DEF wd
<1> QED
    BY <1>2, <1>3, TypedIsRight DEF gfx, type, wd

\* Packets of Gloadtile.
LEMMA TileAreaIsRight ==
    ASSUME NEW op, NEW gfx, NEW t, NEW sl, NEW tl, NEW sh, NEW th,
           IsPacket(gfx),
           Reads(gfx.w0, 12, 12, sl), Reads(gfx.w0, 0, 12, tl),
           Reads(gfx.w1, 24, 3, t), Reads(gfx.w1, 12, 12, sh), Reads(gfx.w1, 0, 12, th)
    PROVE  FieldsRight(Packets!Typed(op, gfx, Packets!Gloadtile,
                         [tile |-> t, sl |-> sl, tl |-> tl, sh |-> sh, th |-> th]))
<1> DEFINE type == Packets!Gloadtile
           f == [tile |-> t, sl |-> sl, tl |-> tl, sh |-> sh, th |-> th]
<1>1. /\ Right(type, "tile", gfx, t) /\ Right(type, "sl", gfx, sl) /\ Right(type, "tl", gfx, tl)
      /\ Right(type, "sh", gfx, sh) /\ Right(type, "th", gfx, th)
    BY OfGloadtile DEF InFirst, InSecond
<1> HIDE DEF type
<1>2. \A name \in {"tile", "sl", "tl", "sh", "th"} : Right(type, name, gfx, f[name])
    BY <1>1
<1> QED
    BY <1>2, TypedIsRight DEF type

LEMMA TileSizeIsRight ==
    ASSUME NEW op, NEW c, NEW t, NEW sl, NEW tl, NEW sh, NEW th
    PROVE  FieldsRight(Packets!Typed(op, Packets!gDPLoadTileGeneric(c, t, sl, tl, sh, th),
               Packets!Gloadtile, [tile |-> t, sl |-> sl, tl |-> tl, sh |-> sh, th |-> th]))
<1> DEFINE gfx == Packets!gDPLoadTileGeneric(c, t, sl, tl, sh, th)
<1>1. /\ IsPacket(gfx)
      /\ Reads(gfx.w0, 12, 12, sl) /\ Reads(gfx.w0, 0, 12, tl)
      /\ Reads(gfx.w1, 24, 3, t) /\ Reads(gfx.w1, 12, 12, sh) /\ Reads(gfx.w1, 0, 12, th)
    BY TileAreaReads, Zenon
<1> HIDE DEF gfx
<1>2. FieldsRight(Packets!Typed(op, gfx, Packets!Gloadtile,
                    [tile |-> t, sl |-> sl, tl |-> tl, sh |-> sh, th |-> th]))
    BY <1>1, TileAreaIsRight, Zenon
<1> QED
    BY <1>2, Zenon DEF gfx

LEMMA HiliteIsRight ==
    ASSUME NEW op, NEW t, NEW x \in Int, NEW y \in Int, NEW width \in Int, NEW height \in Int
    PROVE  FieldsRight(Packets!Typed(op,
               Packets!gDPSetHiliteTile(t, [x |-> x, y |-> y], width, height),
               Packets!Gloadtile,
               [tile |-> t, sl |-> x, tl |-> y, sh |-> (width - 1) * 4 + x,
                th |-> (height - 1) * 4 + y]))
<1> DEFINE gfx == Packets!gDPSetHiliteTile(t, [x |-> x, y |-> y], width, height)
           sh == (width - 1) * 4 + x
           th == (height - 1) * 4 + y
<1>1. gfx = Packets!gDPLoadTileGeneric(Packets!RDP.TILESIZE, t, x % 4096, y % 4096,
                                       sh % 4096, th % 4096)
    BY SMT DEF Packets!gDPSetHiliteTile, Packets!gDPSetTileSize
<1>2. sh \in Int /\ th \in Int
    OBVIOUS
<1> HIDE DEF gfx, sh, th
<1>3. /\ IsPacket(gfx)
      /\ Reads(gfx.w0, 12, 12, x % 4096) /\ Reads(gfx.w0, 0, 12, y % 4096)
      /\ Reads(gfx.w1, 24, 3, t)
      /\ Reads(gfx.w1, 12, 12, sh % 4096) /\ Reads(gfx.w1, 0, 12, th % 4096)
    BY <1>1, TileAreaReads, SMT
<1>4. \A v \in Int : \A word, s : Reads(word, s, 12, v % 4096) => Reads(word, s, 12, v)
    <2> DEFINE N == 4096
    <2>1. 12 \in 0 .. 31 /\ N = 2 ^ 12
        BY SMT
    <2> HIDE DEF N
    <2>2. \A v \in Int : \A word, s : Reads(word, s, 12, v % N) => Reads(word, s, 12, v)
        BY <2>1, ReadsWrapped, Zenon
    <2> QED
        BY <2>2, SMT DEF N
<1>5. /\ Reads(gfx.w0, 12, 12, x) /\ Reads(gfx.w0, 0, 12, y)
      /\ Reads(gfx.w1, 12, 12, sh) /\ Reads(gfx.w1, 0, 12, th)
    BY <1>2, <1>3, <1>4, SMT
<1>6. FieldsRight(Packets!Typed(op, gfx, Packets!Gloadtile,
                    [tile |-> t, sl |-> x, tl |-> y, sh |-> sh, th |-> th]))
    BY <1>3, <1>5, TileAreaIsRight, SMT
<1> QED
    BY <1>6, Zenon DEF gfx, sh, th

LEMMA TlutIsRight ==
    ASSUME NEW op, NEW t, NEW count \in Int
    PROVE  FieldsRight(Packets!Typed(op, Packets!gDPLoadTLUTCmd(t, count), Packets!Gloadtile,
               [tile |-> t, sl |-> 0, tl |-> 0, sh |-> (count % 1024) * 4, th |-> 0]))
<1> DEFINE gfx == Packets!gDPLoadTLUTCmd(t, count)
           sh == (count % 1024) * 4
<1>1. /\ IsPacket(gfx)
      /\ Reads(gfx.w1, 24, 3, t) /\ Reads(gfx.w1, 14, 10, count)
      /\ \A bit \in 0 .. 23 : bit \notin gfx.w0
      /\ \A bit \in 0 .. 13 : bit \notin gfx.w1
    BY TlutReads, Zenon
<1> HIDE DEF gfx, sh
<1>2. Reads(gfx.w1, 12, 12, sh)
    <2>1. 12 \notin gfx.w1 /\ 13 \notin gfx.w1
        BY <1>1
    <2> DEFINE N == 1024
    <2>2. N = 2 ^ 10
        BY SMT
    <2> HIDE DEF N
    <2>3. Reads(gfx.w1, 12, 12, (count % N) * 4)
        BY <1>1, <2>1, <2>2, ReadsCount, Zenon
    <2> QED
        BY <2>3, SMT DEF sh, N
<1>3. /\ Reads(gfx.w0, 12, 12, 0) /\ Reads(gfx.w0, 0, 12, 0) /\ Reads(gfx.w1, 0, 12, 0)
    <2>1. /\ \A k \in 0 .. 12 - 1 : k + 12 \notin gfx.w0
          /\ \A k \in 0 .. 12 - 1 : k + 0 \notin gfx.w0
          /\ \A k \in 0 .. 12 - 1 : k + 0 \notin gfx.w1
        BY <1>1
    <2> QED
        BY <2>1, ReadsNothing, Zenon
<1>4. FieldsRight(Packets!Typed(op, gfx, Packets!Gloadtile,
                    [tile |-> t, sl |-> 0, tl |-> 0, sh |-> sh, th |-> 0]))
    BY <1>1, <1>2, <1>3, TileAreaIsRight, Zenon
<1> QED
    BY <1>4, Zenon DEF gfx, sh

LEMMA TileIsRight ==
    ASSUME NEW op, NEW fmt, NEW siz, NEW line, NEW at, NEW idx, NEW pal,
           NEW t1 \in Int, NEW t2, NEW t3, NEW s1 \in Int, NEW s2, NEW s3
    PROVE  FieldsRight(Packets!Typed(op,
               Packets!gDPSetTile(fmt, siz, line, at, idx, pal, <<t1, t2, t3>>, <<s1, s2, s3>>),
               Packets!Gsettile,
               [fmt |-> fmt, siz |-> siz, line |-> line, tmem |-> at, tile |-> idx,
                palette |-> pal, ct |-> t1 \div 2, mt |-> t1, maskt |-> t2, shiftt |-> t3,
                cs |-> s1 \div 2, ms |-> s1, masks |-> s2, shifts |-> s3]))
<1> DEFINE gfx == Packets!gDPSetTile(fmt, siz, line, at, idx, pal,
                                     <<t1, t2, t3>>, <<s1, s2, s3>>)
           type == Packets!Gsettile
           ct == t1 \div 2
           cs == s1 \div 2
           f == [fmt |-> fmt, siz |-> siz, line |-> line, tmem |-> at, tile |-> idx,
                 palette |-> pal, ct |-> ct, mt |-> t1, maskt |-> t2, shiftt |-> t3,
                 cs |-> cs, ms |-> s1, masks |-> s2, shifts |-> s3]
<1>0. gfx = Packets!gDPSetTile(fmt, siz, line, at, idx, pal, <<t1, t2, t3>>, <<s1, s2, s3>>)
    OBVIOUS
<1> HIDE DEF gfx, type, ct, cs
<1>1. /\ IsPacket(gfx)
      /\ Reads(gfx.w0, 21, 3, fmt) /\ Reads(gfx.w0, 19, 2, siz)
      /\ Reads(gfx.w0, 9, 9, line) /\ Reads(gfx.w0, 0, 9, at)
      /\ Reads(gfx.w1, 24, 3, idx) /\ Reads(gfx.w1, 20, 4, pal) /\ Reads(gfx.w1, 18, 2, t1)
      /\ Reads(gfx.w1, 14, 4, t2) /\ Reads(gfx.w1, 10, 4, t3) /\ Reads(gfx.w1, 8, 2, s1)
      /\ Reads(gfx.w1, 4, 4, s2) /\ Reads(gfx.w1, 0, 4, s3)
    BY <1>0, TileReads
<1>2. /\ Reads(gfx.w1, 19, 1, ct) /\ Reads(gfx.w1, 18, 1, t1)
      /\ Reads(gfx.w1, 9, 1, cs) /\ Reads(gfx.w1, 8, 1, s1)
    <2>1. 18 \in Nat /\ 18 + 1 = 19 /\ 8 \in Nat /\ 8 + 1 = 9
        BY SMT
    <2>2. \A v \in Int, s \in Nat : \A word :
            Reads(word, s, 2, v) => Reads(word, s + 1, 1, v \div 2) /\ Reads(word, s, 1, v)
        BY ReadsTwo, Zenon
    <2> QED
        BY <1>1, <2>1, <2>2, SMT DEF ct, cs
<1>3. /\ Right(type, "fmt", gfx, fmt) /\ Right(type, "siz", gfx, siz)
      /\ Right(type, "line", gfx, line) /\ Right(type, "tmem", gfx, at)
      /\ Right(type, "tile", gfx, idx) /\ Right(type, "palette", gfx, pal)
      /\ Right(type, "ct", gfx, ct) /\ Right(type, "mt", gfx, t1)
      /\ Right(type, "maskt", gfx, t2) /\ Right(type, "shiftt", gfx, t3)
      /\ Right(type, "cs", gfx, cs) /\ Right(type, "ms", gfx, s1)
      /\ Right(type, "masks", gfx, s2) /\ Right(type, "shifts", gfx, s3)
    BY <1>1, <1>2, OfGsettile DEF InFirst, InSecond, type
<1>4. \A name \in {"fmt", "siz", "line", "tmem", "tile", "palette", "ct", "mt", "maskt",
                   "shiftt", "cs", "ms", "masks", "shifts"} : Right(type, name, gfx, f[name])
    BY <1>3
<1> QED
    BY <1>4, TypedIsRight DEF gfx, type, ct, cs

\* Packets of Gsetcombine.
LEMMA CombineIsRight ==
    ASSUME NEW op, NEW a, NEW b
    PROVE  FieldsRight(Packets!Typed(op,
               Packets!gDPSetCombine(Packets!Bits(a), Packets!Bits(b)),
               Packets!Gsetcombine, [muxs0 |-> a, muxs1 |-> b]))
<1> DEFINE gfx == Packets!gDPSetCombine(Packets!Bits(a), Packets!Bits(b))
           type == Packets!Gsetcombine
           f == [muxs0 |-> a, muxs1 |-> b]
<1>1. /\ gfx.w0 = Packets!Cmd(Packets!RDP.COMBINE) \cup Packets!Low(Packets!Bits(a), 24)
      /\ gfx.w1 = Packets!Bits(b)
    BY SMT DEF Packets!gDPSetCombine, Packets!Gfx
<1>2. IsPacket(gfx)
    BY <1>1, WordBit, CmdBit DEF IsPacket, Packets!Low
<1>3. Reads(gfx.w0, 0, 24, a)
    BY <1>1, CmdBit DEF Reads, Packets!Low
<1>4. Reads(gfx.w1, 0, 32, b)
    BY <1>1, ReadsWord, Zenon
<1> HIDE DEF gfx
<1>5. Right(type, "muxs0", gfx, a) /\ Right(type, "muxs1", gfx, b)
    BY <1>2, <1>3, <1>4, OfGsetcombine DEF InFirst, InSecond
<1> HIDE DEF type
<1>6. \A name \in {"muxs0", "muxs1"} : Right(type, name, gfx, f[name])
    BY <1>5
<1> QED
    BY <1>6, TypedIsRight DEF gfx, type

\* Packets of Gsetcolor.
LEMMA ColorIsRight ==
    ASSUME NEW op, NEW m, NEW l, NEW red, NEW green, NEW blue, NEW alpha
    PROVE  FieldsRight(Packets!Typed(op, Packets!gDPSetPrimColor(m, l, red, green, blue, alpha),
               Packets!Gsetcolor, [prim_min_level |-> m, prim_level |-> l]))
<1> DEFINE gfx == Packets!gDPSetPrimColor(m, l, red, green, blue, alpha)
           type == Packets!Gsetcolor
           f == [prim_min_level |-> m, prim_level |-> l]
<1>1. IsPacket(gfx) /\ Reads(gfx.w0, 8, 8, m) /\ Reads(gfx.w0, 0, 8, l)
    BY ColorReads, Zenon
<1> HIDE DEF gfx
<1>2. Right(type, "prim_min_level", gfx, m) /\ Right(type, "prim_level", gfx, l)
    BY <1>1, OfGsetcolor DEF InFirst
<1> HIDE DEF type
<1>3. \A name \in {"prim_min_level", "prim_level"} : Right(type, name, gfx, f[name])
    BY <1>2
<1> QED
    BY <1>3, TypedIsRight DEF gfx, type

\* Packets of Gfillrect: corners in quarters of a pixel, read in whole pixels.
LEMMA ScissorIsRight ==
    ASSUME NEW op, NEW bits, NEW ulx \in Int, NEW uly \in Int, NEW lrx \in Int, NEW lry \in Int
    PROVE  FieldsRight(Packets!Typed(op, Packets!gDPSetScissor(bits, ulx, uly, lrx, lry),
               Packets!Gfillrect, [x0 |-> ulx, y0 |-> uly, x1 |-> lrx, y1 |-> lry]))
<1> DEFINE gfx == Packets!gDPSetScissor(bits, ulx, uly, lrx, lry)
           type == Packets!Gfillrect
           f == [x0 |-> ulx, y0 |-> uly, x1 |-> lrx, y1 |-> lry]
<1>1. /\ IsPacket(gfx)
      /\ Reads(gfx.w0, 12, 12, ulx * 4) /\ Reads(gfx.w0, 0, 12, uly * 4)
      /\ Reads(gfx.w1, 12, 12, lrx * 4) /\ Reads(gfx.w1, 0, 12, lry * 4)
    BY ScissorReads, Zenon DEF Packets!gDPSetScissor
<1> HIDE DEF gfx, type
<1>2. /\ Reads(gfx.w0, 14, 10, ulx) /\ Reads(gfx.w0, 2, 10, uly)
      /\ Reads(gfx.w1, 14, 10, lrx) /\ Reads(gfx.w1, 2, 10, lry)
    <2>1. 12 \in Nat /\ 0 \in Nat /\ 12 + 2 = 14 /\ 0 + 2 = 2
        BY SMT
    <2>2. /\ \A v \in Int : \A word : Reads(word, 12, 12, v * 4) => Reads(word, 14, 10, v)
          /\ \A v \in Int : \A word : Reads(word, 0, 12, v * 4) => Reads(word, 2, 10, v)
        BY <2>1, ReadsWhole, Zenon
    <2> QED
        BY <1>1, <2>2, Zenon
<1>3. /\ Right(type, "x0", gfx, ulx) /\ Right(type, "y0", gfx, uly)
      /\ Right(type, "x1", gfx, lrx) /\ Right(type, "y1", gfx, lry)
    BY <1>1, <1>2, OfGfillrect DEF InFirst, InSecond, type
<1>4. \A name \in {"x0", "y0", "x1", "y1"} : Right(type, name, gfx, f[name])
    BY <1>3
<1> QED
    BY <1>4, TypedIsRight DEF gfx, type

LEMMA DisplayListsAreRight ==
    ASSUME NEW a, NEW b, NEW c, NEW s \in Packets!DisplayLists(a, b, c)
    PROVE  FieldsRight(s)
<1>1. /\ FieldsRight(Packets!Typed(Packets!G.DL, Packets!gSPDisplayList(a), Packets!Gdma,
                                   [par |-> Packets!G_DL_PUSH, addr |-> a]))
      /\ FieldsRight(Packets!Typed(Packets!G.DL, Packets!gSPBranchList(a), Packets!Gdma,
                                   [par |-> Packets!G_DL_NOPUSH, addr |-> a]))
      /\ FieldsRight(Packets!Typed(Packets!G.NOOP, Packets!gDPNoOpTag3(a, b, c), Packets!Gdma,
                                   [par |-> a, len |-> c, addr |-> b]))
    BY DmaIsRight, Zenon
    DEF Packets!gSPDisplayList, Packets!gSPBranchList, Packets!gDPNoOpTag3
<1> QED
    BY <1>1, UntypedIsRight, Zenon DEF Packets!DisplayLists

LEMMA GeometryIsRight ==
    ASSUME NEW a, NEW b, NEW c, NEW s \in Packets!Geometry(a, b, c)
    PROVE  FieldsRight(s)
<1>1. FieldsRight(Packets!Typed(Packets!G.MOVEWORD, Packets!gSPSegment(a, b), Packets!Gdma,
                                [par |-> Packets!G_MW.SEGMENT, len |-> a * 4, addr |-> b]))
    BY DmaIsRight, Zenon DEF Packets!gSPSegment, Packets!gMoveWd
<1> QED
    BY <1>1, UntypedIsRight, Zenon DEF Packets!Geometry

LEMMA ModesAreRight ==
    ASSUME NEW a, NEW b, NEW c, NEW s \in Packets!Modes(a, b, c)
    PROVE  FieldsRight(s)
BY CombineIsRight, ColorIsRight, UntypedIsRight, Zenon DEF Packets!Modes

LEMMA ImagesAreRight ==
    ASSUME NEW a \in Int, NEW b \in Int, NEW c \in Int, NEW s \in Packets!Images(a, b, c)
    PROVE  FieldsRight(s)
<1>1. /\ FieldsRight(Packets!Typed(Packets!RDP.CIMG, Packets!gDPSetColorImage(a, b, c, a),
             Packets!Gsetimg, [fmt |-> a, siz |-> b, wd |-> c - 1, dram |-> a]))
      /\ FieldsRight(Packets!Typed(Packets!RDP.TIMG, Packets!gDPSetTextureImage(a, b, c, b),
             Packets!Gsetimg, [fmt |-> a, siz |-> b, wd |-> c - 1, dram |-> b]))
    BY ImageIsRight, Zenon DEF Packets!gDPSetColorImage, Packets!gDPSetTextureImage
<1>2. FieldsRight(Packets!Typed(Packets!RDP.ZIMG, Packets!gDPSetDepthImage(a),
          Packets!Gsetimg, [wd |-> 0, dram |-> a]))
    <2>1. FieldsRight(Packets!Typed(Packets!RDP.ZIMG, Packets!gDPSetDepthImage(a),
              Packets!Gsetimg, [wd |-> 1 - 1, dram |-> a]))
        BY ImageIsRight, Zenon DEF Packets!gDPSetDepthImage
    <2>2. 1 - 1 = 0
        OBVIOUS
    <2> QED
        BY <2>1, <2>2, Zenon
<1>3. FieldsRight(Packets!Typed(Packets!RDP.TILE,
          Packets!gDPSetTile(a, b, c, a, b, c, <<a, b, c>>, <<c, b, a>>),
          Packets!Gsettile,
          [fmt |-> a, siz |-> b, line |-> c, tmem |-> a, tile |-> b,
           palette |-> c, ct |-> a \div 2, mt |-> a, maskt |-> b,
           shiftt |-> c, cs |-> c \div 2, ms |-> c, masks |-> b, shifts |-> a]))
    BY TileIsRight, Zenon
<1>4. /\ FieldsRight(Packets!Typed(Packets!RDP.TILESIZE, Packets!gDPSetTileSize(a, b, c, a, b),
             Packets!Gloadtile, [tile |-> a, sl |-> b, tl |-> c, sh |-> a, th |-> b]))
      /\ FieldsRight(Packets!Typed(Packets!RDP.LOADTILE, Packets!gDPLoadTile(a, b, c, a, b),
             Packets!Gloadtile, [tile |-> a, sl |-> b, tl |-> c, sh |-> a, th |-> b]))
    BY TileSizeIsRight, Zenon DEF Packets!gDPSetTileSize, Packets!gDPLoadTile
<1>5. FieldsRight(Packets!Typed(Packets!RDP.LOADBLOCK, Packets!gDPLoadBlock(a, b, c, a, b),
          Packets!Gloadtile,
          [tile |-> a, sl |-> b, tl |-> c, sh |-> Packets!Min({a, 2047}), th |-> b]))
    <2>1. FieldsRight(Packets!Typed(Packets!RDP.LOADBLOCK, Packets!gDPLoadBlock(a, b, c, a, b),
              Packets!Gloadtile,
              [tile |-> a, sl |-> b, tl |-> c,
               sh |-> Packets!Min({a, Packets!G_TX_LDBLK_MAX_TXL}), th |-> b]))
        BY TileSizeIsRight, Zenon DEF Packets!gDPLoadBlock
    <2> QED
        BY <2>1, SMT DEF Packets!G_TX_LDBLK_MAX_TXL
<1>6. FieldsRight(Packets!Typed(Packets!RDP.LOADTLUT, Packets!gDPLoadTLUTCmd(a, b),
          Packets!Gloadtile,
          [tile |-> a, sl |-> 0, tl |-> 0, sh |-> (b % 1024) * 4, th |-> 0]))
    BY TlutIsRight, SMT
<1>7. FieldsRight(Packets!Typed(Packets!RDP.TILESIZE,
          Packets!gDPSetHiliteTile(a, [x |-> b, y |-> c], b, c), Packets!Gloadtile,
          [tile |-> a, sl |-> b, tl |-> c, sh |-> (b - 1) * 4 + b, th |-> (c - 1) * 4 + c]))
    BY HiliteIsRight, Zenon
<1>8. FieldsRight(Packets!Typed(Packets!RDP.SCISSOR, Packets!gDPSetScissor(a, b, c, a, b),
          Packets!Gfillrect, [x0 |-> b, y0 |-> c, x1 |-> a, y1 |-> b]))
    BY ScissorIsRight, Zenon
<1> QED
    BY <1>1, <1>2, <1>3, <1>4, <1>5, <1>6, <1>7, <1>8, UntypedIsRight, SMT
    DEF Packets!Images

LEMMA WrittenIsRight ==
    ASSUME NEW s, Written(s)
    PROVE  FieldsRight(s)
<1>1. CASE s = Packets!Nothing
    BY <1>1, UntypedIsRight, Zenon
<1>2. CASE Listed(s)
    <2>1. Arguments \subseteq Int
        BY ListAssumption, Zenon
    <2> QED
        BY <1>2, <2>1, DisplayListsAreRight, GeometryIsRight, ModesAreRight, ImagesAreRight,
            Zenon DEF Listed
<1>3. ASSUME NEW v \in Quads, NEW flag \in 0 .. 3, Quadrangle(s, v, flag)
      PROVE  FieldsRight(s)
    BY <1>3 DEF Quadrangle, FieldsRight, Packets!One, Packets!Plain
<1>4. ASSUME NEW x, NEW y, NEW dsdx, NEW dtdy, Scissored(s, x, y, dsdx, dtdy)
      PROVE  FieldsRight(s)
    BY <1>4 DEF Scissored, FieldsRight, Packets!Plain
<1>5. ASSUME NEW min, NEW max, Fog(s, min, max)
      PROVE  FieldsRight(s)
    BY <1>5 DEF Fog, FieldsRight, Packets!One, Packets!Plain
<1> QED
    BY <1>1, <1>2, <1>3, <1>4, <1>5, Zenon DEF Written

\* Whatever integers its macro was given: a packet read through the bit fields of
\* the union Gfx (gbi.h) holds in each field the argument meant for it, cut to the
\* width of the field, and no argument reaches the field of another.
THEOREM FieldsAreKept == AllSpec => []FieldsKept
<1>1. Written(packet) => FieldsKept
    <2> SUFFICES ASSUME Written(packet) PROVE FieldsKept
        OBVIOUS
    <2>1. FieldsRight(packet)
        BY WrittenIsRight, Zenon
    <2> QED
        BY <2>1, Zenon DEF FieldsRight, Right, FieldsKept, Packets!FieldsKept
<1> QED
    BY AllWritten, <1>1, PTL

-----------------------------------------------------------------------------
(* Words and the fields of a word that the RSP and the RDP read.           *)

\* GbiCommands and DisplayModes share the definitions of Gbi.
LEMMA SameBits == \A v : Packets!Bits(v) = Bits(v)
BY Zenon DEF Packets!Bits, Bits, Packets!Width, Width

\* Powers that the fields below take.
LEMMA SmallPowers ==
    /\ 2 ^ 0 = 1 /\ 2 ^ 1 = 2 /\ 2 ^ 2 = 4 /\ 2 ^ 3 = 8 /\ 2 ^ 4 = 16
    /\ 2 ^ 5 = 32 /\ 2 ^ 8 = 256
OBVIOUS

\* The bits of a number of three bits.
LEMMA SmallBits ==
    ASSUME NEW v \in 0 .. 7
    PROVE  \A b : b \in Bits(v) <=> \/ b = 0 /\ v % 2 = 1
                                    \/ b = 1 /\ (v \div 2) % 2 = 1
                                    \/ b = 2 /\ (v \div 4) % 2 = 1
<1>1. \A b : b \in Bits(v) => b \in 0 .. 30
    BY DEF Bits
<1>2. \A b \in 0 .. 30 : b \in Bits(v) <=> (v \div 2 ^ b) % 2 = 1
    <2>1. v \in Int
        OBVIOUS
    <2> QED
        BY <2>1, SameBits, BitIsDigit, Zenon
<1>3. ASSUME NEW b \in 3 .. 30 PROVE ~(b \in Bits(v))
    <2>1. 2 ^ b = 8 * 2 ^ (b - 3) /\ 2 ^ (b - 3) \in Nat \ {0}
        <3>1. 3 \in Nat /\ b - 3 \in Nat /\ 3 + (b - 3) = b
            OBVIOUS
        <3>2. 2 ^ (3 + (b - 3)) = 2 ^ 3 * 2 ^ (b - 3) /\ 2 ^ (b - 3) \in Nat \ {0}
            BY <3>1, PowerOfSum, PowerIsPositive, Zenon
        <3> QED
            BY <3>1, <3>2, SmallPowers, Zenon
    <2> DEFINE P == 2 ^ b
    <2>2. P \in Nat /\ P >= 8
        BY <2>1
    <2>3. b \in 0 .. 30
        OBVIOUS
    <2>4. b \in Bits(v) <=> (v \div P) % 2 = 1
        BY <1>2, <2>3, Zenon
    <2> HIDE DEF P
    <2>5. v \div P = 0
        BY <2>2
    <2> QED
        BY <2>4, <2>5
<1>4. 0 \in Bits(v) <=> v % 2 = 1
    BY <1>2, SmallPowers
<1>5. 1 \in Bits(v) <=> (v \div 2) % 2 = 1
    BY <1>2, SmallPowers
<1>6. 2 \in Bits(v) <=> (v \div 4) % 2 = 1
    BY <1>2, SmallPowers
<1> QED
    BY <1>1, <1>3, <1>4, <1>5, <1>6

\* The bits of a number, one by one.
LEMMA BitsOf ==
    /\ Bits(0) = {} /\ Bits(1) = {0} /\ Bits(2) = {1} /\ Bits(3) = {0, 1}
    /\ Bits(5) = {0, 2} /\ Bits(6) = {1, 2}
BY SmallBits

\* A field of a word that holds v's bits and nothing else is read as v modulo
\* what it can hold.
LEMMA FieldIs ==
    ASSUME NEW v \in Int, NEW s \in Nat, NEW w \in 0 .. 31, s + w <= 32, NEW word,
           \A b \in s .. s + w - 1 : b \in word <=> b \in _SHIFTL(v, s, w)
    PROVE  Number(Field(word, s, w)) = v % 2 ^ w
<1>1. _SHIFTL(v, s, w) = Packets!_SHIFTL(v, s, w)
    BY SameBits, Zenon DEF _SHIFTL, Packets!_SHIFTL, Shift, Packets!Shift, Low, Packets!Low
<1>2. Number(Field(word, s, w)) = Packets!Number(word, s, w)
    BY Zenon DEF Number, Field, Packets!Number, Low, Packets!Low, Shift, Packets!Shift,
        MapThenSumSet, MapThenFoldSet, Packets!MapThenSumSet, Packets!MapThenFoldSet
<1> QED
    BY <1>1, <1>2, NumberOfField, Zenon

\* The RSP and the RDP find the opcode in the top eight bits.
LEMMA OpcodeIs ==
    ASSUME NEW c \in 0 .. 255, NEW gfx,
           \A b \in 24 .. 31 : b \in gfx.w0 <=> b \in Cmd(c)
    PROVE  Opcode(gfx) = c
<1>1. c \in Int /\ 24 \in Nat /\ 8 \in 0 .. 31 /\ 24 + 8 <= 32 /\ c % 256 = c
    OBVIOUS
<1>2. \A b \in 24 .. 24 + 8 - 1 : b \in gfx.w0 <=> b \in _SHIFTL(c, 24, 8)
    <2>1. 24 + 8 - 1 = 31
        OBVIOUS
    <2> QED
        BY <2>1, Zenon DEF Cmd
<1>3. Number(Field(gfx.w0, 24, 8)) = c % 2 ^ 8
    BY <1>1, <1>2, FieldIs, ZenonT(60)
<1>4. c % 2 ^ 8 = c
    BY <1>1, SmallPowers, Zenon
<1> QED
    BY <1>3, <1>4, Zenon DEF Opcode

\* A bit moved down.
LEMMA ShiftedBit ==
    ASSUME NEW v, NEW s \in Nat, NEW w \in Nat
    PROVE  \A b : b \in _SHIFTL(v, s, w) => b \in s .. (s + w - 1)
BY DEF _SHIFTL, Shift, Low

\* A number of bits is the sum of their powers.
LEMMA NumberOfLow ==
    ASSUME NEW v \in Int, NEW n \in 0 .. 31
    PROVE  Number(Low(Bits(v), n)) = v % 2 ^ n
<1> DEFINE word == _SHIFTL(v, 0, n)
<1>1. 0 \in Nat /\ 0 + n <= 32 /\ \A b \in 0 .. 0 + n - 1 : b \in word <=> b \in _SHIFTL(v, 0, n)
    OBVIOUS
<1>2. Number(Field(word, 0, n)) = v % 2 ^ n
    BY <1>1, FieldIs, Zenon
<1>3. \A b : b \in word <=> b \in Low(Bits(v), n)
    BY DEF _SHIFTL, Shift, Low
<1> HIDE DEF word
<1>4. \A b \in Low(Bits(v), n) : b \in 0 .. 31 /\ b \in 0 .. n - 1
    BY DEF Low
<1>5. Field(word, 0, n) = Low(Bits(v), n)
    BY <1>3, <1>4 DEF Field, Shift, Low
<1> QED
    BY <1>2, <1>5, Zenon

-----------------------------------------------------------------------------
(* Packets about matrices.                                                 *)

\* A word as an int.
AsInt(word) == LET n == Number(word \ {31}) IN IF 31 \in word THEN (n - 2 ^ 30) - 2 ^ 30 ELSE n

\* SceneSetup shares the definitions of words with DisplayModes.
LEMMA SceneWords ==
    /\ \A v : Transform!Bits(v) = Bits(v)
    /\ \A v, s, w : Transform!_SHIFTL(v, s, w) = _SHIFTL(v, s, w)
    /\ \A c : Transform!Cmd(c) = Cmd(c)
    /\ \A word : Transform!Number(word) = Number(word)
    /\ \A gfx : Transform!Opcode(gfx) = Opcode(gfx)
    /\ \A word : Transform!Int32(word) = AsInt(word)
<1>1. \A v : Transform!Bits(v) = Bits(v)
    BY Zenon DEF Transform!Bits, Bits, Transform!Width, Width
<1>2. \A v, s, w : Transform!_SHIFTL(v, s, w) = _SHIFTL(v, s, w)
    BY <1>1, Zenon DEF Transform!_SHIFTL, _SHIFTL, Transform!Shift, Shift, Transform!Low, Low
<1>3. \A c : Transform!Cmd(c) = Cmd(c)
    BY <1>2, Zenon DEF Transform!Cmd, Cmd
<1>4. \A word : Transform!Number(word) = Number(word)
    BY Zenon DEF Transform!Number, Number, MapThenSumSet, MapThenFoldSet,
        Transform!MapThenSumSet, Transform!MapThenFoldSet
<1>5. \A word, n : Transform!Low(word, n) = Low(word, n)
    BY Zenon DEF Transform!Low, Low
<1>6. \A word, s : Transform!Shift(word, s) = Shift(word, s)
    BY Zenon DEF Transform!Shift, Shift
<1>7. \A word, first, n : Transform!Field(word, first, n) = Field(word, first, n)
    BY <1>5, <1>6, Zenon DEF Transform!Field, Field
<1>8. \A gfx : Transform!Opcode(gfx) = Opcode(gfx)
    BY <1>4, <1>7, Zenon DEF Transform!Opcode, Transform!Part, Opcode
<1>9. \A word : Transform!Int32(word) = AsInt(word)
    BY <1>4, Zenon DEF Transform!Int32, AsInt
<1> QED
    BY <1>1, <1>2, <1>3, <1>4, <1>8, <1>9

\* The opcode of a packet that moves memory.
LEMMA DmaIs ==
    ASSUME NEW c \in 0 .. 255, NEW adrs, NEW len, NEW idx, NEW ofs
    PROVE  /\ Opcode(Transform!gDma2p(c, adrs, len, idx, ofs)) = c
           /\ Transform!gDma2p(c, adrs, len, idx, ofs).w1 = Bits(adrs)
           /\ \A b \in 0 .. 7 : b \in Transform!gDma2p(c, adrs, len, idx, ofs).w0 <=> b \in Bits(idx)
<1> DEFINE d1 == Transform!CDiv(len - 1, 8)
           d2 == Transform!CDiv(ofs, 8)
           gfx == Transform!gDma2p(c, adrs, len, idx, ofs)
<1> HIDE DEF d1, d2
<1>1. /\ gfx.w0 = Cmd(c) \cup _SHIFTL(d1, 19, 5) \cup _SHIFTL(d2, 8, 8) \cup _SHIFTL(idx, 0, 8)
      /\ gfx.w1 = Bits(adrs)
    <2>1. gfx = [w0 |-> Cmd(c) \cup _SHIFTL(d1, 19, 5) \cup _SHIFTL(d2, 8, 8) \cup _SHIFTL(idx, 0, 8),
                 w1 |-> Bits(adrs)]
        BY SceneWords, Zenon DEF gfx, d1, d2, Transform!gDma2p, Transform!Gfx
    <2> HIDE DEF gfx
    <2> QED
        BY <2>1
<1> HIDE DEF gfx
<1>2. /\ \A b : b \in _SHIFTL(d1, 19, 5) => b \in 19 .. 23
      /\ \A b : b \in _SHIFTL(d2, 8, 8) => b \in 8 .. 15
      /\ \A b : b \in _SHIFTL(idx, 0, 8) => b \in 0 .. 7
      /\ \A b : b \in Cmd(c) => b \in 24 .. 31
    <2>1. 19 \in Nat /\ 5 \in Nat /\ 8 \in Nat /\ 0 \in Nat /\ 24 \in Nat
          /\ 19 + 5 - 1 = 23 /\ 8 + 8 - 1 = 15 /\ 0 + 8 - 1 = 7 /\ 24 + 8 - 1 = 31
        OBVIOUS
    <2>2. \A b : b \in _SHIFTL(d1, 19, 5) => b \in 19 .. 23
        BY <2>1, ShiftedBit
    <2>3. \A b : b \in _SHIFTL(d2, 8, 8) => b \in 8 .. 15
        BY <2>1, ShiftedBit, Zenon
    <2>4. \A b : b \in _SHIFTL(idx, 0, 8) => b \in 0 .. 7
        BY <2>1, ShiftedBit
    <2>5. \A b : b \in Cmd(c) => b \in 24 .. 31
        BY <2>1, ShiftedBit DEF Cmd
    <2> QED
        BY <2>2, <2>3, <2>4, <2>5
<1>3. \A b \in 24 .. 31 : b \in gfx.w0 <=> b \in Cmd(c)
    BY <1>1, <1>2
<1>4. Opcode(gfx) = c
    BY <1>3, OpcodeIs, Zenon
<1>5. \A b \in 0 .. 7 : b \in _SHIFTL(idx, 0, 8) <=> b \in Bits(idx)
    BY DEF _SHIFTL, Shift, Low
<1>6. \A b \in 0 .. 7 : b \in gfx.w0 <=> b \in Bits(idx)
    BY <1>1, <1>2, <1>5
<1> QED
    BY <1>1, <1>4, <1>6, Zenon DEF gfx

\* An int put into a word is read back.
LEMMA IntIs ==
    ASSUME NEW v, IsInt32(v)
    PROVE  AsInt(Bits(v)) = v
<1> DEFINE P == 2 ^ 31
           H == 2 ^ 30
           n == Number(Bits(v) \ {31})
<1>1. P \in Nat \ {0} /\ H \in Nat \ {0} /\ P = 2 * H
    <2>1. 31 \in Nat /\ 30 \in Nat /\ 30 + 1 = 31
        OBVIOUS
    <2>2. 2 ^ (30 + 1) = 2 * 2 ^ 30
        BY <2>1, PowerOfNext, Zenon
    <2> QED
        BY <2>1, <2>2, PowerIsPositive
<1>2. v \in Int /\ -P <= v /\ v < P
    <2>1. P = 2147483648
        BY SMT
    <2>2. v \in Int /\ -2147483648 <= v /\ v < 2147483648
        BY SMT DEF IsInt32
    <2> HIDE DEF P
    <2> QED
        BY <2>1, <2>2, SMT
<1>3. 31 \in 0 .. 31
    OBVIOUS
<1>4. Number(Low(Bits(v), 31)) = v % P
    BY <1>2, <1>3, NumberOfLow, Zenon
<1>5. Low(Bits(v), 31) = Bits(v) \ {31}
    BY <1>2 DEF Low, Bits, Width
<1>6. 31 \in Bits(v) <=> v < 0
    BY <1>2 DEF Bits, Width
<1>7. n = v % P
    BY <1>4, <1>5, Zenon
<1> HIDE DEF P, H, n
<1>8. v % P = IF v < 0 THEN v + P ELSE v
    <2>1. CASE v < 0
        <3>1. v = P * (-1) + (v + P) /\ v + P \in 0 .. P - 1
            BY <1>1, <1>2, <2>1
        <3> QED
            BY <1>1, <1>2, <2>1, <3>1
    <2>2. CASE v >= 0
        BY <1>1, <1>2, <2>2
    <2> QED
        BY <1>2, <2>1, <2>2
<1>9. (IF 31 \in Bits(v) THEN (n - H) - H ELSE n) = v
    BY <1>1, <1>2, <1>6, <1>7, <1>8
<1> QED
    BY <1>9, Zenon DEF AsInt, n, H

\* The addresses of matrices and the bytes of the pushed ones are such numbers.
LEMMA BytesAre ==
    /\ \A m \in Matrices : IsInt32(m)
    /\ MatrixCalls \in Nat
    /\ \A n \in Nat : n <= MatrixCalls => IsInt32(n * 64)
<1>1. MatrixCalls \in Nat /\ MatrixCalls <= 33554431
    BY MatrixAssumption, SMT
<1>2. \A m \in Matrices : IsInt32(m)
    BY MatrixAssumption, SMT
<1>3. \A n \in Nat : n <= MatrixCalls =>
        n * 64 \in Int /\ -2147483647 - 1 <= n * 64 /\ n * 64 <= 2147483647
    BY <1>1, SMT
<1> QED
    BY <1>1, <1>2, <1>3 DEF IsInt32

\* What the RSP reads in a packet of gSPMatrix: the push is inverted, the rest of
\* the flags is not.
ReadsAs(gfx, m, p) ==
    /\ Opcode(gfx) = 218
    /\ gfx.w1 = Bits(m)
    /\ 0 \in Transform!Low(gfx.w0, 8) <=> p % 2 = 0
    /\ 1 \in Transform!Low(gfx.w0, 8) <=> (p \div 2) % 2 = 1
    /\ 2 \in Transform!Low(gfx.w0, 8) <=> (p \div 4) % 2 = 1

\* The packet of gSPMatrix.
LEMMA MatrixPacketIs ==
    ASSUME NEW m, NEW p \in 0 .. 7
    PROVE  ReadsAs(Transform!gSPMatrix(m, p), m, p)
<1> DEFINE gfx == Transform!gSPMatrix(m, p)
<1> DEFINE q == IF p % 2 = 1 THEN p - 1 ELSE p + 1
<1>1. gfx = Transform!gDma2p(218, m, 64, q, 0)
    BY Zenon DEF gfx, q, Transform!gSPMatrix, Transform!G_MTX_PUSH, Transform!G, Transform!SizeofMtx
<1>2. /\ q \in 0 .. 7
      /\ q % 2 = 1 <=> p % 2 = 0
      /\ (q \div 2) % 2 = 1 <=> (p \div 2) % 2 = 1
      /\ (q \div 4) % 2 = 1 <=> (p \div 4) % 2 = 1
    BY DEF q
<1> HIDE DEF q, gfx
<1>3. 218 \in 0 .. 255
    BY SMTT(40)
<1>4. /\ Opcode(gfx) = 218
      /\ gfx.w1 = Bits(m)
      /\ \A b \in 0 .. 7 : b \in gfx.w0 <=> b \in Bits(q)
    BY <1>1, <1>3, DmaIs
<1>5. \A b : b \in Bits(q) <=> \/ b = 0 /\ q % 2 = 1
                               \/ b = 1 /\ (q \div 2) % 2 = 1
                               \/ b = 2 /\ (q \div 4) % 2 = 1
    BY <1>2, SmallBits, Zenon
<1>6. \A b \in 0 .. 7 : b \in Transform!Low(gfx.w0, 8) <=> b \in gfx.w0
    BY DEF Transform!Low
<1>7. 0 \in 0 .. 7 /\ 1 \in 0 .. 7 /\ 2 \in 0 .. 7
    OBVIOUS
<1>8. ReadsAs(gfx, m, p)
    BY <1>2, <1>4, <1>5, <1>6, <1>7 DEF ReadsAs
<1> QED
    BY <1>8, Zenon DEF gfx

\* The packet of gSPPopMatrixN names the bytes of what is popped.
LEMMA PopPacketIs ==
    ASSUME NEW n \in Nat, n <= MatrixCalls, NEW gfx, gfx = Transform!gSPPopMatrixN(n)
    PROVE  Opcode(gfx) = 216 /\ Transform!Int32(gfx.w1) \div 64 = n
<1>1. gfx = Transform!gDma2p(216, n * 64, 64, 2, 0)
    BY Zenon DEF Transform!gSPPopMatrixN, Transform!G
<1>2. 216 \in 0 .. 255
    BY SMTT(40)
<1>3. Opcode(gfx) = 216 /\ gfx.w1 = Bits(n * 64)
    BY <1>1, <1>2, DmaIs
<1>4. IsInt32(n * 64)
    BY BytesAre, Zenon
<1>5. AsInt(Bits(n * 64)) = n * 64
    BY <1>4, IntIs, Zenon
<1>6. Transform!Int32(gfx.w1) = n * 64
    BY <1>3, <1>5, SceneWords, Zenon
<1>7. (n * 64) \div 64 = n
    OBVIOUS
<1> QED
    BY <1>3, <1>6, <1>7, Zenon

-----------------------------------------------------------------------------
(* The matrices of the RSP.                                                *)

Products == Seq(Matrices)
Transforms == [top : Products, stack : Seq(Products), projection : Products]

\* What a call of gSPMatrix or gSPPopMatrixN makes of the matrices.
Multiplied(product, how, m) == IF how = 2 THEN <<m>> ELSE Append(product, m)
Projected(t, how, m) == [t EXCEPT !.projection = Multiplied(@, how, m)]
Modelled(t, how, push, m) ==
    [t EXCEPT !.top = Multiplied(@, how, m), !.stack = IF push = 1 THEN Append(@, t.top) ELSE @]
Popped(t, n) == [t EXCEPT !.top = t.stack[Len(t.stack) - n + 1],
                          !.stack = SubSeq(@, 1, Len(t.stack) - n)]

\* gfx makes w of the matrices t.
Makes(gfx, t, w) ==
    \/ \E m \in Matrices, how \in {0, 2} :
         gfx = Transform!gSPMatrix(m, 4 + how + 0) /\ w = Projected(t, how, m)
    \/ \E m \in Matrices, how \in {0, 2}, push \in {0, 1} :
         gfx = Transform!gSPMatrix(m, 0 + how + push) /\ w = Modelled(t, how, push, m)
    \/ \E n \in 1 .. Len(t.stack) : gfx = Transform!gSPPopMatrixN(n) /\ w = Popped(t, n)

\* The RSP does as the packet says.
LEMMA PacketRuns ==
    ASSUME NEW gfx, NEW w, Makes(gfx, matrix, w),
           matrix \in Transforms, Len(matrix.stack) <= MatrixCalls,
           \/ Transform!MoveMem(gfx) \/ Transform!MoveWord(gfx)
           \/ Transform!SetMatrix(gfx) \/ Transform!PopMatrix(gfx)
    PROVE  matrix' = w /\ dmem' = dmem /\ numl' = numl
<1> DEFINE flags == Transform!Low(gfx.w0, 8)
<1>1. /\ Transform!MoveMem(gfx) => Opcode(gfx) = 220
      /\ Transform!MoveWord(gfx) => Opcode(gfx) = 219
      /\ Transform!SetMatrix(gfx) => Opcode(gfx) = 218
      /\ Transform!PopMatrix(gfx) => Opcode(gfx) = 216
    <2>1. Transform!G.MOVEMEM = 220 /\ Transform!G.MOVEWORD = 219
          /\ Transform!G.MTX = 218 /\ Transform!G.POPMTX = 216
        BY DEF Transform!G
    <2> QED
        BY <2>1, SceneWords DEF Transform!MoveMem, Transform!MoveWord,
            Transform!SetMatrix, Transform!PopMatrix
<1>2. /\ matrix = [top |-> matrix.top, stack |-> matrix.stack, projection |-> matrix.projection]
      /\ Len(matrix.stack) \in Nat
    BY DEF Transforms
<1>3. ASSUME NEW m \in Matrices, NEW p \in 0 .. 7, gfx = Transform!gSPMatrix(m, p)
      PROVE  /\ Transform!SetMatrix(gfx)
             /\ Transform!Int32(gfx.w1) = m
             /\ 0 \in flags <=> p % 2 = 0
             /\ 1 \in flags <=> (p \div 2) % 2 = 1
             /\ 2 \in flags <=> (p \div 4) % 2 = 1
    <2>1. /\ Opcode(gfx) = 218 /\ gfx.w1 = Bits(m)
          /\ 0 \in flags <=> p % 2 = 0
          /\ 1 \in flags <=> (p \div 2) % 2 = 1
          /\ 2 \in flags <=> (p \div 4) % 2 = 1
        <3>1. ReadsAs(Transform!gSPMatrix(m, p), m, p)
            BY MatrixPacketIs, Zenon
        <3>2. ReadsAs(gfx, m, p)
            BY <1>3, <3>1, Zenon
        <3> QED
            BY <3>2 DEF ReadsAs
    <2>2. IsInt32(m)
        BY BytesAre, Zenon
    <2>3. AsInt(Bits(m)) = m
        BY <2>2, IntIs, Zenon
    <2>4. Transform!Int32(gfx.w1) = m
        BY <2>1, <2>3, SceneWords, Zenon
    <2>5. Transform!SetMatrix(gfx)
        BY <1>1, <2>1
    <2> QED
        BY <2>1, <2>4, <2>5, Zenon
<1>4. CASE \E m \in Matrices, how \in {0, 2} :
             gfx = Transform!gSPMatrix(m, 4 + how + 0) /\ w = Projected(matrix, how, m)
    <2>1. PICK m \in Matrices, how \in {0, 2} :
             gfx = Transform!gSPMatrix(m, 4 + how + 0) /\ w = Projected(matrix, how, m)
        BY <1>4, Zenon
    <2>2. 4 + how + 0 \in 0 .. 7 /\ (4 + how + 0) % 2 = 0
          /\ (((4 + how + 0) \div 2) % 2 = 1 <=> how = 2) /\ ((4 + how + 0) \div 4) % 2 = 1
        OBVIOUS
    <2>3. /\ Transform!SetMatrix(gfx) /\ Transform!Int32(gfx.w1) = m
          /\ 2 \in flags /\ (1 \in flags <=> how = 2)
        BY <1>3, <2>1, <2>2, Zenon
    <2>4. matrix' = [matrix EXCEPT !.projection = Transform!Onto(@, flags, m)]
        BY <2>3, Zenon DEF Transform!SetMatrix
    <2>5. \A x : Transform!Onto(x, flags, m) = Multiplied(x, how, m)
        BY <2>3, Zenon DEF Transform!Onto, Multiplied
    <2>6. matrix' = w
        BY <2>1, <2>4, <2>5, Zenon DEF Projected
    <2>7. dmem' = dmem /\ numl' = numl
        BY <2>3, Zenon DEF Transform!SetMatrix
    <2> QED
        BY <2>6, <2>7, Zenon
<1>5. CASE \E m \in Matrices, how \in {0, 2}, push \in {0, 1} :
             gfx = Transform!gSPMatrix(m, 0 + how + push) /\ w = Modelled(matrix, how, push, m)
    <2>1. PICK m \in Matrices, how \in {0, 2}, push \in {0, 1} :
             gfx = Transform!gSPMatrix(m, 0 + how + push) /\ w = Modelled(matrix, how, push, m)
        BY <1>5, Zenon
    <2>2. 0 + how + push \in 0 .. 7 /\ ((0 + how + push) % 2 = 0 <=> push # 1)
          /\ (((0 + how + push) \div 2) % 2 = 1 <=> how = 2) /\ ((0 + how + push) \div 4) % 2 # 1
        OBVIOUS
    <2>3. /\ Transform!SetMatrix(gfx) /\ Transform!Int32(gfx.w1) = m
          /\ ~(2 \in flags) /\ (1 \in flags <=> how = 2) /\ (0 \in flags <=> push # 1)
        BY <1>3, <2>1, <2>2, Zenon
    <2>4. matrix' = [matrix EXCEPT !.top = Transform!Onto(@, flags, m),
                       !.stack = IF 0 \in flags THEN @ ELSE Append(@, matrix.top)]
        BY <2>3, Zenon DEF Transform!SetMatrix
    <2>5. \A x : Transform!Onto(x, flags, m) = Multiplied(x, how, m)
        BY <2>3, Zenon DEF Transform!Onto, Multiplied
    <2>6. matrix' = w
        BY <1>2, <2>1, <2>3, <2>4, <2>5 DEF Modelled
    <2>7. dmem' = dmem /\ numl' = numl
        BY <2>3, Zenon DEF Transform!SetMatrix
    <2> QED
        BY <2>6, <2>7, Zenon
<1>6. CASE \E n \in 1 .. Len(matrix.stack) :
             gfx = Transform!gSPPopMatrixN(n) /\ w = Popped(matrix, n)
    <2>1. PICK n \in 1 .. Len(matrix.stack) :
             gfx = Transform!gSPPopMatrixN(n) /\ w = Popped(matrix, n)
        BY <1>6, Zenon
    <2>2. n \in Nat /\ n <= MatrixCalls
        BY <1>2, BytesAre
    <2>3. Opcode(gfx) = 216 /\ Transform!Int32(gfx.w1) \div 64 = n
        BY <2>1, <2>2, PopPacketIs, Zenon
    <2>4. Transform!PopMatrix(gfx)
        BY <1>1, <2>3
    <2>5. matrix' = [matrix EXCEPT !.top = matrix.stack[Len(matrix.stack) - n + 1],
                       !.stack = SubSeq(@, 1, Len(matrix.stack) - n)]
        BY <2>3, <2>4, Zenon DEF Transform!PopMatrix
    <2>6. matrix' = w
        BY <2>1, <2>5, Zenon DEF Popped
    <2>7. dmem' = dmem /\ numl' = numl
        BY <2>4, Zenon DEF Transform!PopMatrix
    <2> QED
        BY <2>6, <2>7, Zenon
<1> QED
    BY <1>4, <1>5, <1>6, Zenon DEF Makes

\* A call of the game is one packet that makes of the matrices what is wanted.
LEMMA MultipliedIs ==
    ASSUME NEW product \in Products, NEW how, NEW m \in Matrices
    PROVE  Multiplied(product, how, m) \in Products
<1>1. <<m>> \in Products /\ Append(product, m) \in Products
    BY DEF Products
<1> QED
    BY <1>1, Zenon DEF Multiplied

\* Matrices are of their type.
LEMMA TransformIs ==
    ASSUME NEW t, t = [top |-> t.top, stack |-> t.stack, projection |-> t.projection],
           t.top \in Products, t.stack \in Seq(Products), t.projection \in Products
    PROVE  t \in Transforms
BY DEF Transforms

\* What is made of matrices are matrices, and one more push at most.
LEMMA MadeIs ==
    ASSUME NEW gfx, NEW t \in Transforms, NEW w, Makes(gfx, t, w)
    PROVE  w \in Transforms /\ Len(w.stack) <= Len(t.stack) + 1
<1>1. /\ t.top \in Products /\ t.stack \in Seq(Products) /\ t.projection \in Products
      /\ t = [top |-> t.top, stack |-> t.stack, projection |-> t.projection]
      /\ Len(t.stack) \in Nat
    BY DEF Transforms
<1>2. CASE \E m \in Matrices, how \in {0, 2} :
             gfx = Transform!gSPMatrix(m, 4 + how + 0) /\ w = Projected(t, how, m)
    <2>1. PICK m \in Matrices, how \in {0, 2} : w = Projected(t, how, m)
        BY <1>2, Zenon
    <2>2. Multiplied(t.projection, how, m) \in Products
        BY <1>1, MultipliedIs, Zenon
    <2> QED
        BY <1>1, <2>1, <2>2 DEF Projected, Transforms
<1>3. CASE \E m \in Matrices, how \in {0, 2}, push \in {0, 1} :
             gfx = Transform!gSPMatrix(m, 0 + how + push) /\ w = Modelled(t, how, push, m)
    <2>1. PICK m \in Matrices, how \in {0, 2}, push \in {0, 1} : w = Modelled(t, how, push, m)
        BY <1>3, Zenon
    <2>2. Multiplied(t.top, how, m) \in Products
        BY <1>1, MultipliedIs, Zenon
    <2>3. /\ Append(t.stack, t.top) \in Seq(Products)
          /\ Len(Append(t.stack, t.top)) = Len(t.stack) + 1
        BY <1>1
    <2> QED
        <3>1. /\ w.top = Multiplied(t.top, how, m) /\ w.projection = t.projection
              /\ w.stack = IF push = 1 THEN Append(t.stack, t.top) ELSE t.stack
              /\ w = [top |-> w.top, stack |-> w.stack, projection |-> w.projection]
            BY <1>1, <2>1 DEF Modelled
        <3>2. w.stack \in Seq(Products) /\ Len(w.stack) <= Len(t.stack) + 1
            BY <1>1, <2>3, <3>1
        <3>3. w.top \in Products /\ w.projection \in Products
            BY <1>1, <2>2, <3>1
        <3> QED
            BY <3>1, <3>2, <3>3, TransformIs
<1>4. CASE \E n \in 1 .. Len(t.stack) : gfx = Transform!gSPPopMatrixN(n) /\ w = Popped(t, n)
    <2>1. PICK n \in 1 .. Len(t.stack) : w = Popped(t, n)
        BY <1>4, Zenon
    <2>2. Len(t.stack) - n + 1 \in 1 .. Len(t.stack) /\ Len(t.stack) - n \in 0 .. Len(t.stack)
        BY <1>1
    <2>3. t.stack[Len(t.stack) - n + 1] \in Products
        BY <1>1, <2>2
    <2>4. /\ SubSeq(t.stack, 1, Len(t.stack) - n) \in Seq(Products)
          /\ Len(SubSeq(t.stack, 1, Len(t.stack) - n)) = Len(t.stack) - n
        BY <1>1, <2>2
    <2>5. w.top = t.stack[Len(t.stack) - n + 1] /\ w.stack = SubSeq(t.stack, 1, Len(t.stack) - n)
          /\ w.projection = t.projection
          /\ w = [top |-> w.top, stack |-> w.stack, projection |-> w.projection]
        BY <1>1, <2>1 DEF Popped
    <2> QED
        <3>1. w.stack \in Seq(Products) /\ Len(w.stack) <= Len(t.stack) + 1
            BY <1>1, <2>2, <2>4, <2>5
        <3>2. w.top \in Products /\ w.projection \in Products
            BY <1>1, <2>3, <2>5
        <3> QED
            BY <2>5, <3>1, <3>2, TransformIs
<1> QED
    BY <1>2, <1>3, <1>4, Zenon DEF Makes

\* Packets that leave the matrices alone.
LeavesMatrices(gfx) == Opcode(gfx) \in {219, 220}
Lights(packets) ==
    \E S : packets \in Seq(S) /\ \A gfx \in S : LeavesMatrices(gfx)

\* The inductive invariant of the matrices: what is wanted is there, or one packet
\* is left that will make it so.
SceneInv ==
    /\ wanted = [lights |-> wanted.lights, ambient |-> wanted.ambient, look |-> wanted.look,
                 matrix |-> wanted.matrix]
    /\ wanted.matrix \in Transforms /\ matrix \in Transforms
    /\ calls \in Nat /\ Len(wanted.matrix.stack) <= calls
    /\ part = "matrices" => calls <= MatrixCalls
    /\ part = "lights" => wanted.matrix.stack = <<>>
    /\ \/ matrix = wanted.matrix /\ list = <<>>
       \/ part = "lights" /\ matrix = wanted.matrix /\ Lights(list)
       \/ /\ part = "matrices" /\ Len(matrix.stack) <= MatrixCalls
          /\ \E gfx : list = <<gfx>> /\ Makes(gfx, matrix, wanted.matrix)

\* The first state has it.
LEMMA InitSceneInv == AllInit => SceneInv
<1> SUFFICES ASSUME AllInit PROVE SceneInv
    OBVIOUS
<1>1. Transform!Init /\ part \in Parts
    BY Zenon DEF AllInit
<1>2. /\ list = <<>> /\ matrix = Transform!Nowhere /\ calls = 0
      /\ wanted = [lights |-> <<Transform!Black>>, ambient |-> 0, look |-> <<0, 0>>,
                   matrix |-> Transform!Nowhere]
    BY <1>1, Zenon DEF Transform!Init
<1>3. /\ wanted.matrix = Transform!Nowhere
      /\ wanted = [lights |-> wanted.lights, ambient |-> wanted.ambient, look |-> wanted.look,
                   matrix |-> wanted.matrix]
    BY <1>2
<1>4. /\ Transform!Nowhere \in Transforms
      /\ Transform!Nowhere.stack = <<>> /\ Len(Transform!Nowhere.stack) = 0
    BY DEF Transform!Nowhere, Transforms, Products
<1>5. MatrixCalls \in Nat
    BY BytesAre, Zenon
<1> QED
    BY <1>2, <1>3, <1>4, <1>5 DEF SceneInv

-----------------------------------------------------------------------------
(* The game asks for matrices, and the packets run.                        *)

\* What a step about matrices leaves alone.
KeepsLights ==
    /\ dmem' = dmem /\ numl' = numl
    /\ wanted'.lights = wanted.lights /\ wanted'.ambient = wanted.ambient
    /\ wanted'.look = wanted.look

\* A call of the game about matrices.
LEMMA CallIsMeant ==
    ASSUME SceneInv, part = "matrices", part' = part,
           NEW gfx, NEW w, Makes(gfx, wanted.matrix, w), NEW meant,
           meant = [wanted EXCEPT !.matrix = w], Transform!Send(<<gfx>>, meant)
    PROVE  SceneInv' /\ KeepsLights
<1>1. /\ list = <<>> /\ calls < MatrixCalls
      /\ list' = <<gfx>> /\ wanted' = meant /\ calls' = calls + 1 /\ matrix' = matrix
    BY DEF Transform!Send
<1>2. matrix = wanted.matrix /\ matrix \in Transforms /\ calls \in Nat
      /\ Len(wanted.matrix.stack) <= calls
    BY <1>1 DEF SceneInv
<1>3. wanted = [lights |-> wanted.lights, ambient |-> wanted.ambient, look |-> wanted.look,
                matrix |-> wanted.matrix]
    BY Zenon DEF SceneInv
<1>4. /\ wanted'.matrix = w
      /\ wanted' = [lights |-> wanted'.lights, ambient |-> wanted'.ambient,
                    look |-> wanted'.look, matrix |-> wanted'.matrix]
    BY <1>1, <1>3
<1>5. w \in Transforms /\ Len(w.stack) <= Len(matrix.stack) + 1
    BY <1>2, MadeIs, Zenon
<1>6. Len(w.stack) \in Nat /\ Len(matrix.stack) \in Nat /\ MatrixCalls \in Nat
    BY <1>2, <1>5, BytesAre DEF Transforms
<1>7. calls' \in Nat /\ Len(wanted'.matrix.stack) <= calls' /\ calls' <= MatrixCalls
      /\ Len(matrix'.stack) <= MatrixCalls
    BY <1>1, <1>2, <1>4, <1>5, <1>6
<1>8. Makes(gfx, matrix', wanted'.matrix)
    BY <1>1, <1>2, <1>4, Zenon
<1>9. part' # "lights"
    OBVIOUS
<1>10. \E x : list' = <<x>> /\ Makes(x, matrix', wanted'.matrix)
    BY <1>1, <1>8, Zenon
<1>11. SceneInv'
    BY <1>1, <1>2, <1>4, <1>5, <1>7, <1>9, <1>10, Zenon DEF SceneInv
<1>12. dmem' = dmem /\ numl' = numl
    BY Zenon DEF Transform!Send
<1>13. /\ wanted'.lights = wanted.lights /\ wanted'.ambient = wanted.ambient
       /\ wanted'.look = wanted.look
    BY <1>1, <1>3
<1> QED
    BY <1>11, <1>12, <1>13, Zenon DEF KeepsLights

\* A matrix is loaded, multiplied or pushed.
LEMMA UseKeepsScene ==
    ASSUME SceneInv, part = "matrices", part' = part, Transform!UseMatrix
    PROVE  SceneInv' /\ KeepsLights
<1>1. wanted = [lights |-> wanted.lights, ambient |-> wanted.ambient, look |-> wanted.look,
                matrix |-> wanted.matrix]
    BY Zenon DEF SceneInv
<1>2. /\ wanted.matrix = [top |-> wanted.matrix.top, stack |-> wanted.matrix.stack,
                          projection |-> wanted.matrix.projection]
    BY DEF SceneInv, Transforms
<1>3. /\ Transform!G_MTX.MUL = 0 /\ Transform!G_MTX.LOAD = 2 /\ Transform!G_MTX.NOPUSH = 0
      /\ Transform!G_MTX.PUSH = 1 /\ Transform!G_MTX.MODELVIEW = 0
      /\ Transform!G_MTX.PROJECTION = 4
    BY DEF Transform!G_MTX, Transform!G_MTX_PUSH
<1>4. PICK m \in Matrices, how \in {0, 2} :
        \/ Transform!Send(<<Transform!gSPMatrix(m, 4 + how + 0)>>,
             [wanted EXCEPT !.matrix.projection = IF how = 2 THEN <<m>> ELSE Append(@, m)])
        \/ \E push \in {1, 0} :
             Transform!Send(<<Transform!gSPMatrix(m, 0 + how + push)>>,
               [wanted EXCEPT
                  !.matrix.top = IF how = 2 THEN <<m>> ELSE Append(@, m),
                  !.matrix.stack = IF push = 1 THEN Append(@, wanted.matrix.top) ELSE @])
    BY <1>3, ZenonT(60) DEF Transform!UseMatrix
<1>5. CASE Transform!Send(<<Transform!gSPMatrix(m, 4 + how + 0)>>,
             [wanted EXCEPT !.matrix.projection = IF how = 2 THEN <<m>> ELSE Append(@, m)])
    <2> DEFINE w == Projected(wanted.matrix, how, m)
    <2>1. [wanted EXCEPT !.matrix.projection = IF how = 2 THEN <<m>> ELSE Append(@, m)]
            = [wanted EXCEPT !.matrix = w]
        BY <1>1, <1>2 DEF Projected, Multiplied
    <2>2. Makes(Transform!gSPMatrix(m, 4 + how + 0), wanted.matrix, w)
        BY Zenon DEF Makes
    <2> HIDE DEF w
    <2>3. Transform!Send(<<Transform!gSPMatrix(m, 4 + how + 0)>>, [wanted EXCEPT !.matrix = w])
        BY <1>5, <2>1, Zenon
    <2> QED
        BY <2>2, <2>3, CallIsMeant, Zenon
<1>6. CASE \E push \in {1, 0} :
             Transform!Send(<<Transform!gSPMatrix(m, 0 + how + push)>>,
               [wanted EXCEPT
                  !.matrix.top = IF how = 2 THEN <<m>> ELSE Append(@, m),
                  !.matrix.stack = IF push = 1 THEN Append(@, wanted.matrix.top) ELSE @])
    <2>1. PICK push \in {0, 1} :
             Transform!Send(<<Transform!gSPMatrix(m, 0 + how + push)>>,
               [wanted EXCEPT
                  !.matrix.top = IF how = 2 THEN <<m>> ELSE Append(@, m),
                  !.matrix.stack = IF push = 1 THEN Append(@, wanted.matrix.top) ELSE @])
        BY <1>6, Zenon
    <2> DEFINE w == Modelled(wanted.matrix, how, push, m)
    <2>2. [wanted EXCEPT !.matrix.top = IF how = 2 THEN <<m>> ELSE Append(@, m),
                         !.matrix.stack = IF push = 1 THEN Append(@, wanted.matrix.top) ELSE @]
            = [wanted EXCEPT !.matrix = w]
        BY <1>1, <1>2 DEF Modelled, Multiplied
    <2>3. Makes(Transform!gSPMatrix(m, 0 + how + push), wanted.matrix, w)
        BY Zenon DEF Makes
    <2> HIDE DEF w
    <2>4. Transform!Send(<<Transform!gSPMatrix(m, 0 + how + push)>>, [wanted EXCEPT !.matrix = w])
        BY <2>1, <2>2, Zenon
    <2> QED
        BY <2>3, <2>4, CallIsMeant, Zenon
<1> QED
    BY <1>4, <1>5, <1>6

\* Matrices are popped.
LEMMA DropKeepsScene ==
    ASSUME SceneInv, part = "matrices", part' = part, Transform!DropMatrix
    PROVE  SceneInv' /\ KeepsLights
<1>1. wanted = [lights |-> wanted.lights, ambient |-> wanted.ambient, look |-> wanted.look,
                matrix |-> wanted.matrix]
    BY Zenon DEF SceneInv
<1>2. /\ wanted.matrix = [top |-> wanted.matrix.top, stack |-> wanted.matrix.stack,
                          projection |-> wanted.matrix.projection]
    BY DEF SceneInv, Transforms
<1>3. PICK n \in 1 .. Len(wanted.matrix.stack) :
        Transform!Send(<<IF n = 1 THEN Transform!gSPPopMatrix ELSE Transform!gSPPopMatrixN(n)>>,
           [wanted EXCEPT
              !.matrix.top = wanted.matrix.stack[Len(wanted.matrix.stack) - n + 1],
              !.matrix.stack = SubSeq(@, 1, Len(wanted.matrix.stack) - n)])
    BY Zenon DEF Transform!DropMatrix
<1> DEFINE w == Popped(wanted.matrix, n)
           gfx == Transform!gSPPopMatrixN(n)
<1>4. (IF n = 1 THEN Transform!gSPPopMatrix ELSE Transform!gSPPopMatrixN(n)) = gfx
    BY Zenon DEF Transform!gSPPopMatrix
<1>5. [wanted EXCEPT !.matrix.top = wanted.matrix.stack[Len(wanted.matrix.stack) - n + 1],
                     !.matrix.stack = SubSeq(@, 1, Len(wanted.matrix.stack) - n)]
        = [wanted EXCEPT !.matrix = w]
    BY <1>1, <1>2 DEF Popped
<1>6. Makes(gfx, wanted.matrix, w)
    BY Zenon DEF Makes
<1> HIDE DEF w, gfx
<1>7. Transform!Send(<<gfx>>, [wanted EXCEPT !.matrix = w])
    BY <1>3, <1>4, <1>5, Zenon
<1> QED
    BY <1>6, <1>7, CallIsMeant, Zenon

\* The packet runs.
LEMMA RunKeepsScene ==
    ASSUME SceneInv, part = "matrices", part' = part, Transform!Run
    PROVE  SceneInv' /\ KeepsLights
<1>1. PICK gfx : list = <<gfx>> /\ Makes(gfx, matrix, wanted.matrix)
    BY Zenon DEF SceneInv, Transform!Run
<1>2. Head(list) = gfx /\ Tail(list) = <<>>
    BY <1>1
<1>3. /\ \/ Transform!MoveMem(gfx) \/ Transform!MoveWord(gfx)
         \/ Transform!SetMatrix(gfx) \/ Transform!PopMatrix(gfx)
      /\ list' = <<>> /\ wanted' = wanted /\ calls' = calls
    BY <1>2, Zenon DEF Transform!Run
<1>4. list # <<>>
    BY Zenon DEF Transform!Run
<1>5. matrix \in Transforms /\ Len(matrix.stack) <= MatrixCalls
    BY <1>4, Zenon DEF SceneInv
<1>6. matrix' = wanted.matrix /\ dmem' = dmem /\ numl' = numl
    BY <1>1, <1>3, <1>5, PacketRuns, Zenon
<1> QED
    BY <1>3, <1>6, Zenon DEF SceneInv, KeepsLights

-----------------------------------------------------------------------------
(* The packets about lights leave the matrices alone.                      *)

\* The words of packets about lights are those of the others.
LEMMA LightingWords ==
    /\ \A word, n : Lighting!Low(word, n) = Transform!Low(word, n)
    /\ \A c : Lighting!Cmd(c) = Transform!Cmd(c)
    /\ \A gfx : Lighting!Opcode(gfx) = Opcode(gfx)
    /\ \A c, adrs, len, idx, ofs :
         Lighting!gDma2p(c, adrs, len, idx, ofs) = Transform!gDma2p(c, adrs, len, idx, ofs)
    /\ \A c, s, l, p : Lighting!gDma1p(c, s, l, p) = Transform!gDma1p(c, s, l, p)
<1>1. \A v : Lighting!Bits(v) = Transform!Bits(v)
    BY Zenon DEF Lighting!Bits, Transform!Bits, Lighting!Width, Transform!Width
<1>2. \A word, n : Lighting!Low(word, n) = Transform!Low(word, n)
    BY Zenon DEF Lighting!Low, Transform!Low
<1>3. \A word, s : Lighting!Shift(word, s) = Transform!Shift(word, s)
    BY Zenon DEF Lighting!Shift, Transform!Shift
<1>4. \A v, s, w : Lighting!_SHIFTL(v, s, w) = Transform!_SHIFTL(v, s, w)
    BY <1>1, <1>2, <1>3, Zenon DEF Lighting!_SHIFTL, Transform!_SHIFTL
<1>5. \A c : Lighting!Cmd(c) = Transform!Cmd(c)
    BY <1>4, Zenon DEF Lighting!Cmd, Transform!Cmd
<1>6. \A word : Lighting!Number(word) = Transform!Number(word)
    BY Zenon DEF Lighting!Number, Transform!Number, Lighting!MapThenSumSet,
        Transform!MapThenSumSet, Lighting!MapThenFoldSet, Transform!MapThenFoldSet
<1>7. \A word, first, n : Lighting!Field(word, first, n) = Transform!Field(word, first, n)
    BY <1>2, <1>3, Zenon DEF Lighting!Field, Transform!Field
<1>8. \A gfx : Lighting!Opcode(gfx) = Transform!Opcode(gfx)
    BY <1>6, <1>7, Zenon DEF Lighting!Opcode, Transform!Opcode, Lighting!Part, Transform!Part
<1>9. \A gfx : Lighting!Opcode(gfx) = Opcode(gfx)
    BY <1>8, SceneWords, Zenon
<1>10. \A a, b : Lighting!CDiv(a, b) = Transform!CDiv(a, b)
    BY Zenon DEF Lighting!CDiv, Transform!CDiv
<1>11. \A c, adrs, len, idx, ofs :
         Lighting!gDma2p(c, adrs, len, idx, ofs) = Transform!gDma2p(c, adrs, len, idx, ofs)
    BY <1>1, <1>4, <1>5, <1>10, Zenon DEF Lighting!gDma2p, Transform!gDma2p, Lighting!Gfx,
        Transform!Gfx
<1>12. \A c, s, l, p : Lighting!gDma1p(c, s, l, p) = Transform!gDma1p(c, s, l, p)
    BY <1>1, <1>4, <1>5, Zenon DEF Lighting!gDma1p, Transform!gDma1p, Lighting!Gfx, Transform!Gfx
<1> QED
    BY <1>2, <1>5, <1>9, <1>11, <1>12, Zenon

\* The opcode of a packet that moves a word.
LEMMA WordIs ==
    ASSUME NEW s, NEW l, NEW p
    PROVE  Opcode(Transform!gDma1p(219, s, l, p)) = 219
<1> DEFINE gfx == Transform!gDma1p(219, s, l, p)
<1>1. gfx.w0 = Cmd(219) \cup _SHIFTL(p, 16, 8) \cup _SHIFTL(l, 0, 16)
    <2>1. gfx = [w0 |-> Cmd(219) \cup _SHIFTL(p, 16, 8) \cup _SHIFTL(l, 0, 16), w1 |-> Bits(s)]
        BY SceneWords, Zenon DEF gfx, Transform!gDma1p, Transform!Gfx
    <2> HIDE DEF gfx
    <2> QED
        BY <2>1
<1> HIDE DEF gfx
<1>2. /\ \A b : b \in _SHIFTL(p, 16, 8) => b \in 16 .. 23
      /\ \A b : b \in _SHIFTL(l, 0, 16) => b \in 0 .. 15
    <2>1. 16 \in Nat /\ 8 \in Nat /\ 0 \in Nat /\ 16 + 8 - 1 = 23 /\ 0 + 16 - 1 = 15
        OBVIOUS
    <2>2. \A b : b \in _SHIFTL(p, 16, 8) => b \in 16 .. 23
        BY <2>1, ShiftedBit
    <2>3. \A b : b \in _SHIFTL(l, 0, 16) => b \in 0 .. 15
        BY <2>1, ShiftedBit
    <2> QED
        BY <2>2, <2>3
<1>3. \A b \in 24 .. 31 : b \in gfx.w0 <=> b \in Cmd(219)
    BY <1>1, <1>2
<1>4. 219 \in 0 .. 255
    OBVIOUS
<1>5. Opcode(gfx) = 219
    BY <1>3, <1>4, OpcodeIs
<1> QED
    BY <1>5, Zenon DEF gfx

\* Packets about lights move memory or words.
LEMMA LightPackets ==
    /\ \A l, n : Opcode(Lighting!gSPLight(l, n)) \in {219, 220}
    /\ \A n : Opcode(Lighting!gSPNumLights(n)) \in {219, 220}
    /\ \A l : Opcode(Lighting!gSPLookAtX(l)) \in {219, 220}
    /\ \A l : Opcode(Lighting!gSPLookAtY(l)) \in {219, 220}
    /\ \A index, ofs, data : Opcode(Lighting!gMoveWd(index, ofs, data)) \in {219, 220}
<1>1. Lighting!G.MOVEMEM = 220 /\ Lighting!G.MOVEWORD = 219 /\ 220 \in 0 .. 255
    BY SMTT(40) DEF Lighting!G
<1>2. \A adrs, len, idx, ofs : Opcode(Lighting!gDma2p(220, adrs, len, idx, ofs)) = 220
    BY <1>1, DmaIs, LightingWords
<1>3. \A s, l, p : Opcode(Lighting!gDma1p(219, s, l, p)) = 219
    BY WordIs, LightingWords
<1>4. \A index, ofs, data : Opcode(Lighting!gMoveWd(index, ofs, data)) \in {219, 220}
    BY <1>1, <1>3 DEF Lighting!gMoveWd
<1>5. \A l, n : Opcode(Lighting!gSPLight(l, n)) \in {219, 220}
    BY <1>1, <1>2 DEF Lighting!gSPLight
<1>6. \A l : Opcode(Lighting!gSPLookAtX(l)) \in {219, 220}
    BY <1>1, <1>2 DEF Lighting!gSPLookAtX
<1>7. \A l : Opcode(Lighting!gSPLookAtY(l)) \in {219, 220}
    BY <1>1, <1>2 DEF Lighting!gSPLookAtY
<1> QED
    BY <1>4, <1>5, <1>6, <1>7 DEF Lighting!gSPNumLights

\* Packets that each leave the matrices alone.
LEMMA LightsAre ==
    ASSUME NEW S, NEW packets, packets \in Seq(S), \A gfx \in S : LeavesMatrices(gfx)
    PROVE  Lights(packets)
BY Zenon DEF Lights

\* The packets of each call.
LEMMA LightCallsLeave ==
    /\ \A at : Lights(Lighting!gSPSetLights0(at))
    /\ \A n \in Nat : \A at : Lights(Lighting!gSPSetLights(n, at))
    /\ \A n, col : Lights(Lighting!gSPLightColor(n, col))
    /\ \A la : Lights(Lighting!gSPLookAt(la))
<1>1. ASSUME NEW a, NEW b, LeavesMatrices(a), LeavesMatrices(b)
      PROVE  Lights(<<a, b>>)
    <2> DEFINE T == {a, b}
    <2>1. <<a, b>> \in Seq(T) /\ \A gfx \in T : LeavesMatrices(gfx)
        BY <1>1
    <2> HIDE DEF T
    <2> QED
        BY <2>1, LightsAre, Zenon
<1>2. ASSUME NEW a, NEW b, NEW c, LeavesMatrices(a), LeavesMatrices(b),
             LeavesMatrices(c)
      PROVE  Lights(<<a, b, c>>)
    <2> DEFINE T == {a, b, c}
    <2>1. <<a, b, c>> \in Seq(T) /\ \A gfx \in T : LeavesMatrices(gfx)
        BY <1>2
    <2> HIDE DEF T
    <2> QED
        BY <2>1, LightsAre, Zenon
<1>3. ASSUME NEW n \in Nat, NEW at PROVE Lights(Lighting!gSPSetLights(n, at))
    <2> DEFINE one(k) == Lighting!gSPLight(Lighting!L(at, k - 1), k)
               a == Lighting!gSPNumLights(n)
               c == Lighting!gSPLight(Lighting!A(at), n + 1)
               b == [k \in 1 .. n |-> one(k)]
               T == {a, c} \cup {one(k) : k \in 1 .. n}
    <2>1. \A gfx \in T : LeavesMatrices(gfx)
        BY LightPackets DEF LeavesMatrices
    <2>2. Lighting!gSPSetLights(n, at) = <<a>> \o b \o <<c>>
        BY Zenon DEF Lighting!gSPSetLights
    <2>3. b \in Seq(T)
        <3> HIDE DEF one
        <3> QED
            BY DEF b, T
    <2>4. <<a>> \in Seq(T) /\ <<c>> \in Seq(T)
        <3> HIDE DEF one, a, c
        <3> QED
            BY DEF T
    <2> HIDE DEF T, a, b, c
    <2>5. <<a>> \o b \o <<c>> \in Seq(T)
        BY <2>3, <2>4
    <2> QED
        BY <2>1, <2>2, <2>5, LightsAre, Zenon
<1>4. \A at : Lights(Lighting!gSPSetLights0(at))
    BY <1>2, LightPackets DEF LeavesMatrices, Lighting!gSPSetLights0
<1>5. \A n, col : Lights(Lighting!gSPLightColor(n, col))
    BY <1>1, LightPackets DEF LeavesMatrices, Lighting!gSPLightColor
<1>6. \A la : Lights(Lighting!gSPLookAt(la))
    BY <1>1, LightPackets DEF LeavesMatrices, Lighting!gSPLookAt
<1> QED
    BY <1>3, <1>4, <1>5, <1>6

-----------------------------------------------------------------------------
(* Calls about lights leave the matrices alone.                            *)

\* A call of the game about lights.
LEMMA LightsAreMeant ==
    ASSUME SceneInv, part = "lights", part' = part,
           NEW packets, Lights(packets), NEW meant, meant.matrix = wanted.matrix,
           meant = [lights |-> meant.lights, ambient |-> meant.ambient, look |-> meant.look,
                    matrix |-> meant.matrix],
           Lighting!Send(packets, meant)
    PROVE  SceneInv'
<1>1. /\ list = <<>> /\ list' = packets /\ wanted' = meant
      /\ calls' = calls + 1 /\ matrix' = matrix
    BY Zenon DEF Lighting!Send
<1>2. /\ wanted.matrix \in Transforms /\ matrix \in Transforms /\ wanted.matrix.stack = <<>>
      /\ calls \in Nat /\ Len(wanted.matrix.stack) <= calls /\ matrix = wanted.matrix
    <2>1. /\ wanted.matrix \in Transforms /\ matrix \in Transforms /\ wanted.matrix.stack = <<>>
          /\ calls \in Nat /\ Len(wanted.matrix.stack) <= calls
        BY Zenon DEF SceneInv
    <2>2. part # "matrices"
        OBVIOUS
    <2>3. matrix = wanted.matrix
        BY <2>2, Zenon DEF SceneInv
    <2> QED
        BY <2>1, <2>3
<1>3. calls' \in Nat /\ Len(wanted'.matrix.stack) <= calls'
    <2>1. Len(wanted.matrix.stack) = 0
        BY <1>2
    <2>2. wanted'.matrix = wanted.matrix
        BY <1>1, Zenon
    <2> QED
        BY <1>1, <1>2, <2>1, <2>2
<1>4. /\ wanted' = [lights |-> wanted'.lights, ambient |-> wanted'.ambient,
                    look |-> wanted'.look, matrix |-> wanted'.matrix]
      /\ wanted'.matrix = wanted.matrix
    BY <1>1, Zenon
<1>5. part' = "lights" /\ part' # "matrices"
    OBVIOUS
<1> QED
    BY <1>1, <1>2, <1>3, <1>4, <1>5, Zenon DEF SceneInv

\* A set of lights is loaded.
LEMMA SetLightsKeepsScene ==
    ASSUME SceneInv, part = "lights", part' = part, Lighting!SetLights
    PROVE  SceneInv'
<1>1. PICK s \in LightSets :
        Lighting!Send(IF s.lights = <<>> THEN Lighting!gSPSetLights0(s.at)
                      ELSE Lighting!gSPSetLights(Len(s.lights), s.at),
                      [wanted EXCEPT !.ambient = s.ambient,
                         !.lights = IF s.lights = <<>> THEN <<Lighting!Black>> ELSE s.lights])
    BY Zenon DEF Lighting!SetLights
<1> DEFINE packets == IF s.lights = <<>> THEN Lighting!gSPSetLights0(s.at)
                      ELSE Lighting!gSPSetLights(Len(s.lights), s.at)
           meant == [wanted EXCEPT !.ambient = s.ambient,
                       !.lights = IF s.lights = <<>> THEN <<Lighting!Black>> ELSE s.lights]
<1>2. Len(s.lights) \in Nat
    <2>1. s.lights \in Seq([col : Int, dir : Int])
        BY LightAssumption, Zenon
    <2> QED
        BY <2>1
<1>3. Lights(packets)
    BY <1>2, LightCallsLeave, Zenon
<1>4. wanted = [lights |-> wanted.lights, ambient |-> wanted.ambient, look |-> wanted.look,
                matrix |-> wanted.matrix]
    BY Zenon DEF SceneInv
<1>5. /\ meant = [lights |-> meant.lights, ambient |-> meant.ambient, look |-> meant.look,
                  matrix |-> meant.matrix]
      /\ meant.matrix = wanted.matrix
    <2> DEFINE lit == IF s.lights = <<>> THEN <<Lighting!Black>> ELSE s.lights
    <2> HIDE DEF lit
    <2>1. [wanted EXCEPT !.ambient = s.ambient, !.lights = lit]
            = [lights |-> lit, ambient |-> s.ambient, look |-> wanted.look,
               matrix |-> wanted.matrix]
        <3> DEFINE dimmed == [wanted EXCEPT !.ambient = s.ambient]
        <3>1. [wanted EXCEPT !.ambient = s.ambient, !.lights = lit]
                = [dimmed EXCEPT !.lights = lit]
            OBVIOUS
        <3>2. dimmed = [lights |-> wanted.lights, ambient |-> s.ambient, look |-> wanted.look,
                        matrix |-> wanted.matrix]
            BY <1>4
        <3> HIDE DEF dimmed
        <3>3. [dimmed EXCEPT !.lights = lit]
                = [lights |-> lit, ambient |-> s.ambient, look |-> wanted.look,
                   matrix |-> wanted.matrix]
            BY <3>2
        <3> QED
            BY <3>1, <3>3
    <2>2. meant = [wanted EXCEPT !.ambient = s.ambient, !.lights = lit]
        BY Zenon DEF meant, lit
    <2> HIDE DEF meant
    <2> QED
        BY <2>1, <2>2
<1>6. Lighting!Send(packets, meant)
    BY <1>1, Zenon
<1> HIDE DEF packets, meant
<1> QED
    BY <1>3, <1>5, <1>6, LightsAreMeant, Zenon

\* A light is given another colour.
LEMMA RecolourKeepsScene ==
    ASSUME SceneInv, part = "lights", part' = part, Lighting!SetLightColor
    PROVE  SceneInv'
<1>1. PICK n \in 1 .. (Len(wanted.lights) + 1), c \in LightColors :
        Lighting!Send(Lighting!gSPLightColor(n, c),
                      IF n > Len(wanted.lights) THEN [wanted EXCEPT !.ambient = c]
                      ELSE [wanted EXCEPT !.lights[n].col = c])
    BY Zenon DEF Lighting!SetLightColor
<1> DEFINE packets == Lighting!gSPLightColor(n, c)
           meant == IF n > Len(wanted.lights) THEN [wanted EXCEPT !.ambient = c]
                    ELSE [wanted EXCEPT !.lights[n].col = c]
<1>2. Lights(packets)
    BY LightCallsLeave, Zenon
<1>3. wanted = [lights |-> wanted.lights, ambient |-> wanted.ambient, look |-> wanted.look,
                matrix |-> wanted.matrix]
    BY Zenon DEF SceneInv
<1>4. /\ meant = [lights |-> meant.lights, ambient |-> meant.ambient, look |-> meant.look,
                  matrix |-> meant.matrix]
      /\ meant.matrix = wanted.matrix
    <2>1. /\ [wanted EXCEPT !.ambient = c] = [lights |-> wanted.lights, ambient |-> c,
                                              look |-> wanted.look, matrix |-> wanted.matrix]
          /\ [wanted EXCEPT !.lights[n].col = c]
               = [lights |-> [wanted.lights EXCEPT ![n].col = c], ambient |-> wanted.ambient,
                  look |-> wanted.look, matrix |-> wanted.matrix]
        BY <1>3
    <2> QED
        BY <2>1
<1>5. Lighting!Send(packets, meant)
    BY <1>1, Zenon
<1> HIDE DEF packets, meant
<1> QED
    BY <1>2, <1>4, <1>5, LightsAreMeant, Zenon

\* The look-at vectors are loaded.
LEMMA LookKeepsScene ==
    ASSUME SceneInv, part = "lights", part' = part, Lighting!LookAt
    PROVE  SceneInv'
<1>1. PICK l \in LookAts :
        Lighting!Send(Lighting!gSPLookAt(l.at), [wanted EXCEPT !.look = <<l.right, l.up>>])
    BY Zenon DEF Lighting!LookAt
<1> DEFINE packets == Lighting!gSPLookAt(l.at)
           meant == [wanted EXCEPT !.look = <<l.right, l.up>>]
<1>2. Lights(packets)
    BY LightCallsLeave, Zenon
<1>3. wanted = [lights |-> wanted.lights, ambient |-> wanted.ambient, look |-> wanted.look,
                matrix |-> wanted.matrix]
    BY Zenon DEF SceneInv
<1>4. /\ meant = [lights |-> meant.lights, ambient |-> meant.ambient, look |-> meant.look,
                  matrix |-> meant.matrix]
      /\ meant.matrix = wanted.matrix
    BY <1>3
<1>5. Lighting!Send(packets, meant)
    BY <1>1, Zenon
<1> HIDE DEF packets, meant
<1> QED
    BY <1>2, <1>4, <1>5, LightsAreMeant, Zenon

\* A packet about lights moves memory or a word, and the rest are still about lights.
LEMMA LightsRun ==
    ASSUME SceneInv, part = "lights", Lighting!Run
    PROVE  /\ matrix = wanted.matrix /\ Lights(list) /\ Lights(Tail(list))
           /\ Lighting!MoveMem(Head(list)) \/ Lighting!MoveWord(Head(list))
<1>1. /\ list # <<>> /\ list' = Tail(list) /\ wanted' = wanted /\ calls' = calls
      /\ \/ Lighting!MoveMem(Head(list)) \/ Lighting!MoveWord(Head(list))
         \/ Lighting!SetMatrix(Head(list)) \/ Lighting!PopMatrix(Head(list))
    BY Zenon DEF Lighting!Run
<1>2. part # "matrices"
    OBVIOUS
<1>3. matrix = wanted.matrix /\ Lights(list)
    BY <1>1, <1>2, Zenon DEF SceneInv
<1>4. PICK S : list \in Seq(S) /\ \A gfx \in S : LeavesMatrices(gfx)
    BY <1>3, Zenon DEF Lights
<1>5. Head(list) \in S /\ Tail(list) \in Seq(S)
    BY <1>1, <1>4
<1>6. Lights(Tail(list))
    BY <1>4, <1>5, Zenon DEF Lights
<1>7. LeavesMatrices(Head(list))
    BY <1>4, <1>5, Zenon
<1>8. ~ Lighting!SetMatrix(Head(list)) /\ ~ Lighting!PopMatrix(Head(list))
    <2>1. Lighting!G.MTX = 218 /\ Lighting!G.POPMTX = 216
        BY DEF Lighting!G
    <2>2. Lighting!Opcode(Head(list)) \in {219, 220}
        BY <1>7, LightingWords, Zenon DEF LeavesMatrices
    <2> DEFINE head == Head(list)
    <2> HIDE DEF head
    <2>3. Lighting!SetMatrix(head) => Lighting!Opcode(head) = Lighting!G.MTX
        BY Zenon DEF Lighting!SetMatrix
    <2>4. Lighting!PopMatrix(head) => Lighting!Opcode(head) = Lighting!G.POPMTX
        BY Zenon DEF Lighting!PopMatrix
    <2>5. Lighting!Opcode(head) # 218 /\ Lighting!Opcode(head) # 216
        BY <2>2 DEF head
    <2>6. Lighting!Opcode(head) # Lighting!G.MTX /\ Lighting!Opcode(head) # Lighting!G.POPMTX
        BY <2>1, <2>5
    <2> QED
        BY <2>3, <2>4, <2>6, Zenon DEF head
<1> QED
    BY <1>1, <1>3, <1>6, <1>8, Zenon

\* It leaves the matrices alone.
LEMMA LightsRunKeepsScene ==
    ASSUME SceneInv, part = "lights", part' = part, Lighting!Run
    PROVE  SceneInv'
<1>1. /\ matrix = wanted.matrix /\ Lights(Tail(list))
      /\ Lighting!MoveMem(Head(list)) \/ Lighting!MoveWord(Head(list))
    BY LightsRun, Zenon
<1>2. /\ list' = Tail(list) /\ wanted' = wanted /\ calls' = calls
    BY Zenon DEF Lighting!Run
<1>3. matrix' = matrix
    BY <1>1, Zenon DEF Lighting!MoveMem, Lighting!MoveWord
<1>4. part # "matrices"
    OBVIOUS
<1> QED
    BY <1>1, <1>2, <1>3, <1>4, Zenon DEF SceneInv

-----------------------------------------------------------------------------
(* Every step keeps the invariant.                                         *)

\* Whatever the list is about.
LEMMA NextSceneInv == SceneInv /\ [AllNext]_allVars => SceneInv'
<1>1. ASSUME SceneInv, part = "lights", part' = part, Lighting!Next PROVE SceneInv'
    <2>1. ~ Lighting!UseMatrix
        BY Zenon DEF Lighting!UseMatrix
    <2>2. ~ Lighting!DropMatrix
        <3>1. wanted.matrix.stack = <<>>
            BY <1>1, Zenon DEF SceneInv
        <3>2. 1 .. Len(wanted.matrix.stack) = {}
            BY <3>1
        <3> QED
            BY <3>2, Zenon DEF Lighting!DropMatrix
    <2> QED
        BY <1>1, <2>1, <2>2, SetLightsKeepsScene, RecolourKeepsScene, LookKeepsScene,
            LightsRunKeepsScene, Zenon DEF Lighting!Next
<1>2. ASSUME SceneInv, part = "matrices", part' = part, Transform!Next PROVE SceneInv'
    <2>1. ~ Transform!SetLights /\ ~ Transform!SetLightColor /\ ~ Transform!LookAt
        BY Zenon DEF Transform!SetLights, Transform!SetLightColor, Transform!LookAt
    <2> QED
        BY <1>2, <2>1, UseKeepsScene, DropKeepsScene, RunKeepsScene, Zenon DEF Transform!Next
<1>3. ASSUME SceneInv, part' = part, list' = list, wanted' = wanted, matrix' = matrix,
             calls' = calls
      PROVE  SceneInv'
    BY <1>3, Zenon DEF SceneInv
<1>4. ASSUME SceneInv, UNCHANGED allVars PROVE SceneInv'
    BY <1>3, <1>4, Zenon DEF allVars, scene
<1>5. ASSUME SceneInv, AllNext PROVE SceneInv'
    <2>1. part' = part
        BY <1>5, Zenon DEF AllNext
    <2>2. CASE WritePackets \/ LoadTextures \/ SetModes
        BY <1>3, <1>5, <2>1, <2>2, Zenon DEF WritePackets, LoadTextures, SetModes, scene
    <2>3. CASE SetScene
        BY <1>1, <1>2, <1>5, <2>1, <2>3, Zenon DEF SetScene
    <2> QED
        BY <1>5, <2>2, <2>3, Zenon DEF AllNext
<1> QED
    BY <1>4, <1>5, Zenon

\* For every choice of matrices and every nesting of pushes, loads and products:
\* when the list has run, the RSP has the matrices the game asked for.  A pop
\* brings back what was there before its push.
THEOREM MatricesAreRestored == AllSpec => []MatricesAsWanted
<1>1. SceneInv => MatricesAsWanted
    <2>1. ASSUME SceneInv, list = <<>> PROVE matrix = wanted.matrix
        <3>1. \A gfx : list # <<gfx>>
            BY <2>1
        <3> QED
            BY <2>1, <3>1, Zenon DEF SceneInv
    <2> QED
        BY <2>1, Zenon DEF MatricesAsWanted, Transform!MatricesAsWanted
<1> QED
    BY <1>1, InitSceneInv, NextSceneInv, PTL DEF AllSpec

-----------------------------------------------------------------------------
(* The structures in memory.                                               *)

\* The lights that a set stands for; the smallest one has a black light.
LightsOf(s) == IF s.lights = <<>> THEN <<Lighting!Black>> ELSE s.lights
LightSeqs == Seq([col : Int, dir : Int])

\* The lights of a set: from one to seven.
LEMMA LightSetIs ==
    ASSUME NEW s \in LightSets
    PROVE  /\ IsInt32(s.at) /\ IsInt32(s.at + 120) /\ s.ambient \in Int
           /\ LightsOf(s) \in LightSeqs /\ Len(LightsOf(s)) \in 1 .. 7
           /\ s.lights # <<>> => LightsOf(s) = s.lights /\ s.lights \in LightSeqs
           /\ s.lights = <<>> => Len(LightsOf(s)) = 1
<1>1. /\ IsInt32(s.at) /\ IsInt32(s.at + 120) /\ s.ambient \in Int
      /\ s.lights \in LightSeqs /\ Len(s.lights) <= 7
    BY LightAssumption, Zenon DEF LightSeqs
<1>2. CASE s.lights = <<>>
    <2>1. LightsOf(s) = <<[col |-> 0, dir |-> 0]>>
        BY <1>2, Zenon DEF LightsOf, Lighting!Black
    <2>2. LightsOf(s) \in LightSeqs /\ Len(LightsOf(s)) = 1
        BY <2>1 DEF LightSeqs
    <2> QED
        BY <1>1, <1>2, <2>2
<1>3. CASE s.lights # <<>>
    <2>1. LightsOf(s) = s.lights
        BY <1>3, Zenon DEF LightsOf
    <2>2. Len(s.lights) \in 1 .. 7
        <3>1. \A S, q : q \in Seq(S) /\ q # <<>> => Len(q) \in Nat \ {0}
            OBVIOUS
        <3>2. Len(s.lights) \in Nat \ {0}
            BY <1>1, <1>3, <3>1, Zenon DEF LightSeqs
        <3>3. Len(s.lights) <= 7
            BY <1>1, Zenon
        <3>4. \A n \in Nat \ {0} : n <= 7 => n \in 1 .. 7
            OBVIOUS
        <3> QED
            BY <3>2, <3>3, <3>4, Zenon
    <2> QED
        BY <1>1, <1>3, <2>1, <2>2
<1> QED
    BY <1>2, <1>3

\* The words of a set of lights: the ambient colour twice, then the lights.
LaysOut(image, ambient, lights) ==
    /\ Len(image) = 4 * Len(lights) + 2
    /\ image[1] = ambient /\ image[2] = ambient
    /\ \A k \in 1 .. Len(lights) :
         /\ image[4 * k - 1] = lights[k].col /\ image[4 * k] = lights[k].col
         /\ image[4 * k + 1] = lights[k].dir

\* gdSPDefLights lays out lights so.
LEMMA LightsImage ==
    ASSUME NEW ambient, NEW lights \in LightSeqs
    PROVE  LaysOut(Lighting!gdSPDefLights(ambient, lights), ambient, lights)
<1> DEFINE word(i) == Lighting!Light(lights[((i - 1) \div 4) + 1])[((i - 1) % 4) + 1]
           n == Len(lights)
           words == [i \in 1 .. 4 * n |-> word(i)]
           image == Lighting!gdSPDefLights(ambient, lights)
<1>1. n \in Nat
    BY DEF LightSeqs
<1>2. image = <<ambient, ambient>> \o words
    BY Zenon DEF Lighting!gdSPDefLights, Lighting!Ambient
<1>3. ASSUME NEW k \in 1 .. n
      PROVE  /\ word(4 * k - 3) = lights[k].col /\ word(4 * k - 2) = lights[k].col
             /\ word(4 * k - 1) = lights[k].dir
    <2>1. /\ ((4 * k - 3 - 1) \div 4) + 1 = k /\ ((4 * k - 3 - 1) % 4) + 1 = 1
          /\ ((4 * k - 2 - 1) \div 4) + 1 = k /\ ((4 * k - 2 - 1) % 4) + 1 = 2
          /\ ((4 * k - 1 - 1) \div 4) + 1 = k /\ ((4 * k - 1 - 1) % 4) + 1 = 3
        OBVIOUS
    <2>2. \A l : Lighting!Light(l)[1] = l.col /\ Lighting!Light(l)[2] = l.col
                 /\ Lighting!Light(l)[3] = l.dir
        BY DEF Lighting!Light
    <2> QED
        BY <2>1, <2>2, Zenon DEF word
<1> HIDE DEF word, n, image
<1>4. /\ words \in Seq({word(i) : i \in 1 .. 4 * n}) /\ Len(words) = 4 * n
      /\ \A i \in 1 .. 4 * n : words[i] = word(i)
    BY <1>1
<1> HIDE DEF words
<1>5. /\ Len(image) = 4 * n + 2 /\ image[1] = ambient /\ image[2] = ambient
      /\ \A i \in 1 .. 4 * n : image[i + 2] = word(i)
    <2> DEFINE S == {word(i) : i \in 1 .. 4 * n} \cup {ambient}
    <2>1. <<ambient, ambient>> \in Seq(S) /\ words \in Seq(S)
        BY <1>4
    <2> HIDE DEF S
    <2>2. /\ Len(image) = 2 + 4 * n
          /\ \A i \in 1 .. 4 * n : image[i + 2] = words[i]
          /\ image[1] = ambient /\ image[2] = ambient
        BY <1>1, <1>2, <1>4, <2>1
    <2> QED
        BY <1>1, <1>4, <2>2
<1>6. ASSUME NEW k \in 1 .. n
      PROVE  /\ image[4 * k - 1] = lights[k].col /\ image[4 * k] = lights[k].col
             /\ image[4 * k + 1] = lights[k].dir
    <2>1. /\ 4 * k - 3 \in 1 .. 4 * n /\ 4 * k - 2 \in 1 .. 4 * n /\ 4 * k - 1 \in 1 .. 4 * n
          /\ (4 * k - 3) + 2 = 4 * k - 1 /\ (4 * k - 2) + 2 = 4 * k
          /\ (4 * k - 1) + 2 = 4 * k + 1
        BY <1>1
    <2> QED
        BY <1>3, <1>5, <2>1
<1> QED
    BY <1>5, <1>6, Zenon DEF LaysOut, image, n

\* So does each set, the smallest one too.
LEMMA SetIsLaidOut ==
    ASSUME NEW s \in LightSets
    PROVE  LaysOut(Lighting!Image(s), s.ambient, LightsOf(s))
<1>1. CASE s.lights # <<>>
    BY <1>1, LightSetIs, LightsImage, Zenon DEF Lighting!Image
<1>2. CASE s.lights = <<>>
    <2>1. Lighting!Image(s) = Lighting!gdSPDefLights0(s.ambient)
        BY <1>2, Zenon DEF Lighting!Image
    <2>2. Lighting!gdSPDefLights0(s.ambient)
            = <<s.ambient, s.ambient>> \o <<0, 0, 0, 0>>
        BY DEF Lighting!gdSPDefLights0, Lighting!Ambient, Lighting!Light
    <2>4. LightsOf(s) = <<[col |-> 0, dir |-> 0]>>
        BY <1>2, Zenon DEF LightsOf, Lighting!Black
    <2> DEFINE image == Lighting!Image(s)
               lights == LightsOf(s)
    <2>5. image = <<s.ambient, s.ambient>> \o <<0, 0, 0, 0>>
        BY <2>1, <2>2, Zenon
    <2> HIDE DEF image, lights
    <2>6. /\ Len(image) = 6 /\ image[1] = s.ambient /\ image[2] = s.ambient
          /\ image[3] = 0 /\ image[4] = 0 /\ image[5] = 0
        <3>1. <<s.ambient, s.ambient>> \in Seq(Int) /\ <<0, 0, 0, 0>> \in Seq(Int)
            BY LightSetIs
        <3> QED
            BY <2>5, <3>1
    <2>7. Len(lights) = 1 /\ lights[1].col = 0 /\ lights[1].dir = 0
        BY <2>4 DEF lights
    <2>8. LaysOut(image, s.ambient, lights)
        BY <2>6, <2>7 DEF LaysOut
    <2> QED
        BY <2>8, Zenon DEF image, lights
<1> QED
    BY <1>1, <1>2

\* The words of a pair of look-at vectors.
LEMMA LookAtImage ==
    ASSUME NEW right, NEW up
    PROVE  /\ Len(Lighting!gdSPDefLookAt(right, up)) = 8
           /\ Lighting!gdSPDefLookAt(right, up)[3] = right
           /\ Lighting!gdSPDefLookAt(right, up)[7] = up
<1> DEFINE c == 2 ^ 23
           image == Lighting!gdSPDefLookAt(right, up)
           S == {0, c, right, up}
<1>1. image = <<0, 0, right, 0>> \o <<c, c, up, 0>>
    BY DEF Lighting!gdSPDefLookAt, Lighting!Light
<1> HIDE DEF c, image
<1>2. <<0, 0, right, 0>> \in Seq(S) /\ <<c, c, up, 0>> \in Seq(S)
    OBVIOUS
<1> HIDE DEF S
<1>3. Len(image) = 8 /\ image[3] = right /\ image[7] = up
    BY <1>1, <1>2
<1> QED
    BY <1>3, Zenon DEF image

\* A structure in memory: its words.
IsStructure(x) == x.at \in Int /\ Len(x.image) \in Nat \ {0}

\* Sets of lights and look-at vectors are structures.
LEMMA StructuresAre ==
    /\ \A x \in Lighting!Structures : IsStructure(x)
    /\ \A s \in LightSets : [at |-> s.at, image |-> Lighting!Image(s)] \in Lighting!Structures
    /\ \A l \in LookAts :
         [at |-> l.at, image |-> Lighting!gdSPDefLookAt(l.right, l.up)] \in Lighting!Structures
<1>1. /\ \A s \in LightSets :
           [at |-> s.at, image |-> Lighting!Image(s)] \in Lighting!Structures
      /\ \A l \in LookAts :
           [at |-> l.at, image |-> Lighting!gdSPDefLookAt(l.right, l.up)] \in Lighting!Structures
    BY Zenon DEF Lighting!Structures
<1>2. ASSUME NEW s \in LightSets
      PROVE  IsStructure([at |-> s.at, image |-> Lighting!Image(s)])
    <2>1. Len(Lighting!Image(s)) = 4 * Len(LightsOf(s)) + 2
        BY SetIsLaidOut, Zenon DEF LaysOut
    <2>2. IsInt32(s.at) /\ Len(LightsOf(s)) \in 1 .. 7
        BY LightSetIs, Zenon
    <2>3. s.at \in Int
        BY <2>2 DEF IsInt32
    <2>4. Len(Lighting!Image(s)) \in Nat \ {0}
        BY <2>1, <2>2
    <2> QED
        BY <2>3, <2>4 DEF IsStructure
<1>3. ASSUME NEW l \in LookAts
      PROVE  IsStructure([at |-> l.at, image |-> Lighting!gdSPDefLookAt(l.right, l.up)])
    <2>1. IsInt32(l.at)
        BY LightAssumption, Zenon
    <2>2. l.at \in Int
        BY <2>1 DEF IsInt32
    <2> DEFINE image == Lighting!gdSPDefLookAt(l.right, l.up)
    <2>3. Len(image) = 8
        BY LookAtImage
    <2> HIDE DEF image
    <2>4. Len(image) \in Nat \ {0}
        BY <2>3
    <2>5. IsStructure([at |-> l.at, image |-> image])
        BY <2>2, <2>4 DEF IsStructure
    <2> QED
        BY <2>5, Zenon DEF image
<1> QED
    BY <1>1, <1>2, <1>3, Zenon DEF Lighting!Structures

\* Structures lie apart, so a word inside one is found there.
LEMMA WordInside ==
    ASSUME NEW x \in Lighting!Structures, NEW i \in 1 .. Len(x.image),
           NEW a, a = x.at + 4 * (i - 1)
    PROVE  Lighting!WordAt(a) = x.image[i]
<1> DEFINE Covers(y) == \A z \in Lighting!Structures :
                          z.at <= a => z.at <= y.at /\ y.at <= a
           s == CHOOSE y \in Lighting!Structures : Covers(y)
           j == ((a - s.at) \div 4) + 1
<1>1. ASSUME NEW y \in Lighting!Structures, NEW z \in Lighting!Structures
      PROVE  \/ y = z
             \/ y.at + 4 * Len(y.image) <= z.at
             \/ z.at + 4 * Len(z.image) <= y.at
    BY LightAssumption, Zenon
<1>2. \A y \in Lighting!Structures : y.at \in Int /\ Len(y.image) \in Nat \ {0}
    BY StructuresAre, Zenon DEF IsStructure
<1>3. a \in Int /\ x.at <= a /\ a < x.at + 4 * Len(x.image)
    BY <1>2
<1>4. Covers(x)
    <2> SUFFICES ASSUME NEW z \in Lighting!Structures, z.at <= a PROVE z.at <= x.at
        BY <1>3
    <2>1. CASE z = x
        BY <1>2, <2>1
    <2>2. CASE z # x
        BY <1>1, <1>2, <1>3, <2>2, SMTT(40)
    <2> QED
        BY <2>1, <2>2
<1>5. s \in Lighting!Structures /\ Covers(s)
    BY <1>4, Zenon
<1>6. s = x
    <2>1. x.at <= s.at /\ s.at <= a
        BY <1>3, <1>5, Zenon
    <2> HIDE DEF s
    <2>2. s \in Lighting!Structures
        BY <1>5
    <2> QED
        BY <1>1, <1>2, <1>3, <2>1, <2>2, SMTT(40)
<1>7. Lighting!WordAt(a) = IF j <= Len(s.image) THEN s.image[j] ELSE 0
    BY Zenon DEF Lighting!WordAt
<1> HIDE DEF s
<1>8. j = i
    BY <1>2, <1>6, SMTT(40)
<1> QED
    BY <1>6, <1>7, <1>8

\* The words that packets copy.
LEMMA LightWords ==
    ASSUME NEW s \in LightSets
    PROVE  /\ Lighting!WordAt(s.at) = s.ambient /\ Lighting!WordAt(s.at + 4) = s.ambient
           /\ \A k \in 1 .. Len(LightsOf(s)) :
                /\ Lighting!WordAt(Lighting!L(s.at, k - 1)) = LightsOf(s)[k].col
                /\ Lighting!WordAt(Lighting!L(s.at, k - 1) + 4) = LightsOf(s)[k].col
                /\ Lighting!WordAt(Lighting!L(s.at, k - 1) + 8) = LightsOf(s)[k].dir
<1> DEFINE image == Lighting!Image(s)
           x == [at |-> s.at, image |-> image]
           n == Len(LightsOf(s))
<1>1. x \in Lighting!Structures /\ x.at = s.at /\ x.image = image
    BY StructuresAre
<1>2. n \in 1 .. 7 /\ s.at \in Int
    <2>1. n \in 1 .. 7 /\ IsInt32(s.at)
        BY LightSetIs, Zenon
    <2> QED
        BY <2>1 DEF IsInt32
<1>3. LaysOut(image, s.ambient, LightsOf(s))
    BY SetIsLaidOut, Zenon
<1>4. Len(image) = 4 * n + 2 /\ image[1] = s.ambient /\ image[2] = s.ambient
    BY <1>3, Zenon DEF LaysOut
<1> HIDE DEF x, image, n
<1>5. ASSUME NEW i \in 1 .. 4 * n + 2, NEW a, a = s.at + 4 * (i - 1)
      PROVE  Lighting!WordAt(a) = image[i]
    <2>1. i \in 1 .. Len(x.image) /\ a = x.at + 4 * (i - 1)
        BY <1>1, <1>4, <1>5
    <2> QED
        BY <1>1, <2>1, WordInside
<1>6. Lighting!WordAt(s.at) = s.ambient /\ Lighting!WordAt(s.at + 4) = s.ambient
    <2>1. s.at = s.at + 4 * (1 - 1) /\ s.at + 4 = s.at + 4 * (2 - 1)
          /\ 1 \in 1 .. 4 * n + 2 /\ 2 \in 1 .. 4 * n + 2
        BY <1>2
    <2>2. Lighting!WordAt(s.at) = image[1]
        BY <1>5, <2>1, Zenon
    <2>3. Lighting!WordAt(s.at + 4) = image[2]
        BY <1>5, <2>1, Zenon
    <2> QED
        BY <1>4, <2>2, <2>3
<1>7. ASSUME NEW k \in 1 .. n
      PROVE  /\ Lighting!WordAt(Lighting!L(s.at, k - 1)) = LightsOf(s)[k].col
             /\ Lighting!WordAt(Lighting!L(s.at, k - 1) + 4) = LightsOf(s)[k].col
             /\ Lighting!WordAt(Lighting!L(s.at, k - 1) + 8) = LightsOf(s)[k].dir
    <2>1. Lighting!L(s.at, k - 1) = s.at + 8 + (k - 1) * 16
        BY Zenon DEF Lighting!L, Lighting!SizeofAmbient, Lighting!SizeofLight
    <2> DEFINE a == Lighting!L(s.at, k - 1)
    <2> HIDE DEF a
    <2>2. /\ a = s.at + 4 * ((4 * k - 1) - 1) /\ a + 4 = s.at + 4 * (4 * k - 1)
          /\ a + 8 = s.at + 4 * ((4 * k + 1) - 1)
          /\ 4 * k - 1 \in 1 .. 4 * n + 2 /\ 4 * k \in 1 .. 4 * n + 2
          /\ 4 * k + 1 \in 1 .. 4 * n + 2
        BY <1>2, <2>1 DEF a
    <2>3. Lighting!WordAt(a) = image[4 * k - 1]
        BY <1>5, <2>2, Zenon
    <2>4. Lighting!WordAt(a + 4) = image[4 * k]
        BY <1>5, <2>2, Zenon
    <2>5. Lighting!WordAt(a + 8) = image[4 * k + 1]
        BY <1>5, <2>2, Zenon
    <2>6. /\ image[4 * k - 1] = LightsOf(s)[k].col /\ image[4 * k] = LightsOf(s)[k].col
          /\ image[4 * k + 1] = LightsOf(s)[k].dir
        BY <1>3, Zenon DEF LaysOut, n
    <2> QED
        BY <2>3, <2>4, <2>5, <2>6, Zenon DEF a
<1> QED
    BY <1>6, <1>7, Zenon DEF n

\* The directions that packets about look-at vectors copy.
LEMMA LookAtWords ==
    ASSUME NEW l \in LookAts
    PROVE  Lighting!WordAt(l.at + 8) = l.right /\ Lighting!WordAt(l.at + 16 + 8) = l.up
<1> DEFINE image == Lighting!gdSPDefLookAt(l.right, l.up)
           x == [at |-> l.at, image |-> image]
<1>1. x \in Lighting!Structures /\ x.at = l.at /\ x.image = image
    BY StructuresAre
<1>2. Len(image) = 8 /\ image[3] = l.right /\ image[7] = l.up
    BY LookAtImage
<1>3. l.at \in Int
    <2>1. IsInt32(l.at)
        BY LightAssumption, Zenon
    <2> QED
        BY <2>1 DEF IsInt32
<1> HIDE DEF x, image
<1>4. /\ 3 \in 1 .. Len(x.image) /\ 7 \in 1 .. Len(x.image)
      /\ l.at + 8 = x.at + 4 * (3 - 1) /\ l.at + 16 + 8 = x.at + 4 * (7 - 1)
    BY <1>1, <1>2, <1>3
<1>5. Lighting!WordAt(l.at + 8) = x.image[3]
    BY <1>1, <1>4, WordInside, Zenon
<1>6. Lighting!WordAt(l.at + 16 + 8) = x.image[7]
    BY <1>1, <1>4, WordInside, Zenon
<1> QED
    BY <1>1, <1>2, <1>5, <1>6, Zenon

-----------------------------------------------------------------------------
(* What packets about lights do to the RSP's memory.                       *)

PartIs(word, first, n) == Number(Field(word, first, n))

\* SceneSetup reads words as DisplayModes does.
LEMMA LightingReads ==
    /\ \A word, first, n : Lighting!Part(word, first, n) = PartIs(word, first, n)
    /\ \A word : Lighting!Int32(word) = AsInt(word)
<1>1. \A word : Lighting!Number(word) = Number(word)
    BY Zenon DEF Lighting!Number, Number, Lighting!MapThenSumSet, MapThenSumSet,
        Lighting!MapThenFoldSet, MapThenFoldSet
<1>2. \A word, n : Lighting!Low(word, n) = Low(word, n)
    BY Zenon DEF Lighting!Low, Low
<1>3. \A word, s : Lighting!Shift(word, s) = Shift(word, s)
    BY Zenon DEF Lighting!Shift, Shift
<1>4. \A word, first, n : Lighting!Field(word, first, n) = Field(word, first, n)
    BY <1>2, <1>3, Zenon DEF Lighting!Field, Field
<1>5. \A word, first, n : Lighting!Part(word, first, n) = PartIs(word, first, n)
    BY <1>1, <1>4, Zenon DEF Lighting!Part, PartIs
<1>6. \A word : Lighting!Int32(word) = AsInt(word)
    BY <1>1, Zenon DEF Lighting!Int32, AsInt
<1> QED
    BY <1>5, <1>6, Zenon

\* gfx puts v in place i.  The place of the number of lights is -1, the others are
\* those of dmem.
Puts(gfx, i, v) ==
    \/ /\ Opcode(gfx) = 220 /\ i # -1
       /\ i \in PartIs(gfx.w0, 8, 8) * 2
                  .. (PartIs(gfx.w0, 8, 8) * 2 + (PartIs(gfx.w0, 19, 5) + 1) * 2 - 1)
       /\ v = Lighting!WordAt(AsInt(gfx.w1) + 4 * (i - PartIs(gfx.w0, 8, 8) * 2))
    \/ Opcode(gfx) = 219 /\ PartIs(gfx.w0, 16, 8) = 2 /\ i = -1 /\ v = AsInt(gfx.w1)
    \/ /\ Opcode(gfx) = 219 /\ PartIs(gfx.w0, 16, 8) = 10 /\ i # -1
       /\ i = 12 + PartIs(gfx.w0, 0, 16) \div 4 /\ v = AsInt(gfx.w1)

\* It copies four words from adrs to slot q, or stores d in p.
CopiesTo(gfx, adrs, q) ==
    \A i, v : Puts(gfx, i, v) <=> i \in 6 * q .. 6 * q + 3
                                  /\ v = Lighting!WordAt(adrs + 4 * (i - 6 * q))
Stores(gfx, p, d) == \A i, v : Puts(gfx, i, v) <=> i = p /\ v = d

\* gDma2p copies to a slot of 24 bytes.
LEMMA DmaCopies ==
    ASSUME NEW adrs, IsInt32(adrs), NEW q \in 0 .. 9, NEW ofs, ofs = 24 * q
    PROVE  CopiesTo(Lighting!gDma2p(220, adrs, 16, 10, ofs), adrs, q)
<1> DEFINE gfx == Lighting!gDma2p(220, adrs, 16, 10, ofs)
           w == _SHIFTL(1, 19, 5)
           x == _SHIFTL(3 * q, 8, 8)
           y == _SHIFTL(10, 0, 8)
<1>1. gfx.w0 = Cmd(220) \cup w \cup x \cup y /\ gfx.w1 = Bits(adrs)
    <2>1. Transform!CDiv(16 - 1, 8) = 1 /\ Transform!CDiv(ofs, 8) = 3 * q
        BY DEF Transform!CDiv
    <2>2. gfx = Transform!gDma2p(220, adrs, 16, 10, ofs)
        BY LightingWords, Zenon
    <2>3. gfx = [w0 |-> Cmd(220) \cup _SHIFTL(Transform!CDiv(16 - 1, 8), 19, 5)
                          \cup _SHIFTL(Transform!CDiv(ofs, 8), 8, 8) \cup _SHIFTL(10, 0, 8),
                 w1 |-> Bits(adrs)]
        BY <2>2, SceneWords, Zenon DEF Transform!gDma2p, Transform!Gfx
    <2> HIDE DEF gfx
    <2>4. /\ gfx.w0 = Cmd(220) \cup _SHIFTL(Transform!CDiv(16 - 1, 8), 19, 5)
                          \cup _SHIFTL(Transform!CDiv(ofs, 8), 8, 8) \cup _SHIFTL(10, 0, 8)
          /\ gfx.w1 = Bits(adrs)
        BY <2>3
    <2> QED
        BY <2>1, <2>4
<1>2. Opcode(gfx) = 220
    <2>1. 220 \in 0 .. 255
        OBVIOUS
    <2> QED
        BY <2>1, LightingWords, DmaIs
<1> HIDE DEF gfx, w, x, y
<1>3. /\ \A b : b \in w => b \in 19 .. 23
      /\ \A b : b \in x => b \in 8 .. 15
      /\ \A b : b \in y => b \in 0 .. 7
      /\ \A b : b \in Cmd(220) => b \in 24 .. 31
    <2>1. 19 \in Nat /\ 5 \in Nat /\ 8 \in Nat /\ 0 \in Nat /\ 24 \in Nat
          /\ 19 + 5 - 1 = 23 /\ 8 + 8 - 1 = 15 /\ 0 + 8 - 1 = 7 /\ 24 + 8 - 1 = 31
        OBVIOUS
    <2>2. \A b : b \in w => b \in 19 .. 23
        BY <2>1, ShiftedBit DEF w
    <2>3. \A b : b \in x => b \in 8 .. 15
        BY <2>1, ShiftedBit, Zenon DEF x
    <2>4. \A b : b \in y => b \in 0 .. 7
        BY <2>1, ShiftedBit DEF y
    <2>5. \A b : b \in Cmd(220) => b \in 24 .. 31
        BY <2>1, ShiftedBit DEF Cmd
    <2> QED
        BY <2>2, <2>3, <2>4, <2>5
<1>4. PartIs(gfx.w0, 8, 8) = 3 * q
    <2>1. \A b \in 8 .. 8 + 8 - 1 : b \in gfx.w0 <=> b \in _SHIFTL(3 * q, 8, 8)
        BY <1>1, <1>3 DEF x
    <2>2. 3 * q \in Int /\ 8 \in Nat /\ 8 \in 0 .. 31 /\ 8 + 8 <= 32
        OBVIOUS
    <2>3. Number(Field(gfx.w0, 8, 8)) = (3 * q) % 2 ^ 8
        BY <2>1, <2>2, FieldIs, Zenon
    <2>4. 2 ^ 8 = 256
        BY SmallPowers
    <2>5. (3 * q) % 256 = 3 * q
        OBVIOUS
    <2> QED
        BY <2>3, <2>4, <2>5, Zenon DEF PartIs
<1>5. PartIs(gfx.w0, 19, 5) = 1
    <2>1. \A b \in 19 .. 19 + 5 - 1 : b \in gfx.w0 <=> b \in _SHIFTL(1, 19, 5)
        BY <1>1, <1>3 DEF w
    <2>2. 1 \in Int /\ 19 \in Nat /\ 5 \in 0 .. 31 /\ 19 + 5 <= 32
        OBVIOUS
    <2>3. Number(Field(gfx.w0, 19, 5)) = 1 % 2 ^ 5
        BY <2>1, <2>2, FieldIs, Zenon
    <2>4. 2 ^ 5 = 32
        BY SmallPowers
    <2>5. 1 % 32 = 1
        OBVIOUS
    <2> QED
        BY <2>3, <2>4, <2>5, Zenon DEF PartIs
<1>6. AsInt(gfx.w1) = adrs
    BY <1>1, IntIs, Zenon
<1>7. ASSUME NEW i, NEW v
      PROVE  Puts(gfx, i, v) <=> i \in 6 * q .. 6 * q + 3
                                 /\ v = Lighting!WordAt(adrs + 4 * (i - 6 * q))
    <2>1. 3 * q * 2 = 6 * q /\ 6 * q + (1 + 1) * 2 - 1 = 6 * q + 3 /\ 220 # 219
        OBVIOUS
    <2> QED
        BY <1>2, <1>4, <1>5, <1>6, <2>1 DEF Puts
<1>8. CopiesTo(gfx, adrs, q)
    BY <1>7, Zenon DEF CopiesTo
<1> QED
    BY <1>8, Zenon DEF gfx

\* gMoveWd stores the number of lights, or one word of a light.
LEMMA MoveStores ==
    ASSUME NEW data, IsInt32(data), NEW index \in {2, 10}, NEW ofs \in 0 .. 1000,
           NEW gfx, gfx = Lighting!gMoveWd(index, ofs, data)
    PROVE  /\ index = 2 => Stores(gfx, -1, data)
           /\ index = 10 => Stores(gfx, 12 + ofs \div 4, data)
<1> DEFINE x == _SHIFTL(index, 16, 8)
           y == _SHIFTL(ofs, 0, 16)
<1>1. gfx.w0 = Cmd(219) \cup x \cup y /\ gfx.w1 = Bits(data) /\ Opcode(gfx) = 219
    <2>1. gfx = Transform!gDma1p(219, data, ofs, index)
        <3>1. Lighting!G.MOVEWORD = 219
            BY DEF Lighting!G
        <3>2. gfx = Lighting!gDma1p(Lighting!G.MOVEWORD, data, ofs, index)
            BY ZenonT(60) DEF Lighting!gMoveWd
        <3> QED
            BY <3>1, <3>2, LightingWords
    <2>2. gfx = [w0 |-> Cmd(219) \cup x \cup y, w1 |-> Bits(data)]
        BY <2>1, SceneWords, ZenonT(60) DEF Transform!gDma1p, Transform!Gfx
    <2>3. Opcode(gfx) = 219
        BY <2>1, WordIs
    <2> HIDE DEF x, y
    <2> QED
        BY <2>2, <2>3
<1> HIDE DEF x, y
<1>2. /\ \A b : b \in x => b \in 16 .. 23
      /\ \A b : b \in y => b \in 0 .. 15
      /\ \A b : b \in Cmd(219) => b \in 24 .. 31
    <2>1. 16 \in Nat /\ 8 \in Nat /\ 0 \in Nat /\ 24 \in Nat
          /\ 16 + 8 - 1 = 23 /\ 0 + 16 - 1 = 15 /\ 24 + 8 - 1 = 31
        OBVIOUS
    <2>2. \A b : b \in x => b \in 16 .. 23
        BY <2>1, ShiftedBit DEF x
    <2>3. \A b : b \in y => b \in 0 .. 15
        BY <2>1, ShiftedBit DEF y
    <2>4. \A b : b \in Cmd(219) => b \in 24 .. 31
        BY <2>1, ShiftedBit DEF Cmd
    <2> QED
        BY <2>2, <2>3, <2>4
<1>3. PartIs(gfx.w0, 16, 8) = index
    <2>1. \A b \in 16 .. 16 + 8 - 1 : b \in gfx.w0 <=> b \in _SHIFTL(index, 16, 8)
        BY <1>1, <1>2 DEF x
    <2>2. index \in Int /\ 16 \in Nat /\ 8 \in 0 .. 31 /\ 16 + 8 <= 32
        OBVIOUS
    <2>3. Number(Field(gfx.w0, 16, 8)) = index % 2 ^ 8
        BY <2>1, <2>2, FieldIs, Zenon
    <2>4. 2 ^ 8 = 256
        BY SmallPowers
    <2>5. index % 256 = index
        OBVIOUS
    <2> QED
        BY <2>3, <2>4, <2>5, Zenon DEF PartIs
<1>4. PartIs(gfx.w0, 0, 16) = ofs
    <2>1. \A b \in 0 .. 0 + 16 - 1 : b \in gfx.w0 <=> b \in _SHIFTL(ofs, 0, 16)
        BY <1>1, <1>2 DEF y
    <2>2. ofs \in Int /\ 0 \in Nat /\ 16 \in 0 .. 31 /\ 0 + 16 <= 32
        OBVIOUS
    <2>3. Number(Field(gfx.w0, 0, 16)) = ofs % 2 ^ 16
        BY <2>1, <2>2, FieldIs, Zenon
    <2>4. 2 ^ 16 = 65536
        OBVIOUS
    <2>5. ofs % 65536 = ofs
        OBVIOUS
    <2> QED
        BY <2>3, <2>4, <2>5 DEF PartIs
<1>5. AsInt(gfx.w1) = data
    BY <1>1, IntIs, Zenon
<1>6. index = 2 => Stores(gfx, -1, data)
    BY <1>1, <1>3, <1>5 DEF Stores, Puts
<1>7. index = 10 => Stores(gfx, 12 + ofs \div 4, data)
    BY <1>1, <1>3, <1>4, <1>5 DEF Stores, Puts
<1> QED
    BY <1>6, <1>7

\* What the RSP is to hold, and where, if a scene is as w says.
WantedAt(w, i, v) ==
    \/ i = -1 /\ v = 24 * Len(w.lights)
    \/ i = 2 /\ v = w.look[1]
    \/ i = 8 /\ v = w.look[2]
    \/ \E k \in 1 .. Len(w.lights) : i \in 6 * k + 6 .. 6 * k + 7 /\ v = w.lights[k].col
    \/ \E k \in 1 .. Len(w.lights) : i = 6 * k + 8 /\ v = w.lights[k].dir
    \/ i \in 6 * Len(w.lights) + 12 .. 6 * Len(w.lights) + 13 /\ v = w.ambient

\* If v is wanted in place i, the slot of i tells which value it is.
SlotTells(w, n, i, v) ==
    /\ i \in -1 .. 59
    /\ \A k \in 1 .. n : i \in 6 * k + 6 .. 6 * k + 9 =>
         \/ i \in 6 * k + 6 .. 6 * k + 7 /\ v = w.lights[k].col
         \/ i = 6 * k + 8 /\ v = w.lights[k].dir
    /\ i \in 6 * n + 12 .. 6 * n + 15 =>
         i \in 6 * n + 12 .. 6 * n + 13 /\ v = w.ambient
    /\ i \in 0 .. 3 => i = 2 /\ v = w.look[1]
    /\ i \in 6 .. 9 => i = 8 /\ v = w.look[2]
    /\ i = -1 => v = 24 * n

\* Places of different slots differ.
LEMMA WantedInSlot ==
    ASSUME NEW w, NEW n \in 1 .. 7, Len(w.lights) = n, NEW i, NEW v, WantedAt(w, i, v)
    PROVE  SlotTells(w, n, i, v)
<1>1. CASE i = -1 /\ v = 24 * Len(w.lights)
    BY <1>1 DEF SlotTells
<1>2. CASE i = 2 /\ v = w.look[1]
    BY <1>2 DEF SlotTells
<1>3. CASE i = 8 /\ v = w.look[2]
    BY <1>3 DEF SlotTells
<1>4. CASE \E k \in 1 .. Len(w.lights) : i \in 6 * k + 6 .. 6 * k + 7 /\ v = w.lights[k].col
    BY <1>4 DEF SlotTells
<1>5. CASE \E k \in 1 .. Len(w.lights) : i = 6 * k + 8 /\ v = w.lights[k].dir
    BY <1>5 DEF SlotTells
<1>6. CASE i \in 6 * Len(w.lights) + 12 .. 6 * Len(w.lights) + 13 /\ v = w.ambient
    BY <1>6 DEF SlotTells
<1> QED
    BY <1>1, <1>2, <1>3, <1>4, <1>5, <1>6, Zenon DEF WantedAt

\* The packets of the macros.
LEMMA LightCopies ==
    ASSUME NEW adrs, IsInt32(adrs), NEW k \in 1 .. 8
    PROVE  CopiesTo(Lighting!gSPLight(adrs, k), adrs, k + 1)
<1>1. Lighting!gSPLight(adrs, k) = Lighting!gDma2p(220, adrs, 16, 10, k * 24 + 24)
    BY DEF Lighting!gSPLight, Lighting!G, Lighting!G_MV, Lighting!SizeofLight
<1>2. k + 1 \in 0 .. 9 /\ k * 24 + 24 = 24 * (k + 1)
    OBVIOUS
<1>3. CopiesTo(Lighting!gDma2p(220, adrs, 16, 10, k * 24 + 24), adrs, k + 1)
    BY <1>2, DmaCopies, Zenon
<1> QED
    BY <1>1, <1>3

\* The vectors go to the first two slots.
LEMMA LookAtCopies ==
    ASSUME NEW l, IsInt32(l)
    PROVE  /\ CopiesTo(Lighting!gSPLookAtX(l), l, 0)
           /\ CopiesTo(Lighting!gSPLookAtY(l), l, 1)
<1>1. /\ Lighting!gSPLookAtX(l) = Lighting!gDma2p(220, l, 16, 10, 0)
      /\ Lighting!gSPLookAtY(l) = Lighting!gDma2p(220, l, 16, 10, 24)
    BY DEF Lighting!gSPLookAtX, Lighting!gSPLookAtY, Lighting!G, Lighting!G_MV,
        Lighting!G_MVO, Lighting!SizeofLight
<1>2. 0 \in 0 .. 9 /\ 0 = 24 * 0 /\ 1 \in 0 .. 9 /\ 24 = 24 * 1
    OBVIOUS
<1>3. CopiesTo(Lighting!gDma2p(220, l, 16, 10, 0), l, 0)
    BY <1>2, DmaCopies, Zenon
<1>4. CopiesTo(Lighting!gDma2p(220, l, 16, 10, 24), l, 1)
    BY <1>2, DmaCopies, Zenon
<1> QED
    BY <1>1, <1>3, <1>4

\* The number of lights, in bytes of slots.
LEMMA NumLightsStores ==
    ASSUME NEW n \in 1 .. 7
    PROVE  Stores(Lighting!gSPNumLights(n), -1, 24 * n)
<1>1. Lighting!gSPNumLights(n) = Lighting!gMoveWd(2, 0, 24 * n)
    BY DEF Lighting!gSPNumLights, Lighting!G_MW, Lighting!NUML
<1>2. IsInt32(24 * n) /\ 2 \in {2, 10} /\ 0 \in 0 .. 1000
    BY DEF IsInt32
<1>3. Stores(Lighting!gMoveWd(2, 0, 24 * n), -1, 24 * n)
    BY <1>2, MoveStores, SMTT(40)
<1> QED
    BY <1>1, <1>3

\* Both copies of a colour are stored.
LEMMA ColorStores ==
    ASSUME NEW n \in 1 .. 8, NEW c, IsInt32(c)
    PROVE  \E a, b : /\ Lighting!gSPLightColor(n, c) = <<a, b>>
                     /\ Stores(a, 6 * n + 6, c) /\ Stores(b, 6 * n + 7, c)
<1> DEFINE a == Lighting!gMoveWd(10, 24 * (n - 1), c)
           b == Lighting!gMoveWd(10, 24 * (n - 1) + 4, c)
<1>1. Lighting!G_MWO_aLIGHT(n) = 24 * (n - 1) /\ Lighting!G_MWO_bLIGHT(n) = 24 * (n - 1) + 4
    BY DEF Lighting!G_MWO_aLIGHT, Lighting!G_MWO_bLIGHT
<1>2. Lighting!G_MW.LIGHTCOL = 10
    BY DEF Lighting!G_MW
<1>3. Lighting!gSPLightColor(n, c) = <<a, b>>
    BY <1>1, <1>2 DEF Lighting!gSPLightColor
<1>4. /\ 10 \in {2, 10} /\ 24 * (n - 1) \in 0 .. 1000 /\ 24 * (n - 1) + 4 \in 0 .. 1000
      /\ 12 + (24 * (n - 1)) \div 4 = 6 * n + 6
      /\ 12 + (24 * (n - 1) + 4) \div 4 = 6 * n + 7
    OBVIOUS
<1>5. Stores(a, 12 + (24 * (n - 1)) \div 4, c)
    BY <1>4, MoveStores, SMTT(40)
<1>6. Stores(b, 12 + (24 * (n - 1) + 4) \div 4, c)
    BY <1>4, MoveStores, SMTT(40)
<1> HIDE DEF a, b
<1>7. Stores(a, 6 * n + 6, c) /\ Stores(b, 6 * n + 7, c)
    BY <1>4, <1>5, <1>6
<1> QED
    BY <1>3, <1>7, Zenon

Among(gfx, packets) == \E k \in 1 .. Len(packets) : gfx = packets[k]
PutsIn(gfx, i) == \E v : Puts(gfx, i, v)

\* Packets that make the scene w out of the scene old: each puts what is wanted, and
\* what was not wanted before is put by one.
Renew(packets, old, w) ==
    /\ \A i, v : WantedAt(w, i, v) =>
         \/ WantedAt(old, i, v)
         \/ \E gfx : Among(gfx, packets) /\ PutsIn(gfx, i)
    /\ \A gfx, i, u, v : Among(gfx, packets) /\ Puts(gfx, i, u) /\ WantedAt(w, i, v) => u = v

\* The packets that send the lights of s.
SendsLights(packets, s) ==
    \A gfx : Among(gfx, packets) <=>
      \/ gfx = Lighting!gSPNumLights(Len(LightsOf(s)))
      \/ \E k \in 1 .. Len(LightsOf(s)) :
           gfx = Lighting!gSPLight(Lighting!L(s.at, k - 1), k)
      \/ gfx = Lighting!gSPLight(s.at, Len(LightsOf(s)) + 1)

\* gSPSetLights sends them, and gSPSetLights0 does.
LEMMA SetLightsPackets ==
    ASSUME NEW s \in LightSets, NEW packets,
           packets = IF s.lights = <<>> THEN Lighting!gSPSetLights0(s.at)
                     ELSE Lighting!gSPSetLights(Len(s.lights), s.at)
    PROVE  SendsLights(packets, s)
<1> DEFINE n == Len(LightsOf(s))
           one(k) == Lighting!gSPLight(Lighting!L(s.at, k - 1), k)
           a == Lighting!gSPNumLights(n)
           c == Lighting!gSPLight(s.at, n + 1)
<1>1. n \in 1 .. 7
    BY LightSetIs, Zenon
<1>2. CASE s.lights = <<>>
    <2>1. n = 1
        BY <1>2, LightSetIs, Zenon
    <2>2. packets = <<a, one(1), c>>
        <3>1. packets = <<Lighting!gSPNumLights(1),
                          Lighting!gSPLight(Lighting!L(s.at, 0), 1),
                          Lighting!gSPLight(s.at, 2)>>
            BY <1>2, Zenon DEF Lighting!gSPSetLights0, Lighting!NUMLIGHTS_0, Lighting!A
        <3>2. 1 - 1 = 0 /\ 1 + 1 = 2
            OBVIOUS
        <3> QED
            BY <2>1, <3>1, <3>2, Zenon
    <2> HIDE DEF one, a, c, n
    <2>3. Len(packets) = 3 /\ packets[1] = a /\ packets[2] = one(1) /\ packets[3] = c
        BY <2>2
    <2>4. \A gfx : Among(gfx, packets) <=> gfx = a \/ gfx = one(1) \/ gfx = c
        BY <2>3 DEF Among
    <2>5. \A gfx : (\E k \in 1 .. n : gfx = one(k)) <=> gfx = one(1)
        BY <2>1
    <2> QED
        BY <2>4, <2>5, Zenon DEF SendsLights, one, a, c, n
<1>3. CASE s.lights # <<>>
    <2> DEFINE b == [k \in 1 .. n |-> one(k)]
    <2>1. LightsOf(s) = s.lights
        BY <1>3, LightSetIs, Zenon
    <2>2. packets = <<a>> \o b \o <<c>>
        BY <1>3, <2>1, Zenon DEF Lighting!gSPSetLights, Lighting!A
    <2> HIDE DEF one, a, c, n
    <2>3. b \in Seq({one(k) : k \in 1 .. n}) /\ Len(b) = n
          /\ \A k \in 1 .. n : b[k] = one(k)
        <3>1. n \in Nat
            BY <1>1
        <3> QED
            BY <3>1
    <2> HIDE DEF b
    <2>4. /\ Len(packets) = n + 2 /\ packets[1] = a /\ packets[n + 2] = c
          /\ \A k \in 1 .. n : packets[k + 1] = one(k)
        <3> DEFINE S == {one(k) : k \in 1 .. n} \cup {a, c}
        <3>1. <<a>> \in Seq(S) /\ b \in Seq(S) /\ <<c>> \in Seq(S)
            BY <2>3
        <3> HIDE DEF S
        <3>2. n \in Nat
            BY <1>1
        <3> DEFINE ab == <<a>> \o b
        <3>3. /\ ab \in Seq(S) /\ Len(ab) = n + 1 /\ ab[1] = a
              /\ \A k \in 1 .. n : ab[k + 1] = one(k)
            BY <2>3, <3>1, <3>2
        <3>4. packets = ab \o <<c>>
            BY <2>2, Zenon
        <3> HIDE DEF ab
        <3>5. /\ Len(packets) = n + 2 /\ packets[n + 2] = c
              /\ \A j \in 1 .. n + 1 : packets[j] = ab[j]
            <4>1. /\ Len(packets) = Len(ab) + 1 /\ packets[Len(ab) + 1] = c
                  /\ \A j \in 1 .. Len(ab) : packets[j] = ab[j]
                <5>1. ab \in Seq(S) /\ <<c>> \in Seq(S)
                    BY <3>1, <3>3
                <5> HIDE DEF c
                <5>2. /\ Len(ab \o <<c>>) = Len(ab) + 1 /\ (ab \o <<c>>)[Len(ab) + 1] = c
                      /\ \A j \in 1 .. Len(ab) : (ab \o <<c>>)[j] = ab[j]
                    BY <5>1
                <5> QED
                    BY <3>4, <5>2
            <4>2. Len(ab) = n + 1 /\ Len(ab) + 1 = n + 2
                BY <3>2, <3>3
            <4> QED
                BY <4>1, <4>2, Zenon
        <3>6. 1 \in 1 .. n + 1 /\ \A k \in 1 .. n : k + 1 \in 1 .. n + 1
            BY <3>2
        <3> QED
            BY <3>3, <3>5, <3>6, Zenon
    <2>5. \A gfx : Among(gfx, packets) <=> gfx = a \/ (\E k \in 1 .. n : gfx = one(k)) \/ gfx = c
        <3>1. ASSUME NEW gfx, Among(gfx, packets)
              PROVE  gfx = a \/ (\E k \in 1 .. n : gfx = one(k)) \/ gfx = c
            <4>1. PICK j \in 1 .. n + 2 : gfx = packets[j]
                BY <2>4, <3>1, Zenon DEF Among
            <4>2. CASE j = 1 \/ j = n + 2
                BY <2>4, <4>1, <4>2, Zenon
            <4>3. CASE j # 1 /\ j # n + 2
                <5>1. j - 1 \in 1 .. n /\ (j - 1) + 1 = j
                    BY <1>1, <4>3
                <5>2. packets[(j - 1) + 1] = one(j - 1)
                    BY <2>4, <5>1, Zenon
                <5> QED
                    BY <4>1, <5>1, <5>2, Zenon
            <4> QED
                BY <4>2, <4>3, Zenon
        <3>2. /\ Among(a, packets) /\ Among(c, packets)
              /\ \A k \in 1 .. n : Among(one(k), packets)
            <4>1. 1 \in 1 .. n + 2 /\ n + 2 \in 1 .. n + 2
                  /\ \A k \in 1 .. n : k + 1 \in 1 .. n + 2
                BY <1>1
            <4> QED
                BY <2>4, <4>1, Zenon DEF Among
        <3> QED
            BY <3>1, <3>2, Zenon
    <2> QED
        BY <2>5, Zenon DEF SendsLights, one, a, c, n
<1> QED
    BY <1>2, <1>3

\* A set of lights.
LEMMA SetLightsRenew ==
    ASSUME NEW s \in LightSets, NEW packets,
           packets = IF s.lights = <<>> THEN Lighting!gSPSetLights0(s.at)
                     ELSE Lighting!gSPSetLights(Len(s.lights), s.at),
           NEW old, NEW w, w.lights = LightsOf(s), w.ambient = s.ambient, w.look = old.look
    PROVE  Renew(packets, old, w)
<1> DEFINE n == Len(LightsOf(s))
           one(k) == Lighting!gSPLight(Lighting!L(s.at, k - 1), k)
           a == Lighting!gSPNumLights(n)
           c == Lighting!gSPLight(s.at, n + 1)
<1>1. n \in 1 .. 7 /\ IsInt32(s.at) /\ IsInt32(s.at + 120)
    BY LightSetIs, Zenon
<1>5. \A gfx : Among(gfx, packets) <=> gfx = a \/ (\E k \in 1 .. n : gfx = one(k)) \/ gfx = c
    <2>1. SendsLights(packets, s)
        BY SetLightsPackets, Zenon
    <2> QED
        BY <2>1, Zenon DEF SendsLights
<1>6. Len(w.lights) = n
    BY Zenon
<1> HIDE DEF n
<1>2. Stores(a, -1, 24 * n)
    BY <1>1, NumLightsStores, Zenon
<1>3. \A k \in 1 .. n : CopiesTo(one(k), Lighting!L(s.at, k - 1), k + 1)
    <2> TAKE k \in 1 .. n
    <2>1. Lighting!L(s.at, k - 1) = s.at + 8 + (k - 1) * 16
        BY Zenon DEF Lighting!L, Lighting!SizeofAmbient, Lighting!SizeofLight
    <2>2. IsInt32(Lighting!L(s.at, k - 1))
        <3> DEFINE adrs == Lighting!L(s.at, k - 1)
        <3>1. adrs = s.at + 8 + (k - 1) * 16
            BY <2>1, Zenon
        <3> HIDE DEF adrs
        <3>2. IsInt32(adrs)
            BY <1>1, <3>1, SMTT(40) DEF IsInt32
        <3> QED
            BY <3>2, Zenon DEF adrs
    <2>3. k \in 1 .. 8
        BY <1>1
    <2> QED
        BY <2>2, <2>3, LightCopies, Zenon
<1>4. CopiesTo(c, s.at, n + 2)
    <2>1. n + 1 \in 1 .. 8 /\ (n + 1) + 1 = n + 2
        BY <1>1
    <2>2. CopiesTo(c, s.at, (n + 1) + 1)
        BY <1>1, <2>1, LightCopies, Zenon
    <2> QED
        BY <2>1, <2>2
<1> HIDE DEF one, a, c
<1>7. ASSUME NEW i, NEW v, WantedAt(w, i, v)
      PROVE  WantedAt(old, i, v) \/ \E gfx : Among(gfx, packets) /\ PutsIn(gfx, i)
    <2>1. CASE i = -1
        BY <1>2, <1>5, <2>1, Zenon DEF Stores, PutsIn
    <2>2. CASE \E k \in 1 .. n : i \in 6 * k + 6 .. 6 * k + 8
        <3>1. PICK k \in 1 .. n : i \in 6 * k + 6 .. 6 * k + 8
            BY <2>2
        <3>2. i \in 6 * (k + 1) .. 6 * (k + 1) + 3
            BY <1>1, <3>1
        <3>3. PutsIn(one(k), i)
            BY <1>3, <3>2, Zenon DEF CopiesTo, PutsIn
        <3> QED
            BY <1>5, <3>3, Zenon
    <2>3. CASE i \in 6 * n + 12 .. 6 * n + 13
        <3>1. i \in 6 * (n + 2) .. 6 * (n + 2) + 3
            BY <1>1, <2>3
        <3>2. PutsIn(c, i)
            BY <1>4, <3>1, Zenon DEF CopiesTo, PutsIn
        <3> QED
            BY <1>5, <3>2, Zenon
    <2>4. CASE (i = 2 /\ v = w.look[1]) \/ (i = 8 /\ v = w.look[2])
        BY <2>4, Zenon DEF WantedAt
    <2>5. \A k \in 1 .. n : i \in 6 * k + 6 .. 6 * k + 7 \/ i = 6 * k + 8
                             => i \in 6 * k + 6 .. 6 * k + 8
        BY <1>1
    <2> QED
        BY <1>6, <1>7, <2>1, <2>2, <2>3, <2>4, <2>5, Zenon DEF WantedAt
<1>8. ASSUME NEW gfx, NEW i, NEW u, NEW v,
             Among(gfx, packets), Puts(gfx, i, u), WantedAt(w, i, v)
      PROVE  u = v
    <2>1. CASE gfx = a
        <3>1. i = -1 /\ u = 24 * n
            BY <1>2, <1>8, <2>1, Zenon DEF Stores
        <3>2. v = 24 * n
            <4>1. SlotTells(w, n, i, v)
                BY <1>1, <1>6, <1>8, WantedInSlot, Zenon
            <4> QED
                BY <3>1, <4>1, Zenon DEF SlotTells
        <3> QED
            BY <3>1, <3>2
    <2>2. CASE \E k \in 1 .. n : gfx = one(k)
        <3>1. PICK k \in 1 .. n : gfx = one(k)
            BY <2>2
        <3> DEFINE adrs == Lighting!L(s.at, k - 1)
        <3>2. i \in 6 * (k + 1) .. 6 * (k + 1) + 3
              /\ u = Lighting!WordAt(adrs + 4 * (i - 6 * (k + 1)))
            BY <1>3, <1>8, <3>1, Zenon DEF CopiesTo
        <3>3. /\ Lighting!WordAt(adrs) = w.lights[k].col
              /\ Lighting!WordAt(adrs + 4) = w.lights[k].col
              /\ Lighting!WordAt(adrs + 8) = w.lights[k].dir
            BY LightWords, Zenon DEF n
        <3>4. adrs \in Int
            <4>1. adrs = s.at + 8 + (k - 1) * 16
                BY Zenon DEF Lighting!L, Lighting!SizeofAmbient, Lighting!SizeofLight
            <4> QED
                BY <1>1, <4>1, SMT DEF IsInt32
        <3> HIDE DEF adrs
        <3>5. i \in 6 * k + 6 .. 6 * k + 9
            BY <1>1, <3>2
        <3>6. \/ i \in 6 * k + 6 .. 6 * k + 7 /\ v = w.lights[k].col
              \/ i = 6 * k + 8 /\ v = w.lights[k].dir
            <4>1. SlotTells(w, n, i, v)
                BY <1>1, <1>6, <1>8, WantedInSlot, Zenon
            <4> QED
                BY <3>5, <4>1, Zenon DEF SlotTells
        <3>7. CASE i = 6 * k + 6 /\ v = w.lights[k].col
            <4>1. adrs + 4 * (i - 6 * (k + 1)) = adrs
                BY <1>1, <3>4, <3>7
            <4> QED
                BY <3>2, <3>3, <3>7, <4>1, Zenon
        <3>8. CASE i = 6 * k + 7 /\ v = w.lights[k].col
            <4>1. adrs + 4 * (i - 6 * (k + 1)) = adrs + 4
                BY <1>1, <3>4, <3>8
            <4> QED
                BY <3>2, <3>3, <3>8, <4>1, Zenon
        <3>9. CASE i = 6 * k + 8 /\ v = w.lights[k].dir
            <4>1. adrs + 4 * (i - 6 * (k + 1)) = adrs + 8
                BY <1>1, <3>4, <3>9
            <4> QED
                BY <3>2, <3>3, <3>9, <4>1, Zenon
        <3>10. i \in 6 * k + 6 .. 6 * k + 7 => i = 6 * k + 6 \/ i = 6 * k + 7
            BY <1>1
        <3> QED
            BY <3>6, <3>7, <3>8, <3>9, <3>10, Zenon
    <2>3. CASE gfx = c
        <3>1. i \in 6 * (n + 2) .. 6 * (n + 2) + 3
              /\ u = Lighting!WordAt(s.at + 4 * (i - 6 * (n + 2)))
            BY <1>4, <1>8, <2>3, Zenon DEF CopiesTo
        <3>2. Lighting!WordAt(s.at) = s.ambient /\ Lighting!WordAt(s.at + 4) = s.ambient
            BY LightWords, Zenon
        <3>3. i \in 6 * n + 12 .. 6 * n + 15 /\ s.at \in Int
            BY <1>1, <3>1, SMT DEF IsInt32
        <3>4. i \in 6 * n + 12 .. 6 * n + 13 /\ v = w.ambient
            <4>1. SlotTells(w, n, i, v)
                BY <1>1, <1>6, <1>8, WantedInSlot, Zenon
            <4> QED
                BY <3>3, <4>1, Zenon DEF SlotTells
        <3>5. s.at + 4 * (i - 6 * (n + 2)) = s.at \/ s.at + 4 * (i - 6 * (n + 2)) = s.at + 4
            BY <1>1, <3>3, <3>4
        <3> QED
            BY <3>1, <3>2, <3>4, <3>5, Zenon
    <2> QED
        BY <1>5, <1>8, <2>1, <2>2, <2>3, Zenon
<1> QED
    BY <1>7, <1>8, Zenon DEF Renew

\* The two words a light's colour is in.
LEMMA ColorWords ==
    ASSUME NEW n \in 1 .. 8, NEW j \in 6 * n + 6 .. 6 * n + 7
    PROVE  j = 6 * n + 6 \/ j = 6 * n + 7
OBVIOUS

\* Another colour for a light, or for the ambient light.
LEMMA ColorRenews ==
    ASSUME NEW old, NEW w, NEW m \in 1 .. 7, Len(old.lights) = m, Len(w.lights) = m,
           NEW n \in 1 .. m + 1, NEW c, IsInt32(c), w.look = old.look,
           \A k \in 1 .. m : w.lights[k].dir = old.lights[k].dir,
           \A k \in 1 .. m : k # n => w.lights[k].col = old.lights[k].col,
           n <= m => w.lights[n].col = c /\ w.ambient = old.ambient,
           n > m => w.ambient = c
    PROVE  Renew(Lighting!gSPLightColor(n, c), old, w)
<1> DEFINE packets == Lighting!gSPLightColor(n, c)
<1>1. n \in 1 .. 8
    OBVIOUS
<1>2. PICK a, b : /\ packets = <<a, b>>
                  /\ Stores(a, 6 * n + 6, c) /\ Stores(b, 6 * n + 7, c)
    BY <1>1, ColorStores, Zenon
<1> HIDE DEF packets
<1>3. \A gfx : Among(gfx, packets) <=> gfx = a \/ gfx = b
    <2>1. Len(packets) = 2 /\ packets[1] = a /\ packets[2] = b
        BY <1>2
    <2> QED
        BY <2>1 DEF Among
<1>4. ASSUME NEW i, NEW v, WantedAt(w, i, v)
      PROVE  WantedAt(old, i, v) \/ \E gfx : Among(gfx, packets) /\ PutsIn(gfx, i)
    <2>1. CASE i = 6 * n + 6
        BY <1>2, <1>3, <2>1, Zenon DEF Stores, PutsIn
    <2>2. CASE i = 6 * n + 7
        BY <1>2, <1>3, <2>2, Zenon DEF Stores, PutsIn
    <2>3. CASE i # 6 * n + 6 /\ i # 6 * n + 7
        <3>1. \A k \in 1 .. m : i \in 6 * k + 6 .. 6 * k + 7 => k # n
            <4>1. \A j \in 6 * n + 6 .. 6 * n + 7 : j = 6 * n + 6 \/ j = 6 * n + 7
                BY <1>1, ColorWords, Zenon
            <4> QED
                BY <2>3, <4>1, Zenon
        <3>2. i \in 6 * m + 12 .. 6 * m + 13 => w.ambient = old.ambient
            <4>1. n = m + 1 => i \notin 6 * m + 12 .. 6 * m + 13
                BY <2>3
            <4>2. n = m + 1 \/ n <= m
                OBVIOUS
            <4> QED
                BY <4>1, <4>2, Zenon
        <3>3. WantedAt(old, i, v)
            BY <1>4, <3>1, <3>2, Zenon DEF WantedAt
        <3> QED
            BY <3>3, Zenon
    <2> QED
        BY <2>1, <2>2, <2>3, Zenon
<1>5. ASSUME NEW gfx, NEW i, NEW u, NEW v,
             Among(gfx, packets), Puts(gfx, i, u), WantedAt(w, i, v)
      PROVE  u = v
    <2>1. u = c /\ (i = 6 * n + 6 \/ i = 6 * n + 7)
        BY <1>2, <1>3, <1>5, Zenon DEF Stores
    <2>2. SlotTells(w, m, i, v)
        BY <1>5, WantedInSlot, Zenon
    <2>3. CASE n <= m
        <3>1. n \in 1 .. m /\ i \in 6 * n + 6 .. 6 * n + 9 /\ i # 6 * n + 8
            BY <2>1, <2>3
        <3>2. v = w.lights[n].col
            BY <2>2, <3>1, Zenon DEF SlotTells
        <3> QED
            BY <2>1, <2>3, <3>2, Zenon
    <2>4. CASE n > m
        <3>1. i \in 6 * m + 12 .. 6 * m + 15
            BY <2>1, <2>4
        <3>2. v = w.ambient
            BY <2>2, <3>1, Zenon DEF SlotTells
        <3> QED
            BY <2>1, <2>4, <3>2, Zenon
    <2>5. n <= m \/ n > m
        OBVIOUS
    <2> QED
        BY <2>3, <2>4, <2>5, Zenon
<1>6. Renew(packets, old, w)
    BY <1>4, <1>5, Zenon DEF Renew
<1> QED
    BY <1>6, Zenon DEF packets

\* Look-at vectors.
LEMMA LookAtRenews ==
    ASSUME NEW l \in LookAts, NEW old, NEW w, NEW m \in 1 .. 7, Len(w.lights) = m,
           w.lights = old.lights, w.ambient = old.ambient,
           w.look[1] = l.right, w.look[2] = l.up
    PROVE  Renew(Lighting!gSPLookAt(l.at), old, w)
<1> DEFINE packets == Lighting!gSPLookAt(l.at)
           a == Lighting!gSPLookAtX(l.at)
           b == Lighting!gSPLookAtY(l.at + 16)
<1>1. IsInt32(l.at) /\ IsInt32(l.at + 16)
    BY LightAssumption, Zenon
<1>2. CopiesTo(a, l.at, 0) /\ CopiesTo(b, l.at + 16, 1)
    BY <1>1, LookAtCopies, Zenon
<1>3. packets = <<a, b>>
    BY Zenon DEF Lighting!gSPLookAt, Lighting!SizeofLight
<1> HIDE DEF packets, a, b
<1>4. \A gfx : Among(gfx, packets) <=> gfx = a \/ gfx = b
    <2>1. Len(packets) = 2 /\ packets[1] = a /\ packets[2] = b
        BY <1>3
    <2> QED
        BY <2>1 DEF Among
<1>5. /\ \A i, v : Puts(a, i, v) <=> i \in 0 .. 3 /\ v = Lighting!WordAt(l.at + 4 * i)
      /\ \A i, v : Puts(b, i, v) <=> i \in 6 .. 9
                                     /\ v = Lighting!WordAt(l.at + 16 + 4 * (i - 6))
    <2>1. ASSUME NEW i \in Int
          PROVE  i - 6 * 0 = i /\ 6 * 1 = 6 /\ 6 * 0 = 0
        OBVIOUS
    <2>2. \A i, v : i \in 6 * 0 .. 6 * 0 + 3 /\ v = Lighting!WordAt(l.at + 4 * (i - 6 * 0))
                    <=> i \in 0 .. 3 /\ v = Lighting!WordAt(l.at + 4 * i)
        BY <2>1
    <2>3. \A i, v : i \in 6 * 1 .. 6 * 1 + 3
                    /\ v = Lighting!WordAt(l.at + 16 + 4 * (i - 6 * 1))
                    <=> i \in 6 .. 9 /\ v = Lighting!WordAt(l.at + 16 + 4 * (i - 6))
        OBVIOUS
    <2> QED
        BY <1>2, <2>2, <2>3, ZenonT(60) DEF CopiesTo
<1>6. ASSUME NEW i, NEW v, WantedAt(w, i, v)
      PROVE  WantedAt(old, i, v) \/ \E gfx : Among(gfx, packets) /\ PutsIn(gfx, i)
    <2>1. CASE i = 2
        <3>1. 2 \in 0 .. 3
            OBVIOUS
        <3> QED
            BY <1>4, <1>5, <2>1, <3>1, Zenon DEF PutsIn
    <2>2. CASE i = 8
        <3>1. 8 \in 6 .. 9
            OBVIOUS
        <3> QED
            BY <1>4, <1>5, <2>2, <3>1, ZenonT(60) DEF PutsIn
    <2>3. CASE i # 2 /\ i # 8
        BY <1>6, <2>3, Zenon DEF WantedAt
    <2> QED
        BY <2>1, <2>2, <2>3, Zenon
<1>7. ASSUME NEW gfx, NEW i, NEW u, NEW v,
             Among(gfx, packets), Puts(gfx, i, u), WantedAt(w, i, v)
      PROVE  u = v
    <2>1. SlotTells(w, m, i, v)
        BY <1>7, WantedInSlot, Zenon
    <2>2. Lighting!WordAt(l.at + 8) = l.right /\ Lighting!WordAt(l.at + 16 + 8) = l.up
        BY LookAtWords, Zenon
    <2>3. CASE gfx = a
        <3>1. i \in 0 .. 3 /\ u = Lighting!WordAt(l.at + 4 * i)
            BY <1>5, <1>7, <2>3, Zenon
        <3>2. i = 2 /\ v = w.look[1]
            BY <2>1, <3>1, Zenon DEF SlotTells
        <3>3. 4 * 2 = 8
            OBVIOUS
        <3> QED
            BY <2>2, <3>1, <3>2, <3>3, Zenon
    <2>4. CASE gfx = b
        <3>1. i \in 6 .. 9 /\ u = Lighting!WordAt(l.at + 16 + 4 * (i - 6))
            BY <1>5, <1>7, <2>4, Zenon
        <3>2. i = 8 /\ v = w.look[2]
            BY <2>1, <3>1, Zenon DEF SlotTells
        <3>3. 4 * (8 - 6) = 8
            OBVIOUS
        <3> QED
            BY <2>2, <3>1, <3>2, <3>3, Zenon
    <2> QED
        BY <1>4, <1>7, <2>3, <2>4, Zenon
<1>8. Renew(packets, old, w)
    BY <1>6, <1>7, Zenon DEF Renew
<1> QED
    BY <1>8, Zenon DEF packets

-----------------------------------------------------------------------------
(* The RSP's memory while packets about lights run.                        *)

\* What the RSP holds in place i, if its words are d and its number of lights n.
Held(d, n, i) == IF i = -1 THEN n ELSE d[i]
IsDmem(d) == d = [i \in 0 .. 59 |-> d[i]]

\* A packet puts what it puts, and leaves the other places alone.
MovesAs(gfx, d, n, d1, n1) ==
    \A i \in -1 .. 59 : /\ \A v : Puts(gfx, i, v) => Held(d1, n1, i) = v
                        /\ ~ PutsIn(gfx, i) => Held(d1, n1, i) = Held(d, n, i)

\* A packet that copies a slot.
LEMMA MoveMemDoes ==
    ASSUME NEW gfx, Lighting!MoveMem(gfx), IsDmem(dmem)
    PROVE  IsDmem(dmem') /\ MovesAs(gfx, dmem, numl, dmem', numl')
<1> DEFINE first == PartIs(gfx.w0, 8, 8) * 2
           n == (PartIs(gfx.w0, 19, 5) + 1) * 2
           copied(i) == Lighting!WordAt(AsInt(gfx.w1) + 4 * (i - first))
<1>1. Opcode(gfx) = 220
    <2>1. Lighting!G.MOVEMEM = 220
        BY DEF Lighting!G
    <2>2. Lighting!Opcode(gfx) = Lighting!G.MOVEMEM
        BY Zenon DEF Lighting!MoveMem
    <2> QED
        BY <2>1, <2>2, LightingWords
<1>2. /\ numl' = numl
      /\ dmem' = [i \in DOMAIN dmem |-> IF i \in first .. (first + n - 1)
                                        THEN copied(i) ELSE dmem[i]]
    BY LightingReads, Zenon DEF Lighting!MoveMem
<1>3. \A i, v : Puts(gfx, i, v) <=>
                i # -1 /\ i \in first .. (first + n - 1) /\ v = copied(i)
    BY <1>1 DEF Puts
<1> HIDE DEF first, n, copied
<1>4. DOMAIN dmem = 0 .. 59
    BY DEF IsDmem
<1>5. /\ IsDmem(dmem')
      /\ \A i \in 0 .. 59 : dmem'[i] = IF i \in first .. (first + n - 1)
                                       THEN copied(i) ELSE dmem[i]
    BY <1>2, <1>4 DEF IsDmem
<1>6. ASSUME NEW i \in -1 .. 59
      PROVE  /\ \A v : Puts(gfx, i, v) => Held(dmem', numl', i) = v
             /\ ~ PutsIn(gfx, i) => Held(dmem', numl', i) = Held(dmem, numl, i)
    <2>1. CASE i = -1
        <3>1. Held(dmem', numl', i) = Held(dmem, numl, i) /\ \A v : ~ Puts(gfx, i, v)
            BY <1>2, <1>3, <2>1, Zenon DEF Held
        <3> QED
            BY <3>1, Zenon
    <2>2. CASE i # -1
        <3>1. i \in 0 .. 59
            BY <2>2
        <3>2. /\ Held(dmem', numl', i) = dmem'[i] /\ Held(dmem, numl, i) = dmem[i]
              /\ dmem'[i] = IF i \in first .. (first + n - 1) THEN copied(i) ELSE dmem[i]
            BY <1>5, <2>2, <3>1, Zenon DEF Held
        <3>3. CASE i \in first .. (first + n - 1)
            BY <1>3, <2>2, <3>2, <3>3, Zenon DEF PutsIn
        <3>4. CASE i \notin first .. (first + n - 1)
            BY <1>3, <3>2, <3>4, Zenon
        <3> QED
            BY <3>3, <3>4, Zenon
    <2> QED
        BY <2>1, <2>2, Zenon
<1> QED
    BY <1>5, <1>6, Zenon DEF MovesAs

\* A packet that stores a word.
LEMMA MoveWordDoes ==
    ASSUME NEW gfx, Lighting!MoveWord(gfx), IsDmem(dmem)
    PROVE  IsDmem(dmem') /\ MovesAs(gfx, dmem, numl, dmem', numl')
<1> DEFINE place == 12 + PartIs(gfx.w0, 0, 16) \div 4
           data == AsInt(gfx.w1)
<1>1. Opcode(gfx) = 219
    <2>1. Lighting!G.MOVEWORD = 219
        BY DEF Lighting!G
    <2>2. Lighting!Opcode(gfx) = Lighting!G.MOVEWORD
        BY Zenon DEF Lighting!MoveWord
    <2> QED
        BY <2>1, <2>2, LightingWords
<1>2. \/ PartIs(gfx.w0, 16, 8) = 2 /\ numl' = data /\ dmem' = dmem
      \/ /\ PartIs(gfx.w0, 16, 8) = 10 /\ numl' = numl
         /\ dmem' = [dmem EXCEPT ![place] = data]
    <2>1. Lighting!G_MW.NUMLIGHT = 2 /\ Lighting!G_MW.LIGHTCOL = 10 /\ Lighting!LightBase = 12
        BY DEF Lighting!G_MW, Lighting!LightBase
    <2>2. \/ /\ Lighting!Part(gfx.w0, 16, 8) = Lighting!G_MW.NUMLIGHT
             /\ numl' = Lighting!Int32(gfx.w1) /\ dmem' = dmem
          \/ /\ Lighting!Part(gfx.w0, 16, 8) = Lighting!G_MW.LIGHTCOL /\ numl' = numl
             /\ dmem' = [dmem EXCEPT ![Lighting!LightBase + Lighting!Part(gfx.w0, 0, 16) \div 4]
                                       = Lighting!Int32(gfx.w1)]
        BY Zenon DEF Lighting!MoveWord
    <2>3. /\ Lighting!Part(gfx.w0, 16, 8) = PartIs(gfx.w0, 16, 8)
          /\ Lighting!Part(gfx.w0, 0, 16) = PartIs(gfx.w0, 0, 16)
          /\ Lighting!Int32(gfx.w1) = data
        BY LightingReads, Zenon
    <2> QED
        BY <2>1, <2>2, <2>3
<1>3. /\ PartIs(gfx.w0, 16, 8) = 2 => \A i, v : Puts(gfx, i, v) <=> i = -1 /\ v = data
      /\ PartIs(gfx.w0, 16, 8) = 10 => \A i, v : Puts(gfx, i, v) <=>
                                            i # -1 /\ i = place /\ v = data
    BY <1>1 DEF Puts
<1> HIDE DEF place, data
<1>4. IsDmem(dmem')
    BY <1>2 DEF IsDmem
<1>5. ASSUME NEW i \in -1 .. 59
      PROVE  /\ \A v : Puts(gfx, i, v) => Held(dmem', numl', i) = v
             /\ ~ PutsIn(gfx, i) => Held(dmem', numl', i) = Held(dmem, numl, i)
    <2>1. i = -1 \/ (i # -1 /\ i \in 0 .. 59)
        OBVIOUS
    <2>2. /\ i = -1 => Held(dmem, numl, i) = numl /\ Held(dmem', numl', i) = numl'
          /\ i # -1 => Held(dmem, numl, i) = dmem[i] /\ Held(dmem', numl', i) = dmem'[i]
        BY DEF Held
    <2>3. CASE PartIs(gfx.w0, 16, 8) = 2
        <3>1. numl' = data /\ dmem' = dmem
            BY <1>2, <2>3
        <3>2. CASE i = -1
            <4>1. Held(dmem', numl', i) = data
                BY <2>2, <3>1, <3>2
            <4>2. Puts(gfx, i, data) /\ \A v : Puts(gfx, i, v) => v = data
                BY <1>3, <2>3, <3>2, Zenon
            <4> QED
                BY <4>1, <4>2, Zenon DEF PutsIn
        <3>3. CASE i # -1
            <4>1. Held(dmem', numl', i) = Held(dmem, numl, i)
                BY <2>2, <3>1, <3>3, Zenon
            <4> QED
                BY <1>3, <2>3, <3>3, <4>1, Zenon
        <3> QED
            BY <3>2, <3>3, Zenon
    <2>4. CASE PartIs(gfx.w0, 16, 8) = 10
        <3>1. numl' = numl /\ dmem' = [dmem EXCEPT ![place] = data]
            BY <1>2, <2>4
        <3>2. \A j \in 0 .. 59 : dmem'[j] = IF j = place THEN data ELSE dmem[j]
            BY <3>1 DEF IsDmem
        <3>3. CASE i = -1
            <4>1. Held(dmem', numl', i) = Held(dmem, numl, i)
                BY <2>2, <3>1, <3>3, Zenon
            <4> QED
                BY <1>3, <2>4, <3>3, <4>1, Zenon
        <3>4. CASE i # -1 /\ i \in 0 .. 59
            <4>1. Held(dmem', numl', i) = IF i = place THEN data ELSE Held(dmem, numl, i)
                BY <2>2, <3>2, <3>4, Zenon
            <4>2. CASE i = place
                <5>1. Held(dmem', numl', i) = data
                    BY <4>1, <4>2
                <5>2. Puts(gfx, i, data) /\ \A v : Puts(gfx, i, v) => v = data
                    BY <1>3, <2>4, <3>4, <4>2, Zenon
                <5> QED
                    BY <5>1, <5>2, Zenon DEF PutsIn
            <4>3. CASE i # place
                BY <1>3, <2>4, <3>4, <4>1, <4>3, Zenon
            <4> QED
                BY <4>2, <4>3, Zenon
        <3> QED
            BY <2>1, <3>3, <3>4, Zenon
    <2> QED
        BY <1>2, <2>3, <2>4, Zenon
<1> QED
    BY <1>4, <1>5, Zenon DEF MovesAs

\* A scene is as w says when packets have run: what is wanted is there or will be put
\* there, and nothing else will.
Settles(w, d, n, packets) ==
    /\ \A i, v : WantedAt(w, i, v) =>
         \/ Held(d, n, i) = v
         \/ \E gfx : Among(gfx, packets) /\ PutsIn(gfx, i)
    /\ \A gfx, i, u, v : Among(gfx, packets) /\ Puts(gfx, i, u) /\ WantedAt(w, i, v) => u = v

\* A call settles what it renews.
LEMMA RenewSettles ==
    ASSUME NEW old, NEW w, NEW d, NEW n, NEW packets,
           Settles(old, d, n, <<>>), Renew(packets, old, w)
    PROVE  Settles(w, d, n, packets)
<1>1. \A gfx : ~ Among(gfx, <<>>)
    <2>1. 1 .. Len(<<>>) = {}
        OBVIOUS
    <2> QED
        BY <2>1, Zenon DEF Among
<1>2. \A i, v : WantedAt(old, i, v) => Held(d, n, i) = v
    BY <1>1, Zenon DEF Settles
<1> QED
    BY <1>2, Zenon DEF Renew, Settles

\* A packet that runs settles it further.
LEMMA RunSettles ==
    ASSUME NEW w, Len(w.lights) \in 1 .. 7, NEW d, NEW n, NEW d1, NEW n1,
           NEW S, NEW packets \in Seq(S), packets # <<>>,
           Settles(w, d, n, packets), MovesAs(Head(packets), d, n, d1, n1)
    PROVE  Settles(w, d1, n1, Tail(packets))
<1> DEFINE head == Head(packets)
           rest == Tail(packets)
<1>1. \A gfx : Among(gfx, packets) <=> gfx = head \/ Among(gfx, rest)
    <2>1. /\ Len(packets) \in Nat \ {0} /\ Len(rest) = Len(packets) - 1
          /\ head = packets[1]
          /\ \A k \in 1 .. Len(packets) - 1 : rest[k] = packets[k + 1]
        OBVIOUS
    <2> HIDE DEF head, rest
    <2>2. ASSUME NEW gfx, Among(gfx, packets) PROVE gfx = head \/ Among(gfx, rest)
        <3>1. PICK k \in 1 .. Len(packets) : gfx = packets[k]
            BY <2>2, Zenon DEF Among
        <3>2. CASE k = 1
            BY <2>1, <3>1, <3>2, Zenon
        <3>3. CASE k # 1
            <4>1. k - 1 \in 1 .. Len(rest) /\ (k - 1) + 1 = k
                BY <2>1, <3>3
            <4>2. rest[k - 1] = gfx
                BY <2>1, <3>1, <4>1
            <4> QED
                BY <4>1, <4>2, Zenon DEF Among
        <3> QED
            BY <3>2, <3>3
    <2>3. Among(head, packets)
        <3>1. 1 \in 1 .. Len(packets)
            BY <2>1
        <3> QED
            BY <2>1, <3>1, Zenon DEF Among
    <2>4. ASSUME NEW gfx, Among(gfx, rest) PROVE Among(gfx, packets)
        <3>1. PICK k \in 1 .. Len(rest) : gfx = rest[k]
            BY <2>4, Zenon DEF Among
        <3>2. k + 1 \in 1 .. Len(packets) /\ k \in 1 .. Len(packets) - 1
            BY <2>1
        <3> QED
            BY <2>1, <3>1, <3>2, Zenon DEF Among
    <2> QED
        BY <2>2, <2>3, <2>4, Zenon
<1> HIDE DEF head, rest
<1>2. MovesAs(head, d, n, d1, n1)
    BY Zenon DEF head
<1>3. ASSUME NEW i, NEW v, WantedAt(w, i, v)
      PROVE  \/ Held(d1, n1, i) = v
             \/ \E gfx : Among(gfx, rest) /\ PutsIn(gfx, i)
    <2>1. i \in -1 .. 59
        <3>1. SlotTells(w, Len(w.lights), i, v)
            BY <1>3, WantedInSlot, Zenon
        <3> QED
            BY <3>1, Zenon DEF SlotTells
    <2>2. CASE PutsIn(head, i)
        <3>1. PICK u : Puts(head, i, u)
            BY <2>2, Zenon DEF PutsIn
        <3>2. u = v
            BY <1>1, <1>3, <3>1, Zenon DEF Settles
        <3> QED
            BY <1>2, <2>1, <3>1, <3>2, Zenon DEF MovesAs
    <2>3. CASE ~ PutsIn(head, i)
        <3>1. Held(d1, n1, i) = Held(d, n, i)
            BY <1>2, <2>1, <2>3, Zenon DEF MovesAs
        <3>2. CASE Held(d, n, i) = v
            BY <3>1, <3>2, Zenon
        <3>3. CASE \E gfx : Among(gfx, packets) /\ PutsIn(gfx, i)
            BY <1>1, <2>3, <3>3, Zenon
        <3> QED
            BY <1>3, <3>2, <3>3, Zenon DEF Settles
    <2> QED
        BY <2>2, <2>3, Zenon
<1>4. \A gfx, i, u, v : Among(gfx, rest) /\ Puts(gfx, i, u) /\ WantedAt(w, i, v) => u = v
    BY <1>1, Zenon DEF Settles
<1>5. Settles(w, d1, n1, rest)
    BY <1>3, <1>4, Zenon DEF Settles
<1> QED
    BY <1>5, Zenon DEF rest

-----------------------------------------------------------------------------
(* The lights the game wants are there, or packets are left that bring them. *)

Left == IF part = "lights" THEN list ELSE <<>>
AreLights(w) ==
    w.lights \in LightSeqs /\ Len(w.lights) \in 1 .. 7 /\ w.look = <<w.look[1], w.look[2]>>

\* The inductive invariant of the lights.
LightInv ==
    /\ AreLights(wanted)
    /\ IsDmem(dmem)
    /\ Settles(wanted, dmem, numl, Left)

\* The first scene is there.
LEMMA InitLightInv == AllInit => LightInv
<1> SUFFICES ASSUME AllInit PROVE LightInv
    OBVIOUS
<1>1. Transform!Init
    BY Zenon DEF AllInit
<1>2. /\ list = <<>> /\ numl = 24 /\ dmem = [i \in 0 .. 59 |-> 0]
      /\ wanted = [lights |-> <<[col |-> 0, dir |-> 0]>>, ambient |-> 0, look |-> <<0, 0>>,
                   matrix |-> Transform!Nowhere]
    <2>1. /\ Transform!NUML(Transform!NUMLIGHTS_0) = 24
          /\ Transform!LightBase + 8 * Transform!SlotWords - 1 = 59
          /\ Transform!Black = [col |-> 0, dir |-> 0]
        BY DEF Transform!NUML, Transform!NUMLIGHTS_0, Transform!LightBase,
            Transform!SlotWords, Transform!Black
    <2> QED
        BY <1>1, <2>1, Zenon DEF Transform!Init
<1>3. /\ wanted.lights = <<[col |-> 0, dir |-> 0]>> /\ wanted.ambient = 0
      /\ wanted.look = <<0, 0>>
    BY <1>2
<1>4. /\ wanted.lights \in LightSeqs /\ Len(wanted.lights) = 1
      /\ wanted.lights[1].col = 0 /\ wanted.lights[1].dir = 0
      /\ wanted.look[1] = 0 /\ wanted.look[2] = 0
      /\ wanted.look = <<wanted.look[1], wanted.look[2]>>
    BY <1>3 DEF LightSeqs
<1>5. AreLights(wanted)
    BY <1>4 DEF AreLights
<1>6. IsDmem(dmem)
    BY <1>2 DEF IsDmem
<1>7. ASSUME NEW i, NEW v, WantedAt(wanted, i, v) PROVE Held(dmem, numl, i) = v
    <2>1. \/ i = -1 /\ v = 24
          \/ i \in 0 .. 59 /\ v = 0
        <3>1. /\ Len(wanted.lights) = 1 /\ wanted.look[1] = 0 /\ wanted.look[2] = 0
              /\ wanted.lights[1].col = 0 /\ wanted.lights[1].dir = 0 /\ wanted.ambient = 0
            BY <1>3, <1>4, Zenon
        <3>2. \A k \in 1 .. Len(wanted.lights) : k = 1
            BY <3>1
        <3>3. \/ i = -1 /\ v = 24 * 1
              \/ i = 2 /\ v = 0
              \/ i = 8 /\ v = 0
              \/ i \in 6 * 1 + 6 .. 6 * 1 + 7 /\ v = 0
              \/ i = 6 * 1 + 8 /\ v = 0
              \/ i \in 6 * 1 + 12 .. 6 * 1 + 13 /\ v = 0
            BY <1>7, <3>1, <3>2, Zenon DEF WantedAt
        <3> QED
            BY <3>3
    <2>2. CASE i = -1 /\ v = 24
        BY <1>2, <2>2, Zenon DEF Held
    <2>3. CASE i \in 0 .. 59 /\ v = 0
        <3>1. i # -1
            BY <2>3
        <3>2. dmem[i] = 0
            BY <1>2, <2>3, Zenon
        <3> QED
            BY <2>3, <3>1, <3>2, Zenon DEF Held
    <2> QED
        BY <2>1, <2>2, <2>3
<1>8. Left = <<>>
    BY <1>2, Zenon DEF Left
<1>9. \A gfx : ~ Among(gfx, <<>>)
    <2>1. 1 .. Len(<<>>) = {}
        OBVIOUS
    <2> QED
        BY <2>1, Zenon DEF Among
<1>10. Settles(wanted, dmem, numl, Left)
    BY <1>7, <1>8, <1>9, Zenon DEF Settles
<1> QED
    BY <1>5, <1>6, <1>10, Zenon DEF LightInv

\* A call of the game about lights.
LEMMA LightsAreSent ==
    ASSUME LightInv, part = "lights", part' = part, NEW packets, NEW meant,
           Lighting!Send(packets, meant), AreLights(meant), Renew(packets, wanted, meant)
    PROVE  LightInv'
<1>1. /\ list = <<>> /\ list' = packets /\ wanted' = meant /\ dmem' = dmem /\ numl' = numl
    BY Zenon DEF Lighting!Send
<1>2. Left = list /\ Left' = list'
    BY Zenon DEF Left
<1>3. Settles(wanted, dmem, numl, <<>>)
    BY <1>1, <1>2, Zenon DEF LightInv
<1>4. Settles(meant, dmem, numl, packets)
    BY <1>3, RenewSettles, Zenon
<1>5. AreLights(wanted') /\ IsDmem(dmem') /\ Settles(wanted', dmem', numl', Left')
    BY <1>1, <1>2, <1>4, Zenon DEF LightInv
<1> QED
    BY <1>5, Zenon DEF LightInv

\* A set of lights is loaded.
LEMMA SetLightsKeepsLights ==
    ASSUME SceneInv, LightInv, part = "lights", part' = part, Lighting!SetLights
    PROVE  LightInv'
<1>1. PICK s \in LightSets :
        Lighting!Send(IF s.lights = <<>> THEN Lighting!gSPSetLights0(s.at)
                      ELSE Lighting!gSPSetLights(Len(s.lights), s.at),
                      [wanted EXCEPT !.ambient = s.ambient,
                         !.lights = IF s.lights = <<>> THEN <<Lighting!Black>> ELSE s.lights])
    BY Zenon DEF Lighting!SetLights
<1> DEFINE packets == IF s.lights = <<>> THEN Lighting!gSPSetLights0(s.at)
                      ELSE Lighting!gSPSetLights(Len(s.lights), s.at)
           lit == LightsOf(s)
           dimmed == [wanted EXCEPT !.ambient = s.ambient]
           meant == [dimmed EXCEPT !.lights = lit]
<1>2. wanted = [lights |-> wanted.lights, ambient |-> wanted.ambient, look |-> wanted.look,
                matrix |-> wanted.matrix]
    BY Zenon DEF SceneInv
<1>3. Lighting!Send(packets, meant)
    <2>1. (IF s.lights = <<>> THEN <<Lighting!Black>> ELSE s.lights) = lit
        BY Zenon DEF LightsOf
    <2>2. Lighting!Send(packets, [wanted EXCEPT !.ambient = s.ambient, !.lights = lit])
        BY <1>1, <2>1, Zenon
    <2> HIDE DEF lit
    <2>3. [wanted EXCEPT !.ambient = s.ambient, !.lights = lit] = meant
        OBVIOUS
    <2> HIDE DEF meant, dimmed, packets
    <2> QED
        BY <2>2, <2>3, Zenon
<1>4. /\ meant.lights = LightsOf(s) /\ meant.ambient = s.ambient /\ meant.look = wanted.look
    <2> HIDE DEF lit
    <2>1. dimmed = [lights |-> wanted.lights, ambient |-> s.ambient, look |-> wanted.look,
                    matrix |-> wanted.matrix]
        BY <1>2
    <2> HIDE DEF dimmed
    <2>2. meant.lights = lit /\ meant.ambient = s.ambient /\ meant.look = wanted.look
        BY <2>1
    <2> HIDE DEF meant
    <2> QED
        BY <2>2, Zenon DEF lit
<1> HIDE DEF meant, dimmed, lit
<1>5. Renew(packets, wanted, meant)
    BY <1>4, SetLightsRenew, Zenon
<1>6. AreLights(meant)
    BY <1>4, LightSetIs, Zenon DEF AreLights, LightInv
<1> HIDE DEF packets
<1> QED
    BY <1>3, <1>5, <1>6, LightsAreSent, Zenon

\* A light is given another colour.
LEMMA RecolourKeepsLights ==
    ASSUME SceneInv, LightInv, part = "lights", part' = part, Lighting!SetLightColor
    PROVE  LightInv'
<1> DEFINE lights == wanted.lights
           m == Len(lights)
<1>1. PICK n \in 1 .. m + 1, c \in LightColors :
        Lighting!Send(Lighting!gSPLightColor(n, c),
                      IF n > m THEN [wanted EXCEPT !.ambient = c]
                      ELSE [wanted EXCEPT !.lights[n].col = c])
    BY Zenon DEF Lighting!SetLightColor
<1> DEFINE packets == Lighting!gSPLightColor(n, c)
           meant == IF n > m THEN [wanted EXCEPT !.ambient = c]
                    ELSE [wanted EXCEPT !.lights[n].col = c]
           recoloured == [lights EXCEPT ![n].col = c]
<1>2. wanted = [lights |-> wanted.lights, ambient |-> wanted.ambient, look |-> wanted.look,
                matrix |-> wanted.matrix]
    BY Zenon DEF SceneInv
<1>3. lights \in LightSeqs /\ m \in 1 .. 7 /\ wanted.look = <<wanted.look[1], wanted.look[2]>>
    BY Zenon DEF LightInv, AreLights
<1>4. IsInt32(c)
    BY LightAssumption, Zenon
<1>5. n <= m => /\ recoloured \in LightSeqs /\ Len(recoloured) = m
                /\ recoloured[n].col = c
                /\ \A k \in 1 .. m : recoloured[k].dir = lights[k].dir
                /\ \A k \in 1 .. m : k # n => recoloured[k].col = lights[k].col
    <2> HIDE DEF lights, m
    <2> SUFFICES ASSUME n <= m
        PROVE  /\ recoloured \in LightSeqs /\ Len(recoloured) = m
               /\ recoloured[n].col = c
               /\ \A k \in 1 .. m : recoloured[k].dir = lights[k].dir
               /\ \A k \in 1 .. m : k # n => recoloured[k].col = lights[k].col
        OBVIOUS
    <2>1. c \in Int
        BY <1>4, SMT DEF IsInt32
    <2>2. n \in 1 .. m /\ Len(lights) = m
        BY <1>3 DEF m
    <2> DEFINE A == [col : Int, dir : Int]
               e == [lights[n] EXCEPT !.col = c]
    <2>3. lights \in Seq(A)
        BY <1>3, Zenon DEF LightSeqs
    <2>4. lights[n] \in A
        <3> HIDE DEF A
        <3> QED
            BY <1>3, <2>2, <2>3
    <2>5. e \in A /\ e.col = c /\ e.dir = lights[n].dir
        BY <2>1, <2>4
    <2>6. recoloured = [lights EXCEPT ![n] = e]
        OBVIOUS
    <2> HIDE DEF A, e, recoloured
    <2>7. recoloured \in Seq(A) /\ Len(recoloured) = m
        BY <1>3, <2>2, <2>3, <2>5, <2>6
    <2>8. \A k \in 1 .. m : recoloured[k] = IF k = n THEN e ELSE lights[k]
        BY <1>3, <2>2, <2>3, <2>6
    <2>9. recoloured[n] = e
        BY <2>2, <2>8
    <2>10. ASSUME NEW k \in 1 .. m
           PROVE  /\ recoloured[k].dir = lights[k].dir
                  /\ k # n => recoloured[k].col = lights[k].col
        <3>1. CASE k = n
            BY <2>5, <2>9, <3>1, Zenon
        <3>2. CASE k # n
            BY <2>8, <3>2, Zenon
        <3> QED
            BY <3>1, <3>2, Zenon
    <2>11. recoloured \in LightSeqs
        BY <2>7, Zenon DEF LightSeqs, A
    <2>12. recoloured[n].col = c
        BY <2>5, <2>9, Zenon
    <2> QED
        BY <2>7, <2>10, <2>11, <2>12, Zenon
<1>6. /\ n > m => meant.lights = lights /\ meant.ambient = c /\ meant.look = wanted.look
      /\ n <= m => meant.lights = recoloured /\ meant.ambient = wanted.ambient
                   /\ meant.look = wanted.look
    <2>1. /\ [wanted EXCEPT !.ambient = c] = [lights |-> wanted.lights, ambient |-> c,
                                              look |-> wanted.look, matrix |-> wanted.matrix]
          /\ [wanted EXCEPT !.lights[n].col = c]
               = [lights |-> recoloured, ambient |-> wanted.ambient,
                  look |-> wanted.look, matrix |-> wanted.matrix]
        BY <1>2
    <2> HIDE DEF recoloured, lights
    <2>2. n <= m => ~(n > m)
        BY <1>3
    <2> QED
        BY <2>1, <2>2 DEF lights
<1>7. Lighting!Send(packets, meant)
    BY <1>1, Zenon
<1> HIDE DEF packets, meant, recoloured
<1>8. n > m \/ n <= m
    BY <1>3
<1>9. AreLights(meant)
    BY <1>3, <1>5, <1>6, <1>8, Zenon DEF AreLights
<1>10. Renew(packets, wanted, meant)
    <2>1. /\ Len(wanted.lights) = m /\ Len(meant.lights) = m /\ meant.look = wanted.look
          /\ \A k \in 1 .. m : meant.lights[k].dir = wanted.lights[k].dir
          /\ \A k \in 1 .. m : k # n => meant.lights[k].col = wanted.lights[k].col
          /\ n <= m => meant.lights[n].col = c /\ meant.ambient = wanted.ambient
          /\ n > m => meant.ambient = c
        <3>1. ~(n > m /\ n <= m)
            BY <1>3
        <3> QED
            BY <1>5, <1>6, <1>8, <3>1, Zenon
    <2> HIDE DEF m
    <2> QED
        BY <1>3, <1>4, <2>1, ColorRenews, Zenon DEF packets
<1> QED
    BY <1>7, <1>9, <1>10, LightsAreSent, Zenon

\* The look-at vectors are loaded.
LEMMA LookKeepsLights ==
    ASSUME SceneInv, LightInv, part = "lights", part' = part, Lighting!LookAt
    PROVE  LightInv'
<1>1. PICK l \in LookAts :
        Lighting!Send(Lighting!gSPLookAt(l.at), [wanted EXCEPT !.look = <<l.right, l.up>>])
    BY Zenon DEF Lighting!LookAt
<1> DEFINE packets == Lighting!gSPLookAt(l.at)
           meant == [wanted EXCEPT !.look = <<l.right, l.up>>]
<1>2. wanted = [lights |-> wanted.lights, ambient |-> wanted.ambient, look |-> wanted.look,
                matrix |-> wanted.matrix]
    BY Zenon DEF SceneInv
<1>3. /\ meant.lights = wanted.lights /\ meant.ambient = wanted.ambient
      /\ meant.look = <<l.right, l.up>>
    BY <1>2
<1>4. Lighting!Send(packets, meant)
    BY <1>1, Zenon
<1> HIDE DEF packets, meant
<1>5. meant.look[1] = l.right /\ meant.look[2] = l.up
    BY <1>3
<1>6. AreLights(meant)
    <2>1. meant.look = <<meant.look[1], meant.look[2]>>
        BY <1>3, <1>5, Zenon
    <2> QED
        BY <1>3, <2>1, Zenon DEF AreLights, LightInv
<1>7. Renew(packets, wanted, meant)
    <2>1. Len(meant.lights) \in 1 .. 7
        BY <1>6, Zenon DEF AreLights
    <2> QED
        BY <1>3, <1>5, <2>1, LookAtRenews, Zenon DEF packets
<1> QED
    BY <1>4, <1>6, <1>7, LightsAreSent, Zenon

\* A packet runs.
LEMMA LightsRunKeepsLights ==
    ASSUME SceneInv, LightInv, part = "lights", part' = part, Lighting!Run
    PROVE  LightInv'
<1>1. /\ list # <<>> /\ list' = Tail(list) /\ wanted' = wanted
    BY Zenon DEF Lighting!Run
<1>2. Left = list /\ Left' = list'
    BY Zenon DEF Left
<1>3. /\ Lights(list)
      /\ Lighting!MoveMem(Head(list)) \/ Lighting!MoveWord(Head(list))
    BY LightsRun, Zenon
<1>4. PICK S : list \in Seq(S)
    BY <1>3, Zenon DEF Lights
<1>5. IsDmem(dmem') /\ MovesAs(Head(list), dmem, numl, dmem', numl')
    BY <1>3, MoveMemDoes, MoveWordDoes, Zenon DEF LightInv
<1>6. Settles(wanted, dmem, numl, list) /\ Len(wanted.lights) \in 1 .. 7
    BY <1>2, Zenon DEF LightInv, AreLights
<1>7. Settles(wanted, dmem', numl', Tail(list))
    BY <1>1, <1>4, <1>5, <1>6, RunSettles, Zenon
<1>8. AreLights(wanted') /\ Settles(wanted', dmem', numl', Left')
    BY <1>1, <1>2, <1>7, Zenon DEF LightInv
<1> QED
    BY <1>5, <1>8, Zenon DEF LightInv

\* The words wanted depend on the lights, the ambient light and the look-at vectors.
LEMMA SameIsWanted ==
    ASSUME NEW a, NEW b, a.lights = b.lights, a.ambient = b.ambient, a.look = b.look,
           NEW i, NEW v
    PROVE  WantedAt(a, i, v) <=> WantedAt(b, i, v)
BY Zenon DEF WantedAt

\* A step about something else.
LEMMA OthersKeepLights ==
    ASSUME LightInv, AreLights(wanted'), IsDmem(dmem'), dmem' = dmem, numl' = numl,
           wanted'.lights = wanted.lights, wanted'.ambient = wanted.ambient,
           wanted'.look = wanted.look, Left' = Left
    PROVE  LightInv'
<1>1. \A i, v : WantedAt(wanted', i, v) <=> WantedAt(wanted, i, v)
    BY SameIsWanted, Zenon
<1>2. Settles(wanted, dmem', numl', Left')
    BY Zenon DEF LightInv
<1>3. Settles(wanted', dmem', numl', Left')
    BY <1>1, <1>2, Zenon DEF Settles
<1> QED
    BY <1>3, Zenon DEF LightInv

\* Whatever the list is about.
LEMMA NextLightInv == SceneInv /\ LightInv /\ [AllNext]_allVars => LightInv'
<1>1. ASSUME SceneInv, LightInv, part = "lights", part' = part, Lighting!Next
      PROVE  LightInv'
    <2>1. ~ Lighting!UseMatrix
        BY Zenon DEF Lighting!UseMatrix
    <2>2. ~ Lighting!DropMatrix
        <3>1. wanted.matrix.stack = <<>>
            BY <1>1, Zenon DEF SceneInv
        <3>2. 1 .. Len(wanted.matrix.stack) = {}
            BY <3>1
        <3> QED
            BY <3>2, Zenon DEF Lighting!DropMatrix
    <2> QED
        BY <1>1, <2>1, <2>2, SetLightsKeepsLights, RecolourKeepsLights, LookKeepsLights,
            LightsRunKeepsLights, Zenon DEF Lighting!Next
<1>2. ASSUME SceneInv, LightInv, part = "matrices", part' = part, Transform!Next
      PROVE  LightInv'
    <2>1. ~ Transform!SetLights /\ ~ Transform!SetLightColor /\ ~ Transform!LookAt
        BY Zenon DEF Transform!SetLights, Transform!SetLightColor, Transform!LookAt
    <2>2. KeepsLights
        BY <1>2, <2>1, UseKeepsScene, DropKeepsScene, RunKeepsScene, Zenon DEF Transform!Next
    <2>3. part # "lights"
        BY <1>2
    <2>4. Left = <<>> /\ Left' = <<>>
        BY <1>2, <2>3, Zenon DEF Left
    <2>5. AreLights(wanted') /\ IsDmem(dmem')
        BY <1>2, <2>2, Zenon DEF AreLights, KeepsLights, LightInv
    <2> QED
        BY <1>2, <2>2, <2>4, <2>5, OthersKeepLights, Zenon DEF KeepsLights
<1>3. ASSUME LightInv, part' = part, list' = list, wanted' = wanted, dmem' = dmem, numl' = numl
      PROVE  LightInv'
    BY <1>3, Zenon DEF LightInv, Left
<1>4. ASSUME LightInv, UNCHANGED allVars PROVE LightInv'
    BY <1>3, <1>4, Zenon DEF allVars, scene
<1>5. ASSUME SceneInv, LightInv, AllNext PROVE LightInv'
    <2>1. part' = part
        BY <1>5, Zenon DEF AllNext
    <2>2. CASE WritePackets \/ LoadTextures \/ SetModes
        BY <1>3, <1>5, <2>1, <2>2, Zenon DEF WritePackets, LoadTextures, SetModes, scene
    <2>3. CASE SetScene
        BY <1>1, <1>2, <1>5, <2>1, <2>3, Zenon DEF SetScene
    <2> QED
        BY <1>5, <2>2, <2>3, Zenon DEF AllNext
<1> QED
    BY <1>4, <1>5, Zenon

\* What is wanted in the places of the lights, if nothing is left to run.
LEMMA SettledIsLit ==
    ASSUME LightInv, list = <<>>
    PROVE  /\ Lighting!Lit = wanted.lights
           /\ dmem[Lighting!Slot((numl \div 24) + 1)] = wanted.ambient
           /\ Lighting!Copies = {}
           /\ <<dmem[2], dmem[Lighting!SlotWords + 2]>> = wanted.look
<1> DEFINE lights == wanted.lights
           m == Len(lights)
<1>1. lights \in LightSeqs /\ m \in 1 .. 7 /\ wanted.look = <<wanted.look[1], wanted.look[2]>>
    BY Zenon DEF LightInv, AreLights
<1>2. \A i, v : WantedAt(wanted, i, v) => Held(dmem, numl, i) = v
    <2>1. Left = <<>>
        BY Zenon DEF Left
    <2>2. \A gfx : ~ Among(gfx, <<>>)
        <3>1. 1 .. Len(<<>>) = {}
            OBVIOUS
        <3> QED
            BY <3>1, Zenon DEF Among
    <2> QED
        BY <2>1, <2>2, Zenon DEF LightInv, Settles
<1>3. \A i : i # -1 => Held(dmem, numl, i) = dmem[i]
    BY DEF Held
<1>4. Held(dmem, numl, -1) = numl
    BY DEF Held
<1>5. numl = 24 * m
    <2>1. WantedAt(wanted, -1, 24 * m)
        BY Zenon DEF WantedAt
    <2> QED
        BY <1>2, <1>4, <2>1, Zenon
<1>6. /\ dmem[2] = wanted.look[1] /\ dmem[8] = wanted.look[2]
    <2>1. WantedAt(wanted, 2, wanted.look[1]) /\ WantedAt(wanted, 8, wanted.look[2])
        BY Zenon DEF WantedAt
    <2>2. 2 # -1 /\ 8 # -1
        OBVIOUS
    <2> QED
        BY <1>2, <1>3, <2>1, <2>2, Zenon
<1>7. ASSUME NEW k \in 1 .. m
      PROVE  /\ dmem[6 * k + 6] = lights[k].col /\ dmem[6 * k + 7] = lights[k].col
             /\ dmem[6 * k + 8] = lights[k].dir
    <2>1. /\ 6 * k + 6 \in 6 * k + 6 .. 6 * k + 7 /\ 6 * k + 7 \in 6 * k + 6 .. 6 * k + 7
          /\ 6 * k + 6 # -1 /\ 6 * k + 7 # -1 /\ 6 * k + 8 # -1
        BY <1>1
    <2>2. /\ WantedAt(wanted, 6 * k + 6, lights[k].col)
          /\ WantedAt(wanted, 6 * k + 7, lights[k].col)
          /\ WantedAt(wanted, 6 * k + 8, lights[k].dir)
        BY <1>7, <2>1, Zenon DEF WantedAt
    <2> QED
        BY <1>2, <1>3, <2>1, <2>2, Zenon
<1>8. dmem[6 * m + 12] = wanted.ambient /\ dmem[6 * m + 13] = wanted.ambient
    <2>1. /\ 6 * m + 12 \in 6 * m + 12 .. 6 * m + 13 /\ 6 * m + 13 \in 6 * m + 12 .. 6 * m + 13
          /\ 6 * m + 12 # -1 /\ 6 * m + 13 # -1
        BY <1>1
    <2>2. /\ WantedAt(wanted, 6 * m + 12, wanted.ambient)
          /\ WantedAt(wanted, 6 * m + 13, wanted.ambient)
        BY <2>1, Zenon DEF WantedAt
    <2> QED
        BY <1>2, <1>3, <2>1, <2>2, Zenon
<1> HIDE DEF m, lights
<1>9. numl \div 24 = m
    BY <1>1, <1>5
<1>10. \A k \in 1 .. m + 1 : /\ Lighting!Slot(k) = 6 * k + 6 /\ Lighting!Slot(k) + 1 = 6 * k + 7
                             /\ Lighting!Slot(k) + 2 = 6 * k + 8
    BY <1>1 DEF Lighting!Slot, Lighting!LightBase, Lighting!SlotWords
<1>11. m + 1 \in 1 .. m + 1 /\ 6 * (m + 1) + 6 = 6 * m + 12 /\ 6 * (m + 1) + 7 = 6 * m + 13
       /\ \A k \in 1 .. m : k \in 1 .. m + 1
    BY <1>1
<1>12. Lighting!Lit = lights
    <2>1. Lighting!Lit = [k \in 1 .. m |-> [col |-> dmem[Lighting!Slot(k)],
                                             dir |-> dmem[Lighting!Slot(k) + 2]]]
        BY <1>9, Zenon DEF Lighting!Lit
    <2>2. lights = [k \in 1 .. m |-> lights[k]]
        BY <1>1 DEF LightSeqs, m
    <2>3. ASSUME NEW k \in 1 .. m
          PROVE  [col |-> dmem[Lighting!Slot(k)], dir |-> dmem[Lighting!Slot(k) + 2]] = lights[k]
        <3>1. dmem[Lighting!Slot(k)] = lights[k].col /\ dmem[Lighting!Slot(k) + 2] = lights[k].dir
            BY <1>7, <1>10, <1>11, Zenon
        <3> DEFINE A == [col : Int, dir : Int]
        <3>2. lights[k] \in A
            <4>1. lights \in Seq(A) /\ m = Len(lights)
                BY <1>1, Zenon DEF LightSeqs, m
            <4> HIDE DEF A
            <4> QED
                BY <4>1
        <3>3. lights[k] = [col |-> lights[k].col, dir |-> lights[k].dir]
            BY <3>2
        <3> QED
            BY <3>1, <3>3, Zenon
    <2> QED
        BY <2>1, <2>2, <2>3, Zenon
<1>13. dmem[Lighting!Slot((numl \div 24) + 1)] = wanted.ambient
    BY <1>8, <1>9, <1>10, <1>11, Zenon
<1>14. Lighting!Copies = {}
    <2>1. ASSUME NEW k \in 1 .. m + 1
          PROVE  dmem[Lighting!Slot(k)] = dmem[Lighting!Slot(k) + 1]
        <3>1. k \in 1 .. m \/ k = m + 1
            BY <1>1
        <3>2. CASE k \in 1 .. m
            BY <1>7, <1>10, <3>2, Zenon
        <3>3. CASE k = m + 1
            BY <1>8, <1>10, <1>11, <3>3, Zenon
        <3> QED
            BY <3>1, <3>2, <3>3, Zenon
    <2> QED
        BY <1>9, <2>1, Zenon DEF Lighting!Copies
<1>15. <<dmem[2], dmem[Lighting!SlotWords + 2]>> = wanted.look
    <2>1. Lighting!SlotWords + 2 = 8
        BY DEF Lighting!SlotWords
    <2> QED
        BY <1>1, <1>6, <2>1, Zenon
<1> QED
    BY <1>12, <1>13, <1>14, <1>15, Zenon DEF lights

\* For every choice of structures and colours: when the list has run, the RSP lights
\* with the lights the game set last.
THEOREM LightsAreLit == AllSpec => []LightsAsWanted
<1>1. LightInv => LightsAsWanted
    BY SettledIsLit, Zenon DEF LightsAsWanted, Lighting!LightsAsWanted
<1>2. AllInit => SceneInv /\ LightInv
    BY InitSceneInv, InitLightInv, Zenon
<1>3. SceneInv /\ LightInv /\ [AllNext]_allVars => (SceneInv /\ LightInv)'
    BY NextSceneInv, NextLightInv, Zenon
<1> QED
    BY <1>1, <1>2, <1>3, PTL DEF AllSpec
=============================================================================
