-------------------------------- MODULE Gbi --------------------------------
(***************************************************************************)
(* The display-list commands of include/ultra64/gbi.h, as the wrapper's     *)
(* build compiles it (F3DEX_GBI_2, not _HW_VERSION_1).  A word is the set   *)
(* of its bits that are 1, so that `|' is a union and `&' an intersection;  *)
(* a command is its two words.  A macro that fills a packet (g...) and the  *)
(* one that initialises a static list (gs...) share a definition unless     *)
(* they differ.  Arguments are integers, or words where the caller ORs      *)
(* flags together.                                                          *)
(***************************************************************************)
EXTENDS Integers, Sequences, FiniteSetsExt

Width == 0 .. 31

\* The two's complement bits of an int or an unsigned int.
Bits(v) ==
  LET ones(n) == {b \in 0 .. 30 : (n \div 2^b) % 2 = 1}
  IN  IF v >= 0 THEN ones(v) ELSE Width \ ones(-(v + 1))

Low(word, n) == word \cap (0 .. (n - 1))
Shift(word, s) == {b + s : b \in word}

_SHIFTL(v, s, w) == Shift(Low(Bits(v), w), s)
_SHIFTR(v, s, w) == Low(Shift(Bits(v) \cap (s .. 31), -s), w)

\* A Gwords, and the sequence of commands that a macro stands for.
Gfx(hi, lo) == [w0 |-> hi, w1 |-> lo]

\* The opcodes.
G == [NOOP |-> 0, VTX |-> 1, MODIFYVTX |-> 2, CULLDL |-> 3, BRANCH_Z |-> 4,
      TRI1 |-> 5, TRI2 |-> 6, QUAD |-> 7, DMA_IO |-> 214, TEXTURE |-> 215,
      POPMTX |-> 216, GEOMETRYMODE |-> 217, MTX |-> 218, MOVEWORD |-> 219,
      MOVEMEM |-> 220, LOAD_UCODE |-> 221, DL |-> 222, ENDDL |-> 223,
      SPNOOP |-> 224, RDPHALF_1 |-> 225, SETOTHERMODE_L |-> 226,
      SETOTHERMODE_H |-> 227, RDPHALF_2 |-> 241]

RDP == [TEXRECT |-> 228, TEXRECTFLIP |-> 229, LOADSYNC |-> 230,
        PIPESYNC |-> 231, TILESYNC |-> 232, FULLSYNC |-> 233, KEYGB |-> 234,
        KEYR |-> 235, CONVERT |-> 236, SCISSOR |-> 237, PRIMDEPTH |-> 238,
        OTHERMODE |-> 239, LOADTLUT |-> 240, TILESIZE |-> 242,
        LOADBLOCK |-> 243, LOADTILE |-> 244, TILE |-> 245, FILLRECT |-> 246,
        FILLCOLOR |-> 247, FOGCOLOR |-> 248, BLENDCOLOR |-> 249,
        PRIMCOLOR |-> 250, ENVCOLOR |-> 251, COMBINE |-> 252, TIMG |-> 253,
        ZIMG |-> 254, CIMG |-> 255]

Cmd(c) == _SHIFTL(c, 24, 8)

\* ------------------------------------------------------------- RSP packets
gDma0p(c, s, l) == Gfx(Cmd(c) \cup _SHIFTL(l, 0, 24), Bits(s))
\* Mutant: the parameter is not cut to its byte.
gDma1pUnmasked(c, s, l, p) ==
  Gfx((Cmd(c) \cup Shift(Bits(p), 16) \cup _SHIFTL(l, 0, 16)) \cap Width, Bits(s))
gDma1p(c, s, l, p) ==
  Gfx(Cmd(c) \cup _SHIFTL(p, 16, 8) \cup _SHIFTL(l, 0, 16), Bits(s))
\* C's division, towards zero.
CDiv(a, b) == IF a >= 0 THEN a \div b ELSE -((-a) \div b)
gDma2p(c, adrs, len, idx, ofs) ==
  Gfx(Cmd(c) \cup _SHIFTL(CDiv(len - 1, 8), 19, 5)
        \cup _SHIFTL(CDiv(ofs, 8), 8, 8) \cup _SHIFTL(idx, 0, 8), Bits(adrs))
gImmp1(c, p0) == Gfx(Cmd(c), Bits(p0))
gMoveWd(index, offset, data) == gDma1p(G.MOVEWORD, data, offset, index)

\* ---------------------------------------------------------- lists of lists
gSPNoOp == gDma0p(G.SPNOOP, 0, 0)
G_DL_PUSH == 0
G_DL_NOPUSH == 1
gSPDisplayList(dl) == gDma1p(G.DL, dl, 0, G_DL_PUSH)
gSPBranchList(dl) == gDma1p(G.DL, dl, 0, G_DL_NOPUSH)
gSPEndDisplayList == Gfx(Cmd(G.ENDDL), {})
gSPCullDisplayList(vstart, vend) ==
  Gfx(Cmd(G.CULLDL) \cup _SHIFTL(vstart * 2, 0, 16), _SHIFTL(vend * 2, 0, 16))
gSPBranchLessZraw(dl, vtx, zval) ==
  <<gImmp1(G.RDPHALF_1, dl),
    Gfx(Cmd(G.BRANCH_Z) \cup _SHIFTL(vtx * 5, 12, 12)
          \cup _SHIFTL(vtx * 2, 0, 12), Bits(zval))>>
gSPLoadUcodeEx(uc_start, uc_dstart, uc_dsize) ==
  <<gImmp1(G.RDPHALF_1, uc_dstart),
    Gfx(Cmd(G.LOAD_UCODE) \cup _SHIFTL(uc_dsize - 1, 0, 16), Bits(uc_start))>>
gSPDma_io(flag, dmem, dram, size) ==
  Gfx(Cmd(G.DMA_IO) \cup _SHIFTL(flag, 23, 1)
        \cup _SHIFTL(CDiv(dmem, 8), 13, 10) \cup _SHIFTL(size - 1, 0, 12),
      Bits(dram))
gSPDmaRead(dmem, dram, size) == gSPDma_io(0, dmem, dram, size)
gSPDmaWrite(dmem, dram, size) == gSPDma_io(1, dmem, dram, size)

\* ---------------------------------------------------------------- geometry
G_MTX_PUSH == 1
SizeofMtx == 64
SizeofVp == 16
SizeofLight == 16
\* Mutant: the push is not inverted.
MatrixPushKept(m, p) == gDma2p(G.MTX, m, SizeofMtx, p, 0)
\* p is a byte of flags; only its lowest bit, the push, is inverted.
gSPMatrix(m, p) ==
  gDma2p(G.MTX, m, SizeofMtx,
         IF p % 2 = 1 THEN p - G_MTX_PUSH ELSE p + G_MTX_PUSH, 0)
gSPPopMatrixN(num) == gDma2p(G.POPMTX, num * 64, 64, 2, 0)
gSPPopMatrix == gSPPopMatrixN(1)
gSPVertex(v, n, v0) ==
  Gfx(Cmd(G.VTX) \cup _SHIFTL(n, 12, 8) \cup _SHIFTL(v0 + n, 1, 7), Bits(v))
gSPModifyVertex(vtx, where, val) ==
  Gfx(Cmd(G.MODIFYVTX) \cup _SHIFTL(where, 16, 8) \cup _SHIFTL(vtx * 2, 0, 16),
      Bits(val))

__gsSP1Triangle_w1(v) ==
  _SHIFTL(v[1] * 2, 16, 8) \cup _SHIFTL(v[2] * 2, 8, 8) \cup _SHIFTL(v[3] * 2, 0, 8)
__gsSP1Triangle_w1f(v, flag) ==
  __gsSP1Triangle_w1(CASE flag = 0 -> <<v[1], v[2], v[3]>>
                       [] flag = 1 -> <<v[2], v[3], v[1]>>
                       [] OTHER    -> <<v[3], v[1], v[2]>>)
__gsSP1Quadrangle_w1f(v, flag) ==
  __gsSP1Triangle_w1(CASE flag = 0 -> <<v[1], v[2], v[3]>>
                       [] flag = 1 -> <<v[2], v[3], v[4]>>
                       [] flag = 2 -> <<v[3], v[4], v[1]>>
                       [] OTHER    -> <<v[4], v[1], v[2]>>)
\* Mutant: the last case turns its triangle over.
QuadrangleFlipped(v, flag) ==
  __gsSP1Triangle_w1(CASE flag = 0 -> <<v[1], v[3], v[4]>>
                       [] flag = 1 -> <<v[2], v[4], v[1]>>
                       [] flag = 2 -> <<v[3], v[1], v[2]>>
                       [] OTHER    -> <<v[4], v[3], v[2]>>)
__gsSP1Quadrangle_w2f(v, flag) ==
  __gsSP1Triangle_w1(CASE flag = 0 -> <<v[1], v[3], v[4]>>
                       [] flag = 1 -> <<v[2], v[4], v[1]>>
                       [] flag = 2 -> <<v[3], v[1], v[2]>>
                       [] OTHER    -> <<v[4], v[2], v[3]>>)
gSP1Triangle(v, flag) == Gfx(Cmd(G.TRI1) \cup __gsSP1Triangle_w1f(v, flag), {})
gSP1Quadrangle(v, flag) ==
  Gfx(Cmd(G.QUAD) \cup __gsSP1Quadrangle_w1f(v, flag),
      __gsSP1Quadrangle_w2f(v, flag))
gSP2Triangles(v, flag0, u, flag1) ==
  Gfx(Cmd(G.TRI2) \cup __gsSP1Triangle_w1f(v, flag0),
      __gsSP1Triangle_w1f(u, flag1))

\* ------------------------------------------------- movemem, move word tables
G_MV == [VIEWPORT |-> 8, LIGHT |-> 10, MATRIX |-> 14]
G_MVO == [LOOKATX |-> 0, LOOKATY |-> 24, L0 |-> 48]
G_MW == [NUMLIGHT |-> 2, CLIP |-> 4, SEGMENT |-> 6, FOG |-> 8, LIGHTCOL |-> 10,
         FORCEMTX |-> 12, PERSPNORM |-> 14]

gSPViewport(v) == gDma2p(G.MOVEMEM, v, SizeofVp, G_MV.VIEWPORT, 0)
gSPForceMatrix(mptr) == <<gDma2p(G.MOVEMEM, mptr, SizeofMtx, G_MV.MATRIX, 0),
                          gMoveWd(G_MW.FORCEMTX, 0, 2^16)>>
gSPSegment(segment, base) == gMoveWd(G_MW.SEGMENT, segment * 4, base)
\* r \in 1 .. 6: FR_NEG_r is r and FR_POS_r is -r as an unsigned short.
gSPClipRatio(r) == <<gMoveWd(G_MW.CLIP, 4, r), gMoveWd(G_MW.CLIP, 12, r),
                     gMoveWd(G_MW.CLIP, 20, 65536 - r),
                     gMoveWd(G_MW.CLIP, 28, 65536 - r)>>
gSPPerspNormalize(s) == gMoveWd(G_MW.PERSPNORM, 0, s)

NUML(n) == n * 24
gSPNumLights(n) == gMoveWd(G_MW.NUMLIGHT, 0, NUML(n))
gSPLight(l, n) == gDma2p(G.MOVEMEM, l, SizeofLight, G_MV.LIGHT, n * 24 + 24)
\* The offsets of the two copies of the colour of light n.
G_MWO_aLIGHT(n) == <<0, 24, 48, 72, 96, 120, 144, 168>>[n]
G_MWO_bLIGHT(n) == <<4, 28, 52, 76, 100, 124, 148, 172>>[n]
gSPLightColor(n, col) == <<gMoveWd(G_MW.LIGHTCOL, G_MWO_aLIGHT(n), col),
                           gMoveWd(G_MW.LIGHTCOL, G_MWO_bLIGHT(n), col)>>
gSPLookAtX(l) == gDma2p(G.MOVEMEM, l, SizeofLight, G_MV.LIGHT, G_MVO.LOOKATX)
gSPLookAtY(l) == gDma2p(G.MOVEMEM, l, SizeofLight, G_MV.LIGHT, G_MVO.LOOKATY)
gSPLookAt(la) == <<gSPLookAtX(la), gSPLookAtY(la + 16)>>

gSPFogFactor(fm, fo) ==
  Gfx(gMoveWd(G_MW.FOG, 0, 0).w0, _SHIFTL(fm, 16, 16) \cup _SHIFTL(fo, 0, 16))
\* Mutant: the offset is taken from the far end of the band.
FogFromMax(min, max) ==
  gSPFogFactor(CDiv(128000, max - min), CDiv((500 - max) * 256, max - min))
gSPFogPosition(min, max) ==
  gSPFogFactor(CDiv(128000, max - min), CDiv((500 - min) * 256, max - min))

BOWTIE_VAL == 0
gSPTextureL(s, t, level, xparam, tile, on) ==
  Gfx(Cmd(G.TEXTURE) \cup _SHIFTL(xparam, 16, 8) \cup _SHIFTL(level, 11, 3)
        \cup _SHIFTL(tile, 8, 3) \cup _SHIFTL(on, 1, 7),
      _SHIFTL(s, 16, 16) \cup _SHIFTL(t, 0, 16))
gSPTexture(s, t, level, tile, on) ==
  gSPTextureL(s, t, level, BOWTIE_VAL, tile, on)

\* ------------------------------------------------- modes: data are words
gSPGeometryMode(c, s) == Gfx(Cmd(G.GEOMETRYMODE) \cup Low(Width \ c, 24), s)
gSPSetGeometryMode(word) == gSPGeometryMode({}, word)
gSPClearGeometryMode(word) == gSPGeometryMode(word, {})
gSPLoadGeometryMode(word) == gSPGeometryMode(Width, word)

gSPSetOtherMode(cmd, sft, len, data) ==
  Gfx(Cmd(cmd) \cup _SHIFTL(32 - sft - len, 8, 8) \cup _SHIFTL(len - 1, 0, 8),
      data)
gDPSetOtherMode(mode0, mode1) ==
  Gfx(Cmd(RDP.OTHERMODE) \cup Low(mode0, 24), mode1)

gDPSetCombine(muxs0, muxs1) == Gfx(Cmd(RDP.COMBINE) \cup Low(muxs0, 24), muxs1)
GCCc0w0(saRGB0, mRGB0, saA0, mA0) ==
  _SHIFTL(saRGB0, 20, 4) \cup _SHIFTL(mRGB0, 15, 5)
    \cup _SHIFTL(saA0, 12, 3) \cup _SHIFTL(mA0, 9, 3)
GCCc1w0(saRGB1, mRGB1) == _SHIFTL(saRGB1, 5, 4) \cup _SHIFTL(mRGB1, 0, 5)
GCCc0w1(sbRGB0, aRGB0, sbA0, aA0) ==
  _SHIFTL(sbRGB0, 28, 4) \cup _SHIFTL(aRGB0, 15, 3)
    \cup _SHIFTL(sbA0, 12, 3) \cup _SHIFTL(aA0, 9, 3)
GCCc1w1(sbRGB1, saA1, mA1, aRGB1, sbA1, aA1) ==
  _SHIFTL(sbRGB1, 24, 4) \cup _SHIFTL(saA1, 21, 3) \cup _SHIFTL(mA1, 18, 3)
    \cup _SHIFTL(aRGB1, 6, 3) \cup _SHIFTL(sbA1, 3, 3) \cup _SHIFTL(aA1, 0, 3)
\* A cycle is its eight sources, <<a, b, c, d, Aa, Ab, Ac, Ad>>.
gDPSetCombineLERP(m0, m1) ==
  gDPSetCombine(GCCc0w0(m0[1], m0[3], m0[5], m0[7]) \cup GCCc1w0(m1[1], m1[3]),
                GCCc0w1(m0[2], m0[4], m0[6], m0[8])
                  \cup GCCc1w1(m1[2], m1[5], m1[7], m1[4], m1[6], m1[8]))

\* ------------------------------------------------------------------ colours
RGBA(r, g, b, a) == _SHIFTL(r, 24, 8) \cup _SHIFTL(g, 16, 8)
                      \cup _SHIFTL(b, 8, 8) \cup _SHIFTL(a, 0, 8)
gDPSetColor(c, d) == Gfx(Cmd(c), d)
gDPSetEnvColor(r, g, b, a) == gDPSetColor(RDP.ENVCOLOR, RGBA(r, g, b, a))
gDPSetBlendColor(r, g, b, a) == gDPSetColor(RDP.BLENDCOLOR, RGBA(r, g, b, a))
gDPSetFogColor(r, g, b, a) == gDPSetColor(RDP.FOGCOLOR, RGBA(r, g, b, a))
gDPSetFillColor(d) == gDPSetColor(RDP.FILLCOLOR, d)
gDPSetPrimDepth(z, dz) ==
  gDPSetColor(RDP.PRIMDEPTH, _SHIFTL(z, 16, 16) \cup _SHIFTL(dz, 0, 16))
gDPSetPrimColor(m, l, r, g, b, a) ==
  Gfx(Cmd(RDP.PRIMCOLOR) \cup _SHIFTL(m, 8, 8) \cup _SHIFTL(l, 0, 8),
      RGBA(r, g, b, a))
\* Two 16-bit pixels make the fill colour of a 16-bit image.
GPACK_RGBA5551(r, g, b, a) ==
  (Shift(Bits(r), 8) \cap (11 .. 15)) \cup (Shift(Bits(g), 3) \cap (6 .. 10))
    \cup (Shift(Bits(b), -2) \cap (1 .. 5)) \cup Low(Bits(a), 1)
GPACK_ZDZ(z, dz) == (Shift(Bits(z), 2) \cap Width) \cup Bits(dz)

gDPSetConvert(k0, k1, k2, k3, k4, k5) ==
  Gfx(Cmd(RDP.CONVERT) \cup _SHIFTL(k0, 13, 9) \cup _SHIFTL(k1, 4, 9)
        \cup _SHIFTR(k2, 5, 4),
      _SHIFTL(k2, 27, 5) \cup _SHIFTL(k3, 18, 9) \cup _SHIFTL(k4, 9, 9)
        \cup _SHIFTL(k5, 0, 9))
\* ------------------------------------------------------- images and tiles
gSetImage(cmd, fmt, siz, width, i) ==
  Gfx(Cmd(cmd) \cup _SHIFTL(fmt, 21, 3) \cup _SHIFTL(siz, 19, 2)
        \cup _SHIFTL(width - 1, 0, 12), Bits(i))
gDPSetColorImage(f, s, w, i) == gSetImage(RDP.CIMG, f, s, w, i)
gDPSetDepthImage(i) == gSetImage(RDP.ZIMG, 0, 0, 1, i)
gDPSetTextureImage(f, s, w, i) == gSetImage(RDP.TIMG, f, s, w, i)
gDPSetKeyR(cR, sR, wR) ==
  Gfx(Cmd(RDP.KEYR),
      _SHIFTL(wR, 16, 12) \cup _SHIFTL(cR, 8, 8) \cup _SHIFTL(sR, 0, 8))
gDPSetKeyGB(cG, sG, wG, cB, sB, wB) ==
  Gfx(Cmd(RDP.KEYGB) \cup _SHIFTL(wG, 12, 12) \cup _SHIFTL(wB, 0, 12),
      RGBA(cG, sG, cB, sB))

gDPLoadTileGeneric(c, tile, uls, ult, lrs, lrt) ==
  Gfx(Cmd(c) \cup _SHIFTL(uls, 12, 12) \cup _SHIFTL(ult, 0, 12),
      _SHIFTL(tile, 24, 3) \cup _SHIFTL(lrs, 12, 12) \cup _SHIFTL(lrt, 0, 12))
gDPSetTileSize(t, uls, ult, lrs, lrt) ==
  gDPLoadTileGeneric(RDP.TILESIZE, t, uls, ult, lrs, lrt)
gDPLoadTile(t, uls, ult, lrs, lrt) ==
  gDPLoadTileGeneric(RDP.LOADTILE, t, uls, ult, lrs, lrt)
\* The highlight moves with the light: h is the corner it starts from.
gDPSetHiliteTile(tile, h, width, height) ==
  LET wrap(v) == v % 4096
  IN  gDPSetTileSize(tile, wrap(h.x), wrap(h.y), wrap((width - 1) * 4 + h.x),
                     wrap((height - 1) * 4 + h.y))
\* Mutant: the directions are swapped.
SetTileSwapped(fmt, siz, line, tmem, tile, palette, t, s) ==
  Gfx(Cmd(RDP.TILE) \cup _SHIFTL(fmt, 21, 3) \cup _SHIFTL(siz, 19, 2)
        \cup _SHIFTL(line, 9, 9) \cup _SHIFTL(tmem, 0, 9),
      _SHIFTL(tile, 24, 3) \cup _SHIFTL(palette, 20, 4)
        \cup _SHIFTL(s[1], 18, 2) \cup _SHIFTL(s[2], 14, 4)
        \cup _SHIFTL(s[3], 10, 4) \cup _SHIFTL(t[1], 8, 2)
        \cup _SHIFTL(t[2], 4, 4) \cup _SHIFTL(t[3], 0, 4))
\* t and s are the <<cm, mask, shift>> of each direction.
gDPSetTile(fmt, siz, line, tmem, tile, palette, t, s) ==
  Gfx(Cmd(RDP.TILE) \cup _SHIFTL(fmt, 21, 3) \cup _SHIFTL(siz, 19, 2)
        \cup _SHIFTL(line, 9, 9) \cup _SHIFTL(tmem, 0, 9),
      _SHIFTL(tile, 24, 3) \cup _SHIFTL(palette, 20, 4)
        \cup _SHIFTL(t[1], 18, 2) \cup _SHIFTL(t[2], 14, 4)
        \cup _SHIFTL(t[3], 10, 4) \cup _SHIFTL(s[1], 8, 2)
        \cup _SHIFTL(s[2], 4, 4) \cup _SHIFTL(s[3], 0, 4))
G_TX_LDBLK_MAX_TXL == 2047
gDPLoadBlock(tile, uls, ult, lrs, dxt) ==
  gDPLoadTileGeneric(RDP.LOADBLOCK, tile, uls, ult,
                     Min({lrs, G_TX_LDBLK_MAX_TXL}), dxt)
gDPLoadTLUTCmd(tile, count) ==
  Gfx(Cmd(RDP.LOADTLUT), _SHIFTL(tile, 24, 3) \cup _SHIFTL(count, 14, 10))

\* --------------------------------------------------------------- rectangles
gDPSetScissorFrac(mode, ulx, uly, lrx, lry) ==
  Gfx(Cmd(RDP.SCISSOR) \cup _SHIFTL(ulx, 12, 12) \cup _SHIFTL(uly, 0, 12),
      _SHIFTL(mode, 24, 2) \cup _SHIFTL(lrx, 12, 12) \cup _SHIFTL(lry, 0, 12))
gDPSetScissor(mode, ulx, uly, lrx, lry) ==
  gDPSetScissorFrac(mode, ulx * 4, uly * 4, lrx * 4, lry * 4)
gDPFillRectangle(ulx, uly, lrx, lry) ==
  Gfx(Cmd(RDP.FILLRECT) \cup _SHIFTL(lrx, 14, 10) \cup _SHIFTL(lry, 2, 10),
      _SHIFTL(ulx, 14, 10) \cup _SHIFTL(uly, 2, 10))
NotNegative(v) == Max({v, 0})
gDPScisFillRectangle(ulx, uly, lrx, lry) ==
  gDPFillRectangle(NotNegative(ulx), NotNegative(uly),
                   NotNegative(lrx), NotNegative(lry))

TexRectCorners(cmd, xl, yl, xh, yh, tile) ==
  Gfx(Cmd(cmd) \cup _SHIFTL(xh, 12, 12) \cup _SHIFTL(yh, 0, 12),
      _SHIFTL(tile, 24, 3) \cup _SHIFTL(xl, 12, 12) \cup _SHIFTL(yl, 0, 12))
Halves(hi, lo) == _SHIFTL(hi, 16, 16) \cup _SHIFTL(lo, 0, 16)
gDPTextureRectangle(xl, yl, xh, yh, tile, s, t, dsdx, dtdy) ==
  <<TexRectCorners(RDP.TEXRECT, xl, yl, xh, yh, tile),
    Gfx(Halves(s, t), Halves(dsdx, dtdy))>>
gDPTextureRectangleFlip(xl, yl, xh, yh, tile, s, t, dsdx, dtdy) ==
  <<TexRectCorners(RDP.TEXRECTFLIP, xl, yl, xh, yh, tile),
    Gfx(Halves(s, t), Halves(dsdx, dtdy))>>
\* The RSP passes the second half of the 128-bit command in two more packets.
Half(cmd, word) == Gfx(Cmd(cmd), word)
gSPTextureRectangle(xl, yl, xh, yh, tile, s, t, dsdx, dtdy) ==
  <<TexRectCorners(RDP.TEXRECT, xl, yl, xh, yh, tile),
    Half(G.RDPHALF_1, Halves(s, t)), Half(G.RDPHALF_2, Halves(dsdx, dtdy))>>
gSPTextureRectangleFlip(xl, yl, xh, yh, tile, s, t, dsdx, dtdy) ==
  <<TexRectCorners(RDP.TEXRECTFLIP, xl, yl, xh, yh, tile),
    Half(G.RDPHALF_1, Halves(s, t)), Half(G.RDPHALF_2, Halves(dsdx, dtdy))>>
S16(v) == IF v % 65536 < 32768 THEN v % 65536 ELSE (v % 65536) - 65536
\* Mutant: the bounds are swapped, and nothing is ever cut off.
CutOffSwapped(x, step) ==
  LET texels == (S16(x) * S16(step)) \div 128
  IN  IF x >= 0 THEN 0
      ELSE IF S16(step) < 0 THEN Min({texels, 0}) ELSE Max({texels, 0})
\* What is cut off at the left or above, in texels: positions have 2 fraction
\* bits, steps 10 and texture coordinates 5.
CutOff(x, step) ==
  LET texels == (S16(x) * S16(step)) \div 128
  IN  IF x >= 0 THEN 0
      ELSE IF S16(step) < 0 THEN Max({texels, 0}) ELSE Min({texels, 0})
gSPScisTextureRectangle(xl, yl, xh, yh, tile, s, t, dsdx, dtdy) ==
  gSPTextureRectangle(NotNegative(S16(xl)), NotNegative(S16(yl)),
                      NotNegative(S16(xh)), NotNegative(S16(yh)), tile,
                      s - CutOff(S16(xl), dsdx), t - CutOff(yl, dtdy), dsdx, dtdy)

\* -------------------------------------------------- syncs, no-ops, raw words
gDPNoParam(cmd) == Gfx(Cmd(cmd), {})
gDPParam(cmd, param) == Gfx(Cmd(cmd), Bits(param))
gDPFullSync == gDPNoParam(RDP.FULLSYNC)
gDPTileSync == gDPNoParam(RDP.TILESYNC)
gDPPipeSync == gDPNoParam(RDP.PIPESYNC)
gDPLoadSync == gDPNoParam(RDP.LOADSYNC)
gDPNoOp == gDPNoParam(G.NOOP)
gDPNoOpTag(tag) == gDPParam(G.NOOP, tag)
gDPSetBlendMask(mask) == gDPNoOp
\* gDPNoOpHere, String, Word, Float, Quiet, CallBack, OpenDisp, CloseDisp.
gDPNoOpTag3(type, data, n) == gDma1p(G.NOOP, data, n, type)
gDPWord(wordhi, wordlo) == <<gImmp1(G.RDPHALF_1, wordhi),
                             gImmp1(G.RDPHALF_2, wordlo)>>

\* ------------------------------------------- the packet types of the union
\* Fields from the top of the first word down, as <<name, bits>>.
Gdma == << <<"cmd", 8>>, <<"par", 8>>, <<"len", 16>>, <<"addr", 32>> >>
Gsetimg == << <<"cmd", 8>>, <<"fmt", 3>>, <<"siz", 2>>, <<"pad", 7>>,
              <<"wd", 12>>, <<"dram", 32>> >>
Gsetcombine == << <<"cmd", 8>>, <<"muxs0", 24>>, <<"muxs1", 32>> >>
Gsetcolor == << <<"cmd", 8>>, <<"pad", 8>>, <<"prim_min_level", 8>>,
                <<"prim_level", 8>>, <<"color", 32>> >>
Gfillrect == << <<"cmd", 8>>, <<"x0", 10>>, <<"x0frac", 2>>, <<"y0", 10>>,
                <<"y0frac", 2>>, <<"pad", 8>>, <<"x1", 10>>, <<"x1frac", 2>>,
                <<"y1", 10>>, <<"y1frac", 2>> >>
Gsettile == << <<"cmd", 8>>, <<"fmt", 3>>, <<"siz", 2>>, <<"pad0", 1>>,
               <<"line", 9>>, <<"tmem", 9>>, <<"pad1", 5>>, <<"tile", 3>>,
               <<"palette", 4>>, <<"ct", 1>>, <<"mt", 1>>, <<"maskt", 4>>,
               <<"shiftt", 4>>, <<"cs", 1>>, <<"ms", 1>>, <<"masks", 4>>,
               <<"shifts", 4>> >>
Gloadtile == << <<"cmd", 8>>, <<"sl", 12>>, <<"tl", 12>>, <<"pad", 5>>,
                <<"tile", 3>>, <<"sh", 12>>, <<"th", 12>> >>

\* The number that a packet's field holds.
FieldBits(type, name, gfx) ==
  LET i == CHOOSE j \in DOMAIN type : type[j][1] = name
      low == 64 - MapThenSumSet(LAMBDA j : type[j][2], 1 .. i)
      all == Shift(gfx.w0, 32) \cup gfx.w1
  IN  Low(Shift(all \cap (low .. 63), -low), type[i][2])
=============================================================================
