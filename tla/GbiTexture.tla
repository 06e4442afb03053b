----------------------------- MODULE GbiTexture -----------------------------
(***************************************************************************)
(* The texture loading macros of include/ultra64/gbi.h: each is a list of   *)
(* RDP commands that brings an image from DRAM into texture memory and      *)
(* describes it in a tile.  An image I is [timg, fmt, siz, width, height,   *)
(* pal, t, s], where t and s are the <<cm, mask, shift>> of a direction and *)
(* siz is an entry of Siz; a part of an image is [uls, ult, lrs, lrt].      *)
(***************************************************************************)
EXTENDS Gbi

G_TX_LOADTILE == 7
G_TX_RENDERTILE == 0
G_IM_FMT == [RGBA |-> 0, YUV |-> 1, CI |-> 2, IA |-> 3, I |-> 4]
G_TEXTURE_IMAGE_FRAC == 2
Frac(v) == v * 2^G_TEXTURE_IMAGE_FRAC

\* The constants that siz##_BYTES and so on stand for.
Siz(code, bytes, tile, line, load, shift, incr) ==
  [code |-> code, BYTES |-> bytes, TILE_BYTES |-> tile, LINE_BYTES |-> line,
   LOAD_BLOCK |-> load, SHIFT |-> shift, INCR |-> incr]
G_IM_SIZ_4b  == Siz(0, 0, 0, 0, 2, 2, 3)
G_IM_SIZ_8b  == Siz(1, 1, 1, 1, 2, 1, 1)
G_IM_SIZ_16b == Siz(2, 2, 2, 2, 2, 0, 0)
G_IM_SIZ_32b == Siz(3, 4, 2, 2, 3, 0, 0)

\* The whole 64-bit words in bytes, and the words that hold them.
Words(bytes) == (bytes + 7) \div 8
TXL2WORDS(txls, b_txl) == Max({1, (txls * b_txl) \div 8})
TXL2WORDS_4b(txls) == Max({1, txls \div 16})
\* 1.11 fixed point, rounded up.
Dxt(words) == (2048 + words - 1) \div words
CALC_DXT(width, b_txl) == Dxt(TXL2WORDS(width, b_txl))
CALC_DXT_4b(width) == Dxt(TXL2WORDS_4b(width))

SetTile(I, siz, line, tmem, tile, pal) ==
  gDPSetTile(I.fmt, siz, line, tmem, tile, pal, I.t, I.s)

\* ----------------------------------------------- the whole image, as a block
\* n texels of the size load, with a word count every dxt; line is the line of
\* the tile that is rendered from.
\* Mutant: nothing separates the load from what is still rendered.
BlockWithoutLoadSync(I, load, n, dxt, line, tmem, rtile) ==
  <<gDPSetTextureImage(I.fmt, load, 1, I.timg),
    SetTile(I, load, 0, tmem, G_TX_LOADTILE, 0),
    gDPLoadBlock(G_TX_LOADTILE, 0, 0, n - 1, dxt),
    gDPPipeSync,
    SetTile(I, I.siz.code, line, tmem, rtile, I.pal),
    gDPSetTileSize(rtile, 0, 0, Frac(I.width - 1), Frac(I.height - 1))>>
Block(I, load, n, dxt, line, tmem, rtile) ==
  <<gDPSetTextureImage(I.fmt, load, 1, I.timg),
    SetTile(I, load, 0, tmem, G_TX_LOADTILE, 0),
    gDPLoadSync,
    gDPLoadBlock(G_TX_LOADTILE, 0, 0, n - 1, dxt),
    gDPPipeSync,
    SetTile(I, I.siz.code, line, tmem, rtile, I.pal),
    gDPSetTileSize(rtile, 0, 0, Frac(I.width - 1), Frac(I.height - 1))>>

Texels(I) == (I.width * I.height + I.siz.INCR) \div 2^I.siz.SHIFT
LineOf(I) == Words(I.width * I.siz.LINE_BYTES)
\* dxt is 0 when the odd lines of the image are already word swapped.
BlockOf(I, dxt, line, tmem, rtile) ==
  Block(I, I.siz.LOAD_BLOCK, Texels(I), dxt, line, tmem, rtile)

gDPLoadMultiBlock(I, tmem, rtile) ==
  BlockOf(I, CALC_DXT(I.width, I.siz.BYTES), LineOf(I), tmem, rtile)
gDPLoadMultiBlockS(I, tmem, rtile) == BlockOf(I, 0, LineOf(I), tmem, rtile)
_gDPLoadTextureBlockTile(I, tmem, rtile) == gDPLoadMultiBlock(I, tmem, rtile)
_gDPLoadTextureBlock(I, tmem) == gDPLoadMultiBlock(I, tmem, G_TX_RENDERTILE)
gDPLoadTextureBlock(I) == gDPLoadMultiBlock(I, 0, G_TX_RENDERTILE)
gDPLoadTextureBlockS(I) == gDPLoadMultiBlockS(I, 0, G_TX_RENDERTILE)
\* A YUV texel has its two bytes in different halves of the memory.
gDPLoadTextureBlockYuv(I) ==
  BlockOf(I, CALC_DXT(I.width, I.siz.BYTES), Words(I.width), 0, G_TX_RENDERTILE)
gDPLoadTextureBlockYuvS(I) ==
  BlockOf(I, 0, Words(I.width), 0, G_TX_RENDERTILE)

\* Four-bit texels are loaded as 16-bit ones.
Block_4b(I, dxt, tmem, rtile) ==
  Block(I, G_IM_SIZ_16b.code, (I.width * I.height + 3) \div 4, dxt,
        Words(I.width \div 2), tmem, rtile)
gDPLoadMultiBlock_4b(I, tmem, rtile) ==
  Block_4b(I, CALC_DXT_4b(I.width), tmem, rtile)
gDPLoadMultiBlock_4bS(I, tmem, rtile) == Block_4b(I, 0, tmem, rtile)
_gDPLoadTextureBlock_4b(I, tmem) ==
  gDPLoadMultiBlock_4b(I, tmem, G_TX_RENDERTILE)
gDPLoadTextureBlock_4b(I) == gDPLoadMultiBlock_4b(I, 0, G_TX_RENDERTILE)
gDPLoadTextureBlock_4bS(I) == gDPLoadMultiBlock_4bS(I, 0, G_TX_RENDERTILE)

\* ------------------------------------------------- a part of it, as a tile
\* load and loadLine describe the tile loaded, shift how much of the fraction
\* remains of s there.
Tile(I, A, load, width, loadLine, shift, line, tmem, rtile) ==
  <<gDPSetTextureImage(I.fmt, load, width, I.timg),
    SetTile(I, load, loadLine, tmem, G_TX_LOADTILE, 0),
    gDPLoadSync,
    gDPLoadTile(G_TX_LOADTILE, A.uls * 2^shift, Frac(A.ult),
                A.lrs * 2^shift, Frac(A.lrt)),
    gDPPipeSync,
    SetTile(I, I.siz.code, line, tmem, rtile, I.pal),
    gDPSetTileSize(rtile, Frac(A.uls), Frac(A.ult), Frac(A.lrs), Frac(A.lrt))>>

gDPLoadMultiTile(I, A, tmem, rtile) ==
  LET n == A.lrs - A.uls + 1
  IN  Tile(I, A, I.siz.code, I.width, Words(n * I.siz.TILE_BYTES),
           G_TEXTURE_IMAGE_FRAC, Words(n * I.siz.LINE_BYTES), tmem, rtile)
gDPLoadTextureTile(I, A) == gDPLoadMultiTile(I, A, 0, G_TX_RENDERTILE)

\* Four-bit texels are loaded as 8-bit ones.
gDPLoadMultiTile_4b(I, A, tmem, rtile) ==
  LET line == Words((A.lrs - A.uls + 1) \div 2)
  IN  Tile(I, A, G_IM_SIZ_8b.code, I.width \div 2, line,
           G_TEXTURE_IMAGE_FRAC - 1, line, tmem, rtile)
gDPLoadTextureTile_4b(I, A) == gDPLoadMultiTile_4b(I, A, 0, G_TX_RENDERTILE)

\* ----------------------------------------------------------------- palettes
Unused3 == <<0, 0, 0>>
gDPLoadTLUT(count, tmemaddr, dram) ==
  <<gDPSetTextureImage(G_IM_FMT.RGBA, G_IM_SIZ_16b.code, 1, dram),
    gDPTileSync,
    gDPSetTile(0, 0, 0, tmemaddr, G_TX_LOADTILE, 0, Unused3, Unused3),
    gDPLoadSync,
    gDPLoadTLUTCmd(G_TX_LOADTILE, count - 1),
    gDPPipeSync>>
\* Mutant: palettes overlap, four entries to a word.
PaletteAtPacked(pal) == 256 + (pal % 16) * 4
PaletteAt(pal) == 256 + (pal % 16) * 16
gDPLoadTLUT_pal16(pal, dram) == gDPLoadTLUT(16, PaletteAt(pal), dram)
gDPLoadTLUT_pal256(dram) == gDPLoadTLUT(256, 256, dram)

\* ------------------------------------- static lists: the same packets, const
gsDPLoadTextureBlock(I) == gDPLoadTextureBlock(I)
gsDPLoadTextureBlockS(I) == gDPLoadTextureBlockS(I)
_gsDPLoadTextureBlock(I, tmem) == _gDPLoadTextureBlock(I, tmem)
_gsDPLoadTextureBlockTile(I, tmem, rtile) == _gDPLoadTextureBlockTile(I, tmem, rtile)
gsDPLoadMultiBlock(I, tmem, rtile) == gDPLoadMultiBlock(I, tmem, rtile)
gsDPLoadMultiBlockS(I, tmem, rtile) == gDPLoadMultiBlockS(I, tmem, rtile)
gsDPLoadTextureBlock_4b(I) == gDPLoadTextureBlock_4b(I)
gsDPLoadTextureBlock_4bS(I) == gDPLoadTextureBlock_4bS(I)
gsDPLoadMultiBlock_4b(I, tmem, rtile) == gDPLoadMultiBlock_4b(I, tmem, rtile)
gsDPLoadMultiBlock_4bS(I, tmem, rtile) == gDPLoadMultiBlock_4bS(I, tmem, rtile)
_gsDPLoadTextureBlock_4b(I, tmem) == _gDPLoadTextureBlock_4b(I, tmem)
gsDPLoadTextureTile(I, A) == gDPLoadTextureTile(I, A)
gsDPLoadMultiTile(I, A, tmem, rtile) == gDPLoadMultiTile(I, A, tmem, rtile)
gsDPLoadTextureTile_4b(I, A) == gDPLoadTextureTile_4b(I, A)
gsDPLoadMultiTile_4b(I, A, tmem, rtile) == gDPLoadMultiTile_4b(I, A, tmem, rtile)
gsDPLoadTLUT(count, tmemaddr, dram) == gDPLoadTLUT(count, tmemaddr, dram)
gsDPLoadTLUT_pal16(pal, dram) == gDPLoadTLUT_pal16(pal, dram)
gsDPLoadTLUT_pal256(dram) == gDPLoadTLUT_pal256(dram)
=============================================================================
