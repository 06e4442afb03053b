---------------------------- MODULE TextureCalls ----------------------------
(***************************************************************************)
(* The calls of the macros of GbiTexture that a game may make, in their     *)
(* dynamic and static forms, with what each is meant to show.               *)
(***************************************************************************)
EXTENDS GbiTexture

Whole(I) == [uls |-> 0, ult |-> 0, lrs |-> I.width - 1, lrt |-> I.height - 1]

\* swapped: the image has its odd lines word swapped in DRAM.
Texture(list, I, A, rtile, swapped) ==
  [list |-> list, image |-> I, area |-> A, tile |-> rtile, swapped |-> swapped]
\* Colours of palettes, from the entry first on.
Palette(list, dram, palettes) ==
  [list |-> list, dram |-> dram, palettes |-> palettes]

Blocks(I) ==
  { Texture(list, I, Whole(I), 0, FALSE) :
      list \in {gDPLoadTextureBlock(I), gsDPLoadTextureBlock(I)} }
  \cup { Texture(list, I, Whole(I), 0, TRUE) :
           list \in {gDPLoadTextureBlockS(I), gsDPLoadTextureBlockS(I)} }
BlocksAt(I, at) ==
  { Texture(list, I, Whole(I), 0, FALSE) :
      list \in {_gDPLoadTextureBlock(I, at), _gsDPLoadTextureBlock(I, at)} }
MultiBlocks(I, at, rtile) ==
  { Texture(list, I, Whole(I), rtile, FALSE) :
      list \in {gDPLoadMultiBlock(I, at, rtile), gsDPLoadMultiBlock(I, at, rtile),
                _gDPLoadTextureBlockTile(I, at, rtile),
                _gsDPLoadTextureBlockTile(I, at, rtile)} }
  \cup { Texture(list, I, Whole(I), rtile, TRUE) :
           list \in {gDPLoadMultiBlockS(I, at, rtile),
                     gsDPLoadMultiBlockS(I, at, rtile)} }
YuvBlocks(I) ==
  { Texture(gDPLoadTextureBlockYuv(I), I, Whole(I), 0, FALSE),
    Texture(gDPLoadTextureBlockYuvS(I), I, Whole(I), 0, TRUE) }
Blocks_4b(I) ==
  { Texture(list, I, Whole(I), 0, FALSE) :
      list \in {gDPLoadTextureBlock_4b(I), gsDPLoadTextureBlock_4b(I)} }
  \cup { Texture(list, I, Whole(I), 0, TRUE) :
           list \in {gDPLoadTextureBlock_4bS(I), gsDPLoadTextureBlock_4bS(I)} }
MultiBlocks_4b(I, at, rtile) ==
  { Texture(list, I, Whole(I), rtile, FALSE) :
      list \in {gDPLoadMultiBlock_4b(I, at, rtile), gsDPLoadMultiBlock_4b(I, at, rtile)} }
  \cup { Texture(list, I, Whole(I), rtile, TRUE) :
           list \in {gDPLoadMultiBlock_4bS(I, at, rtile),
                     gsDPLoadMultiBlock_4bS(I, at, rtile)} }
  \cup { Texture(list, I, Whole(I), 0, FALSE) :
           list \in {_gDPLoadTextureBlock_4b(I, at), _gsDPLoadTextureBlock_4b(I, at)} }
Tiles(I, A) ==
  { Texture(list, I, A, 0, FALSE) :
      list \in {gDPLoadTextureTile(I, A), gsDPLoadTextureTile(I, A)} }
MultiTiles(I, A, at, rtile) ==
  { Texture(list, I, A, rtile, FALSE) :
      list \in {gDPLoadMultiTile(I, A, at, rtile), gsDPLoadMultiTile(I, A, at, rtile)} }
Tiles_4b(I, A) ==
  { Texture(list, I, A, 0, FALSE) :
      list \in {gDPLoadTextureTile_4b(I, A), gsDPLoadTextureTile_4b(I, A)} }
MultiTiles_4b(I, A, at, rtile) ==
  { Texture(list, I, A, rtile, FALSE) :
      list \in {gDPLoadMultiTile_4b(I, A, at, rtile), gsDPLoadMultiTile_4b(I, A, at, rtile)} }
Palettes16(pal, dram) ==
  { Palette(list, dram, pal .. pal) :
      list \in {gDPLoadTLUT_pal16(pal, dram), gsDPLoadTLUT_pal16(pal, dram)} }
Palettes256(dram) ==
  { Palette(list, dram, 0 .. 15) :
      list \in {gDPLoadTLUT_pal256(dram), gsDPLoadTLUT_pal256(dram),
                gDPLoadTLUT(256, 256, dram), gsDPLoadTLUT(256, 256, dram)} }
=============================================================================
