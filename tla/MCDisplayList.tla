--------------------------- MODULE MCDisplayList ---------------------------
(***************************************************************************)
(* An instance of DisplayList for TLC.                                      *)
(***************************************************************************)
EXTENDS DisplayList, TextureCalls

\* Nothing, one, a flag, the widest value of a field, one more, and a negative.
MCArguments == {0, 1, 5, 2047, 4096, -3}
MCPositions == {-37, -8, 0, 20}
MCQuads == {<<0, 1, 2, 3>>, <<31, 4, 9, 30>>}
MCSteps == {-1024, -300, 0, 511, 1024, 4096}

\* From 1 to 1000 apart, at either end and across the middle.
MCFogBands == {<<0, 1000>>, <<0, 4>>, <<996, 1000>>, <<498, 502>>, <<500, 1000>>,
              <<0, 500>>, <<985, 1000>>, <<300, 307>>,
              <<998, 1000>>, <<499, 501>>, <<997, 1000>>, <<0, 3>>, <<500, 501>>}
-----------------------------------------------------------------------------
Image(at, fmt, siz, width, height) ==
  [timg |-> at, fmt |-> fmt, siz |-> siz, width |-> width, height |-> height,
   pal |-> 1, t |-> <<0, 0, 0>>, s |-> <<2, 5, 0>>]
RGBA_(siz, width, height) == Image(1, G_IM_FMT.RGBA, siz, width, height)
Four(width, height) == Image(1, G_IM_FMT.CI, G_IM_SIZ_4b, width, height)
Area(uls, ult, lrs, lrt) == [uls |-> uls, ult |-> ult, lrs |-> lrs, lrt |-> lrt]

\* Lines of part of a word, of one, of several, of a number that does not divide
\* 2048; the largest image, and one that is larger; one that fits, with so many
\* lines that the rounding of dxt adds up to a word.
MCBlocks ==
  UNION { Blocks(RGBA_(siz, w, h)) :
            siz \in {G_IM_SIZ_8b, G_IM_SIZ_16b, G_IM_SIZ_32b},
            w \in {1, 4, 8, 12, 16, 24}, h \in {1, 2, 3} }
  \cup Blocks(RGBA_(G_IM_SIZ_8b, 64, 64)) \cup Blocks(RGBA_(G_IM_SIZ_8b, 64, 65))
  \cup Blocks(RGBA_(G_IM_SIZ_16b, 80, 7)) \cup Blocks(RGBA_(G_IM_SIZ_16b, 80, 9))
  \cup Blocks(RGBA_(G_IM_SIZ_32b, 32, 32)) \cup Blocks(RGBA_(G_IM_SIZ_32b, 36, 32))
  \cup UNION { YuvBlocks(Image(1, G_IM_FMT.YUV, G_IM_SIZ_16b, w, h)) :
                 w \in {4, 8, 24, 32}, h \in {1, 2, 5} }
  \cup UNION { Blocks_4b(Four(w, h)) : w \in {1, 8, 16, 17, 48}, h \in {1, 2, 5} }
MCTiles ==
  LET areas == {Area(0, 0, 0, 0), Area(1, 1, 5, 3), Area(2, 0, 11, 4), Area(4, 2, 20, 3),
                Area(0, 0, 15, 1), Area(0, 1, 16, 2), Area(4, 0, 18, 0), Area(0, 0, 16, 0)}
  IN  UNION { Tiles(RGBA_(siz, 23, 5), A) :
                siz \in {G_IM_SIZ_8b, G_IM_SIZ_16b, G_IM_SIZ_32b}, A \in areas }
      \cup UNION { Tiles_4b(Four(w, 5), A) : w \in {22, 23}, A \in areas }
MCShapes ==
  MCBlocks \cup MCTiles \cup MultiBlocks_4b(Four(16, 2), 3, 5)
  \cup Blocks_4b(Four(320, 9))

\* Textures side by side, palettes between them, and the same place again.
MCLoads ==
  MultiBlocks(Image(2, G_IM_FMT.IA, G_IM_SIZ_8b, 8, 2), 2, 1)
  \cup BlocksAt(Image(3, G_IM_FMT.I, G_IM_SIZ_8b, 8, 2), 0)
  \cup { c \in MultiBlocks_4b(Image(4, G_IM_FMT.CI, G_IM_SIZ_4b, 16, 2), 4, 2) : c.tile = 2 }
  \cup MultiTiles(Image(5, G_IM_FMT.RGBA, G_IM_SIZ_16b, 6, 3), Area(1, 0, 4, 1), 6, 3)
  \cup MultiTiles_4b(Image(6, G_IM_FMT.CI, G_IM_SIZ_4b, 20, 3), Area(2, 1, 7, 2), 8, 4)
  \cup Palettes16(0, 7) \cup Palettes16(1, 8) \cup Palettes16(15, 9) \cup Palettes256(10)
-----------------------------------------------------------------------------
MCRenderModes == DOMAIN RenderMode
MCPresets == DOMAIN G_CC
\* Two of the setters and all render modes; one of the tables; two of any kind.
MCLists ==
  { [families |-> {"options", "surfaces"}, modes |-> MCRenderModes, presets |-> {},
     max |-> 2],
    [families |-> {"expert", "combine"}, modes |-> MCRenderModes, presets |-> MCPresets,
     max |-> 1],
    [families |-> {"options", "surfaces", "expert", "combine", "geometry"},
     modes |-> {"AA_ZB_XLU_SURF", "AA_ZB_PCL_SURF"},
     presets |-> {"MODULATEIA", "PASS2"}, max |-> 2] }
-----------------------------------------------------------------------------
\* Two structures for each number of lights, one of them at an address with bit 31;
\* all words differ.
MCLightSets ==
  {[at |-> (IF v = 1 THEN 512 ELSE -2147400000) + 1024 * (n + 1),
    ambient |-> 100 * (n + 1) + 50 * v,
    lights |-> [i \in 1 .. n |-> [col |-> 100 * (n + 1) + 50 * v + i,
                                  dir |-> 100 * (n + 1) + 50 * v + 20 + i]]] :
     n \in {0, 1, 2, 7}, v \in {0, 1}}
\* One colour and one matrix have bit 31.
MCLightColors == {1, -256}
MCMatrices == {4096, -2147418112}
MCLookAts == {[at |-> 65536, right |-> 5, up |-> 6], [at |-> 66048, right |-> 7, up |-> 8]}
=============================================================================
