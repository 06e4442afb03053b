------------------------------ MODULE GbiModes ------------------------------
(***************************************************************************)
(* The rendering modes of include/ultra64/gbi.h: the options of the two     *)
(* othermode words with the macros that set them, the table of render       *)
(* modes, and the colour combiner's sources and presets.  As in Gbi, a word *)
(* is the set of its bits that are 1.                                       *)
(***************************************************************************)
EXTENDS Gbi

\* Two tables in one.
Joined(f, g) ==
  [x \in DOMAIN f \cup DOMAIN g |-> IF x \in DOMAIN f THEN f[x] ELSE g[x]]

\* ---------------------------------------------- the options and their values
G_MDSFT == [ALPHACOMPARE |-> 0, ZSRCSEL |-> 2, RENDERMODE |-> 3,
            ALPHADITHER |-> 4, RGBDITHER |-> 6, COMBKEY |-> 8, TEXTCONV |-> 9,
            TEXTFILT |-> 12, TEXTLUT |-> 14, TEXTLOD |-> 16, TEXTDETAIL |-> 17,
            TEXTPERSP |-> 19, CYCLETYPE |-> 20, PIPELINE |-> 23]

\* Names for the values of an option, as the words that carry them.
Values(option, codes) ==
  [name \in DOMAIN codes |-> Shift(Bits(codes[name]), G_MDSFT[option])]

G_PM  == Values("PIPELINE", [NPRIMITIVE |-> 0, ONEPRIMITIVE |-> 1])
G_CYC == Values("CYCLETYPE", [ONECYCLE |-> 0, TWOCYCLE |-> 1, COPY |-> 2, FILL |-> 3])
G_TP  == Values("TEXTPERSP", [NONE |-> 0, PERSP |-> 1])
G_TD  == Values("TEXTDETAIL", [CLAMP |-> 0, SHARPEN |-> 1, DETAIL |-> 2])
G_TL  == Values("TEXTLOD", [TILE |-> 0, LOD |-> 1])
G_TT  == Values("TEXTLUT", [NONE |-> 0, RGBA16 |-> 2, IA16 |-> 3])
G_TF  == Values("TEXTFILT", [POINT |-> 0, BILERP |-> 2, AVERAGE |-> 3])
G_TC  == Values("TEXTCONV", [CONV |-> 0, FILTCONV |-> 5, FILT |-> 6])
G_CK  == Values("COMBKEY", [NONE |-> 0, KEY |-> 1])
G_CD  == Values("RGBDITHER", [MAGICSQ |-> 0, BAYER |-> 1, NOISE |-> 2, DISABLE |-> 3])
G_AD  == Values("ALPHADITHER", [PATTERN |-> 0, NOTPATTERN |-> 1, NOISE |-> 2, DISABLE |-> 3])
G_AC  == Values("ALPHACOMPARE", [NONE |-> 0, THRESHOLD |-> 1, DITHER |-> 3])
G_ZS  == Values("ZSRCSEL", [PIXEL |-> 0, PRIM |-> 1])

SetH(option, len, mode) == gSPSetOtherMode(G.SETOTHERMODE_H, G_MDSFT[option], len, mode)
SetL(option, len, mode) == gSPSetOtherMode(G.SETOTHERMODE_L, G_MDSFT[option], len, mode)
gDPPipelineMode(mode)      == SetH("PIPELINE", 1, mode)
gDPSetCycleType(type)      == SetH("CYCLETYPE", 2, type)
gDPSetTexturePersp(type)   == SetH("TEXTPERSP", 1, type)
gDPSetTextureDetail(type)  == SetH("TEXTDETAIL", 2, type)
gDPSetTextureLOD(type)     == SetH("TEXTLOD", 1, type)
gDPSetTextureLUT(type)     == SetH("TEXTLUT", 2, type)
\* Mutant: one bit too many, and the first of the palette's is cleared.
TextureFilterWide(type)    == SetH("TEXTFILT", 4, type)
gDPSetTextureFilter(type)  == SetH("TEXTFILT", 2, type)
gDPSetTextureConvert(type) == SetH("TEXTCONV", 3, type)
gDPSetCombineKey(type)     == SetH("COMBKEY", 1, type)
gDPSetColorDither(mode)    == SetH("RGBDITHER", 2, mode)
gDPSetAlphaDither(mode)    == SetH("ALPHADITHER", 2, mode)
gDPSetAlphaCompare(type)   == SetL("ALPHACOMPARE", 2, type)
gDPSetDepthSource(src)     == SetL("ZSRCSEL", 1, src)
gDPSetRenderMode(c0, c1)   == SetL("RENDERMODE", 29, c0 \cup c1)

\* ----------------------------------------------------------- geometry flags
G_Geometry == [ZBUFFER |-> {0}, SHADE |-> {2}, CULL_FRONT |-> {9}, CULL_BACK |-> {10},
               FOG |-> {16}, LIGHTING |-> {17}, TEXTURE_GEN |-> {18},
               TEXTURE_GEN_LINEAR |-> {19}, SHADING_SMOOTH |-> {21}, CLIPPING |-> {23}]

\* ------------------------------------------------------------- render modes
\* CVG_DST_CLAMP, ZMODE_OPA and TEX_EDGE are 0.
\* Mutant: interpenetrating surfaces get the code of decals.
FlagInterAsDecal ==
        [AA_EN |-> {3}, Z_CMP |-> {4}, Z_UPD |-> {5}, IM_RD |-> {6},
         CLR_ON_CVG |-> {7}, CVG_DST_WRAP |-> {8}, CVG_DST_FULL |-> {9},
         CVG_DST_SAVE |-> {8, 9}, ZMODE_INTER |-> {10, 11}, ZMODE_XLU |-> {11},
         ZMODE_DEC |-> {10}, CVG_X_ALPHA |-> {12}, ALPHA_CVG_SEL |-> {13},
         FORCE_BL |-> {14}, AC_DITHER |-> G_AC.DITHER]
Flag == [AA_EN |-> {3}, Z_CMP |-> {4}, Z_UPD |-> {5}, IM_RD |-> {6},
         CLR_ON_CVG |-> {7}, CVG_DST_WRAP |-> {8}, CVG_DST_FULL |-> {9},
         CVG_DST_SAVE |-> {8, 9}, ZMODE_INTER |-> {10}, ZMODE_XLU |-> {11},
         ZMODE_DEC |-> {10, 11}, CVG_X_ALPHA |-> {12}, ALPHA_CVG_SEL |-> {13},
         FORCE_BL |-> {14}, AC_DITHER |-> G_AC.DITHER]

\* The blender adds its second and fourth input times its first and third.
G_BL == [CLR_IN |-> 0, CLR_MEM |-> 1, CLR_BL |-> 2, CLR_FOG |-> 3,
         ONE_MINUS_A |-> 0, A_MEM |-> 1, ONE |-> 2, ZERO |-> 3,
         A_IN |-> 0, A_FOG |-> 1, A_SHADE |-> 2]
OverCoverage == <<G_BL.CLR_IN, G_BL.A_IN, G_BL.CLR_MEM, G_BL.A_MEM>>
OverAlpha    == <<G_BL.CLR_IN, G_BL.A_IN, G_BL.CLR_MEM, G_BL.ONE_MINUS_A>>
\* Mutant: the colour kept is the one in memory, which is not read.
ReplaceOverMemory == <<G_BL.CLR_IN, G_BL.ZERO, G_BL.CLR_MEM, G_BL.ONE>>
Replace      == <<G_BL.CLR_IN, G_BL.ZERO, G_BL.CLR_IN, G_BL.ONE>>
Blender(inputs, shifts) ==
  UNION {Shift(Bits(inputs[i]), shifts[i]) : i \in 1 .. 4}
GBL_c1(inputs) == Blender(inputs, <<30, 26, 22, 18>>)
GBL_c2(inputs) == Blender(inputs, <<28, 24, 20, 16>>)

RM(names, blend) ==
  [flags |-> UNION {Flag[n] : n \in names}, blend |-> blend]
Edges == {"ALPHA_CVG_SEL"}
TexEdges == {"CVG_X_ALPHA", "ALPHA_CVG_SEL"}
Layer == {"CVG_DST_WRAP", "CLR_ON_CVG", "FORCE_BL"}

RM_AA_ZB ==
  LET Z(names, blend) == RM({"AA_EN", "Z_CMP", "IM_RD"} \cup names, blend)
      W(names, blend) == Z({"Z_UPD"} \cup names, blend)
  IN [AA_ZB_OPA_SURF  |-> W(Edges, OverCoverage),
      AA_ZB_XLU_SURF  |-> Z({"ZMODE_XLU"} \cup Layer, OverAlpha),
      AA_ZB_OPA_DECAL |-> Z({"CVG_DST_WRAP", "ZMODE_DEC"} \cup Edges, OverCoverage),
      AA_ZB_XLU_DECAL |-> Z({"ZMODE_DEC"} \cup Layer, OverAlpha),
      AA_ZB_OPA_INTER |-> W({"ZMODE_INTER"} \cup Edges, OverCoverage),
      AA_ZB_XLU_INTER |-> Z({"ZMODE_INTER"} \cup Layer, OverAlpha),
      AA_ZB_XLU_LINE  |-> Z({"FORCE_BL", "ZMODE_XLU"} \cup TexEdges, OverAlpha),
      AA_ZB_DEC_LINE  |-> Z({"CVG_DST_SAVE", "FORCE_BL", "ZMODE_DEC"} \cup TexEdges, OverAlpha),
      AA_ZB_TEX_EDGE  |-> W(TexEdges, OverCoverage),
      AA_ZB_TEX_INTER |-> W({"ZMODE_INTER"} \cup TexEdges, OverCoverage),
      AA_ZB_SUB_SURF  |-> W({"CVG_DST_FULL"} \cup Edges, OverCoverage),
      AA_ZB_PCL_SURF  |-> W({"AC_DITHER"}, OverAlpha),
      AA_ZB_OPA_TERR  |-> W(Edges, OverAlpha),
      AA_ZB_TEX_TERR  |-> W(TexEdges, OverAlpha),
      AA_ZB_SUB_TERR  |-> W({"CVG_DST_FULL"} \cup Edges, OverAlpha)]
\* Reduced anti-aliasing: the memory colour is not read.
RM_RA ==
  LET R(names) == RM({"AA_EN", "ALPHA_CVG_SEL"} \cup names, OverCoverage)
  IN [RA_ZB_OPA_SURF  |-> R({"Z_CMP", "Z_UPD"}),
      RA_ZB_OPA_DECAL |-> R({"Z_CMP", "CVG_DST_WRAP", "ZMODE_DEC"}),
      RA_ZB_OPA_INTER |-> R({"Z_CMP", "Z_UPD", "ZMODE_INTER"}),
      RA_OPA_SURF     |-> R({})]
RM_AA ==
  LET A(names, blend) == RM({"AA_EN", "IM_RD"} \cup names, blend)
  IN [AA_OPA_SURF |-> A(Edges, OverCoverage),
      AA_XLU_SURF |-> A(Layer, OverAlpha),
      AA_XLU_LINE |-> A({"FORCE_BL"} \cup TexEdges, OverAlpha),
      AA_DEC_LINE |-> A({"CVG_DST_FULL", "FORCE_BL"} \cup TexEdges, OverAlpha),
      AA_TEX_EDGE |-> A(TexEdges, OverCoverage),
      AA_SUB_SURF |-> A({"CVG_DST_FULL"} \cup Edges, OverCoverage),
      AA_PCL_SURF |-> A({"AC_DITHER"}, OverAlpha),
      AA_OPA_TERR |-> A(Edges, OverAlpha),
      AA_TEX_TERR |-> A(TexEdges, OverAlpha),
      AA_SUB_TERR |-> A({"CVG_DST_FULL"} \cup Edges, OverAlpha)]
RM_ZB ==
  LET B(names) == RM({"Z_CMP", "IM_RD", "FORCE_BL"} \cup names, OverAlpha)
  IN [ZB_OPA_SURF  |-> RM({"Z_CMP", "Z_UPD", "CVG_DST_FULL", "ALPHA_CVG_SEL"}, OverCoverage),
      ZB_XLU_SURF  |-> B({"CVG_DST_FULL", "ZMODE_XLU"}),
      ZB_OPA_DECAL |-> RM({"Z_CMP", "CVG_DST_FULL", "ALPHA_CVG_SEL", "ZMODE_DEC"}, OverCoverage),
      ZB_XLU_DECAL |-> B({"CVG_DST_FULL", "ZMODE_DEC"}),
      ZB_CLD_SURF  |-> B({"CVG_DST_SAVE", "ZMODE_XLU"}),
      ZB_OVL_SURF  |-> B({"CVG_DST_SAVE", "ZMODE_DEC"}),
      ZB_PCL_SURF  |-> RM({"Z_CMP", "Z_UPD", "CVG_DST_FULL", "AC_DITHER"}, Replace)]
RM_Plain ==
  LET F(names, blend) == RM({"FORCE_BL"} \cup names, blend)
  IN [OPA_SURF |-> F({}, Replace),
      XLU_SURF |-> F({"IM_RD", "CVG_DST_FULL"}, OverAlpha),
      TEX_EDGE |-> F({"AA_EN"} \cup TexEdges, Replace),
      CLD_SURF |-> F({"IM_RD", "CVG_DST_SAVE"}, OverAlpha),
      PCL_SURF |-> F({"CVG_DST_FULL", "AC_DITHER"}, Replace),
      ADD      |-> F({"IM_RD", "CVG_DST_SAVE"},
                     <<G_BL.CLR_IN, G_BL.A_FOG, G_BL.CLR_MEM, G_BL.ONE>>),
      NOOP     |-> RM({}, <<0, 0, 0, 0>>),
      VISCVG   |-> F({"IM_RD"}, <<G_BL.CLR_IN, G_BL.ZERO, G_BL.CLR_BL, G_BL.A_MEM>>),
      OPA_CI   |-> RM({}, Replace)]
RenderMode ==
  Joined(RM_AA_ZB, Joined(RM_RA, Joined(RM_AA, Joined(RM_ZB, RM_Plain))))
\* The names of the table, for the first and for the second cycle.
G_RM(name)  == RenderMode[name].flags \cup GBL_c1(RenderMode[name].blend)
G_RM2(name) == RenderMode[name].flags \cup GBL_c2(RenderMode[name].blend)
\* What only a first cycle of two does.
FirstCycle == [FOG_SHADE_A |-> <<G_BL.CLR_FOG, G_BL.A_SHADE, G_BL.CLR_IN, G_BL.ONE_MINUS_A>>,
               FOG_PRIM_A  |-> <<G_BL.CLR_FOG, G_BL.A_FOG, G_BL.CLR_IN, G_BL.ONE_MINUS_A>>,
               PASS        |-> Replace]

\* ------------------------------------------------------------- the combiner
G_CCMUX == [COMBINED |-> 0, TEXEL0 |-> 1, TEXEL1 |-> 2, PRIMITIVE |-> 3,
            SHADE |-> 4, ENVIRONMENT |-> 5, CENTER |-> 6, SCALE |-> 6,
            COMBINED_ALPHA |-> 7, TEXEL0_ALPHA |-> 8, TEXEL1_ALPHA |-> 9,
            PRIMITIVE_ALPHA |-> 10, SHADE_ALPHA |-> 11, ENV_ALPHA |-> 12,
            LOD_FRACTION |-> 13, PRIM_LOD_FRAC |-> 14, NOISE |-> 7, K4 |-> 7,
            K5 |-> 15, One |-> 6, Zero |-> 31]
G_ACMUX == [COMBINED |-> 0, TEXEL0 |-> 1, TEXEL1 |-> 2, PRIMITIVE |-> 3,
            SHADE |-> 4, ENVIRONMENT |-> 5, LOD_FRACTION |-> 0,
            PRIM_LOD_FRAC |-> 6, One |-> 6, Zero |-> 7]

\* (a - b) * c + d, of the colours and then of the alphas.
Only(d) == <<"Zero", "Zero", "Zero", d>>
Product(a, c) == <<a, "Zero", c, "Zero">>
Lerp(a, b, c) == <<a, b, c, b>>
Plus(a, c, d) == <<a, "Zero", c, d>>
Cleared == Only("Zero")

G_CC_Cycle1 ==
  LET T == "TEXEL0"
      U == "TEXEL1"
      S == "SHADE"
      P == "PRIMITIVE"
      E == "ENVIRONMENT"
      L == "LOD_FRACTION"
  IN [PRIMITIVE |-> Only(P) \o Only(P),
      SHADE |-> Only(S) \o Only(S),
      MODULATEI |-> Product(T, S) \o Only(S),
      MODULATEIA |-> Product(T, S) \o Product(T, S),
      MODULATEIDECALA |-> Product(T, S) \o Only(T),
      MODULATEI_PRIM |-> Product(T, P) \o Only(P),
      MODULATEIA_PRIM |-> Product(T, P) \o Product(T, P),
      MODULATEIDECALA_PRIM |-> Product(T, P) \o Only(T),
      DECALRGB |-> Only(T) \o Only(S),
      DECALRGBA |-> Only(T) \o Only(T),
      BLENDI |-> Lerp(E, S, T) \o Only(S),
      BLENDIA |-> Lerp(E, S, T) \o Product(T, S),
      BLENDIDECALA |-> Lerp(E, S, T) \o Only(T),
      BLENDRGBA |-> Lerp(T, S, "TEXEL0_ALPHA") \o Only(S),
      BLENDRGBDECALA |-> Lerp(T, S, "TEXEL0_ALPHA") \o Only(T),
      ADDRGB |-> Plus("One", T, S) \o Only(S),
      ADDRGBDECALA |-> Plus("One", T, S) \o Only(T),
      REFLECTRGB |-> Plus(E, T, S) \o Only(S),
      REFLECTRGBDECALA |-> Plus(E, T, S) \o Only(T),
      HILITERGB |-> Lerp(P, S, T) \o Only(S),
      HILITERGBA |-> Lerp(P, S, T) \o Lerp(P, S, T),
      HILITERGBDECALA |-> Lerp(P, S, T) \o Only(T),
      SHADEDECALA |-> Only(S) \o Only(T),
      BLENDPE |-> Lerp(P, E, T) \o Product(T, S),
      BLENDPEDECALA |-> Lerp(P, E, T) \o Only(T),
      _BLENDPE |-> Lerp(E, P, T) \o Product(T, S),
      _BLENDPEDECALA |-> Lerp(E, P, T) \o Only(T),
      _TWOCOLORTEX |-> Lerp(P, S, T) \o Only(S),
      _SPARSEST |-> Lerp(P, T, L) \o Lerp(P, T, L),
      TEMPLERP |-> Lerp(U, T, "PRIM_LOD_FRAC") \o Lerp(U, T, "PRIM_LOD_FRAC"),
      TRILERP |-> Lerp(U, T, L) \o Lerp(U, T, L),
      INTERFERENCE |-> Product(T, U) \o Product(T, U),
      ONECYUV2RGB |-> <<T, "K4", "K5", T>> \o Only(S),
      YUV2RGB |-> <<U, "K4", "K5", U>> \o Cleared]
G_CC_Cycle2 ==
  LET C == "COMBINED"
      T == "TEXEL0"
      S == "SHADE"
      P == "PRIMITIVE"
      E == "ENVIRONMENT"
  IN [PASS2 |-> Only(C) \o Only(C),
      MODULATEI2 |-> Product(C, S) \o Only(S),
      MODULATEIA2 |-> Product(C, S) \o Product(C, S),
      MODULATEI_PRIM2 |-> Product(C, P) \o Only(P),
      MODULATEIA_PRIM2 |-> Product(C, P) \o Product(C, P),
      DECALRGB2 |-> Only(C) \o Only(S),
      BLENDI2 |-> Lerp(E, S, C) \o Only(S),
      BLENDIA2 |-> Lerp(E, S, C) \o Product(C, S),
      CHROMA_KEY2 |-> <<T, "CENTER", "SCALE", "Zero">> \o Cleared,
      HILITERGB2 |-> Lerp(E, C, T) \o Only(S),
      HILITERGBA2 |-> Lerp(E, C, T) \o Lerp(E, C, T),
      HILITERGBDECALA2 |-> Lerp(E, C, T) \o Only(T),
      HILITERGBPASSA2 |-> Lerp(E, C, T) \o Only(C)]
G_CC == Joined(G_CC_Cycle1, G_CC_Cycle2)

Mux(m) == [i \in 1 .. 8 |-> IF i <= 4 THEN G_CCMUX[m[i]] ELSE G_ACMUX[m[i]]]
gDPSetCombineMode(a, b) == gDPSetCombineLERP(Mux(a), Mux(b))
=============================================================================
