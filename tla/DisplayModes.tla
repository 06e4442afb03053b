---------------------------- MODULE DisplayModes ----------------------------
(***************************************************************************)
(* A game sets rendering modes with the macros of GbiModes; the RSP keeps a *)
(* shadow of the two othermode words and replaces in it the bits a packet   *)
(* names, then sends the RDP both words.  A list is either written by an    *)
(* expert (gDPSetOtherMode only) or with one macro per option: gbi.h 2801   *)
(* forbids to mix them, because the shadow does not follow.                 *)
(***************************************************************************)
EXTENDS GbiModes

CONSTANTS RenderModes,   \* names of RenderMode in use
          Presets,       \* names of G_CC in use
          GeometryFlags, \* names of G_Geometry in use
          Lists          \* [families, modes, presets, max]: the kinds of commands
                         \* a list holds, with which modes and presets, how many

ASSUME ModesAssumption ==
  /\ RenderModes \subseteq DOMAIN RenderMode
  /\ Presets \subseteq DOMAIN G_CC
  /\ GeometryFlags \subseteq DOMAIN G_Geometry
  /\ Lists \subseteq
       [families : SUBSET {"options", "surfaces", "expert", "combine", "geometry"},
        modes : SUBSET RenderModes, presets : SUBSET Presets, max : Nat]

VARIABLES asked,   \* the last call
          shadow,  \* the RSP's copy of the othermode words
          rdp,     \* the RDP's othermode words, and its combiner packet
          mode,    \* the RSP's geometry mode
          holds,   \* what this list may hold
          expert,  \* who writes it
          sent     \* commands in the list so far

vars == <<asked, shadow, rdp, mode, holds, expert, sent>>

\* --------------------------------------------------- the RSP and the RDP
Field(word, first, n) == Low(Shift(word \cap (first .. 31), -first), n)
Number(word) == MapThenSumSet(LAMBDA b : 2^b, word)
Opcode(gfx) == Number(Field(gfx.w0, 24, 8))

Replaced(word, gfx) ==
  LET len == Number(Field(gfx.w0, 0, 8)) + 1
      sft == 32 - len - Number(Field(gfx.w0, 8, 8))
  IN  (word \ (sft .. (sft + len - 1))) \cup gfx.w1

Execute(gfx) ==
  \/ /\ Opcode(gfx) = G.SETOTHERMODE_H
     /\ shadow' = [shadow EXCEPT !.H = Replaced(@, gfx)]
     /\ rdp' = [rdp EXCEPT !.H = Low(shadow'.H, 24), !.L = shadow'.L]
     /\ UNCHANGED mode
  \/ /\ Opcode(gfx) = G.SETOTHERMODE_L
     /\ shadow' = [shadow EXCEPT !.L = Replaced(@, gfx)]
     /\ rdp' = [rdp EXCEPT !.H = Low(shadow'.H, 24), !.L = shadow'.L]
     /\ UNCHANGED mode
  \/ /\ Opcode(gfx) = RDP.OTHERMODE
     /\ rdp' = [rdp EXCEPT !.H = Low(gfx.w0, 24), !.L = gfx.w1]
     /\ UNCHANGED <<shadow, mode>>
  \/ /\ Opcode(gfx) = RDP.COMBINE
     /\ rdp' = [rdp EXCEPT !.C = gfx]
     /\ UNCHANGED <<shadow, mode>>
  \/ /\ Opcode(gfx) = G.GEOMETRYMODE
     /\ mode' = (mode \cap Low(gfx.w0, 24)) \cup gfx.w1
     /\ UNCHANGED <<shadow, rdp>>

\* --------------------------------------------------------------- the game
Options ==
  [PIPELINE |-> G_PM, CYCLETYPE |-> G_CYC, TEXTPERSP |-> G_TP, TEXTDETAIL |-> G_TD,
   TEXTLOD |-> G_TL, TEXTLUT |-> G_TT, TEXTFILT |-> G_TF, TEXTCONV |-> G_TC,
   COMBKEY |-> G_CK, RGBDITHER |-> G_CD, ALPHADITHER |-> G_AD,
   ALPHACOMPARE |-> G_AC, ZSRCSEL |-> G_ZS]
InL == {"ALPHACOMPARE", "ZSRCSEL"}
Names == [o \in DOMAIN Options |-> DOMAIN Options[o]]

\* A mode in both cycles, or in the second after the fog or nothing.
Pairs(names) == {<<name, name>> : name \in names}
                  \cup {<<first, name>> : first \in DOMAIN FirstCycle, name \in names}
C0(pair) == IF pair[1] \in DOMAIN FirstCycle THEN GBL_c1(FirstCycle[pair[1]])
            ELSE G_RM(pair[1])
C1(pair) == G_RM2(pair[2])
Surface(pair) ==
  LET second == RenderMode[pair[2]]
      first == IF pair[1] \in DOMAIN FirstCycle THEN FirstCycle[pair[1]]
               ELSE second.blend
  IN  [look |-> [flags |-> second.flags \cap (3 .. 15), first |-> first,
                 second |-> second.blend],
       dithers |-> G_AC.DITHER \subseteq second.flags]

AllSurfaces == {Surface(pair) : pair \in Pairs(RenderModes) \cup {<<"NOOP", "NOOP">>}}

Plainest == [o \in DOMAIN Options |->
               CHOOSE name \in DOMAIN Options[o] : Options[o][name] = {}]
AllAtOnce == {Plainest} \cup
  UNION {{[Plainest EXCEPT ![o] = name] : name \in Names[o]} : o \in DOMAIN Options}
ModeA(values) == UNION {Options[o][values[o]] : o \in DOMAIN Options \ InL}
ModeB(values) == UNION {Options[o][values[o]] : o \in InL}

Equations(names) ==
  {<<G_CC[a], G_CC[b]>> : a \in names \cap DOMAIN G_CC_Cycle1,
                          b \in names \cap DOMAIN G_CC_Cycle2}
    \cup {<<G_CC[a], G_CC[a]>> : a \in names}
AllSources == Equations(Presets) \cup {<<G_CC.SHADE, G_CC.SHADE>>}

FlagsWord(names) == UNION {G_Geometry[n] : n \in names}

Start == [H |-> {}, L |-> C0(<<"NOOP", "NOOP">>) \cup C1(<<"NOOP", "NOOP">>)]
Init ==
  /\ asked = <<>>
  /\ shadow \in {Start, [Start EXCEPT !.H = ModeA([o \in DOMAIN Options |->
       CHOOSE n \in Names[o] : \A m \in Names[o] :
         Number(Options[o][m]) <= Number(Options[o][n])])]}
  /\ rdp = [H |-> shadow.H, L |-> shadow.L,
            C |-> gDPSetCombineMode(G_CC.SHADE, G_CC.SHADE)]
  /\ mode = {}
  /\ holds \in Lists
  /\ expert \in IF "expert" \in holds.families THEN BOOLEAN ELSE {FALSE}
  /\ sent = 0

Send(call, gfx) ==
  /\ sent < holds.max
  /\ sent' = sent + 1
  /\ asked' = call
  /\ Execute(gfx)
  /\ UNCHANGED <<holds, expert>>

SetOption ==
  LET Ask(option, values, Macro(_)) ==
        \E name \in DOMAIN values : Send(<<option, name>>, Macro(values[name]))
  IN  /\ "options" \in holds.families /\ ~expert
      /\ \/ Ask("PIPELINE", G_PM, gDPPipelineMode)
         \/ Ask("CYCLETYPE", G_CYC, gDPSetCycleType)
         \/ Ask("TEXTPERSP", G_TP, gDPSetTexturePersp)
         \/ Ask("TEXTDETAIL", G_TD, gDPSetTextureDetail)
         \/ Ask("TEXTLOD", G_TL, gDPSetTextureLOD)
         \/ Ask("TEXTLUT", G_TT, gDPSetTextureLUT)
         \/ Ask("TEXTFILT", G_TF, gDPSetTextureFilter)
         \/ Ask("TEXTCONV", G_TC, gDPSetTextureConvert)
         \/ Ask("COMBKEY", G_CK, gDPSetCombineKey)
         \/ Ask("RGBDITHER", G_CD, gDPSetColorDither)
         \/ Ask("ALPHADITHER", G_AD, gDPSetAlphaDither)
         \/ Ask("ALPHACOMPARE", G_AC, gDPSetAlphaCompare)
         \/ Ask("ZSRCSEL", G_ZS, gDPSetDepthSource)

SetSurface ==
  /\ "surfaces" \in holds.families /\ ~expert
  /\ \E pair \in Pairs(holds.modes) :
       Send(<<"surface", Surface(pair)>>, gDPSetRenderMode(C0(pair), C1(pair)))

SetAll ==
  /\ expert
  /\ \E values \in AllAtOnce, name \in holds.modes : LET pair == <<name, name>> IN
       Send(<<"all", values, Surface(pair)>>,
            gDPSetOtherMode(ModeA(values), ModeB(values) \cup C0(pair) \cup C1(pair)))

SetCombine ==
  /\ "combine" \in holds.families
  /\ \E pair \in Equations(holds.presets) :
       Send(<<"combine", pair>>, gDPSetCombineMode(pair[1], pair[2]))

SetGeometry ==
  /\ "geometry" \in holds.families
  /\ \E s \in SUBSET GeometryFlags :
       \/ Send(<<"geometry", {}, s>>, gSPSetGeometryMode(FlagsWord(s)))
       \/ Send(<<"geometry", s, {}>>, gSPClearGeometryMode(FlagsWord(s)))
       \/ Send(<<"geometry", GeometryFlags, s>>, gSPLoadGeometryMode(FlagsWord(s)))
       \/ \E c \in SUBSET GeometryFlags :
            Send(<<"geometry", c, s>>, gSPGeometryMode(FlagsWord(c), FlagsWord(s)))

Next == SetOption \/ SetSurface \/ SetAll \/ SetCombine \/ SetGeometry

Spec == Init /\ [][Next]_vars

\* ------------------------------------------- what the hardware makes of it
OptionOf(o) ==
  LET word == IF o \in InL THEN rdp.L ELSE rdp.H
      all == UNION {Options[o][n] : n \in Names[o]}
      is == {n \in Names[o] : Options[o][n] = word \cap all}
  IN  IF is = {} THEN "none" ELSE CHOOSE n \in is : TRUE
Inputs(shifts) == [i \in 1 .. 4 |-> Number(Field(rdp.L, shifts[i], 2))]
Look == [flags |-> rdp.L \cap (3 .. 15), first |-> Inputs(<<30, 26, 22, 18>>),
         second |-> Inputs(<<28, 24, 20, 16>>)]

\* What the RDP takes from a code in each slot of the combiner.
Colours == <<"COMBINED", "TEXEL0", "TEXEL1", "PRIMITIVE", "SHADE", "ENVIRONMENT">>
Slot(i) ==
  CASE i = 1 -> Colours \o <<"One", "NOISE">>
    [] i = 2 -> Colours \o <<"CENTER", "K4">>
    [] i = 3 -> Colours \o <<"SCALE", "COMBINED_ALPHA", "TEXEL0_ALPHA", "TEXEL1_ALPHA",
                  "PRIMITIVE_ALPHA", "SHADE_ALPHA", "ENV_ALPHA", "LOD_FRACTION",
                  "PRIM_LOD_FRAC", "K5">>
    [] i = 7 -> <<"LOD_FRACTION">> \o Tail(Colours) \o <<"PRIM_LOD_FRAC">>
    [] OTHER -> Colours \o <<"One">>
Source(i, code) == IF code < Len(Slot(i)) THEN Slot(i)[code + 1] ELSE "Zero"
\* Where the slots lie, from the lowest bit of the two words: <<bit, bits>>.
Layout == << << <<52, 4>>, <<28, 4>>, <<47, 5>>, <<15, 3>>,
                <<44, 3>>, <<12, 3>>, <<41, 3>>, <<9, 3>> >>,
             << <<37, 4>>, <<24, 4>>, <<32, 5>>, <<6, 3>>,
                <<21, 3>>, <<3, 3>>, <<18, 3>>, <<0, 3>> >> >>
SourcesOf(cycle) ==
  LET all == Shift(rdp.C.w0, 32) \cup rdp.C.w1
      code(i) == Number({b - Layout[cycle][i][1] : b \in all \cap
        (Layout[cycle][i][1] .. (Layout[cycle][i][1] + Layout[cycle][i][2] - 1))})
  IN  [i \in 1 .. 8 |-> Source(i, code(i))]

State == INSTANCE RenderState WITH
  Options <- Names,
  AllSettings <- AllAtOnce,
  Surfaces <- AllSurfaces,
  Sources <- AllSources,
  Flags <- GeometryFlags,
  option <- [o \in DOMAIN Options |-> OptionOf(o)],
  surface <- Look,
  combine <- <<SourcesOf(1), SourcesOf(2)>>,
  geometry <- {n \in GeometryFlags : G_Geometry[n] \subseteq mode}

\* Whatever the order of the calls, the hardware ends up with what was asked
\* last for each setting: no macro disturbs another's bits, no two settings
\* overlap, and names mean the same to the RDP as to the programmer.
ImplementsRenderState == State!Spec

\* A translucent surface or a decal never writes depth: it would hide what
\* lies behind it, or fight with the surface it lies on.
LayersKeepDepth ==
  Field(rdp.L, 10, 2) \in {{1}, {0, 1}} => Flag.Z_UPD \cap rdp.L = {}

\* A blend that is forced on every pixel and takes the colour in memory, in the
\* last cycle, needs that colour to be read.
BlendedIsRead ==
  LET last == IF OptionOf("CYCLETYPE") = "TWOCYCLE" THEN Look.second ELSE Look.first
  IN  (Flag.FORCE_BL \subseteq rdp.L /\ last[3] = G_BL.CLR_MEM)
        => Flag.IM_RD \subseteq rdp.L
=============================================================================
