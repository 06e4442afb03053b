----------------------------- MODULE SceneSetup -----------------------------
(***************************************************************************)
(* A game sets up lights and matrices with the macros of GbiScene, and the  *)
(* RSP runs the packets one by one on its own memory: light slots of 24     *)
(* bytes that it fills 16 bytes at a time, two look-at vectors before them, *)
(* and a stack of model-view matrices.  wanted is the scene as the game     *)
(* means it; a matrix is the sequence of those multiplied into it.          *)
(***************************************************************************)
EXTENDS GbiScene

CONSTANTS LightSets,  \* [at, lights, ambient]: structures in memory
          LookAts,    \* [at, right, up]
          LightColors,    \* colours a light may be given
          Matrices,   \* addresses of matrices
          MaxCalls    \* bound on the calls of the game

VARIABLES list,   \* the packets still to run
          dmem,   \* the RSP's words for look-at vectors and lights
          numl,   \* the word of gSPNumLights
          matrix, \* [top, stack, projection] of the RSP
          wanted, \* [lights, ambient, look, matrix]
          calls

vars == <<list, dmem, numl, matrix, wanted, calls>>

\* ---------------------------------------------------------------- memory
Image(s) == IF s.lights = <<>> THEN gdSPDefLights0(s.ambient)
            ELSE gdSPDefLights(s.ambient, s.lights)
Structures == {[at |-> s.at, image |-> Image(s)] : s \in LightSets}
  \cup {[at |-> l.at, image |-> gdSPDefLookAt(l.right, l.up)] : l \in LookAts}
\* 0 is what lies behind a structure.
WordAt(a) ==
  LET s == CHOOSE x \in Structures : \A y \in Structures :
             y.at <= a => y.at <= x.at /\ x.at <= a
      i == ((a - s.at) \div 4) + 1
  IN  IF i <= Len(s.image) THEN s.image[i] ELSE 0

\* --------------------------------------------------------------- the RSP
Field(word, first, n) == Low(Shift(word \cap (first .. 31), -first), n)
Number(word) == MapThenSumSet(LAMBDA b : 2^b, word)
\* A word as an int; colours and addresses may have bit 31.
Int32(word) ==
  LET n == Number(word \ {31}) IN IF 31 \in word THEN (n - 2^30) - 2^30 ELSE n
Part(word, first, n) == Number(Field(word, first, n))
Opcode(gfx) == Part(gfx.w0, 24, 8)

LightBase == 12     \* the first light, in words: after two look-at slots
SlotWords == 6
MoveMem(gfx) ==
  /\ Opcode(gfx) = G.MOVEMEM /\ Part(gfx.w0, 0, 8) = G_MV.LIGHT
  /\ LET first == Part(gfx.w0, 8, 8) * 2
         n == (Part(gfx.w0, 19, 5) + 1) * 2
     IN  dmem' = [i \in DOMAIN dmem |->
           IF i \in first .. (first + n - 1)
           THEN WordAt(Int32(gfx.w1) + 4 * (i - first)) ELSE dmem[i]]
  /\ UNCHANGED <<numl, matrix>>
MoveWord(gfx) ==
  /\ Opcode(gfx) = G.MOVEWORD
  /\ \/ /\ Part(gfx.w0, 16, 8) = G_MW.NUMLIGHT
        /\ numl' = Int32(gfx.w1)
        /\ UNCHANGED dmem
     \/ /\ Part(gfx.w0, 16, 8) = G_MW.LIGHTCOL
        /\ dmem' = [dmem EXCEPT ![LightBase + Part(gfx.w0, 0, 16) \div 4] = Int32(gfx.w1)]
        /\ UNCHANGED numl
  /\ UNCHANGED matrix

Onto(product, flags, m) == IF 1 \in flags THEN <<m>> ELSE Append(product, m)
\* Bit 0 set means that the model-view matrix is not saved.
SetMatrix(gfx) ==
  /\ Opcode(gfx) = G.MTX
  /\ LET flags == Low(gfx.w0, 8)
         m == Int32(gfx.w1)
     IN  \/ /\ 2 \in flags
            /\ matrix' = [matrix EXCEPT !.projection = Onto(@, flags, m)]
         \/ /\ 2 \notin flags
            /\ matrix' = [matrix EXCEPT !.top = Onto(@, flags, m),
                 !.stack = IF 0 \in flags THEN @ ELSE Append(@, matrix.top)]
  /\ UNCHANGED <<dmem, numl>>
PopMatrix(gfx) ==
  /\ Opcode(gfx) = G.POPMTX
  /\ LET keep == Len(matrix.stack) - Int32(gfx.w1) \div 64
     IN  matrix' = [matrix EXCEPT !.top = matrix.stack[keep + 1],
                                  !.stack = SubSeq(@, 1, keep)]
  /\ UNCHANGED <<dmem, numl>>

Run ==
  /\ list # <<>>
  /\ \/ MoveMem(Head(list)) \/ MoveWord(Head(list))
     \/ SetMatrix(Head(list)) \/ PopMatrix(Head(list))
  /\ list' = Tail(list)
  /\ UNCHANGED <<wanted, calls>>

\* -------------------------------------------------------------- the game
Nowhere == [top |-> <<>>, stack |-> <<>>, projection |-> <<>>]
Black == [col |-> 0, dir |-> 0]
Init ==
  /\ list = <<>>
  /\ dmem = [i \in 0 .. (LightBase + 8 * SlotWords - 1) |-> 0]
  /\ numl = NUML(NUMLIGHTS_0)
  /\ matrix = Nowhere
  /\ wanted = [lights |-> <<Black>>, ambient |-> 0, look |-> <<0, 0>>, matrix |-> Nowhere]
  /\ calls = 0

Send(packets, meant) ==
  /\ list = <<>> /\ calls < MaxCalls
  /\ list' = packets
  /\ wanted' = meant
  /\ calls' = calls + 1
  /\ UNCHANGED <<dmem, numl, matrix>>

SetLights == \E s \in LightSets :
  Send(IF s.lights = <<>> THEN gSPSetLights0(s.at) ELSE gSPSetLights(Len(s.lights), s.at),
       [wanted EXCEPT !.ambient = s.ambient,
          !.lights = IF s.lights = <<>> THEN <<Black>> ELSE s.lights])

\* The light after the directional ones is the ambient light.
SetLightColor == \E n \in 1 .. (Len(wanted.lights) + 1), c \in LightColors :
  Send(gSPLightColor(n, c),
       IF n > Len(wanted.lights) THEN [wanted EXCEPT !.ambient = c]
       ELSE [wanted EXCEPT !.lights[n].col = c])

LookAt == \E l \in LookAts :
  Send(gSPLookAt(l.at), [wanted EXCEPT !.look = <<l.right, l.up>>])

UseMatrix == \E m \in Matrices, how \in {G_MTX.MUL, G_MTX.LOAD} :
  \/ Send(<<gSPMatrix(m, G_MTX.PROJECTION + how + G_MTX.NOPUSH)>>,
          [wanted EXCEPT !.matrix.projection =
             IF how = G_MTX.LOAD THEN <<m>> ELSE Append(@, m)])
  \/ \E push \in {G_MTX.PUSH, G_MTX.NOPUSH} :
       Send(<<gSPMatrix(m, G_MTX.MODELVIEW + how + push)>>,
            [wanted EXCEPT
               !.matrix.top = IF how = G_MTX.LOAD THEN <<m>> ELSE Append(@, m),
               !.matrix.stack = IF push = G_MTX.PUSH
                                THEN Append(@, wanted.matrix.top) ELSE @])

DropMatrix == \E n \in 1 .. Len(wanted.matrix.stack) :
  LET keep == Len(wanted.matrix.stack) - n
  IN  Send(<<IF n = 1 THEN gSPPopMatrix ELSE gSPPopMatrixN(n)>>,
           [wanted EXCEPT !.matrix.top = wanted.matrix.stack[keep + 1],
                          !.matrix.stack = SubSeq(@, 1, keep)])

Next == Run \/ SetLights \/ SetLightColor \/ LookAt \/ UseMatrix \/ DropMatrix
Spec == Init /\ [][Next]_vars

\* ---------------------------------------------------------------- properties
\* The slot of a light as the RSP reads it; the colour is read from either copy.
Slot(n) == LightBase + (n - 1) * SlotWords
Lit == [n \in 1 .. (numl \div 24) |-> [col |-> dmem[Slot(n)], dir |-> dmem[Slot(n) + 2]]]
Copies == {n \in 1 .. ((numl \div 24) + 1) : dmem[Slot(n)] # dmem[Slot(n) + 1]}

\* When its packets have run, the RSP lights with exactly the lights the game
\* set last, recoloured as it asked, the ambient light being the one after them;
\* both copies of every colour agree; and the look-at vectors are untouched by
\* lights, and lights by them.  Lights of a larger earlier set never shine
\* through.
LightsAsWanted ==
  list = <<>> =>
    /\ Lit = wanted.lights
    /\ dmem[Slot((numl \div 24) + 1)] = wanted.ambient
    /\ Copies = {}
    /\ <<dmem[2], dmem[SlotWords + 2]>> = wanted.look

\* A pop brings back the matrix that was there before the push it undoes,
\* whatever was loaded or multiplied in between, and what the game did not push
\* is not popped.
MatricesAsWanted == list = <<>> => matrix = wanted.matrix
=============================================================================
