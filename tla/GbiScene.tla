------------------------------ MODULE GbiScene ------------------------------
(***************************************************************************)
(* Lights, look-at vectors and matrices of include/ultra64/gbi.h: how the   *)
(* structures lie in memory, as sequences of 32-bit words, and the macros   *)
(* that send them.  A light is [col, dir]; a colour or direction is a word. *)
(***************************************************************************)
EXTENDS Gbi

SizeofAmbient == 8

\* A colour lies twice in memory, then the direction, then padding.
Ambient(col) == <<col, col>>
Light(l) == <<l.col, l.col, l.dir, 0>>
gdSPDefLights0(amb) == Ambient(amb) \o Light([col |-> 0, dir |-> 0])
gdSPDefLights(amb, lights) ==
  Ambient(amb) \o [i \in 1 .. 4 * Len(lights) |->
                     Light(lights[((i - 1) \div 4) + 1])[((i - 1) % 4) + 1]]
\* The second colour, (0, 0x80, 0), serves highlights.
gdSPDefLookAt(right, up) ==
  Light([col |-> 0, dir |-> right]) \o Light([col |-> 2^23, dir |-> up])

\* &name.a and &name.l[k]
A(name) == name
L(name, k) == name + SizeofAmbient + k * SizeofLight
NUMLIGHTS_0 == 1
\* Mutant: the ambient light in the place of a directional one.
AmbientEarly(n, name) ==
  <<gSPNumLights(n)>> \o [k \in 1 .. n |-> gSPLight(L(name, k - 1), k)]
    \o <<gSPLight(A(name), n)>>
gSPSetLights(n, name) ==
  <<gSPNumLights(n)>> \o [k \in 1 .. n |-> gSPLight(L(name, k - 1), k)]
    \o <<gSPLight(A(name), n + 1)>>
gSPSetLights0(name) ==
  <<gSPNumLights(NUMLIGHTS_0), gSPLight(L(name, 0), 1), gSPLight(A(name), 2)>>

G_MTX == [MODELVIEW |-> 0, PROJECTION |-> 4, MUL |-> 0, LOAD |-> 2,
          NOPUSH |-> 0, PUSH |-> G_MTX_PUSH]
=============================================================================
