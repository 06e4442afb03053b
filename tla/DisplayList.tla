----------------------------- MODULE DisplayList -----------------------------
(***************************************************************************)
(* Display lists of everything the macros of gbi.h make: single packets     *)
(* (GbiCommands), textures and palettes (TextureLoads), rendering modes      *)
(* (DisplayModes), lights and matrices (SceneSetup).  The RSP and the RDP    *)
(* keep the state of each apart, and no packet of one names another's, so a  *)
(* list follows one part.                                                    *)
(***************************************************************************)
EXTENDS DisplayModes

CONSTANTS
  Arguments, Positions, Steps, Quads, FogBands,   \* of GbiCommands
  Shapes,     \* loads that are followed one at a time
  Loads,      \* loads that are followed one after the other
  MaxLoads,   \* bound on those of a list
  LightSets, LookAts, LightColors, Matrices,    \* of SceneSetup
  LightCalls, MatrixCalls    \* bounds on the calls about lights, and about matrices

VARIABLES
  part,       \* what the list is made of
  packet,                                                          \* packets
  todo, loads, timg, tiles, tmem, loading, pipe, bound, tlut,      \* textures
  list, dmem, numl, matrix, wanted, calls                          \* scene

textures == <<todo, loads, timg, tiles, tmem, loading, pipe, bound, tlut>>
scene    == <<list, dmem, numl, matrix, wanted, calls>>
allVars  == <<part, packet, textures, vars, scene>>

Packets == INSTANCE GbiCommands WITH sent <- packet

OneLoad    == INSTANCE TextureLoads WITH Calls <- Shapes, MaxLoads <- 1
LoadsInRow == INSTANCE TextureLoads WITH Calls <- Loads

Lighting  == INSTANCE SceneSetup WITH Matrices <- {}, MaxCalls <- LightCalls
Transform == INSTANCE SceneSetup WITH LightSets <- {}, LookAts <- {}, LightColors <- {},
               MaxCalls <- MatrixCalls

ASSUME ListAssumption ==
  /\ Arguments \subseteq Int
  /\ MaxLoads \in Nat

\* An int of 32 bits.
IsInt32(v) == v \in Int /\ -2147483647 - 1 <= v /\ v <= 2147483647

\* Matrices lie anywhere; the bytes of as many as can be pushed are an int.
ASSUME MatrixAssumption ==
  /\ \A m \in Matrices : IsInt32(m)
  /\ MatrixCalls \in Nat /\ MatrixCalls <= 33554431

\* Structures lie anywhere in memory, and apart.
ASSUME LightAssumption ==
  /\ \A s \in LightSets :
       /\ IsInt32(s.at) /\ IsInt32(s.at + 120)
       /\ s.lights \in Seq([col : Int, dir : Int]) /\ Len(s.lights) <= 7
       /\ s.ambient \in Int
  /\ \A l \in LookAts : IsInt32(l.at) /\ IsInt32(l.at + 16)
  /\ \A c \in LightColors : IsInt32(c)
  /\ \A x, y \in Lighting!Structures :
       \/ x = y
       \/ x.at + 4 * Len(x.image) <= y.at
       \/ y.at + 4 * Len(y.image) <= x.at
  /\ LightCalls \in Nat

\* A vertex index is stored twice as large in a byte.
ASSUME QuadAssumption ==
  \A v \in Quads : /\ v \in Seq(0 .. 127) /\ Len(v) = 4
                   /\ \A i, j \in 1 .. 4 : v[i] = v[j] => i = j

\* Positions reach a little beyond the 1024 pixels of the screen's coordinates,
\* never so far that a step per pixel leaves the 16 bits of a texture coordinate.
ASSUME RectAssumption ==
  /\ \A x \in Positions : x \in Int /\ -32768 <= x /\ x <= 4095
  /\ \A step \in Steps : step \in Int /\ -32768 <= step /\ step <= 32767
  /\ \A x \in Positions, step \in Steps :
       x < 0 => -32000 <= (x * step) \div 128 /\ (x * step) \div 128 <= 32000

\* z is from 0 to 1000.
ASSUME FogAssumption ==
  \A band \in FogBands : /\ band[1] \in 0 .. 1000 /\ band[2] \in 0 .. 1000
                         /\ band[1] < band[2]
-----------------------------------------------------------------------------
Parts == {"packets", "one load", "loads", "modes", "lights", "matrices"}

AllInit ==
  /\ part \in Parts
  /\ Packets!Init /\ LoadsInRow!Init /\ Init /\ Transform!Init
  /\ part # "modes" => ~expert /\ shadow = Start /\ holds = CHOOSE h \in Lists : TRUE

WritePackets == part = "packets" /\ Packets!Next /\ UNCHANGED <<textures, vars, scene>>

LoadTextures ==
  /\ \/ part = "one load" /\ OneLoad!Next
     \/ part = "loads" /\ LoadsInRow!Next
  /\ UNCHANGED <<packet, vars, scene>>

SetModes == part = "modes" /\ Next /\ UNCHANGED <<packet, textures, scene>>

SetScene ==
  /\ \/ part = "lights" /\ Lighting!Next
     \/ part = "matrices" /\ Transform!Next
  /\ UNCHANGED <<packet, textures, vars>>

AllNext ==
  /\ WritePackets \/ LoadTextures \/ SetModes \/ SetScene
  /\ UNCHANGED part

AllSpec == AllInit /\ [][AllNext]_allVars
-----------------------------------------------------------------------------
\* GbiCommands: an argument that is too large spoils its own field only.
OpcodeKept == Packets!OpcodeKept
\* GbiCommands: the fields of a packet hold the arguments, cut to their width.
FieldsKept == Packets!FieldsKept
\* GbiCommands: both triangles of a quadrangle face the way it does.
QuadsKeepTheirOutline == Packets!QuadsKeepTheirOutline
\* GbiCommands: a clipped rectangle shows the texels it showed unclipped.
ClippedRectKeepsTexels == Packets!ClippedRectKeepsTexels
\* GbiCommands: fog thickens from min to max, unless its band is too narrow.
FogThickens == Packets!FogThickens

\* TextureLoads: a primitive finds every texel of its image, if the call is one
\* the macros can serve, whatever else is loaded before and after.
TexelsInPlace == LoadsInRow!TexelsInPlace
\* TextureLoads: no palette overlaps another.
PalettesApart == LoadsInRow!PalettesApart

\* SceneSetup: the RSP lights with the lights the game set last.
LightsAsWanted == Lighting!LightsAsWanted
\* SceneSetup: a pop brings back what its push saved.
MatricesAsWanted == Transform!MatricesAsWanted
=============================================================================
