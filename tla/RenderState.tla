---------------------------- MODULE RenderState ----------------------------
(***************************************************************************)
(* What the mode macros of gbi.h promise a game: a rendering state made of  *)
(* settings that do not disturb one another.  asked is the call the game    *)
(* made last.                                                               *)
(***************************************************************************)
CONSTANTS Options,   \* the values of every option
          Surfaces,  \* render modes: [flags, first, second, dithers]
          AllSettings, \* what an expert sets all options to
          Sources,   \* pairs of combiner equations
          Flags      \* names of the geometry flags

VARIABLES asked, option, surface, combine, geometry

settings == <<option, surface, combine, geometry>>

Init ==
  /\ asked = <<>>
  /\ option \in [DOMAIN Options -> UNION {Options[o] : o \in DOMAIN Options}]
  /\ \A o \in DOMAIN Options : option[o] \in Options[o]
  /\ surface \in {s.look : s \in Surfaces}
  /\ combine \in Sources
  /\ geometry = {}

\* The modes of particles bring a dithered alpha compare with them, which the
\* mode that follows does not take back.
After(values, s) ==
  [values EXCEPT !["ALPHACOMPARE"] = IF s.dithers THEN "DITHER" ELSE @]

SetOption(o, value) ==
  /\ asked' = <<o, value>>
  /\ option' = [option EXCEPT ![o] = value]
  /\ UNCHANGED <<surface, combine, geometry>>

SetSurface(s) ==
  /\ asked' = <<"surface", s>>
  /\ surface' = s.look
  /\ option' = After(option, s)
  /\ UNCHANGED <<combine, geometry>>

SetAll(values, s) ==
  /\ asked' = <<"all", values, s>>
  /\ surface' = s.look
  /\ option' = After(values, s)
  /\ UNCHANGED <<combine, geometry>>

SetCombine(pair) ==
  /\ asked' = <<"combine", pair>>
  /\ combine' = pair
  /\ UNCHANGED <<option, surface, geometry>>

\* Clears and then sets.
SetGeometry(cleared, set) ==
  /\ asked' = <<"geometry", cleared, set>>
  /\ geometry' = (geometry \ cleared) \cup set
  /\ UNCHANGED <<option, surface, combine>>

\* Asking for the same again changes nothing.
Next ==
  /\ asked' # asked
  /\ \/ \E o \in DOMAIN Options : \E value \in Options[o] : SetOption(o, value)
     \/ \E s \in Surfaces : SetSurface(s)
     \/ \E values \in AllSettings, s \in Surfaces : SetAll(values, s)
     \/ \E pair \in Sources : SetCombine(pair)
     \/ \E cleared, set \in SUBSET Flags : SetGeometry(cleared, set)

Spec == Init /\ [][Next]_<<asked, settings>>
=============================================================================
