------------------------- MODULE DisplayStateProofs -------------------------
(***************************************************************************)
(* Machine-checked proofs about DisplayList, for every choice of modes,    *)
(* presets, flags and lists: after any list of calls the words the RSP     *)
(* and the RDP hold read back as what the game asked last.                 *)
(***************************************************************************)
EXTENDS DisplayListProofs, SequenceTheorems

-----------------------------------------------------------------------------
(* The values of each option, as words.                                    *)

\* Words moved by a number of bits.
LEMMA ShiftOf ==
    /\ \A s : Shift({}, s) = {}
    /\ \A a, s : Shift({a}, s) = {a + s}
    /\ \A a, b, s : Shift({a, b}, s) = {a + s, b + s}
BY DEF Shift

\* Fields of few bits, moved into place.
LEMMA WordsOf ==
    /\ \A s : Shift(Bits(0), s) = {}
    /\ \A s : Shift(Bits(1), s) = {0 + s}
    /\ \A s : Shift(Bits(2), s) = {1 + s}
    /\ \A s : Shift(Bits(3), s) = {0 + s, 1 + s}
    /\ \A s : Shift(Bits(5), s) = {0 + s, 2 + s}
    /\ \A s : Shift(Bits(6), s) = {1 + s, 2 + s}
<1>1. \A s : Shift(Bits(0), s) = {}
    BY BitsOf, ShiftOf
<1>2. \A s : Shift(Bits(1), s) = {0 + s}
    BY BitsOf, ShiftOf
<1>3. \A s : Shift(Bits(2), s) = {1 + s}
    BY BitsOf, ShiftOf
<1>4. \A s : Shift(Bits(3), s) = {0 + s, 1 + s}
    BY BitsOf, ShiftOf
<1>5. \A s : Shift(Bits(5), s) = {0 + s, 2 + s}
    BY BitsOf, ShiftOf
<1>6. \A s : Shift(Bits(6), s) = {1 + s, 2 + s}
    BY BitsOf, ShiftOf
<1> QED
    BY <1>1, <1>2, <1>3, <1>4, <1>5, <1>6

\* A literal code, moved into place.
LEMMA ValueOf ==
    ASSUME NEW option, NEW codes
    PROVE  /\ DOMAIN Values(option, codes) = DOMAIN codes
           /\ \A name \in DOMAIN codes :
                  Values(option, codes)[name] = Shift(Bits(codes[name]), G_MDSFT[option])
BY Zenon DEF Values

\* The values of an option take the bits of area, each its own, and one of them none.
Fits(values, area) ==
    /\ \A n \in DOMAIN values : values[n] \subseteq area
    /\ \A b \in area : \E n \in DOMAIN values : b \in values[n]
    /\ \A m, n \in DOMAIN values : values[m] = values[n] => m = n
    /\ \E n \in DOMAIN values : values[n] = {}

\* As many values as an option has have a largest one.
Few(names) == \E a, b, c, d : names = {a, b, c, d}

\* The values of G_PM fit its bits.
LEMMA G_PM_Words ==
    /\ DOMAIN G_PM = {"NPRIMITIVE", "ONEPRIMITIVE"}
    /\ G_PM["NPRIMITIVE"] = {}
    /\ G_PM["ONEPRIMITIVE"] = {23}
    /\ Fits(G_PM, 23 .. 23) /\ Few(DOMAIN G_PM)
<1> DEFINE c == [NPRIMITIVE |-> 0, ONEPRIMITIVE |-> 1]
<1>1. G_MDSFT["PIPELINE"] = 23
    BY DEF G_MDSFT
<1>2. /\ DOMAIN c = {"NPRIMITIVE", "ONEPRIMITIVE"}
      /\ c["NPRIMITIVE"] = 0
      /\ c["ONEPRIMITIVE"] = 1
    OBVIOUS
<1> HIDE DEF c
<1>3. G_PM = Values("PIPELINE", c)
    BY Zenon DEF G_PM, c
<1>4. DOMAIN G_PM = DOMAIN c
    BY <1>3, ValueOf, Zenon
<1>5. \A name \in DOMAIN c : G_PM[name] = Shift(Bits(c[name]), G_MDSFT["PIPELINE"])
    BY <1>3, ValueOf, Zenon
<1>6. /\ DOMAIN G_PM = {"NPRIMITIVE", "ONEPRIMITIVE"}
      /\ G_PM["NPRIMITIVE"] = {}
      /\ G_PM["ONEPRIMITIVE"] = {23}
    BY <1>1, <1>2, <1>4, <1>5, WordsOf
<1>7. Fits(G_PM, 23 .. 23)
    BY <1>6 DEF Fits
<1>8. DOMAIN G_PM = {"NPRIMITIVE", "ONEPRIMITIVE", "ONEPRIMITIVE", "ONEPRIMITIVE"}
    BY <1>6
<1>9. Few(DOMAIN G_PM)
    BY <1>8 DEF Few
<1> QED
    BY <1>6, <1>7, <1>9

\* The values of G_CYC fit its bits.
LEMMA G_CYC_Words ==
    /\ DOMAIN G_CYC = {"ONECYCLE", "TWOCYCLE", "COPY", "FILL"}
    /\ G_CYC["ONECYCLE"] = {}
    /\ G_CYC["TWOCYCLE"] = {20}
    /\ G_CYC["COPY"] = {21}
    /\ G_CYC["FILL"] = {20, 21}
    /\ Fits(G_CYC, 20 .. 21) /\ Few(DOMAIN G_CYC)
<1> DEFINE c == [ONECYCLE |-> 0, TWOCYCLE |-> 1, COPY |-> 2, FILL |-> 3]
<1>1. G_MDSFT["CYCLETYPE"] = 20
    BY DEF G_MDSFT
<1>2. /\ DOMAIN c = {"ONECYCLE", "TWOCYCLE", "COPY", "FILL"}
      /\ c["ONECYCLE"] = 0
      /\ c["TWOCYCLE"] = 1
      /\ c["COPY"] = 2
      /\ c["FILL"] = 3
    OBVIOUS
<1> HIDE DEF c
<1>3. G_CYC = Values("CYCLETYPE", c)
    BY Zenon DEF G_CYC, c
<1>4. DOMAIN G_CYC = DOMAIN c
    BY <1>3, ValueOf, Zenon
<1>5. \A name \in DOMAIN c : G_CYC[name] = Shift(Bits(c[name]), G_MDSFT["CYCLETYPE"])
    BY <1>3, ValueOf, Zenon
<1>6. /\ DOMAIN G_CYC = {"ONECYCLE", "TWOCYCLE", "COPY", "FILL"}
      /\ G_CYC["ONECYCLE"] = {}
      /\ G_CYC["TWOCYCLE"] = {20}
      /\ G_CYC["COPY"] = {21}
      /\ G_CYC["FILL"] = {20, 21}
    BY <1>1, <1>2, <1>4, <1>5, WordsOf
<1>7. Fits(G_CYC, 20 .. 21)
    BY <1>6 DEF Fits
<1>8. DOMAIN G_CYC = {"ONECYCLE", "TWOCYCLE", "COPY", "FILL"}
    BY <1>6
<1>9. Few(DOMAIN G_CYC)
    BY <1>8 DEF Few
<1> QED
    BY <1>6, <1>7, <1>9

\* The values of G_TP fit its bits.
LEMMA G_TP_Words ==
    /\ DOMAIN G_TP = {"NONE", "PERSP"}
    /\ G_TP["NONE"] = {}
    /\ G_TP["PERSP"] = {19}
    /\ Fits(G_TP, 19 .. 19) /\ Few(DOMAIN G_TP)
<1> DEFINE c == [NONE |-> 0, PERSP |-> 1]
<1>1. G_MDSFT["TEXTPERSP"] = 19
    BY DEF G_MDSFT
<1>2. /\ DOMAIN c = {"NONE", "PERSP"}
      /\ c["NONE"] = 0
      /\ c["PERSP"] = 1
    OBVIOUS
<1> HIDE DEF c
<1>3. G_TP = Values("TEXTPERSP", c)
    BY Zenon DEF G_TP, c
<1>4. DOMAIN G_TP = DOMAIN c
    BY <1>3, ValueOf, Zenon
<1>5. \A name \in DOMAIN c : G_TP[name] = Shift(Bits(c[name]), G_MDSFT["TEXTPERSP"])
    BY <1>3, ValueOf, Zenon
<1>6. /\ DOMAIN G_TP = {"NONE", "PERSP"}
      /\ G_TP["NONE"] = {}
      /\ G_TP["PERSP"] = {19}
    BY <1>1, <1>2, <1>4, <1>5, WordsOf
<1>7. Fits(G_TP, 19 .. 19)
    BY <1>6 DEF Fits
<1>8. DOMAIN G_TP = {"NONE", "PERSP", "PERSP", "PERSP"}
    BY <1>6
<1>9. Few(DOMAIN G_TP)
    BY <1>8 DEF Few
<1> QED
    BY <1>6, <1>7, <1>9

\* The values of G_TD fit its bits.
LEMMA G_TD_Words ==
    /\ DOMAIN G_TD = {"CLAMP", "SHARPEN", "DETAIL"}
    /\ G_TD["CLAMP"] = {}
    /\ G_TD["SHARPEN"] = {17}
    /\ G_TD["DETAIL"] = {18}
    /\ Fits(G_TD, 17 .. 18) /\ Few(DOMAIN G_TD)
<1> DEFINE c == [CLAMP |-> 0, SHARPEN |-> 1, DETAIL |-> 2]
<1>1. G_MDSFT["TEXTDETAIL"] = 17
    BY DEF G_MDSFT
<1>2. /\ DOMAIN c = {"CLAMP", "SHARPEN", "DETAIL"}
      /\ c["CLAMP"] = 0
      /\ c["SHARPEN"] = 1
      /\ c["DETAIL"] = 2
    OBVIOUS
<1> HIDE DEF c
<1>3. G_TD = Values("TEXTDETAIL", c)
    BY Zenon DEF G_TD, c
<1>4. DOMAIN G_TD = DOMAIN c
    BY <1>3, ValueOf, Zenon
<1>5. \A name \in DOMAIN c : G_TD[name] = Shift(Bits(c[name]), G_MDSFT["TEXTDETAIL"])
    BY <1>3, ValueOf, Zenon
<1>6. /\ DOMAIN G_TD = {"CLAMP", "SHARPEN", "DETAIL"}
      /\ G_TD["CLAMP"] = {}
      /\ G_TD["SHARPEN"] = {17}
      /\ G_TD["DETAIL"] = {18}
    BY <1>1, <1>2, <1>4, <1>5, WordsOf
<1>7. Fits(G_TD, 17 .. 18)
    BY <1>6 DEF Fits
<1>8. DOMAIN G_TD = {"CLAMP", "SHARPEN", "DETAIL", "DETAIL"}
    BY <1>6
<1>9. Few(DOMAIN G_TD)
    BY <1>8 DEF Few
<1> QED
    BY <1>6, <1>7, <1>9

\* The values of G_TL fit its bits.
LEMMA G_TL_Words ==
    /\ DOMAIN G_TL = {"TILE", "LOD"}
    /\ G_TL["TILE"] = {}
    /\ G_TL["LOD"] = {16}
    /\ Fits(G_TL, 16 .. 16) /\ Few(DOMAIN G_TL)
<1> DEFINE c == [TILE |-> 0, LOD |-> 1]
<1>1. G_MDSFT["TEXTLOD"] = 16
    BY DEF G_MDSFT
<1>2. /\ DOMAIN c = {"TILE", "LOD"}
      /\ c["TILE"] = 0
      /\ c["LOD"] = 1
    OBVIOUS
<1> HIDE DEF c
<1>3. G_TL = Values("TEXTLOD", c)
    BY Zenon DEF G_TL, c
<1>4. DOMAIN G_TL = DOMAIN c
    BY <1>3, ValueOf, Zenon
<1>5. \A name \in DOMAIN c : G_TL[name] = Shift(Bits(c[name]), G_MDSFT["TEXTLOD"])
    BY <1>3, ValueOf, Zenon
<1>6. /\ DOMAIN G_TL = {"TILE", "LOD"}
      /\ G_TL["TILE"] = {}
      /\ G_TL["LOD"] = {16}
    BY <1>1, <1>2, <1>4, <1>5, WordsOf
<1>7. Fits(G_TL, 16 .. 16)
    BY <1>6 DEF Fits
<1>8. DOMAIN G_TL = {"TILE", "LOD", "LOD", "LOD"}
    BY <1>6
<1>9. Few(DOMAIN G_TL)
    BY <1>8 DEF Few
<1> QED
    BY <1>6, <1>7, <1>9

\* The values of G_TT fit its bits.
LEMMA G_TT_Words ==
    /\ DOMAIN G_TT = {"NONE", "RGBA16", "IA16"}
    /\ G_TT["NONE"] = {}
    /\ G_TT["RGBA16"] = {15}
    /\ G_TT["IA16"] = {14, 15}
    /\ Fits(G_TT, 14 .. 15) /\ Few(DOMAIN G_TT)
<1> DEFINE c == [NONE |-> 0, RGBA16 |-> 2, IA16 |-> 3]
<1>1. G_MDSFT["TEXTLUT"] = 14
    BY DEF G_MDSFT
<1>2. /\ DOMAIN c = {"NONE", "RGBA16", "IA16"}
      /\ c["NONE"] = 0
      /\ c["RGBA16"] = 2
      /\ c["IA16"] = 3
    OBVIOUS
<1> HIDE DEF c
<1>3. G_TT = Values("TEXTLUT", c)
    BY Zenon DEF G_TT, c
<1>4. DOMAIN G_TT = DOMAIN c
    BY <1>3, ValueOf, Zenon
<1>5. \A name \in DOMAIN c : G_TT[name] = Shift(Bits(c[name]), G_MDSFT["TEXTLUT"])
    BY <1>3, ValueOf, Zenon
<1>6. /\ DOMAIN G_TT = {"NONE", "RGBA16", "IA16"}
      /\ G_TT["NONE"] = {}
      /\ G_TT["RGBA16"] = {15}
      /\ G_TT["IA16"] = {14, 15}
    BY <1>1, <1>2, <1>4, <1>5, WordsOf
<1>7. Fits(G_TT, 14 .. 15)
    BY <1>6 DEF Fits
<1>8. DOMAIN G_TT = {"NONE", "RGBA16", "IA16", "IA16"}
    BY <1>6
<1>9. Few(DOMAIN G_TT)
    BY <1>8 DEF Few
<1> QED
    BY <1>6, <1>7, <1>9

\* The values of G_TF fit its bits.
LEMMA G_TF_Words ==
    /\ DOMAIN G_TF = {"POINT", "BILERP", "AVERAGE"}
    /\ G_TF["POINT"] = {}
    /\ G_TF["BILERP"] = {13}
    /\ G_TF["AVERAGE"] = {12, 13}
    /\ Fits(G_TF, 12 .. 13) /\ Few(DOMAIN G_TF)
<1> DEFINE c == [POINT |-> 0, BILERP |-> 2, AVERAGE |-> 3]
<1>1. G_MDSFT["TEXTFILT"] = 12
    BY DEF G_MDSFT
<1>2. /\ DOMAIN c = {"POINT", "BILERP", "AVERAGE"}
      /\ c["POINT"] = 0
      /\ c["BILERP"] = 2
      /\ c["AVERAGE"] = 3
    OBVIOUS
<1> HIDE DEF c
<1>3. G_TF = Values("TEXTFILT", c)
    BY Zenon DEF G_TF, c
<1>4. DOMAIN G_TF = DOMAIN c
    BY <1>3, ValueOf, Zenon
<1>5. \A name \in DOMAIN c : G_TF[name] = Shift(Bits(c[name]), G_MDSFT["TEXTFILT"])
    BY <1>3, ValueOf, Zenon
<1>6. /\ DOMAIN G_TF = {"POINT", "BILERP", "AVERAGE"}
      /\ G_TF["POINT"] = {}
      /\ G_TF["BILERP"] = {13}
      /\ G_TF["AVERAGE"] = {12, 13}
    BY <1>1, <1>2, <1>4, <1>5, WordsOf
<1>7. Fits(G_TF, 12 .. 13)
    BY <1>6 DEF Fits
<1>8. DOMAIN G_TF = {"POINT", "BILERP", "AVERAGE", "AVERAGE"}
    BY <1>6
<1>9. Few(DOMAIN G_TF)
    BY <1>8 DEF Few
<1> QED
    BY <1>6, <1>7, <1>9

\* The values of G_TC fit its bits.
LEMMA G_TC_Words ==
    /\ DOMAIN G_TC = {"CONV", "FILTCONV", "FILT"}
    /\ G_TC["CONV"] = {}
    /\ G_TC["FILTCONV"] = {9, 11}
    /\ G_TC["FILT"] = {10, 11}
    /\ Fits(G_TC, 9 .. 11) /\ Few(DOMAIN G_TC)
<1> DEFINE c == [CONV |-> 0, FILTCONV |-> 5, FILT |-> 6]
<1>1. G_MDSFT["TEXTCONV"] = 9
    BY DEF G_MDSFT
<1>2. /\ DOMAIN c = {"CONV", "FILTCONV", "FILT"}
      /\ c["CONV"] = 0
      /\ c["FILTCONV"] = 5
      /\ c["FILT"] = 6
    OBVIOUS
<1> HIDE DEF c
<1>3. G_TC = Values("TEXTCONV", c)
    BY Zenon DEF G_TC, c
<1>4. DOMAIN G_TC = DOMAIN c
    BY <1>3, ValueOf, Zenon
<1>5. \A name \in DOMAIN c : G_TC[name] = Shift(Bits(c[name]), G_MDSFT["TEXTCONV"])
    BY <1>3, ValueOf, Zenon
<1>6. /\ DOMAIN G_TC = {"CONV", "FILTCONV", "FILT"}
      /\ G_TC["CONV"] = {}
      /\ G_TC["FILTCONV"] = {9, 11}
      /\ G_TC["FILT"] = {10, 11}
    BY <1>1, <1>2, <1>4, <1>5, WordsOf
<1>7. Fits(G_TC, 9 .. 11)
    BY <1>6 DEF Fits
<1>8. DOMAIN G_TC = {"CONV", "FILTCONV", "FILT", "FILT"}
    BY <1>6
<1>9. Few(DOMAIN G_TC)
    BY <1>8 DEF Few
<1> QED
    BY <1>6, <1>7, <1>9

\* The values of G_CK fit its bits.
LEMMA G_CK_Words ==
    /\ DOMAIN G_CK = {"NONE", "KEY"}
    /\ G_CK["NONE"] = {}
    /\ G_CK["KEY"] = {8}
    /\ Fits(G_CK, 8 .. 8) /\ Few(DOMAIN G_CK)
<1> DEFINE c == [NONE |-> 0, KEY |-> 1]
<1>1. G_MDSFT["COMBKEY"] = 8
    BY DEF G_MDSFT
<1>2. /\ DOMAIN c = {"NONE", "KEY"}
      /\ c["NONE"] = 0
      /\ c["KEY"] = 1
    OBVIOUS
<1> HIDE DEF c
<1>3. G_CK = Values("COMBKEY", c)
    BY Zenon DEF G_CK, c
<1>4. DOMAIN G_CK = DOMAIN c
    BY <1>3, ValueOf, Zenon
<1>5. \A name \in DOMAIN c : G_CK[name] = Shift(Bits(c[name]), G_MDSFT["COMBKEY"])
    BY <1>3, ValueOf, Zenon
<1>6. /\ DOMAIN G_CK = {"NONE", "KEY"}
      /\ G_CK["NONE"] = {}
      /\ G_CK["KEY"] = {8}
    BY <1>1, <1>2, <1>4, <1>5, WordsOf
<1>7. Fits(G_CK, 8 .. 8)
    BY <1>6 DEF Fits
<1>8. DOMAIN G_CK = {"NONE", "KEY", "KEY", "KEY"}
    BY <1>6
<1>9. Few(DOMAIN G_CK)
    BY <1>8 DEF Few
<1> QED
    BY <1>6, <1>7, <1>9

\* The values of G_CD fit its bits.
LEMMA G_CD_Words ==
    /\ DOMAIN G_CD = {"MAGICSQ", "BAYER", "NOISE", "DISABLE"}
    /\ G_CD["MAGICSQ"] = {}
    /\ G_CD["BAYER"] = {6}
    /\ G_CD["NOISE"] = {7}
    /\ G_CD["DISABLE"] = {6, 7}
    /\ Fits(G_CD, 6 .. 7) /\ Few(DOMAIN G_CD)
<1> DEFINE c == [MAGICSQ |-> 0, BAYER |-> 1, NOISE |-> 2, DISABLE |-> 3]
<1>1. G_MDSFT["RGBDITHER"] = 6
    BY DEF G_MDSFT
<1>2. /\ DOMAIN c = {"MAGICSQ", "BAYER", "NOISE", "DISABLE"}
      /\ c["MAGICSQ"] = 0
      /\ c["BAYER"] = 1
      /\ c["NOISE"] = 2
      /\ c["DISABLE"] = 3
    OBVIOUS
<1> HIDE DEF c
<1>3. G_CD = Values("RGBDITHER", c)
    BY Zenon DEF G_CD, c
<1>4. DOMAIN G_CD = DOMAIN c
    BY <1>3, ValueOf, Zenon
<1>5. \A name \in DOMAIN c : G_CD[name] = Shift(Bits(c[name]), G_MDSFT["RGBDITHER"])
    BY <1>3, ValueOf, Zenon
<1>6. /\ DOMAIN G_CD = {"MAGICSQ", "BAYER", "NOISE", "DISABLE"}
      /\ G_CD["MAGICSQ"] = {}
      /\ G_CD["BAYER"] = {6}
      /\ G_CD["NOISE"] = {7}
      /\ G_CD["DISABLE"] = {6, 7}
    BY <1>1, <1>2, <1>4, <1>5, WordsOf
<1>7. Fits(G_CD, 6 .. 7)
    BY <1>6 DEF Fits
<1>8. DOMAIN G_CD = {"MAGICSQ", "BAYER", "NOISE", "DISABLE"}
    BY <1>6
<1>9. Few(DOMAIN G_CD)
    BY <1>8 DEF Few
<1> QED
    BY <1>6, <1>7, <1>9

\* The values of G_AD fit its bits.
LEMMA G_AD_Words ==
    /\ DOMAIN G_AD = {"PATTERN", "NOTPATTERN", "NOISE", "DISABLE"}
    /\ G_AD["PATTERN"] = {}
    /\ G_AD["NOTPATTERN"] = {4}
    /\ G_AD["NOISE"] = {5}
    /\ G_AD["DISABLE"] = {4, 5}
    /\ Fits(G_AD, 4 .. 5) /\ Few(DOMAIN G_AD)
<1> DEFINE c == [PATTERN |-> 0, NOTPATTERN |-> 1, NOISE |-> 2, DISABLE |-> 3]
<1>1. G_MDSFT["ALPHADITHER"] = 4
    BY DEF G_MDSFT
<1>2. /\ DOMAIN c = {"PATTERN", "NOTPATTERN", "NOISE", "DISABLE"}
      /\ c["PATTERN"] = 0
      /\ c["NOTPATTERN"] = 1
      /\ c["NOISE"] = 2
      /\ c["DISABLE"] = 3
    OBVIOUS
<1> HIDE DEF c
<1>3. G_AD = Values("ALPHADITHER", c)
    BY Zenon DEF G_AD, c
<1>4. DOMAIN G_AD = DOMAIN c
    BY <1>3, ValueOf, Zenon
<1>5. \A name \in DOMAIN c : G_AD[name] = Shift(Bits(c[name]), G_MDSFT["ALPHADITHER"])
    BY <1>3, ValueOf, Zenon
<1>6. /\ DOMAIN G_AD = {"PATTERN", "NOTPATTERN", "NOISE", "DISABLE"}
      /\ G_AD["PATTERN"] = {}
      /\ G_AD["NOTPATTERN"] = {4}
      /\ G_AD["NOISE"] = {5}
      /\ G_AD["DISABLE"] = {4, 5}
    BY <1>1, <1>2, <1>4, <1>5, WordsOf
<1>7. Fits(G_AD, 4 .. 5)
    BY <1>6 DEF Fits
<1>8. DOMAIN G_AD = {"PATTERN", "NOTPATTERN", "NOISE", "DISABLE"}
    BY <1>6
<1>9. Few(DOMAIN G_AD)
    BY <1>8 DEF Few
<1> QED
    BY <1>6, <1>7, <1>9

\* The values of G_AC fit its bits.
LEMMA G_AC_Words ==
    /\ DOMAIN G_AC = {"NONE", "THRESHOLD", "DITHER"}
    /\ G_AC["NONE"] = {}
    /\ G_AC["THRESHOLD"] = {0}
    /\ G_AC["DITHER"] = {0, 1}
    /\ Fits(G_AC, 0 .. 1) /\ Few(DOMAIN G_AC)
<1> DEFINE c == [NONE |-> 0, THRESHOLD |-> 1, DITHER |-> 3]
<1>1. G_MDSFT["ALPHACOMPARE"] = 0
    BY DEF G_MDSFT
<1>2. /\ DOMAIN c = {"NONE", "THRESHOLD", "DITHER"}
      /\ c["NONE"] = 0
      /\ c["THRESHOLD"] = 1
      /\ c["DITHER"] = 3
    OBVIOUS
<1> HIDE DEF c
<1>3. G_AC = Values("ALPHACOMPARE", c)
    BY Zenon DEF G_AC, c
<1>4. DOMAIN G_AC = DOMAIN c
    BY <1>3, ValueOf, Zenon
<1>5. \A name \in DOMAIN c : G_AC[name] = Shift(Bits(c[name]), G_MDSFT["ALPHACOMPARE"])
    BY <1>3, ValueOf, Zenon
<1>6. /\ DOMAIN G_AC = {"NONE", "THRESHOLD", "DITHER"}
      /\ G_AC["NONE"] = {}
      /\ G_AC["THRESHOLD"] = {0}
      /\ G_AC["DITHER"] = {0, 1}
    BY <1>1, <1>2, <1>4, <1>5, WordsOf
<1>7. Fits(G_AC, 0 .. 1)
    BY <1>6 DEF Fits
<1>8. DOMAIN G_AC = {"NONE", "THRESHOLD", "DITHER", "DITHER"}
    BY <1>6
<1>9. Few(DOMAIN G_AC)
    BY <1>8 DEF Few
<1> QED
    BY <1>6, <1>7, <1>9

\* The values of G_ZS fit its bits.
LEMMA G_ZS_Words ==
    /\ DOMAIN G_ZS = {"PIXEL", "PRIM"}
    /\ G_ZS["PIXEL"] = {}
    /\ G_ZS["PRIM"] = {2}
    /\ Fits(G_ZS, 2 .. 2) /\ Few(DOMAIN G_ZS)
<1> DEFINE c == [PIXEL |-> 0, PRIM |-> 1]
<1>1. G_MDSFT["ZSRCSEL"] = 2
    BY DEF G_MDSFT
<1>2. /\ DOMAIN c = {"PIXEL", "PRIM"}
      /\ c["PIXEL"] = 0
      /\ c["PRIM"] = 1
    OBVIOUS
<1> HIDE DEF c
<1>3. G_ZS = Values("ZSRCSEL", c)
    BY Zenon DEF G_ZS, c
<1>4. DOMAIN G_ZS = DOMAIN c
    BY <1>3, ValueOf, Zenon
<1>5. \A name \in DOMAIN c : G_ZS[name] = Shift(Bits(c[name]), G_MDSFT["ZSRCSEL"])
    BY <1>3, ValueOf, Zenon
<1>6. /\ DOMAIN G_ZS = {"PIXEL", "PRIM"}
      /\ G_ZS["PIXEL"] = {}
      /\ G_ZS["PRIM"] = {2}
    BY <1>1, <1>2, <1>4, <1>5, WordsOf
<1>7. Fits(G_ZS, 2 .. 2)
    BY <1>6 DEF Fits
<1>8. DOMAIN G_ZS = {"PIXEL", "PRIM", "PRIM", "PRIM"}
    BY <1>6
<1>9. Few(DOMAIN G_ZS)
    BY <1>8 DEF Few
<1> QED
    BY <1>6, <1>7, <1>9

-----------------------------------------------------------------------------
(* The options share out the two words.                                    *)

\* The bits of its word that an option takes.
Area == [PIPELINE |-> 23 .. 23, CYCLETYPE |-> 20 .. 21, TEXTPERSP |-> 19 .. 19,
         TEXTDETAIL |-> 17 .. 18, TEXTLOD |-> 16 .. 16, TEXTLUT |-> 14 .. 15,
         TEXTFILT |-> 12 .. 13, TEXTCONV |-> 9 .. 11, COMBKEY |-> 8 .. 8,
         RGBDITHER |-> 6 .. 7, ALPHADITHER |-> 4 .. 5, ALPHACOMPARE |-> 0 .. 1,
         ZSRCSEL |-> 2 .. 2]

\* The option that a bit of the high word belongs to.
Owner(b) ==
    IF b >= 23 THEN "PIPELINE" ELSE IF b >= 20 THEN "CYCLETYPE"
    ELSE IF b >= 19 THEN "TEXTPERSP" ELSE IF b >= 17 THEN "TEXTDETAIL"
    ELSE IF b >= 16 THEN "TEXTLOD" ELSE IF b >= 14 THEN "TEXTLUT"
    ELSE IF b >= 12 THEN "TEXTFILT" ELSE IF b >= 9 THEN "TEXTCONV"
    ELSE IF b >= 8 THEN "COMBKEY" ELSE IF b >= 6 THEN "RGBDITHER" ELSE "ALPHADITHER"

\* Every option has values that fit its area, few and not none.
LEMMA OptionsAre ==
    /\ DOMAIN Options = DOMAIN Area
    /\ InL \subseteq DOMAIN Options
    /\ \A o \in DOMAIN Options : Fits(Options[o], Area[o]) /\ Few(DOMAIN Options[o])
    /\ \A o \in InL : Area[o] \subseteq 0 .. 2
    /\ \A o \in DOMAIN Options \ InL : Area[o] \subseteq 4 .. 23
<1>1. /\ DOMAIN Options = DOMAIN Area
      /\ InL \subseteq DOMAIN Options
    BY DEF Options, Area, InL
<1>2. ASSUME NEW o \in DOMAIN Options
      PROVE  Fits(Options[o], Area[o]) /\ Few(DOMAIN Options[o])
    <2>1. DOMAIN Options = {"PIPELINE", "CYCLETYPE", "TEXTPERSP", "TEXTDETAIL", "TEXTLOD",
            "TEXTLUT", "TEXTFILT", "TEXTCONV", "COMBKEY", "RGBDITHER", "ALPHADITHER",
            "ALPHACOMPARE", "ZSRCSEL"}
        BY DEF Options
    <2>2. /\ Options["PIPELINE"] = G_PM /\ Area["PIPELINE"] = 23 .. 23
          /\ Options["CYCLETYPE"] = G_CYC /\ Area["CYCLETYPE"] = 20 .. 21
          /\ Options["TEXTPERSP"] = G_TP /\ Area["TEXTPERSP"] = 19 .. 19
          /\ Options["TEXTDETAIL"] = G_TD /\ Area["TEXTDETAIL"] = 17 .. 18
          /\ Options["TEXTLOD"] = G_TL /\ Area["TEXTLOD"] = 16 .. 16
          /\ Options["TEXTLUT"] = G_TT /\ Area["TEXTLUT"] = 14 .. 15
          /\ Options["TEXTFILT"] = G_TF /\ Area["TEXTFILT"] = 12 .. 13
          /\ Options["TEXTCONV"] = G_TC /\ Area["TEXTCONV"] = 9 .. 11
          /\ Options["COMBKEY"] = G_CK /\ Area["COMBKEY"] = 8 .. 8
          /\ Options["RGBDITHER"] = G_CD /\ Area["RGBDITHER"] = 6 .. 7
          /\ Options["ALPHADITHER"] = G_AD /\ Area["ALPHADITHER"] = 4 .. 5
          /\ Options["ALPHACOMPARE"] = G_AC /\ Area["ALPHACOMPARE"] = 0 .. 1
          /\ Options["ZSRCSEL"] = G_ZS /\ Area["ZSRCSEL"] = 2 .. 2
        BY DEF Options, Area
    <2>3. /\ Fits(G_PM, 23 .. 23) /\ Few(DOMAIN G_PM)
          /\ Fits(G_CYC, 20 .. 21) /\ Few(DOMAIN G_CYC)
          /\ Fits(G_TP, 19 .. 19) /\ Few(DOMAIN G_TP)
          /\ Fits(G_TD, 17 .. 18) /\ Few(DOMAIN G_TD)
          /\ Fits(G_TL, 16 .. 16) /\ Few(DOMAIN G_TL)
          /\ Fits(G_TT, 14 .. 15) /\ Few(DOMAIN G_TT)
          /\ Fits(G_TF, 12 .. 13) /\ Few(DOMAIN G_TF)
          /\ Fits(G_TC, 9 .. 11) /\ Few(DOMAIN G_TC)
          /\ Fits(G_CK, 8 .. 8) /\ Few(DOMAIN G_CK)
          /\ Fits(G_CD, 6 .. 7) /\ Few(DOMAIN G_CD)
          /\ Fits(G_AD, 4 .. 5) /\ Few(DOMAIN G_AD)
          /\ Fits(G_AC, 0 .. 1) /\ Few(DOMAIN G_AC)
          /\ Fits(G_ZS, 2 .. 2) /\ Few(DOMAIN G_ZS)
        BY G_PM_Words, G_CYC_Words, G_TP_Words, G_TD_Words, G_TL_Words, G_TT_Words,
           G_TF_Words, G_TC_Words, G_CK_Words, G_CD_Words, G_AD_Words, G_AC_Words, G_ZS_Words,
           Zenon
    <2> QED
        BY <2>1, <2>2, <2>3, ZenonT(60)
<1>3. \A o \in InL : Area[o] \subseteq 0 .. 2
    BY DEF Area, InL
<1>4. \A o \in DOMAIN Options \ InL : Area[o] \subseteq 4 .. 23
    BY DEF Options, Area, InL
<1> QED
    BY <1>1, <1>2, <1>3, <1>4

\* No two options share a bit.
LEMMA AreasApart ==
    ASSUME NEW o \in DOMAIN Options, NEW p \in DOMAIN Options, o # p,
           o \in InL <=> p \in InL
    PROVE  Area[o] \cap Area[p] = {}
<1>1. \A q \in DOMAIN Options \ InL : \A b \in Area[q] : Owner(b) = q
    BY DEF Options, Area, InL, Owner
<1>2. CASE o \in InL
    BY <1>2 DEF InL, Area
<1>3. CASE ~(o \in InL)
    BY <1>1, <1>3
<1> QED
    BY <1>2, <1>3

\* OptionOf, of a word.
Reading(word, o) ==
    LET all == UNION {Options[o][n] : n \in Names[o]}
        is == {n \in Names[o] : Options[o][n] = word \cap all}
    IN  IF is = {} THEN "none" ELSE CHOOSE n \in is : TRUE

\* The settings of RenderState are the options by name.
LEMMA NamesAre == \A o \in DOMAIN Options : Names[o] = DOMAIN Options[o]
BY Zenon DEF Names

\* A word that carries a value in an option's area reads as that value.
LEMMA ReadingIs ==
    ASSUME NEW o \in DOMAIN Options, NEW n \in DOMAIN Options[o], NEW word,
           word \cap Area[o] = Options[o][n]
    PROVE  Reading(word, o) = n
<1> DEFINE all == UNION {Options[o][m] : m \in Names[o]}
           is == {m \in Names[o] : Options[o][m] = word \cap all}
<1>1. Fits(Options[o], Area[o]) /\ Names[o] = DOMAIN Options[o]
    BY OptionsAre, NamesAre, Zenon
<1>2. all = Area[o]
    <2>1. \A b : b \in all <=> b \in Area[o]
        BY <1>1 DEF Fits
    <2> HIDE DEF all
    <2> QED
        BY <2>1
<1>3. is = {n}
    <2>1. \A m : m \in is <=> m \in DOMAIN Options[o] /\ Options[o][m] = Options[o][n]
        BY <1>1, <1>2, Zenon
    <2> HIDE DEF is
    <2>2. \A m : m \in is <=> m = n
        BY <1>1, <2>1, Zenon DEF Fits
    <2> QED
        BY <2>2
<1> HIDE DEF all, is
<1>4. Reading(word, o) = IF is = {} THEN "none" ELSE CHOOSE m \in is : TRUE
    BY Zenon DEF Reading, is, all
<1> QED
    BY <1>3, <1>4

-----------------------------------------------------------------------------
(* The packets of gSPSetOtherMode.                                         *)

Over(word, sft, len, data) == (word \ (sft .. sft + len - 1)) \cup data
Replaces(gfx, cmd, sft, len, data) ==
    Opcode(gfx) = cmd /\ \A word : Replaced(word, gfx) = Over(word, sft, len, data)

\* A packet of gSPSetOtherMode replaces len bits from the bit sft on by its data.
LEMMA Replacing ==
    ASSUME NEW cmd \in 0 .. 255, NEW sft \in 0 .. 31, NEW len \in 1 .. 32, sft + len <= 32,
           NEW data
    PROVE  Replaces(gSPSetOtherMode(cmd, sft, len, data), cmd, sft, len, data)
<1> DEFINE gfx == gSPSetOtherMode(cmd, sft, len, data)
           S == _SHIFTL(32 - sft - len, 8, 8)
           L == _SHIFTL(len - 1, 0, 8)
<1>1. gfx = [w0 |-> Cmd(cmd) \cup S \cup L, w1 |-> data]
    BY DEF gSPSetOtherMode, Gfx
<1>2. /\ \A b \in Cmd(cmd) : b \in 24 .. 31
      /\ \A b \in S : b \in 8 .. 15
      /\ \A b \in L : b \in 0 .. 7
    <2>1. 24 \in Nat /\ 8 \in Nat /\ 0 \in Nat
        OBVIOUS
    <2>2. /\ \A b \in Cmd(cmd) : b \in 24 .. (24 + 8 - 1)
          /\ \A b \in S : b \in 8 .. (8 + 8 - 1)
          /\ \A b \in L : b \in 0 .. (0 + 8 - 1)
        BY <2>1, ShiftedBit, Zenon DEF Cmd
    <2> QED
        BY <2>2
<1>3. gfx.w0 = Cmd(cmd) \cup S \cup L /\ gfx.w1 = data
    BY <1>1
<1> HIDE DEF gfx
<1>4. Opcode(gfx) = cmd
    <2>1. \A b \in 24 .. 31 : b \in gfx.w0 <=> b \in Cmd(cmd)
        <3> HIDE DEF S, L
        <3> QED
            BY <1>2, <1>3
    <2> QED
        BY <2>1, OpcodeIs, Zenon
<1>5. Number(Field(gfx.w0, 8, 8)) = 32 - sft - len
    <2>1. /\ 32 - sft - len \in Int /\ 8 \in Nat /\ 8 \in 0 .. 31 /\ 8 + 8 <= 32
          /\ (32 - sft - len) % 256 = 32 - sft - len
        OBVIOUS
    <2>2. \A b \in 8 .. 8 + 8 - 1 : b \in gfx.w0 <=> b \in S
        <3> HIDE DEF S, L
        <3> QED
            BY <1>2, <1>3
    <2>3. Number(Field(gfx.w0, 8, 8)) = (32 - sft - len) % 2 ^ 8
        BY <2>1, <2>2, FieldIs, ZenonT(60)
    <2> QED
        BY <2>1, <2>3, SmallPowers, Zenon
<1>6. Number(Field(gfx.w0, 0, 8)) = len - 1
    <2>1. len - 1 \in Int /\ 0 \in Nat /\ 8 \in 0 .. 31 /\ 0 + 8 <= 32 /\ (len - 1) % 256 = len - 1
        OBVIOUS
    <2>2. \A b \in 0 .. 0 + 8 - 1 : b \in gfx.w0 <=> b \in L
        <3> HIDE DEF S, L
        <3> QED
            BY <1>2, <1>3
    <2>3. Number(Field(gfx.w0, 0, 8)) = (len - 1) % 2 ^ 8
        BY <2>1, <2>2, FieldIs, ZenonT(60)
    <2> QED
        BY <2>1, <2>3, SmallPowers, Zenon
<1>7. \A word : Replaced(word, gfx) = Over(word, sft, len, data)
    <2>1. /\ (len - 1) + 1 = len
          /\ 32 - ((len - 1) + 1) - (32 - sft - len) = sft
        OBVIOUS
    <2> QED
        BY <1>3, <1>5, <1>6, <2>1 DEF Replaced, Over
<1> QED
    BY <1>4, <1>7, Zenon DEF gfx, Replaces

\* The word that an option is in, and the packet that sets it.
Sets(o) == IF o \in InL THEN G.SETOTHERMODE_L ELSE G.SETOTHERMODE_H

\* The setters of the options, one by one.
LEMMA OptionPackets ==
    /\ \A mode_ : gDPPipelineMode(mode_) = gSPSetOtherMode(Sets("PIPELINE"), 23, 1, mode_)
    /\ \A mode_ : gDPSetCycleType(mode_) = gSPSetOtherMode(Sets("CYCLETYPE"), 20, 2, mode_)
    /\ \A mode_ : gDPSetTexturePersp(mode_) = gSPSetOtherMode(Sets("TEXTPERSP"), 19, 1, mode_)
    /\ \A mode_ : gDPSetTextureDetail(mode_) = gSPSetOtherMode(Sets("TEXTDETAIL"), 17, 2, mode_)
    /\ \A mode_ : gDPSetTextureLOD(mode_) = gSPSetOtherMode(Sets("TEXTLOD"), 16, 1, mode_)
    /\ \A mode_ : gDPSetTextureLUT(mode_) = gSPSetOtherMode(Sets("TEXTLUT"), 14, 2, mode_)
    /\ \A mode_ : gDPSetTextureFilter(mode_) = gSPSetOtherMode(Sets("TEXTFILT"), 12, 2, mode_)
    /\ \A mode_ : gDPSetTextureConvert(mode_) = gSPSetOtherMode(Sets("TEXTCONV"), 9, 3, mode_)
    /\ \A mode_ : gDPSetCombineKey(mode_) = gSPSetOtherMode(Sets("COMBKEY"), 8, 1, mode_)
    /\ \A mode_ : gDPSetColorDither(mode_) = gSPSetOtherMode(Sets("RGBDITHER"), 6, 2, mode_)
    /\ \A mode_ : gDPSetAlphaDither(mode_) = gSPSetOtherMode(Sets("ALPHADITHER"), 4, 2, mode_)
    /\ \A mode_ : gDPSetAlphaCompare(mode_) = gSPSetOtherMode(Sets("ALPHACOMPARE"), 0, 2, mode_)
    /\ \A mode_ : gDPSetDepthSource(mode_) = gSPSetOtherMode(Sets("ZSRCSEL"), 2, 1, mode_)
BY DEF Sets, InL, SetH, SetL, G_MDSFT, gDPPipelineMode, gDPSetCycleType, gDPSetTexturePersp,
   gDPSetTextureDetail, gDPSetTextureLOD, gDPSetTextureLUT, gDPSetTextureFilter,
   gDPSetTextureConvert, gDPSetCombineKey, gDPSetColorDither, gDPSetAlphaDither,
   gDPSetAlphaCompare, gDPSetDepthSource

\* A call of a setter sends a packet that replaces the option's bits.
LEMMA OptionAsked ==
    ASSUME SetOption
    PROVE  \E o \in DOMAIN Options : \E n \in DOMAIN Options[o], sft \in 0 .. 31, len \in 1 .. 32 :
             /\ sft + len <= 32 /\ Area[o] = sft .. sft + len - 1
             /\ Send(<<o, n>>, gSPSetOtherMode(Sets(o), sft, len, Options[o][n]))
<1> DEFINE Asks(o) ==
             \E n \in DOMAIN Options[o], sft \in 0 .. 31, len \in 1 .. 32 :
               /\ sft + len <= 32 /\ Area[o] = sft .. sft + len - 1
               /\ Send(<<o, n>>, gSPSetOtherMode(Sets(o), sft, len, Options[o][n]))
<1>1. ASSUME NEW n \in DOMAIN G_PM, Send(<<"PIPELINE", n>>, gDPPipelineMode(G_PM[n]))
      PROVE  Asks("PIPELINE")
    <2>1. Options["PIPELINE"] = G_PM /\ Area["PIPELINE"] = 23 .. 23 + 1 - 1
        BY DEF Options, Area
    <2>2. 23 \in 0 .. 31 /\ 1 \in 1 .. 32 /\ 23 + 1 <= 32
        OBVIOUS
    <2> QED
        BY <1>1, <2>1, <2>2, OptionPackets, Zenon
<1>2. ASSUME NEW n \in DOMAIN G_CYC, Send(<<"CYCLETYPE", n>>, gDPSetCycleType(G_CYC[n]))
      PROVE  Asks("CYCLETYPE")
    <2>1. Options["CYCLETYPE"] = G_CYC /\ Area["CYCLETYPE"] = 20 .. 20 + 2 - 1
        BY DEF Options, Area
    <2>2. 20 \in 0 .. 31 /\ 2 \in 1 .. 32 /\ 20 + 2 <= 32
        OBVIOUS
    <2> QED
        BY <1>2, <2>1, <2>2, OptionPackets, Zenon
<1>3. ASSUME NEW n \in DOMAIN G_TP, Send(<<"TEXTPERSP", n>>, gDPSetTexturePersp(G_TP[n]))
      PROVE  Asks("TEXTPERSP")
    <2>1. Options["TEXTPERSP"] = G_TP /\ Area["TEXTPERSP"] = 19 .. 19 + 1 - 1
        BY DEF Options, Area
    <2>2. 19 \in 0 .. 31 /\ 1 \in 1 .. 32 /\ 19 + 1 <= 32
        OBVIOUS
    <2> QED
        BY <1>3, <2>1, <2>2, OptionPackets, Zenon
<1>4. ASSUME NEW n \in DOMAIN G_TD, Send(<<"TEXTDETAIL", n>>, gDPSetTextureDetail(G_TD[n]))
      PROVE  Asks("TEXTDETAIL")
    <2>1. Options["TEXTDETAIL"] = G_TD /\ Area["TEXTDETAIL"] = 17 .. 17 + 2 - 1
        BY DEF Options, Area
    <2>2. 17 \in 0 .. 31 /\ 2 \in 1 .. 32 /\ 17 + 2 <= 32
        OBVIOUS
    <2> QED
        BY <1>4, <2>1, <2>2, OptionPackets, Zenon
<1>5. ASSUME NEW n \in DOMAIN G_TL, Send(<<"TEXTLOD", n>>, gDPSetTextureLOD(G_TL[n]))
      PROVE  Asks("TEXTLOD")
    <2>1. Options["TEXTLOD"] = G_TL /\ Area["TEXTLOD"] = 16 .. 16 + 1 - 1
        BY DEF Options, Area
    <2>2. 16 \in 0 .. 31 /\ 1 \in 1 .. 32 /\ 16 + 1 <= 32
        OBVIOUS
    <2> QED
        BY <1>5, <2>1, <2>2, OptionPackets, Zenon
<1>6. ASSUME NEW n \in DOMAIN G_TT, Send(<<"TEXTLUT", n>>, gDPSetTextureLUT(G_TT[n]))
      PROVE  Asks("TEXTLUT")
    <2>1. Options["TEXTLUT"] = G_TT /\ Area["TEXTLUT"] = 14 .. 14 + 2 - 1
        BY DEF Options, Area
    <2>2. 14 \in 0 .. 31 /\ 2 \in 1 .. 32 /\ 14 + 2 <= 32
        OBVIOUS
    <2> QED
        BY <1>6, <2>1, <2>2, OptionPackets, Zenon
<1>7. ASSUME NEW n \in DOMAIN G_TF, Send(<<"TEXTFILT", n>>, gDPSetTextureFilter(G_TF[n]))
      PROVE  Asks("TEXTFILT")
    <2>1. Options["TEXTFILT"] = G_TF /\ Area["TEXTFILT"] = 12 .. 12 + 2 - 1
        BY DEF Options, Area
    <2>2. 12 \in 0 .. 31 /\ 2 \in 1 .. 32 /\ 12 + 2 <= 32
        OBVIOUS
    <2> QED
        BY <1>7, <2>1, <2>2, OptionPackets, Zenon
<1>8. ASSUME NEW n \in DOMAIN G_TC, Send(<<"TEXTCONV", n>>, gDPSetTextureConvert(G_TC[n]))
      PROVE  Asks("TEXTCONV")
    <2>1. Options["TEXTCONV"] = G_TC /\ Area["TEXTCONV"] = 9 .. 9 + 3 - 1
        BY DEF Options, Area
    <2>2. 9 \in 0 .. 31 /\ 3 \in 1 .. 32 /\ 9 + 3 <= 32
        OBVIOUS
    <2> QED
        BY <1>8, <2>1, <2>2, OptionPackets, Zenon
<1>9. ASSUME NEW n \in DOMAIN G_CK, Send(<<"COMBKEY", n>>, gDPSetCombineKey(G_CK[n]))
      PROVE  Asks("COMBKEY")
    <2>1. Options["COMBKEY"] = G_CK /\ Area["COMBKEY"] = 8 .. 8 + 1 - 1
        BY DEF Options, Area
    <2>2. 8 \in 0 .. 31 /\ 1 \in 1 .. 32 /\ 8 + 1 <= 32
        OBVIOUS
    <2> QED
        BY <1>9, <2>1, <2>2, OptionPackets, Zenon
<1>10. ASSUME NEW n \in DOMAIN G_CD, Send(<<"RGBDITHER", n>>, gDPSetColorDither(G_CD[n]))
      PROVE  Asks("RGBDITHER")
    <2>1. Options["RGBDITHER"] = G_CD /\ Area["RGBDITHER"] = 6 .. 6 + 2 - 1
        BY DEF Options, Area
    <2>2. 6 \in 0 .. 31 /\ 2 \in 1 .. 32 /\ 6 + 2 <= 32
        OBVIOUS
    <2> QED
        BY <1>10, <2>1, <2>2, OptionPackets, Zenon
<1>11. ASSUME NEW n \in DOMAIN G_AD, Send(<<"ALPHADITHER", n>>, gDPSetAlphaDither(G_AD[n]))
      PROVE  Asks("ALPHADITHER")
    <2>1. Options["ALPHADITHER"] = G_AD /\ Area["ALPHADITHER"] = 4 .. 4 + 2 - 1
        BY DEF Options, Area
    <2>2. 4 \in 0 .. 31 /\ 2 \in 1 .. 32 /\ 4 + 2 <= 32
        OBVIOUS
    <2> QED
        BY <1>11, <2>1, <2>2, OptionPackets, Zenon
<1>12. ASSUME NEW n \in DOMAIN G_AC, Send(<<"ALPHACOMPARE", n>>, gDPSetAlphaCompare(G_AC[n]))
      PROVE  Asks("ALPHACOMPARE")
    <2>1. Options["ALPHACOMPARE"] = G_AC /\ Area["ALPHACOMPARE"] = 0 .. 0 + 2 - 1
        BY DEF Options, Area
    <2>2. 0 \in 0 .. 31 /\ 2 \in 1 .. 32 /\ 0 + 2 <= 32
        OBVIOUS
    <2> QED
        BY <1>12, <2>1, <2>2, OptionPackets, Zenon
<1>13. ASSUME NEW n \in DOMAIN G_ZS, Send(<<"ZSRCSEL", n>>, gDPSetDepthSource(G_ZS[n]))
      PROVE  Asks("ZSRCSEL")
    <2>1. Options["ZSRCSEL"] = G_ZS /\ Area["ZSRCSEL"] = 2 .. 2 + 1 - 1
        BY DEF Options, Area
    <2>2. 2 \in 0 .. 31 /\ 1 \in 1 .. 32 /\ 2 + 1 <= 32
        OBVIOUS
    <2> QED
        BY <1>13, <2>1, <2>2, OptionPackets, Zenon
<1>14. \/ \E n \in DOMAIN G_PM : Send(<<"PIPELINE", n>>, gDPPipelineMode(G_PM[n]))
       \/ \E n \in DOMAIN G_CYC : Send(<<"CYCLETYPE", n>>, gDPSetCycleType(G_CYC[n]))
       \/ \E n \in DOMAIN G_TP : Send(<<"TEXTPERSP", n>>, gDPSetTexturePersp(G_TP[n]))
       \/ \E n \in DOMAIN G_TD : Send(<<"TEXTDETAIL", n>>, gDPSetTextureDetail(G_TD[n]))
       \/ \E n \in DOMAIN G_TL : Send(<<"TEXTLOD", n>>, gDPSetTextureLOD(G_TL[n]))
       \/ \E n \in DOMAIN G_TT : Send(<<"TEXTLUT", n>>, gDPSetTextureLUT(G_TT[n]))
       \/ \E n \in DOMAIN G_TF : Send(<<"TEXTFILT", n>>, gDPSetTextureFilter(G_TF[n]))
       \/ \E n \in DOMAIN G_TC : Send(<<"TEXTCONV", n>>, gDPSetTextureConvert(G_TC[n]))
       \/ \E n \in DOMAIN G_CK : Send(<<"COMBKEY", n>>, gDPSetCombineKey(G_CK[n]))
       \/ \E n \in DOMAIN G_CD : Send(<<"RGBDITHER", n>>, gDPSetColorDither(G_CD[n]))
       \/ \E n \in DOMAIN G_AD : Send(<<"ALPHADITHER", n>>, gDPSetAlphaDither(G_AD[n]))
       \/ \E n \in DOMAIN G_AC : Send(<<"ALPHACOMPARE", n>>, gDPSetAlphaCompare(G_AC[n]))
       \/ \E n \in DOMAIN G_ZS : Send(<<"ZSRCSEL", n>>, gDPSetDepthSource(G_ZS[n]))
    BY Zenon DEF SetOption
<1>15. {"PIPELINE", "CYCLETYPE", "TEXTPERSP", "TEXTDETAIL", "TEXTLOD", "TEXTLUT", "TEXTFILT",
        "TEXTCONV", "COMBKEY", "RGBDITHER", "ALPHADITHER", "ALPHACOMPARE",
        "ZSRCSEL"} \subseteq DOMAIN Options
    BY DEF Options
<1> HIDE DEF Asks
<1>16. \E o \in DOMAIN Options : Asks(o)
    BY <1>1, <1>2, <1>3, <1>4, <1>5, <1>6, <1>7, <1>8, <1>9, <1>10, <1>11, <1>12, <1>13, <1>14,
       <1>15
<1> QED
    BY <1>16, Zenon DEF Asks

-----------------------------------------------------------------------------
(* Render modes.                                                           *)

\* The flags of a render mode, bit by bit.
LEMMA FlagsAre ==
    /\ DOMAIN Flag = {"AA_EN", "Z_CMP", "Z_UPD", "IM_RD", "CLR_ON_CVG", "CVG_DST_WRAP",
                      "CVG_DST_FULL", "CVG_DST_SAVE", "ZMODE_INTER", "ZMODE_XLU", "ZMODE_DEC",
                      "CVG_X_ALPHA", "ALPHA_CVG_SEL", "FORCE_BL", "AC_DITHER"}
    /\ Flag.AA_EN = {3} /\ Flag.Z_CMP = {4} /\ Flag.Z_UPD = {5} /\ Flag.IM_RD = {6}
    /\ Flag.CLR_ON_CVG = {7} /\ Flag.CVG_DST_WRAP = {8} /\ Flag.CVG_DST_FULL = {9}
    /\ Flag.CVG_DST_SAVE = {8, 9} /\ Flag.ZMODE_INTER = {10} /\ Flag.ZMODE_XLU = {11}
    /\ Flag.ZMODE_DEC = {10, 11} /\ Flag.CVG_X_ALPHA = {12} /\ Flag.ALPHA_CVG_SEL = {13}
    /\ Flag.FORCE_BL = {14} /\ Flag.AC_DITHER = {0, 1}
<1>1. G_AC.DITHER = {0, 1}
    BY G_AC_Words
<1> QED
    BY <1>1 DEF Flag

\* Four inputs of the blender.
Four(blend) ==
    \E a, b, c, d \in 0 .. 3 : blend = <<a, b, c, d>>

\* What the names of a mode make of it: its flags lie below the blender's
\* inputs, the bits of the alpha compare are all set or none; depth is not
\* written in a layer; and memory is read when its colour is sure to be used.
Good(m) ==
    /\ m.flags \subseteq (0 .. 15) \ {2}
    /\ 0 \in m.flags <=> 1 \in m.flags
    /\ 11 \in m.flags => ~(5 \in m.flags)
    /\ 14 \in m.flags /\ m.blend[3] = 1 => 6 \in m.flags
    /\ Four(m.blend)

\* A mode built by RM is good if its arguments are.
LEMMA RMIsGood ==
    ASSUME NEW names, NEW blend, names \subseteq DOMAIN Flag, Four(blend),
           ~("Z_UPD" \in names /\ ("ZMODE_XLU" \in names \/ "ZMODE_DEC" \in names)),
           "FORCE_BL" \in names /\ blend[3] = 1 => "IM_RD" \in names
    PROVE  Good(RM(names, blend))
<1> DEFINE m == RM(names, blend)
           f == UNION {Flag[n] : n \in names}
<1>1. m.flags = f /\ m.blend = blend
    BY DEF RM
<1>2. \A b : b \in f <=> \E n \in names : b \in Flag[n]
    OBVIOUS
<1> HIDE DEF f
<1>3. f \subseteq (0 .. 15) \ {2}
    BY <1>2, FlagsAre
<1>4. 0 \in f <=> "AC_DITHER" \in names
    BY <1>2, FlagsAre
<1>5. 1 \in f <=> "AC_DITHER" \in names
    BY <1>2, FlagsAre
<1>6. 11 \in f <=> "ZMODE_XLU" \in names \/ "ZMODE_DEC" \in names
    BY <1>2, FlagsAre
<1>7. 5 \in f <=> "Z_UPD" \in names
    BY <1>2, FlagsAre
<1>8. 14 \in f <=> "FORCE_BL" \in names
    BY <1>2, FlagsAre
<1>9. 6 \in f <=> "IM_RD" \in names
    BY <1>2, FlagsAre
<1> HIDE DEF m
<1> QED
    BY <1>1, <1>3, <1>4, <1>5, <1>6, <1>7, <1>8, <1>9, Zenon DEF Good, m

\* The blends that the modes use.
LEMMA BlendsAre ==
    /\ Four(OverCoverage) /\ Four(OverAlpha) /\ Four(Replace) /\ Four(<<0, 0, 0, 0>>)
    /\ Four(<<G_BL.CLR_IN, G_BL.A_FOG, G_BL.CLR_MEM, G_BL.ONE>>)
    /\ Four(<<G_BL.CLR_IN, G_BL.ZERO, G_BL.CLR_BL, G_BL.A_MEM>>)
    /\ Replace[3] # 1 /\ (<<0, 0, 0, 0>>)[3] # 1
    /\ (<<G_BL.CLR_IN, G_BL.ZERO, G_BL.CLR_BL, G_BL.A_MEM>>)[3] # 1
<1>1. /\ G_BL.CLR_IN = 0 /\ G_BL.CLR_MEM = 1 /\ G_BL.CLR_BL = 2 /\ G_BL.A_FOG = 1
      /\ G_BL.ONE_MINUS_A = 0 /\ G_BL.A_MEM = 1 /\ G_BL.ONE = 2 /\ G_BL.ZERO = 3
      /\ G_BL.A_IN = 0
    BY DEF G_BL
<1>2. \A a, b, c, d \in 0 .. 3 : Four(<<a, b, c, d>>)
    BY Zenon DEF Four
<1>3. 0 \in 0 .. 3 /\ 1 \in 0 .. 3 /\ 2 \in 0 .. 3 /\ 3 \in 0 .. 3
    OBVIOUS
<1>4. Four(OverCoverage) /\ Four(OverAlpha) /\ Four(Replace) /\ Four(<<0, 0, 0, 0>>)
    BY <1>1, <1>2, <1>3, Zenon DEF OverCoverage, OverAlpha, Replace
<1>5. /\ Four(<<G_BL.CLR_IN, G_BL.A_FOG, G_BL.CLR_MEM, G_BL.ONE>>)
      /\ Four(<<G_BL.CLR_IN, G_BL.ZERO, G_BL.CLR_BL, G_BL.A_MEM>>)
    BY <1>1, <1>2, <1>3, Zenon
<1>6. Replace[3] = 0 /\ (<<0, 0, 0, 0>>)[3] = 0
    BY <1>1 DEF Replace
<1>7. (<<G_BL.CLR_IN, G_BL.ZERO, G_BL.CLR_BL, G_BL.A_MEM>>)[3] = 2
    BY <1>1
<1> QED
    BY <1>4, <1>5, <1>6, <1>7

\* The modes with both antialiasing and depth.
LEMMA RM_AA_ZB_IsGood == \A n \in DOMAIN RM_AA_ZB : Good(RM_AA_ZB[n])
<1> DEFINE entries == [AA_ZB_OPA_SURF |->
                RM({"AA_EN", "Z_CMP", "IM_RD"} \cup ({"Z_UPD"} \cup Edges), OverCoverage),
            AA_ZB_XLU_SURF |->
                RM({"AA_EN", "Z_CMP", "IM_RD"} \cup ({"ZMODE_XLU"} \cup Layer), OverAlpha),
            AA_ZB_OPA_DECAL |->
                RM({"AA_EN", "Z_CMP", "IM_RD"} \cup ({"CVG_DST_WRAP", "ZMODE_DEC"} \cup Edges), OverCoverage),
            AA_ZB_XLU_DECAL |->
                RM({"AA_EN", "Z_CMP", "IM_RD"} \cup ({"ZMODE_DEC"} \cup Layer), OverAlpha),
            AA_ZB_OPA_INTER |->
                RM({"AA_EN", "Z_CMP", "IM_RD"} \cup ({"Z_UPD"} \cup ({"ZMODE_INTER"} \cup Edges)), OverCoverage),
            AA_ZB_XLU_INTER |->
                RM({"AA_EN", "Z_CMP", "IM_RD"} \cup ({"ZMODE_INTER"} \cup Layer), OverAlpha),
            AA_ZB_XLU_LINE |->
                RM({"AA_EN", "Z_CMP", "IM_RD"} \cup ({"FORCE_BL", "ZMODE_XLU"} \cup TexEdges), OverAlpha),
            AA_ZB_DEC_LINE |->
                RM({"AA_EN", "Z_CMP", "IM_RD"} \cup ({"CVG_DST_SAVE", "FORCE_BL", "ZMODE_DEC"} \cup TexEdges), OverAlpha),
            AA_ZB_TEX_EDGE |->
                RM({"AA_EN", "Z_CMP", "IM_RD"} \cup ({"Z_UPD"} \cup TexEdges), OverCoverage),
            AA_ZB_TEX_INTER |->
                RM({"AA_EN", "Z_CMP", "IM_RD"} \cup ({"Z_UPD"} \cup ({"ZMODE_INTER"} \cup TexEdges)), OverCoverage),
            AA_ZB_SUB_SURF |->
                RM({"AA_EN", "Z_CMP", "IM_RD"} \cup ({"Z_UPD"} \cup ({"CVG_DST_FULL"} \cup Edges)), OverCoverage),
            AA_ZB_PCL_SURF |->
                RM({"AA_EN", "Z_CMP", "IM_RD"} \cup ({"Z_UPD"} \cup {"AC_DITHER"}), OverAlpha),
            AA_ZB_OPA_TERR |->
                RM({"AA_EN", "Z_CMP", "IM_RD"} \cup ({"Z_UPD"} \cup Edges), OverAlpha),
            AA_ZB_TEX_TERR |->
                RM({"AA_EN", "Z_CMP", "IM_RD"} \cup ({"Z_UPD"} \cup TexEdges), OverAlpha),
            AA_ZB_SUB_TERR |->
                RM({"AA_EN", "Z_CMP", "IM_RD"} \cup ({"Z_UPD"} \cup ({"CVG_DST_FULL"} \cup Edges)), OverAlpha)]
<1>1. RM_AA_ZB = entries
    BY Zenon DEF RM_AA_ZB
<1>2. DOMAIN entries = {"AA_ZB_OPA_SURF", "AA_ZB_XLU_SURF", "AA_ZB_OPA_DECAL",
        "AA_ZB_XLU_DECAL", "AA_ZB_OPA_INTER", "AA_ZB_XLU_INTER", "AA_ZB_XLU_LINE",
        "AA_ZB_DEC_LINE", "AA_ZB_TEX_EDGE", "AA_ZB_TEX_INTER", "AA_ZB_SUB_SURF",
        "AA_ZB_PCL_SURF", "AA_ZB_OPA_TERR", "AA_ZB_TEX_TERR", "AA_ZB_SUB_TERR"}
    OBVIOUS
<1>3. Good(entries.AA_ZB_OPA_SURF)
    <2> DEFINE names == {"AA_EN", "Z_CMP", "IM_RD"} \cup ({"Z_UPD"} \cup Edges)
    <2>1. entries.AA_ZB_OPA_SURF = RM(names, OverCoverage)
        OBVIOUS
    <2>2. /\ names \subseteq DOMAIN Flag
          /\ ~("Z_UPD" \in names /\ ("ZMODE_XLU" \in names \/ "ZMODE_DEC" \in names))
          /\ "FORCE_BL" \in names => "IM_RD" \in names
        BY FlagsAre DEF Edges, TexEdges, Layer
    <2> HIDE DEF names, entries
    <2> QED
        BY <2>1, <2>2, BlendsAre, RMIsGood, Zenon
<1>4. Good(entries.AA_ZB_XLU_SURF)
    <2> DEFINE names == {"AA_EN", "Z_CMP", "IM_RD"} \cup ({"ZMODE_XLU"} \cup Layer)
    <2>1. entries.AA_ZB_XLU_SURF = RM(names, OverAlpha)
        OBVIOUS
    <2>2. /\ names \subseteq DOMAIN Flag
          /\ ~("Z_UPD" \in names /\ ("ZMODE_XLU" \in names \/ "ZMODE_DEC" \in names))
          /\ "FORCE_BL" \in names => "IM_RD" \in names
        BY FlagsAre DEF Edges, TexEdges, Layer
    <2> HIDE DEF names, entries
    <2> QED
        BY <2>1, <2>2, BlendsAre, RMIsGood, Zenon
<1>5. Good(entries.AA_ZB_OPA_DECAL)
    <2> DEFINE names == {"AA_EN", "Z_CMP", "IM_RD"} \cup ({"CVG_DST_WRAP", "ZMODE_DEC"} \cup Edges)
    <2>1. entries.AA_ZB_OPA_DECAL = RM(names, OverCoverage)
        OBVIOUS
    <2>2. /\ names \subseteq DOMAIN Flag
          /\ ~("Z_UPD" \in names /\ ("ZMODE_XLU" \in names \/ "ZMODE_DEC" \in names))
          /\ "FORCE_BL" \in names => "IM_RD" \in names
        BY FlagsAre DEF Edges, TexEdges, Layer
    <2> HIDE DEF names, entries
    <2> QED
        BY <2>1, <2>2, BlendsAre, RMIsGood, Zenon
<1>6. Good(entries.AA_ZB_XLU_DECAL)
    <2> DEFINE names == {"AA_EN", "Z_CMP", "IM_RD"} \cup ({"ZMODE_DEC"} \cup Layer)
    <2>1. entries.AA_ZB_XLU_DECAL = RM(names, OverAlpha)
        OBVIOUS
    <2>2. /\ names \subseteq DOMAIN Flag
          /\ ~("Z_UPD" \in names /\ ("ZMODE_XLU" \in names \/ "ZMODE_DEC" \in names))
          /\ "FORCE_BL" \in names => "IM_RD" \in names
        BY FlagsAre DEF Edges, TexEdges, Layer
    <2> HIDE DEF names, entries
    <2> QED
        BY <2>1, <2>2, BlendsAre, RMIsGood, Zenon
<1>7. Good(entries.AA_ZB_OPA_INTER)
    <2> DEFINE names == {"AA_EN", "Z_CMP", "IM_RD"} \cup ({"Z_UPD"} \cup ({"ZMODE_INTER"} \cup Edges))
    <2>1. entries.AA_ZB_OPA_INTER = RM(names, OverCoverage)
        OBVIOUS
    <2>2. /\ names \subseteq DOMAIN Flag
          /\ ~("Z_UPD" \in names /\ ("ZMODE_XLU" \in names \/ "ZMODE_DEC" \in names))
          /\ "FORCE_BL" \in names => "IM_RD" \in names
        BY FlagsAre DEF Edges, TexEdges, Layer
    <2> HIDE DEF names, entries
    <2> QED
        BY <2>1, <2>2, BlendsAre, RMIsGood, Zenon
<1>8. Good(entries.AA_ZB_XLU_INTER)
    <2> DEFINE names == {"AA_EN", "Z_CMP", "IM_RD"} \cup ({"ZMODE_INTER"} \cup Layer)
    <2>1. entries.AA_ZB_XLU_INTER = RM(names, OverAlpha)
        OBVIOUS
    <2>2. /\ names \subseteq DOMAIN Flag
          /\ ~("Z_UPD" \in names /\ ("ZMODE_XLU" \in names \/ "ZMODE_DEC" \in names))
          /\ "FORCE_BL" \in names => "IM_RD" \in names
        BY FlagsAre DEF Edges, TexEdges, Layer
    <2> HIDE DEF names, entries
    <2> QED
        BY <2>1, <2>2, BlendsAre, RMIsGood, Zenon
<1>9. Good(entries.AA_ZB_XLU_LINE)
    <2> DEFINE names == {"AA_EN", "Z_CMP", "IM_RD"} \cup ({"FORCE_BL", "ZMODE_XLU"} \cup TexEdges)
    <2>1. entries.AA_ZB_XLU_LINE = RM(names, OverAlpha)
        OBVIOUS
    <2>2. /\ names \subseteq DOMAIN Flag
          /\ ~("Z_UPD" \in names /\ ("ZMODE_XLU" \in names \/ "ZMODE_DEC" \in names))
          /\ "FORCE_BL" \in names => "IM_RD" \in names
        BY FlagsAre DEF Edges, TexEdges, Layer
    <2> HIDE DEF names, entries
    <2> QED
        BY <2>1, <2>2, BlendsAre, RMIsGood, Zenon
<1>10. Good(entries.AA_ZB_DEC_LINE)
    <2> DEFINE names == {"AA_EN", "Z_CMP", "IM_RD"} \cup ({"CVG_DST_SAVE", "FORCE_BL", "ZMODE_DEC"} \cup TexEdges)
    <2>1. entries.AA_ZB_DEC_LINE = RM(names, OverAlpha)
        OBVIOUS
    <2>2. /\ names \subseteq DOMAIN Flag
          /\ ~("Z_UPD" \in names /\ ("ZMODE_XLU" \in names \/ "ZMODE_DEC" \in names))
          /\ "FORCE_BL" \in names => "IM_RD" \in names
        BY FlagsAre DEF Edges, TexEdges, Layer
    <2> HIDE DEF names, entries
    <2> QED
        BY <2>1, <2>2, BlendsAre, RMIsGood, Zenon
<1>11. Good(entries.AA_ZB_TEX_EDGE)
    <2> DEFINE names == {"AA_EN", "Z_CMP", "IM_RD"} \cup ({"Z_UPD"} \cup TexEdges)
    <2>1. entries.AA_ZB_TEX_EDGE = RM(names, OverCoverage)
        OBVIOUS
    <2>2. /\ names \subseteq DOMAIN Flag
          /\ ~("Z_UPD" \in names /\ ("ZMODE_XLU" \in names \/ "ZMODE_DEC" \in names))
          /\ "FORCE_BL" \in names => "IM_RD" \in names
        BY FlagsAre DEF Edges, TexEdges, Layer
    <2> HIDE DEF names, entries
    <2> QED
        BY <2>1, <2>2, BlendsAre, RMIsGood, Zenon
<1>12. Good(entries.AA_ZB_TEX_INTER)
    <2> DEFINE names == {"AA_EN", "Z_CMP", "IM_RD"} \cup ({"Z_UPD"} \cup ({"ZMODE_INTER"} \cup TexEdges))
    <2>1. entries.AA_ZB_TEX_INTER = RM(names, OverCoverage)
        OBVIOUS
    <2>2. /\ names \subseteq DOMAIN Flag
          /\ ~("Z_UPD" \in names /\ ("ZMODE_XLU" \in names \/ "ZMODE_DEC" \in names))
          /\ "FORCE_BL" \in names => "IM_RD" \in names
        BY FlagsAre DEF Edges, TexEdges, Layer
    <2> HIDE DEF names, entries
    <2> QED
        BY <2>1, <2>2, BlendsAre, RMIsGood, Zenon
<1>13. Good(entries.AA_ZB_SUB_SURF)
    <2> DEFINE names == {"AA_EN", "Z_CMP", "IM_RD"} \cup ({"Z_UPD"} \cup ({"CVG_DST_FULL"} \cup Edges))
    <2>1. entries.AA_ZB_SUB_SURF = RM(names, OverCoverage)
        OBVIOUS
    <2>2. /\ names \subseteq DOMAIN Flag
          /\ ~("Z_UPD" \in names /\ ("ZMODE_XLU" \in names \/ "ZMODE_DEC" \in names))
          /\ "FORCE_BL" \in names => "IM_RD" \in names
        BY FlagsAre DEF Edges, TexEdges, Layer
    <2> HIDE DEF names, entries
    <2> QED
        BY <2>1, <2>2, BlendsAre, RMIsGood, Zenon
<1>14. Good(entries.AA_ZB_PCL_SURF)
    <2> DEFINE names == {"AA_EN", "Z_CMP", "IM_RD"} \cup ({"Z_UPD"} \cup {"AC_DITHER"})
    <2>1. entries.AA_ZB_PCL_SURF = RM(names, OverAlpha)
        OBVIOUS
    <2>2. /\ names \subseteq DOMAIN Flag
          /\ ~("Z_UPD" \in names /\ ("ZMODE_XLU" \in names \/ "ZMODE_DEC" \in names))
          /\ "FORCE_BL" \in names => "IM_RD" \in names
        BY FlagsAre DEF Edges, TexEdges, Layer
    <2> HIDE DEF names, entries
    <2> QED
        BY <2>1, <2>2, BlendsAre, RMIsGood, Zenon
<1>15. Good(entries.AA_ZB_OPA_TERR)
    <2> DEFINE names == {"AA_EN", "Z_CMP", "IM_RD"} \cup ({"Z_UPD"} \cup Edges)
    <2>1. entries.AA_ZB_OPA_TERR = RM(names, OverAlpha)
        OBVIOUS
    <2>2. /\ names \subseteq DOMAIN Flag
          /\ ~("Z_UPD" \in names /\ ("ZMODE_XLU" \in names \/ "ZMODE_DEC" \in names))
          /\ "FORCE_BL" \in names => "IM_RD" \in names
        BY FlagsAre DEF Edges, TexEdges, Layer
    <2> HIDE DEF names, entries
    <2> QED
        BY <2>1, <2>2, BlendsAre, RMIsGood, Zenon
<1>16. Good(entries.AA_ZB_TEX_TERR)
    <2> DEFINE names == {"AA_EN", "Z_CMP", "IM_RD"} \cup ({"Z_UPD"} \cup TexEdges)
    <2>1. entries.AA_ZB_TEX_TERR = RM(names, OverAlpha)
        OBVIOUS
    <2>2. /\ names \subseteq DOMAIN Flag
          /\ ~("Z_UPD" \in names /\ ("ZMODE_XLU" \in names \/ "ZMODE_DEC" \in names))
          /\ "FORCE_BL" \in names => "IM_RD" \in names
        BY FlagsAre DEF Edges, TexEdges, Layer
    <2> HIDE DEF names, entries
    <2> QED
        BY <2>1, <2>2, BlendsAre, RMIsGood, Zenon
<1>17. Good(entries.AA_ZB_SUB_TERR)
    <2> DEFINE names == {"AA_EN", "Z_CMP", "IM_RD"} \cup ({"Z_UPD"} \cup ({"CVG_DST_FULL"} \cup Edges))
    <2>1. entries.AA_ZB_SUB_TERR = RM(names, OverAlpha)
        OBVIOUS
    <2>2. /\ names \subseteq DOMAIN Flag
          /\ ~("Z_UPD" \in names /\ ("ZMODE_XLU" \in names \/ "ZMODE_DEC" \in names))
          /\ "FORCE_BL" \in names => "IM_RD" \in names
        BY FlagsAre DEF Edges, TexEdges, Layer
    <2> HIDE DEF names, entries
    <2> QED
        BY <2>1, <2>2, BlendsAre, RMIsGood, Zenon
<1> HIDE DEF entries
<1> QED
    BY <1>1, <1>2, <1>3, <1>4, <1>5, <1>6, <1>7, <1>8, <1>9, <1>10, <1>11, <1>12, <1>13, <1>14,
       <1>15, <1>16, <1>17, Zenon

\* The modes with reduced antialiasing.
LEMMA RM_RA_IsGood == \A n \in DOMAIN RM_RA : Good(RM_RA[n])
<1> DEFINE entries == [RA_ZB_OPA_SURF |->
                RM({"AA_EN", "ALPHA_CVG_SEL"} \cup {"Z_CMP", "Z_UPD"}, OverCoverage),
            RA_ZB_OPA_DECAL |->
                RM({"AA_EN", "ALPHA_CVG_SEL"} \cup {"Z_CMP", "CVG_DST_WRAP", "ZMODE_DEC"}, OverCoverage),
            RA_ZB_OPA_INTER |->
                RM({"AA_EN", "ALPHA_CVG_SEL"} \cup {"Z_CMP", "Z_UPD", "ZMODE_INTER"}, OverCoverage),
            RA_OPA_SURF |->
                RM({"AA_EN", "ALPHA_CVG_SEL"} \cup {}, OverCoverage)]
<1>1. RM_RA = entries
    BY Zenon DEF RM_RA
<1>2. DOMAIN entries = {"RA_ZB_OPA_SURF", "RA_ZB_OPA_DECAL", "RA_ZB_OPA_INTER", "RA_OPA_SURF"}
    OBVIOUS
<1>3. Good(entries.RA_ZB_OPA_SURF)
    <2> DEFINE names == {"AA_EN", "ALPHA_CVG_SEL"} \cup {"Z_CMP", "Z_UPD"}
    <2>1. entries.RA_ZB_OPA_SURF = RM(names, OverCoverage)
        OBVIOUS
    <2>2. /\ names \subseteq DOMAIN Flag
          /\ ~("Z_UPD" \in names /\ ("ZMODE_XLU" \in names \/ "ZMODE_DEC" \in names))
          /\ "FORCE_BL" \in names => "IM_RD" \in names
        BY FlagsAre DEF Edges, TexEdges, Layer
    <2> HIDE DEF names, entries
    <2> QED
        BY <2>1, <2>2, BlendsAre, RMIsGood, Zenon
<1>4. Good(entries.RA_ZB_OPA_DECAL)
    <2> DEFINE names == {"AA_EN", "ALPHA_CVG_SEL"} \cup {"Z_CMP", "CVG_DST_WRAP", "ZMODE_DEC"}
    <2>1. entries.RA_ZB_OPA_DECAL = RM(names, OverCoverage)
        OBVIOUS
    <2>2. /\ names \subseteq DOMAIN Flag
          /\ ~("Z_UPD" \in names /\ ("ZMODE_XLU" \in names \/ "ZMODE_DEC" \in names))
          /\ "FORCE_BL" \in names => "IM_RD" \in names
        BY FlagsAre DEF Edges, TexEdges, Layer
    <2> HIDE DEF names, entries
    <2> QED
        BY <2>1, <2>2, BlendsAre, RMIsGood, Zenon
<1>5. Good(entries.RA_ZB_OPA_INTER)
    <2> DEFINE names == {"AA_EN", "ALPHA_CVG_SEL"} \cup {"Z_CMP", "Z_UPD", "ZMODE_INTER"}
    <2>1. entries.RA_ZB_OPA_INTER = RM(names, OverCoverage)
        OBVIOUS
    <2>2. /\ names \subseteq DOMAIN Flag
          /\ ~("Z_UPD" \in names /\ ("ZMODE_XLU" \in names \/ "ZMODE_DEC" \in names))
          /\ "FORCE_BL" \in names => "IM_RD" \in names
        BY FlagsAre DEF Edges, TexEdges, Layer
    <2> HIDE DEF names, entries
    <2> QED
        BY <2>1, <2>2, BlendsAre, RMIsGood, Zenon
<1>6. Good(entries.RA_OPA_SURF)
    <2> DEFINE names == {"AA_EN", "ALPHA_CVG_SEL"} \cup {}
    <2>1. entries.RA_OPA_SURF = RM(names, OverCoverage)
        OBVIOUS
    <2>2. /\ names \subseteq DOMAIN Flag
          /\ ~("Z_UPD" \in names /\ ("ZMODE_XLU" \in names \/ "ZMODE_DEC" \in names))
          /\ "FORCE_BL" \in names => "IM_RD" \in names
        BY FlagsAre DEF Edges, TexEdges, Layer
    <2> HIDE DEF names, entries
    <2> QED
        BY <2>1, <2>2, BlendsAre, RMIsGood, Zenon
<1> HIDE DEF entries
<1> QED
    BY <1>1, <1>2, <1>3, <1>4, <1>5, <1>6, Zenon

\* The modes with antialiasing only.
LEMMA RM_AA_IsGood == \A n \in DOMAIN RM_AA : Good(RM_AA[n])
<1> DEFINE entries == [AA_OPA_SURF |->
                RM({"AA_EN", "IM_RD"} \cup Edges, OverCoverage),
            AA_XLU_SURF |->
                RM({"AA_EN", "IM_RD"} \cup Layer, OverAlpha),
            AA_XLU_LINE |->
                RM({"AA_EN", "IM_RD"} \cup ({"FORCE_BL"} \cup TexEdges), OverAlpha),
            AA_DEC_LINE |->
                RM({"AA_EN", "IM_RD"} \cup ({"CVG_DST_FULL", "FORCE_BL"} \cup TexEdges), OverAlpha),
            AA_TEX_EDGE |->
                RM({"AA_EN", "IM_RD"} \cup TexEdges, OverCoverage),
            AA_SUB_SURF |->
                RM({"AA_EN", "IM_RD"} \cup ({"CVG_DST_FULL"} \cup Edges), OverCoverage),
            AA_PCL_SURF |->
                RM({"AA_EN", "IM_RD"} \cup {"AC_DITHER"}, OverAlpha),
            AA_OPA_TERR |->
                RM({"AA_EN", "IM_RD"} \cup Edges, OverAlpha),
            AA_TEX_TERR |->
                RM({"AA_EN", "IM_RD"} \cup TexEdges, OverAlpha),
            AA_SUB_TERR |->
                RM({"AA_EN", "IM_RD"} \cup ({"CVG_DST_FULL"} \cup Edges), OverAlpha)]
<1>1. RM_AA = entries
    BY Zenon DEF RM_AA
<1>2. DOMAIN entries = {"AA_OPA_SURF", "AA_XLU_SURF", "AA_XLU_LINE", "AA_DEC_LINE",
        "AA_TEX_EDGE", "AA_SUB_SURF", "AA_PCL_SURF", "AA_OPA_TERR", "AA_TEX_TERR", "AA_SUB_TERR"}
    OBVIOUS
<1>3. Good(entries.AA_OPA_SURF)
    <2> DEFINE names == {"AA_EN", "IM_RD"} \cup Edges
    <2>1. entries.AA_OPA_SURF = RM(names, OverCoverage)
        OBVIOUS
    <2>2. /\ names \subseteq DOMAIN Flag
          /\ ~("Z_UPD" \in names /\ ("ZMODE_XLU" \in names \/ "ZMODE_DEC" \in names))
          /\ "FORCE_BL" \in names => "IM_RD" \in names
        BY FlagsAre DEF Edges, TexEdges, Layer
    <2> HIDE DEF names, entries
    <2> QED
        BY <2>1, <2>2, BlendsAre, RMIsGood, Zenon
<1>4. Good(entries.AA_XLU_SURF)
    <2> DEFINE names == {"AA_EN", "IM_RD"} \cup Layer
    <2>1. entries.AA_XLU_SURF = RM(names, OverAlpha)
        OBVIOUS
    <2>2. /\ names \subseteq DOMAIN Flag
          /\ ~("Z_UPD" \in names /\ ("ZMODE_XLU" \in names \/ "ZMODE_DEC" \in names))
          /\ "FORCE_BL" \in names => "IM_RD" \in names
        BY FlagsAre DEF Edges, TexEdges, Layer
    <2> HIDE DEF names, entries
    <2> QED
        BY <2>1, <2>2, BlendsAre, RMIsGood, Zenon
<1>5. Good(entries.AA_XLU_LINE)
    <2> DEFINE names == {"AA_EN", "IM_RD"} \cup ({"FORCE_BL"} \cup TexEdges)
    <2>1. entries.AA_XLU_LINE = RM(names, OverAlpha)
        OBVIOUS
    <2>2. /\ names \subseteq DOMAIN Flag
          /\ ~("Z_UPD" \in names /\ ("ZMODE_XLU" \in names \/ "ZMODE_DEC" \in names))
          /\ "FORCE_BL" \in names => "IM_RD" \in names
        BY FlagsAre DEF Edges, TexEdges, Layer
    <2> HIDE DEF names, entries
    <2> QED
        BY <2>1, <2>2, BlendsAre, RMIsGood, Zenon
<1>6. Good(entries.AA_DEC_LINE)
    <2> DEFINE names == {"AA_EN", "IM_RD"} \cup ({"CVG_DST_FULL", "FORCE_BL"} \cup TexEdges)
    <2>1. entries.AA_DEC_LINE = RM(names, OverAlpha)
        OBVIOUS
    <2>2. /\ names \subseteq DOMAIN Flag
          /\ ~("Z_UPD" \in names /\ ("ZMODE_XLU" \in names \/ "ZMODE_DEC" \in names))
          /\ "FORCE_BL" \in names => "IM_RD" \in names
        BY FlagsAre DEF Edges, TexEdges, Layer
    <2> HIDE DEF names, entries
    <2> QED
        BY <2>1, <2>2, BlendsAre, RMIsGood, Zenon
<1>7. Good(entries.AA_TEX_EDGE)
    <2> DEFINE names == {"AA_EN", "IM_RD"} \cup TexEdges
    <2>1. entries.AA_TEX_EDGE = RM(names, OverCoverage)
        OBVIOUS
    <2>2. /\ names \subseteq DOMAIN Flag
          /\ ~("Z_UPD" \in names /\ ("ZMODE_XLU" \in names \/ "ZMODE_DEC" \in names))
          /\ "FORCE_BL" \in names => "IM_RD" \in names
        BY FlagsAre DEF Edges, TexEdges, Layer
    <2> HIDE DEF names, entries
    <2> QED
        BY <2>1, <2>2, BlendsAre, RMIsGood, Zenon
<1>8. Good(entries.AA_SUB_SURF)
    <2> DEFINE names == {"AA_EN", "IM_RD"} \cup ({"CVG_DST_FULL"} \cup Edges)
    <2>1. entries.AA_SUB_SURF = RM(names, OverCoverage)
        OBVIOUS
    <2>2. /\ names \subseteq DOMAIN Flag
          /\ ~("Z_UPD" \in names /\ ("ZMODE_XLU" \in names \/ "ZMODE_DEC" \in names))
          /\ "FORCE_BL" \in names => "IM_RD" \in names
        BY FlagsAre DEF Edges, TexEdges, Layer
    <2> HIDE DEF names, entries
    <2> QED
        BY <2>1, <2>2, BlendsAre, RMIsGood, Zenon
<1>9. Good(entries.AA_PCL_SURF)
    <2> DEFINE names == {"AA_EN", "IM_RD"} \cup {"AC_DITHER"}
    <2>1. entries.AA_PCL_SURF = RM(names, OverAlpha)
        OBVIOUS
    <2>2. /\ names \subseteq DOMAIN Flag
          /\ ~("Z_UPD" \in names /\ ("ZMODE_XLU" \in names \/ "ZMODE_DEC" \in names))
          /\ "FORCE_BL" \in names => "IM_RD" \in names
        BY FlagsAre DEF Edges, TexEdges, Layer
    <2> HIDE DEF names, entries
    <2> QED
        BY <2>1, <2>2, BlendsAre, RMIsGood, Zenon
<1>10. Good(entries.AA_OPA_TERR)
    <2> DEFINE names == {"AA_EN", "IM_RD"} \cup Edges
    <2>1. entries.AA_OPA_TERR = RM(names, OverAlpha)
        OBVIOUS
    <2>2. /\ names \subseteq DOMAIN Flag
          /\ ~("Z_UPD" \in names /\ ("ZMODE_XLU" \in names \/ "ZMODE_DEC" \in names))
          /\ "FORCE_BL" \in names => "IM_RD" \in names
        BY FlagsAre DEF Edges, TexEdges, Layer
    <2> HIDE DEF names, entries
    <2> QED
        BY <2>1, <2>2, BlendsAre, RMIsGood, Zenon
<1>11. Good(entries.AA_TEX_TERR)
    <2> DEFINE names == {"AA_EN", "IM_RD"} \cup TexEdges
    <2>1. entries.AA_TEX_TERR = RM(names, OverAlpha)
        OBVIOUS
    <2>2. /\ names \subseteq DOMAIN Flag
          /\ ~("Z_UPD" \in names /\ ("ZMODE_XLU" \in names \/ "ZMODE_DEC" \in names))
          /\ "FORCE_BL" \in names => "IM_RD" \in names
        BY FlagsAre DEF Edges, TexEdges, Layer
    <2> HIDE DEF names, entries
    <2> QED
        BY <2>1, <2>2, BlendsAre, RMIsGood, Zenon
<1>12. Good(entries.AA_SUB_TERR)
    <2> DEFINE names == {"AA_EN", "IM_RD"} \cup ({"CVG_DST_FULL"} \cup Edges)
    <2>1. entries.AA_SUB_TERR = RM(names, OverAlpha)
        OBVIOUS
    <2>2. /\ names \subseteq DOMAIN Flag
          /\ ~("Z_UPD" \in names /\ ("ZMODE_XLU" \in names \/ "ZMODE_DEC" \in names))
          /\ "FORCE_BL" \in names => "IM_RD" \in names
        BY FlagsAre DEF Edges, TexEdges, Layer
    <2> HIDE DEF names, entries
    <2> QED
        BY <2>1, <2>2, BlendsAre, RMIsGood, Zenon
<1> HIDE DEF entries
<1> QED
    BY <1>1, <1>2, <1>3, <1>4, <1>5, <1>6, <1>7, <1>8, <1>9, <1>10, <1>11, <1>12, Zenon

\* The modes with depth only.
LEMMA RM_ZB_IsGood == \A n \in DOMAIN RM_ZB : Good(RM_ZB[n])
<1> DEFINE entries == [ZB_OPA_SURF |->
                RM({"Z_CMP", "Z_UPD", "CVG_DST_FULL", "ALPHA_CVG_SEL"}, OverCoverage),
            ZB_XLU_SURF |->
                RM({"Z_CMP", "IM_RD", "FORCE_BL"} \cup {"CVG_DST_FULL", "ZMODE_XLU"}, OverAlpha),
            ZB_OPA_DECAL |->
                RM({"Z_CMP", "CVG_DST_FULL", "ALPHA_CVG_SEL", "ZMODE_DEC"}, OverCoverage),
            ZB_XLU_DECAL |->
                RM({"Z_CMP", "IM_RD", "FORCE_BL"} \cup {"CVG_DST_FULL", "ZMODE_DEC"}, OverAlpha),
            ZB_CLD_SURF |->
                RM({"Z_CMP", "IM_RD", "FORCE_BL"} \cup {"CVG_DST_SAVE", "ZMODE_XLU"}, OverAlpha),
            ZB_OVL_SURF |->
                RM({"Z_CMP", "IM_RD", "FORCE_BL"} \cup {"CVG_DST_SAVE", "ZMODE_DEC"}, OverAlpha),
            ZB_PCL_SURF |->
                RM({"Z_CMP", "Z_UPD", "CVG_DST_FULL", "AC_DITHER"}, Replace)]
<1>1. RM_ZB = entries
    BY Zenon DEF RM_ZB
<1>2. DOMAIN entries = {"ZB_OPA_SURF", "ZB_XLU_SURF", "ZB_OPA_DECAL", "ZB_XLU_DECAL",
        "ZB_CLD_SURF", "ZB_OVL_SURF", "ZB_PCL_SURF"}
    OBVIOUS
<1>3. Good(entries.ZB_OPA_SURF)
    <2> DEFINE names == {"Z_CMP", "Z_UPD", "CVG_DST_FULL", "ALPHA_CVG_SEL"}
    <2>1. entries.ZB_OPA_SURF = RM(names, OverCoverage)
        OBVIOUS
    <2>2. /\ names \subseteq DOMAIN Flag
          /\ ~("Z_UPD" \in names /\ ("ZMODE_XLU" \in names \/ "ZMODE_DEC" \in names))
          /\ "FORCE_BL" \in names => "IM_RD" \in names
        BY FlagsAre DEF Edges, TexEdges, Layer
    <2> HIDE DEF names, entries
    <2> QED
        BY <2>1, <2>2, BlendsAre, RMIsGood, Zenon
<1>4. Good(entries.ZB_XLU_SURF)
    <2> DEFINE names == {"Z_CMP", "IM_RD", "FORCE_BL"} \cup {"CVG_DST_FULL", "ZMODE_XLU"}
    <2>1. entries.ZB_XLU_SURF = RM(names, OverAlpha)
        OBVIOUS
    <2>2. /\ names \subseteq DOMAIN Flag
          /\ ~("Z_UPD" \in names /\ ("ZMODE_XLU" \in names \/ "ZMODE_DEC" \in names))
          /\ "FORCE_BL" \in names => "IM_RD" \in names
        BY FlagsAre DEF Edges, TexEdges, Layer
    <2> HIDE DEF names, entries
    <2> QED
        BY <2>1, <2>2, BlendsAre, RMIsGood, Zenon
<1>5. Good(entries.ZB_OPA_DECAL)
    <2> DEFINE names == {"Z_CMP", "CVG_DST_FULL", "ALPHA_CVG_SEL", "ZMODE_DEC"}
    <2>1. entries.ZB_OPA_DECAL = RM(names, OverCoverage)
        OBVIOUS
    <2>2. /\ names \subseteq DOMAIN Flag
          /\ ~("Z_UPD" \in names /\ ("ZMODE_XLU" \in names \/ "ZMODE_DEC" \in names))
          /\ "FORCE_BL" \in names => "IM_RD" \in names
        BY FlagsAre DEF Edges, TexEdges, Layer
    <2> HIDE DEF names, entries
    <2> QED
        BY <2>1, <2>2, BlendsAre, RMIsGood, Zenon
<1>6. Good(entries.ZB_XLU_DECAL)
    <2> DEFINE names == {"Z_CMP", "IM_RD", "FORCE_BL"} \cup {"CVG_DST_FULL", "ZMODE_DEC"}
    <2>1. entries.ZB_XLU_DECAL = RM(names, OverAlpha)
        OBVIOUS
    <2>2. /\ names \subseteq DOMAIN Flag
          /\ ~("Z_UPD" \in names /\ ("ZMODE_XLU" \in names \/ "ZMODE_DEC" \in names))
          /\ "FORCE_BL" \in names => "IM_RD" \in names
        BY FlagsAre DEF Edges, TexEdges, Layer
    <2> HIDE DEF names, entries
    <2> QED
        BY <2>1, <2>2, BlendsAre, RMIsGood, Zenon
<1>7. Good(entries.ZB_CLD_SURF)
    <2> DEFINE names == {"Z_CMP", "IM_RD", "FORCE_BL"} \cup {"CVG_DST_SAVE", "ZMODE_XLU"}
    <2>1. entries.ZB_CLD_SURF = RM(names, OverAlpha)
        OBVIOUS
    <2>2. /\ names \subseteq DOMAIN Flag
          /\ ~("Z_UPD" \in names /\ ("ZMODE_XLU" \in names \/ "ZMODE_DEC" \in names))
          /\ "FORCE_BL" \in names => "IM_RD" \in names
        BY FlagsAre DEF Edges, TexEdges, Layer
    <2> HIDE DEF names, entries
    <2> QED
        BY <2>1, <2>2, BlendsAre, RMIsGood, Zenon
<1>8. Good(entries.ZB_OVL_SURF)
    <2> DEFINE names == {"Z_CMP", "IM_RD", "FORCE_BL"} \cup {"CVG_DST_SAVE", "ZMODE_DEC"}
    <2>1. entries.ZB_OVL_SURF = RM(names, OverAlpha)
        OBVIOUS
    <2>2. /\ names \subseteq DOMAIN Flag
          /\ ~("Z_UPD" \in names /\ ("ZMODE_XLU" \in names \/ "ZMODE_DEC" \in names))
          /\ "FORCE_BL" \in names => "IM_RD" \in names
        BY FlagsAre DEF Edges, TexEdges, Layer
    <2> HIDE DEF names, entries
    <2> QED
        BY <2>1, <2>2, BlendsAre, RMIsGood, Zenon
<1>9. Good(entries.ZB_PCL_SURF)
    <2> DEFINE names == {"Z_CMP", "Z_UPD", "CVG_DST_FULL", "AC_DITHER"}
    <2>1. entries.ZB_PCL_SURF = RM(names, Replace)
        OBVIOUS
    <2>2. /\ names \subseteq DOMAIN Flag
          /\ ~("Z_UPD" \in names /\ ("ZMODE_XLU" \in names \/ "ZMODE_DEC" \in names))
        BY FlagsAre DEF Edges, TexEdges, Layer
    <2> HIDE DEF names, entries
    <2> QED
        BY <2>1, <2>2, BlendsAre, RMIsGood, Zenon
<1> HIDE DEF entries
<1> QED
    BY <1>1, <1>2, <1>3, <1>4, <1>5, <1>6, <1>7, <1>8, <1>9, Zenon

\* The modes with neither.
LEMMA RM_Plain_IsGood == \A n \in DOMAIN RM_Plain : Good(RM_Plain[n])
<1> DEFINE entries == [OPA_SURF |->
                RM({"FORCE_BL"} \cup {}, Replace),
            XLU_SURF |->
                RM({"FORCE_BL"} \cup {"IM_RD", "CVG_DST_FULL"}, OverAlpha),
            TEX_EDGE |->
                RM({"FORCE_BL"} \cup ({"AA_EN"} \cup TexEdges), Replace),
            CLD_SURF |->
                RM({"FORCE_BL"} \cup {"IM_RD", "CVG_DST_SAVE"}, OverAlpha),
            PCL_SURF |->
                RM({"FORCE_BL"} \cup {"CVG_DST_FULL", "AC_DITHER"}, Replace),
            ADD |->
                RM({"FORCE_BL"} \cup {"IM_RD", "CVG_DST_SAVE"}, <<G_BL.CLR_IN, G_BL.A_FOG, G_BL.CLR_MEM, G_BL.ONE>>),
            NOOP |->
                RM({}, <<0, 0, 0, 0>>),
            VISCVG |->
                RM({"FORCE_BL"} \cup {"IM_RD"}, <<G_BL.CLR_IN, G_BL.ZERO, G_BL.CLR_BL, G_BL.A_MEM>>),
            OPA_CI |->
                RM({}, Replace)]
<1>1. RM_Plain = entries
    BY Zenon DEF RM_Plain
<1>2. DOMAIN entries = {"OPA_SURF", "XLU_SURF", "TEX_EDGE", "CLD_SURF", "PCL_SURF", "ADD",
        "NOOP", "VISCVG", "OPA_CI"}
    OBVIOUS
<1>3. Good(entries.OPA_SURF)
    <2> DEFINE names == {"FORCE_BL"} \cup {}
    <2>1. entries.OPA_SURF = RM(names, Replace)
        OBVIOUS
    <2>2. /\ names \subseteq DOMAIN Flag
          /\ ~("Z_UPD" \in names /\ ("ZMODE_XLU" \in names \/ "ZMODE_DEC" \in names))
        BY FlagsAre DEF Edges, TexEdges, Layer
    <2> HIDE DEF names, entries
    <2> QED
        BY <2>1, <2>2, BlendsAre, RMIsGood, Zenon
<1>4. Good(entries.XLU_SURF)
    <2> DEFINE names == {"FORCE_BL"} \cup {"IM_RD", "CVG_DST_FULL"}
    <2>1. entries.XLU_SURF = RM(names, OverAlpha)
        OBVIOUS
    <2>2. /\ names \subseteq DOMAIN Flag
          /\ ~("Z_UPD" \in names /\ ("ZMODE_XLU" \in names \/ "ZMODE_DEC" \in names))
          /\ "FORCE_BL" \in names => "IM_RD" \in names
        BY FlagsAre DEF Edges, TexEdges, Layer
    <2> HIDE DEF names, entries
    <2> QED
        BY <2>1, <2>2, BlendsAre, RMIsGood, Zenon
<1>5. Good(entries.TEX_EDGE)
    <2> DEFINE names == {"FORCE_BL"} \cup ({"AA_EN"} \cup TexEdges)
    <2>1. entries.TEX_EDGE = RM(names, Replace)
        OBVIOUS
    <2>2. /\ names \subseteq DOMAIN Flag
          /\ ~("Z_UPD" \in names /\ ("ZMODE_XLU" \in names \/ "ZMODE_DEC" \in names))
        BY FlagsAre DEF Edges, TexEdges, Layer
    <2> HIDE DEF names, entries
    <2> QED
        BY <2>1, <2>2, BlendsAre, RMIsGood, Zenon
<1>6. Good(entries.CLD_SURF)
    <2> DEFINE names == {"FORCE_BL"} \cup {"IM_RD", "CVG_DST_SAVE"}
    <2>1. entries.CLD_SURF = RM(names, OverAlpha)
        OBVIOUS
    <2>2. /\ names \subseteq DOMAIN Flag
          /\ ~("Z_UPD" \in names /\ ("ZMODE_XLU" \in names \/ "ZMODE_DEC" \in names))
          /\ "FORCE_BL" \in names => "IM_RD" \in names
        BY FlagsAre DEF Edges, TexEdges, Layer
    <2> HIDE DEF names, entries
    <2> QED
        BY <2>1, <2>2, BlendsAre, RMIsGood, Zenon
<1>7. Good(entries.PCL_SURF)
    <2> DEFINE names == {"FORCE_BL"} \cup {"CVG_DST_FULL", "AC_DITHER"}
    <2>1. entries.PCL_SURF = RM(names, Replace)
        OBVIOUS
    <2>2. /\ names \subseteq DOMAIN Flag
          /\ ~("Z_UPD" \in names /\ ("ZMODE_XLU" \in names \/ "ZMODE_DEC" \in names))
        BY FlagsAre DEF Edges, TexEdges, Layer
    <2> HIDE DEF names, entries
    <2> QED
        BY <2>1, <2>2, BlendsAre, RMIsGood, Zenon
<1>8. Good(entries.ADD)
    <2> DEFINE names == {"FORCE_BL"} \cup {"IM_RD", "CVG_DST_SAVE"}
    <2>1. entries.ADD = RM(names, <<G_BL.CLR_IN, G_BL.A_FOG, G_BL.CLR_MEM, G_BL.ONE>>)
        OBVIOUS
    <2>2. /\ names \subseteq DOMAIN Flag
          /\ ~("Z_UPD" \in names /\ ("ZMODE_XLU" \in names \/ "ZMODE_DEC" \in names))
          /\ "FORCE_BL" \in names => "IM_RD" \in names
        BY FlagsAre DEF Edges, TexEdges, Layer
    <2> HIDE DEF names, entries
    <2> QED
        BY <2>1, <2>2, BlendsAre, RMIsGood, Zenon
<1>9. Good(entries.NOOP)
    <2> DEFINE names == {}
    <2>1. entries.NOOP = RM(names, <<0, 0, 0, 0>>)
        OBVIOUS
    <2>2. /\ names \subseteq DOMAIN Flag
          /\ ~("Z_UPD" \in names /\ ("ZMODE_XLU" \in names \/ "ZMODE_DEC" \in names))
        BY FlagsAre DEF Edges, TexEdges, Layer
    <2> HIDE DEF names, entries
    <2> QED
        BY <2>1, <2>2, BlendsAre, RMIsGood, Zenon
<1>10. Good(entries.VISCVG)
    <2> DEFINE names == {"FORCE_BL"} \cup {"IM_RD"}
    <2>1. entries.VISCVG = RM(names, <<G_BL.CLR_IN, G_BL.ZERO, G_BL.CLR_BL, G_BL.A_MEM>>)
        OBVIOUS
    <2>2. /\ names \subseteq DOMAIN Flag
          /\ ~("Z_UPD" \in names /\ ("ZMODE_XLU" \in names \/ "ZMODE_DEC" \in names))
        BY FlagsAre DEF Edges, TexEdges, Layer
    <2> HIDE DEF names, entries
    <2> QED
        BY <2>1, <2>2, BlendsAre, RMIsGood, Zenon
<1>11. Good(entries.OPA_CI)
    <2> DEFINE names == {}
    <2>1. entries.OPA_CI = RM(names, Replace)
        OBVIOUS
    <2>2. /\ names \subseteq DOMAIN Flag
          /\ ~("Z_UPD" \in names /\ ("ZMODE_XLU" \in names \/ "ZMODE_DEC" \in names))
        BY FlagsAre DEF Edges, TexEdges, Layer
    <2> HIDE DEF names, entries
    <2> QED
        BY <2>1, <2>2, BlendsAre, RMIsGood, Zenon
<1> HIDE DEF entries
<1> QED
    BY <1>1, <1>2, <1>3, <1>4, <1>5, <1>6, <1>7, <1>8, <1>9, <1>10, <1>11, Zenon

-----------------------------------------------------------------------------
(* The words of a render mode.                                             *)

\* Every mode of the table.
LEMMA RenderModesAreGood ==
    /\ \A n \in DOMAIN RenderMode : Good(RenderMode[n])
    /\ "NOOP" \in DOMAIN RenderMode
<1>1. ASSUME NEW f, NEW g, \A n \in DOMAIN f : Good(f[n]), \A n \in DOMAIN g : Good(g[n])
      PROVE  \A n \in DOMAIN Joined(f, g) : Good(Joined(f, g)[n])
    BY <1>1 DEF Joined
<1>2. \A f, g : DOMAIN Joined(f, g) = DOMAIN f \cup DOMAIN g
    BY DEF Joined
<1> DEFINE T1 == Joined(RM_ZB, RM_Plain)
           T2 == Joined(RM_AA, T1)
           T3 == Joined(RM_RA, T2)
<1>3. \A n \in DOMAIN T1 : Good(T1[n])
    BY <1>1, RM_ZB_IsGood, RM_Plain_IsGood, Zenon
<1>4. "NOOP" \in DOMAIN T1
    <2>1. "NOOP" \in DOMAIN RM_Plain
        BY DEF RM_Plain
    <2> QED
        BY <1>2, <2>1, Zenon
<1> HIDE DEF T1
<1>5. (\A n \in DOMAIN T2 : Good(T2[n])) /\ "NOOP" \in DOMAIN T2
    BY <1>1, <1>2, <1>3, <1>4, RM_AA_IsGood, Zenon
<1> HIDE DEF T2
<1>6. (\A n \in DOMAIN T3 : Good(T3[n])) /\ "NOOP" \in DOMAIN T3
    BY <1>1, <1>2, <1>5, RM_RA_IsGood, Zenon
<1> HIDE DEF T3
<1>7. RenderMode = Joined(RM_AA_ZB, T3)
    BY Zenon DEF RenderMode, T3, T2, T1
<1> QED
    BY <1>1, <1>2, <1>6, <1>7, RM_AA_ZB_IsGood, Zenon

\* Modes for the first cycle blend and set no flag of the second.
LEMMA FirstCyclesAre ==
    \A n \in DOMAIN FirstCycle : Four(FirstCycle[n]) /\ FirstCycle[n][3] = 0
<1>1. /\ G_BL.CLR_IN = 0 /\ G_BL.CLR_FOG = 3 /\ G_BL.A_SHADE = 2 /\ G_BL.A_FOG = 1
      /\ G_BL.ONE_MINUS_A = 0 /\ G_BL.ONE = 2 /\ G_BL.ZERO = 3
    BY DEF G_BL
<1>2. \A a, b, d \in 0 .. 3 : Four(<<a, b, 0, d>>) /\ (<<a, b, 0, d>>)[3] = 0
    <2>1. 0 \in 0 .. 3
        OBVIOUS
    <2>2. \A a, b, d : (<<a, b, 0, d>>)[3] = 0
        OBVIOUS
    <2> QED
        BY <2>1, <2>2, Zenon DEF Four
<1>3. /\ FirstCycle.FOG_SHADE_A = <<3, 2, 0, 0>> /\ FirstCycle.FOG_PRIM_A = <<3, 1, 0, 0>>
      /\ FirstCycle.PASS = <<0, 3, 0, 2>>
      /\ DOMAIN FirstCycle = {"FOG_SHADE_A", "FOG_PRIM_A", "PASS"}
    BY <1>1 DEF FirstCycle, Replace
<1>4. 0 \in 0 .. 3 /\ 1 \in 0 .. 3 /\ 2 \in 0 .. 3 /\ 3 \in 0 .. 3
    OBVIOUS
<1>5. /\ Four(FirstCycle.FOG_SHADE_A) /\ FirstCycle.FOG_SHADE_A[3] = 0
      /\ Four(FirstCycle.FOG_PRIM_A) /\ FirstCycle.FOG_PRIM_A[3] = 0
      /\ Four(FirstCycle.PASS) /\ FirstCycle.PASS[3] = 0
    <2>1. Four(FirstCycle.FOG_SHADE_A) /\ FirstCycle.FOG_SHADE_A[3] = 0
        BY <1>2, <1>3, <1>4
    <2>2. Four(FirstCycle.FOG_PRIM_A) /\ FirstCycle.FOG_PRIM_A[3] = 0
        BY <1>2, <1>3, <1>4
    <2>3. Four(FirstCycle.PASS) /\ FirstCycle.PASS[3] = 0
        BY <1>2, <1>3, <1>4
    <2> QED
        BY <2>1, <2>2, <2>3
<1> QED
    BY <1>3, <1>5

\* An input takes the two bits from its shift on.
LEMMA InputBits ==
    ASSUME NEW v \in 0 .. 3, NEW s \in Nat
    PROVE  /\ Shift(Bits(v), s) = _SHIFTL(v, s, 2)
           /\ \A b \in _SHIFTL(v, s, 2) : b \in s .. s + 1
<1>1. Bits(v) \subseteq {0, 1}
    BY SmallBits
<1>2. Low(Bits(v), 2) = Bits(v)
    BY <1>1 DEF Low
<1> QED
    BY <1>1, <1>2 DEF Shift, _SHIFTL

\* GBL_c1 and GBL_c2 take eight bits each.
LEMMA BlenderIs ==
    ASSUME NEW x, Four(x), NEW s \in [1 .. 4 -> Nat]
    PROVE  Blender(x, s) = _SHIFTL(x[1], s[1], 2) \cup _SHIFTL(x[2], s[2], 2)
                             \cup _SHIFTL(x[3], s[3], 2) \cup _SHIFTL(x[4], s[4], 2)
<1>1. \A i \in 1 .. 4 : x[i] \in 0 .. 3
    BY DEF Four
<1>2. \A i \in 1 .. 4 : Shift(Bits(x[i]), s[i]) = _SHIFTL(x[i], s[i], 2)
    BY <1>1, InputBits
<1>3. Blender(x, s) = UNION {_SHIFTL(x[i], s[i], 2) : i \in 1 .. 4}
    BY <1>2 DEF Blender
<1>4. 1 .. 4 = {1, 2, 3, 4}
    OBVIOUS
<1> QED
    BY <1>3, <1>4

\* The word of both cycles' inputs, and how they are read.
LEMMA InputsAreRead ==
    ASSUME NEW x, Four(x), NEW y, Four(y), NEW word,
           \A b \in 16 .. 31 : b \in word <=> b \in GBL_c1(x) \cup GBL_c2(y)
    PROVE  /\ [i \in 1 .. 4 |-> Number(Field(word, <<30, 26, 22, 18>>[i], 2))] = x
           /\ [i \in 1 .. 4 |-> Number(Field(word, <<28, 24, 20, 16>>[i], 2))] = y
<1> DEFINE s == <<30, 26, 22, 18>>
           t == <<28, 24, 20, 16>>
           X(i) == _SHIFTL(x[i], s[i], 2)
           Y(i) == _SHIFTL(y[i], t[i], 2)
<1>1. /\ s \in [1 .. 4 -> Nat] /\ s[1] = 30 /\ s[2] = 26 /\ s[3] = 22 /\ s[4] = 18
      /\ t \in [1 .. 4 -> Nat] /\ t[1] = 28 /\ t[2] = 24 /\ t[3] = 20 /\ t[4] = 16
    OBVIOUS
<1>2. \A i \in 1 .. 4 : x[i] \in 0 .. 3 /\ y[i] \in 0 .. 3
    BY DEF Four
<1> HIDE DEF s, t
<1>3. /\ GBL_c1(x) = X(1) \cup X(2) \cup X(3) \cup X(4)
      /\ GBL_c2(y) = Y(1) \cup Y(2) \cup Y(3) \cup Y(4)
    <2>1. GBL_c1(x) = Blender(x, s) /\ GBL_c2(y) = Blender(y, t)
        BY Zenon DEF GBL_c1, GBL_c2, s, t
    <2> QED
        BY <1>1, <2>1, BlenderIs, Zenon
<1>4. \A i \in 1 .. 4 : /\ \A b \in X(i) : b \in s[i] .. s[i] + 1
                        /\ \A b \in Y(i) : b \in t[i] .. t[i] + 1
    BY <1>1, <1>2, InputBits
<1> HIDE DEF X, Y
<1>5. \A i \in 1 .. 4 : /\ \A b \in s[i] .. s[i] + 2 - 1 : b \in word <=> b \in X(i)
                        /\ \A b \in t[i] .. t[i] + 2 - 1 : b \in word <=> b \in Y(i)
    <2>1. \A b \in X(1) : b = 30 \/ b = 31
        BY <1>1, <1>4
    <2>2. \A b \in X(2) : b = 26 \/ b = 27
        BY <1>1, <1>4
    <2>3. \A b \in X(3) : b = 22 \/ b = 23
        BY <1>1, <1>4
    <2>4. \A b \in X(4) : b = 18 \/ b = 19
        BY <1>1, <1>4
    <2>5. \A b \in Y(1) : b = 28 \/ b = 29
        BY <1>1, <1>4
    <2>6. \A b \in Y(2) : b = 24 \/ b = 25
        BY <1>1, <1>4
    <2>7. \A b \in Y(3) : b = 20 \/ b = 21
        BY <1>1, <1>4
    <2>8. \A b \in Y(4) : b = 16 \/ b = 17
        BY <1>1, <1>4
    <2>9. \A b \in 16 .. 31 : b \in word <=> \/ b \in X(1) \/ b \in X(2) \/ b \in X(3) \/ b \in X(4)
                                             \/ b \in Y(1) \/ b \in Y(2) \/ b \in Y(3) \/ b \in Y(4)
        BY <1>3
    <2>10. \A i \in 1 .. 4 : i = 1 \/ i = 2 \/ i = 3 \/ i = 4
        OBVIOUS
    <2>11. \A i \in 1 .. 4 : \A b \in s[i] .. s[i] + 1 : b \in word <=> b \in X(i)
        BY <1>1, <2>1, <2>2, <2>3, <2>4, <2>5, <2>6, <2>7, <2>8, <2>9, <2>10
    <2>12. \A i \in 1 .. 4 : \A b \in t[i] .. t[i] + 1 : b \in word <=> b \in Y(i)
        BY <1>1, <2>1, <2>2, <2>3, <2>4, <2>5, <2>6, <2>7, <2>8, <2>9, <2>10
    <2>13. \A i \in 1 .. 4 : s[i] + 2 - 1 = s[i] + 1 /\ t[i] + 2 - 1 = t[i] + 1
        BY <1>1
    <2> QED
        BY <2>11, <2>12, <2>13
<1>6. ASSUME NEW v \in 0 .. 3, NEW n \in Nat, n + 2 <= 32,
             \A b \in n .. n + 2 - 1 : b \in word <=> b \in _SHIFTL(v, n, 2)
      PROVE  Number(Field(word, n, 2)) = v
    <2>1. v \in Int /\ 2 \in 0 .. 31 /\ v % 4 = v
        OBVIOUS
    <2>2. Number(Field(word, n, 2)) = v % 2 ^ 2
        BY <1>6, <2>1, FieldIs, Zenon
    <2> QED
        BY <2>1, <2>2, SmallPowers, Zenon
<1>7. \A i \in 1 .. 4 : s[i] \in Nat /\ s[i] + 2 <= 32 /\ t[i] \in Nat /\ t[i] + 2 <= 32
    BY <1>1
<1>8. \A i \in 1 .. 4 : /\ Number(Field(word, s[i], 2)) = x[i]
                        /\ Number(Field(word, t[i], 2)) = y[i]
    BY <1>2, <1>5, <1>6, <1>7, Zenon DEF X, Y
<1>9. x = [i \in 1 .. 4 |-> x[i]] /\ y = [i \in 1 .. 4 |-> y[i]]
    BY DEF Four
<1> QED
    BY <1>8, <1>9, Zenon DEF s, t

PairWord(pair) == C0(pair) \cup C1(pair)

\* Those bits are above the flags.
LEMMA BlenderIsHigh ==
    ASSUME NEW x, Four(x)
    PROVE  /\ \A b \in GBL_c1(x) : b \in 16 .. 31
           /\ \A b \in GBL_c2(x) : b \in 16 .. 31
<1> DEFINE s == <<30, 26, 22, 18>>
           t == <<28, 24, 20, 16>>
<1>1. /\ s \in [1 .. 4 -> Nat] /\ s[1] = 30 /\ s[2] = 26 /\ s[3] = 22 /\ s[4] = 18
      /\ t \in [1 .. 4 -> Nat] /\ t[1] = 28 /\ t[2] = 24 /\ t[3] = 20 /\ t[4] = 16
    OBVIOUS
<1>2. \A i \in 1 .. 4 : x[i] \in 0 .. 3
    BY DEF Four
<1> HIDE DEF s, t
<1>3. /\ \A b \in _SHIFTL(x[1], 30, 2) : b \in 30 .. 31
      /\ \A b \in _SHIFTL(x[2], 26, 2) : b \in 26 .. 27
      /\ \A b \in _SHIFTL(x[3], 22, 2) : b \in 22 .. 23
      /\ \A b \in _SHIFTL(x[4], 18, 2) : b \in 18 .. 19
      /\ \A b \in _SHIFTL(x[1], 28, 2) : b \in 28 .. 29
      /\ \A b \in _SHIFTL(x[2], 24, 2) : b \in 24 .. 25
      /\ \A b \in _SHIFTL(x[3], 20, 2) : b \in 20 .. 21
      /\ \A b \in _SHIFTL(x[4], 16, 2) : b \in 16 .. 17
    BY <1>2, InputBits
<1>4. GBL_c1(x) = Blender(x, s) /\ GBL_c2(x) = Blender(x, t)
    BY Zenon DEF GBL_c1, GBL_c2, s, t
<1>5. /\ GBL_c1(x) = _SHIFTL(x[1], 30, 2) \cup _SHIFTL(x[2], 26, 2)
                       \cup _SHIFTL(x[3], 22, 2) \cup _SHIFTL(x[4], 18, 2)
      /\ GBL_c2(x) = _SHIFTL(x[1], 28, 2) \cup _SHIFTL(x[2], 24, 2)
                       \cup _SHIFTL(x[3], 20, 2) \cup _SHIFTL(x[4], 16, 2)
    <2>1. /\ Blender(x, s) = _SHIFTL(x[1], s[1], 2) \cup _SHIFTL(x[2], s[2], 2)
                               \cup _SHIFTL(x[3], s[3], 2) \cup _SHIFTL(x[4], s[4], 2)
          /\ Blender(x, t) = _SHIFTL(x[1], t[1], 2) \cup _SHIFTL(x[2], t[2], 2)
                               \cup _SHIFTL(x[3], t[3], 2) \cup _SHIFTL(x[4], t[4], 2)
        BY <1>1, BlenderIs, Zenon
    <2> QED
        BY <1>1, <1>4, <2>1
<1>6. \A b \in 30 .. 31 \cup 26 .. 27 \cup 22 .. 23 \cup 18 .. 19
             \cup 28 .. 29 \cup 24 .. 25 \cup 20 .. 21 \cup 16 .. 17 : b \in 16 .. 31
    OBVIOUS
<1> QED
    BY <1>3, <1>5, <1>6, ZenonT(60)

\* What the two words of a mode hold: the flags of the second cycle's mode, and
\* the inputs of both cycles.
LEMMA PairIs ==
    ASSUME NEW pair \in Pairs(DOMAIN RenderMode)
    PROVE  LET m == RenderMode[pair[2]]
               S == Surface(pair)
           IN  /\ Good(m)
               /\ S.look = [flags |-> m.flags \cap (3 .. 15), first |-> S.look.first,
                            second |-> m.blend]
               /\ Four(S.look.first)
               /\ S.look.first = m.blend \/ S.look.first[3] = 0
               /\ S.dithers <=> 0 \in m.flags
               /\ S.dithers \in BOOLEAN
               /\ \A b \in PairWord(pair) : b \in 0 .. 31
               /\ \A b \in 0 .. 15 : b \in PairWord(pair) <=> b \in m.flags
               /\ \A b \in 16 .. 31 :
                     b \in PairWord(pair) <=> b \in GBL_c1(S.look.first) \cup GBL_c2(m.blend)
<1> DEFINE m == RenderMode[pair[2]]
           S == Surface(pair)
           f == IF pair[1] \in DOMAIN FirstCycle THEN FirstCycle[pair[1]] ELSE m.blend
<1>1. /\ pair[2] \in DOMAIN RenderMode
      /\ pair[1] \in DOMAIN FirstCycle \/ pair[1] = pair[2]
    BY DEF Pairs
<1>2. Good(m)
    BY <1>1, RenderModesAreGood, Zenon
<1>3. Four(f) /\ (f = m.blend \/ f[3] = 0)
    <2>1. Four(m.blend)
        BY <1>2, Zenon DEF Good
    <2> HIDE DEF m
    <2> QED
        BY <2>1, FirstCyclesAre
<1>4. S = [look |-> [flags |-> m.flags \cap (3 .. 15), first |-> f, second |-> m.blend],
           dithers |-> G_AC.DITHER \subseteq m.flags]
    BY Zenon DEF Surface
<1>5. /\ S.look = [flags |-> m.flags \cap (3 .. 15), first |-> f, second |-> m.blend]
      /\ S.look.first = f
      /\ S.dithers = (G_AC.DITHER \subseteq m.flags)
    <2> HIDE DEF S, m, f
    <2> QED
        BY <1>4
<1>6. S.dithers \in BOOLEAN /\ (S.dithers <=> 0 \in m.flags)
    <2>1. G_AC.DITHER = {0, 1}
        BY G_AC_Words
    <2>2. 0 \in m.flags <=> 1 \in m.flags
        BY <1>2, Zenon DEF Good
    <2> HIDE DEF S, m, f
    <2> QED
        BY <1>5, <2>1, <2>2
<1>7. \/ PairWord(pair) = GBL_c1(f) \cup m.flags \cup GBL_c2(m.blend)
      \/ pair[1] = pair[2] /\ f = m.blend
         /\ PairWord(pair) = m.flags \cup GBL_c1(f) \cup m.flags \cup GBL_c2(m.blend)
    <2>1. C1(pair) = m.flags \cup GBL_c2(m.blend)
        BY Zenon DEF C1, G_RM2
    <2>2. CASE pair[1] \in DOMAIN FirstCycle
        <3>1. C0(pair) = GBL_c1(f)
            BY <2>2, Zenon DEF C0
        <3> HIDE DEF m, f
        <3> QED
            BY <2>1, <3>1 DEF PairWord
    <2>3. CASE ~(pair[1] \in DOMAIN FirstCycle)
        <3>1. C0(pair) = m.flags \cup GBL_c1(m.blend) /\ f = m.blend
            BY <1>1, <2>3, Zenon DEF C0, G_RM
        <3> HIDE DEF m, f
        <3> QED
            BY <1>1, <2>1, <2>3, <3>1 DEF PairWord
    <2> QED
        BY <2>2, <2>3
<1>8. \A b : b \in PairWord(pair) <=> b \in m.flags \/ b \in GBL_c1(f) \/ b \in GBL_c2(m.blend)
    <2> HIDE DEF m, f
    <2> QED
        BY <1>7
<1>9. /\ \A b \in m.flags : b \in 0 .. 15
      /\ \A b \in GBL_c1(f) : b \in 16 .. 31
      /\ \A b \in GBL_c2(m.blend) : b \in 16 .. 31
    <2>1. m.flags \subseteq (0 .. 15) \ {2} /\ Four(m.blend)
        BY <1>2, Zenon DEF Good
    <2>2. \A b \in m.flags : b \in 0 .. 15
        <3> HIDE DEF m
        <3> QED
            BY <2>1
    <2> QED
        BY <1>3, <2>1, <2>2, BlenderIsHigh, Zenon
<1>10. /\ \A b \in PairWord(pair) : b \in 0 .. 31
       /\ \A b \in 0 .. 15 : b \in PairWord(pair) <=> b \in m.flags
       /\ \A b \in 16 .. 31 : b \in PairWord(pair) <=> b \in GBL_c1(f) \cup GBL_c2(m.blend)
    <2> HIDE DEF m, f
    <2> QED
        BY <1>8, <1>9
<1> HIDE DEF f
<1> QED
    BY <1>2, <1>3, <1>5, <1>6, <1>10, Zenon

\* Look and LayersKeepDepth, of a word.
LookIn(L) ==
    [flags |-> L \cap (3 .. 15),
     first |-> [i \in 1 .. 4 |-> Number(Field(L, <<30, 26, 22, 18>>[i], 2))],
     second |-> [i \in 1 .. 4 |-> Number(Field(L, <<28, 24, 20, 16>>[i], 2))]]

\* The look of the RDP's word is the look in it.
LEMMA LookIs ==
    ASSUME NEW pair \in Pairs(DOMAIN RenderMode), NEW L,
           \A b \in 3 .. 31 : b \in L <=> b \in PairWord(pair)
    PROVE  LookIn(L) = Surface(pair).look
<1> DEFINE m == RenderMode[pair[2]]
           S == Surface(pair)
           x == S.look.first
<1>1. /\ Good(m) /\ Four(x)
      /\ S.look = [flags |-> m.flags \cap (3 .. 15), first |-> x, second |-> m.blend]
      /\ \A b \in 0 .. 15 : b \in PairWord(pair) <=> b \in m.flags
      /\ \A b \in 16 .. 31 : b \in PairWord(pair) <=> b \in GBL_c1(x) \cup GBL_c2(m.blend)
    BY PairIs, Zenon
<1>2. Four(m.blend)
    BY <1>1, Zenon DEF Good
<1> HIDE DEF m, S, x
<1>3. L \cap (3 .. 15) = m.flags \cap (3 .. 15)
    BY <1>1
<1>4. \A b \in 16 .. 31 : b \in L <=> b \in GBL_c1(x) \cup GBL_c2(m.blend)
    BY <1>1
<1>5. /\ [i \in 1 .. 4 |-> Number(Field(L, <<30, 26, 22, 18>>[i], 2))] = x
      /\ [i \in 1 .. 4 |-> Number(Field(L, <<28, 24, 20, 16>>[i], 2))] = m.blend
    <2>1. Four(x)
        BY <1>1
    <2> QED
        BY <1>2, <1>4, <2>1, InputsAreRead
<1> QED
    BY <1>1, <1>3, <1>5, Zenon DEF LookIn, S

\* A word of a mode writes no depth in a layer, and reads memory if it must.
LEMMA ModesAreSafe ==
    ASSUME NEW pair \in Pairs(DOMAIN RenderMode), NEW L,
           \A b \in 3 .. 31 : b \in L <=> b \in PairWord(pair)
    PROVE  /\ Field(L, 10, 2) \in {{1}, {0, 1}} => ~(5 \in L)
           /\ 14 \in L /\ LookIn(L).second[3] = 1 => 6 \in L
           /\ 14 \in L /\ LookIn(L).first[3] = 1 => 6 \in L
<1> DEFINE m == RenderMode[pair[2]]
           S == Surface(pair)
           x == S.look.first
<1>1. /\ Good(m) /\ (x = m.blend \/ x[3] = 0)
      /\ S.look = [flags |-> m.flags \cap (3 .. 15), first |-> x, second |-> m.blend]
      /\ \A b \in 0 .. 15 : b \in PairWord(pair) <=> b \in m.flags
    BY PairIs, Zenon
<1>2. LookIn(L) = S.look
    BY LookIs, Zenon
<1>3. /\ 11 \in m.flags => ~(5 \in m.flags)
      /\ 14 \in m.flags /\ m.blend[3] = 1 => 6 \in m.flags
    BY <1>1, Zenon DEF Good
<1> HIDE DEF m, S, x
<1>4. LookIn(L).first = x /\ LookIn(L).second = m.blend
    BY <1>1, <1>2
<1>5. \A b \in 3 .. 15 : b \in L <=> b \in m.flags
    BY <1>1
<1>6. 1 \in Field(L, 10, 2) => 11 \in L
    BY DEF Field, Low, Shift
<1>7. Field(L, 10, 2) \in {{1}, {0, 1}} => 1 \in Field(L, 10, 2)
    OBVIOUS
<1>8. /\ 5 \in L <=> 5 \in m.flags
      /\ 6 \in L <=> 6 \in m.flags
      /\ 11 \in L <=> 11 \in m.flags
      /\ 14 \in L <=> 14 \in m.flags
    BY <1>5
<1>9. 0 # 1
    OBVIOUS
<1> QED
    BY <1>1, <1>3, <1>4, <1>6, <1>7, <1>8, <1>9, Zenon

-----------------------------------------------------------------------------
(* The combiner.                                                           *)

\* The names that a preset has in a slot, and the bits of the slot.
Sources6 == {"COMBINED", "TEXEL0", "TEXEL1", "PRIMITIVE", "SHADE", "ENVIRONMENT"}
Taken(i) ==
    CASE i = 1 -> Sources6 \cup {"One", "Zero"}
      [] i = 2 -> Sources6 \cup {"CENTER", "K4", "Zero"}
      [] i = 3 -> Sources6 \cup {"SCALE", "TEXEL0_ALPHA", "LOD_FRACTION", "PRIM_LOD_FRAC",
                                 "K5", "Zero"}
      [] i = 7 -> (Sources6 \ {"COMBINED"}) \cup {"LOD_FRACTION", "PRIM_LOD_FRAC", "Zero"}
      [] OTHER -> Sources6 \cup {"Zero"}
SlotBits(i) == CASE i \in {1, 2} -> 4 [] i = 3 -> 5 [] OTHER -> 3
Code(i, name) == IF i <= 4 THEN G_CCMUX[name] ELSE G_ACMUX[name]

\* Names that a preset has in a slot, listed.
LEMMA TakenAre ==
    /\ Taken(1) = Sources6 \cup {"One", "Zero"}
    /\ Taken(2) = Sources6 \cup {"CENTER", "K4", "Zero"}
    /\ Taken(3) = Sources6 \cup {"SCALE", "TEXEL0_ALPHA", "LOD_FRACTION", "PRIM_LOD_FRAC",
                                 "K5", "Zero"}
    /\ Taken(7) = (Sources6 \ {"COMBINED"}) \cup {"LOD_FRACTION", "PRIM_LOD_FRAC", "Zero"}
    /\ \A i \in {4, 5, 6, 8} : Taken(i) = Sources6 \cup {"Zero"}
BY DEF Taken

\* The width of each slot, listed.
LEMMA SlotBitsAre ==
    /\ SlotBits(1) = 4 /\ SlotBits(2) = 4 /\ SlotBits(3) = 5
    /\ \A i \in {4, 5, 6, 7, 8} : SlotBits(i) = 3
BY DEF SlotBits

Names20 == {"COMBINED", "TEXEL0", "TEXEL1", "PRIMITIVE", "SHADE", "ENVIRONMENT", "One", "NOISE",
            "CENTER", "K4", "SCALE", "COMBINED_ALPHA", "TEXEL0_ALPHA", "TEXEL1_ALPHA",
            "PRIMITIVE_ALPHA", "SHADE_ALPHA", "ENV_ALPHA", "LOD_FRACTION", "PRIM_LOD_FRAC", "K5"}

\* Two sequences put together, element by element.
LEMMA Concatenated ==
    ASSUME NEW s \in Seq(Names20), NEW t \in Seq(Names20)
    PROVE  /\ s \o t \in Seq(Names20)
           /\ Len(s \o t) = Len(s) + Len(t)
           /\ \A k \in 1 .. Len(s) : (s \o t)[k] = s[k]
           /\ \A k \in 1 .. Len(t) : (s \o t)[Len(s) + k] = t[k]
<1>1. /\ s \o t \in Seq(Names20)
      /\ Len(s \o t) = Len(s) + Len(t)
      /\ \A k \in 1 .. Len(s) + Len(t) : (s \o t)[k] = IF k <= Len(s) THEN s[k] ELSE t[k - Len(s)]
    BY ConcatProperties, Zenon
<1>2. Len(s) \in Nat /\ Len(t) \in Nat
    OBVIOUS
<1>3. ASSUME NEW k \in 1 .. Len(s) PROVE (s \o t)[k] = s[k]
    <2>1. k \in 1 .. Len(s) + Len(t) /\ k <= Len(s)
        BY <1>2
    <2> QED
        BY <1>1, <2>1
<1>4. ASSUME NEW k \in 1 .. Len(t) PROVE (s \o t)[Len(s) + k] = t[k]
    <2>1. Len(s) + k \in 1 .. Len(s) + Len(t) /\ ~(Len(s) + k <= Len(s)) /\ Len(s) + k - Len(s) = k
        BY <1>2
    <2> QED
        <3> DEFINE n == Len(s) + k
        <3>1. n \in 1 .. Len(s) + Len(t) /\ ~(n <= Len(s)) /\ n - Len(s) = k
            BY <2>1
        <3> HIDE DEF n
        <3>2. (s \o t)[n] = t[k]
            BY <1>1, <3>1
        <3> QED
            BY <3>2 DEF n
<1> QED
    BY <1>1, <1>3, <1>4

\* The sources that every slot has.
LEMMA ColoursAre ==
    /\ Colours \in Seq(Names20) /\ Len(Colours) = 6
    /\ Colours[1] = "COMBINED" /\ Colours[2] = "TEXEL0" /\ Colours[3] = "TEXEL1"
    /\ Colours[4] = "PRIMITIVE" /\ Colours[5] = "SHADE" /\ Colours[6] = "ENVIRONMENT"
BY DEF Colours, Names20

\* The names of each slot that a preset has, at their codes.
LEMMA SlotsAre ==
    /\ \A i \in {1, 2, 3, 4, 5, 6, 8} : \A k \in 1 .. 6 : Slot(i)[k] = Colours[k]
    /\ Len(Slot(1)) = 8 /\ Slot(1)[7] = "One"
    /\ Len(Slot(2)) = 8 /\ Slot(2)[7] = "CENTER" /\ Slot(2)[8] = "K4"
    /\ Len(Slot(3)) = 16 /\ Slot(3)[7] = "SCALE" /\ Slot(3)[9] = "TEXEL0_ALPHA"
    /\ Slot(3)[14] = "LOD_FRACTION" /\ Slot(3)[15] = "PRIM_LOD_FRAC" /\ Slot(3)[16] = "K5"
    /\ Len(Slot(7)) = 7 /\ Slot(7)[1] = "LOD_FRACTION" /\ Slot(7)[7] = "PRIM_LOD_FRAC"
    /\ \A k \in 2 .. 6 : Slot(7)[k] = Colours[k]
    /\ \A i \in {4, 5, 6, 8} : Len(Slot(i)) = 7
<1> DEFINE s1 == <<"One", "NOISE">>
           s2 == <<"CENTER", "K4">>
           s3 == <<"SCALE", "COMBINED_ALPHA", "TEXEL0_ALPHA", "TEXEL1_ALPHA",
                  "PRIMITIVE_ALPHA", "SHADE_ALPHA", "ENV_ALPHA", "LOD_FRACTION",
                  "PRIM_LOD_FRAC", "K5">>
           s4 == <<"One">>
           s5 == <<"LOD_FRACTION">>
           s6 == <<"PRIM_LOD_FRAC">>
           c == Tail(Colours)
<1>1. /\ s1 \in Seq(Names20) /\ Len(s1) = 2 /\ s1[1] = "One"
      /\ s2 \in Seq(Names20) /\ Len(s2) = 2 /\ s2[1] = "CENTER" /\ s2[2] = "K4"
      /\ s4 \in Seq(Names20) /\ Len(s4) = 1
      /\ s5 \in Seq(Names20) /\ Len(s5) = 1 /\ s5[1] = "LOD_FRACTION"
      /\ s6 \in Seq(Names20) /\ Len(s6) = 1 /\ s6[1] = "PRIM_LOD_FRAC"
    BY DEF Names20
<1>2. /\ s3 \in Seq(Names20) /\ Len(s3) = 10 /\ s3[1] = "SCALE" /\ s3[3] = "TEXEL0_ALPHA"
      /\ s3[8] = "LOD_FRACTION" /\ s3[9] = "PRIM_LOD_FRAC" /\ s3[10] = "K5"
    BY DEF Names20
<1>3. c \in Seq(Names20) /\ Len(c) = 5 /\ \A k \in 2 .. 6 : c[k - 1] = Colours[k]
    <2>1. Colours \in Seq(Names20) /\ Colours # <<>> /\ Len(Colours) = 6
        BY ColoursAre
    <2>2. /\ c \in Seq(Names20) /\ Len(c) = Len(Colours) - 1
          /\ \A k \in 1 .. Len(c) : c[k] = Colours[k + 1]
        BY <2>1, HeadTailProperties, Zenon
    <2> HIDE DEF c
    <2> QED
        BY <2>1, <2>2
<1>4. /\ Slot(1) = Colours \o s1 /\ Slot(2) = Colours \o s2 /\ Slot(3) = Colours \o s3
      /\ Slot(7) = s5 \o c \o s6
      /\ \A i \in {4, 5, 6, 8} : Slot(i) = Colours \o s4
    <2>1. Slot(1) = Colours \o s1
        BY DEF Slot
    <2>2. Slot(2) = Colours \o s2
        BY DEF Slot
    <2>3. Slot(3) = Colours \o s3
        BY DEF Slot
    <2>4. Slot(7) = s5 \o c \o s6
        <3>1. 7 # 1 /\ 7 # 2 /\ 7 # 3
            OBVIOUS
        <3> QED
            BY <3>1, Zenon DEF Slot
    <2>5. ASSUME NEW i \in {4, 5, 6, 8}
          PROVE  Slot(i) = Colours \o s4
        <3>1. i # 1 /\ i # 2 /\ i # 3 /\ i # 7
            OBVIOUS
        <3> QED
            BY <3>1, Zenon DEF Slot
    <2> QED
        BY <2>1, <2>2, <2>3, <2>4, <2>5
<1> HIDE DEF s1, s2, s3, s4, s5, s6, c
<1>5. ASSUME NEW t \in Seq(Names20)
      PROVE  /\ Len(Colours \o t) = 6 + Len(t)
             /\ \A k \in 1 .. 6 : (Colours \o t)[k] = Colours[k]
             /\ \A k \in 1 .. Len(t) : (Colours \o t)[6 + k] = t[k]
    <2>1. /\ Len(Colours \o t) = Len(Colours) + Len(t)
          /\ \A k \in 1 .. Len(Colours) : (Colours \o t)[k] = Colours[k]
          /\ \A k \in 1 .. Len(t) : (Colours \o t)[Len(Colours) + k] = t[k]
        BY Concatenated, ColoursAre, Zenon
    <2>2. Len(Colours) = 6
        BY ColoursAre
    <2> QED
        BY <2>1, <2>2
<1>6. \A i \in {4, 5, 6, 8} : Len(Slot(i)) = 7 /\ \A k \in 1 .. 6 : Slot(i)[k] = Colours[k]
    <2> SUFFICES ASSUME NEW i \in {4, 5, 6, 8}
                 PROVE  Len(Slot(i)) = 7 /\ \A k \in 1 .. 6 : Slot(i)[k] = Colours[k]
        OBVIOUS
    <2>1. /\ Len(Slot(i)) = 6 + Len(s4)
          /\ \A k \in 1 .. 6 : Slot(i)[k] = Colours[k]
        BY <1>1, <1>4, <1>5
    <2> QED
        BY <1>1, <2>1
<1>7. /\ Len(Slot(1)) = 8 /\ Slot(1)[7] = "One"
      /\ \A k \in 1 .. 6 : Slot(1)[k] = Colours[k]
    <2>1. /\ Len(Slot(1)) = 6 + Len(s1)
          /\ \A k \in 1 .. 6 : Slot(1)[k] = Colours[k]
          /\ \A k \in 1 .. Len(s1) : Slot(1)[6 + k] = s1[k]
        BY <1>1, <1>4, <1>5
    <2> QED
        BY <1>1, <2>1
<1>8. /\ Len(Slot(2)) = 8 /\ Slot(2)[7] = "CENTER" /\ Slot(2)[8] = "K4"
      /\ \A k \in 1 .. 6 : Slot(2)[k] = Colours[k]
    <2>1. /\ Len(Slot(2)) = 6 + Len(s2)
          /\ \A k \in 1 .. 6 : Slot(2)[k] = Colours[k]
          /\ \A k \in 1 .. Len(s2) : Slot(2)[6 + k] = s2[k]
        BY <1>1, <1>4, <1>5
    <2> QED
        BY <1>1, <2>1
<1>9. /\ Len(Slot(3)) = 16 /\ Slot(3)[7] = "SCALE" /\ Slot(3)[9] = "TEXEL0_ALPHA"
      /\ Slot(3)[14] = "LOD_FRACTION" /\ Slot(3)[15] = "PRIM_LOD_FRAC" /\ Slot(3)[16] = "K5"
      /\ \A k \in 1 .. 6 : Slot(3)[k] = Colours[k]
    <2>1. /\ Len(Slot(3)) = 6 + Len(s3)
          /\ \A k \in 1 .. 6 : Slot(3)[k] = Colours[k]
          /\ \A k \in 1 .. Len(s3) : Slot(3)[6 + k] = s3[k]
        BY <1>2, <1>4, <1>5
    <2> QED
        BY <1>2, <2>1
<1>10. /\ Len(Slot(7)) = 7 /\ Slot(7)[1] = "LOD_FRACTION" /\ Slot(7)[7] = "PRIM_LOD_FRAC"
       /\ \A k \in 2 .. 6 : Slot(7)[k] = Colours[k]
    <2> DEFINE u == s5 \o c
    <2>1. /\ u \in Seq(Names20) /\ Len(u) = 6
          /\ u[1] = "LOD_FRACTION" /\ \A k \in 1 .. 5 : u[1 + k] = c[k]
        <3>1. /\ u \in Seq(Names20) /\ Len(u) = Len(s5) + Len(c)
              /\ \A k \in 1 .. Len(s5) : u[k] = s5[k]
              /\ \A k \in 1 .. Len(c) : u[Len(s5) + k] = c[k]
            BY <1>1, <1>3, Concatenated, Zenon
        <3> HIDE DEF u
        <3> QED
            BY <1>1, <1>3, <3>1
    <2> HIDE DEF u
    <2>2. /\ Len(u \o s6) = Len(u) + Len(s6)
          /\ \A k \in 1 .. Len(u) : (u \o s6)[k] = u[k]
          /\ \A k \in 1 .. Len(s6) : (u \o s6)[Len(u) + k] = s6[k]
        BY <1>1, <2>1, Concatenated, Zenon
    <2>3. Slot(7) = u \o s6
        BY <1>4, Zenon DEF u
    <2>4. /\ Len(Slot(7)) = 7 /\ Slot(7)[7] = "PRIM_LOD_FRAC"
          /\ \A k \in 1 .. 6 : Slot(7)[k] = u[k]
        <3>1. /\ Len(u) = 6 /\ Len(s6) = 1 /\ s6[1] = "PRIM_LOD_FRAC"
            BY <1>1, <2>1
        <3>2. Len(u \o s6) = 7 /\ (u \o s6)[7] = "PRIM_LOD_FRAC"
            <4>1. 1 \in 1 .. Len(s6) /\ Len(u) + 1 = 7
                BY <3>1
            <4> QED
                BY <2>2, <3>1, <4>1
        <3>3. \A k \in 1 .. 6 : (u \o s6)[k] = u[k]
            BY <2>2, <3>1
        <3> QED
            BY <2>3, <3>2, <3>3, Zenon
    <2>5. ASSUME NEW k \in 2 .. 6 PROVE Slot(7)[k] = Colours[k]
        <3>1. k \in 1 .. 6 /\ k - 1 \in 1 .. 5 /\ 1 + (k - 1) = k
            OBVIOUS
        <3>2. Slot(7)[k] = u[k]
            BY <2>4, <3>1
        <3>3. u[1 + (k - 1)] = c[k - 1]
            BY <2>1, <3>1, Zenon
        <3> QED
            BY <1>3, <3>1, <3>2, <3>3
    <2> QED
        BY <2>1, <2>4, <2>5
<1>11. ASSUME NEW i \in {1, 2, 3, 4, 5, 6, 8}
       PROVE  \A k \in 1 .. 6 : Slot(i)[k] = Colours[k]
    BY <1>6, <1>7, <1>8, <1>9
<1> QED
    BY <1>6, <1>7, <1>8, <1>9, <1>10, <1>11, Zenon

\* Every code fits its slot.
LEMMA CodesAre ==
    /\ G_CCMUX.COMBINED = 0 /\ G_CCMUX.TEXEL0 = 1 /\ G_CCMUX.TEXEL1 = 2
    /\ G_CCMUX.PRIMITIVE = 3 /\ G_CCMUX.SHADE = 4 /\ G_CCMUX.ENVIRONMENT = 5
    /\ G_CCMUX.CENTER = 6 /\ G_CCMUX.SCALE = 6 /\ G_CCMUX.TEXEL0_ALPHA = 8
    /\ G_CCMUX.LOD_FRACTION = 13 /\ G_CCMUX.PRIM_LOD_FRAC = 14 /\ G_CCMUX.K4 = 7
    /\ G_CCMUX.K5 = 15 /\ G_CCMUX.One = 6 /\ G_CCMUX.Zero = 31
    /\ G_ACMUX.COMBINED = 0 /\ G_ACMUX.TEXEL0 = 1 /\ G_ACMUX.TEXEL1 = 2
    /\ G_ACMUX.PRIMITIVE = 3 /\ G_ACMUX.SHADE = 4 /\ G_ACMUX.ENVIRONMENT = 5
    /\ G_ACMUX.LOD_FRACTION = 0 /\ G_ACMUX.PRIM_LOD_FRAC = 6 /\ G_ACMUX.Zero = 7
BY DEF G_CCMUX, G_ACMUX

\* The RDP takes a name of a preset as that name.
LEMMA NamesAreTaken ==
    ASSUME NEW i \in 1 .. 8, NEW name \in Taken(i)
    PROVE  /\ Code(i, name) \in Int
           /\ Source(i, Code(i, name) % 2 ^ SlotBits(i)) = name
<1>2. ASSUME NEW j \in {1, 2, 3, 4}, NEW n \in {"COMBINED", "TEXEL0", "TEXEL1", "PRIMITIVE", "SHADE", "ENVIRONMENT"}
      PROVE  Code(j, n) \in 0 .. 5 /\ Colours[Code(j, n) + 1] = n
    BY CodesAre, ColoursAre DEF Code
<1>3. ASSUME NEW j \in {5, 6, 7, 8}, NEW n \in {"COMBINED", "TEXEL0", "TEXEL1", "PRIMITIVE", "SHADE", "ENVIRONMENT"}
      PROVE  Code(j, n) \in 0 .. 5 /\ Colours[Code(j, n) + 1] = n /\ (n # "COMBINED" => Code(j, n) # 0)
    BY CodesAre, ColoursAre DEF Code
<1>4. \A j \in 1 .. 8 : Len(Slot(j)) >= 7
    BY SlotsAre, SMTT(40)
<1>5. \A j \in 1 .. 8 : SlotBits(j) \in {3, 4, 5}
    BY DEF SlotBits
<1>6. \A j \in 1 .. 8, c \in 0 .. 7 : c % 2 ^ SlotBits(j) = c
    <2> SUFFICES ASSUME NEW j \in 1 .. 8, NEW c \in 0 .. 7
                 PROVE  c % 2 ^ SlotBits(j) = c
        OBVIOUS
    <2>1. c % 8 = c /\ c % 16 = c /\ c % 32 = c
        OBVIOUS
    <2>2. SlotBits(j) = 3 \/ SlotBits(j) = 4 \/ SlotBits(j) = 5
        BY <1>5
    <2> QED
        BY <2>1, <2>2, SmallPowers, ZenonT(60)
<1> DEFINE c == Code(i, name)
<1>61. ASSUME c \in 0 .. 31, c % 2 ^ SlotBits(i) = c, c < Len(Slot(i)), Slot(i)[c + 1] = name
       PROVE  /\ Code(i, name) \in Int
              /\ Source(i, Code(i, name) % 2 ^ SlotBits(i)) = name
    <2>1. \A n \in 0 .. 31 : n \in Int
        OBVIOUS
    <2>2. c \in Int
        BY <1>61, <2>1, Zenon
    <2> QED
        BY <1>61, <2>2, Zenon DEF Source
<1>7. CASE name \in Sources6 /\ i # 7
    <2>1. Code(i, name) \in 0 .. 5 /\ Colours[Code(i, name) + 1] = name
        BY <1>2, <1>3, <1>7 DEF Sources6
    <2>2. Slot(i)[Code(i, name) + 1] = Colours[Code(i, name) + 1]
        BY <1>7, <2>1, SlotsAre
    <2> QED
        <3>1. c \in 0 .. 31 /\ c \in 0 .. 7 /\ i \in 1 .. 8
            BY <2>1
        <3>2. c < Len(Slot(i))
            BY <1>4, <2>1, SMTT(40)
        <3> QED
            BY <1>6, <1>61, <2>1, <2>2, <3>1, <3>2, Zenon
<1>8. CASE name \in Sources6 /\ i = 7
    <2>1. Code(7, name) \in 1 .. 5 /\ Colours[Code(7, name) + 1] = name
        BY <1>3, <1>8, TakenAre DEF Sources6
    <2>2. Slot(7)[Code(7, name) + 1] = Colours[Code(7, name) + 1]
        BY <2>1, SlotsAre
    <2> QED
        <3>1. c \in 0 .. 31 /\ c \in 0 .. 7 /\ i \in 1 .. 8
            BY <1>8, <2>1
        <3>2. c < Len(Slot(i))
            BY <1>4, <1>8, <2>1
        <3> QED
            BY <1>6, <1>8, <1>61, <2>1, <2>2, <3>1, <3>2, Zenon
<1>9. CASE name = "Zero"
    <2>1. CASE i \in {1, 2}
        <3>1. Code(i, name) = 31 /\ SlotBits(i) = 4 /\ Len(Slot(i)) = 8
            BY <1>9, <2>1, CodesAre, SlotBitsAre, SlotsAre DEF Code
        <3>2. 31 % 16 = 15
            OBVIOUS
        <3> QED
            BY <1>9, <3>1, <3>2, SmallPowers DEF Source
    <2>2. CASE i = 3
        <3>1. Code(i, name) = 31 /\ SlotBits(i) = 5 /\ Len(Slot(i)) = 16
            BY <1>9, <2>2, CodesAre, SlotBitsAre, SlotsAre DEF Code
        <3>2. 31 % 32 = 31
            OBVIOUS
        <3> QED
            BY <1>9, <3>1, <3>2, SmallPowers DEF Source
    <2>3. CASE i \in {4, 5, 6, 7, 8}
        <3>1. Code(i, name) \in {7, 31} /\ SlotBits(i) = 3 /\ Len(Slot(i)) = 7
            BY <1>9, <2>3, CodesAre, SlotBitsAre, SlotsAre DEF Code
        <3>2. 31 % 8 = 7 /\ 7 % 8 = 7
            OBVIOUS
        <3> QED
            BY <1>9, <3>1, <3>2, SmallPowers DEF Source
    <2> QED
        BY <2>1, <2>2, <2>3
<1>10. CASE i = 1 /\ name = "One"
    <2>1. c \in 0 .. 7 /\ c \in 0 .. 31 /\ c < Len(Slot(i)) /\ Slot(i)[c + 1] = name
        BY <1>10, CodesAre, SlotsAre, SMTT(40) DEF Code
    <2> QED
        BY <1>6, <1>61, <2>1, Zenon
<1>11. CASE i = 2 /\ name \in {"CENTER", "K4"}
    <2>1. c = G_CCMUX[name]
        <3>1. i <= 4
            BY <1>11
        <3> QED
            BY <3>1, Zenon DEF Code
    <2> HIDE DEF c
    <2>2. CASE name = "CENTER"
        <3>1. c \in 0 .. 7 /\ c \in 0 .. 31 /\ c < Len(Slot(i)) /\ Slot(i)[c + 1] = name
            BY <1>11, <2>1, <2>2, CodesAre, SlotsAre, SMTT(40)
        <3> QED
            BY <1>6, <1>61, <3>1, Zenon DEF c
    <2>3. CASE name = "K4"
        <3>1. c \in 0 .. 7 /\ c \in 0 .. 31 /\ c < Len(Slot(i)) /\ Slot(i)[c + 1] = name
            BY <1>11, <2>1, <2>3, CodesAre, SlotsAre, SMTT(40)
        <3> QED
            BY <1>6, <1>61, <3>1, Zenon DEF c
    <2> QED
        BY <1>11, <2>2, <2>3
<1>12. CASE i = 3 /\ name \in {"SCALE", "TEXEL0_ALPHA", "LOD_FRACTION", "PRIM_LOD_FRAC", "K5"}
    <2>1. /\ Code(3, name) \in 0 .. 15 /\ Code(3, name) + 1 \in 1 .. 16
          /\ Slot(3)[Code(3, name) + 1] = name
        BY <1>12, CodesAre, SlotsAre DEF Code
    <2>2. Code(3, name) % 32 = Code(3, name)
        BY <2>1
    <2>3. c < Len(Slot(i)) /\ c \in 0 .. 31 /\ Slot(i)[c + 1] = name
        BY <1>12, <2>1, SlotsAre
    <2>4. SlotBits(i) = 5
        BY <1>12, SlotBitsAre
    <2> QED
        BY <1>12, <1>61, <2>2, <2>3, <2>4, SmallPowers, Zenon
<1>13. CASE i = 7 /\ name \in {"LOD_FRACTION", "PRIM_LOD_FRAC"}
    <2>1. c \in 0 .. 7 /\ c \in 0 .. 31 /\ c < Len(Slot(i)) /\ Slot(i)[c + 1] = name
        BY <1>13, CodesAre, SlotsAre, SMTT(40) DEF Code
    <2> QED
        BY <1>6, <1>61, <2>1, Zenon
<1>14. \/ name \in Sources6
       \/ name = "Zero"
       \/ i = 1 /\ name = "One"
       \/ i = 2 /\ name \in {"CENTER", "K4"}
       \/ i = 3 /\ name \in {"SCALE", "TEXEL0_ALPHA", "LOD_FRACTION", "PRIM_LOD_FRAC", "K5"}
       \/ i = 7 /\ name \in {"LOD_FRACTION", "PRIM_LOD_FRAC"}
    <2>1. i \in {1, 2, 3, 4, 5, 6, 7, 8}
        OBVIOUS
    <2>2. name \in Taken(i)
        OBVIOUS
    <2>3. CASE i \in {4, 5, 6, 8}
        <3>1. Taken(i) = Sources6 \cup {"Zero"}
            BY <2>3, TakenAre, Zenon
        <3> QED
            BY <2>2, <3>1
    <2>4. CASE i = 1
        BY <2>2, <2>4, TakenAre, Zenon
    <2>5. CASE i = 2
        BY <2>2, <2>5, TakenAre, Zenon
    <2>6. CASE i = 3
        BY <2>2, <2>6, TakenAre, Zenon
    <2>7. CASE i = 7
        BY <2>2, <2>7, TakenAre, Zenon
    <2> QED
        BY <2>1, <2>3, <2>4, <2>5, <2>6, <2>7
<1> QED
    BY <1>7, <1>8, <1>9, <1>10, <1>11, <1>12, <1>13, <1>14

-----------------------------------------------------------------------------
(* The presets of the combiner.                                            *)

\* The two halves of a preset, for the colours and for the alphas.
Colour(q) ==
    \E a \in Taken(1), b \in Taken(2), c \in Taken(3), d \in Taken(4) : q = <<a, b, c, d>>
Alpha(q) ==
    \E a \in Taken(5), b \in Taken(6), c \in Taken(7), d \in Taken(8) : q = <<a, b, c, d>>
Preset(m) == m = [i \in 1 .. 8 |-> m[i]] /\ \A i \in 1 .. 8 : m[i] \in Taken(i)

\* Two halves make a preset.
LEMMA HalvesMakeAPreset ==
    ASSUME NEW p, Colour(p), NEW q, Alpha(q)
    PROVE  Preset(p \o q)
<1> DEFINE S == UNION {Taken(i) : i \in 1 .. 8}
<1>1. PICK a \in Taken(1), b \in Taken(2), c \in Taken(3), d \in Taken(4) : p = <<a, b, c, d>>
    BY Zenon DEF Colour
<1>2. PICK e \in Taken(5), f \in Taken(6), g \in Taken(7), h \in Taken(8) : q = <<e, f, g, h>>
    BY Zenon DEF Alpha
<1>3. a \in S /\ b \in S /\ c \in S /\ d \in S /\ e \in S /\ f \in S /\ g \in S /\ h \in S
    <2>1. 1 \in 1 .. 8 /\ 2 \in 1 .. 8 /\ 3 \in 1 .. 8 /\ 4 \in 1 .. 8
          /\ 5 \in 1 .. 8 /\ 6 \in 1 .. 8 /\ 7 \in 1 .. 8 /\ 8 \in 1 .. 8
        OBVIOUS
    <2> QED
        BY <2>1, Zenon
<1> HIDE DEF S
<1>4. p \in Seq(S) /\ Len(p) = 4 /\ q \in Seq(S) /\ Len(q) = 4
    BY <1>1, <1>2, <1>3
<1>5. /\ p \o q \in Seq(S) /\ Len(p \o q) = Len(p) + Len(q)
      /\ \A i \in 1 .. Len(p) + Len(q) : (p \o q)[i] = IF i <= Len(p) THEN p[i] ELSE q[i - Len(p)]
    BY <1>4, ConcatProperties, Zenon
<1> DEFINE m == p \o q
<1>6. m \in Seq(S) /\ Len(m) = 8 /\ \A i \in 1 .. 8 : m[i] = IF i <= 4 THEN p[i] ELSE q[i - 4]
    BY <1>4, <1>5
<1> HIDE DEF m
<1>7. m = [i \in 1 .. 8 |-> m[i]]
    BY <1>6
<1>8. /\ m[1] = p[1] /\ m[2] = p[2] /\ m[3] = p[3] /\ m[4] = p[4]
      /\ m[5] = q[1] /\ m[6] = q[2] /\ m[7] = q[3] /\ m[8] = q[4]
    BY <1>6
<1>9. /\ p[1] = a /\ p[2] = b /\ p[3] = c /\ p[4] = d
      /\ q[1] = e /\ q[2] = f /\ q[3] = g /\ q[4] = h
    BY <1>1, <1>2
<1>10. /\ m[1] \in Taken(1) /\ m[2] \in Taken(2) /\ m[3] \in Taken(3) /\ m[4] \in Taken(4)
       /\ m[5] \in Taken(5) /\ m[6] \in Taken(6) /\ m[7] \in Taken(7) /\ m[8] \in Taken(8)
    BY <1>8, <1>9, Zenon
<1>11. \A i \in 1 .. 8 : i = 1 \/ i = 2 \/ i = 3 \/ i = 4 \/ i = 5 \/ i = 6 \/ i = 7 \/ i = 8
    OBVIOUS
<1>12. \A i \in 1 .. 8 : m[i] \in Taken(i)
    BY <1>10, <1>11, Zenon
<1> QED
    BY <1>7, <1>12, Zenon DEF Preset, m

\* The parts of a half.
LEMMA HalvesAre ==
    /\ \A d \in Taken(4) : Colour(Only(d))
    /\ \A d \in Taken(8) : Alpha(Only(d))
    /\ \A a \in Taken(1), c \in Taken(3) : Colour(Product(a, c))
    /\ \A a \in Taken(5), c \in Taken(7) : Alpha(Product(a, c))
    /\ \A a \in Taken(1), b \in Taken(2) \cap Taken(4), c \in Taken(3) : Colour(Lerp(a, b, c))
    /\ \A a \in Taken(5), b \in Taken(6) \cap Taken(8), c \in Taken(7) : Alpha(Lerp(a, b, c))
    /\ \A a \in Taken(1), c \in Taken(3), d \in Taken(4) : Colour(Plus(a, c, d))
    /\ \A i \in 1 .. 8 : "Zero" \in Taken(i)
<1>1. \A i \in 1 .. 8 : "Zero" \in Taken(i)
    BY DEF Taken
<1>2. /\ "Zero" \in Taken(1) /\ "Zero" \in Taken(2) /\ "Zero" \in Taken(3) /\ "Zero" \in Taken(4)
      /\ "Zero" \in Taken(5) /\ "Zero" \in Taken(6) /\ "Zero" \in Taken(7) /\ "Zero" \in Taken(8)
    BY <1>1
<1>3. /\ \A d \in Taken(4) : Colour(Only(d))
      /\ \A d \in Taken(8) : Alpha(Only(d))
    BY <1>2, Zenon DEF Colour, Alpha, Only
<1>4. /\ \A a \in Taken(1), c \in Taken(3) : Colour(Product(a, c))
      /\ \A a \in Taken(5), c \in Taken(7) : Alpha(Product(a, c))
    BY <1>2, Zenon DEF Colour, Alpha, Product
<1>5. /\ \A a \in Taken(1), b \in Taken(2) \cap Taken(4), c \in Taken(3) : Colour(Lerp(a, b, c))
      /\ \A a \in Taken(5), b \in Taken(6) \cap Taken(8), c \in Taken(7) : Alpha(Lerp(a, b, c))
    BY Zenon DEF Colour, Alpha, Lerp
<1>6. \A a \in Taken(1), c \in Taken(3), d \in Taken(4) : Colour(Plus(a, c, d))
    BY <1>2, Zenon DEF Colour, Plus
<1> QED
    BY <1>1, <1>3, <1>4, <1>5, <1>6, Zenon

\* A name that a slot takes, by the number of the slot.
LEMMA SlotsTake ==
    ASSUME NEW s \in {"TEXEL0", "TEXEL1", "PRIMITIVE", "SHADE", "ENVIRONMENT"}
    PROVE  /\ \A i \in 1 .. 8 : s \in Taken(i)
           /\ \A i \in {1, 2, 3, 4, 5, 6, 8} : "COMBINED" \in Taken(i)
BY TakenAre DEF Taken, Sources6

\* The presets for one cycle, or for the first.
LEMMA G_CC_Cycle1_Presets == \A n \in DOMAIN G_CC_Cycle1 : Preset(G_CC_Cycle1[n])
<1> DEFINE entries == [PRIMITIVE |-> Only("PRIMITIVE") \o Only("PRIMITIVE"),
            SHADE |-> Only("SHADE") \o Only("SHADE"),
            MODULATEI |-> Product("TEXEL0", "SHADE") \o Only("SHADE"),
            MODULATEIA |-> Product("TEXEL0", "SHADE") \o Product("TEXEL0", "SHADE"),
            MODULATEIDECALA |-> Product("TEXEL0", "SHADE") \o Only("TEXEL0"),
            MODULATEI_PRIM |-> Product("TEXEL0", "PRIMITIVE") \o Only("PRIMITIVE"),
            MODULATEIA_PRIM |-> Product("TEXEL0", "PRIMITIVE") \o Product("TEXEL0", "PRIMITIVE"),
            MODULATEIDECALA_PRIM |-> Product("TEXEL0", "PRIMITIVE") \o Only("TEXEL0"),
            DECALRGB |-> Only("TEXEL0") \o Only("SHADE"),
            DECALRGBA |-> Only("TEXEL0") \o Only("TEXEL0"),
            BLENDI |-> Lerp("ENVIRONMENT", "SHADE", "TEXEL0") \o Only("SHADE"),
            BLENDIA |-> Lerp("ENVIRONMENT", "SHADE", "TEXEL0") \o Product("TEXEL0", "SHADE"),
            BLENDIDECALA |-> Lerp("ENVIRONMENT", "SHADE", "TEXEL0") \o Only("TEXEL0"),
            BLENDRGBA |-> Lerp("TEXEL0", "SHADE", "TEXEL0_ALPHA") \o Only("SHADE"),
            BLENDRGBDECALA |-> Lerp("TEXEL0", "SHADE", "TEXEL0_ALPHA") \o Only("TEXEL0"),
            ADDRGB |-> Plus("One", "TEXEL0", "SHADE") \o Only("SHADE"),
            ADDRGBDECALA |-> Plus("One", "TEXEL0", "SHADE") \o Only("TEXEL0"),
            REFLECTRGB |-> Plus("ENVIRONMENT", "TEXEL0", "SHADE") \o Only("SHADE"),
            REFLECTRGBDECALA |-> Plus("ENVIRONMENT", "TEXEL0", "SHADE") \o Only("TEXEL0"),
            HILITERGB |-> Lerp("PRIMITIVE", "SHADE", "TEXEL0") \o Only("SHADE"),
            HILITERGBA |-> Lerp("PRIMITIVE", "SHADE", "TEXEL0") \o Lerp("PRIMITIVE", "SHADE", "TEXEL0"),
            HILITERGBDECALA |-> Lerp("PRIMITIVE", "SHADE", "TEXEL0") \o Only("TEXEL0"),
            SHADEDECALA |-> Only("SHADE") \o Only("TEXEL0"),
            BLENDPE |-> Lerp("PRIMITIVE", "ENVIRONMENT", "TEXEL0") \o Product("TEXEL0", "SHADE"),
            BLENDPEDECALA |-> Lerp("PRIMITIVE", "ENVIRONMENT", "TEXEL0") \o Only("TEXEL0"),
            _BLENDPE |-> Lerp("ENVIRONMENT", "PRIMITIVE", "TEXEL0") \o Product("TEXEL0", "SHADE"),
            _BLENDPEDECALA |-> Lerp("ENVIRONMENT", "PRIMITIVE", "TEXEL0") \o Only("TEXEL0"),
            _TWOCOLORTEX |-> Lerp("PRIMITIVE", "SHADE", "TEXEL0") \o Only("SHADE"),
            _SPARSEST |-> Lerp("PRIMITIVE", "TEXEL0", "LOD_FRACTION") \o Lerp("PRIMITIVE", "TEXEL0", "LOD_FRACTION"),
            TEMPLERP |-> Lerp("TEXEL1", "TEXEL0", "PRIM_LOD_FRAC") \o Lerp("TEXEL1", "TEXEL0", "PRIM_LOD_FRAC"),
            TRILERP |-> Lerp("TEXEL1", "TEXEL0", "LOD_FRACTION") \o Lerp("TEXEL1", "TEXEL0", "LOD_FRACTION"),
            INTERFERENCE |-> Product("TEXEL0", "TEXEL1") \o Product("TEXEL0", "TEXEL1"),
            ONECYUV2RGB |-> <<"TEXEL0", "K4", "K5", "TEXEL0">> \o Only("SHADE"),
            YUV2RGB |-> <<"TEXEL1", "K4", "K5", "TEXEL1">> \o Cleared]
<1>1. G_CC_Cycle1 = entries
    BY Zenon DEF G_CC_Cycle1
<1>2. DOMAIN entries = {"PRIMITIVE", "SHADE", "MODULATEI", "MODULATEIA", "MODULATEIDECALA",
                           "MODULATEI_PRIM", "MODULATEIA_PRIM", "MODULATEIDECALA_PRIM", "DECALRGB", "DECALRGBA",
                           "BLENDI", "BLENDIA", "BLENDIDECALA", "BLENDRGBA", "BLENDRGBDECALA",
                           "ADDRGB", "ADDRGBDECALA", "REFLECTRGB", "REFLECTRGBDECALA", "HILITERGB",
                           "HILITERGBA", "HILITERGBDECALA", "SHADEDECALA", "BLENDPE", "BLENDPEDECALA",
                           "_BLENDPE", "_BLENDPEDECALA", "_TWOCOLORTEX", "_SPARSEST", "TEMPLERP",
                           "TRILERP", "INTERFERENCE", "ONECYUV2RGB", "YUV2RGB"}
    OBVIOUS
<1>3. \A i \in 1 .. 8 : /\ "Zero" \in Taken(i) /\ "TEXEL0" \in Taken(i) /\ "TEXEL1" \in Taken(i)
                        /\ "PRIMITIVE" \in Taken(i) /\ "SHADE" \in Taken(i) /\ "ENVIRONMENT" \in Taken(i)
    BY HalvesAre, SlotsTake
<1>4. /\ "COMBINED" \in Taken(1) /\ "COMBINED" \in Taken(2) /\ "COMBINED" \in Taken(3)
      /\ "COMBINED" \in Taken(4)
      /\ "COMBINED" \in Taken(5) /\ "COMBINED" \in Taken(6) /\ "COMBINED" \in Taken(8)
      /\ "One" \in Taken(1) /\ "K4" \in Taken(2) /\ "CENTER" \in Taken(2) /\ "SCALE" \in Taken(3)
      /\ "TEXEL0_ALPHA" \in Taken(3) /\ "LOD_FRACTION" \in Taken(3) /\ "PRIM_LOD_FRAC" \in Taken(3)
      /\ "K5" \in Taken(3) /\ "LOD_FRACTION" \in Taken(7) /\ "PRIM_LOD_FRAC" \in Taken(7)
    BY TakenAre DEF Sources6
<1>5. 1 \in 1 .. 8 /\ 2 \in 1 .. 8 /\ 3 \in 1 .. 8 /\ 4 \in 1 .. 8
      /\ 5 \in 1 .. 8 /\ 6 \in 1 .. 8 /\ 7 \in 1 .. 8 /\ 8 \in 1 .. 8
    OBVIOUS
<1>6. Colour(Only("PRIMITIVE"))
    BY <1>3, <1>4, <1>5, HalvesAre, Zenon
<1>7. Colour(Only("SHADE"))
    BY <1>3, <1>4, <1>5, HalvesAre, Zenon
<1>8. Colour(Product("TEXEL0", "SHADE"))
    BY <1>3, <1>4, <1>5, HalvesAre, Zenon
<1>9. Colour(Product("TEXEL0", "PRIMITIVE"))
    BY <1>3, <1>4, <1>5, HalvesAre, Zenon
<1>10. Colour(Only("TEXEL0"))
    BY <1>3, <1>4, <1>5, HalvesAre, Zenon
<1>11. Colour(Lerp("ENVIRONMENT", "SHADE", "TEXEL0"))
    BY <1>3, <1>4, <1>5, HalvesAre, Zenon
<1>12. Colour(Lerp("TEXEL0", "SHADE", "TEXEL0_ALPHA"))
    BY <1>3, <1>4, <1>5, HalvesAre, Zenon
<1>13. Colour(Plus("One", "TEXEL0", "SHADE"))
    BY <1>3, <1>4, <1>5, HalvesAre, Zenon
<1>14. Colour(Plus("ENVIRONMENT", "TEXEL0", "SHADE"))
    BY <1>3, <1>4, <1>5, HalvesAre, Zenon
<1>15. Colour(Lerp("PRIMITIVE", "SHADE", "TEXEL0"))
    BY <1>3, <1>4, <1>5, HalvesAre, Zenon
<1>16. Colour(Lerp("PRIMITIVE", "ENVIRONMENT", "TEXEL0"))
    BY <1>3, <1>4, <1>5, HalvesAre, Zenon
<1>17. Colour(Lerp("ENVIRONMENT", "PRIMITIVE", "TEXEL0"))
    BY <1>3, <1>4, <1>5, HalvesAre, Zenon
<1>18. Colour(Lerp("PRIMITIVE", "TEXEL0", "LOD_FRACTION"))
    BY <1>3, <1>4, <1>5, HalvesAre, Zenon
<1>19. Colour(Lerp("TEXEL1", "TEXEL0", "PRIM_LOD_FRAC"))
    BY <1>3, <1>4, <1>5, HalvesAre, Zenon
<1>20. Colour(Lerp("TEXEL1", "TEXEL0", "LOD_FRACTION"))
    BY <1>3, <1>4, <1>5, HalvesAre, Zenon
<1>21. Colour(Product("TEXEL0", "TEXEL1"))
    BY <1>3, <1>4, <1>5, HalvesAre, Zenon
<1>22. Colour(<<"TEXEL0", "K4", "K5", "TEXEL0">>)
    BY <1>3, <1>4, <1>5, HalvesAre, Zenon DEF Colour
<1>23. Colour(<<"TEXEL1", "K4", "K5", "TEXEL1">>)
    BY <1>3, <1>4, <1>5, HalvesAre, Zenon DEF Colour
<1>24. Alpha(Only("PRIMITIVE"))
    BY <1>3, <1>4, <1>5, HalvesAre, Zenon
<1>25. Alpha(Only("SHADE"))
    BY <1>3, <1>4, <1>5, HalvesAre, Zenon
<1>26. Alpha(Product("TEXEL0", "SHADE"))
    BY <1>3, <1>4, <1>5, HalvesAre, Zenon
<1>27. Alpha(Only("TEXEL0"))
    BY <1>3, <1>4, <1>5, HalvesAre, Zenon
<1>28. Alpha(Product("TEXEL0", "PRIMITIVE"))
    BY <1>3, <1>4, <1>5, HalvesAre, Zenon
<1>29. Alpha(Lerp("PRIMITIVE", "SHADE", "TEXEL0"))
    BY <1>3, <1>4, <1>5, HalvesAre, Zenon
<1>30. Alpha(Lerp("PRIMITIVE", "TEXEL0", "LOD_FRACTION"))
    BY <1>3, <1>4, <1>5, HalvesAre, Zenon
<1>31. Alpha(Lerp("TEXEL1", "TEXEL0", "PRIM_LOD_FRAC"))
    BY <1>3, <1>4, <1>5, HalvesAre, Zenon
<1>32. Alpha(Lerp("TEXEL1", "TEXEL0", "LOD_FRACTION"))
    BY <1>3, <1>4, <1>5, HalvesAre, Zenon
<1>33. Alpha(Product("TEXEL0", "TEXEL1"))
    BY <1>3, <1>4, <1>5, HalvesAre, Zenon
<1>34. Alpha(Cleared)
    BY <1>3, <1>4, <1>5, HalvesAre, Zenon DEF Cleared
<1>35. Preset(entries.PRIMITIVE)
    <2>1. entries.PRIMITIVE = Only("PRIMITIVE") \o Only("PRIMITIVE")
        OBVIOUS
    <2> HIDE DEF entries
    <2> QED
        BY <1>6, <1>24, <2>1, HalvesMakeAPreset, Zenon
<1>36. Preset(entries.SHADE)
    <2>1. entries.SHADE = Only("SHADE") \o Only("SHADE")
        OBVIOUS
    <2> HIDE DEF entries
    <2> QED
        BY <1>7, <1>25, <2>1, HalvesMakeAPreset, Zenon
<1>37. Preset(entries.MODULATEI)
    <2>1. entries.MODULATEI = Product("TEXEL0", "SHADE") \o Only("SHADE")
        OBVIOUS
    <2> HIDE DEF entries
    <2> QED
        BY <1>8, <1>25, <2>1, HalvesMakeAPreset, Zenon
<1>38. Preset(entries.MODULATEIA)
    <2>1. entries.MODULATEIA = Product("TEXEL0", "SHADE") \o Product("TEXEL0", "SHADE")
        OBVIOUS
    <2> HIDE DEF entries
    <2> QED
        BY <1>8, <1>26, <2>1, HalvesMakeAPreset, Zenon
<1>39. Preset(entries.MODULATEIDECALA)
    <2>1. entries.MODULATEIDECALA = Product("TEXEL0", "SHADE") \o Only("TEXEL0")
        OBVIOUS
    <2> HIDE DEF entries
    <2> QED
        BY <1>8, <1>27, <2>1, HalvesMakeAPreset, Zenon
<1>40. Preset(entries.MODULATEI_PRIM)
    <2>1. entries.MODULATEI_PRIM = Product("TEXEL0", "PRIMITIVE") \o Only("PRIMITIVE")
        OBVIOUS
    <2> HIDE DEF entries
    <2> QED
        BY <1>9, <1>24, <2>1, HalvesMakeAPreset, Zenon
<1>41. Preset(entries.MODULATEIA_PRIM)
    <2>1. entries.MODULATEIA_PRIM = Product("TEXEL0", "PRIMITIVE") \o Product("TEXEL0", "PRIMITIVE")
        OBVIOUS
    <2> HIDE DEF entries
    <2> QED
        BY <1>9, <1>28, <2>1, HalvesMakeAPreset, Zenon
<1>42. Preset(entries.MODULATEIDECALA_PRIM)
    <2>1. entries.MODULATEIDECALA_PRIM = Product("TEXEL0", "PRIMITIVE") \o Only("TEXEL0")
        OBVIOUS
    <2> HIDE DEF entries
    <2> QED
        BY <1>9, <1>27, <2>1, HalvesMakeAPreset, Zenon
<1>43. Preset(entries.DECALRGB)
    <2>1. entries.DECALRGB = Only("TEXEL0") \o Only("SHADE")
        OBVIOUS
    <2> HIDE DEF entries
    <2> QED
        BY <1>10, <1>25, <2>1, HalvesMakeAPreset, Zenon
<1>44. Preset(entries.DECALRGBA)
    <2>1. entries.DECALRGBA = Only("TEXEL0") \o Only("TEXEL0")
        OBVIOUS
    <2> HIDE DEF entries
    <2> QED
        BY <1>10, <1>27, <2>1, HalvesMakeAPreset, Zenon
<1>45. Preset(entries.BLENDI)
    <2>1. entries.BLENDI = Lerp("ENVIRONMENT", "SHADE", "TEXEL0") \o Only("SHADE")
        OBVIOUS
    <2> HIDE DEF entries
    <2> QED
        BY <1>11, <1>25, <2>1, HalvesMakeAPreset, Zenon
<1>46. Preset(entries.BLENDIA)
    <2>1. entries.BLENDIA = Lerp("ENVIRONMENT", "SHADE", "TEXEL0") \o Product("TEXEL0", "SHADE")
        OBVIOUS
    <2> HIDE DEF entries
    <2> QED
        BY <1>11, <1>26, <2>1, HalvesMakeAPreset, Zenon
<1>47. Preset(entries.BLENDIDECALA)
    <2>1. entries.BLENDIDECALA = Lerp("ENVIRONMENT", "SHADE", "TEXEL0") \o Only("TEXEL0")
        OBVIOUS
    <2> HIDE DEF entries
    <2> QED
        BY <1>11, <1>27, <2>1, HalvesMakeAPreset, Zenon
<1>48. Preset(entries.BLENDRGBA)
    <2>1. entries.BLENDRGBA = Lerp("TEXEL0", "SHADE", "TEXEL0_ALPHA") \o Only("SHADE")
        OBVIOUS
    <2> HIDE DEF entries
    <2> QED
        BY <1>12, <1>25, <2>1, HalvesMakeAPreset, Zenon
<1>49. Preset(entries.BLENDRGBDECALA)
    <2>1. entries.BLENDRGBDECALA = Lerp("TEXEL0", "SHADE", "TEXEL0_ALPHA") \o Only("TEXEL0")
        OBVIOUS
    <2> HIDE DEF entries
    <2> QED
        BY <1>12, <1>27, <2>1, HalvesMakeAPreset, Zenon
<1>50. Preset(entries.ADDRGB)
    <2>1. entries.ADDRGB = Plus("One", "TEXEL0", "SHADE") \o Only("SHADE")
        OBVIOUS
    <2> HIDE DEF entries
    <2> QED
        BY <1>13, <1>25, <2>1, HalvesMakeAPreset, Zenon
<1>51. Preset(entries.ADDRGBDECALA)
    <2>1. entries.ADDRGBDECALA = Plus("One", "TEXEL0", "SHADE") \o Only("TEXEL0")
        OBVIOUS
    <2> HIDE DEF entries
    <2> QED
        BY <1>13, <1>27, <2>1, HalvesMakeAPreset, Zenon
<1>52. Preset(entries.REFLECTRGB)
    <2>1. entries.REFLECTRGB = Plus("ENVIRONMENT", "TEXEL0", "SHADE") \o Only("SHADE")
        OBVIOUS
    <2> HIDE DEF entries
    <2> QED
        BY <1>14, <1>25, <2>1, HalvesMakeAPreset, Zenon
<1>53. Preset(entries.REFLECTRGBDECALA)
    <2>1. entries.REFLECTRGBDECALA = Plus("ENVIRONMENT", "TEXEL0", "SHADE") \o Only("TEXEL0")
        OBVIOUS
    <2> HIDE DEF entries
    <2> QED
        BY <1>14, <1>27, <2>1, HalvesMakeAPreset, Zenon
<1>54. Preset(entries.HILITERGB)
    <2>1. entries.HILITERGB = Lerp("PRIMITIVE", "SHADE", "TEXEL0") \o Only("SHADE")
        OBVIOUS
    <2> HIDE DEF entries
    <2> QED
        BY <1>15, <1>25, <2>1, HalvesMakeAPreset, Zenon
<1>55. Preset(entries.HILITERGBA)
    <2>1. entries.HILITERGBA = Lerp("PRIMITIVE", "SHADE", "TEXEL0") \o Lerp("PRIMITIVE", "SHADE", "TEXEL0")
        OBVIOUS
    <2> HIDE DEF entries
    <2> QED
        BY <1>15, <1>29, <2>1, HalvesMakeAPreset, Zenon
<1>56. Preset(entries.HILITERGBDECALA)
    <2>1. entries.HILITERGBDECALA = Lerp("PRIMITIVE", "SHADE", "TEXEL0") \o Only("TEXEL0")
        OBVIOUS
    <2> HIDE DEF entries
    <2> QED
        BY <1>15, <1>27, <2>1, HalvesMakeAPreset, Zenon
<1>57. Preset(entries.SHADEDECALA)
    <2>1. entries.SHADEDECALA = Only("SHADE") \o Only("TEXEL0")
        OBVIOUS
    <2> HIDE DEF entries
    <2> QED
        BY <1>7, <1>27, <2>1, HalvesMakeAPreset, Zenon
<1>58. Preset(entries.BLENDPE)
    <2>1. entries.BLENDPE = Lerp("PRIMITIVE", "ENVIRONMENT", "TEXEL0") \o Product("TEXEL0", "SHADE")
        OBVIOUS
    <2> HIDE DEF entries
    <2> QED
        BY <1>16, <1>26, <2>1, HalvesMakeAPreset, Zenon
<1>59. Preset(entries.BLENDPEDECALA)
    <2>1. entries.BLENDPEDECALA = Lerp("PRIMITIVE", "ENVIRONMENT", "TEXEL0") \o Only("TEXEL0")
        OBVIOUS
    <2> HIDE DEF entries
    <2> QED
        BY <1>16, <1>27, <2>1, HalvesMakeAPreset, Zenon
<1>60. Preset(entries._BLENDPE)
    <2>1. entries._BLENDPE = Lerp("ENVIRONMENT", "PRIMITIVE", "TEXEL0") \o Product("TEXEL0", "SHADE")
        OBVIOUS
    <2> HIDE DEF entries
    <2> QED
        BY <1>17, <1>26, <2>1, HalvesMakeAPreset, Zenon
<1>61. Preset(entries._BLENDPEDECALA)
    <2>1. entries._BLENDPEDECALA = Lerp("ENVIRONMENT", "PRIMITIVE", "TEXEL0") \o Only("TEXEL0")
        OBVIOUS
    <2> HIDE DEF entries
    <2> QED
        BY <1>17, <1>27, <2>1, HalvesMakeAPreset, Zenon
<1>62. Preset(entries._TWOCOLORTEX)
    <2>1. entries._TWOCOLORTEX = Lerp("PRIMITIVE", "SHADE", "TEXEL0") \o Only("SHADE")
        OBVIOUS
    <2> HIDE DEF entries
    <2> QED
        BY <1>15, <1>25, <2>1, HalvesMakeAPreset, Zenon
<1>63. Preset(entries._SPARSEST)
    <2>1. entries._SPARSEST = Lerp("PRIMITIVE", "TEXEL0", "LOD_FRACTION") \o Lerp("PRIMITIVE", "TEXEL0", "LOD_FRACTION")
        OBVIOUS
    <2> HIDE DEF entries
    <2> QED
        BY <1>18, <1>30, <2>1, HalvesMakeAPreset, Zenon
<1>64. Preset(entries.TEMPLERP)
    <2>1. entries.TEMPLERP = Lerp("TEXEL1", "TEXEL0", "PRIM_LOD_FRAC") \o Lerp("TEXEL1", "TEXEL0", "PRIM_LOD_FRAC")
        OBVIOUS
    <2> HIDE DEF entries
    <2> QED
        BY <1>19, <1>31, <2>1, HalvesMakeAPreset, Zenon
<1>65. Preset(entries.TRILERP)
    <2>1. entries.TRILERP = Lerp("TEXEL1", "TEXEL0", "LOD_FRACTION") \o Lerp("TEXEL1", "TEXEL0", "LOD_FRACTION")
        OBVIOUS
    <2> HIDE DEF entries
    <2> QED
        BY <1>20, <1>32, <2>1, HalvesMakeAPreset, Zenon
<1>66. Preset(entries.INTERFERENCE)
    <2>1. entries.INTERFERENCE = Product("TEXEL0", "TEXEL1") \o Product("TEXEL0", "TEXEL1")
        OBVIOUS
    <2> HIDE DEF entries
    <2> QED
        BY <1>21, <1>33, <2>1, HalvesMakeAPreset, Zenon
<1>67. Preset(entries.ONECYUV2RGB)
    <2>1. entries.ONECYUV2RGB = <<"TEXEL0", "K4", "K5", "TEXEL0">> \o Only("SHADE")
        OBVIOUS
    <2> HIDE DEF entries
    <2> QED
        BY <1>22, <1>25, <2>1, HalvesMakeAPreset, Zenon
<1>68. Preset(entries.YUV2RGB)
    <2>1. entries.YUV2RGB = <<"TEXEL1", "K4", "K5", "TEXEL1">> \o Cleared
        OBVIOUS
    <2> HIDE DEF entries
    <2> QED
        BY <1>23, <1>34, <2>1, HalvesMakeAPreset, Zenon
<1> HIDE DEF entries
<1> QED
    BY <1>1, <1>2, <1>35, <1>36, <1>37, <1>38, <1>39, <1>40, <1>41, <1>42, <1>43, <1>44,
       <1>45, <1>46, <1>47, <1>48, <1>49, <1>50, <1>51, <1>52, <1>53, <1>54,
       <1>55, <1>56, <1>57, <1>58, <1>59, <1>60, <1>61, <1>62, <1>63, <1>64,
       <1>65, <1>66, <1>67, <1>68, Zenon

\* The presets for the second cycle.
LEMMA G_CC_Cycle2_Presets == \A n \in DOMAIN G_CC_Cycle2 : Preset(G_CC_Cycle2[n])
<1> DEFINE entries == [PASS2 |-> Only("COMBINED") \o Only("COMBINED"),
            MODULATEI2 |-> Product("COMBINED", "SHADE") \o Only("SHADE"),
            MODULATEIA2 |-> Product("COMBINED", "SHADE") \o Product("COMBINED", "SHADE"),
            MODULATEI_PRIM2 |-> Product("COMBINED", "PRIMITIVE") \o Only("PRIMITIVE"),
            MODULATEIA_PRIM2 |-> Product("COMBINED", "PRIMITIVE") \o Product("COMBINED", "PRIMITIVE"),
            DECALRGB2 |-> Only("COMBINED") \o Only("SHADE"),
            BLENDI2 |-> Lerp("ENVIRONMENT", "SHADE", "COMBINED") \o Only("SHADE"),
            BLENDIA2 |-> Lerp("ENVIRONMENT", "SHADE", "COMBINED") \o Product("COMBINED", "SHADE"),
            CHROMA_KEY2 |-> <<"TEXEL0", "CENTER", "SCALE", "Zero">> \o Cleared,
            HILITERGB2 |-> Lerp("ENVIRONMENT", "COMBINED", "TEXEL0") \o Only("SHADE"),
            HILITERGBA2 |-> Lerp("ENVIRONMENT", "COMBINED", "TEXEL0") \o Lerp("ENVIRONMENT", "COMBINED", "TEXEL0"),
            HILITERGBDECALA2 |-> Lerp("ENVIRONMENT", "COMBINED", "TEXEL0") \o Only("TEXEL0"),
            HILITERGBPASSA2 |-> Lerp("ENVIRONMENT", "COMBINED", "TEXEL0") \o Only("COMBINED")]
<1>1. G_CC_Cycle2 = entries
    BY Zenon DEF G_CC_Cycle2
<1>2. DOMAIN entries = {"PASS2", "MODULATEI2", "MODULATEIA2", "MODULATEI_PRIM2", "MODULATEIA_PRIM2",
                           "DECALRGB2", "BLENDI2", "BLENDIA2", "CHROMA_KEY2", "HILITERGB2",
                           "HILITERGBA2", "HILITERGBDECALA2", "HILITERGBPASSA2"}
    OBVIOUS
<1>3. \A i \in 1 .. 8 : /\ "Zero" \in Taken(i) /\ "TEXEL0" \in Taken(i) /\ "TEXEL1" \in Taken(i)
                        /\ "PRIMITIVE" \in Taken(i) /\ "SHADE" \in Taken(i) /\ "ENVIRONMENT" \in Taken(i)
    BY HalvesAre, SlotsTake
<1>4. /\ "COMBINED" \in Taken(1) /\ "COMBINED" \in Taken(2) /\ "COMBINED" \in Taken(3)
      /\ "COMBINED" \in Taken(4)
      /\ "COMBINED" \in Taken(5) /\ "COMBINED" \in Taken(6) /\ "COMBINED" \in Taken(8)
      /\ "One" \in Taken(1) /\ "K4" \in Taken(2) /\ "CENTER" \in Taken(2) /\ "SCALE" \in Taken(3)
      /\ "TEXEL0_ALPHA" \in Taken(3) /\ "LOD_FRACTION" \in Taken(3) /\ "PRIM_LOD_FRAC" \in Taken(3)
      /\ "K5" \in Taken(3) /\ "LOD_FRACTION" \in Taken(7) /\ "PRIM_LOD_FRAC" \in Taken(7)
    BY TakenAre DEF Sources6
<1>5. 1 \in 1 .. 8 /\ 2 \in 1 .. 8 /\ 3 \in 1 .. 8 /\ 4 \in 1 .. 8
      /\ 5 \in 1 .. 8 /\ 6 \in 1 .. 8 /\ 7 \in 1 .. 8 /\ 8 \in 1 .. 8
    OBVIOUS
<1>6. Colour(Only("COMBINED"))
    BY <1>3, <1>4, <1>5, HalvesAre, Zenon
<1>7. Colour(Product("COMBINED", "SHADE"))
    BY <1>3, <1>4, <1>5, HalvesAre, Zenon
<1>8. Colour(Product("COMBINED", "PRIMITIVE"))
    BY <1>3, <1>4, <1>5, HalvesAre, Zenon
<1>9. Colour(Lerp("ENVIRONMENT", "SHADE", "COMBINED"))
    BY <1>3, <1>4, <1>5, HalvesAre, Zenon
<1>10. Colour(<<"TEXEL0", "CENTER", "SCALE", "Zero">>)
    BY <1>3, <1>4, <1>5, HalvesAre, Zenon DEF Colour
<1>11. Colour(Lerp("ENVIRONMENT", "COMBINED", "TEXEL0"))
    BY <1>3, <1>4, <1>5, HalvesAre, Zenon
<1>12. Alpha(Only("COMBINED"))
    BY <1>3, <1>4, <1>5, HalvesAre, Zenon
<1>13. Alpha(Only("SHADE"))
    BY <1>3, <1>4, <1>5, HalvesAre, Zenon
<1>14. Alpha(Product("COMBINED", "SHADE"))
    BY <1>3, <1>4, <1>5, HalvesAre, Zenon
<1>15. Alpha(Only("PRIMITIVE"))
    BY <1>3, <1>4, <1>5, HalvesAre, Zenon
<1>16. Alpha(Product("COMBINED", "PRIMITIVE"))
    BY <1>3, <1>4, <1>5, HalvesAre, Zenon
<1>17. Alpha(Cleared)
    BY <1>3, <1>4, <1>5, HalvesAre, Zenon DEF Cleared
<1>18. Alpha(Lerp("ENVIRONMENT", "COMBINED", "TEXEL0"))
    BY <1>3, <1>4, <1>5, HalvesAre, Zenon
<1>19. Alpha(Only("TEXEL0"))
    BY <1>3, <1>4, <1>5, HalvesAre, Zenon
<1>20. Preset(entries.PASS2)
    <2>1. entries.PASS2 = Only("COMBINED") \o Only("COMBINED")
        OBVIOUS
    <2> HIDE DEF entries
    <2> QED
        BY <1>6, <1>12, <2>1, HalvesMakeAPreset, Zenon
<1>21. Preset(entries.MODULATEI2)
    <2>1. entries.MODULATEI2 = Product("COMBINED", "SHADE") \o Only("SHADE")
        OBVIOUS
    <2> HIDE DEF entries
    <2> QED
        BY <1>7, <1>13, <2>1, HalvesMakeAPreset, Zenon
<1>22. Preset(entries.MODULATEIA2)
    <2>1. entries.MODULATEIA2 = Product("COMBINED", "SHADE") \o Product("COMBINED", "SHADE")
        OBVIOUS
    <2> HIDE DEF entries
    <2> QED
        BY <1>7, <1>14, <2>1, HalvesMakeAPreset, Zenon
<1>23. Preset(entries.MODULATEI_PRIM2)
    <2>1. entries.MODULATEI_PRIM2 = Product("COMBINED", "PRIMITIVE") \o Only("PRIMITIVE")
        OBVIOUS
    <2> HIDE DEF entries
    <2> QED
        BY <1>8, <1>15, <2>1, HalvesMakeAPreset, Zenon
<1>24. Preset(entries.MODULATEIA_PRIM2)
    <2>1. entries.MODULATEIA_PRIM2 = Product("COMBINED", "PRIMITIVE") \o Product("COMBINED", "PRIMITIVE")
        OBVIOUS
    <2> HIDE DEF entries
    <2> QED
        BY <1>8, <1>16, <2>1, HalvesMakeAPreset, Zenon
<1>25. Preset(entries.DECALRGB2)
    <2>1. entries.DECALRGB2 = Only("COMBINED") \o Only("SHADE")
        OBVIOUS
    <2> HIDE DEF entries
    <2> QED
        BY <1>6, <1>13, <2>1, HalvesMakeAPreset, Zenon
<1>26. Preset(entries.BLENDI2)
    <2>1. entries.BLENDI2 = Lerp("ENVIRONMENT", "SHADE", "COMBINED") \o Only("SHADE")
        OBVIOUS
    <2> HIDE DEF entries
    <2> QED
        BY <1>9, <1>13, <2>1, HalvesMakeAPreset, Zenon
<1>27. Preset(entries.BLENDIA2)
    <2>1. entries.BLENDIA2 = Lerp("ENVIRONMENT", "SHADE", "COMBINED") \o Product("COMBINED", "SHADE")
        OBVIOUS
    <2> HIDE DEF entries
    <2> QED
        BY <1>9, <1>14, <2>1, HalvesMakeAPreset, Zenon
<1>28. Preset(entries.CHROMA_KEY2)
    <2>1. entries.CHROMA_KEY2 = <<"TEXEL0", "CENTER", "SCALE", "Zero">> \o Cleared
        OBVIOUS
    <2> HIDE DEF entries
    <2> QED
        BY <1>10, <1>17, <2>1, HalvesMakeAPreset, Zenon
<1>29. Preset(entries.HILITERGB2)
    <2>1. entries.HILITERGB2 = Lerp("ENVIRONMENT", "COMBINED", "TEXEL0") \o Only("SHADE")
        OBVIOUS
    <2> HIDE DEF entries
    <2> QED
        BY <1>11, <1>13, <2>1, HalvesMakeAPreset, Zenon
<1>30. Preset(entries.HILITERGBA2)
    <2>1. entries.HILITERGBA2 = Lerp("ENVIRONMENT", "COMBINED", "TEXEL0") \o Lerp("ENVIRONMENT", "COMBINED", "TEXEL0")
        OBVIOUS
    <2> HIDE DEF entries
    <2> QED
        BY <1>11, <1>18, <2>1, HalvesMakeAPreset, Zenon
<1>31. Preset(entries.HILITERGBDECALA2)
    <2>1. entries.HILITERGBDECALA2 = Lerp("ENVIRONMENT", "COMBINED", "TEXEL0") \o Only("TEXEL0")
        OBVIOUS
    <2> HIDE DEF entries
    <2> QED
        BY <1>11, <1>19, <2>1, HalvesMakeAPreset, Zenon
<1>32. Preset(entries.HILITERGBPASSA2)
    <2>1. entries.HILITERGBPASSA2 = Lerp("ENVIRONMENT", "COMBINED", "TEXEL0") \o Only("COMBINED")
        OBVIOUS
    <2> HIDE DEF entries
    <2> QED
        BY <1>11, <1>12, <2>1, HalvesMakeAPreset, Zenon
<1> HIDE DEF entries
<1> QED
    BY <1>1, <1>2, <1>20, <1>21, <1>22, <1>23, <1>24, <1>25, <1>26, <1>27, <1>28, <1>29,
       <1>30, <1>31, <1>32, Zenon

\* Every preset names what its slots take.
LEMMA PresetsAre ==
    /\ \A n \in DOMAIN G_CC : Preset(G_CC[n])
    /\ "SHADE" \in DOMAIN G_CC
    /\ DOMAIN G_CC_Cycle1 \subseteq DOMAIN G_CC
    /\ DOMAIN G_CC_Cycle2 \subseteq DOMAIN G_CC
<1>1. G_CC = Joined(G_CC_Cycle1, G_CC_Cycle2)
    BY Zenon DEF G_CC
<1>2. \A n \in DOMAIN G_CC : Preset(G_CC[n])
    BY <1>1, G_CC_Cycle1_Presets, G_CC_Cycle2_Presets DEF Joined
<1>3. DOMAIN G_CC = DOMAIN G_CC_Cycle1 \cup DOMAIN G_CC_Cycle2
    BY <1>1 DEF Joined
<1>4. "SHADE" \in DOMAIN G_CC_Cycle1
    BY DEF G_CC_Cycle1
<1> QED
    BY <1>2, <1>3, <1>4

-----------------------------------------------------------------------------
(* The combiner packet, written and read.                                  *)

\* SourcesOf, of a packet.
CodeIn(C, cycle, i) ==
    LET all == Shift(C.w0, 32) \cup C.w1
    IN  Number({b - Layout[cycle][i][1] : b \in all \cap
          (Layout[cycle][i][1] .. (Layout[cycle][i][1] + Layout[cycle][i][2] - 1))})
SourcesIn(C, cycle) == [i \in 1 .. 8 |-> Source(i, CodeIn(C, cycle, i))]

\* A code that lies s bits up in one of the two words, and nothing else there.
LEMMA CodeIsRead ==
    ASSUME NEW v \in Int, NEW s \in 0 .. 63, NEW n \in 1 .. 5, NEW all,
           \A b \in s .. s + n - 1 : b \in all <=> b \in _SHIFTL(v, s, n)
    PROVE  Number({b - s : b \in all \cap (s .. s + n - 1)}) = v % 2 ^ n
<1> DEFINE low == Low(Bits(v), n)
           read == {b - s : b \in all \cap (s .. s + n - 1)}
<1>1. \A b : b \in _SHIFTL(v, s, n) <=> \E c \in low : b = c + s
    BY DEF _SHIFTL, Shift
<1>2. \A c \in low : c \in 0 .. n - 1
    BY DEF Low
<1> HIDE DEF low
<1>3. \A c \in read : c \in low
    <2> SUFFICES ASSUME NEW b \in s .. s + n - 1, b \in all
                 PROVE  b - s \in low
        BY DEF read
    <2>1. PICK c \in low : b = c + s
        BY <1>1
    <2>2. b - s = c
        BY <1>2, <2>1
    <2> QED
        BY <2>1, <2>2
<1>4. \A c \in low : c \in read
    <2> SUFFICES ASSUME NEW c \in low
                 PROVE  \E b \in all \cap (s .. s + n - 1) : c = b - s
        BY DEF read
    <2>1. c + s \in s .. s + n - 1 /\ c = (c + s) - s
        BY <1>2
    <2>2. c + s \in all
        BY <1>1, <2>1
    <2> QED
        BY <2>1, <2>2
<1>5. read = low
    BY <1>3, <1>4
<1>6. n \in 0 .. 31
    OBVIOUS
<1>7. Number(low) = v % 2 ^ n
    BY <1>6, NumberOfLow, Zenon DEF low
<1> QED
    BY <1>5, <1>7, Zenon

\* Where the slots lie.
LEMMA LayoutIs ==
    /\ Layout[1][1][1] = 52 /\ Layout[1][1][2] = 4
    /\ Layout[1][2][1] = 28 /\ Layout[1][2][2] = 4
    /\ Layout[1][3][1] = 47 /\ Layout[1][3][2] = 5
    /\ Layout[1][4][1] = 15 /\ Layout[1][4][2] = 3
    /\ Layout[1][5][1] = 44 /\ Layout[1][5][2] = 3
    /\ Layout[1][6][1] = 12 /\ Layout[1][6][2] = 3
    /\ Layout[1][7][1] = 41 /\ Layout[1][7][2] = 3
    /\ Layout[1][8][1] = 9 /\ Layout[1][8][2] = 3
    /\ Layout[2][1][1] = 37 /\ Layout[2][1][2] = 4
    /\ Layout[2][2][1] = 24 /\ Layout[2][2][2] = 4
    /\ Layout[2][3][1] = 32 /\ Layout[2][3][2] = 5
    /\ Layout[2][4][1] = 6 /\ Layout[2][4][2] = 3
    /\ Layout[2][5][1] = 21 /\ Layout[2][5][2] = 3
    /\ Layout[2][6][1] = 3 /\ Layout[2][6][2] = 3
    /\ Layout[2][7][1] = 18 /\ Layout[2][7][2] = 3
    /\ Layout[2][8][1] = 0 /\ Layout[2][8][2] = 3
BY DEF Layout

\* Where the macro puts each code, a piece of one of the two words.
LEMMA PiecesOf ==
    ASSUME NEW x, NEW y, NEW all,
           all = Shift(gDPSetCombineLERP(x, y).w0, 32) \cup gDPSetCombineLERP(x, y).w1
    PROVE
      /\ \A b \in 52 .. 55 : b \in all <=> b \in _SHIFTL(x[1], 52, 4)
      /\ \A b \in 28 .. 31 : b \in all <=> b \in _SHIFTL(x[2], 28, 4)
      /\ \A b \in 47 .. 51 : b \in all <=> b \in _SHIFTL(x[3], 47, 5)
      /\ \A b \in 15 .. 17 : b \in all <=> b \in _SHIFTL(x[4], 15, 3)
      /\ \A b \in 44 .. 46 : b \in all <=> b \in _SHIFTL(x[5], 44, 3)
      /\ \A b \in 12 .. 14 : b \in all <=> b \in _SHIFTL(x[6], 12, 3)
      /\ \A b \in 41 .. 43 : b \in all <=> b \in _SHIFTL(x[7], 41, 3)
      /\ \A b \in 9 .. 11 : b \in all <=> b \in _SHIFTL(x[8], 9, 3)
      /\ \A b \in 37 .. 40 : b \in all <=> b \in _SHIFTL(y[1], 37, 4)
      /\ \A b \in 24 .. 27 : b \in all <=> b \in _SHIFTL(y[2], 24, 4)
      /\ \A b \in 32 .. 36 : b \in all <=> b \in _SHIFTL(y[3], 32, 5)
      /\ \A b \in 6 .. 8 : b \in all <=> b \in _SHIFTL(y[4], 6, 3)
      /\ \A b \in 21 .. 23 : b \in all <=> b \in _SHIFTL(y[5], 21, 3)
      /\ \A b \in 3 .. 5 : b \in all <=> b \in _SHIFTL(y[6], 3, 3)
      /\ \A b \in 18 .. 20 : b \in all <=> b \in _SHIFTL(y[7], 18, 3)
      /\ \A b \in 0 .. 2 : b \in all <=> b \in _SHIFTL(y[8], 0, 3)
<1> DEFINE C == gDPSetCombineLERP(x, y)
           w0 == _SHIFTL(x[1], 20, 4)
                   \cup _SHIFTL(x[3], 15, 5)
                   \cup _SHIFTL(x[5], 12, 3)
                   \cup _SHIFTL(x[7], 9, 3)
                   \cup _SHIFTL(y[1], 5, 4)
                   \cup _SHIFTL(y[3], 0, 5)
           w1 == _SHIFTL(x[2], 28, 4)
                   \cup _SHIFTL(x[4], 15, 3)
                   \cup _SHIFTL(x[6], 12, 3)
                   \cup _SHIFTL(x[8], 9, 3)
                   \cup _SHIFTL(y[2], 24, 4)
                   \cup _SHIFTL(y[5], 21, 3)
                   \cup _SHIFTL(y[7], 18, 3)
                   \cup _SHIFTL(y[4], 6, 3)
                   \cup _SHIFTL(y[6], 3, 3)
                   \cup _SHIFTL(y[8], 0, 3)
<1>1. C.w0 = Cmd(RDP.COMBINE) \cup Low(w0, 24) /\ C.w1 = w1
    <2>1. C = [w0 |-> Cmd(RDP.COMBINE) \cup Low(GCCc0w0(x[1], x[3], x[5], x[7]) \cup GCCc1w0(y[1], y[3]), 24),
               w1 |-> GCCc0w1(x[2], x[4], x[6], x[8]) \cup GCCc1w1(y[2], y[5], y[7], y[4], y[6], y[8])]
        BY Zenon DEF gDPSetCombineLERP, gDPSetCombine, Gfx
    <2>2. GCCc0w0(x[1], x[3], x[5], x[7]) \cup GCCc1w0(y[1], y[3]) = w0
        BY DEF GCCc0w0, GCCc1w0
    <2>3. GCCc0w1(x[2], x[4], x[6], x[8]) \cup GCCc1w1(y[2], y[5], y[7], y[4], y[6], y[8]) = w1
        BY DEF GCCc0w1, GCCc1w1
    <2> HIDE DEF w0, w1, C
    <2> QED
        BY <2>1, <2>2, <2>3
<1>2. all = Shift(C.w0, 32) \cup C.w1
    BY Zenon
<1> HIDE DEF C
<1>3. \A v, s, n : \A b \in _SHIFTL(v, s, n) : s \in Nat /\ n \in Nat => b \in s .. s + n - 1
    BY ShiftedBit, Zenon
<1>4. /\ \A b \in _SHIFTL(x[1], 20, 4) : b \in 20 .. 23
      /\ \A b \in _SHIFTL(x[3], 15, 5) : b \in 15 .. 19
      /\ \A b \in _SHIFTL(x[5], 12, 3) : b \in 12 .. 14
      /\ \A b \in _SHIFTL(x[7], 9, 3) : b \in 9 .. 11
      /\ \A b \in _SHIFTL(y[1], 5, 4) : b \in 5 .. 8
      /\ \A b \in _SHIFTL(y[3], 0, 5) : b \in 0 .. 4
    <2>1. \A b \in _SHIFTL(x[1], 20, 4) : b \in 20 .. 23
        <3>1. 20 \in Nat /\ 4 \in Nat /\ 20 + 4 - 1 = 23
            OBVIOUS
        <3> QED
            BY <1>3, <3>1
    <2>2. \A b \in _SHIFTL(x[3], 15, 5) : b \in 15 .. 19
        <3>1. 15 \in Nat /\ 5 \in Nat /\ 15 + 5 - 1 = 19
            OBVIOUS
        <3> QED
            BY <1>3, <3>1
    <2>3. \A b \in _SHIFTL(x[5], 12, 3) : b \in 12 .. 14
        <3>1. 12 \in Nat /\ 3 \in Nat /\ 12 + 3 - 1 = 14
            OBVIOUS
        <3> QED
            BY <1>3, <3>1
    <2>4. \A b \in _SHIFTL(x[7], 9, 3) : b \in 9 .. 11
        <3>1. 9 \in Nat /\ 3 \in Nat /\ 9 + 3 - 1 = 11
            OBVIOUS
        <3> QED
            BY <1>3, <3>1
    <2>5. \A b \in _SHIFTL(y[1], 5, 4) : b \in 5 .. 8
        <3>1. 5 \in Nat /\ 4 \in Nat /\ 5 + 4 - 1 = 8
            OBVIOUS
        <3> QED
            BY <1>3, <3>1
    <2>6. \A b \in _SHIFTL(y[3], 0, 5) : b \in 0 .. 4
        <3>1. 0 \in Nat /\ 5 \in Nat /\ 0 + 5 - 1 = 4
            OBVIOUS
        <3> QED
            BY <1>3, <3>1
    <2> QED
        BY <2>1, <2>2, <2>3, <2>4, <2>5, <2>6, Zenon
<1>5. /\ \A b \in _SHIFTL(x[2], 28, 4) : b \in 28 .. 31
      /\ \A b \in _SHIFTL(x[4], 15, 3) : b \in 15 .. 17
      /\ \A b \in _SHIFTL(x[6], 12, 3) : b \in 12 .. 14
      /\ \A b \in _SHIFTL(x[8], 9, 3) : b \in 9 .. 11
      /\ \A b \in _SHIFTL(y[2], 24, 4) : b \in 24 .. 27
      /\ \A b \in _SHIFTL(y[5], 21, 3) : b \in 21 .. 23
      /\ \A b \in _SHIFTL(y[7], 18, 3) : b \in 18 .. 20
      /\ \A b \in _SHIFTL(y[4], 6, 3) : b \in 6 .. 8
      /\ \A b \in _SHIFTL(y[6], 3, 3) : b \in 3 .. 5
      /\ \A b \in _SHIFTL(y[8], 0, 3) : b \in 0 .. 2
    <2>1. \A b \in _SHIFTL(x[2], 28, 4) : b \in 28 .. 31
        <3>1. 28 \in Nat /\ 4 \in Nat /\ 28 + 4 - 1 = 31
            OBVIOUS
        <3> QED
            BY <1>3, <3>1
    <2>2. \A b \in _SHIFTL(x[4], 15, 3) : b \in 15 .. 17
        <3>1. 15 \in Nat /\ 3 \in Nat /\ 15 + 3 - 1 = 17
            OBVIOUS
        <3> QED
            BY <1>3, <3>1
    <2>3. \A b \in _SHIFTL(x[6], 12, 3) : b \in 12 .. 14
        <3>1. 12 \in Nat /\ 3 \in Nat /\ 12 + 3 - 1 = 14
            OBVIOUS
        <3> QED
            BY <1>3, <3>1
    <2>4. \A b \in _SHIFTL(x[8], 9, 3) : b \in 9 .. 11
        <3>1. 9 \in Nat /\ 3 \in Nat /\ 9 + 3 - 1 = 11
            OBVIOUS
        <3> QED
            BY <1>3, <3>1
    <2>5. \A b \in _SHIFTL(y[2], 24, 4) : b \in 24 .. 27
        <3>1. 24 \in Nat /\ 4 \in Nat /\ 24 + 4 - 1 = 27
            OBVIOUS
        <3> QED
            BY <1>3, <3>1
    <2>6. \A b \in _SHIFTL(y[5], 21, 3) : b \in 21 .. 23
        <3>1. 21 \in Nat /\ 3 \in Nat /\ 21 + 3 - 1 = 23
            OBVIOUS
        <3> QED
            BY <1>3, <3>1
    <2>7. \A b \in _SHIFTL(y[7], 18, 3) : b \in 18 .. 20
        <3>1. 18 \in Nat /\ 3 \in Nat /\ 18 + 3 - 1 = 20
            OBVIOUS
        <3> QED
            BY <1>3, <3>1
    <2>8. \A b \in _SHIFTL(y[4], 6, 3) : b \in 6 .. 8
        <3>1. 6 \in Nat /\ 3 \in Nat /\ 6 + 3 - 1 = 8
            OBVIOUS
        <3> QED
            BY <1>3, <3>1
    <2>9. \A b \in _SHIFTL(y[6], 3, 3) : b \in 3 .. 5
        <3>1. 3 \in Nat /\ 3 \in Nat /\ 3 + 3 - 1 = 5
            OBVIOUS
        <3> QED
            BY <1>3, <3>1
    <2>10. \A b \in _SHIFTL(y[8], 0, 3) : b \in 0 .. 2
        <3>1. 0 \in Nat /\ 3 \in Nat /\ 0 + 3 - 1 = 2
            OBVIOUS
        <3> QED
            BY <1>3, <3>1
    <2> QED
        BY <2>1, <2>2, <2>3, <2>4, <2>5, <2>6, <2>7, <2>8, <2>9, <2>10, Zenon
<1>6. \A b \in Cmd(RDP.COMBINE) : b \in 24 .. 31
    <2>1. 24 \in Nat /\ 8 \in Nat /\ 24 + 8 - 1 = 31
        OBVIOUS
    <2>2. \A b \in _SHIFTL(RDP.COMBINE, 24, 8) : b \in 24 .. 24 + 8 - 1
        BY <1>3, <2>1, Zenon
    <2> QED
        BY <2>1, <2>2, Zenon DEF Cmd
<1>7. \A b \in 0 .. 23 : b + 32 \in all <=> b \in w0
    <2>1. \A b \in w0 : b \in 0 .. 23
        BY <1>4
    <2>2. \A b \in w1 : b \in 0 .. 31
        BY <1>5
    <2> HIDE DEF w0, w1
    <2>3. \A b : b \in C.w0 <=> b \in Cmd(RDP.COMBINE) \/ b \in w0
        BY <1>1, <2>1 DEF Low
    <2>4. \A b \in C.w0 : b \in Int
        BY <1>6, <2>1, <2>3
    <2>5. \A b \in 0 .. 23 : b + 32 \in Shift(C.w0, 32) <=> b \in C.w0
        BY <2>4 DEF Shift
    <2>6. \A b \in 0 .. 23 : ~(b + 32 \in w1) /\ ~(b \in Cmd(RDP.COMBINE))
        BY <1>6, <2>2
    <2> QED
        BY <1>1, <1>2, <2>3, <2>5, <2>6
<1>8. \A b \in 0 .. 31 : b \in all <=> b \in w1
    <2>1. \A b \in w0 : b \in 0 .. 23
        BY <1>4
    <2> HIDE DEF w0, w1
    <2>2. \A b \in C.w0 : b \in 0 .. 31
        BY <1>1, <1>6, <2>1 DEF Low
    <2>3. \A b \in Shift(C.w0, 32) : b \in 32 .. 63
        BY <2>2 DEF Shift
    <2> QED
        BY <1>1, <1>2, <2>3, SMTT(40)
\* The pieces of a word lie apart.
<1>9. /\ \A b \in 20 .. 23 : b \in w0 <=> b \in _SHIFTL(x[1], 20, 4)
      /\ \A b \in 15 .. 19 : b \in w0 <=> b \in _SHIFTL(x[3], 15, 5)
      /\ \A b \in 12 .. 14 : b \in w0 <=> b \in _SHIFTL(x[5], 12, 3)
      /\ \A b \in 9 .. 11 : b \in w0 <=> b \in _SHIFTL(x[7], 9, 3)
      /\ \A b \in 5 .. 8 : b \in w0 <=> b \in _SHIFTL(y[1], 5, 4)
      /\ \A b \in 0 .. 4 : b \in w0 <=> b \in _SHIFTL(y[3], 0, 5)
    <2>0. w0 = _SHIFTL(x[1], 20, 4)
                   \cup _SHIFTL(x[3], 15, 5)
                   \cup _SHIFTL(x[5], 12, 3)
                   \cup _SHIFTL(x[7], 9, 3)
                   \cup _SHIFTL(y[1], 5, 4)
                   \cup _SHIFTL(y[3], 0, 5)
        OBVIOUS
    <2> HIDE DEF w0, w1
    <2>1. \A b \in 20 .. 23 : b \in w0 <=> b \in _SHIFTL(x[1], 20, 4)
        BY <2>0, <1>4
    <2>2. \A b \in 15 .. 19 : b \in w0 <=> b \in _SHIFTL(x[3], 15, 5)
        BY <2>0, <1>4
    <2>3. \A b \in 12 .. 14 : b \in w0 <=> b \in _SHIFTL(x[5], 12, 3)
        BY <2>0, <1>4
    <2>4. \A b \in 9 .. 11 : b \in w0 <=> b \in _SHIFTL(x[7], 9, 3)
        BY <2>0, <1>4
    <2>5. \A b \in 5 .. 8 : b \in w0 <=> b \in _SHIFTL(y[1], 5, 4)
        BY <2>0, <1>4
    <2>6. \A b \in 0 .. 4 : b \in w0 <=> b \in _SHIFTL(y[3], 0, 5)
        BY <2>0, <1>4
    <2> QED
        BY <2>1, <2>2, <2>3, <2>4, <2>5, <2>6, Zenon
<1>10. /\ \A b \in 28 .. 31 : b \in w1 <=> b \in _SHIFTL(x[2], 28, 4)
       /\ \A b \in 15 .. 17 : b \in w1 <=> b \in _SHIFTL(x[4], 15, 3)
       /\ \A b \in 12 .. 14 : b \in w1 <=> b \in _SHIFTL(x[6], 12, 3)
       /\ \A b \in 9 .. 11 : b \in w1 <=> b \in _SHIFTL(x[8], 9, 3)
       /\ \A b \in 24 .. 27 : b \in w1 <=> b \in _SHIFTL(y[2], 24, 4)
       /\ \A b \in 21 .. 23 : b \in w1 <=> b \in _SHIFTL(y[5], 21, 3)
       /\ \A b \in 18 .. 20 : b \in w1 <=> b \in _SHIFTL(y[7], 18, 3)
       /\ \A b \in 6 .. 8 : b \in w1 <=> b \in _SHIFTL(y[4], 6, 3)
       /\ \A b \in 3 .. 5 : b \in w1 <=> b \in _SHIFTL(y[6], 3, 3)
       /\ \A b \in 0 .. 2 : b \in w1 <=> b \in _SHIFTL(y[8], 0, 3)
    <2>0. w1 = _SHIFTL(x[2], 28, 4)
                   \cup _SHIFTL(x[4], 15, 3)
                   \cup _SHIFTL(x[6], 12, 3)
                   \cup _SHIFTL(x[8], 9, 3)
                   \cup _SHIFTL(y[2], 24, 4)
                   \cup _SHIFTL(y[5], 21, 3)
                   \cup _SHIFTL(y[7], 18, 3)
                   \cup _SHIFTL(y[4], 6, 3)
                   \cup _SHIFTL(y[6], 3, 3)
                   \cup _SHIFTL(y[8], 0, 3)
        OBVIOUS
    <2> HIDE DEF w0, w1
    <2>1. \A b \in 28 .. 31 : b \in w1 <=> b \in _SHIFTL(x[2], 28, 4)
        BY <2>0, <1>5
    <2>2. \A b \in 15 .. 17 : b \in w1 <=> b \in _SHIFTL(x[4], 15, 3)
        BY <2>0, <1>5
    <2>3. \A b \in 12 .. 14 : b \in w1 <=> b \in _SHIFTL(x[6], 12, 3)
        BY <2>0, <1>5
    <2>4. \A b \in 9 .. 11 : b \in w1 <=> b \in _SHIFTL(x[8], 9, 3)
        BY <2>0, <1>5
    <2>5. \A b \in 24 .. 27 : b \in w1 <=> b \in _SHIFTL(y[2], 24, 4)
        BY <2>0, <1>5
    <2>6. \A b \in 21 .. 23 : b \in w1 <=> b \in _SHIFTL(y[5], 21, 3)
        BY <2>0, <1>5
    <2>7. \A b \in 18 .. 20 : b \in w1 <=> b \in _SHIFTL(y[7], 18, 3)
        BY <2>0, <1>5
    <2>8. \A b \in 6 .. 8 : b \in w1 <=> b \in _SHIFTL(y[4], 6, 3)
        BY <2>0, <1>5
    <2>9. \A b \in 3 .. 5 : b \in w1 <=> b \in _SHIFTL(y[6], 3, 3)
        BY <2>0, <1>5
    <2>10. \A b \in 0 .. 2 : b \in w1 <=> b \in _SHIFTL(y[8], 0, 3)
        BY <2>0, <1>5
    <2> QED
        BY <2>1, <2>2, <2>3, <2>4, <2>5, <2>6, <2>7, <2>8, <2>9, <2>10, Zenon
<1>11. ASSUME NEW v, NEW s \in 0 .. 23, NEW n \in 1 .. 5, s + n <= 24,
              \A b \in s .. s + n - 1 : b \in w0 <=> b \in _SHIFTL(v, s, n)
       PROVE  \A b \in s + 32 .. s + 32 + n - 1 : b \in all <=> b \in _SHIFTL(v, s + 32, n)
    <2> HIDE DEF w0, w1
    <2> SUFFICES ASSUME NEW b \in s + 32 .. s + 32 + n - 1
                 PROVE  b \in all <=> b \in _SHIFTL(v, s + 32, n)
        OBVIOUS
    <2> DEFINE c == b - 32
    <2>1. c \in s .. s + n - 1 /\ c \in 0 .. 23 /\ c + 32 = b
        BY <1>11
    <2>2. \A d \in Low(Bits(v), n) : d \in Int
        BY DEF Low
    <2> HIDE DEF c
    <2>3. c \in _SHIFTL(v, s, n) <=> c + 32 \in _SHIFTL(v, s + 32, n)
        BY <2>1, <2>2 DEF _SHIFTL, Shift
    <2> QED
        BY <1>7, <1>11, <2>1, <2>3
<1>12. \A b \in 52 .. 55 : b \in all <=> b \in _SHIFTL(x[1], 52, 4)
    <2> HIDE DEF w0, w1
    <2>1. /\ 20 \in 0 .. 23 /\ 4 \in 1 .. 5 /\ 20 + 4 <= 24 /\ 20 + 4 - 1 = 23
          /\ 20 + 32 = 52 /\ 52 + 4 - 1 = 55
        OBVIOUS
    <2>2. \A b \in 20 .. 20 + 4 - 1 : b \in w0 <=> b \in _SHIFTL(x[1], 20, 4)
        BY <1>9, <2>1, Zenon
    <2>3. \A b \in 20 + 32 .. 20 + 32 + 4 - 1 : b \in all <=> b \in _SHIFTL(x[1], 20 + 32, 4)
        BY <1>11, <2>1, <2>2, Zenon
    <2> QED
        BY <2>1, <2>3, Zenon
<1>13. \A b \in 47 .. 51 : b \in all <=> b \in _SHIFTL(x[3], 47, 5)
    <2> HIDE DEF w0, w1
    <2>1. /\ 15 \in 0 .. 23 /\ 5 \in 1 .. 5 /\ 15 + 5 <= 24 /\ 15 + 5 - 1 = 19
          /\ 15 + 32 = 47 /\ 47 + 5 - 1 = 51
        OBVIOUS
    <2>2. \A b \in 15 .. 15 + 5 - 1 : b \in w0 <=> b \in _SHIFTL(x[3], 15, 5)
        BY <1>9, <2>1, Zenon
    <2>3. \A b \in 15 + 32 .. 15 + 32 + 5 - 1 : b \in all <=> b \in _SHIFTL(x[3], 15 + 32, 5)
        BY <1>11, <2>1, <2>2, Zenon
    <2> QED
        BY <2>1, <2>3, Zenon
<1>14. \A b \in 44 .. 46 : b \in all <=> b \in _SHIFTL(x[5], 44, 3)
    <2> HIDE DEF w0, w1
    <2>1. /\ 12 \in 0 .. 23 /\ 3 \in 1 .. 5 /\ 12 + 3 <= 24 /\ 12 + 3 - 1 = 14
          /\ 12 + 32 = 44 /\ 44 + 3 - 1 = 46
        OBVIOUS
    <2>2. \A b \in 12 .. 12 + 3 - 1 : b \in w0 <=> b \in _SHIFTL(x[5], 12, 3)
        BY <1>9, <2>1, Zenon
    <2>3. \A b \in 12 + 32 .. 12 + 32 + 3 - 1 : b \in all <=> b \in _SHIFTL(x[5], 12 + 32, 3)
        BY <1>11, <2>1, <2>2, Zenon
    <2> QED
        BY <2>1, <2>3, Zenon
<1>15. \A b \in 41 .. 43 : b \in all <=> b \in _SHIFTL(x[7], 41, 3)
    <2> HIDE DEF w0, w1
    <2>1. /\ 9 \in 0 .. 23 /\ 3 \in 1 .. 5 /\ 9 + 3 <= 24 /\ 9 + 3 - 1 = 11
          /\ 9 + 32 = 41 /\ 41 + 3 - 1 = 43
        OBVIOUS
    <2>2. \A b \in 9 .. 9 + 3 - 1 : b \in w0 <=> b \in _SHIFTL(x[7], 9, 3)
        BY <1>9, <2>1, Zenon
    <2>3. \A b \in 9 + 32 .. 9 + 32 + 3 - 1 : b \in all <=> b \in _SHIFTL(x[7], 9 + 32, 3)
        BY <1>11, <2>1, <2>2, Zenon
    <2> QED
        BY <2>1, <2>3, Zenon
<1>16. \A b \in 37 .. 40 : b \in all <=> b \in _SHIFTL(y[1], 37, 4)
    <2> HIDE DEF w0, w1
    <2>1. /\ 5 \in 0 .. 23 /\ 4 \in 1 .. 5 /\ 5 + 4 <= 24 /\ 5 + 4 - 1 = 8
          /\ 5 + 32 = 37 /\ 37 + 4 - 1 = 40
        OBVIOUS
    <2>2. \A b \in 5 .. 5 + 4 - 1 : b \in w0 <=> b \in _SHIFTL(y[1], 5, 4)
        BY <1>9, <2>1, Zenon
    <2>3. \A b \in 5 + 32 .. 5 + 32 + 4 - 1 : b \in all <=> b \in _SHIFTL(y[1], 5 + 32, 4)
        BY <1>11, <2>1, <2>2, Zenon
    <2> QED
        BY <2>1, <2>3, Zenon
<1>17. \A b \in 32 .. 36 : b \in all <=> b \in _SHIFTL(y[3], 32, 5)
    <2> HIDE DEF w0, w1
    <2>1. /\ 0 \in 0 .. 23 /\ 5 \in 1 .. 5 /\ 0 + 5 <= 24 /\ 0 + 5 - 1 = 4
          /\ 0 + 32 = 32 /\ 32 + 5 - 1 = 36
        OBVIOUS
    <2>2. \A b \in 0 .. 0 + 5 - 1 : b \in w0 <=> b \in _SHIFTL(y[3], 0, 5)
        BY <1>9, <2>1, Zenon
    <2>3. \A b \in 0 + 32 .. 0 + 32 + 5 - 1 : b \in all <=> b \in _SHIFTL(y[3], 0 + 32, 5)
        BY <1>11, <2>1, <2>2, Zenon
    <2> QED
        BY <2>1, <2>3, Zenon
<1>18. \A b \in 28 .. 31 : b \in all <=> b \in _SHIFTL(x[2], 28, 4)
    <2> HIDE DEF w1, w0
    <2>1. \A b \in 28 .. 31 : b \in 0 .. 31
        OBVIOUS
    <2> QED
        BY <1>8, <1>10, <2>1, Zenon
<1>19. \A b \in 15 .. 17 : b \in all <=> b \in _SHIFTL(x[4], 15, 3)
    <2> HIDE DEF w1, w0
    <2>1. \A b \in 15 .. 17 : b \in 0 .. 31
        OBVIOUS
    <2> QED
        BY <1>8, <1>10, <2>1, Zenon
<1>20. \A b \in 12 .. 14 : b \in all <=> b \in _SHIFTL(x[6], 12, 3)
    <2> HIDE DEF w1, w0
    <2>1. \A b \in 12 .. 14 : b \in 0 .. 31
        OBVIOUS
    <2> QED
        BY <1>8, <1>10, <2>1, Zenon
<1>21. \A b \in 9 .. 11 : b \in all <=> b \in _SHIFTL(x[8], 9, 3)
    <2> HIDE DEF w1, w0
    <2>1. \A b \in 9 .. 11 : b \in 0 .. 31
        OBVIOUS
    <2> QED
        BY <1>8, <1>10, <2>1, Zenon
<1>22. \A b \in 24 .. 27 : b \in all <=> b \in _SHIFTL(y[2], 24, 4)
    <2> HIDE DEF w1, w0
    <2>1. \A b \in 24 .. 27 : b \in 0 .. 31
        OBVIOUS
    <2> QED
        BY <1>8, <1>10, <2>1, Zenon
<1>23. \A b \in 21 .. 23 : b \in all <=> b \in _SHIFTL(y[5], 21, 3)
    <2> HIDE DEF w1, w0
    <2>1. \A b \in 21 .. 23 : b \in 0 .. 31
        OBVIOUS
    <2> QED
        BY <1>8, <1>10, <2>1, Zenon
<1>24. \A b \in 18 .. 20 : b \in all <=> b \in _SHIFTL(y[7], 18, 3)
    <2> HIDE DEF w1, w0
    <2>1. \A b \in 18 .. 20 : b \in 0 .. 31
        OBVIOUS
    <2> QED
        BY <1>8, <1>10, <2>1, Zenon
<1>25. \A b \in 6 .. 8 : b \in all <=> b \in _SHIFTL(y[4], 6, 3)
    <2> HIDE DEF w1, w0
    <2>1. \A b \in 6 .. 8 : b \in 0 .. 31
        OBVIOUS
    <2> QED
        BY <1>8, <1>10, <2>1, Zenon
<1>26. \A b \in 3 .. 5 : b \in all <=> b \in _SHIFTL(y[6], 3, 3)
    <2> HIDE DEF w1, w0
    <2>1. \A b \in 3 .. 5 : b \in 0 .. 31
        OBVIOUS
    <2> QED
        BY <1>8, <1>10, <2>1, Zenon
<1>27. \A b \in 0 .. 2 : b \in all <=> b \in _SHIFTL(y[8], 0, 3)
    <2> HIDE DEF w1, w0
    <2>1. \A b \in 0 .. 2 : b \in 0 .. 31
        OBVIOUS
    <2> QED
        BY <1>8, <1>10, <2>1, Zenon
<1> HIDE DEF w0, w1
<1> QED
    BY <1>12, <1>13, <1>14, <1>15, <1>16, <1>17, <1>18, <1>19,
       <1>20, <1>21, <1>22, <1>23, <1>24, <1>25, <1>26, <1>27, Zenon

\* A preset that the macro packs is read back as it is named.
LEMMA SourcesAre ==
    ASSUME NEW a, Preset(a), NEW b, Preset(b)
    PROVE  LET C == gDPSetCombineMode(a, b)
           IN  Opcode(C) = RDP.COMBINE /\ SourcesIn(C, 1) = a /\ SourcesIn(C, 2) = b
<1> DEFINE C == gDPSetCombineMode(a, b)
           x == Mux(a)
           y == Mux(b)
           all == Shift(C.w0, 32) \cup C.w1
<1>1. C = gDPSetCombineLERP(x, y)
    BY Zenon DEF gDPSetCombineMode
<1>2. Opcode(C) = RDP.COMBINE
    <2> DEFINE mux0 == GCCc0w0(x[1], x[3], x[5], x[7]) \cup GCCc1w0(y[1], y[3])
    <2>1. C = [w0 |-> Cmd(RDP.COMBINE) \cup Low(mux0, 24),
               w1 |-> GCCc0w1(x[2], x[4], x[6], x[8]) \cup GCCc1w1(y[2], y[5], y[7], y[4], y[6], y[8])]
        BY <1>1, Zenon DEF gDPSetCombineLERP, gDPSetCombine, Gfx
    <2> HIDE DEF mux0, C, x, y
    <2>2. C.w0 = Cmd(RDP.COMBINE) \cup Low(mux0, 24)
        BY <2>1
    <2>3. \A c \in 24 .. 31 : c \in C.w0 <=> c \in Cmd(RDP.COMBINE)
        BY <2>2 DEF Low
    <2>4. RDP.COMBINE \in 0 .. 255
        BY DEF RDP
    <2> QED
        BY <2>3, <2>4, OpcodeIs, Zenon
<1>3. \A i \in 1 .. 8 : x[i] = Code(i, a[i]) /\ y[i] = Code(i, b[i])
    BY Zenon DEF Mux, Code
<1>4. \A i \in 1 .. 8 : a[i] \in Taken(i) /\ b[i] \in Taken(i)
    BY Zenon DEF Preset
<1>5. \A i \in 1 .. 8 : /\ x[i] \in Int /\ Source(i, x[i] % 2 ^ SlotBits(i)) = a[i]
                        /\ y[i] \in Int /\ Source(i, y[i] % 2 ^ SlotBits(i)) = b[i]
    BY <1>3, <1>4, NamesAreTaken, Zenon
<1> HIDE DEF x, y
<1>6. /\ \A c \in 52 .. 55 : c \in all <=> c \in _SHIFTL(x[1], 52, 4)
      /\ \A c \in 28 .. 31 : c \in all <=> c \in _SHIFTL(x[2], 28, 4)
      /\ \A c \in 47 .. 51 : c \in all <=> c \in _SHIFTL(x[3], 47, 5)
      /\ \A c \in 15 .. 17 : c \in all <=> c \in _SHIFTL(x[4], 15, 3)
      /\ \A c \in 44 .. 46 : c \in all <=> c \in _SHIFTL(x[5], 44, 3)
      /\ \A c \in 12 .. 14 : c \in all <=> c \in _SHIFTL(x[6], 12, 3)
      /\ \A c \in 41 .. 43 : c \in all <=> c \in _SHIFTL(x[7], 41, 3)
      /\ \A c \in 9 .. 11 : c \in all <=> c \in _SHIFTL(x[8], 9, 3)
      /\ \A c \in 37 .. 40 : c \in all <=> c \in _SHIFTL(y[1], 37, 4)
      /\ \A c \in 24 .. 27 : c \in all <=> c \in _SHIFTL(y[2], 24, 4)
      /\ \A c \in 32 .. 36 : c \in all <=> c \in _SHIFTL(y[3], 32, 5)
      /\ \A c \in 6 .. 8 : c \in all <=> c \in _SHIFTL(y[4], 6, 3)
      /\ \A c \in 21 .. 23 : c \in all <=> c \in _SHIFTL(y[5], 21, 3)
      /\ \A c \in 3 .. 5 : c \in all <=> c \in _SHIFTL(y[6], 3, 3)
      /\ \A c \in 18 .. 20 : c \in all <=> c \in _SHIFTL(y[7], 18, 3)
      /\ \A c \in 0 .. 2 : c \in all <=> c \in _SHIFTL(y[8], 0, 3)
    <2>1. all = Shift(gDPSetCombineLERP(x, y).w0, 32) \cup gDPSetCombineLERP(x, y).w1
        BY <1>1, Zenon
    <2> HIDE DEF all
    <2> QED
        BY <2>1, PiecesOf
<1> HIDE DEF C, all
<1>7. ASSUME NEW v \in Int, NEW s \in 0 .. 63, NEW n \in 1 .. 5,
             \A c \in s .. s + n - 1 : c \in all <=> c \in _SHIFTL(v, s, n)
      PROVE  Number({c - s : c \in all \cap (s .. s + n - 1)}) = v % 2 ^ n
    BY <1>7, CodeIsRead, Zenon
<1>8. \A i \in 1 .. 8 : x[i] \in Int /\ y[i] \in Int
    BY <1>5
<1>9. \A i \in 1 .. 8 : CodeIn(C, 1, i) = x[i] % 2 ^ SlotBits(i)
    <2>1. CodeIn(C, 1, 1) = x[1] % 2 ^ SlotBits(1)
        <3>1. 52 \in 0 .. 63 /\ 4 \in 1 .. 5 /\ 1 \in 1 .. 8
            OBVIOUS
        <3>2. \A c \in 52 .. 52 + 4 - 1 : c \in all <=> c \in _SHIFTL(x[1], 52, 4)
            <4>1. 52 + 4 - 1 = 55
                OBVIOUS
            <4> QED
                BY <1>6, <4>1, Zenon
        <3>3. Number({c - 52 : c \in all \cap (52 .. 52 + 4 - 1)}) = x[1] % 2 ^ 4
            BY <1>7, <1>8, <3>1, <3>2, Zenon
        <3>4. CodeIn(C, 1, 1) = Number({c - 52 : c \in all \cap (52 .. (52 + 4 - 1))})
            BY LayoutIs, Zenon DEF CodeIn, all
        <3> QED
            BY <3>3, <3>4, SlotBitsAre
    <2>2. CodeIn(C, 1, 2) = x[2] % 2 ^ SlotBits(2)
        <3>1. 28 \in 0 .. 63 /\ 4 \in 1 .. 5 /\ 2 \in 1 .. 8
            OBVIOUS
        <3>2. \A c \in 28 .. 28 + 4 - 1 : c \in all <=> c \in _SHIFTL(x[2], 28, 4)
            <4>1. 28 + 4 - 1 = 31
                OBVIOUS
            <4> QED
                BY <1>6, <4>1, Zenon
        <3>3. Number({c - 28 : c \in all \cap (28 .. 28 + 4 - 1)}) = x[2] % 2 ^ 4
            BY <1>7, <1>8, <3>1, <3>2, Zenon
        <3>4. CodeIn(C, 1, 2) = Number({c - 28 : c \in all \cap (28 .. (28 + 4 - 1))})
            BY LayoutIs, Zenon DEF CodeIn, all
        <3> QED
            BY <3>3, <3>4, SlotBitsAre
    <2>3. CodeIn(C, 1, 3) = x[3] % 2 ^ SlotBits(3)
        <3>1. 47 \in 0 .. 63 /\ 5 \in 1 .. 5 /\ 3 \in 1 .. 8
            OBVIOUS
        <3>2. \A c \in 47 .. 47 + 5 - 1 : c \in all <=> c \in _SHIFTL(x[3], 47, 5)
            <4>1. 47 + 5 - 1 = 51
                OBVIOUS
            <4> QED
                BY <1>6, <4>1, Zenon
        <3>3. Number({c - 47 : c \in all \cap (47 .. 47 + 5 - 1)}) = x[3] % 2 ^ 5
            BY <1>7, <1>8, <3>1, <3>2, Zenon
        <3>4. CodeIn(C, 1, 3) = Number({c - 47 : c \in all \cap (47 .. (47 + 5 - 1))})
            BY LayoutIs, Zenon DEF CodeIn, all
        <3> QED
            BY <3>3, <3>4, SlotBitsAre
    <2>4. CodeIn(C, 1, 4) = x[4] % 2 ^ SlotBits(4)
        <3>1. 15 \in 0 .. 63 /\ 3 \in 1 .. 5 /\ 4 \in 1 .. 8
            OBVIOUS
        <3>2. \A c \in 15 .. 15 + 3 - 1 : c \in all <=> c \in _SHIFTL(x[4], 15, 3)
            <4>1. 15 + 3 - 1 = 17
                OBVIOUS
            <4> QED
                BY <1>6, <4>1, Zenon
        <3>3. Number({c - 15 : c \in all \cap (15 .. 15 + 3 - 1)}) = x[4] % 2 ^ 3
            BY <1>7, <1>8, <3>1, <3>2, Zenon
        <3>4. CodeIn(C, 1, 4) = Number({c - 15 : c \in all \cap (15 .. (15 + 3 - 1))})
            BY LayoutIs, Zenon DEF CodeIn, all
        <3> QED
            BY <3>3, <3>4, SlotBitsAre
    <2>5. CodeIn(C, 1, 5) = x[5] % 2 ^ SlotBits(5)
        <3>1. 44 \in 0 .. 63 /\ 3 \in 1 .. 5 /\ 5 \in 1 .. 8
            OBVIOUS
        <3>2. \A c \in 44 .. 44 + 3 - 1 : c \in all <=> c \in _SHIFTL(x[5], 44, 3)
            <4>1. 44 + 3 - 1 = 46
                OBVIOUS
            <4> QED
                BY <1>6, <4>1, Zenon
        <3>3. Number({c - 44 : c \in all \cap (44 .. 44 + 3 - 1)}) = x[5] % 2 ^ 3
            BY <1>7, <1>8, <3>1, <3>2, Zenon
        <3>4. CodeIn(C, 1, 5) = Number({c - 44 : c \in all \cap (44 .. (44 + 3 - 1))})
            BY LayoutIs, Zenon DEF CodeIn, all
        <3> QED
            BY <3>3, <3>4, SlotBitsAre
    <2>6. CodeIn(C, 1, 6) = x[6] % 2 ^ SlotBits(6)
        <3>1. 12 \in 0 .. 63 /\ 3 \in 1 .. 5 /\ 6 \in 1 .. 8
            OBVIOUS
        <3>2. \A c \in 12 .. 12 + 3 - 1 : c \in all <=> c \in _SHIFTL(x[6], 12, 3)
            <4>1. 12 + 3 - 1 = 14
                OBVIOUS
            <4> QED
                BY <1>6, <4>1, Zenon
        <3>3. Number({c - 12 : c \in all \cap (12 .. 12 + 3 - 1)}) = x[6] % 2 ^ 3
            BY <1>7, <1>8, <3>1, <3>2, Zenon
        <3>4. CodeIn(C, 1, 6) = Number({c - 12 : c \in all \cap (12 .. (12 + 3 - 1))})
            BY LayoutIs, Zenon DEF CodeIn, all
        <3> QED
            BY <3>3, <3>4, SlotBitsAre
    <2>7. CodeIn(C, 1, 7) = x[7] % 2 ^ SlotBits(7)
        <3>1. 41 \in 0 .. 63 /\ 3 \in 1 .. 5 /\ 7 \in 1 .. 8
            OBVIOUS
        <3>2. \A c \in 41 .. 41 + 3 - 1 : c \in all <=> c \in _SHIFTL(x[7], 41, 3)
            <4>1. 41 + 3 - 1 = 43
                OBVIOUS
            <4> QED
                BY <1>6, <4>1, Zenon
        <3>3. Number({c - 41 : c \in all \cap (41 .. 41 + 3 - 1)}) = x[7] % 2 ^ 3
            BY <1>7, <1>8, <3>1, <3>2, Zenon
        <3>4. CodeIn(C, 1, 7) = Number({c - 41 : c \in all \cap (41 .. (41 + 3 - 1))})
            BY LayoutIs, Zenon DEF CodeIn, all
        <3> QED
            BY <3>3, <3>4, SlotBitsAre
    <2>8. CodeIn(C, 1, 8) = x[8] % 2 ^ SlotBits(8)
        <3>1. 9 \in 0 .. 63 /\ 3 \in 1 .. 5 /\ 8 \in 1 .. 8
            OBVIOUS
        <3>2. \A c \in 9 .. 9 + 3 - 1 : c \in all <=> c \in _SHIFTL(x[8], 9, 3)
            <4>1. 9 + 3 - 1 = 11
                OBVIOUS
            <4> QED
                BY <1>6, <4>1, Zenon
        <3>3. Number({c - 9 : c \in all \cap (9 .. 9 + 3 - 1)}) = x[8] % 2 ^ 3
            BY <1>7, <1>8, <3>1, <3>2, Zenon
        <3>4. CodeIn(C, 1, 8) = Number({c - 9 : c \in all \cap (9 .. (9 + 3 - 1))})
            BY LayoutIs, Zenon DEF CodeIn, all
        <3> QED
            BY <3>3, <3>4, SlotBitsAre
    <2>9. \A i \in 1 .. 8 : i = 1 \/ i = 2 \/ i = 3 \/ i = 4 \/ i = 5 \/ i = 6 \/ i = 7 \/ i = 8
        OBVIOUS
    <2> QED
        BY <2>1, <2>2, <2>3, <2>4, <2>5, <2>6, <2>7, <2>8, <2>9, Zenon
<1>10. \A i \in 1 .. 8 : CodeIn(C, 2, i) = y[i] % 2 ^ SlotBits(i)
    <2>1. CodeIn(C, 2, 1) = y[1] % 2 ^ SlotBits(1)
        <3>1. 37 \in 0 .. 63 /\ 4 \in 1 .. 5 /\ 1 \in 1 .. 8
            OBVIOUS
        <3>2. \A c \in 37 .. 37 + 4 - 1 : c \in all <=> c \in _SHIFTL(y[1], 37, 4)
            <4>1. 37 + 4 - 1 = 40
                OBVIOUS
            <4> QED
                BY <1>6, <4>1, Zenon
        <3>3. Number({c - 37 : c \in all \cap (37 .. 37 + 4 - 1)}) = y[1] % 2 ^ 4
            BY <1>7, <1>8, <3>1, <3>2, Zenon
        <3>4. CodeIn(C, 2, 1) = Number({c - 37 : c \in all \cap (37 .. (37 + 4 - 1))})
            BY LayoutIs, Zenon DEF CodeIn, all
        <3> QED
            BY <3>3, <3>4, SlotBitsAre
    <2>2. CodeIn(C, 2, 2) = y[2] % 2 ^ SlotBits(2)
        <3>1. 24 \in 0 .. 63 /\ 4 \in 1 .. 5 /\ 2 \in 1 .. 8
            OBVIOUS
        <3>2. \A c \in 24 .. 24 + 4 - 1 : c \in all <=> c \in _SHIFTL(y[2], 24, 4)
            <4>1. 24 + 4 - 1 = 27
                OBVIOUS
            <4> QED
                BY <1>6, <4>1, Zenon
        <3>3. Number({c - 24 : c \in all \cap (24 .. 24 + 4 - 1)}) = y[2] % 2 ^ 4
            BY <1>7, <1>8, <3>1, <3>2, Zenon
        <3>4. CodeIn(C, 2, 2) = Number({c - 24 : c \in all \cap (24 .. (24 + 4 - 1))})
            BY LayoutIs, Zenon DEF CodeIn, all
        <3> QED
            BY <3>3, <3>4, SlotBitsAre
    <2>3. CodeIn(C, 2, 3) = y[3] % 2 ^ SlotBits(3)
        <3>1. 32 \in 0 .. 63 /\ 5 \in 1 .. 5 /\ 3 \in 1 .. 8
            OBVIOUS
        <3>2. \A c \in 32 .. 32 + 5 - 1 : c \in all <=> c \in _SHIFTL(y[3], 32, 5)
            <4>1. 32 + 5 - 1 = 36
                OBVIOUS
            <4> QED
                BY <1>6, <4>1, Zenon
        <3>3. Number({c - 32 : c \in all \cap (32 .. 32 + 5 - 1)}) = y[3] % 2 ^ 5
            BY <1>7, <1>8, <3>1, <3>2, Zenon
        <3>4. CodeIn(C, 2, 3) = Number({c - 32 : c \in all \cap (32 .. (32 + 5 - 1))})
            BY LayoutIs, Zenon DEF CodeIn, all
        <3> QED
            BY <3>3, <3>4, SlotBitsAre
    <2>4. CodeIn(C, 2, 4) = y[4] % 2 ^ SlotBits(4)
        <3>1. 6 \in 0 .. 63 /\ 3 \in 1 .. 5 /\ 4 \in 1 .. 8
            OBVIOUS
        <3>2. \A c \in 6 .. 6 + 3 - 1 : c \in all <=> c \in _SHIFTL(y[4], 6, 3)
            <4>1. 6 + 3 - 1 = 8
                OBVIOUS
            <4> QED
                BY <1>6, <4>1, Zenon
        <3>3. Number({c - 6 : c \in all \cap (6 .. 6 + 3 - 1)}) = y[4] % 2 ^ 3
            BY <1>7, <1>8, <3>1, <3>2, Zenon
        <3>4. CodeIn(C, 2, 4) = Number({c - 6 : c \in all \cap (6 .. (6 + 3 - 1))})
            BY LayoutIs, Zenon DEF CodeIn, all
        <3> QED
            BY <3>3, <3>4, SlotBitsAre
    <2>5. CodeIn(C, 2, 5) = y[5] % 2 ^ SlotBits(5)
        <3>1. 21 \in 0 .. 63 /\ 3 \in 1 .. 5 /\ 5 \in 1 .. 8
            OBVIOUS
        <3>2. \A c \in 21 .. 21 + 3 - 1 : c \in all <=> c \in _SHIFTL(y[5], 21, 3)
            <4>1. 21 + 3 - 1 = 23
                OBVIOUS
            <4> QED
                BY <1>6, <4>1, Zenon
        <3>3. Number({c - 21 : c \in all \cap (21 .. 21 + 3 - 1)}) = y[5] % 2 ^ 3
            BY <1>7, <1>8, <3>1, <3>2, Zenon
        <3>4. CodeIn(C, 2, 5) = Number({c - 21 : c \in all \cap (21 .. (21 + 3 - 1))})
            BY LayoutIs, Zenon DEF CodeIn, all
        <3> QED
            BY <3>3, <3>4, SlotBitsAre
    <2>6. CodeIn(C, 2, 6) = y[6] % 2 ^ SlotBits(6)
        <3>1. 3 \in 0 .. 63 /\ 3 \in 1 .. 5 /\ 6 \in 1 .. 8
            OBVIOUS
        <3>2. \A c \in 3 .. 3 + 3 - 1 : c \in all <=> c \in _SHIFTL(y[6], 3, 3)
            <4>1. 3 + 3 - 1 = 5
                OBVIOUS
            <4> QED
                BY <1>6, <4>1, Zenon
        <3>3. Number({c - 3 : c \in all \cap (3 .. 3 + 3 - 1)}) = y[6] % 2 ^ 3
            BY <1>7, <1>8, <3>1, <3>2, Zenon
        <3>4. CodeIn(C, 2, 6) = Number({c - 3 : c \in all \cap (3 .. (3 + 3 - 1))})
            BY LayoutIs, Zenon DEF CodeIn, all
        <3> QED
            BY <3>3, <3>4, SlotBitsAre
    <2>7. CodeIn(C, 2, 7) = y[7] % 2 ^ SlotBits(7)
        <3>1. 18 \in 0 .. 63 /\ 3 \in 1 .. 5 /\ 7 \in 1 .. 8
            OBVIOUS
        <3>2. \A c \in 18 .. 18 + 3 - 1 : c \in all <=> c \in _SHIFTL(y[7], 18, 3)
            <4>1. 18 + 3 - 1 = 20
                OBVIOUS
            <4> QED
                BY <1>6, <4>1, Zenon
        <3>3. Number({c - 18 : c \in all \cap (18 .. 18 + 3 - 1)}) = y[7] % 2 ^ 3
            BY <1>7, <1>8, <3>1, <3>2, Zenon
        <3>4. CodeIn(C, 2, 7) = Number({c - 18 : c \in all \cap (18 .. (18 + 3 - 1))})
            BY LayoutIs, Zenon DEF CodeIn, all
        <3> QED
            BY <3>3, <3>4, SlotBitsAre
    <2>8. CodeIn(C, 2, 8) = y[8] % 2 ^ SlotBits(8)
        <3>1. 0 \in 0 .. 63 /\ 3 \in 1 .. 5 /\ 8 \in 1 .. 8
            OBVIOUS
        <3>2. \A c \in 0 .. 0 + 3 - 1 : c \in all <=> c \in _SHIFTL(y[8], 0, 3)
            <4>1. 0 + 3 - 1 = 2
                OBVIOUS
            <4> QED
                BY <1>6, <4>1, Zenon
        <3>3. Number({c - 0 : c \in all \cap (0 .. 0 + 3 - 1)}) = y[8] % 2 ^ 3
            BY <1>7, <1>8, <3>1, <3>2, Zenon
        <3>4. CodeIn(C, 2, 8) = Number({c - 0 : c \in all \cap (0 .. (0 + 3 - 1))})
            BY LayoutIs, Zenon DEF CodeIn, all
        <3> QED
            BY <3>3, <3>4, SlotBitsAre
    <2>9. \A i \in 1 .. 8 : i = 1 \/ i = 2 \/ i = 3 \/ i = 4 \/ i = 5 \/ i = 6 \/ i = 7 \/ i = 8
        OBVIOUS
    <2> QED
        BY <2>1, <2>2, <2>3, <2>4, <2>5, <2>6, <2>7, <2>8, <2>9, Zenon
<1>11. a = [i \in 1 .. 8 |-> a[i]] /\ b = [i \in 1 .. 8 |-> b[i]]
    BY Zenon DEF Preset
<1>12. SourcesIn(C, 1) = [i \in 1 .. 8 |-> a[i]] /\ SourcesIn(C, 2) = [i \in 1 .. 8 |-> b[i]]
    BY <1>5, <1>9, <1>10 DEF SourcesIn
<1> QED
    BY <1>2, <1>11, <1>12, Zenon DEF C

-----------------------------------------------------------------------------
(* What the words of the RSP and of the RDP hold.                          *)

WordOf(r, o) == IF o \in InL THEN r.L ELSE r.H
OptionsNow(r) == [o \in DOMAIN Options |-> Reading(WordOf(r, o), o)]
OptionValues == [DOMAIN Options -> UNION {DOMAIN Options[o] : o \in DOMAIN Options}]
AllPairs == Pairs(RenderModes) \cup {<<"NOOP", "NOOP">>}

\* values are the options that the words of r carry.
Carries(r, values) ==
    \A o \in DOMAIN Options : /\ values[o] \in DOMAIN Options[o]
                              /\ WordOf(r, o) \cap Area[o] = Options[o][values[o]]
HasMode(L, pair) == \A b \in 3 .. 31 : b \in L <=> b \in PairWord(pair)

\* The inductive invariant: whatever the packets before, r holds a value for
\* every option, a render mode and a preset; and the shadow follows unless an
\* expert writes.
Consistent(r, s, e) ==
    /\ r = [H |-> r.H, L |-> r.L, C |-> r.C]
    /\ s = [H |-> s.H, L |-> s.L]
    /\ \E values \in OptionValues : Carries(r, values)
    /\ \E pair \in AllPairs : HasMode(r.L, pair)
    /\ \E pair \in AllSources : r.C = gDPSetCombineMode(pair[1], pair[2])
    /\ ~e => r.L = s.L /\ r.H = Low(s.H, 24)

\* Options that are carried are read.
LEMMA CarriedIsRead ==
    ASSUME NEW r, NEW values \in OptionValues,
           Carries(r, values)
    PROVE  OptionsNow(r) = values
<1>1. ASSUME NEW o \in DOMAIN Options
      PROVE  Reading(WordOf(r, o), o) = values[o]
    <2>1. values[o] \in DOMAIN Options[o] /\ WordOf(r, o) \cap Area[o] = Options[o][values[o]]
        BY Zenon DEF Carries
    <2> QED
        BY <2>1, ReadingIs, Zenon
<1>2. OptionsNow(r) = [o \in DOMAIN Options |-> values[o]]
    BY <1>1, Zenon DEF OptionsNow
<1> HIDE DEF OptionsNow
<1> QED
    BY <1>2 DEF OptionValues

\* A part of a word is replaced by a value of the option that has it.
Put(word, o, n) == (word \ Area[o]) \cup Options[o][n]

\* The shadow after a setter, and the RDP's words after a packet to the shadow.
Altered(s, o, n) ==
    IF o \in InL THEN [s EXCEPT !.L = Put(@, o, n)] ELSE [s EXCEPT !.H = Put(@, o, n)]
Chosen(values, o, n) == [values EXCEPT ![o] = n]
Follows(r, s) == [r EXCEPT !.H = Low(s.H, 24), !.L = s.L]

\* Replacing one option leaves the others.
LEMMA ReplacedOption ==
    ASSUME NEW word, NEW o \in DOMAIN Options, NEW n \in DOMAIN Options[o]
    PROVE  /\ Put(word, o, n) \cap Area[o] = Options[o][n]
           /\ \A p \in DOMAIN Options :
                 p # o /\ (p \in InL <=> o \in InL) => Put(word, o, n) \cap Area[p] = word \cap Area[p]
           /\ o \in InL => \A b \in 3 .. 31 : b \in Put(word, o, n) <=> b \in word
<1> DEFINE new == Put(word, o, n)
<1>0. new = (word \ Area[o]) \cup Options[o][n]
    BY Zenon DEF Put
<1> HIDE DEF new
<1>1. Options[o][n] \subseteq Area[o]
    BY OptionsAre, Zenon DEF Fits
<1>2. new \cap Area[o] = Options[o][n]
    BY <1>0, <1>1
<1>3. ASSUME NEW p \in DOMAIN Options, p # o, p \in InL <=> o \in InL
      PROVE  new \cap Area[p] = word \cap Area[p]
    <2>1. Area[p] \cap Area[o] = {}
        BY <1>3, AreasApart, Zenon
    <2> QED
        BY <1>0, <1>1, <2>1
<1>4. ASSUME o \in InL PROVE \A b \in 3 .. 31 : b \in new <=> b \in word
    <2>1. Area[o] \subseteq 0 .. 2
        BY <1>4, OptionsAre, Zenon
    <2> QED
        BY <1>0, <1>1, <2>1
<1> QED
    BY <1>2, <1>3, <1>4, Zenon DEF new

\* The RDP gets 24 bits of the high word, and every option is in them.
LEMMA LowKeepsOptions ==
    \A word : \A o \in DOMAIN Options \ InL : Low(word, 24) \cap Area[o] = word \cap Area[o]
<1>1. \A o \in DOMAIN Options \ InL : Area[o] \subseteq 4 .. 23
    BY OptionsAre, Zenon
<1> QED
    BY <1>1 DEF Low

\* Words that agree on a mode look the same.
LEMMA SameLook ==
    ASSUME NEW L, NEW M, \A b \in 3 .. 31 : b \in L <=> b \in M
    PROVE  LookIn(L) = LookIn(M)
<1>1. L \cap (3 .. 15) = M \cap (3 .. 15)
    OBVIOUS
<1>2. ASSUME NEW n \in 3 .. 31 PROVE Field(L, n, 2) = Field(M, n, 2)
    <2>1. L \cap (n .. 31) = M \cap (n .. 31)
        OBVIOUS
    <2> QED
        BY <2>1, Zenon DEF Field
<1>3. \A i \in 1 .. 4 : <<30, 26, 22, 18>>[i] \in 3 .. 31 /\ <<28, 24, 20, 16>>[i] \in 3 .. 31
    OBVIOUS
<1> QED
    BY <1>1, <1>2, <1>3, Zenon DEF LookIn

\* A setter of one option.
Optioned(r, r2, o, n) ==
    /\ OptionsNow(r2) = Chosen(OptionsNow(r), o, n)
    /\ LookIn(r2.L) = LookIn(r.L) /\ r2.C = r.C

\* It keeps the words consistent, and changes one option in what they show.
LEMMA OneOption ==
    ASSUME NEW r, NEW s, Consistent(r, s, FALSE), NEW o \in DOMAIN Options,
           NEW n \in DOMAIN Options[o], NEW r2, NEW s2,
           s2 = Altered(s, o, n), r2 = Follows(r, s2)
    PROVE  /\ Consistent(r2, s2, FALSE)
           /\ Optioned(r, r2, o, n)
<1>1. /\ r = [H |-> r.H, L |-> r.L, C |-> r.C]
      /\ s = [H |-> s.H, L |-> s.L]
      /\ r.L = s.L /\ r.H = Low(s.H, 24)
    BY Zenon DEF Consistent
<1>2. PICK values \in OptionValues : Carries(r, values)
    BY Zenon DEF Consistent
<1>3. PICK pair \in AllPairs : HasMode(r.L, pair)
    BY Zenon DEF Consistent
<1>4. PICK sources \in AllSources : r.C = gDPSetCombineMode(sources[1], sources[2])
    BY Zenon DEF Consistent
<1>5. /\ s2.L = (IF o \in InL THEN Put(s.L, o, n) ELSE s.L)
      /\ s2.H = (IF o \in InL THEN s.H ELSE Put(s.H, o, n))
      /\ s2 = [H |-> s2.H, L |-> s2.L]
    <2>1. CASE o \in InL
        BY <1>1, <2>1 DEF Altered
    <2>2. CASE ~(o \in InL)
        BY <1>1, <2>2 DEF Altered
    <2> QED
        BY <2>1, <2>2
<1>6. r2.H = Low(s2.H, 24) /\ r2.L = s2.L /\ r2.C = r.C /\ r2 = [H |-> r2.H, L |-> r2.L, C |-> r2.C]
    BY <1>1 DEF Follows
<1>P. \A word :
          /\ Put(word, o, n) \cap Area[o] = Options[o][n]
          /\ \A p \in DOMAIN Options :
                p # o /\ (p \in InL <=> o \in InL) => Put(word, o, n) \cap Area[p] = word \cap Area[p]
          /\ o \in InL => \A b \in 3 .. 31 : b \in Put(word, o, n) <=> b \in word
    BY ReplacedOption
<1> DEFINE new == [values EXCEPT ![o] = n]
<1>7. new \in OptionValues
    BY DEF OptionValues
<1>8. Carries(r2, new)
    <2> SUFFICES ASSUME NEW p \in DOMAIN Options
                 PROVE  new[p] \in DOMAIN Options[p] /\ WordOf(r2, p) \cap Area[p] = Options[p][new[p]]
        BY Zenon DEF Carries
    <2>1. values[p] \in DOMAIN Options[p] /\ WordOf(r, p) \cap Area[p] = Options[p][values[p]]
        BY <1>2, Zenon DEF Carries
    <2>2. CASE p = o
        <3>1. new[p] = n
            BY <2>2 DEF OptionValues
        <3>2. CASE o \in InL
            <4>1. WordOf(r2, p) = Put(s.L, o, n)
                BY <1>5, <1>6, <2>2, <3>2 DEF WordOf
            <4>2. WordOf(r2, p) \cap Area[o] = Options[o][n]
                BY <4>1, <1>P, Zenon
            <4> QED
                BY <2>2, <3>1, <4>2, Zenon
        <3>3. CASE ~(o \in InL)
            <4> DEFINE w == Put(s.H, o, n)
            <4>1. WordOf(r2, p) = Low(w, 24)
                BY <1>5, <1>6, <2>2, <3>3 DEF WordOf
            <4>2. w \cap Area[o] = Options[o][n]
                BY <1>P, Zenon
            <4>3. Low(w, 24) \cap Area[o] = w \cap Area[o]
                BY <3>3, LowKeepsOptions, Zenon
            <4> QED
                BY <2>2, <3>1, <4>1, <4>2, <4>3, Zenon
        <3> QED
            BY <3>2, <3>3
    <2>3. CASE p # o
        <3>1. new[p] = values[p]
            BY <2>3
        <3>2. WordOf(r2, p) \cap Area[p] = WordOf(r, p) \cap Area[p]
            <4>1. CASE p \in InL /\ o \in InL
                <5>1. WordOf(r2, p) = Put(WordOf(r, p), o, n)
                    BY <1>1, <1>5, <1>6, <4>1 DEF WordOf
                <5> QED
                    BY <2>3, <4>1, <5>1, <1>P, Zenon
            <4>2. CASE p \in InL /\ ~(o \in InL)
                BY <1>1, <1>5, <1>6, <4>2 DEF WordOf
            <4>3. CASE ~(p \in InL) /\ o \in InL
                BY <1>1, <1>5, <1>6, <4>3 DEF WordOf
            <4>4. CASE ~(p \in InL) /\ ~(o \in InL)
                <5> DEFINE w == Put(s.H, o, n)
                <5>1. WordOf(r2, p) = Low(w, 24) /\ WordOf(r, p) = Low(s.H, 24)
                    BY <1>1, <1>5, <1>6, <4>4 DEF WordOf
                <5>2. w \cap Area[p] = s.H \cap Area[p]
                    BY <2>3, <4>4, <1>P, Zenon
                <5>3. Low(w, 24) \cap Area[p] = w \cap Area[p] /\ Low(s.H, 24) \cap Area[p] = s.H \cap Area[p]
                    BY <4>4, LowKeepsOptions, Zenon
                <5> QED
                    BY <5>1, <5>2, <5>3, Zenon
            <4> QED
                BY <4>1, <4>2, <4>3, <4>4
        <3> QED
            BY <2>1, <3>1, <3>2, Zenon
    <2> QED
        BY <2>2, <2>3
<1>9. \A b \in 3 .. 31 : b \in r2.L <=> b \in r.L
    <2>1. CASE o \in InL
        <3>1. r2.L = Put(r.L, o, n)
            BY <1>1, <1>5, <1>6, <2>1
        <3> QED
            BY <2>1, <3>1, <1>P, Zenon
    <2>2. CASE ~(o \in InL)
        BY <1>1, <1>5, <1>6, <2>2
    <2> QED
        BY <2>1, <2>2
<1> HIDE DEF new
<1>10. HasMode(r2.L, pair)
    BY <1>3, <1>9, Zenon DEF HasMode
<1>11. LookIn(r2.L) = LookIn(r.L)
    BY <1>9, SameLook, Zenon
<1>12. Consistent(r2, s2, FALSE)
    BY <1>3, <1>4, <1>5, <1>6, <1>7, <1>8, <1>10, Zenon DEF Consistent
<1>13. OptionsNow(r) = values /\ OptionsNow(r2) = new
    BY <1>2, <1>7, <1>8, CarriedIsRead, Zenon
<1> QED
    BY <1>6, <1>11, <1>12, <1>13, Zenon DEF new, Chosen, Optioned

-----------------------------------------------------------------------------
(* A call of each kind, on words that carry what was asked.                *)

\* The first three bits of the low word, which no mode has.
LEMMA FirstBits ==
    ASSUME NEW pair \in AllPairs
    PROVE  /\ pair \in Pairs(DOMAIN RenderMode)
           /\ Surface(pair).dithers \in BOOLEAN
           /\ 0 \in PairWord(pair) <=> Surface(pair).dithers
           /\ 1 \in PairWord(pair) <=> Surface(pair).dithers
           /\ ~(2 \in PairWord(pair))
<1> DEFINE m == RenderMode[pair[2]]
<1>1. pair \in Pairs(DOMAIN RenderMode)
    <2>1. RenderModes \subseteq DOMAIN RenderMode
        BY ModesAssumption, Zenon
    <2>2. "NOOP" \in DOMAIN RenderMode
        BY RenderModesAreGood, Zenon
    <2> QED
        BY <2>1, <2>2 DEF AllPairs, Pairs
<1>2. /\ Good(m)
      /\ Surface(pair).dithers <=> 0 \in m.flags
      /\ Surface(pair).dithers \in BOOLEAN
      /\ \A b \in 0 .. 15 : b \in PairWord(pair) <=> b \in m.flags
    BY <1>1, PairIs, Zenon
<1>3. (0 \in m.flags <=> 1 \in m.flags) /\ m.flags \subseteq (0 .. 15) \ {2}
    BY <1>2, Zenon DEF Good
<1> HIDE DEF m
<1>4. 0 \in 0 .. 15 /\ 1 \in 0 .. 15 /\ 2 \in 0 .. 15 /\ ~(2 \in (0 .. 15) \ {2})
    OBVIOUS
<1> QED
    BY <1>1, <1>2, <1>3, <1>4, Zenon

\* Only the options of the low word are in its first three bits.
LEMMA LowOptions ==
    /\ "ALPHACOMPARE" \in DOMAIN Options /\ "ZSRCSEL" \in DOMAIN Options
    /\ Area["ALPHACOMPARE"] = 0 .. 1 /\ Area["ZSRCSEL"] = 2 .. 2
    /\ "DITHER" \in DOMAIN Options["ALPHACOMPARE"]
    /\ Options["ALPHACOMPARE"]["DITHER"] = {0, 1}
<1>1. /\ "ALPHACOMPARE" \in DOMAIN Options /\ "ZSRCSEL" \in DOMAIN Options
      /\ Options["ALPHACOMPARE"] = G_AC
    BY DEF Options
<1>2. Area["ALPHACOMPARE"] = 0 .. 1 /\ Area["ZSRCSEL"] = 2 .. 2
    BY DEF Area
<1>3. "DITHER" \in DOMAIN G_AC /\ G_AC["DITHER"] = {0, 1}
    BY G_AC_Words
<1> QED
    BY <1>1, <1>2, <1>3

\* A render mode laid over what the first bits of the low word carry.
LEMMA Overlaid ==
    ASSUME NEW values \in OptionValues, \A o \in DOMAIN Options : values[o] \in DOMAIN Options[o],
           NEW L, \A o \in InL : L \cap Area[o] = Options[o][values[o]],
           NEW pair \in AllPairs, NEW M,
           \A b \in 0 .. 2 : b \in M <=> b \in L \/ b \in PairWord(pair),
           HasMode(M, pair)
    PROVE  LET after == State!After(values, Surface(pair))
           IN  /\ after \in OptionValues
               /\ \A o \in DOMAIN Options : after[o] \in DOMAIN Options[o]
               /\ \A o \in DOMAIN Options \ InL : after[o] = values[o]
               /\ \A o \in InL : M \cap Area[o] = Options[o][after[o]]
               /\ LookIn(M) = Surface(pair).look
<1> DEFINE S == Surface(pair)
           after == State!After(values, S)
<1>1. /\ pair \in Pairs(DOMAIN RenderMode)
      /\ S.dithers \in BOOLEAN
      /\ 0 \in PairWord(pair) <=> S.dithers
      /\ 1 \in PairWord(pair) <=> S.dithers
      /\ ~(2 \in PairWord(pair))
    BY FirstBits, Zenon
<1>2. LookIn(M) = S.look
    <2>1. \A b \in 3 .. 31 : b \in M <=> b \in PairWord(pair)
        BY Zenon DEF HasMode
    <2> QED
        BY <1>1, <2>1, LookIs, Zenon
<1>3. after = [values EXCEPT !["ALPHACOMPARE"] = IF S.dithers THEN "DITHER" ELSE @]
    BY Zenon DEF State!After
<1> HIDE DEF S, after
<1>4. DOMAIN values = DOMAIN Options
    BY DEF OptionValues
<1>5. /\ after["ALPHACOMPARE"] = IF S.dithers THEN "DITHER" ELSE values["ALPHACOMPARE"]
      /\ \A o \in DOMAIN Options : o # "ALPHACOMPARE" => after[o] = values[o]
    BY <1>3, <1>4, LowOptions
<1>6. \A o \in DOMAIN Options : after[o] \in DOMAIN Options[o]
    BY <1>5, LowOptions
<1>7. after \in OptionValues
    <2>1. after = [o \in DOMAIN Options |-> after[o]]
        BY <1>3, <1>4
    <2> QED
        BY <1>6, <2>1 DEF OptionValues
<1>8. \A o \in DOMAIN Options \ InL : after[o] = values[o]
    BY <1>5 DEF InL
<1>9. M \cap Area["ZSRCSEL"] = Options["ZSRCSEL"][after["ZSRCSEL"]]
    <2>1. L \cap Area["ZSRCSEL"] = Options["ZSRCSEL"][values["ZSRCSEL"]]
        BY Zenon DEF InL
    <2>2. "ZSRCSEL" # "ALPHACOMPARE"
        OBVIOUS
    <2>3. after["ZSRCSEL"] = values["ZSRCSEL"]
        BY <1>5, <2>2, LowOptions, Zenon
    <2>4. M \cap (2 .. 2) = L \cap (2 .. 2)
        BY <1>1
    <2> QED
        BY <2>1, <2>3, <2>4, LowOptions, Zenon
<1>10. M \cap Area["ALPHACOMPARE"] = Options["ALPHACOMPARE"][after["ALPHACOMPARE"]]
    <2>1. L \cap Area["ALPHACOMPARE"] = Options["ALPHACOMPARE"][values["ALPHACOMPARE"]]
        BY Zenon DEF InL
    <2>2. CASE S.dithers
        <3>1. M \cap (0 .. 1) = {0, 1}
            BY <1>1, <2>2
        <3>2. after["ALPHACOMPARE"] = "DITHER"
            BY <1>5, <2>2, Zenon
        <3> QED
            BY <3>1, <3>2, LowOptions, Zenon
    <2>3. CASE ~S.dithers
        <3>1. M \cap (0 .. 1) = L \cap (0 .. 1)
            BY <1>1, <2>3
        <3>2. after["ALPHACOMPARE"] = values["ALPHACOMPARE"]
            BY <1>5, <2>3, Zenon
        <3> QED
            BY <2>1, <3>1, <3>2, LowOptions, Zenon
    <2> QED
        BY <2>2, <2>3, Zenon
<1>11. \A o \in InL : M \cap Area[o] = Options[o][after[o]]
    BY <1>9, <1>10 DEF InL
<1> QED
    BY <1>2, <1>6, <1>7, <1>8, <1>11, Zenon DEF S, after

\* gDPSetRenderMode.
Dressed(s, pair) == [s EXCEPT !.L = (@ \ (3 .. 31)) \cup PairWord(pair)]

Surfaced(r, r2, values, pair) ==
    /\ OptionsNow(r2) = State!After(values, Surface(pair))
    /\ LookIn(r2.L) = Surface(pair).look /\ r2.C = r.C

\* It keeps the words consistent, and changes the surface and what it dithers.
LEMMA OneSurface ==
    ASSUME NEW r, NEW s, Consistent(r, s, FALSE), NEW pair \in AllPairs, NEW r2, NEW s2,
           s2 = Dressed(s, pair), r2 = Follows(r, s2)
    PROVE  /\ Consistent(r2, s2, FALSE)
           /\ Surfaced(r, r2, OptionsNow(r), pair)
<1>1. /\ r = [H |-> r.H, L |-> r.L, C |-> r.C]
      /\ s = [H |-> s.H, L |-> s.L]
      /\ r.L = s.L /\ r.H = Low(s.H, 24)
    BY Zenon DEF Consistent
<1>2. PICK values \in OptionValues : Carries(r, values)
    BY Zenon DEF Consistent
<1>3. PICK sources \in AllSources : r.C = gDPSetCombineMode(sources[1], sources[2])
    BY Zenon DEF Consistent
<1>4. s2.H = s.H /\ s2.L = (r.L \ (3 .. 31)) \cup PairWord(pair) /\ s2 = [H |-> s2.H, L |-> s2.L]
    BY <1>1 DEF Dressed
<1>5. /\ r2.H = r.H /\ r2.L = s2.L /\ r2.C = r.C /\ r2.H = Low(s2.H, 24)
      /\ r2 = [H |-> r2.H, L |-> r2.L, C |-> r2.C]
    BY <1>1, <1>4 DEF Follows
<1>6. /\ \A b \in 0 .. 2 : b \in r2.L <=> b \in r.L \/ b \in PairWord(pair)
      /\ \A b \in 3 .. 31 : b \in r2.L <=> b \in PairWord(pair)
    BY <1>4, <1>5
<1>7. HasMode(r2.L, pair)
    BY <1>6, Zenon DEF HasMode
<1> DEFINE after == State!After(values, Surface(pair))
<1>8. \A o \in DOMAIN Options : /\ values[o] \in DOMAIN Options[o]
                                /\ WordOf(r, o) \cap Area[o] = Options[o][values[o]]
    BY <1>2, Zenon DEF Carries
<1>9. \A o \in InL : r.L \cap Area[o] = Options[o][values[o]]
    BY <1>8, OptionsAre DEF WordOf
<1>10. /\ after \in OptionValues
       /\ \A o \in DOMAIN Options : after[o] \in DOMAIN Options[o]
       /\ \A o \in DOMAIN Options \ InL : after[o] = values[o]
       /\ \A o \in InL : r2.L \cap Area[o] = Options[o][after[o]]
       /\ LookIn(r2.L) = Surface(pair).look
    BY <1>6, <1>7, <1>8, <1>9, Overlaid
<1> HIDE DEF after
<1>11. Carries(r2, after)
    <2> SUFFICES ASSUME NEW o \in DOMAIN Options
                 PROVE  WordOf(r2, o) \cap Area[o] = Options[o][after[o]]
        BY <1>10, Zenon DEF Carries
    <2>1. CASE o \in InL
        BY <1>10, <2>1, Zenon DEF WordOf
    <2>2. CASE ~(o \in InL)
        <3>1. WordOf(r2, o) = r.H /\ WordOf(r, o) = r.H
            BY <1>5, <2>2, Zenon DEF WordOf
        <3> QED
            BY <1>8, <1>10, <2>2, <3>1
    <2> QED
        BY <2>1, <2>2
<1>12. Consistent(r2, s2, FALSE)
    BY <1>3, <1>4, <1>5, <1>7, <1>10, <1>11, Zenon DEF Consistent
<1>13. OptionsNow(r) = values /\ OptionsNow(r2) = after
    BY <1>2, <1>10, <1>11, CarriedIsRead, Zenon
<1> QED
    BY <1>5, <1>10, <1>12, <1>13, Zenon DEF after, Surfaced

\* What an expert's words carry.
LEMMA ModesCarry ==
    ASSUME NEW values, \A o \in DOMAIN Options : values[o] \in DOMAIN Options[o]
    PROVE  /\ \A o \in InL : ModeB(values) \cap Area[o] = Options[o][values[o]]
           /\ \A o \in DOMAIN Options \ InL : ModeA(values) \cap Area[o] = Options[o][values[o]]
           /\ ModeB(values) \subseteq 0 .. 2
           /\ ModeA(values) \subseteq 4 .. 23
<1>1. \A o \in DOMAIN Options : Options[o][values[o]] \subseteq Area[o]
    BY OptionsAre, Zenon DEF Fits
<1>2. /\ InL \subseteq DOMAIN Options
      /\ \A o \in InL : Area[o] \subseteq 0 .. 2
      /\ \A o \in DOMAIN Options \ InL : Area[o] \subseteq 4 .. 23
    BY OptionsAre, Zenon
<1> DEFINE V(o) == Options[o][values[o]]
<1>3. /\ ModeB(values) = UNION {V(o) : o \in InL}
      /\ ModeA(values) = UNION {V(o) : o \in DOMAIN Options \ InL}
    BY Zenon DEF ModeA, ModeB
<1>4. \A o \in DOMAIN Options : V(o) \subseteq Area[o]
    BY <1>1
<1> HIDE DEF V
<1>5. ASSUME NEW o \in DOMAIN Options, NEW group, group \subseteq DOMAIN Options, o \in group,
             \A p \in group : p \in InL <=> o \in InL
      PROVE  (UNION {V(p) : p \in group}) \cap Area[o] = V(o)
    <2>1. \A p \in group : p # o => Area[p] \cap Area[o] = {}
        BY <1>5, AreasApart
    <2>2. \A b \in Area[o] : \A p \in group : b \in V(p) => p = o
        BY <1>4, <1>5, <2>1
    <2> QED
        BY <1>4, <1>5, <2>2
<1>6. \A o \in InL : ModeB(values) \cap Area[o] = V(o)
    BY <1>2, <1>3, <1>5
<1>7. \A o \in DOMAIN Options \ InL : ModeA(values) \cap Area[o] = V(o)
    <2> SUFFICES ASSUME NEW o \in DOMAIN Options \ InL
                 PROVE  ModeA(values) \cap Area[o] = V(o)
        OBVIOUS
    <2> DEFINE group == DOMAIN Options \ InL
    <2>1. group \subseteq DOMAIN Options /\ o \in group /\ \A p \in group : p \in InL <=> o \in InL
        OBVIOUS
    <2>2. (UNION {V(p) : p \in group}) \cap Area[o] = V(o)
        BY <1>5, <2>1, Zenon
    <2> QED
        BY <1>3, <2>2, Zenon
<1>8. ModeB(values) \subseteq 0 .. 2 /\ ModeA(values) \subseteq 4 .. 23
    BY <1>2, <1>3, <1>4
<1> QED
    BY <1>6, <1>7, <1>8, Zenon DEF V

\* gDPSetOtherMode.
LEMMA AllOptions ==
    ASSUME NEW r, NEW s, NEW e, Consistent(r, s, e), NEW pair \in AllPairs,
           NEW values \in OptionValues, \A o \in DOMAIN Options : values[o] \in DOMAIN Options[o],
           NEW r2, NEW h, h \cap (0 .. 23) = ModeA(values),
           r2 = [r EXCEPT !.H = Low(h, 24), !.L = ModeB(values) \cup PairWord(pair)]
    PROVE  /\ Consistent(r2, s, TRUE)
           /\ Surfaced(r, r2, values, pair)
<1>1. r = [H |-> r.H, L |-> r.L, C |-> r.C] /\ s = [H |-> s.H, L |-> s.L]
    BY Zenon DEF Consistent
<1>2. PICK sources \in AllSources : r.C = gDPSetCombineMode(sources[1], sources[2])
    BY Zenon DEF Consistent
<1>3. /\ r2.H = ModeA(values) /\ r2.L = ModeB(values) \cup PairWord(pair) /\ r2.C = r.C
      /\ r2 = [H |-> r2.H, L |-> r2.L, C |-> r2.C]
    <2>1. Low(h, 24) = h \cap (0 .. 23)
        BY DEF Low
    <2>2. Low(h, 24) = ModeA(values)
        BY <2>1, Zenon
    <2> QED
        BY <1>1, <2>2
<1>4. /\ \A o \in InL : ModeB(values) \cap Area[o] = Options[o][values[o]]
      /\ \A o \in DOMAIN Options \ InL : ModeA(values) \cap Area[o] = Options[o][values[o]]
      /\ ModeB(values) \subseteq 0 .. 2
    BY ModesCarry, Zenon
<1>5. /\ \A b \in 0 .. 2 : b \in r2.L <=> b \in ModeB(values) \/ b \in PairWord(pair)
      /\ \A b \in 3 .. 31 : b \in r2.L <=> b \in PairWord(pair)
    BY <1>3, <1>4
<1>6. HasMode(r2.L, pair)
    BY <1>5, Zenon DEF HasMode
<1> DEFINE after == State!After(values, Surface(pair))
<1>7. /\ after \in OptionValues
      /\ \A o \in DOMAIN Options : after[o] \in DOMAIN Options[o]
      /\ \A o \in DOMAIN Options \ InL : after[o] = values[o]
      /\ \A o \in InL : r2.L \cap Area[o] = Options[o][after[o]]
      /\ LookIn(r2.L) = Surface(pair).look
    BY <1>4, <1>5, <1>6, Overlaid
<1> HIDE DEF after
<1>8. Carries(r2, after)
    <2> SUFFICES ASSUME NEW o \in DOMAIN Options
                 PROVE  WordOf(r2, o) \cap Area[o] = Options[o][after[o]]
        BY <1>7, Zenon DEF Carries
    <2>1. CASE o \in InL
        BY <1>7, <2>1, Zenon DEF WordOf
    <2>2. CASE ~(o \in InL)
        BY <1>3, <1>4, <1>7, <2>2, Zenon DEF WordOf
    <2> QED
        BY <2>1, <2>2
<1>9. Consistent(r2, s, TRUE)
    BY <1>1, <1>2, <1>3, <1>6, <1>7, <1>8, Zenon DEF Consistent
<1>10. OptionsNow(r2) = after
    BY <1>7, <1>8, CarriedIsRead, Zenon
<1> QED
    BY <1>3, <1>7, <1>9, <1>10, Zenon DEF after, Surfaced

\* gDPSetCombineMode.
LEMMA CombineIs ==
    ASSUME NEW pair \in AllSources
    PROVE  LET C == gDPSetCombineMode(pair[1], pair[2])
           IN  /\ Opcode(C) = RDP.COMBINE
               /\ <<SourcesIn(C, 1), SourcesIn(C, 2)>> = pair
<1> DEFINE C == gDPSetCombineMode(pair[1], pair[2])
<1>1. \A a, b \in DOMAIN G_CC : pair = <<G_CC[a], G_CC[b]>> => Preset(pair[1]) /\ Preset(pair[2])
    BY PresetsAre
<1>2. \E a, b \in DOMAIN G_CC : pair = <<G_CC[a], G_CC[b]>>
    <2>1. Presets \subseteq DOMAIN G_CC
        BY ModesAssumption, Zenon
    <2>2. "SHADE" \in DOMAIN G_CC /\ DOMAIN G_CC_Cycle1 \subseteq DOMAIN G_CC /\ DOMAIN G_CC_Cycle2 \subseteq DOMAIN G_CC
        BY PresetsAre, Zenon
    <2> QED
        BY <2>1, <2>2 DEF AllSources, Equations
<1>3. Preset(pair[1]) /\ Preset(pair[2]) /\ pair = <<pair[1], pair[2]>>
    BY <1>1, <1>2
<1>4. Opcode(C) = RDP.COMBINE /\ SourcesIn(C, 1) = pair[1] /\ SourcesIn(C, 2) = pair[2]
    BY <1>3, SourcesAre, Zenon
<1> HIDE DEF C
<1>5. <<SourcesIn(C, 1), SourcesIn(C, 2)>> = pair
    BY <1>3, <1>4
<1> QED
    BY <1>4, <1>5, Zenon DEF C

\* The flags that a word sets.
GeometryIn(word) == {n \in GeometryFlags : G_Geometry[n] \subseteq word}
FlagBit == [ZBUFFER |-> 0, SHADE |-> 2, CULL_FRONT |-> 9, CULL_BACK |-> 10,
            FOG |-> 16, LIGHTING |-> 17, TEXTURE_GEN |-> 18,
            TEXTURE_GEN_LINEAR |-> 19, SHADING_SMOOTH |-> 21, CLIPPING |-> 23]

\* Each flag of the geometry mode is one bit, its own.
LEMMA FlagBits ==
    /\ \A n \in GeometryFlags : G_Geometry[n] = {FlagBit[n]} /\ FlagBit[n] \in 0 .. 23
    /\ \A m, n \in GeometryFlags : FlagBit[m] = FlagBit[n] => m = n
<1>1. GeometryFlags \subseteq DOMAIN G_Geometry
    BY ModesAssumption, Zenon
<1>2. \A n \in DOMAIN G_Geometry : G_Geometry[n] = {FlagBit[n]} /\ FlagBit[n] \in 0 .. 23
    BY DEF G_Geometry, FlagBit
<1>3. \A m, n \in DOMAIN G_Geometry : FlagBit[m] = FlagBit[n] => m = n
    BY DEF G_Geometry, FlagBit
<1> QED
    BY <1>1, <1>2, <1>3

\* A word of flags sets those flags.
LEMMA FlagsWordIs ==
    ASSUME NEW names, names \subseteq GeometryFlags
    PROVE  /\ \A n \in GeometryFlags : FlagBit[n] \in FlagsWord(names) <=> n \in names
           /\ FlagsWord(names) \subseteq 0 .. 23
BY FlagBits DEF FlagsWord

\* gSPGeometryMode clears and then sets.
LEMMA GeometryPacket ==
    ASSUME NEW c, NEW s
    PROVE  LET gfx == gSPGeometryMode(c, s)
           IN  /\ Opcode(gfx) = G.GEOMETRYMODE
               /\ gfx.w1 = s
               /\ \A b \in 0 .. 23 : b \in Low(gfx.w0, 24) <=> ~(b \in c)
<1> DEFINE gfx == gSPGeometryMode(c, s)
           kept == Low(Width \ c, 24)
<1>1. gfx = [w0 |-> Cmd(G.GEOMETRYMODE) \cup kept, w1 |-> s]
    BY Zenon DEF gSPGeometryMode, Gfx
<1>2. \A b : b \in kept <=> b \in 0 .. 23 /\ ~(b \in c)
    BY DEF Low, Width
<1>3. \A b \in Cmd(G.GEOMETRYMODE) : b \in 24 .. 31
    <2>1. 24 \in Nat /\ 8 \in Nat /\ 24 + 8 - 1 = 31
        OBVIOUS
    <2> QED
        BY <2>1, ShiftedBit, Zenon DEF Cmd
<1> HIDE DEF gfx, kept
<1>4. gfx.w0 = Cmd(G.GEOMETRYMODE) \cup kept /\ gfx.w1 = s
    BY <1>1
<1>5. \A b \in 24 .. 31 : b \in gfx.w0 <=> b \in Cmd(G.GEOMETRYMODE)
    BY <1>2, <1>4
<1>6. G.GEOMETRYMODE \in 0 .. 255
    BY DEF G
<1>7. Opcode(gfx) = G.GEOMETRYMODE
    BY <1>5, <1>6, OpcodeIs, Zenon
<1>8. \A b \in 0 .. 23 : b \in Low(gfx.w0, 24) <=> ~(b \in c)
    BY <1>2, <1>3, <1>4 DEF Low
<1> QED
    BY <1>4, <1>7, <1>8, Zenon DEF gfx

ModeAfter(m, c, set) ==
    (m \cap Low(gSPGeometryMode(c, FlagsWord(set)).w0, 24)) \cup FlagsWord(set)
Flagged(m, m2, cleared, set) == GeometryIn(m2) = (GeometryIn(m) \ cleared) \cup set

\* Flags are cleared, and then flags are set.
LEMMA GeometryIs ==
    ASSUME NEW cleared, cleared \subseteq GeometryFlags, NEW set, set \subseteq GeometryFlags,
           NEW c, \A n \in GeometryFlags : FlagBit[n] \in c <=> n \in cleared,
           NEW m
    PROVE  Flagged(m, ModeAfter(m, c, set), cleared, set)
<1> DEFINE low == Low(gSPGeometryMode(c, FlagsWord(set)).w0, 24)
           m2 == ModeAfter(m, c, set)
<1>1. \A b \in 0 .. 23 : b \in low <=> ~(b \in c)
    BY GeometryPacket, Zenon
<1> HIDE DEF low
<1>2. \A n \in GeometryFlags : FlagBit[n] \in FlagsWord(set) <=> n \in set
    BY FlagsWordIs, Zenon
<1>3. \A n \in GeometryFlags : FlagBit[n] \in low <=> ~(n \in cleared)
    BY <1>1, FlagBits, Zenon
<1>4. m2 = (m \cap low) \cup FlagsWord(set)
    BY Zenon DEF low, ModeAfter
<1> HIDE DEF m2
<1>5. \A n \in GeometryFlags : FlagBit[n] \in m2 <=> (FlagBit[n] \in m /\ ~(n \in cleared)) \/ n \in set
    BY <1>2, <1>3, <1>4
<1>6. \A word : \A n \in GeometryFlags : n \in GeometryIn(word) <=> FlagBit[n] \in word
    BY FlagBits DEF GeometryIn
<1>7. GeometryIn(m2) \subseteq GeometryFlags /\ GeometryIn(m) \subseteq GeometryFlags
    BY DEF GeometryIn
<1> QED
    BY <1>5, <1>6, <1>7 DEF Flagged, m2

\* What the RSP or the RDP does with a packet.
LEMMA Opcodes ==
    /\ G.SETOTHERMODE_H = 227 /\ G.SETOTHERMODE_L = 226 /\ RDP.OTHERMODE = 239
    /\ RDP.COMBINE = 252 /\ G.GEOMETRYMODE = 217
BY DEF G, RDP

\* Each packet changes the words it is for, and no other.
LEMMA Executed ==
    ASSUME NEW gfx, Execute(gfx)
    PROVE  /\ Opcode(gfx) = G.SETOTHERMODE_H =>
                /\ shadow' = [shadow EXCEPT !.H = Replaced(@, gfx)]
                /\ rdp' = [rdp EXCEPT !.H = Low(shadow'.H, 24), !.L = shadow'.L]
                /\ mode' = mode
           /\ Opcode(gfx) = G.SETOTHERMODE_L =>
                /\ shadow' = [shadow EXCEPT !.L = Replaced(@, gfx)]
                /\ rdp' = [rdp EXCEPT !.H = Low(shadow'.H, 24), !.L = shadow'.L]
                /\ mode' = mode
           /\ Opcode(gfx) = RDP.OTHERMODE =>
                /\ rdp' = [rdp EXCEPT !.H = Low(gfx.w0, 24), !.L = gfx.w1]
                /\ shadow' = shadow /\ mode' = mode
           /\ Opcode(gfx) = RDP.COMBINE =>
                rdp' = [rdp EXCEPT !.C = gfx] /\ shadow' = shadow /\ mode' = mode
           /\ Opcode(gfx) = G.GEOMETRYMODE =>
                /\ mode' = (mode \cap Low(gfx.w0, 24)) \cup gfx.w1
                /\ shadow' = shadow /\ rdp' = rdp
<1> DEFINE H == G.SETOTHERMODE_H
           L == G.SETOTHERMODE_L
           O == RDP.OTHERMODE
           C == RDP.COMBINE
           M == G.GEOMETRYMODE
<1>1. H # L /\ H # O /\ H # C /\ H # M /\ L # O /\ L # C /\ L # M /\ O # C /\ O # M /\ C # M
    BY Opcodes
<1>2. \/ /\ Opcode(gfx) = H
         /\ shadow' = [shadow EXCEPT !.H = Replaced(@, gfx)]
         /\ rdp' = [rdp EXCEPT !.H = Low(shadow'.H, 24), !.L = shadow'.L]
         /\ mode' = mode
      \/ /\ Opcode(gfx) = L
         /\ shadow' = [shadow EXCEPT !.L = Replaced(@, gfx)]
         /\ rdp' = [rdp EXCEPT !.H = Low(shadow'.H, 24), !.L = shadow'.L]
         /\ mode' = mode
      \/ /\ Opcode(gfx) = O
         /\ rdp' = [rdp EXCEPT !.H = Low(gfx.w0, 24), !.L = gfx.w1]
         /\ shadow' = shadow /\ mode' = mode
      \/ /\ Opcode(gfx) = C
         /\ rdp' = [rdp EXCEPT !.C = gfx]
         /\ shadow' = shadow /\ mode' = mode
      \/ /\ Opcode(gfx) = M
         /\ mode' = (mode \cap Low(gfx.w0, 24)) \cup gfx.w1
         /\ shadow' = shadow /\ rdp' = rdp
    BY DEF Execute
<1> HIDE DEF H, L, O, C, M
<1> QED
    BY <1>1, <1>2, Zenon DEF H, L, O, C, M

-----------------------------------------------------------------------------
(* A call changes one setting and leaves the others.                       *)

\* What the words and the mode show; a call changes one part of it.
Now(r, m) ==
    [option |-> OptionsNow(r), surface |-> LookIn(r.L),
     combine |-> <<SourcesIn(r.C, 1), SourcesIn(r.C, 2)>>, geometry |-> GeometryIn(m)]

Does(call, now, after) ==
    \/ \E o \in DOMAIN Options : \E n \in DOMAIN Options[o] :
         /\ call = <<o, n>>
         /\ after = [option |-> [now.option EXCEPT ![o] = n], surface |-> now.surface,
                     combine |-> now.combine, geometry |-> now.geometry]
    \/ \E s \in AllSurfaces :
         /\ call = <<"surface", s>>
         /\ after = [option |-> State!After(now.option, s), surface |-> s.look,
                     combine |-> now.combine, geometry |-> now.geometry]
    \/ \E values \in AllAtOnce, s \in AllSurfaces :
         /\ call = <<"all", values, s>>
         /\ after = [option |-> State!After(values, s), surface |-> s.look,
                     combine |-> now.combine, geometry |-> now.geometry]
    \/ \E pair \in AllSources :
         /\ call = <<"combine", pair>>
         /\ after = [option |-> now.option, surface |-> now.surface,
                     combine |-> pair, geometry |-> now.geometry]
    \/ \E cleared, set \in SUBSET GeometryFlags :
         /\ call = <<"geometry", cleared, set>>
         /\ after = [option |-> now.option, surface |-> now.surface,
                     combine |-> now.combine, geometry |-> (now.geometry \ cleared) \cup set]

\* Now, in parts.
LEMMA NowIs ==
    ASSUME NEW r, NEW m
    PROVE  /\ Now(r, m).option = OptionsNow(r)
           /\ Now(r, m).surface = LookIn(r.L)
           /\ Now(r, m).combine = <<SourcesIn(r.C, 1), SourcesIn(r.C, 2)>>
           /\ Now(r, m).geometry = GeometryIn(m)
BY DEF Now

\* What does not change, shows no change.
LEMMA SameNow ==
    ASSUME NEW r, NEW m, NEW r2, NEW m2, OptionsNow(r2) = OptionsNow(r),
           LookIn(r2.L) = LookIn(r.L), r2.C = r.C, GeometryIn(m2) = GeometryIn(m)
    PROVE  Now(r2, m2) = Now(r, m)
BY Zenon DEF Now

\* The same call again changes nothing.
LEMMA Again ==
    ASSUME NEW call, NEW now, NEW after, NEW later,
           Does(call, now, after), Does(call, after, later)
    PROVE  later = after
<1> DEFINE Kinds == {"surface", "all", "combine", "geometry"}
<1>1. \A o \in DOMAIN Options : ~(o \in Kinds)
    BY DEF Options
<1>2. \A a, b : <<a, b>>[1] = a /\ <<a, b>>[2] = b
    OBVIOUS
<1>3. \A a, b, c : <<a, b, c>>[1] = a /\ <<a, b, c>>[2] = b /\ <<a, b, c>>[3] = c
    OBVIOUS
<1>4. /\ "surface" # "all" /\ "surface" # "combine" /\ "surface" # "geometry"
      /\ "all" # "combine" /\ "all" # "geometry" /\ "combine" # "geometry"
      /\ "surface" \in Kinds /\ "all" \in Kinds /\ "combine" \in Kinds /\ "geometry" \in Kinds
    OBVIOUS
<1> HIDE DEF Kinds
<1>5. CASE call[1] \in DOMAIN Options
    <2>1. PICK o, n :
            /\ call = <<o, n>>
            /\ after = [option |-> [now.option EXCEPT ![o] = n], surface |-> now.surface,
                        combine |-> now.combine, geometry |-> now.geometry]
        BY <1>1, <1>2, <1>3, <1>4, <1>5 DEF Does
    <2>2. PICK p, k :
            /\ call = <<p, k>>
            /\ later = [option |-> [after.option EXCEPT ![p] = k], surface |-> after.surface,
                        combine |-> after.combine, geometry |-> after.geometry]
        BY <1>1, <1>2, <1>3, <1>4, <1>5 DEF Does
    <2>3. p = o /\ k = n
        BY <1>2, <2>1, <2>2
    <2> QED
        BY <2>1, <2>2, <2>3
<1>6. CASE call[1] = "surface"
    <2>1. PICK s : /\ call = <<"surface", s>>
                   /\ after = [option |-> State!After(now.option, s), surface |-> s.look,
                               combine |-> now.combine, geometry |-> now.geometry]
        BY <1>1, <1>2, <1>3, <1>4, <1>6 DEF Does
    <2>2. PICK t : /\ call = <<"surface", t>>
                   /\ later = [option |-> State!After(after.option, t), surface |-> t.look,
                               combine |-> after.combine, geometry |-> after.geometry]
        BY <1>1, <1>2, <1>3, <1>4, <1>6 DEF Does
    <2>3. t = s
        BY <1>2, <2>1, <2>2
    <2>4. /\ after.option = State!After(now.option, s) /\ after.combine = now.combine
          /\ after.geometry = now.geometry
        BY <2>1
    <2>5. later = [option |-> State!After(State!After(now.option, s), s), surface |-> s.look,
                   combine |-> now.combine, geometry |-> now.geometry]
        BY <2>2, <2>3, <2>4, Zenon
    <2>6. State!After(State!After(now.option, s), s) = State!After(now.option, s)
        BY DEF State!After
    <2> QED
        BY <2>1, <2>5, <2>6, Zenon
<1>7. CASE call[1] = "all"
    <2>1. PICK values, s :
            /\ call = <<"all", values, s>>
            /\ after = [option |-> State!After(values, s), surface |-> s.look,
                        combine |-> now.combine, geometry |-> now.geometry]
        BY <1>1, <1>2, <1>3, <1>4, <1>7 DEF Does
    <2>2. PICK v, t :
            /\ call = <<"all", v, t>>
            /\ later = [option |-> State!After(v, t), surface |-> t.look,
                        combine |-> after.combine, geometry |-> after.geometry]
        BY <1>1, <1>2, <1>3, <1>4, <1>7 DEF Does
    <2>3. v = values /\ t = s
        BY <1>3, <2>1, <2>2
    <2>4. after.combine = now.combine /\ after.geometry = now.geometry
        BY <2>1
    <2> QED
        BY <2>1, <2>2, <2>3, <2>4, Zenon
<1>8. CASE call[1] = "combine"
    <2>1. PICK pair :
            /\ call = <<"combine", pair>>
            /\ after = [option |-> now.option, surface |-> now.surface,
                        combine |-> pair, geometry |-> now.geometry]
        BY <1>1, <1>2, <1>3, <1>4, <1>8 DEF Does
    <2>2. PICK q :
            /\ call = <<"combine", q>>
            /\ later = [option |-> after.option, surface |-> after.surface,
                        combine |-> q, geometry |-> after.geometry]
        BY <1>1, <1>2, <1>3, <1>4, <1>8 DEF Does
    <2>3. q = pair
        BY <1>2, <2>1, <2>2
    <2> QED
        BY <2>1, <2>2, <2>3
<1>9. CASE call[1] = "geometry"
    <2>1. PICK cleared, set :
            /\ call = <<"geometry", cleared, set>>
            /\ after = [option |-> now.option, surface |-> now.surface,
                        combine |-> now.combine, geometry |-> (now.geometry \ cleared) \cup set]
        BY <1>1, <1>2, <1>3, <1>4, <1>9 DEF Does
    <2>2. PICK c, s :
            /\ call = <<"geometry", c, s>>
            /\ later = [option |-> after.option, surface |-> after.surface,
                        combine |-> after.combine, geometry |-> (after.geometry \ c) \cup s]
        BY <1>1, <1>2, <1>3, <1>4, <1>9 DEF Does
    <2>3. c = cleared /\ s = set
        BY <1>3, <2>1, <2>2
    <2>4. /\ after.option = now.option /\ after.surface = now.surface
          /\ after.combine = now.combine
          /\ after.geometry = (now.geometry \ cleared) \cup set
        BY <2>1
    <2>5. (after.geometry \ cleared) \cup set = (now.geometry \ cleared) \cup set
        BY <2>4
    <2> QED
        BY <2>1, <2>2, <2>3, <2>4, <2>5, Zenon
<1>10. call[1] \in DOMAIN Options \/ call[1] = "surface" \/ call[1] = "all"
         \/ call[1] = "combine" \/ call[1] = "geometry"
    BY <1>2, <1>3 DEF Does
<1> QED
    BY <1>5, <1>6, <1>7, <1>8, <1>9, <1>10, Zenon

\* Every surface of a list is one that RenderState allows.
LEMMA SurfacesAre == \A pair \in AllPairs : Surface(pair) \in AllSurfaces
BY Zenon DEF AllSurfaces, AllPairs

\* A call of SetOption changes one option.
LEMMA OptionStep ==
    ASSUME Consistent(rdp, shadow, expert), SetOption
    PROVE  /\ Does(asked', Now(rdp, mode), Now(rdp', mode'))
           /\ Consistent(rdp', shadow', expert')
<1>1. ~expert
    BY Zenon DEF SetOption
<1>2. PICK o \in DOMAIN Options : \E n \in DOMAIN Options[o], sft \in 0 .. 31, len \in 1 .. 32 :
          /\ sft + len <= 32 /\ Area[o] = sft .. sft + len - 1
          /\ Send(<<o, n>>, gSPSetOtherMode(Sets(o), sft, len, Options[o][n]))
    BY OptionAsked, Zenon
<1>3. PICK n \in DOMAIN Options[o], sft \in 0 .. 31, len \in 1 .. 32 :
          /\ sft + len <= 32 /\ Area[o] = sft .. sft + len - 1
          /\ Send(<<o, n>>, gSPSetOtherMode(Sets(o), sft, len, Options[o][n]))
    BY <1>2, Zenon
<1> DEFINE gfx == gSPSetOtherMode(Sets(o), sft, len, Options[o][n])
<1>4. asked' = <<o, n>> /\ Execute(gfx) /\ expert' = expert
    BY <1>3, Zenon DEF Send
<1>5. Sets(o) \in 0 .. 255
    BY Opcodes DEF Sets
<1>6. Opcode(gfx) = Sets(o) /\ \A word : Replaced(word, gfx) = Over(word, sft, len, Options[o][n])
    <2>1. Replaces(gfx, Sets(o), sft, len, Options[o][n])
        BY <1>3, <1>5, Replacing, Zenon
    <2> QED
        BY <2>1, Zenon DEF Replaces
<1>7. \A word : Replaced(word, gfx) = Put(word, o, n)
    BY <1>3, <1>6, Zenon DEF Put, Over
<1> HIDE DEF gfx
<1>8. /\ shadow' = Altered(shadow, o, n)
      /\ rdp' = Follows(rdp, shadow')
      /\ mode' = mode
    <2>1. CASE o \in InL
        <3>1. Opcode(gfx) = G.SETOTHERMODE_L
            BY <1>6, <2>1, Zenon DEF Sets
        <3>2. /\ shadow' = [shadow EXCEPT !.L = Replaced(@, gfx)]
              /\ rdp' = [rdp EXCEPT !.H = Low(shadow'.H, 24), !.L = shadow'.L]
              /\ mode' = mode
            BY <1>4, <3>1, Executed
        <3> QED
            BY <1>7, <2>1, <3>2 DEF Altered, Follows
    <2>2. CASE ~(o \in InL)
        <3>1. Opcode(gfx) = G.SETOTHERMODE_H
            BY <1>6, <2>2, Zenon DEF Sets
        <3>2. /\ shadow' = [shadow EXCEPT !.H = Replaced(@, gfx)]
              /\ rdp' = [rdp EXCEPT !.H = Low(shadow'.H, 24), !.L = shadow'.L]
              /\ mode' = mode
            BY <1>4, <3>1, Executed
        <3> QED
            BY <1>7, <2>2, <3>2 DEF Altered, Follows
    <2> QED
        BY <2>1, <2>2
<1>9. Consistent(rdp, shadow, FALSE)
    BY <1>1, Zenon DEF Consistent
<1>10. /\ Consistent(rdp', shadow', FALSE)
       /\ OptionsNow(rdp') = Chosen(OptionsNow(rdp), o, n)
       /\ LookIn((rdp').L) = LookIn(rdp.L)
       /\ (rdp').C = rdp.C
    <2>1. Consistent(rdp', shadow', FALSE) /\ Optioned(rdp, rdp', o, n)
        BY <1>8, <1>9, OneOption, Zenon
    <2> QED
        BY <2>1, Zenon DEF Optioned
<1>11. Consistent(rdp', shadow', expert')
    BY <1>10, Zenon DEF Consistent
<1>12. Now(rdp', mode') = [option |-> [Now(rdp, mode).option EXCEPT ![o] = n],
                           surface |-> Now(rdp, mode).surface,
                           combine |-> Now(rdp, mode).combine,
                           geometry |-> Now(rdp, mode).geometry]
    BY <1>8, <1>10, NowIs, Zenon DEF Now, Chosen
<1> QED
    BY <1>4, <1>11, <1>12, Zenon DEF Does

\* A call of SetSurface changes the surface, and ALPHACOMPARE where it dithers.
LEMMA SurfaceStep ==
    ASSUME Consistent(rdp, shadow, expert), holds \in Lists, SetSurface
    PROVE  /\ Does(asked', Now(rdp, mode), Now(rdp', mode'))
           /\ Consistent(rdp', shadow', expert')
<1>1. ~expert
    BY Zenon DEF SetSurface
<1>2. PICK pair \in Pairs(holds.modes) :
          Send(<<"surface", Surface(pair)>>, gDPSetRenderMode(C0(pair), C1(pair)))
    BY Zenon DEF SetSurface
<1>3. pair \in AllPairs
    <2>1. holds.modes \subseteq RenderModes
        BY ModesAssumption
    <2> QED
        BY <2>1 DEF AllPairs, Pairs
<1> DEFINE gfx == gDPSetRenderMode(C0(pair), C1(pair))
<1>4. asked' = <<"surface", Surface(pair)>> /\ Execute(gfx) /\ expert' = expert
    BY <1>2, Zenon DEF Send
<1>5. gfx = gSPSetOtherMode(G.SETOTHERMODE_L, 3, 29, PairWord(pair))
    <2>1. G_MDSFT["RENDERMODE"] = 3
        BY DEF G_MDSFT
    <2> QED
        BY <2>1, Zenon DEF gDPSetRenderMode, SetL, PairWord
<1>6. /\ Opcode(gfx) = G.SETOTHERMODE_L
      /\ \A word : Replaced(word, gfx) = (word \ (3 .. 31)) \cup PairWord(pair)
    <2>1. /\ G.SETOTHERMODE_L \in 0 .. 255 /\ 3 \in 0 .. 31 /\ 29 \in 1 .. 32 /\ 3 + 29 <= 32
          /\ 3 + 29 - 1 = 31
        BY Opcodes
    <2>2. /\ Opcode(gfx) = G.SETOTHERMODE_L
          /\ \A word : Replaced(word, gfx) = Over(word, 3, 29, PairWord(pair))
        <3>1. Replaces(gfx, G.SETOTHERMODE_L, 3, 29, PairWord(pair))
            BY <1>5, <2>1, Replacing, Zenon
        <3> QED
            BY <3>1, Zenon DEF Replaces
    <2> QED
        BY <2>1, <2>2, Zenon DEF Over
<1> HIDE DEF gfx
<1>7. /\ shadow' = [shadow EXCEPT !.L = Replaced(@, gfx)]
      /\ rdp' = [rdp EXCEPT !.H = Low(shadow'.H, 24), !.L = shadow'.L]
      /\ mode' = mode
    BY <1>4, <1>6, Executed
<1>8. shadow' = Dressed(shadow, pair) /\ rdp' = Follows(rdp, shadow')
    BY <1>6, <1>7 DEF Dressed, Follows
<1>9. Consistent(rdp, shadow, FALSE)
    BY <1>1, Zenon DEF Consistent
<1>10. /\ Consistent(rdp', shadow', FALSE)
       /\ OptionsNow(rdp') = State!After(OptionsNow(rdp), Surface(pair))
       /\ LookIn((rdp').L) = Surface(pair).look
       /\ (rdp').C = rdp.C
    <2>1. Consistent(rdp', shadow', FALSE) /\ Surfaced(rdp, rdp', OptionsNow(rdp), pair)
        BY <1>3, <1>8, <1>9, OneSurface, Zenon
    <2> QED
        BY <2>1, Zenon DEF Surfaced
<1>11. Consistent(rdp', shadow', expert')
    BY <1>10, Zenon DEF Consistent
<1>12. Now(rdp', mode') = [option |-> State!After(Now(rdp, mode).option, Surface(pair)),
                           surface |-> Surface(pair).look,
                           combine |-> Now(rdp, mode).combine,
                           geometry |-> Now(rdp, mode).geometry]
    BY <1>7, <1>10, NowIs, Zenon DEF Now
<1>13. Surface(pair) \in AllSurfaces
    BY <1>3, SurfacesAre, Zenon
<1> QED
    BY <1>4, <1>11, <1>12, <1>13, Zenon DEF Does

\* A call of SetCombine changes the sources of both cycles.
LEMMA CombineStep ==
    ASSUME Consistent(rdp, shadow, expert), holds \in Lists, SetCombine
    PROVE  /\ Does(asked', Now(rdp, mode), Now(rdp', mode'))
           /\ Consistent(rdp', shadow', expert')
<1>1. PICK pair \in Equations(holds.presets) :
          Send(<<"combine", pair>>, gDPSetCombineMode(pair[1], pair[2]))
    BY Zenon DEF SetCombine
<1>2. pair \in AllSources
    <2>1. holds.presets \subseteq Presets
        BY ModesAssumption
    <2> QED
        BY <2>1 DEF AllSources, Equations
<1> DEFINE gfx == gDPSetCombineMode(pair[1], pair[2])
<1>3. asked' = <<"combine", pair>> /\ Execute(gfx) /\ expert' = expert
    BY <1>1, Zenon DEF Send
<1>4. Opcode(gfx) = RDP.COMBINE /\ <<SourcesIn(gfx, 1), SourcesIn(gfx, 2)>> = pair
    BY <1>2, CombineIs, Zenon
<1> HIDE DEF gfx
<1>5. rdp' = [rdp EXCEPT !.C = gfx] /\ shadow' = shadow /\ mode' = mode
    BY <1>3, <1>4, Executed
<1>6. rdp = [H |-> rdp.H, L |-> rdp.L, C |-> rdp.C]
    BY Zenon DEF Consistent
<1>7. /\ (rdp').H = rdp.H /\ (rdp').L = rdp.L /\ (rdp').C = gfx
      /\ rdp' = [H |-> (rdp').H, L |-> (rdp').L, C |-> (rdp').C]
    BY <1>5, <1>6
<1>8. \A o : WordOf(rdp', o) = WordOf(rdp, o)
    BY <1>7, Zenon DEF WordOf
<1>9. OptionsNow(rdp') = OptionsNow(rdp)
    BY <1>8, Zenon DEF OptionsNow
<1>10. Consistent(rdp', shadow', expert')
    <2>1. \E values \in OptionValues : Carries(rdp', values)
        <3>1. PICK values \in OptionValues : Carries(rdp, values)
            BY Zenon DEF Consistent
        <3>2. Carries(rdp', values)
            BY <1>8, <3>1, Zenon DEF Carries
        <3> QED
            BY <3>2, Zenon
    <2>2. /\ shadow = [H |-> shadow.H, L |-> shadow.L]
          /\ \E p \in AllPairs : HasMode((rdp').L, p)
          /\ ~expert => (rdp').L = shadow.L /\ (rdp').H = Low(shadow.H, 24)
        BY <1>7, Zenon DEF Consistent
    <2>3. \E p \in AllSources : (rdp').C = gDPSetCombineMode(p[1], p[2])
        BY <1>2, <1>7, Zenon DEF gfx
    <2> QED
        BY <1>3, <1>5, <1>7, <2>1, <2>2, <2>3, Zenon DEF Consistent
<1>11. Now(rdp', mode') = [option |-> Now(rdp, mode).option,
                           surface |-> Now(rdp, mode).surface,
                           combine |-> pair,
                           geometry |-> Now(rdp, mode).geometry]
    BY <1>4, <1>5, <1>7, <1>9, NowIs, Zenon DEF Now
<1> QED
    BY <1>2, <1>3, <1>10, <1>11, Zenon DEF Does

\* An expert's settings are values of the options.
LEMMA SettingsAreValid ==
    ASSUME NEW values \in AllAtOnce
    PROVE  values \in OptionValues /\ \A o \in DOMAIN Options : values[o] \in DOMAIN Options[o]
<1>1. \A o \in DOMAIN Options : Plainest[o] \in DOMAIN Options[o]
    <2>1. \A o \in DOMAIN Options : \E n \in DOMAIN Options[o] : Options[o][n] = {}
        BY OptionsAre, Zenon DEF Fits
    <2> QED
        BY <2>1 DEF Plainest
<1>2. Plainest = [o \in DOMAIN Options |-> Plainest[o]]
    BY DEF Plainest
<1>3. \/ values = Plainest
      \/ \E o \in DOMAIN Options : \E n \in DOMAIN Options[o] : values = [Plainest EXCEPT ![o] = n]
    BY NamesAre DEF AllAtOnce
<1> HIDE DEF Plainest
<1>4. /\ values = [o \in DOMAIN Options |-> values[o]]
      /\ \A o \in DOMAIN Options : values[o] \in DOMAIN Options[o]
    BY <1>1, <1>2, <1>3
<1>5. values \in OptionValues
    BY <1>4 DEF OptionValues
<1> QED
    BY <1>4, <1>5, Zenon

\* A call of SetAll changes every option and the surface.
LEMMA ExpertStep ==
    ASSUME Consistent(rdp, shadow, expert), holds \in Lists, SetAll
    PROVE  /\ Does(asked', Now(rdp, mode), Now(rdp', mode'))
           /\ Consistent(rdp', shadow', expert')
<1>1. expert
    BY Zenon DEF SetAll
<1>2. PICK values \in AllAtOnce, name \in holds.modes :
          Send(<<"all", values, Surface(<<name, name>>)>>,
               gDPSetOtherMode(ModeA(values), ModeB(values) \cup C0(<<name, name>>) \cup C1(<<name, name>>)))
    BY Zenon DEF SetAll
<1> DEFINE pair == <<name, name>>
<1>3. pair \in AllPairs
    <2>1. holds.modes \subseteq RenderModes
        BY ModesAssumption
    <2> QED
        BY <2>1 DEF AllPairs, Pairs
<1> DEFINE low == ModeB(values) \cup C0(pair) \cup C1(pair)
           gfx == gDPSetOtherMode(ModeA(values), low)
<1>4. /\ asked' = <<"all", values, Surface(pair)>> /\ Execute(gfx) /\ expert' = expert
    BY <1>2, Zenon DEF Send
<1>5. values \in OptionValues /\ \A o \in DOMAIN Options : values[o] \in DOMAIN Options[o]
    BY SettingsAreValid, Zenon
<1>6. low = ModeB(values) \cup PairWord(pair)
    BY Zenon DEF PairWord
<1> HIDE DEF pair, low
<1>7. gfx = [w0 |-> Cmd(RDP.OTHERMODE) \cup Low(ModeA(values), 24), w1 |-> low]
    BY Zenon DEF gDPSetOtherMode, Gfx
<1> HIDE DEF gfx
<1>8. gfx.w0 = Cmd(RDP.OTHERMODE) \cup Low(ModeA(values), 24) /\ gfx.w1 = low
    BY <1>7
<1>9. \A b \in Cmd(RDP.OTHERMODE) : b \in 24 .. 31
    <2>1. 24 \in Nat /\ 8 \in Nat /\ 24 + 8 - 1 = 31
        OBVIOUS
    <2> QED
        BY <2>1, ShiftedBit, Zenon DEF Cmd
<1>10. Opcode(gfx) = RDP.OTHERMODE
    <2>1. \A b \in 24 .. 31 : b \in gfx.w0 <=> b \in Cmd(RDP.OTHERMODE)
        BY <1>8 DEF Low
    <2>2. RDP.OTHERMODE \in 0 .. 255
        BY Opcodes
    <2> QED
        BY <2>1, <2>2, OpcodeIs, Zenon
<1>11. gfx.w0 \cap (0 .. 23) = ModeA(values)
    <2>1. ModeA(values) \subseteq 4 .. 23
        BY <1>5, ModesCarry, Zenon
    <2>2. \A b \in Low(ModeA(values), 24) : b \in 0 .. 23 /\ b \in ModeA(values)
        BY DEF Low
    <2>3. \A b \in ModeA(values) : b \in Low(ModeA(values), 24)
        BY <2>1 DEF Low
    <2> QED
        BY <1>8, <1>9, <2>2, <2>3
<1>12. rdp' = [rdp EXCEPT !.H = Low(gfx.w0, 24), !.L = gfx.w1] /\ shadow' = shadow /\ mode' = mode
    BY <1>4, <1>10, Executed
<1>13. Consistent(rdp', shadow, TRUE) /\ Surfaced(rdp, rdp', values, pair)
    <2> DEFINE h == gfx.w0
               r2 == rdp'
    <2>1. r2 = [rdp EXCEPT !.H = Low(h, 24), !.L = ModeB(values) \cup PairWord(pair)]
        BY <1>6, <1>8, <1>12
    <2>2. h \cap (0 .. 23) = ModeA(values)
        BY <1>11
    <2> HIDE DEF h, r2
    <2>3. Consistent(r2, shadow, TRUE) /\ Surfaced(rdp, r2, values, pair)
        BY <1>3, <1>5, <2>1, <2>2, AllOptions
    <2> QED
        BY <2>3, Zenon DEF r2
<1>14. Consistent(rdp', shadow', expert')
    BY <1>1, <1>4, <1>12, <1>13, Zenon DEF Consistent
<1>15. Now(rdp', mode') = [option |-> State!After(values, Surface(pair)),
                           surface |-> Surface(pair).look,
                           combine |-> Now(rdp, mode).combine,
                           geometry |-> Now(rdp, mode).geometry]
    BY <1>12, <1>13, NowIs, Zenon DEF Now, Surfaced
<1>16. Surface(pair) \in AllSurfaces
    BY <1>3, SurfacesAre, Zenon
<1> QED
    BY <1>4, <1>14, <1>15, <1>16, Zenon DEF Does

\* A call of SetGeometry changes the flags it names.
LEMMA GeometryStep ==
    ASSUME Consistent(rdp, shadow, expert), SetGeometry
    PROVE  /\ Does(asked', Now(rdp, mode), Now(rdp', mode'))
           /\ Consistent(rdp', shadow', expert')
<1> DEFINE Cleared_(c, word) == \A n \in GeometryFlags : FlagBit[n] \in word <=> n \in c
<1>1. \E cleared, set \in SUBSET GeometryFlags : \E word :
          /\ Cleared_(cleared, word)
          /\ Send(<<"geometry", cleared, set>>, gSPGeometryMode(word, FlagsWord(set)))
    <2>1. PICK s \in SUBSET GeometryFlags :
             \/ Send(<<"geometry", {}, s>>, gSPSetGeometryMode(FlagsWord(s)))
             \/ Send(<<"geometry", s, {}>>, gSPClearGeometryMode(FlagsWord(s)))
             \/ Send(<<"geometry", GeometryFlags, s>>, gSPLoadGeometryMode(FlagsWord(s)))
             \/ \E c \in SUBSET GeometryFlags :
                  Send(<<"geometry", c, s>>, gSPGeometryMode(FlagsWord(c), FlagsWord(s)))
        BY Zenon DEF SetGeometry
    <2>2. \A c \in SUBSET GeometryFlags : Cleared_(c, FlagsWord(c))
        BY FlagsWordIs
    <2>3. Cleared_({}, {}) /\ {} \in SUBSET GeometryFlags
        OBVIOUS
    <2>4. Cleared_(GeometryFlags, Width) /\ GeometryFlags \in SUBSET GeometryFlags
        BY FlagBits DEF Width
    <2>5. FlagsWord({}) = {}
        BY DEF FlagsWord
    <2> HIDE DEF Cleared_
    <2>6. CASE Send(<<"geometry", {}, s>>, gSPSetGeometryMode(FlagsWord(s)))
        BY <2>3, <2>6, Zenon DEF gSPSetGeometryMode
    <2>7. CASE Send(<<"geometry", s, {}>>, gSPClearGeometryMode(FlagsWord(s)))
        <3>1. Send(<<"geometry", s, {}>>, gSPGeometryMode(FlagsWord(s), FlagsWord({})))
            BY <2>5, <2>7, Zenon DEF gSPClearGeometryMode
        <3> QED
            BY <2>2, <2>3, <3>1, Zenon
    <2>8. CASE Send(<<"geometry", GeometryFlags, s>>, gSPLoadGeometryMode(FlagsWord(s)))
        BY <2>4, <2>8, Zenon DEF gSPLoadGeometryMode
    <2>9. CASE \E c \in SUBSET GeometryFlags :
                  Send(<<"geometry", c, s>>, gSPGeometryMode(FlagsWord(c), FlagsWord(s)))
        BY <2>2, <2>9, Zenon
    <2> QED
        BY <2>1, <2>6, <2>7, <2>8, <2>9, Zenon
<1>2. PICK cleared, set, word :
          /\ cleared \in SUBSET GeometryFlags /\ set \in SUBSET GeometryFlags
          /\ Cleared_(cleared, word)
          /\ Send(<<"geometry", cleared, set>>, gSPGeometryMode(word, FlagsWord(set)))
    BY <1>1, Zenon
<1> DEFINE gfx == gSPGeometryMode(word, FlagsWord(set))
<1>3. asked' = <<"geometry", cleared, set>> /\ Execute(gfx) /\ expert' = expert
    BY <1>2, Zenon DEF Send
<1>4. Opcode(gfx) = G.GEOMETRYMODE /\ gfx.w1 = FlagsWord(set)
    BY GeometryPacket, Zenon
<1>5. mode' = (mode \cap Low(gfx.w0, 24)) \cup FlagsWord(set) /\ shadow' = shadow /\ rdp' = rdp
    <2>1. mode' = (mode \cap Low(gfx.w0, 24)) \cup gfx.w1 /\ shadow' = shadow /\ rdp' = rdp
        <3> HIDE DEF gfx
        <3> QED
            BY <1>3, <1>4, Executed
    <2> QED
        BY <1>4, <2>1, Zenon
<1>6. GeometryIn(mode') = (GeometryIn(mode) \ cleared) \cup set
    <2>1. mode' = ModeAfter(mode, word, set)
        BY <1>5, Zenon DEF ModeAfter
    <2>2. cleared \subseteq GeometryFlags /\ set \subseteq GeometryFlags
        BY <1>2
    <2>3. Flagged(mode, ModeAfter(mode, word, set), cleared, set)
        BY <1>2, <2>2, GeometryIs, Zenon
    <2> QED
        BY <2>1, <2>3, Zenon DEF Flagged
<1> HIDE DEF gfx
<1>7. Now(rdp', mode') = [option |-> Now(rdp, mode).option,
                          surface |-> Now(rdp, mode).surface,
                          combine |-> Now(rdp, mode).combine,
                          geometry |-> (Now(rdp, mode).geometry \ cleared) \cup set]
    BY <1>5, <1>6, NowIs, Zenon DEF Now
<1>8. Consistent(rdp', shadow', expert')
    BY <1>3, <1>5, Zenon
<1> QED
    BY <1>2, <1>3, <1>7, <1>8, Zenon DEF Does

-----------------------------------------------------------------------------
(* The inductive invariant.                                                *)

\* The number of a word.
LEMMA NumberIsNat ==
    ASSUME NEW word, word \subseteq 0 .. 31
    PROVE  Number(word) \in Nat
<1>1. Number(word) = Value(word)
    BY Zenon DEF Number, Value, MapThenSumSet, MapThenFoldSet
<1>2. CASE word = {}
    <2>1. 0 \in Nat
        OBVIOUS
    <2> QED
        BY <1>1, <1>2, <2>1, ValueOfNone, Zenon
<1>3. CASE \E b : b \in word
    <2>1. word \in SUBSET (0 .. 31) /\ 31 \in Nat
        OBVIOUS
    <2> QED
        BY <1>1, <1>3, <2>1, ValueAdds, Zenon
<1> QED
    BY <1>2, <1>3

\* The value of an option with the largest code.
Highest(o) ==
    CHOOSE n \in Names[o] : \A m \in Names[o] : Number(Options[o][m]) <= Number(Options[o][n])

\* There is one, for any option has few values.
LEMMA HighestIs == \A o \in DOMAIN Options : Highest(o) \in DOMAIN Options[o]
<1> SUFFICES ASSUME NEW o \in DOMAIN Options PROVE Highest(o) \in DOMAIN Options[o]
    OBVIOUS
<1> DEFINE D == DOMAIN Options[o]
           N(n) == Number(Options[o][n])
<1>1. \A n \in D : N(n) \in Nat
    <2> SUFFICES ASSUME NEW n \in D PROVE N(n) \in Nat
        OBVIOUS
    <2>1. Options[o][n] \subseteq Area[o]
        BY OptionsAre, Zenon DEF Fits
    <2>2. Area[o] \subseteq 0 .. 31
        BY OptionsAre
    <2>3. Options[o][n] \subseteq 0 .. 31
        BY <2>1, <2>2, Zenon
    <2> QED
        BY <2>3, NumberIsNat, Zenon
<1>2. PICK a, b, c, d : D = {a, b, c, d}
    BY OptionsAre, Zenon DEF Few
<1> HIDE DEF D, N
<1>3. \E n \in D : \A m \in D : N(m) <= N(n)
    <2>1. \A x, y, z, w \in Nat : \/ y <= x /\ z <= x /\ w <= x
                                  \/ x <= y /\ z <= y /\ w <= y
                                  \/ x <= z /\ y <= z /\ w <= z
                                  \/ x <= w /\ y <= w /\ z <= w
        OBVIOUS
    <2>2. \A x \in Nat : x <= x
        OBVIOUS
    <2>3. a \in D /\ b \in D /\ c \in D /\ d \in D /\ \A m \in D : m = a \/ m = b \/ m = c \/ m = d
        BY <1>2
    <2>4. \/ N(b) <= N(a) /\ N(c) <= N(a) /\ N(d) <= N(a)
          \/ N(a) <= N(b) /\ N(c) <= N(b) /\ N(d) <= N(b)
          \/ N(a) <= N(c) /\ N(b) <= N(c) /\ N(d) <= N(c)
          \/ N(a) <= N(d) /\ N(b) <= N(d) /\ N(c) <= N(d)
        BY <1>1, <2>1, <2>3, Zenon
    <2>5. ASSUME NEW x \in D, \A m \in {a, b, c, d} : N(m) <= N(x)
          PROVE  \E n \in D : \A m \in D : N(m) <= N(n)
        BY <1>2, <2>5
    <2>6. /\ N(a) <= N(a) /\ N(b) <= N(b) /\ N(c) <= N(c) /\ N(d) <= N(d)
        BY <1>1, <2>2, <2>3, Zenon
    <2> QED
        BY <2>3, <2>4, <2>5, <2>6
<1>4. Highest(o) = CHOOSE n \in D : \A m \in D : N(m) <= N(n)
    BY NamesAre, Zenon DEF Highest, D, N
<1>5. Highest(o) \in D
    BY <1>3, <1>4
<1> QED
    BY <1>5 DEF D

\* The state before the first list.
LEMMA InitIsConsistent ==
    ASSUME Init
    PROVE  Consistent(rdp, shadow, expert)
<1> DEFINE Top == [o \in DOMAIN Options |-> Highest(o)]
           noop == <<"NOOP", "NOOP">>
<1>1. shadow = Start \/ shadow = [Start EXCEPT !.H = ModeA(Top)]
    <2>1. Top = [o \in DOMAIN Options |->
               CHOOSE n \in Names[o] : \A m \in Names[o] :
                 Number(Options[o][m]) <= Number(Options[o][n])]
        BY Zenon DEF Highest
    <2> HIDE DEF Top
    <2> QED
        BY <2>1 DEF Init
<1>2. Start = [H |-> {}, L |-> PairWord(noop)]
    BY Zenon DEF Start, PairWord
<1>3. \A o \in DOMAIN Options : \E n \in DOMAIN Options[o] : Options[o][n] = {}
    BY OptionsAre, Zenon DEF Fits
<1>4. \A o \in DOMAIN Options : Plainest[o] \in DOMAIN Options[o] /\ Options[o][Plainest[o]] = {}
    BY <1>3 DEF Plainest
<1>5. ModeA(Plainest) = {}
    <2>1. DOMAIN Options \ InL \subseteq DOMAIN Options
        OBVIOUS
    <2> QED
        BY <1>4, <2>1 DEF ModeA
<1>6. noop \in AllPairs
    BY Zenon DEF AllPairs
<1> HIDE DEF noop
<1>7. ASSUME NEW high, \A o \in DOMAIN Options : high[o] \in DOMAIN Options[o],
             shadow = [H |-> ModeA(high), L |-> PairWord(noop)]
      PROVE  Consistent(rdp, shadow, expert)
    <2> DEFINE values == [o \in DOMAIN Options |-> IF o \in InL THEN Plainest[o] ELSE high[o]]
               word == PairWord(noop)
               none == {}
    <2>1. \A o \in DOMAIN Options : values[o] \in DOMAIN Options[o]
        BY <1>4, <1>7
    <2>2. values \in OptionValues
        BY <2>1 DEF OptionValues
    <2>3. \A o \in InL : none \cap Area[o] = Options[o][values[o]]
        BY <1>4, OptionsAre
    <2>4. \A o \in DOMAIN Options \ InL : ModeA(high) \cap Area[o] = Options[o][values[o]]
        <3>1. \A o \in DOMAIN Options \ InL : ModeA(high) \cap Area[o] = Options[o][high[o]]
            BY <1>7, ModesCarry, Zenon
        <3>2. \A o \in DOMAIN Options \ InL : values[o] = high[o]
            OBVIOUS
        <3> HIDE DEF values
        <3> QED
            BY <3>1, <3>2, Zenon
    <2> HIDE DEF values
    <2>5. HasMode(word, noop) /\ \A b \in 0 .. 2 : b \in word <=> b \in none \/ b \in PairWord(noop)
        BY DEF HasMode
    <2> HIDE DEF none, word
    <2> DEFINE after == State!After(values, Surface(noop))
    <2>6. /\ after \in OptionValues
          /\ \A o \in DOMAIN Options : after[o] \in DOMAIN Options[o]
          /\ \A o \in DOMAIN Options \ InL : after[o] = values[o]
          /\ \A o \in InL : word \cap Area[o] = Options[o][after[o]]
        BY <1>6, <2>1, <2>2, <2>3, <2>5, Overlaid
    <2> HIDE DEF after
    <2>7. /\ shadow.H = ModeA(high) /\ shadow.L = word /\ shadow = [H |-> shadow.H, L |-> shadow.L]
        BY <1>7 DEF word
    <2>8. /\ rdp.H = shadow.H /\ rdp.L = shadow.L
          /\ rdp.C = gDPSetCombineMode(G_CC.SHADE, G_CC.SHADE)
          /\ rdp = [H |-> rdp.H, L |-> rdp.L, C |-> rdp.C]
        BY DEF Init
    <2>9. Low(shadow.H, 24) = shadow.H
        <3>1. ModeA(high) \subseteq 4 .. 23
            BY <1>7, ModesCarry, Zenon
        <3> QED
            BY <2>7, <3>1 DEF Low
    <2>10. Carries(rdp, after)
        <3> SUFFICES ASSUME NEW o \in DOMAIN Options
                     PROVE  WordOf(rdp, o) \cap Area[o] = Options[o][after[o]]
            BY <2>6, Zenon DEF Carries
        <3>1. CASE o \in InL
            BY <2>6, <2>7, <2>8, <3>1, Zenon DEF WordOf
        <3>2. CASE ~(o \in InL)
            <4>1. WordOf(rdp, o) = ModeA(high)
                BY <2>7, <2>8, <3>2, Zenon DEF WordOf
            <4> QED
                BY <2>4, <2>6, <3>2, <4>1
        <3> QED
            BY <3>1, <3>2
    <2>11. \E pair \in AllSources : rdp.C = gDPSetCombineMode(pair[1], pair[2])
        <3> DEFINE shade == <<G_CC.SHADE, G_CC.SHADE>>
        <3>1. shade[1] = G_CC.SHADE /\ shade[2] = G_CC.SHADE
            OBVIOUS
        <3>2. shade \in AllSources
            BY Zenon DEF AllSources
        <3> HIDE DEF shade
        <3> QED
            BY <2>8, <3>1, <3>2, Zenon
    <2>12. \E pair \in AllPairs : HasMode(rdp.L, pair)
        BY <1>6, <2>5, <2>7, <2>8, Zenon
    <2> QED
        BY <2>6, <2>7, <2>8, <2>9, <2>10, <2>11, <2>12, Zenon DEF Consistent
<1>8. CASE shadow = Start
    <2>1. shadow = [H |-> ModeA(Plainest), L |-> PairWord(noop)]
        BY <1>2, <1>5, <1>8, Zenon DEF noop
    <2> QED
        BY <1>4, <1>7, <2>1, Zenon
<1>9. CASE shadow = [Start EXCEPT !.H = ModeA(Top)]
    <2>1. \A o \in DOMAIN Options : Top[o] \in DOMAIN Options[o]
        BY HighestIs
    <2> HIDE DEF Top
    <2>2. shadow = [H |-> ModeA(Top), L |-> PairWord(noop)]
        BY <1>2, <1>9
    <2> QED
        BY <1>7, <2>1, <2>2, Zenon
<1> QED
    BY <1>1, <1>8, <1>9, Zenon

\* The inductive invariant of the modes: the words are consistent, and what they
\* show is what the last call left.
ModesInv ==
    /\ holds \in Lists
    /\ Consistent(rdp, shadow, expert)
    /\ asked = <<>> \/ \E before : Does(asked, before, Now(rdp, mode))

\* A call keeps the words consistent, and does to Now what it asked.
LEMMA StepDoes ==
    ASSUME ModesInv, Next
    PROVE  Does(asked', Now(rdp, mode), Now(rdp', mode')) /\ ModesInv'
<1>1. holds \in Lists /\ Consistent(rdp, shadow, expert)
    BY Zenon DEF ModesInv
<1>2. Does(asked', Now(rdp, mode), Now(rdp', mode')) /\ Consistent(rdp', shadow', expert')
    BY <1>1, OptionStep, SurfaceStep, ExpertStep, CombineStep, GeometryStep, Zenon DEF Next
<1>3. holds' = holds
    <2>1. ASSUME NEW call, NEW gfx, Send(call, gfx) PROVE holds' = holds
        BY <2>1, Zenon DEF Send
    <2>2. \E call, gfx : Send(call, gfx)
        <3>1. CASE SetOption
            BY <3>1, OptionAsked, Zenon
        <3>2. CASE SetSurface
            BY <3>2, Zenon DEF SetSurface
        <3>3. CASE SetAll
            BY <3>3, Zenon DEF SetAll
        <3>4. CASE SetCombine
            BY <3>4, Zenon DEF SetCombine
        <3>5. CASE SetGeometry
            BY <3>5, Zenon DEF SetGeometry
        <3> QED
            BY <3>1, <3>2, <3>3, <3>4, <3>5, Zenon DEF Next
    <2> QED
        BY <2>1, <2>2, Zenon
<1> QED
    BY <1>1, <1>2, <1>3, Zenon DEF ModesInv

\* The first state has the invariant.
LEMMA InitModesInv == AllInit => Init /\ ModesInv
<1> SUFFICES ASSUME AllInit PROVE Init /\ ModesInv
    OBVIOUS
<1>1. Init
    BY Zenon DEF AllInit
<1>2. asked = <<>> /\ holds \in Lists
    BY <1>1, Zenon DEF Init
<1> QED
    BY <1>1, <1>2, InitIsConsistent, Zenon DEF ModesInv

\* Steps on other parts of the list leave the modes alone.
LEMMA AllNextModes ==
    ASSUME [AllNext]_allVars
    PROVE  Next \/ UNCHANGED <<asked, shadow, rdp, mode, holds, expert, sent>>
BY Zenon DEF AllNext, allVars, vars, WritePackets, LoadTextures, SetModes, SetScene

\* Every step keeps the invariant.
LEMMA NextModesInv == ModesInv /\ [AllNext]_allVars => ModesInv'
<1> SUFFICES ASSUME ModesInv, [AllNext]_allVars PROVE ModesInv'
    OBVIOUS
<1>1. CASE Next
    BY <1>1, StepDoes, Zenon
<1>2. CASE UNCHANGED <<asked, shadow, rdp, mode, holds, expert, sent>>
    BY <1>2, Zenon DEF ModesInv
<1> QED
    BY <1>1, <1>2, AllNextModes, Zenon

\* The invariant of the rendering modes.
LEMMA AllModesInv == AllSpec => []ModesInv
BY InitModesInv, NextModesInv, PTL DEF AllSpec

-----------------------------------------------------------------------------
\* The variables of RenderState are read from Now.
LEMMA Shown ==
    /\ [o \in DOMAIN Options |-> OptionOf(o)] = OptionsNow(rdp)
    /\ Look = LookIn(rdp.L)
    /\ <<SourcesOf(1), SourcesOf(2)>> = <<SourcesIn(rdp.C, 1), SourcesIn(rdp.C, 2)>>
    /\ {n \in GeometryFlags : G_Geometry[n] \subseteq mode} = GeometryIn(mode)
<1>1. \A o : OptionOf(o) = Reading(WordOf(rdp, o), o)
    BY Zenon DEF OptionOf, Reading, WordOf
<1>2. [o \in DOMAIN Options |-> OptionOf(o)] = OptionsNow(rdp)
    BY <1>1, Zenon DEF OptionsNow
<1>3. Look = LookIn(rdp.L)
    BY Zenon DEF Look, LookIn, Inputs
<1>4. \A cycle : SourcesOf(cycle) = SourcesIn(rdp.C, cycle)
    BY Zenon DEF SourcesOf, SourcesIn, CodeIn
<1>5. {n \in GeometryFlags : G_Geometry[n] \subseteq mode} = GeometryIn(mode)
    BY Zenon DEF GeometryIn
<1> QED
    BY <1>2, <1>3, <1>4, <1>5, Zenon

\* The same after a step.
LEMMA ShownNext ==
    /\ [o \in DOMAIN Options |-> OptionOf(o)]' = OptionsNow(rdp')
    /\ Look' = LookIn((rdp').L)
    /\ <<SourcesOf(1), SourcesOf(2)>>' = <<SourcesIn((rdp').C, 1), SourcesIn((rdp').C, 2)>>
    /\ {n \in GeometryFlags : G_Geometry[n] \subseteq mode}' = GeometryIn(mode')
<1>1. \A o : OptionOf(o)' = Reading(WordOf(rdp', o), o)
    BY Zenon DEF OptionOf, Reading, WordOf
<1>2. [o \in DOMAIN Options |-> OptionOf(o)]' = OptionsNow(rdp')
    BY <1>1, Zenon DEF OptionsNow
<1>3. Look' = LookIn((rdp').L)
    BY Zenon DEF Look, LookIn, Inputs
<1>4. \A cycle : SourcesOf(cycle)' = SourcesIn((rdp').C, cycle)
    BY Zenon DEF SourcesOf, SourcesIn, CodeIn
<1>5. {n \in GeometryFlags : G_Geometry[n] \subseteq mode}' = GeometryIn(mode')
    BY Zenon DEF GeometryIn
<1> QED
    BY <1>2, <1>3, <1>4, <1>5, Zenon

\* The RDP's words carry options, and a mode.
LEMMA ReadFromConsistent ==
    ASSUME NEW r, NEW s, NEW e, Consistent(r, s, e)
    PROVE  /\ OptionsNow(r) \in OptionValues
           /\ \A o \in DOMAIN Options : OptionsNow(r)[o] \in DOMAIN Options[o]
           /\ \E pair \in AllPairs : HasMode(r.L, pair) /\ LookIn(r.L) = Surface(pair).look
           /\ <<SourcesIn(r.C, 1), SourcesIn(r.C, 2)>> \in AllSources
<1>1. PICK values \in OptionValues : Carries(r, values)
    BY Zenon DEF Consistent
<1>2. OptionsNow(r) = values
    BY <1>1, CarriedIsRead, Zenon
<1>3. \A o \in DOMAIN Options : values[o] \in DOMAIN Options[o]
    BY <1>1, Zenon DEF Carries
<1>4. PICK pair \in AllPairs : HasMode(r.L, pair)
    BY Zenon DEF Consistent
<1>5. LookIn(r.L) = Surface(pair).look
    <2>1. pair \in Pairs(DOMAIN RenderMode)
        BY FirstBits, Zenon
    <2>2. \A b \in 3 .. 31 : b \in r.L <=> b \in PairWord(pair)
        BY <1>4, Zenon DEF HasMode
    <2> QED
        BY <2>1, <2>2, LookIs, Zenon
<1>6. PICK sources \in AllSources : r.C = gDPSetCombineMode(sources[1], sources[2])
    BY Zenon DEF Consistent
<1>7. <<SourcesIn(r.C, 1), SourcesIn(r.C, 2)>> = sources
    <2> DEFINE C == gDPSetCombineMode(sources[1], sources[2])
    <2>1. <<SourcesIn(C, 1), SourcesIn(C, 2)>> = sources
        BY CombineIs, Zenon
    <2> HIDE DEF C
    <2>2. r.C = C
        BY <1>6, Zenon DEF C
    <2> QED
        BY <2>1, <2>2, Zenon
<1> QED
    BY <1>2, <1>3, <1>4, <1>5, <1>6, <1>7, Zenon

\* LayersKeepDepth: no word that the macros made says that a translucent surface
\* or a decal writes its depth.
THEOREM DepthIsKept == AllSpec => []LayersKeepDepth
<1>1. ModesInv => LayersKeepDepth
    <2> SUFFICES ASSUME ModesInv PROVE LayersKeepDepth
        OBVIOUS
    <2>1. PICK pair \in AllPairs : HasMode(rdp.L, pair)
        BY Zenon DEF ModesInv, Consistent
    <2>2. Field(rdp.L, 10, 2) \in {{1}, {0, 1}} => ~(5 \in rdp.L)
        <3>1. pair \in Pairs(DOMAIN RenderMode)
            BY FirstBits, Zenon
        <3>2. \A b \in 3 .. 31 : b \in rdp.L <=> b \in PairWord(pair)
            BY <2>1, Zenon DEF HasMode
        <3> QED
            BY <3>1, <3>2, ModesAreSafe, Zenon
    <2>3. Flag.Z_UPD = {5}
        BY FlagsAre, Zenon
    <2> QED
        BY <2>2, <2>3 DEF LayersKeepDepth
<1> QED
    BY <1>1, AllModesInv, PTL

\* BlendedIsRead: whatever cycle type is set with whatever render mode, a blend
\* with the colour in memory has that colour read.
THEOREM MemoryIsRead == AllSpec => []BlendedIsRead
<1>1. ModesInv => BlendedIsRead
    <2> SUFFICES ASSUME ModesInv PROVE BlendedIsRead
        OBVIOUS
    <2>1. PICK pair \in AllPairs : HasMode(rdp.L, pair)
        BY Zenon DEF ModesInv, Consistent
    <2>2. /\ 14 \in rdp.L /\ LookIn(rdp.L).second[3] = 1 => 6 \in rdp.L
          /\ 14 \in rdp.L /\ LookIn(rdp.L).first[3] = 1 => 6 \in rdp.L
        <3>1. pair \in Pairs(DOMAIN RenderMode)
            BY FirstBits, Zenon
        <3>2. \A b \in 3 .. 31 : b \in rdp.L <=> b \in PairWord(pair)
            BY <2>1, Zenon DEF HasMode
        <3> QED
            BY <3>1, <3>2, ModesAreSafe, Zenon
    <2>3. Flag.FORCE_BL = {14} /\ Flag.IM_RD = {6} /\ G_BL.CLR_MEM = 1
        BY FlagsAre DEF G_BL
    <2>4. Look = LookIn(rdp.L)
        BY Shown, Zenon
    <2>5. \A last : last = Look.second \/ last = Look.first =>
             ((Flag.FORCE_BL \subseteq rdp.L /\ last[3] = G_BL.CLR_MEM) => Flag.IM_RD \subseteq rdp.L)
        BY <2>2, <2>3, <2>4
    <2> QED
        BY <2>5, Zenon DEF BlendedIsRead
<1> QED
    BY <1>1, AllModesInv, PTL

-----------------------------------------------------------------------------
(* The refinement of RenderState.                                          *)

\* The first state is one of RenderState.
LEMMA StateInit == Init => State!Init
<1> SUFFICES ASSUME Init PROVE State!Init
    OBVIOUS
<1>1. Consistent(rdp, shadow, expert)
    BY InitIsConsistent, Zenon
<1>2. /\ OptionsNow(rdp) \in OptionValues
      /\ \A o \in DOMAIN Options : OptionsNow(rdp)[o] \in DOMAIN Options[o]
      /\ \E pair \in AllPairs : LookIn(rdp.L) = Surface(pair).look
      /\ <<SourcesIn(rdp.C, 1), SourcesIn(rdp.C, 2)>> \in AllSources
    BY <1>1, ReadFromConsistent, Zenon
<1>3. asked = <<>> /\ mode = {}
    BY Zenon DEF Init
<1>4. GeometryIn(mode) = {}
    BY <1>3, FlagBits DEF GeometryIn
<1>5. DOMAIN Names = DOMAIN Options /\ \A o \in DOMAIN Options : Names[o] = DOMAIN Options[o]
    BY Zenon DEF Names
<1>6. OptionValues = [DOMAIN Names -> UNION {Names[o] : o \in DOMAIN Names}]
    <2>1. UNION {Names[o] : o \in DOMAIN Names} = UNION {DOMAIN Options[o] : o \in DOMAIN Options}
        BY <1>5
    <2> QED
        BY <1>5, <2>1, Zenon DEF OptionValues
<1>7. LookIn(rdp.L) \in {s.look : s \in AllSurfaces}
    BY <1>2, SurfacesAre, Zenon
<1> QED
    BY <1>2, <1>3, <1>4, <1>5, <1>6, <1>7, Shown, Zenon DEF State!Init

\* A step of the modes is a step of RenderState.
LEMMA StateNext ==
    ASSUME ModesInv, Next
    PROVE  [State!Next]_<<asked, State!settings>>
<1> DEFINE now == Now(rdp, mode)
           after == Now(rdp', mode')
           option == [o \in DOMAIN Options |-> OptionOf(o)]
           combine == <<SourcesOf(1), SourcesOf(2)>>
           geometry == {n \in GeometryFlags : G_Geometry[n] \subseteq mode}
<1>1. Does(asked', now, after)
    BY StepDoes, Zenon
<1>2. /\ option = now.option /\ Look = now.surface
      /\ combine = now.combine /\ geometry = now.geometry
    BY Shown, NowIs, Zenon
<1>3. /\ option' = after.option /\ Look' = after.surface
      /\ combine' = after.combine /\ geometry' = after.geometry
    BY ShownNext, NowIs, Zenon
<1> HIDE DEF now, after
<1>4. CASE asked' = asked
    <2>1. asked' # <<>>
        BY <1>1 DEF Does
    <2>2. PICK before : Does(asked, before, now)
        BY <1>4, <2>1, Zenon DEF ModesInv, now
    <2>3. after = now
        BY <1>1, <1>4, <2>2, Again, Zenon
    <2>4. option' = option /\ Look' = Look /\ combine' = combine /\ geometry' = geometry
        BY <1>2, <1>3, <2>3, Zenon
    <2> QED
        BY <1>4, <2>4, Zenon DEF State!settings
<1>5. CASE asked' # asked
    <2>1. CASE \E o \in DOMAIN Options : \E n \in DOMAIN Options[o] :
                  /\ asked' = <<o, n>>
                  /\ after = [option |-> [now.option EXCEPT ![o] = n], surface |-> now.surface,
                              combine |-> now.combine, geometry |-> now.geometry]
        <3>1. PICK o \in DOMAIN Options : \E n \in DOMAIN Options[o] :
                  /\ asked' = <<o, n>>
                  /\ after = [option |-> [now.option EXCEPT ![o] = n], surface |-> now.surface,
                              combine |-> now.combine, geometry |-> now.geometry]
            BY <2>1, Zenon
        <3>2. PICK n \in DOMAIN Options[o] :
                  /\ asked' = <<o, n>>
                  /\ after = [option |-> [now.option EXCEPT ![o] = n], surface |-> now.surface,
                              combine |-> now.combine, geometry |-> now.geometry]
            BY <3>1, Zenon
        <3>3. /\ after.option = [now.option EXCEPT ![o] = n] /\ after.surface = now.surface
              /\ after.combine = now.combine /\ after.geometry = now.geometry
            BY <3>2
        <3>4. State!SetOption(o, n)
            <4>1. /\ option' = [option EXCEPT ![o] = n] /\ Look' = Look
                  /\ combine' = combine /\ geometry' = geometry
                <5> HIDE DEF option, combine, geometry
                <5> QED
                    BY <1>2, <1>3, <3>2, <3>3
            <4>2. asked' = <<o, n>>
                BY <3>2, Zenon
            <4> QED
                BY <4>1, <4>2, Zenon DEF State!SetOption
        <3>5. o \in DOMAIN Names /\ n \in Names[o]
            BY Zenon DEF Names
        <3> QED
            BY <1>5, <3>4, <3>5, Zenon DEF State!Next
    <2>2. CASE \E s \in AllSurfaces :
                  /\ asked' = <<"surface", s>>
                  /\ after = [option |-> State!After(now.option, s), surface |-> s.look,
                              combine |-> now.combine, geometry |-> now.geometry]
        <3>1. PICK s \in AllSurfaces :
                  /\ asked' = <<"surface", s>>
                  /\ after = [option |-> State!After(now.option, s), surface |-> s.look,
                              combine |-> now.combine, geometry |-> now.geometry]
            BY <2>2, Zenon
        <3>2. /\ after.option = State!After(now.option, s) /\ after.surface = s.look
              /\ after.combine = now.combine /\ after.geometry = now.geometry
            BY <3>1
        <3>3. State!SetSurface(s)
            <4>1. /\ option' = State!After(option, s) /\ Look' = s.look
                  /\ combine' = combine /\ geometry' = geometry
                <5> HIDE DEF option, combine, geometry
                <5> QED
                    BY <1>2, <1>3, <3>1, <3>2
            <4>2. asked' = <<"surface", s>>
                BY <3>1, Zenon
            <4> QED
                BY <4>1, <4>2, Zenon DEF State!SetSurface
        <3> QED
            BY <1>5, <3>3, Zenon DEF State!Next
    <2>3. CASE \E values \in AllAtOnce, s \in AllSurfaces :
                  /\ asked' = <<"all", values, s>>
                  /\ after = [option |-> State!After(values, s), surface |-> s.look,
                              combine |-> now.combine, geometry |-> now.geometry]
        <3>1. PICK values \in AllAtOnce, s \in AllSurfaces :
                  /\ asked' = <<"all", values, s>>
                  /\ after = [option |-> State!After(values, s), surface |-> s.look,
                              combine |-> now.combine, geometry |-> now.geometry]
            BY <2>3, Zenon
        <3>2. /\ after.option = State!After(values, s) /\ after.surface = s.look
              /\ after.combine = now.combine /\ after.geometry = now.geometry
            BY <3>1
        <3>3. State!SetAll(values, s)
            <4>1. /\ option' = State!After(values, s) /\ Look' = s.look
                  /\ combine' = combine /\ geometry' = geometry
                <5> HIDE DEF option, combine, geometry
                <5> QED
                    BY <1>2, <1>3, <3>1, <3>2
            <4>2. asked' = <<"all", values, s>>
                BY <3>1, Zenon
            <4> QED
                BY <4>1, <4>2, Zenon DEF State!SetAll
        <3> QED
            BY <1>5, <3>3, Zenon DEF State!Next
    <2>4. CASE \E pair \in AllSources :
                  /\ asked' = <<"combine", pair>>
                  /\ after = [option |-> now.option, surface |-> now.surface,
                              combine |-> pair, geometry |-> now.geometry]
        <3>1. PICK pair \in AllSources :
                  /\ asked' = <<"combine", pair>>
                  /\ after = [option |-> now.option, surface |-> now.surface,
                              combine |-> pair, geometry |-> now.geometry]
            BY <2>4, Zenon
        <3>2. /\ after.option = now.option /\ after.surface = now.surface
              /\ after.combine = pair /\ after.geometry = now.geometry
            BY <3>1
        <3>3. State!SetCombine(pair)
            BY <1>2, <1>3, <3>1, <3>2, Zenon DEF State!SetCombine
        <3> QED
            BY <1>5, <3>3, Zenon DEF State!Next
    <2>5. CASE \E cleared, set \in SUBSET GeometryFlags :
                  /\ asked' = <<"geometry", cleared, set>>
                  /\ after = [option |-> now.option, surface |-> now.surface,
                              combine |-> now.combine, geometry |-> (now.geometry \ cleared) \cup set]
        <3>1. PICK cleared \in SUBSET GeometryFlags, set \in SUBSET GeometryFlags :
                  /\ asked' = <<"geometry", cleared, set>>
                  /\ after = [option |-> now.option, surface |-> now.surface,
                              combine |-> now.combine, geometry |-> (now.geometry \ cleared) \cup set]
            BY <2>5, Zenon
        <3>2. /\ after.option = now.option /\ after.surface = now.surface
              /\ after.combine = now.combine /\ after.geometry = (now.geometry \ cleared) \cup set
            BY <3>1
        <3>3. State!SetGeometry(cleared, set)
            <4>1. /\ option' = option /\ Look' = Look
                  /\ combine' = combine /\ geometry' = (geometry \ cleared) \cup set
                <5> HIDE DEF option, combine, geometry
                <5> QED
                    BY <1>2, <1>3, <3>1, <3>2
            <4>2. asked' = <<"geometry", cleared, set>>
                BY <3>1, Zenon
            <4> QED
                BY <4>1, <4>2, Zenon DEF State!SetGeometry
        <3> QED
            BY <1>5, <3>3, Zenon DEF State!Next
    <2> QED
        BY <1>1, <2>1, <2>2, <2>3, <2>4, <2>5, Zenon DEF Does
<1> QED
    BY <1>4, <1>5

\* DisplayModes implements RenderState: what the hardware shows of the words and
\* the packet it keeps is the state the game asked for, call after call.
THEOREM RenderingState == AllSpec => ImplementsRenderState
<1>1. AllInit => State!Init
    BY InitModesInv, StateInit, Zenon
<1>2. ModesInv /\ [AllNext]_allVars => [State!Next]_<<asked, State!settings>>
    <2> SUFFICES ASSUME ModesInv, [AllNext]_allVars
                 PROVE  [State!Next]_<<asked, State!settings>>
        OBVIOUS
    <2>1. CASE Next
        BY <2>1, StateNext, Zenon
    <2>2. CASE UNCHANGED <<asked, shadow, rdp, mode, holds, expert, sent>>
        <3>1. asked' = asked /\ rdp' = rdp /\ mode' = mode
            BY <2>2
        <3>2. UNCHANGED State!settings
            BY <3>1, Shown, ShownNext, Zenon DEF State!settings
        <3> QED
            BY <3>1, <3>2, Zenon
    <2> QED
        BY <2>1, <2>2, AllNextModes, Zenon
<1> QED
    BY <1>1, <1>2, AllModesInv, PTL DEF AllSpec, ImplementsRenderState, State!Spec
=============================================================================
