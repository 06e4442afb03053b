---------------------------- MODULE TextureLoads ----------------------------
(***************************************************************************)
(* A display list that loads textures and palettes with the macros of       *)
(* GbiTexture and draws with them, and the RDP that runs it.  The RDP goes  *)
(* on to the next command while a load or a primitive is still under way:   *)
(* only the sync commands wait.  What the RDP does is not in the source; it *)
(* is taken from how the macros use it.  Texture memory is addressed in     *)
(* halfwords of 32 bits, two to a word, because the halves of the words of  *)
(* odd lines are swapped.                                                   *)
(***************************************************************************)
EXTENDS GbiTexture, TLC

CONSTANTS
  Calls,      \* the macro calls that the caller may make
  MaxLoads    \* bound on the calls of a list

VARIABLES
  todo,       \* packets the RDP has still to run
  loads,      \* calls made
  timg,       \* the texture image: DRAM address, texel size and width
  tiles,      \* the tile descriptors
  tmem,       \* which texels the halfwords hold: <<image, offset in nibbles>>
  loading,    \* what the load under way is going to fill
  pipe,       \* primitives under way
  bound,      \* per tile in use, the call whose image it is meant to show
  tlut        \* per palette, where its colours were last loaded from

vars == <<todo, loads, timg, tiles, tmem, loading, pipe, bound, tlut>>

\* ------------------------------------------------------- the texture memory
\* 32-bit and YUV texels are split between two banks of half the memory.
Split(fmt, siz) == siz = G_IM_SIZ_32b.code \/ fmt = G_IM_FMT.YUV
DramBits(siz) == 2^(siz + 2)
TexelBits(fmt, siz) == DramBits(siz) \div (IF Split(fmt, siz) THEN 2 ELSE 1)
Bank(fmt, siz) == IF Split(fmt, siz) THEN 512 ELSE 1024
\* The nibbles of the image that go into a halfword.
PerHalf(fmt, siz) == IF Split(fmt, siz) THEN 16 ELSE 8
Flip(h) == IF h % 2 = 0 THEN h + 1 ELSE h - 1
Turned(h, odd) == IF odd THEN Flip(h) ELSE h

\* A block of n texels from DRAM, counting lines by dxt; what is beyond the
\* bank wraps around.  Halfword h takes the last part that goes there.
BlockFills(tile, n, dxt) ==
  LET bank == Bank(tile.fmt, tile.siz)
      words == (n * TexelBits(tile.fmt, tile.siz) + 63) \div 64
      InDram(q) == IF Split(tile.fmt, tile.siz) THEN q ELSE q \div 2
      At(q) == Turned(q, ((InDram(q) * dxt) \div 2048) % 2 = 1)
      Word(h) == LET from == ((h - 2 * tile.tmem) % bank) \div 2
                 IN  words - 1 - ((words - 1 - from) % (bank \div 2))
      From(h) == {q \in {2 * Word(h), 2 * Word(h) + 1} :
                    At(q) % 2 = h % 2 /\ 64 * InDram(q) < n * DramBits(tile.siz)}
  IN  [h \in {k \in 0 .. (bank - 1) : Word(k) >= 0 /\ From(k) # {}} |->
         <<timg.image, Max(From(h)) * PerHalf(tile.fmt, tile.siz)>>]

\* The lines ult to lrt of the texture image, from uls to lrs; a line longer
\* than the tile's runs into the next.
TileFills(tile, uls, ult, lrs, lrt) ==
  LET words == ((lrs - uls + 1) * TexelBits(tile.fmt, tile.siz) + 63) \div 64
      Lines(h) == {r \in 0 .. (lrt - ult) :
                     (h \div 2) - tile.tmem - r * tile.line \in 0 .. (words - 1)}
  IN  [h \in {k \in 0 .. (Bank(tile.fmt, tile.siz) - 1) : Lines(k) # {}} |->
         LET r == Max(Lines(h))
             q == Turned(h, r % 2 = 1) - 2 * (tile.tmem + r * tile.line)
         IN  <<timg.image, ((ult + r) * timg.width + uls)
                             * (DramBits(timg.siz) \div 4)
                             + q * PerHalf(tile.fmt, tile.siz)>>]

\* Each 16-bit colour fills a word.
TlutFills(tile, count) ==
  [h \in (2 * tile.tmem) .. (2 * (tile.tmem + count) + 1) |->
     <<timg.image, 4 * ((h \div 2) - tile.tmem)>>]
-----------------------------------------------------------------------------
NoTile == [fmt |-> 0, siz |-> 0, line |-> 0, tmem |-> 0, palette |-> 0,
           sl |-> 0, tl |-> 0, sh |-> 0, th |-> 0]
Idle == loading = <<>> /\ pipe = {}

Init ==
  /\ todo = <<>> /\ loads = 0
  /\ timg = [image |-> 0, siz |-> 0, width |-> 0]
  /\ tiles = [k \in 0 .. 7 |-> NoTile]
  /\ tmem = <<>> /\ loading = <<>> /\ pipe = {}
  /\ bound = <<>>
  /\ tlut = [p \in 0 .. 15 |-> 0]

\* The caller puts a macro on the list.
LoadTexture ==
  /\ todo = <<>> /\ loads < MaxLoads
  /\ \E c \in Calls :
       /\ "tile" \in DOMAIN c
       /\ todo' = c.list
       /\ bound' = (c.tile :> c) @@ bound
  /\ loads' = loads + 1
  /\ UNCHANGED <<timg, tiles, tmem, loading, pipe, tlut>>
LoadPalette ==
  /\ todo = <<>> /\ loads < MaxLoads
  /\ \E c \in Calls :
       /\ "palettes" \in DOMAIN c
       /\ todo' = c.list
       /\ tlut' = [p \in 0 .. 15 |-> IF p \in c.palettes THEN c.dram ELSE tlut[p]]
  /\ loads' = loads + 1
  /\ UNCHANGED <<timg, tiles, tmem, loading, pipe, bound>>

\* A primitive textured by a tile enters the pipe, and leaves it.
Draw ==
  /\ todo = <<>>
  /\ \E k \in DOMAIN bound : pipe' = pipe \cup {[tile |-> k, of |-> bound[k]]}
  /\ UNCHANGED <<todo, loads, timg, tiles, tmem, loading, bound, tlut>>
Drawn ==
  /\ \E p \in pipe : pipe' = pipe \ {p}
  /\ UNCHANGED <<todo, loads, timg, tiles, tmem, loading, bound, tlut>>

\* What the RDP reads in a packet.
Number(bits) == MapThenSumSet(LAMBDA b : 2^b, bits)
Opcode(gfx) == Number(Shift(gfx.w0 \cap (24 .. 31), -24))
Field(type, name) == Number(FieldBits(type, name, Head(todo)))
Corner(name) == Field(Gloadtile, name) \div 4

Next_(opcode) == todo # <<>> /\ Opcode(Head(todo)) = opcode /\ todo' = Tail(todo)

SetTextureImage ==
  /\ Next_(RDP.TIMG)
  /\ timg' = [image |-> Field(Gsetimg, "dram"), siz |-> Field(Gsetimg, "siz"),
              width |-> Field(Gsetimg, "wd") + 1]
  /\ UNCHANGED <<loads, tiles, tmem, loading, pipe, bound, tlut>>
Describe ==
  /\ Next_(RDP.TILE)
  /\ LET F(name) == Field(Gsettile, name)
     IN  tiles' = [tiles EXCEPT ![F("tile")] =
           [fmt |-> F("fmt"), siz |-> F("siz"), line |-> F("line"),
            tmem |-> F("tmem"), palette |-> F("palette"),
            sl |-> @.sl, tl |-> @.tl, sh |-> @.sh, th |-> @.th]]
  /\ UNCHANGED <<loads, timg, tmem, loading, pipe, bound, tlut>>
SetTileSize ==
  /\ Next_(RDP.TILESIZE)
  /\ tiles' = [tiles EXCEPT ![Field(Gloadtile, "tile")] =
       [@ EXCEPT !.sl = Corner("sl"), !.tl = Corner("tl"),
                 !.sh = Corner("sh"), !.th = Corner("th")]]
  /\ UNCHANGED <<loads, timg, tmem, loading, pipe, bound, tlut>>
Sync ==
  /\ Idle
  /\ \E op \in {RDP.LOADSYNC, RDP.PIPESYNC, RDP.TILESYNC} : Next_(op)
  /\ UNCHANGED <<loads, timg, tiles, tmem, loading, pipe, bound, tlut>>

\* Loads start here and end in Loaded.
Start(fills) ==
  /\ loading = <<>> /\ loading' = fills
  /\ UNCHANGED <<loads, timg, tiles, tmem, pipe, bound, tlut>>
LoadBlock ==
  /\ Next_(RDP.LOADBLOCK)
  /\ Start(BlockFills(tiles[Field(Gloadtile, "tile")],
                      Field(Gloadtile, "sh") + 1, Field(Gloadtile, "th")))
LoadTile ==
  /\ Next_(RDP.LOADTILE)
  /\ Start(TileFills(tiles[Field(Gloadtile, "tile")], Corner("sl"), Corner("tl"),
                     Corner("sh"), Corner("th")))
LoadTlut ==
  /\ Next_(RDP.LOADTLUT)
  /\ Start(TlutFills(tiles[Field(Gloadtile, "tile")], Corner("sh")))
Loaded ==
  /\ loading # <<>>
  /\ tmem' = loading @@ tmem
  /\ loading' = <<>>
  /\ UNCHANGED <<todo, loads, timg, tiles, pipe, bound, tlut>>

Next == \/ LoadTexture \/ LoadPalette \/ Draw \/ Drawn
        \/ SetTextureImage \/ Describe \/ SetTileSize \/ Sync
        \/ LoadBlock \/ LoadTile \/ LoadTlut \/ Loaded

Spec == Init /\ [][Next]_vars
-----------------------------------------------------------------------------
\* Where texel (s, t) of an image is in DRAM, in nibbles.  A swapped image has
\* the parts that go to the halves of a word exchanged in its odd lines.
InImage(c, s, t) ==
  LET I == c.image
      per == PerHalf(I.fmt, I.siz.code)
      at == (t * I.width + s) * (DramBits(I.siz.code) \div 4)
  IN  IF c.swapped /\ t % 2 = 1
      THEN Flip(at \div per) * per + (at % per) ELSE at

\* The texel that a primitive finds at (s, t) of its tile is the one.
Finds(p, s, t) ==
  LET tile == tiles[p.tile]
      bits == TexelBits(tile.fmt, tile.siz)
      bit == (s - tile.sl) * bits
      line == t - tile.tl
      h == Turned(2 * (tile.tmem + line * tile.line) + bit \div 32, line % 2 = 1)
  IN  /\ h \in DOMAIN tmem
      /\ tmem[h][1] = p.of.image.timg
      /\ tmem[h][2] + ((bit % 32) * (DramBits(tile.siz) \div bits)) \div 4
           = InImage(p.of, s, t)

InPlace(p) ==
  LET A == p.of.area
  IN  /\ <<tiles[p.tile].sl, tiles[p.tile].tl, tiles[p.tile].sh, tiles[p.tile].th>>
           = <<A.uls, A.ult, A.lrs, A.lrt>>
      /\ \A t \in A.ult .. A.lrt, s \in A.uls .. A.lrs : Finds(p, s, t)

\* Is the call one the macros can serve?  A block needs lines of whole words,
\* and dxt, rounded up, may not gain a whole word by the last line; four-bit
\* tiles are cut where a byte starts; all of it has to fit.
Fits(c) ==
  LET I == c.image
      A == c.area
      n == A.lrs - A.uls + 1
      rows == A.lrt - A.ult + 1
      bits == TexelBits(I.fmt, I.siz.code)
      isTile == \E i \in DOMAIN c.list : Opcode(c.list[i]) = RDP.LOADTILE
      four == I.siz = G_IM_SIZ_4b
      line == IF four THEN Words(n \div 2) ELSE Words((n * bits) \div 8)
      room == (Bank(I.fmt, I.siz.code) \div 2) * 64
      last == (n * rows * DramBits(I.siz.code) - 1) \div 64
      words == Max({1, (n * DramBits(I.siz.code)) \div 64})
      dxt == (2047 + words) \div words
  IN  IF isTile
      THEN /\ rows * line * 64 <= room
           /\ line * 64 >= n * bits \/ (rows = 1 /\ four)
           /\ four => A.uls % 2 = 0 /\ (I.width % 2 = 0 \/ A.lrt = 0)
      ELSE /\ n * rows * bits <= room
           /\ rows = 1 \/ (n * bits) % 64 = 0
           /\ c.swapped \/ last * dxt < 2048 * rows

(***************************************************************************)
(* A primitive finds every texel of the image its tile was loaded with, all  *)
(* the time it is under way, exactly if the call is one the macros can       *)
(* serve: whatever is loaded next waits for it, and it waits for its load.   *)
(* The comment over gDPLoadBlock promises more, "transparent if you use these *)
(* macros": an image no larger than texture memory is out of place all the   *)
(* same once the rounded dxt has gained a word (Fits).                       *)
(***************************************************************************)
TexelsInPlace == \A p \in pipe : InPlace(p) <=> Fits(p.of)

(***************************************************************************)
(* Palettes do not overlap: once the list has been run, each one holds the   *)
(* colours last loaded to it, and not those of another loaded after it.      *)
(***************************************************************************)
PalettesApart ==
  todo = <<>> /\ loading = <<>> =>
    \A p \in 0 .. 15 : tlut[p] # 0 =>
      \A h \in (2 * (256 + 16 * p)) .. (2 * (256 + 16 * p) + 31) :
        h \in DOMAIN tmem /\ tmem[h][1] = tlut[p]
=============================================================================
