# n64san in TLA+

n64san is the runtime of the undefined behaviour sanitizer for decompiled
Nintendo 64 games. The compiler instruments a game with checks; a check that
fails calls a handler of this library, the handler works out from its operands
what went wrong, prints a diagnostic through the game's own printing functions,
and returns or stops the game. The repository also carries the headers of the N64
SDK it is built with, whose macros write the display lists of the games that link
the library. These modules model both, TLC checks them on small instances, and
TLAPS proves most of what is checked for all instances.

## The system

| part | source | state | operations | called by |
|---|---|---|---|---|
| handlers | `src/src/n64_ubsan/ubsan_handlers.c` | none of their own; the caller's stack | eight handlers, each with a recoverable and an `_abort` entry | the game's threads, anywhere in sanitized code |
| values | `src/src/n64_ubsan/ubsan_value.c` | none | decode a `ValueHandle` by its `TypeDescriptor`; CHECK what must not be | handlers |
| diagnostics | `src/src/n64_ubsan/ubsan_diag.c` | the terminal's style, indirectly | a fixed series of `N64Wrapper_Printf` calls | handlers |
| termination | `sanitizer_termination.c`, `n64_termination.c` | - | `Die`, `CheckFailed`, `N64Wrapper_Assert`: none returns | handlers, CHECK, UNREACHABLE |
| wrapper I/O | `src/src/n64_wrapper/n64_io.c` | `isInitialized`, `sISVHandle`, and for Majora's Mask the IS-Viewer cartridge's registers and ring | lazy initialisation; `_Printf` with the callback `is_proutSyncPrintf` | diagnostics, termination |
| wrapper memory | `n64_string.c` | none | `memcpy`, `bzero` of the game | values, handlers |
| 64-bit shifts | `src/asm/n64_sanitizer_common/*.s` | registers, the o32 argument area | `U64_LeftShift`, `U64_RightShift` | values |
| variable arguments | `src/include/libc/stdarg.h` | the position in the argument area | `va_arg` on what o32 laid out | the game's `_Printf` |
| display list macros | `src/include/ultra64/gbi.h`, `mbi.h` | none | each writes packets of two words | games |
| texture loading macros | `gbi.h` | none; the texture memory and tiles of the RDP they write to | set the image, describe a tile, load, wait, describe again | games |
| rendering modes | `gbi.h` | none; the othermode words, geometry mode and combiner | replace some bits, or all | games |
| lights and matrices | `gbi.h` | structures in memory; the light slots and matrix stack of the RSP | copy them there, set a word of them, push and pop | games |

The parts of the runtime interact by plain calls, and all threads share the wrapper's statics
and the cartridge, without a lock. What is hard:

- **interleaving**: a thread can be preempted, or wait for the PI bus, at each
  `osEPiReadIo`/`osEPiWriteIo`, while another thread initialises or prints;
- **the host**: it drains the ring at its own pace, so what a thread read of it
  is old when it is used;
- **restart**: a console reset clears RAM in the middle of anything, the
  cartridge keeps the old session's contents;
- **dying half-way**: a CHECK may stop a handler in any of its calls;
- **decoding**: an operand is narrower than a handle (zero-extended), as wide,
  or behind a pointer, and the verdict rests on the right decoding;
- **edges**: the ring's last cell, the wrap, fragments longer than the ring,
  least and greatest values, shifts by zero and by the width, pointers on both
  sides of the sign bit;
- **registers**: 64-bit values exist in registers only, o32 passes and returns
  them in halves, and a thread can be preempted between any two instructions;
- **bit fields by hand**: a display list macro shifts and ORs its arguments into
  place, and an argument or constant that is wrong spoils another field;
- **hardware that does not wait**: the RDP starts a load while it still draws,
  and an RSP keeps lights, modes and matrices from one list to the next.

What makes each part correct: the log loses, reorders and overwrites nothing it
has announced; the diagnostic says what happened in the program; it leaves
the terminal in its normal style; a recoverable entry returns and an `_abort` entry does
not; a handler never hangs; a shift is C's; an argument is read from where it was
put; a display list leaves the hardware in the state its macros are named for.
`PROJECT.json` lists each hazard at its line with
the properties that cover it, and the ones nothing covers with the reason.

## Modules

| module | models | notes |
|---|---|---|
| `LogChannel` | what the log promises to one thread | a bounded FIFO of characters; a fragment is appended whole or not at all, and one that takes the last cell empties it |
| `ISViewer` | `n64_io.c` for Majora's Mask | one action per PI access; variables named after the code's |
| `ISViewerSession` | `ISViewer` and which cells this session wrote | a console reset begins a session |
| `UbsanValue` | `ubsan_value.c` | operators only; a function that can meet a failing CHECK yields a set, `{}` when it does not return |
| `UbsanHandlers` | `ubsan_handlers.c`, `ubsan_diag.c`, termination | classification as operators `handle...Impl`; the run of a handler as actions |
| `SanitizedLog` | the two composed: every Printf of a handler is a call of the wrapper | instances of both on shared threads |
| `U64Shift` | the assembly routines and the caller that decodes a narrow operand | one action per instruction, one register file |
| `O32VarArgs` | o32's argument area, `va_arg`, and every Printf of the library | one action per argument put or conversion read |
| `O32Calls` | the two composed | |
| `Gbi` | the packet macros | a word is the set of its bits that are 1, so that `_SHIFTL` and OR are exact and cheap |
| `GbiCommands` | a caller that writes any packet | |
| `GbiTexture`, `TextureCalls` | the loading macros, and calls of them | lists of packets of `Gbi` |
| `TextureLoads` | the RDP that runs such lists | a load takes time |
| `GbiModes` | othermode, render mode, combiner and geometry macros and tables | |
| `RenderState` | what they promise | independent settings, by name |
| `DisplayModes` | lists of them on the RSP's shadow words and the RDP | refines `RenderState` |
| `GbiScene`, `SceneSetup` | light and look-at structures, their macros, matrices; the RSP that runs them | |
| `DisplayList` | the four kinds of list composed | instances of each |
| `MCISViewer`, `MCISViewerSession`, `MCUbsanHandlers`, `MCSanitizedLog`, `MCO32Calls`, `MCDisplayList` | inputs for TLC | |
| `ISViewerProofs`, `ISViewerSessionProofs`, `UbsanHandlersProofs`, `SanitizedLogProofs`, `O32CallsProofs`, `DisplayListProofs` | theorems about the modules they are named after | TLAPS |
| `DisplayStateProofs` | theorems about `DisplayList`: what the RSP and the RDP keep from call to call | TLAPS |
| `PowersOfTwo` | lemmas about powers, sums over sets and binary digits | TLAPS |

### ISViewer

`attached`, `magic`, `get`, `put`, `data` are the cartridge: `data` has
`RingSize` cells (0xFFE0 in the build) in words of `WordSize` (4).
`isInitialized`, `sISVHandle` are the statics. `pc[t]` says where thread t is in
the wrapper; `text[t]`, `i[t]`, `pos[t]`, `start[t]`, `word[t]` are the locals of
`is_proutSyncPrintf`: `str` and `count` are `text` and `Len(text) - i`.

| action | code |
|---|---|
| `Call` | a wrapper entry is called |
| `Test`, `InitHandle`, `InitPut`, `InitGet`, `InitMagic`, `SetInitialized` | `INITIALIZE` with `isPrintfInit` inside |
| `Fragment` (external) | the game's `_Printf` hands a fragment to the callback |
| `NoViewer`, `ReadMagic`, `ReadGet`, `Admit`, `Refuse` | the callback up to its loop |
| `SkipNul`, `ReadWord`, `StoreWord` | a turn of the loop: a NUL, or the read and the write-back of a word |
| `Publish` | the write of `put` and the return |
| `Done` | the wrapper entry returns |
| `HostTake`, `Reset` (external) | the host takes a character; the console is reset |

`N64Wrapper_Printf` runs `INITIALIZE` twice (its own and that of
`N64Wrapper_Vprintf`). The second finds the flag set unless the console was
reset, which also ends the call, so it is left out. Without a cartridge, the
registers are memory that nothing reads as the magic; the model keeps them as
variables whose value no longer matters.

### UbsanValue and UbsanHandlers

A handle is a record of its bits (`word`) and of what lies at that address
(`pointee`); `Encode` is how the compiler makes one, and `HandleBits` (32 in the
build) scales everything: integers up to `HandleBits` wide are inline, those of
twice that width are passed by address. `Operations` are operations of the game
given by their C values, so that what a handler concludes can be compared with
what happened; `Faulty` is the check the compiler emitted, and an ASSUME keeps
other operations out.

`TypeMismatch`, `IntegerOverflow`, `NegateOverflow`, `DivremOverflow`,
`ShiftOutOfBounds`, `OutOfBounds`, `FloatCastOverflow`, `PointerOverflow` enter a
handler (either entry): every CHECK is evaluated before the first Printf, those
in the arguments of `Ubsan_Diag` too, so entering yields the list of pieces to
print, or a stop. `PrintPiece` is one Printf of `Ubsan_DiagImpl`; `Finish` returns
or calls `Die`; `CheckFailed`, `N64Wrapper_Assert`, `Crash` are the way down. A
message is the name of its text and the numbers it shows. `style` follows
VT_BOLD and VT_RST. A float's value is its bits; the error type is left out, as
`Ubsan_DiagImpl` ignores it. A NULL file name is read through by
`looksLikeFloatCastOverflowDataV1`: address 0 is not mapped on the console, so
that is an exception (`crash`).

### SanitizedLog

`Handler` is what a handler does between its Printfs; `Call`, `Fragment`,
`Callback` and `Done` are one Printf through `ISViewer`: `Done` takes the handler's
own step, so a Printf of `UbsanHandlers` is one step and here it is dozens. A
character is what it does to the screen. Its `pc` is the handlers', `place` the
wrapper's. One session; the resets are in `ISViewer`.

### U64Shift, O32VarArgs, O32Calls

A doubleword is two words of `WordBits`. `Call`, `DecodeLeft`, `DecodeRight` and
`Returned` are the caller in `ubsan_value.c`; `StoreArguments`, `LoadShift`,
`LoadValue`, `Shift`, `LowHalf`, `LowExtend`, `Return` the instructions (`dsll32`
and `dsra32` make a sign-extended word of a half); `Switch` saves the registers in
`OSThread.context` and takes another thread's. What the comments of the routines
give as a C expression is what `UbsanValue` uses, and `ShiftsAsInC` compares.

`PutArgument` is the caller, `Convert` the `_Printf` of the game with `va_arg`. A
conversion whose mode differs from its argument's does not fit (`Fits`);
`ReadsItsArgument` asks that all the ones before it, and all of the other calls,
read their own. `%zx` may be taken for nothing, a word or a doubleword, as C89
says nothing of it.

### Display lists

| module | actions | code |
|---|---|---|
| `GbiCommands` | `SendList`, `SendGeometry`, `SendModes`, `SendImages`, `SendQuadrangle`, `SendScissored`, `SendFog` | every packet macro with any arguments; quadrangles of `Quads`, rectangles of `Positions` and `Steps`, fog of `FogBands` |
| `TextureLoads` | `LoadTexture`, `LoadPalette`, `Draw`, `Drawn` | the game: a loading macro, a primitive |
| | `SetTextureImage`, `Describe`, `SetTileSize`, `Sync`, `LoadBlock`, `LoadTile`, `LoadTlut`, `Loaded` | the RDP runs one packet; a load ends later than it starts |
| `DisplayModes` | `SetOption`, `SetSurface`, `SetAll`, `SetCombine`, `SetGeometry` | the game sends a macro, and the RSP and RDP run it |
| `SceneSetup` | `SetLights`, `SetLightColor`, `LookAt`, `UseMatrix`, `DropMatrix`; `Run` | the game; the RSP runs one packet |

The hardware is external. It does what the macros presuppose: the RDP waits at
syncs only, swaps the halves of the words of odd lines, splits 32-bit and YUV
texels between two banks, counts a line when `dxt` adds up to 2048, and a palette
entry takes a word; the RSP replaces bits of its shadow words by shift and length
and sends the RDP both, keeps lights in slots of 24 bytes of which a light fills
16, and counts matrices popped in bytes. A game that mixes `gDPSetOtherMode` with
the setters is excluded, as gbi.h:2802 excludes it.

## What TLC checks

| run | instance | shows |
|---|---|---|
| `one_writer` | one thread, four cells in words of two, five texts, resets | `TypeOK`, `RoomForRest`, `NoClobber`, `RefusedOnlyWhenFull`, that the ring implements `LogChannel` (`RingIsFifo`), and that the host takes no character of an earlier session once the wrapper is initialised (`OnlyThisSession`) |
| `two_threads` | two threads, two cells | `UsedAfterInit`, `CallbackReturns` |
| `every_check` | one thread, one call, four-bit handles, all integer types of 2, 4, 8 bits | `Truthful`, `IntOperandsShown`, `RecoverableReturns`, `TypeOK` |
| `two_reports` | two threads, three calls, every way to be stopped | `StyleReset`, `AbortNeverReturns`, `Finishes` |
| `handlers_print` | one thread, two calls, a ring of four cells, a host that may stop taking | `ImplementsHandlers`: printing through the ring is one step that succeeds, in safety and liveness; `ScreenReset`: bold does not outlive a diagnostic unless the ring lost a style |
| `o32_calls` | words of four bits: every shift of every doubleword; two threads that decode every operand of 1, 2 and 4 bits, preempted anywhere; every Printf of the library | `ShiftsAsInC`, `ReturnsWords`, `SignExtends`, `ReadsItsArgument`, `TypeOK` |
| `display_lists` | any packet with arguments at and beyond its fields; every load by itself, and up to three of eleven loads in a row under drawing; mode lists of two; three light calls; four matrix calls | the twelve properties below |

`display_lists` checks, of packets, that an argument too large spoils its own field
only (`OpcodeKept`, `FieldsKept`), that both triangles of a quadrangle keep its
outline (`QuadsKeepTheirOutline`), that a rectangle clipped at the screen's edge
shows the texels it would have shown (`ClippedRectKeepsTexels`), that fog thickens
with depth exactly when its band is at least four wide (`FogThickens`); of loads,
that a primitive finds each texel of its image all the time it is under way,
exactly if the image is one the macros can serve (`TexelsInPlace`), and that
palettes do not overlap (`PalettesApart`); of modes, that they refine `RenderState`
(`ImplementsRenderState`), that surfaces of a layer keep what is in front of them
(`LayersKeepDepth`), that what a blender reads is there (`BlendedIsRead`); and that
the RSP lights with the lights last set (`LightsAsWanted`) and a pop brings back
what its push saved (`MatricesAsWanted`).

A run of a composition follows one part at a time (`part`): the parts share no
state that one of them reads of another, so a behaviour that mixes them is an
interleaving of behaviours that do not.

Five runs end in a violation, each a disagreement with a line of the repository
(the `findings` of `PROJECT.json` quote them):

| run | shows |
|---|---|
| `last_cell` | a fragment that ends exactly at the host's position is admitted; `put = get` then reads as empty and the text is lost |
| `two_writers` | two threads copy to the same cells and the later `put` takes back text already announced |
| `first_prints_race` | the second of two first printers initialises again and erases what the first printed |
| `operands_shown` | messages show the handle: an address for 64-bit operands, zero-extended bits for narrow negative ones |
| `old_cast` | the recoverable `float_cast_overflow` stops the game on the data the header keeps "for binary compatibility" |

`RingIsFifo` holds although `Prints` fails because `LogChannel` says in its
`PrintText` action what the last cell does: the refinement shows that this is the
only way a single thread loses text.

**Bounds.** Four cells and texts of one to five characters give every case of
the room check (fits, wraps, fills the last cell, longer than the ring), words
shared by two fragments, and a NUL inside a text. In `two_threads` the contents
of the ring play no part, so two cells are enough for refusal and admission.
`two_writers` and `first_prints_race` use six cells and texts of at most two
characters, so that the last cell is not what loses text. Types of 2, 4 and 8
bits with four-bit handles are a narrow, an exact and a by-address type; operands
are the edges of each type and its neighbours; pointers and offsets are
exhaustive. `MaxCalls` is the only counter bounded for TLC's sake: one call shows
everything about one diagnostic, three let two threads overlap and one of them
report again. Deadlock is not checked for the handlers: a stopped game stops; nor
for display lists, which end.

Words of four bits leave every shift amount, sign and half of a doubleword, and
the instructions treat all bits alike. `MCArguments` holds nothing, one, the
widest value of a field, the first beyond, and a negative. Images are as narrow as
part of a word and as large as texture memory or just larger; the lines of 80
16-bit texels are of a number of words that does not divide 2048, and the 320x9
image is one whose rounding adds up to a word. `MaxLoads` of three lets a
load follow one that is still drawn from, and reuse its place. All render modes
and combiners are in the instance; two mode calls (`max`) are enough for one to
disturb what the other set. Lights come in sets of 0, 1, 2 and 7 with two
structures each, in three calls, so that a small set follows a large one; one of
the structures, of the colours and of the matrices has bit 31 in its word. Four
matrix calls nest two pushes. Handlers print through a ring of four cells, which
is less than one diagnostic, so that fragments are refused and lost;
with two threads that instance is beyond TLC, and `ImplementsHandlers` is checked
for one.

**Fairness.** `FairSpec` asks weak fairness of each thread inside the wrapper
(`ISViewer`) or inside a handler (`UbsanHandlers`, `SanitizedLog`), nothing of the
game calling it, of `_Printf` having another fragment, or of the host. The code takes no lock
and waits for no other thread, and the console's scheduler runs a thread that
stays ready. PI accesses complete.

## What is proved

The theorems hold for every value of the constants that meets the ASSUMEs of the
modules, which TLC evaluates for its instances. Each rests on an inductive
invariant, preserved action by action, or on a refinement, which brings the
theorems about the abstract module to the detailed one.

### The ring

`ISViewerProofs`, for every set of threads, ring size, word size and set of
texts (`RingAssumption`: sizes at least one, texts are sequences of characters):

- `TypeCorrect`: `TypeOK` is inductive as it stands; it carries two facts the
  loop needs, that `i` moves only inside the loop and that a store has a
  character left.
- `InitialisedBeforeUse`: `UsedAfterInit` for any number of threads. It is not
  inductive: the flag says nothing of the handle, nor the magic of the viewer.
  `InitInv` adds that the flag implies the handle, the magic implies a viewer,
  and a thread past the first step of `isPrintfInit` has set the handle.
- `RefusalIsJustified`: from lemma `RefusedIffFull`, the two-armed comparison is
  exactly "distance plus length exceeds the ring".
- `RoomIsThere` and `UnreadIsKept` for one printing thread. `SoloInv` says that the
  position read underestimates the host, that unread text, text copied so far
  and text left fit the ring together, and that the word about to be written
  back is what the ring holds. Lemmas `DistNext`, `DistTake` and `DistAdd` carry
  the modular arithmetic. Neither holds for two threads (`two_writers`).

The refinement, `RingImplementsFifo`, is proved there too: with one printing
thread, `Spec` implies `Log!Spec`, each step of the ring being a step of the FIFO or
a stutter. The mapped queue is the cells from `get` to `put`. `FifoInv` says why
`Publish` appends the fragment whole: it has room until it is published, and the
n-th visible character consumed lies n cells past `put`. `LogChannel` therefore
defines `Visible` by the rank of a character and not by a recursion; lemmas
`RankNext`, `RankIsOrder` and `VisibleNth` say what ranks are. `StepKeepsUnread`
(behind `UnreadIsKept`) gives the stutters of the copy loop.

`ISViewerSessionProofs` adds `NothingStale`, `OnlyThisSession` for one thread:
`SessionInv` says that every unread cell, and every cell the copy loop has passed,
was written in this session. It rests on `SoloInv` and on three lemmas about
distances around the ring.

### The handlers

`UbsanHandlersProofs`, for every set of threads, locations and operations and every
width of a handle:

- `TypeCorrect`: `TypeOK`.
- `StyleIsReset`: `StyleReset`. It needs that the last piece left to print is the
  reset (`ResetIsLast`), and that the style is normal when no thread has a piece
  left (`NoneLeft`): of two threads, the one that ends last resets it.
- `AbortIsNoreturn`: the action property `AbortNeverReturns`.
- `DiagnosticsTrue`, `IntsAreShown`, `RecoverableEntriesReturn`: `Truthful`,
  `IntOperandsShown`, `RecoverableReturns`, given `CurrentCompiler`: a current
  compiler emitted the checks, with operands of their types and file names that
  are paths. `MCCompiler` is an ASSUME that the instance of `every_check` meets it;
  `old_cast` shows what happens without.

`IInv` is the conjunction of the first parts, and `Next` preserves it action by
action. That every diagnostic starts with bold, has the error in it and ends with
a reset is a lemma about `Ubsan_DiagImpl` (`Framed`). `ReportsInv` adds `TodoSays`:
what a thread has left to print says only what is so of its operation. That is
decided when a handler is entered, so the lemmas behind it are about operators:
decoding a handle inverts what the compiler encoded, inline, exact or by address;
a decoded operand passes every CHECK; the comparison of the two addresses in
`handlePointerOverflowImpl` tells which way the sum wrapped.

### Handlers over the ring

`SanitizedLogProofs`: for any number of threads a step of `SanitizedLog` is a step of
`ISViewer` or leaves it alone (`PrintsThroughTheWrapper`), and a step of
`UbsanHandlers` or leaves it alone (`HandlersUnaware`, the safety part of
`ImplementsHandlers`): `Done` is the only step of the wrapper that moves a handler.
So the theorems about both hold here (`HandlersStaySound`: `StyleReset` and
`AbortNeverReturns` of the handlers). `ScreenIsReset` is proved
for one thread. `StyleInv` says that once a handler has handed over its reset or has
nothing left (`Settled`), and no style was lost, what is unread on the ring leaves
the screen in the normal style; and that the fragment in the callback is the one
the Printf sent last (`Handing`). It sees the ring as the queue `unread` of `RingInv`.

### Shifts and arguments

`O32CallsProofs`, for every width of a word, every set of threads, requests and
operands of that width (`ShiftAssumption`), and every set of calls with a
conversion for each argument (`CallsAssumption`):

- `TypeCorrect`; `ReturnsTheShift`, `ReturnsSignExtended`, `DecodesOperands`, which are
  `ShiftsAsInC`, `ReturnsWords`, `SignExtends`. `IInv` says for each instruction what
  the registers of a thread, or its context while another runs, hold in terms of
  its request (`Computed`), and which request it makes while it decodes (`Decodes`).
- `FollowsU64Shift`: a behaviour of `O32Calls` is one of `U64Shift`.
- `ArgumentsArrive`: `ReadsItsArgument`. `ArgumentsInv` says where each argument was put
  (`Placed`), and that while the conversions fit, `va_arg` stands where the caller
  stood after as many arguments (`Walked`).

### Display lists

`DisplayListProofs`, for every set of integers as arguments. All rest on `Written`:
the last list is empty, or what one of the macros makes of some arguments. A bit of
a word is a binary digit (`BitIsDigit`), of negative arguments too.

- `OpcodesKept`: `OpcodeKept`. A macro cuts what it puts into a field to the width it
  shifts in (`ShiftedIn`), which is below the opcode.
- `FieldsAreKept`: `FieldsKept`. A bit field is as far down as the widths before it add
  up to (`LaidOut`, `FieldAt`); `OfGdma` to `OfGsettile` say where those of the union
  `Gfx` are, `DmaReads` to `TlutReads` what the macros put there. Arguments that are
  scaled, halved or wrapped before take lemmas on digits (`FourTimes`, `Wrapped`).
- `QuadsAreWhole`: `QuadsKeepTheirOutline`, for four different vertices that fit
  a byte when doubled (`QuadAssumption`).
- `FogIsThick`: `FogThickens`, for bands of depths from 0 to 1000 (`FogAssumption`).
- `TexelsAreKept`: `ClippedRectKeepsTexels`, for positions and steps of 16 bits that
  cut off no more than a texture coordinate holds (`RectAssumption`).
- `MatricesAreRestored`: `MatricesAsWanted`, for every set of matrices and every nesting
  of pushes, loads, products and pops. The property speaks of the moments between lists
  only, so the invariant, `SceneInv`, adds what a list under way will do: it is one packet
  that makes of the RSP's matrices what is wanted (`Makes`), or it is about lights and
  leaves them alone (`Lights`). `MatrixPacketIs` and `PopPacketIs` say what the RSP reads in
  the two packets, `PacketRuns` that it then does what the call meant. Matrices lie
  at any address of 32 bits, and the bytes of all that is pushed are an `int`
  (`MatrixAssumption`).
- `LightsAreLit`: `LightsAsWanted`, for sets of up to seven lights and look-at vectors
  with any colours and directions, at any addresses at which they do not overlap
  (`LightAssumption`), and any number of calls in any order. `WantedAt` says what word
  the scene wants in which place of the RSP's memory. The invariant, `LightInv`, is that
  what is wanted in a place is there, or a packet that is left puts something there; and
  that no packet that is left puts there anything else than what is wanted (`Settles`).
  A call starts with nothing left, and its packets bring all that it changes (`Renew`):
  `SetIsLaidOut` and `WordInside` say where in memory the words of a structure are,
  `DmaCopies` and `MoveStores` where the packets put them. The lights of a larger
  set that stay behind are in places where the smaller one wants nothing.

`DisplayStateProofs`, for every choice of render modes, combiner presets and geometry
flags from the tables of `gbi.h`, and lists of every kind and length:

- `RenderingState`: `ImplementsRenderState`, the whole refinement. `ModesInv` is the
  inductive invariant. `Consistent` says what every list leaves in the words: each
  option's bits are one of its values, the bits of the render mode are those of a
  pair of the table, the combiner packet is a pair of presets as the macro packs it,
  and the shadow agrees with the RDP unless an expert writes. The refinement needs
  it because a setter replaces a part of the shadow and sends both words whole:
  only if the rest was consistent does the rest read as before. `Does` says what a
  call changes in what the words show (`Now`); a step of `DisplayModes` is the step
  of `RenderState` of the same name. Its last conjunct covers a repeated
  call, for which `RenderState` has no step: what it asks holds already (`Again`).
- `DepthIsKept` and `MemoryIsRead`: `LayersKeepDepth` and `BlendedIsRead`, from the same
  invariant. `Good` says it of one mode; that each mode of the table is `Good`, and
  each preset packed and read slot by slot (`SourcesAre`), is proved entry by entry.

The bits of the options do not overlap (`AreasApart`), each value reads as itself
(`ReadingIs`), and a packet of `gSPSetOtherMode` names the bits it replaces by 32 less
a length and a shift, which the RSP undoes (`Replacing`). So that the provers can see into
the tables, `GbiModes` joins them with `Joined` and not with `@@` of TLC.

### Powers of two

The provers know nothing of `2 ^ n` and cannot be given induction on n. `PowersOfTwo`
counts instead: `2 ^ n` is the number of subsets of 1 .. n, of which the library has
theorems, and the laws of powers follow (`PowerOfSum`, `PowerOfNext`,
`PowerIsGreater`). Sums over a set are cardinalities too (`Tally`) and equal the folds
of the community modules (`FoldIsTally`); the digits of v below the n-th add up to
v % 2^n (`ValueOfDigits`).

### Only model-checked

- Liveness (`CallbackReturns`, `Finishes`, the fair part of `ImplementsHandlers`) and
  ENABLED are out of the prover's reach.
- `TexelsInPlace` and `PalettesApart` follow every texel through a list of packets,
  as the RDP reads them, into texture memory. TLC executes the lists.
- `ScreenReset` for two threads does not follow from a FIFO: two writers overwrite
  each other (`two_writers`), and what the ring promises them is still to be stated.

## Seen while modelling

Beside the five findings, these are stated as the exceptions in a property:

- `handleFloatCastOverflow` passes 64-bit values to `%lu` and `%li`
  (ubsan_handlers.c:569-573), one word under o32: the number shown is its upper
  half, and the `%s` that follow take other words for pointers. `Fits` leaves out
  these conversions and those after them.
- `CheckFailed` prints its operands with `%zx` (sanitizer_termination.c:25), which is
  not in the C89 that n64_io.h:9 promises to be content with.
- A float cast at a location without a file name is an exception
  (ubsan_handlers.c:521), where every other handler prints `<unknown>`
  (ubsan_diag.c:40). `NamesFile` leaves it out of `RecoverableReturns`.
- A diagnostic that another thread's halt cuts is left half printed and bold: nothing
  in the code completes it. `StyleReset` speaks of the states in which no thread is
  in the middle of one.
- A fog band narrower than four units overflows the 16 bits of its multiplier
  (gbi.h:2433), and fog thins with depth: `FogThickens` says when.
- A 320x9 image of four bits fits texture memory, and its last line is out of
  place: `dxt` is rounded up (gbi.h:2887), although gbi.h:2868-2876 calls the macros
  transparent. The last conjunct of `Fits` in `TextureLoads` says when.
- `gsDPSetConvert` shifts `k2` left (gbi.h:3665) where `gDPSetConvert` shifts it right
  (gbi.h:3659), so its bits land on `k1`. Only the latter is modelled.

## Not modelled

- Ocarina of Time's log, `n64_string.c`, the enumerators of `ubsan_checks.inc` and the
  build have no state or decision of their own. The formatting inside `_Printf`
  belongs to the game. If that `_Printf` is sanitized itself, a handler can call
  itself without end (n64_io.c:116): it depends on the game's build.
- Handlers inside `#if 0` are not compiled. Levels and kinds of location no handler
  passes (DL_Note, LK_Memory, LK_Null, vs_style) are left out, as are floats wider
  than 64 bits.
- `abi.h`, `gs2dex.h`, `r4300.h`, `controller.h` and the rest of the vendored headers are
  declarations, register addresses and the macros of other microcodes; nothing in
  `src/` uses them.
- Of `gbi.h`: the microcodes other than F3DEX_GBI_2, which the build selects;
  sprites, lines, the words of a matrix set one by one. A static form (`gs...`) is
  the same definition as the macro it repeats; `gsDPSetConvert`, which differs from
  its macro, is left out. Triangles and what the RDP draws are hardware.

## Plan

Done, in this order: `LogChannel`, `ISViewer`, `UbsanValue`, `UbsanHandlers` and the
proofs about `ISViewer`; `U64Shift`, `O32VarArgs`; `SanitizedLog`; the display list
modules; `ISViewerSession`; the proofs about sessions, handlers and the refinement
of `LogChannel`; powers of two, and with them operands, shifts, arguments and
packets; the refinements and the screen of `SanitizedLog`; the refinement of
`RenderState`; matrices and lights. What is left:

1. `PalettesApart` and `TexelsInPlace` proved for images of any size.
2. `SanitizedLog` for two threads, with the ring abstracted to a `LogChannel` with
   two writers, whose promise is still to be stated.
