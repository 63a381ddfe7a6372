# Sprite Grabber: a TLA+ model of the program, checked and proved

Sprite Grabber (`src/source/grab_sprites/source/`) is a command line tool. It
reads config files, cuts sprites (*frames*) out of bitmaps, packs the frames of
each config file into one square texture atlas, and writes for every atlas a
bitmap, a binary table of frames and a C header of `#define`s, and then for the
whole game a master table, a master header, a texture list and a UID list. It
has one thread and no network. What makes it hard is long arithmetic over
static arrays, state that survives from one texture to the next, a text buffer
that is edited while it is walked over, and files that outlive a run while the
user edits them and runs fail or die.

All paths of sources below are relative to `src/source/grab_sprites/source/`.

## 1. The parts

| part | files | state | operations |
|---|---|---|---|
| packing tree | `cNode.cpp` | nodes: position, size, `m_bUsed`, `m_pChild[2]` | `SetPos`, `Insert` |
| packing | `cFrame_pack.cpp`, `cFrame.cpp:473` | `s_PackWidth/Height`, `s_PackBorder`, the list `s_pFirst`/`m_pNext`, `m_DestX/Y` | `Pack_All`, `Pack_TrySize`, `Sort` |
| placing, trimming | `cFrame.cpp:92-334`, `cBitmap.cpp:285-333` | `m_SourceX/Y`, `m_Width/Height`, `m_CenterX/Y` | `PlaceBoxAndShrinkWrap_All`, `PlaceBox`, `ShrinkWrap` |
| sections | `process_ini.cpp:173-394` | `Bitmap[]`, `s_nBitmaps`, `Frame[]`, `s_nFrames`, `g_UID[]` | `add_bitmaps_and_frames`, `cBitmap::Add`, `cFrame::Add`, `Free_All` |
| runs | `main.cpp`, `process_ini.cpp:400-510` | the files: config, sources, header, bitmap, table, master header and table; `Force`, `iSprite` | `main`, `process_ini`, `SaveTable` |
| config files | `cINI.cpp` | `m_psData`, `m_psDataEnd`, `m_BufferSize`, `m_psScan`, `m_bChanged`, `m_bSecureSave` | `Open`, `GetString`, `SetString`, `EnumSection`, `EnumKey`, `Data_Save` |
| headers | `cHeader.cpp` | `m_psData`, `m_DataSize`, `m_DataUsed`, `m_psAppend`, `m_psRead` | `Open`, `ReadReset`, `ReadValue`, `Append`, `DefineValue`, `Save` |
| copying | `cFrame_copy.cpp`, `cBitmap.cpp:569-637` | the pixels of the atlas | `Copy`, `Copy_All`, `InitDestBitmap`, `SaveDestBitmap` |
| loading, conversion | `cBitmap.cpp:42-554` | `Bitmap[]`: `m_pFIB`, `m_Width/Height`, and `s_pActive` | `Open`, `Free`, `Free_All`, `DoAlphaCutOff`, `DoConvertARGB`, `DoUnMultAlpha` |
| platform | `file.cpp`, `log.cpp`, `maths.cpp`, `string_s.cpp`, `endian.cpp` | - | wrappers of the C library |
| not reached from `main` | `spr.cpp`, `cFont.cpp`, `cText.cpp` | - | viewer's table, fonts |
| vendored | `src/FreeImage/` | - | loading, scaling and saving of images |

How they interact. `main` walks over the main config file with
`cINI::EnumSection` and calls `process_ini` for each section. That opens the
config file of the texture, lets `add_bitmaps_and_frames` fill the arrays
`Bitmap` and `Frame` and save the header, compares the time of the old bitmap
with the newest of its inputs, and if need be places and trims the frames,
packs them (`Pack_All` calls `cNode::Insert` for every frame, up to four sort
orders for every side), copies the pixels and saves bitmap and table. Phase 2
of `main` reads all headers back (`cHeader::ReadValue`) and appends all tables
to the master files. The parts share state through static arrays that
`Free_All` empties only by resetting their counts, and through files.

What makes each part correct:

- the tree never hands out pixels twice or outside of the root, overlooks no
  room it has, and cannot fail while there is enough;
- packing ends, leaves every frame inside the texture with the border between
  frames, and nothing that the 16-bit fields of the table cannot hold;
- boxes of one run do not overlap, and trimming takes exactly the transparent
  edges;
- one bitmap is open at a time and it is the right one, with the pixels its
  section asks for; every visible pixel of a sprite is in the atlas at the place
  the table and the sprite's center say, and nothing else is;
- the `#define` of a section is the index of its first frame, each frame shows
  the file its section asks for, and sections miss no frames;
- a run that passes leaves the outputs that a build from nothing would, and the
  master header indexes the master table;
- an edit of a config file changes one key, a walk over it sees every section
  once; nothing outgrows a buffer, what was written is read back.

## 2. The modules

| module | models | composed with |
|---|---|---|
| `Rects` | rectangles: `Inside`, `Disjoint` | - |
| `Atlas` | abstract: what a packer promises, a bin and rectangles placed in it | - |
| `cNode` | `cNode.cpp` | implements `Atlas` |
| `cNode_proofs` | theorems about `cNode` | extends `cNode` |
| `Bitmaps` | `cBitmap.cpp`: `Open`, `Free`, the conversions, `IsClearH/V` | used by `Frames` and `Copy` |
| `Frames` | `cFrame::PlaceBoxAndShrinkWrap_All` | extends `Bitmaps`; step 1 of `Texture` |
| `Pack` | `cFrame_pack.cpp`, `cFrame::Sort` | contains a `cNode` (`Tree!`) and uses its actions; step 2 of `Texture` |
| `Copy` | `cFrame_copy.cpp`, `InitDestBitmap`, `SaveDestBitmap` | extends `Bitmaps`; step 3 of `Texture` |
| `Texture` | `process_ini` from the frames to the files, `SaveTable` | instances of `Frames` (`F!`), `Pack` (`P!`) and `Copy` (`C!`) over shared arrays |
| `Sections` | `add_bitmaps_and_frames`, `Add`, `Free_All` | its frame lists are what `Texture` begins with |
| `Run` | `main`, `process_ini`, over files, time, crashes and failing writes | takes a section for its frame count: see `Sections` |
| `cINI` | `cINI.cpp` and a caller that loops over the sections | - |
| `cHeader` | `cHeader.cpp`, a writer and a reader | - |
| `MC*` | the small instances TLC checks | extend the module they are named after |
| `Sums` | the sum of a list | used by `Bitmaps`, `Pack`, `Run`, `cHeader` |
| `Powers` | powers of two: what integers of a number of bits can hold | used by `Pack`, `Texture` |
| `ListLemmas` | lemmas on least elements, sums, flattened lists and powers of two | used by the proofs |
| `Pack_proofs`, `Run_proofs`, `Sections_proofs`, `cINI_proofs`, `cHeader_proofs` | theorems | extend the modules they are named after |
| `Texture_proofs` | theorems about `Texture`, and about `Frames` and `Copy` in it | extends `Texture`, uses `Pack_proofs` as an instance |

`Texture` is the composition of the core. `Frames`, `Pack` and `Copy` declare
the arrays `Bitmap` and `Frame` as far as each uses them; `Texture` has the
arrays once and a program counter for each step, and every action of the three
modules is an action of it. A texture begins with what the one before has left:
sizes of bitmaps, an open bitmap, positions of frames. `Pack` uses `cNode`
through its actions (`SetRoot`, `Insert`, `Visit`), and run `texture` checks that
it uses it as `cNode` specifies (`TreeSpec`), so what is proved of `cNode` holds
in every attempt. The other modules meet at data: `Sections` says which frames
with which boxes there are, and `Run` when all that happens and what becomes of
the files.

### State and actions against the code

- **cNode.** The tree is the sequence `heap` in order of allocation; `kid` and
  `kid + 1` are `m_pChild[0]` and `[1]`. The recursion of `Insert` is `stack`,
  the nodes still to be visited, innermost call first. `Visit` is one entry of
  `Insert`: `Descend` (lines 90-99), `Refuse` (101-109), `Take` (111-115) and
  `Split` (117-136; the recursive call that follows finds an inner node).
  `claimed` is history.
- **Pack.** `PackAll` is the call, `QuickReject` and `StartTry` the head of
  `Pack_TrySize`, `FirstPass` and `SortPass` one pass of the loop of `Sort`,
  `InsertFrame`, `Search`, `Placed` and `NoRoom` one turn of the insert loop,
  `NextTry` the loops of `Pack_All`. A `long` wraps at `LongBits` and a
  `long long`, which `Sort` has its keys in, at twice as many bits. `Found` are the
  frames whose key has not wrapped below 0: `Sort` begins with a best key of -1
  and leaves out the others, and where it finds none `s_pFirst` stays what it was.
  `dest` is kept through failed attempts and over textures, as the static array
  is. `PackAll` has the part of `cFrame::Free_All` that drops the list.
- **Bitmaps.** `file` is what `Add` has stored for each element of `Bitmap` and
  what is behind the file name; `metrics` and `fib` are the fields that survive
  `Free_All` or not; `Open` is one call with all its early returns. A pixel is
  its alpha and one color component. `Look` is the pointer arithmetic: a column
  right of the bitmap is the row above it, and memory beyond can hold anything.
- **Frames.** `PlaceBox` is one call; `ShrinkWrap` is one action per row or
  column it takes off. `ReadNull` is the access through a null pointer when a
  bitmap that did not open is to be trimmed. `box` is history.
- **Copy.** `CopyFrame` is one call of `Copy` with its early returns (`Left`)
  and all its rows. `allocated` says whether `InitDestBitmap` got its bitmap; if
  not, each `Copy` returns and nothing is in the atlas, but the table is written.
- **Texture.** `stage` is the function `process_ini` is in; `Begin` is all that
  comes before, `SaveTable` keeps of each field what a `WORD` or `short` keeps.
- **Sections.** One action per turn of each loop of `add_bitmaps_and_frames`.
  `cBitmap::Add` and `cFrame::Add` are the operators `AddBitmap` and `AddFrame`
  of those actions; both raise their count before they look at the limit.
  `total` is the local `TotalFrames`, anything of `Garbage` until it is set.
- **Run.** One action per step that touches a file. `Edit*` are the user,
  `Tick` is time, `Crash` ends a run anywhere. `Die` is the `exit` of main's
  failure path. A file has what it holds and its time; each write ends in one
  of `Outcomes`: saved, refused (the old file stays) or cut (a full disk), and
  the code goes on in all three. `suspect` is history: the textures whose bitmap
  and table may not belong together, because something failed, a run died or an
  edit came between the two; `Fresh` excepts them until they are built again.
- **cINI.** The text is a sequence of symbols, a position a pointer into it;
  `m_psScan` is `scan`. What the byte behind the buffer holds is `beyond`.
  `Get` is `GetString` (with the default left in place of a missing key),
  `SetString` includes the `Modify` and `NewSection` paths with `Data_Expand`.
  `Save` is `Data_Save`, whose write may fail: `lost` remembers that it did.
  `EnumKey` is one call; `KeysSeen` is the loop it is made for.
- **cHeader.** The text is a sequence of items with lengths; a number takes the digits
  `%i` prints; the buffer grows by `HEADER_CHUNK_SIZE`. `saved` is history. `Open` and the `ReadValue` calls that follow are the
  loop of phase 2 of `main`.

## 3. What is checked

Every property has a seeded fault of the code it notices: the definitions
marked as such in the modules, listed in `PROJECT.json`.

| run | asks | bounds |
|---|---|---|
| `tree` | leaves tile the root; search skips nothing; null only when full; no failure while the longer sides add up to less than the root's; implements `Atlas`; every `Insert` returns | roots 3x3 and 3x2, all boxes, any number of calls: all reachable trees |
| `texture` | every visible pixel of a frame is in the atlas where table and center say, and nothing else; one bitmap open and converted right; boxes apart; trimmed frames tight; lists sorted; frames apart; table fields exact; the tree used as specified; `process_ini` returns | all black and white pictures of 3x3 pixels and of 3x2 under seven frame lists with memory beyond clear or set, all pixels of 3-bit components with three conversions, bitmaps shrunk to a half or to nothing, files that do not open, thirteen frame lists to pack with borders -1, 1, 3, three of them with a frame whose key of method 1 wraps below 0; `long` of 8 bits, `long long` of 16 and `WORD` of 4 for 32, 64 and 16, a destination bitmap that can be allocated or not, textures from side 2 to beyond the overflow; one of these textures and then one of two others |
| `sections` | indexes, files, sharing, completeness, UIDs, return | arrays of 3 bitmaps and 4 frames, 208 config files of 2 to 4 sections that fit or overflow them, two textures in a row |
| `rebuild` | outputs as from nothing after any reliable run; the master header finds the frames in the master table; master files agree | two textures, four config files, two states of the sources, times 1-3 with edits in the same tick, two events (edits, deaths, writes that fail), any number of runs |
| `ini` | one key per edit; the walks see each section and each key once; buffer large enough; unsaved is known | files of one or two lines of six kinds, where it matters without the last end of line, and of three headers and keys; one `Open`, of the file or of one that is not there, and one edit, before it or after; two sections and keys, writes that fail |
| `header` | counts and buffer agree; `Save` that does not write need not; what is defined is read back | three items around one boundary of the buffer, two objects, writes that fail |

Why these bounds. A 3x3 root already has splits in both directions, on both
sides, and a leaf that is left over; the theorems of section 5 lift what is
found there to all sizes. `LongBits = 8` brings the overflow of the quick check
within reach of TLC, and the sides run through it; the frame of 14x14 pixels wraps
`GetPixelsUsed` below 0, as 60000x60000 does in the program, and is left out
by method 1 when it is among others and found again by method 2 when it is alone. Three bitmaps and four frames
are the fewest with which two sections can share, fill and overflow both arrays
in either mode. Two textures are the fewest with which state can leak from one
to the next; two events and three ticks allow an edit before, during and after a
run and in the tick of a write, and a second thing to go wrong after it. Three
lines hold two sections and a key; malformed lines meet each other line in files
of two. A picture of 3x3 pixels has an inner pixel and an edge on every side, and
the second texture of `texture` needs only to differ from the first in what it
leaves unset.

`CHECK_DEADLOCK FALSE` is said where the system may really stop: an instance of
`Texture` or `Sections` fails or has had its textures, and the calls of `Run`,
`cINI` and `cHeader` are bounded.

### Fairness

`cNode` (`FairSpec`), `Texture` and `Sections` have weak fairness on the
steps *inside* a call: the program has one thread, so a call that was made runs
until it returns. Nothing is assumed of the caller: that it calls at all, or
again. `Run`, `cINI` and `cHeader` have no fairness, as a user may do nothing
and a run may die.

`Terminates` of `Texture` holds for frames whose longer sides with border add up
to the largest side whose square a `long` can hold (32768). Beyond it the quick
check multiplies to 0 and rejects every size, and the sides are shifted out:
that is a hazard the property states the limit of.

## 4. Where the program and its documents disagree

Six runs are expected to find a violation. Each checks one sentence of a
comment or of the reference manual against the code:

- `uids` (`AllUids`, `process_ini.cpp:377`): in box mode the UID list gets
  `TotalFrames`, which only sequence mode sets.
- `frame_max` (`FramesWithinMax`, `process_ini.cpp:290`): nobody looks at what
  `cFrame::Add` returns for the first box of a section, so that the texture
  goes on with more frames than the array has.
- `argb` (`PixelsConverted`, `cBitmap.cpp:524`): two sections on one file that
  convert pixels differently share one entry.
- `up2date` (`UpToDateIsNewer`, `process_ini.cpp:472`): only the bitmap's time
  is looked at, and it is written before the table: after a run that died in
  between the old table stays for good.
- `stale_header` (`DefinesFound`, `process_ini.cpp:320`): the first section
  without frames, or whose file name has no number, ends a config file with
  success and without saving the header, so that the master header defines
  sections that are not in the table.
- `texture_numbers` (`TextureNumbers`, `main.cpp:336`): on a big-endian machine
  the texture number is added to bytes that are already in file order.

Smaller observations are exceptions that the properties name, with an entry
under `hazards`: a new key behind a header without an end of line, or a value
directly behind a bare key, is lost (`Spoiled` of `cINI`); a section header
that is empty, not closed or the last thing in the file can stop or restart the
walk (`Enumerable`); a section name of two words stops the merge of headers
(`Plain` of `cHeader`); a border of 3, which the manual allows, is packed as 2; a `shrink`
outside 1 to 8 is not stored, so that its file gets an entry of its own each
time a section asks for it, even one without a frame when `Frame` is full
(`NoBitmapTwice` is about textures that have no such `shrink`); a frame to be trimmed on a bitmap that does not
open crashes the program (`ReadNull`); a key that is there twice is returned by
`EnumKey` for ever; a frame of, say, 60000x60000 pixels passes the quick check,
as the sum of pixels has wrapped below 0, fails in method 0, and is left out by
`Sort` in method 1, whose key has wrapped too: `Pack_TrySize` returns true without
it, and the table gets the position the frame had before (`Found`;
`SortedList` and `FramesApart` are about the frames `Sort` finds, and say that
it finds all if `PixelsCounted`).

## 5. What is proved

`cNode_proofs` proves with TLAPS, for roots and boxes of every size and any
number of calls, from the one assumption `SizesAssumption` (sizes are positive
integers):

| theorem | states |
|---|---|
| `TypeCorrect` | `Spec => []TypeOK` |
| `BoxesInsideRoot` | `Spec => []InsideRoot` |
| `LeavesNeverOverlap` | `Spec => []LeavesTile` |
| `SearchSkipsNothing` | `Spec => []NothingSkipped` |
| `GivesUpOnlyWhenFull` | `Spec => NullOnlyWhenFull` |
| `TreeIsAnAtlas` | `Spec => AtlasSpec` |
| `OneLeafStaysBig` | `Spec => []BigLeaf` |
| `RoomIsEnough` | `Spec => NeverFailsWithRoom` |

The argument. "Boxes handed out do not overlap" is not inductive: a split
replaces a free leaf, so it needs to be known of free leaves too, and of a leaf
against inner nodes, or nothing is known of the children of a leaf that is cut.
`LeavesTile` says both: a leaf shares no pixel with another node, unless it lies
under it, and then it lies under one of its two children. It is inductive
together with `TypeOK`, which has the order of parents and children. The
geometry is in `HalvesApart` (the halves of a node lie in it, have pixels and
have none in common), what a split does to the heap in `SplitNodes` and
`SplitPlaces`. From that `NothingSkipped` follows step by step: a leaf the box
fits in that lies under the node visited lies under one of its children
(`UnderVisited`), and both children take its place on the stack. When the stack
is about to become empty without success only one node was left, and it was
refused: `NullOnlyWhenFull`. The refinement needs in addition that the root
starts at the origin with a size it was given (`RootIsBin`); then `SetRoot` is
`NewBin`, `Insert` is `Ask`, `Take` is `Place` and every other step stutters.

`BigLeaf` is about what the first version of a proof would miss: between the
split of a leaf and the use of its first half no leaf may be as large as the
room that is left, so the invariant has a second case that speaks of that
moment (`Target`). A split of the largest leaf takes the box's width or its
height off it, never both, so its second half keeps what remains
(`SplitKeepsRoom`); a box that uses a leaf up as it is was at least as large as
the room (`TakeKeepsRoom`). With `NullOnlyWhenFull` it gives
`NeverFailsWithRoom`, on which the end of the doubling loop of `Pack_All` rests.

The other modules have theorems of the same kind. Each rests on the assumption
of its module alone (`PackAssumption`, `SectionsAssumption`, ...), unless the
table says more.

| module | theorem | states |
|---|---|---|
| `Pack_proofs` | `PackInvariant`, `PackTypeCorrect`, `PackedApart`, `ListIsSorted` | `Inv`, `TypeOK`, `FramesApart` and `SortedList` of `Pack`: the last two about the frames `Sort` finds |
| | `CountedFramesApart` | all frames with pixels are inside the texture and apart, as long as `PixelsCounted` |
| | `SidesFit` | `SideInv`, as long as `PixelsCounted` |
| | `TreeUsedAsSpecified` | `Spec => TreeSpec`, as long as `PixelsCounted` |
| `Texture_proofs` | `TextureInvariant` | `TexInv` |
| | `OneBitmapOpen`, `BoxesInARunApart`, `ShrinkWrapIsTight`, `ListSorted`, `PackedFramesApart` | `OneOpen`, `BoxesApart`, `WrapIsTight`, `SortedList`, `FramesApart` |
| | `PicturesAreConverted` | `PicturesConverted` |
| | `TextureTypeCorrect` | `TypeOK`, if `FrameSizes`, which bounds the runs, holds every size |
| | `CentersAndTable` | `CenterInv` and `TableMade` |
| | `AtlasHasFrames` | `CopyInv`, as long as `PixelsCounted` |
| | `TextureSidesFit` | `SideInv`, as long as `PixelsCounted` |
| | `TextureUsesTree` | `TreeSpec`, as long as `PixelsCounted`, if `FrameSizes` holds every size |
| | `TableIsExact`, `SpritesAreShown` | `TableExact`, `AtlasShowsSprites`, as long as `PixelsCounted` and `BoxesSmall` |
| `Sections_proofs` | `SectionsInvariant` | `SecInv` |
| | `SectionsTypeCorrect`, `IndexesOfHeader`, `FramesShowTheirFiles`, `EachBitmapOnce`, `SectionsAreComplete`, `SequencesInUIDs` | `TypeOK`, `HeaderIndexes`, `FramesShowFiles`, `NoBitmapTwice`, `SectionsComplete`, `SeqUids` |
| `Run_proofs` | `RunTypeCorrect`, `MasterFilesAgree` | `TypeOK`, `MasterIsAllTables` |
| | `QuietRunsRepair` | `Fresh`, if the time of a missing file is 0 |
| | `QuietRunsFindSprites` | `SpritesFound`, if so and there are at most 65536 textures |
| `cINI_proofs` | `INITypeCorrect`, `TextFitsBuffer`, `NothingIsUnsaved` | `TypeOK`, `DataFits`, `NothingUnsaved` |
| | `WrittenIsRead` | `WriteRead`, if `PlainNames` |
| `cHeader_proofs` | `BufferFits`, `SavedTextIsOnDisk`, `HeaderRoundTrip` | `Fits`, `SavedIsOnDisk`, `RoundTrip` |

Where an assumption says more than that a constant is a number or a list, the
code justifies it: the longest line of a key is shorter than `INI_DATA_EXPAND`,
because `cTemp` has room for less; names of `#define`s are not empty; no `skipframes`
is negative, which makes no difference to a C remainder; a bitmap shrunk to no rows
is shrunk to no columns either, which is a bound of the model.

Four hypotheses are stated with the theorems that need them:

- `PixelsCounted`: a `long` can count the pixels of the frames that are packed.
  Beyond that the sum overflows, and the quick check of `Pack_TrySize` lets sides
  pass whose square a `long` cannot hold; `Sort` may leave out frames, which then
  lie anywhere. With it the key of method 1, the square of a number of pixels, fits
  a `long long` of twice the bits, and `Sort` finds every frame (`CountedFound`).
- `BoxesSmall`: the sides of a frame's box are at most what a `WORD` can say.
  What is packed is the trimmed frame, but its center is that of the box: a box of
  70000 columns trimmed to ten packs well and has its center cut off.
- `AnySizes \subseteq FrameSizes`: `FrameSizes` exists for TLC only, the set `Pack`
  takes its frames from; the theorem is about the code when it leaves none out.
- `PlainNames`: names of sections and keys are made of letters, values are one
  line that begins with neither a space nor "=". What else they are, a config
  file cannot say: a key "a b" is the key "a", a value "= 1" is the value "1".

Run `texture` has textures on either side of `PixelsCounted`: it holds of all but
those with the frame of 14x14 pixels, until the next texture is packed. TLC has
checked `CenterInv`, `TableMade` and, where `PixelsCounted` holds, `CopyInv` before they were
used, and `PlainNames` for the names of run `ini`.

Why the properties are not inductive, and what is:

- **Pack.** `FramesApart` speaks of the end of `Pack_All`, when the tree has
  done its work. `Inv` says in every state that each frame the attempt has come
  to owns a used leaf (`Own`), no two frames the same, and that the tree is one of a
  root that was set to this side (`RootAt`). That two leaves have no pixel in
  common is not proved again, it is `LeavesTile` of `cNode`. The list is a
  selection sort written as a fold (`Best`): `Pass` is what one loop of it has
  found, `Sorted` that nothing left over comes before what is listed, `Listed` that
  no frame is in the list twice even if it is left of an earlier attempt. Of frames
  whose key has wrapped nothing is claimed: `FramesApart` is about `Found`, and
  `CountedFound` shows when that is all of them. `SideInv`
  knows of the side that it is the start side doubled some number of times, so a power of two
  (`Doubled`), that a side which holds a frame with pixels is at most `SideMax`, the
  largest that a `long` can square, and that no position, those of earlier textures
  included, is beyond it. At twice `SideMax` the square overflows to 0, and stays 0 from
  there on: the quick check rejects all these sides because the pixels of the frames
  are more than 0, which is where `PixelsCounted` comes in. That the sides stay in this range is also
  what `cNode` asks of its roots, so `TreeUsedAsSpecified` follows.
- **Texture.** Frames are trimmed one by one while `PlaceBox` goes on from the
  neighbour's fields, so `BoxesApart` is not inductive: it needs to be known that a box was
  made from a neighbour not trimmed yet (`Made`, `Chain`, `GivenSizes`, and
  `Control` for where the two loops are). `Trim` is the loop invariant of the
  four loops of `ShrinkWrap`: no visible pixel has been cut off, and each side
  that is done has one; the loops on the left and right need not look whether
  anything is left only because the first two have found a pixel. `OnlyActive`
  says that `s_pActive` is the one bitmap with a picture. `Stages` says in which stage
  which loop rests, `AtlasOK` what of the atlas is set. `Texture` uses an
  instance of `Pack`; `PP` is `Pack_proofs` over the same variables and all sizes
  of frames, and the lemmas named `Same*` say that the two mean the same.
  The last theorem, `SpritesAreShown`, is what the others are for. It relates
  the bitmap, the box, the trimmed frame, the position, the table and the atlas, and each
  relation is an invariant of a different stage: `CenterInv` while frames are trimmed (the
  center of the box, counted from the frame's corner, whatever was cut off before),
  `TableMade` from the packing on, `CopyInv` from frame to frame of `Copy_All` (all
  pixels of the frames copied are in the atlas at their place, unless
  transparent, and nothing else is), `FramesApart` and `CountedFound` so that no later frame overwrites
  them, `Trim` so that no visible pixel is outside of the frame, and `TableExact`.
- **Sections.** `SecInv` says how the counts, which run ahead of full arrays,
  relate to these (`Counts`); which names the walk has passed (`Names`); what
  every loop leaves to the next (`Stages`); that `total` is the number of
  multiples of `skipframes` below the counter, without a division (`Steps`);
  that sections left behind are complete; and when two entries differ (`Apart`). An
  attempt to prove an earlier `NoBitmapTwice` failed with reason: it looked for
  a `shrink` that is not stored among the frames only, but a section whose frames no
  longer fit leaves an entry and no frame.
- **Run.** `FreshInv` is what makes the comparison of times sound: a bitmap
  newer than an input was made from it (`NewerIsCurrent`, where an edit in the tick
  of a write is the hard case), what the run under way has read is still so if no
  edit came between, and which textures it is done with. `Master` relates the
  master table to the textures merged so far, `UidsMade` the UIDs, `HeadersFound`
  the `#define`s and `iSprite`.
- **cINI.** An `Open` after another is beyond the bounds of run `ini`: what is
  kept and dropped by it is covered by the theorems, which are about any
  sequence of calls. Every search leaves a pointer in the text or one behind it: that is
  `INIInv` with the relation of the buffer and the text. The lemmas on `Expand` show
  that it makes enough room although it does not look at the size it is asked
  for. `WriteRead` compares what GetString returns before and after an edit, for all
  keys, and both are minima of sets of positions in two different texts. It is
  proved about texts: `Found` says by the lines of a text alone what is found in it (the
  first header of the section, the first line of the key behind it and before
  the next header), `GetIsFound` that this is what the scans of `m_psScan` find, and `OneFound` that
  there is only one such answer. An edit is a map of the lines of the old text to
  those of the new (`Moved`), a set of new lines (`Added`), and the knowledge that a
  line reads the same where it has moved to (`SameLine`). `FoundKept` then says that an
  answer stays when the new lines are `Harmless`: a key line, put behind a header,
  is harmless to every other key and section; a header behind everything is
  harmless to all. `KeyInserted`, `ValueChanged` and `HeaderAdded` are the three edits of
  SetString. The invariant `ReadInv` adds which file the last call belongs to.
- **cHeader.** An object without a buffer has no text, or `GrowTo` would be
  asked too late; a reader has seen just the `#define`s behind `m_psRead` (`ReadSoFar`).

Induction over data is done with sets: `NatSetInduction` and `RangeInduction` of
`ListLemmas` are induction for a set of numbers, and that the recursive
functions behind `SumOf`, `FlattenSeq`, `Best` and `TwoTo` exist is proved with
them.

Only model-checked so far:

- liveness (`InsertReturns`, `Terminates`, `Returns`) and whatever needs
  `ENABLED`: out of reach of the prover for good;
- `EnumInOrder` and `EnumComplete` of `cINI`: they compare the walk with
  the sorted list of all headers (`SetToSortSeq`, a `CHOOSE` among functions) and
  with a fold over the keys, so a proof needs the theory of sorted lists of
  finite sets first;
- the six runs of section 4, which show violations.

## 6. What is not modelled

- `src/FreeImage/`, third-party code: 99 lines of 100 of the repository's C and
  C++. The program's own code is 5,900 lines with its headers. Decoding,
  encoding and scaling of images are taken from how `cBitmap.cpp` uses them.
- Bitmaps that have columns but no rows left after shrinking, or whose size is
  no multiple of the shrink (`Divides`): what `FreeImage_Rescale` makes of a
  fraction of a pixel is its own. The rounding of floats in `DoUnMultAlpha`.
- The config file of `main` itself is fixed in `Run`, and a texture list that
  cannot be deleted is taken to be deleted.
- File handles (`FILE_open` leaves an empty file open), the hash of `MakeUID`
  (two names may have one UID), the size of `g_UID`, the list `SavedBitmap`,
  wording of headers and logs, and the limits of `cTemp`, `cLine` and of the
  buffer for a value.
- `passive_mode` of a config file: `process_ini` returns true before it reads or
  writes anything else (`process_ini.cpp:426-429`, "not implimented yet").
- Widths are those of the 32-bit builds: a `long long` has twice the bits of a
  `long`, a `WORD` and a `short` half of them.
- `cFont.cpp`, `cText.cpp` and the classes `spr.cpp` uses: the viewer's side.
  What `SPR_init_once` relies on is a part of `MasterIsAllTables`.
- Platform wrappers, apart from what `FILE_save`, `FILE_append`,
  `FILE_time_last_write` and `ENDIAN_flip_word` do (in `Run`, `cINI`, `cHeader`).

## 7. Plan

The order was: the tree and its abstraction first, as all output depends on it;
packing on top of it; where frames come from (`Frames`, `Sections`); runs over
files; the two text buffers all of them use; then pixels (`Bitmaps`, `Copy`), the
composition of the core (`Texture`), and writes that fail; then proofs, from the
tree up to what the two files of a texture show (`SpritesAreShown`), and of the
text buffers. What is left is `EnumInOrder` and `EnumComplete` of `cINI`: first
that the sorted list of a finite set of positions exists and is unique, then that an
edit keeps the list of headers or adds one at its end, with the maps of
lines of `cINI_proofs`.
