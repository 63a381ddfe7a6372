-------------------------------- MODULE Run --------------------------------
(***************************************************************************)
(* main (main.cpp) and process_ini (process_ini.cpp): a run brings the     *)
(* header, bitmap and table of each texture up to date (phase 1) and then  *)
(* merges all headers and tables into the master header and table (phase   *)
(* 2).  A texture is left alone when its bitmap is newer than its config   *)
(* file and its sources.  Files outlive a run; the user may edit config    *)
(* files and sources at any time, a run may die at any step, and a file    *)
(* may be impossible to write, which the run does not notice.              *)
(*                                                                         *)
(* A config file is the sequence of the frame counts of its sections, with *)
(* 0 for a section without frames and -1 for one that cannot be processed; *)
(* the sources of a texture are one value.  See Sections, Frames and Pack  *)
(* for what becomes of a section.                                          *)
(***************************************************************************)
EXTENDS Integers, Sequences, SequencesExt, FiniteSets, Sums

CONSTANTS
  N,              (* the number of textures in the main config file       *)
  Configs,        (* what a config file may say                           *)
  Sources,        (* what the sources of a texture may be                 *)
  Room,           (* [Sources -> Nat]: frames that fit the source bitmap  *)
  MissingTime,    (* what FILE_time_last_write may return for no file     *)
  BigEndian,      (* __BIG_ENDIAN__                                       *)
  FirstConfigs,   (* bound: what the config files say at first            *)
  FirstSources,   (* bound: what the sources are at first                 *)
  MaxClock,       (* bound: the time of the last edit or write            *)
  MaxEvents       (* bound: how many edits, crashes and failures there are *)

Textures == 1 .. N

ASSUME RunAssumption ==
  /\ N \in Nat \ {0}
  /\ Room \in [Sources -> Nat]
  /\ FirstConfigs \subseteq Configs /\ FirstSources \subseteq Sources
  /\ MissingTime \subseteq Nat
  /\ BigEndian \in BOOLEAN
  /\ Configs \subseteq Seq(Int)
  /\ MaxClock \in Nat \ {0} /\ MaxEvents \in Nat

None == "none"

VARIABLES
  clock,
  events,         (* history: how many edits, crashes and failures        *)
  ini, source,    (* files of the user: what they hold and their times    *)
  header,         (* the #defines of each texture                         *)
  bitmap, table,  (* what they were made from and their times, 0: no file *)
  masterHeader,   (* cOutHeaderFile                                       *)
  masterTable,    (* cOutSpriteTable                                      *)
  textureList,    (* cOutTextureList: the bitmaps by their numbers        *)
  uidsFile,       (* cOutUIDsFile                                         *)
  pc,
  tex,            (* the section EnumSection stands on                    *)
  force,          (* Force                                                *)
  config,         (* ini, as it was read                                  *)
  newest,         (* cBitmap::s_qwNewestFile                              *)
  placed,         (* the sources PlaceBoxAndShrinkWrap_All has seen       *)
  headerOut,      (* HeaderOut                                            *)
  iSprite,        (* iSprite                                              *)
  uids,           (* g_UID                                                *)
  edited,         (* history: files were edited during this run           *)
  lost,           (* history: the last phase of this run a write failed in *)
  torn,           (* history: the bitmap of tex may not be what it should *)
  suspect         (* history: textures whose files may not belong together *)

userFiles == <<ini, source>>
outputs == <<header, bitmap, table>>
master == <<masterHeader, masterTable, textureList, uidsFile>>
memory == <<tex, force, config, newest, placed, headerOut, iSprite, uids>>
failures == <<events, lost>>
history == <<edited, torn, suspect>>

vars == <<clock, userFiles, outputs, master, pc, memory, failures, history>>

Running == pc \notin {"idle", "passed", "failed"}

-----------------------------------------------------------------------------
(* The sections of a config file that are reached: reading stops at the    *)
(* first that has no frames, and that counts as success.                   *)
Reached(list) ==
  LET stops == {l \in DOMAIN list : list[l] <= 0}
  IN  IF stops = {} THEN list
      ELSE SubSeq(list, 1, (CHOOSE l \in stops : \A k \in stops : l <= k) - 1)

(* A section with errors before one without frames *)
Fails(list) ==
  \E l \in DOMAIN list :
    list[l] < 0 /\ \A k \in 1 .. l - 1 : list[k] > 0

(* Each section is given the number of frames before it. *)
Defines(list) == [l \in DOMAIN list |-> SumOf(SubSeq(list, 1, l - 1))]

(* The entries of a table; m_iBitmap is what its two bytes mean in the     *)
(* order of the file, least significant first.                             *)
Entries(t, list, src) ==
  FlattenSeq([l \in DOMAIN Reached(list) |->
    [f \in 1 .. list[l] |-> [tex |-> t, sec |-> l, src |-> src, iBitmap |-> 0]]])

(* ENDIAN_flip_word *)
Flip(word) == (word % 256) * 256 + word \div 256

HostWord(word) == IF BigEndian THEN Flip(word) ELSE word

(* m_iBitmap += iBitmap on the bytes of the file: they are added to in the *)
(* order of the machine.                                                   *)
Renumber(entries, iBitmap) ==
  [e \in DOMAIN entries |->
    [entries[e] EXCEPT !.iBitmap = HostWord((HostWord(@) + iBitmap) % 65536)]]

(* A fault: the first texture is appended as well *)
MergedAppended(entries, iBitmap) == masterTable \o Renumber(entries, iBitmap)

(* FILE_save for the first texture, FILE_append for the others *)
Merged(entries, iBitmap) ==
  IF iBitmap = 0 THEN entries ELSE masterTable \o Renumber(entries, iBitmap)

-----------------------------------------------------------------------------
(* FILE_save, FILE_append and FreeImage_Save: a file that cannot be opened *)
(* stays as it is; on a full disk there is a beginning of it.  The callers *)
(* look at neither.                                                        *)
Outcomes == {"saved", "refused", "cut"}

Written(o, old, new, beginning) ==
  CASE o = "saved" -> new [] o = "refused" -> old [] o = "cut" -> beginning

Write(o, phase) ==
  \/ /\ o = "saved"
     /\ UNCHANGED failures
  \/ /\ o # "saved"
     /\ events < MaxEvents
     /\ events' = events + 1
     /\ lost' = phase

-----------------------------------------------------------------------------
Init ==
  /\ clock = 1 /\ events = 0
  /\ ini \in [Textures -> [v : FirstConfigs, time : {1}]]
  /\ source \in [Textures -> [v : FirstSources, time : {1}]]
  /\ header = [t \in Textures |-> <<>>]
  /\ bitmap = [t \in Textures |-> [v |-> <<>>, time |-> 0]]
  /\ table = [t \in Textures |-> [v |-> <<>>, time |-> 0]]
  /\ masterHeader = [defines |-> <<>>, sprMax |-> 0, texMax |-> 0]
  /\ masterTable = <<>> /\ textureList = <<>> /\ uidsFile = <<>>
  /\ pc = "idle"
  /\ tex = 0 /\ force = FALSE /\ config = <<>> /\ newest = 0
  /\ placed = None /\ headerOut = <<>> /\ iSprite = 0 /\ uids = <<>>
  /\ edited = FALSE /\ lost = 0 /\ torn = FALSE /\ suspect = {}

Tick ==
  /\ clock < MaxClock
  /\ clock' = clock + 1
  /\ UNCHANGED <<userFiles, outputs, master, pc, memory, failures, history>>

(* An edit is dangerous if the run makes the files of the texture of what  *)
(* was there before, but makes the bitmap after the edit.                  *)
Edit(dangerous) ==
  /\ events < MaxEvents
  /\ events' = events + 1
  /\ edited' = (edited \/ Running)
  /\ torn' = (torn \/ dangerous)
  /\ pc' = IF Running THEN pc ELSE "idle"
  /\ UNCHANGED <<lost, suspect>>

EditConfig(t, list) ==
  /\ ini[t].v # list
  /\ ini' = [ini EXCEPT ![t] = [v |-> list, time |-> clock]]
  /\ Edit(t = tex /\ pc \in {"stamp", "add", "check", "place", "copy"})
  /\ UNCHANGED <<clock, source, outputs, master, memory>>

EditSource(t, src) ==
  /\ source[t].v # src
  /\ source' = [source EXCEPT ![t] = [v |-> src, time |-> clock]]
  /\ Edit(t = tex /\ pc = "copy")
  /\ UNCHANGED <<clock, ini, outputs, master, memory>>

Forget ==
  /\ tex' = 0 /\ config' = <<>> /\ newest' = 0 /\ placed' = None
  /\ headerOut' = <<>> /\ iSprite' = 0 /\ uids' = <<>>

(* The run is gone, the files are as they are. *)
Die(result) ==
  /\ pc' = result
  /\ Forget
  /\ force' = FALSE

Crash ==
  /\ Running
  /\ events < MaxEvents
  /\ events' = events + 1
  /\ Die("idle")
  /\ UNCHANGED <<clock, userFiles, outputs, master, lost, history>>

-----------------------------------------------------------------------------
Start(f) ==
  /\ pc \in {"idle", "passed", "failed"}
  /\ pc' = "open"
  /\ tex' = 1 /\ force' = f
  /\ edited' = FALSE /\ lost' = 0
  /\ UNCHANGED <<clock, events, userFiles, outputs, master, config, newest,
                 placed, headerOut, iSprite, uids, torn, suspect>>

(* ini.Open of the next section of the main config file; none is left: the *)
(* old texture list is deleted, and the master files are begun.            *)
OpenConfig ==
  /\ pc = "open"
  /\ \/ /\ tex > N
        /\ textureList' = <<>>
        /\ tex' = 1
        /\ pc' = "merge"
        /\ UNCHANGED <<config, torn>>
     \/ /\ tex <= N
        /\ config' = ini[tex].v
        /\ torn' = FALSE
        /\ pc' = "stamp"
        /\ UNCHANGED <<tex, textureList>>
  /\ UNCHANGED <<clock, userFiles, outputs, masterHeader, masterTable, uidsFile, force,
                 newest, placed, headerOut, iSprite, uids, failures, edited, suspect>>

(* cBitmap::SetNewestFile *)
StampConfig ==
  /\ pc = "stamp"
  /\ newest' = ini[tex].time
  /\ pc' = "add"
  /\ UNCHANGED <<clock, userFiles, outputs, master, tex, force, config, placed,
                 headerOut, iSprite, uids, failures, history>>

(* add_bitmaps_and_frames: the times of the sources are collected, and the *)
(* header is saved unless reading stopped early, or it is what it was.     *)
SaveHeader(o) ==
  IF Reached(config) = config /\ header[tex] # Defines(config)
    THEN /\ header' = [header EXCEPT ![tex] = Written(o, @, Defines(config), <<>>)]
         /\ Write(o, 1)
    ELSE /\ o = "saved"
         /\ UNCHANGED <<header, failures>>

AddSections(o) ==
  /\ pc = "add"
  /\ \/ /\ Fails(config)
        /\ o = "saved"
        /\ Die("failed")
        /\ UNCHANGED <<header, failures>>
     \/ /\ ~Fails(config)
        /\ newest' = IF source[tex].time > newest THEN source[tex].time ELSE newest
        /\ uids' = uids \o [l \in DOMAIN Reached(config) |-> [tex |-> tex, sec |-> l]]
        /\ SaveHeader(o)
        /\ pc' = "check"
        /\ UNCHANGED <<tex, force, config, placed, headerOut, iSprite>>
  /\ UNCHANGED <<clock, userFiles, bitmap, table, master, history>>

(* FILE_time_last_write(cOutBitmap) *)
BitmapTimes == IF bitmap[tex].time = 0 THEN MissingTime ELSE {bitmap[tex].time}

(* A fault: a bitmap as old as its sources is good enough *)
NotOlder(qw) == force = FALSE /\ qw >= newest

UpToDate(qw) == force = FALSE /\ qw > newest

CheckTime ==
  /\ pc = "check"
  /\ \E qw \in BitmapTimes : pc' = IF UpToDate(qw) THEN "up2date" ELSE "place"
  /\ UNCHANGED <<clock, userFiles, outputs, master, memory, failures, history>>

NextTexture ==
  /\ tex' = tex + 1
  /\ pc' = "open"

SkipTexture ==
  /\ pc = "up2date"
  /\ NextTexture
  /\ UNCHANGED <<clock, userFiles, outputs, master, force, config, newest, placed,
                 headerOut, iSprite, uids, failures, history>>

(* PlaceBoxAndShrinkWrap_All and Pack_All: sizes and positions *)
PlaceFrames ==
  /\ pc = "place"
  /\ \/ /\ SumOf(Reached(config)) > Room[source[tex].v]
        /\ Die("failed")
     \/ /\ SumOf(Reached(config)) <= Room[source[tex].v]
        /\ placed' = source[tex].v
        /\ pc' = "copy"
        /\ UNCHANGED <<tex, force, config, newest, headerOut, iSprite, uids>>
  /\ UNCHANGED <<clock, userFiles, outputs, master, failures, history>>

(* Copy_All opens the sources again and saves the bitmap.                  *)
CopyFrames(o) ==
  /\ pc = "copy"
  /\ bitmap' = [bitmap EXCEPT ![tex] =
       Written(o, @, [v |-> [list |-> config, src |-> source[tex].v], time |-> clock],
               [v |-> <<>>, time |-> clock])]
  /\ Write(o, 1)
  /\ torn' = (torn \/ o # "saved")
  /\ suspect' = IF o = "refused" THEN suspect ELSE suspect \cup {tex}
  /\ pc' = "table"
  /\ UNCHANGED <<clock, userFiles, header, table, master, memory, edited>>

SaveTable(o) ==
  /\ pc = "table"
  /\ table' = [table EXCEPT ![tex] =
       Written(o, @, [v |-> Entries(tex, config, placed), time |-> clock],
               [v |-> <<>>, time |-> clock])]
  /\ Write(o, 1)
  /\ suspect' = CASE o = "saved"   -> IF torn THEN suspect ELSE suspect \ {tex}
                  [] o = "refused" -> suspect
                  [] o = "cut"     -> suspect \cup {tex}
  /\ NextTexture
  /\ UNCHANGED <<clock, userFiles, header, bitmap, master, force, config, newest,
                 placed, headerOut, iSprite, uids, edited, torn>>

(* A fault: the offset grows by the number of sections *)
SpritesByHeader(t) == Len(header[t])

(* From the size of the table file *)
Sprites(t) == Len(table[t].v)

(* Phase 2 for one texture *)
Merge(o) ==
  /\ pc = "merge"
  /\ tex <= N
  /\ headerOut' = headerOut \o
       [l \in DOMAIN header[tex] |->
         [tex |-> tex, sec |-> l, value |-> header[tex][l] + iSprite]]
  /\ masterTable' = Written(o, masterTable, Merged(table[tex].v, tex - 1),
                            IF tex = 1 THEN <<>> ELSE masterTable)
  /\ Write(o, 2)
  /\ iSprite' = iSprite + Sprites(tex)
  /\ tex' = tex + 1
  /\ UNCHANGED <<clock, userFiles, outputs, masterHeader, textureList, uidsFile, pc,
                 force, config, newest, placed, uids, history>>

SaveMasterHeader(o) ==
  /\ pc = "merge"
  /\ tex > N
  /\ masterHeader' =
       Written(o, masterHeader, [defines |-> headerOut, sprMax |-> iSprite, texMax |-> N],
               [defines |-> <<>>, sprMax |-> 0, texMax |-> 0])
  /\ Write(o, 2)
  /\ pc' = "uids"
  /\ UNCHANGED <<clock, userFiles, outputs, masterTable, textureList, uidsFile, memory,
                 history>>

SaveUIDs(o) ==
  /\ pc = "uids"
  /\ uidsFile' = Written(o, uidsFile, uids, <<>>)
  /\ Write(o, 2)
  /\ pc' = "list"
  /\ UNCHANGED <<clock, userFiles, outputs, masterHeader, masterTable, textureList,
                 memory, history>>

(* main has printed that the run passed and returns: iniTL is destroyed,   *)
(* which saves it.                                                         *)
SaveTextureList(o) ==
  /\ pc = "list"
  /\ textureList' = Written(o, textureList, [t \in Textures |-> t], <<>>)
  /\ Write(o, 2)
  /\ pc' = "passed"
  /\ Forget
  /\ UNCHANGED <<clock, userFiles, outputs, masterHeader, masterTable, uidsFile, force,
                 history>>

Step ==
  \/ OpenConfig \/ StampConfig \/ CheckTime \/ SkipTexture \/ PlaceFrames
  \/ \E o \in Outcomes :
       \/ AddSections(o) \/ CopyFrames(o) \/ SaveTable(o) \/ Merge(o)
       \/ SaveMasterHeader(o) \/ SaveUIDs(o) \/ SaveTextureList(o)

Next ==
  \/ Tick
  \/ \E t \in Textures, list \in Configs : EditConfig(t, list)
  \/ \E t \in Textures, src \in Sources : EditSource(t, src)
  \/ \E f \in BOOLEAN : Start(f)
  \/ Crash
  \/ Step

Spec == Init /\ [][Next]_vars

-----------------------------------------------------------------------------
(* The types; and in phase 2 the offset is the size of the master table,   *)
(* as long as it can be written.                                           *)
TypeOK ==
  /\ clock \in 1 .. MaxClock /\ events \in 0 .. MaxEvents
  /\ ini \in [Textures -> [v : Configs, time : 1 .. MaxClock]]
  /\ source \in [Textures -> [v : Sources, time : 1 .. MaxClock]]
  /\ \A t \in Textures :
       /\ bitmap[t].time \in 0 .. clock
       /\ table[t].time \in 0 .. clock
       /\ header[t] \in Seq(Nat)
  /\ pc \in {"idle", "open", "stamp", "add", "check", "up2date", "place",
             "copy", "table", "merge", "uids", "list", "passed", "failed"}
  /\ tex \in 0 .. N + 1
  /\ (pc = "merge" /\ tex > 1 /\ lost # 2) => iSprite = Len(masterTable)
  /\ force \in BOOLEAN /\ edited \in BOOLEAN /\ torn \in BOOLEAN
  /\ lost \in 0 .. 2 /\ suspect \subseteq Textures

(* The run was not disturbed: nothing was edited and every file written.   *)
Quiet == pc = "passed" /\ ~edited /\ lost = 0

Whole(t) == Reached(ini[t].v) = ini[t].v

(* After such a run the files of every texture are those a run from        *)
(* nothing would have made, whatever textures it chose to leave alone, and *)
(* whatever happened to runs before it; except for textures that have been *)
(* suspect since, and they are repaired by a forced run.  A header is      *)
(* excepted where the config file has a section without frames.            *)
Fresh ==
  Quiet =>
    /\ force => suspect = {}
    /\ \A t \in Textures \ suspect :
         /\ bitmap[t].v = [list |-> ini[t].v, src |-> source[t].v]
         /\ table[t].v = Entries(t, ini[t].v, source[t].v)
    /\ \A t \in Textures : Whole(t) => header[t] = Defines(ini[t].v)

(* What a game relies on: the #define of a section is the place in the     *)
(* master table of the first frame of that section of that texture, the    *)
(* bitmap number of the frames is that of their texture in the texture     *)
(* list, and the UIDs are of just these sections.                          *)
SpritesFound ==
  (Quiet /\ suspect = {} /\ ~BigEndian /\ \A t \in Textures : Whole(t)) =>
    LET defines == masterHeader.defines IN
      /\ \A d \in DOMAIN defines :
           LET m == defines[d] IN
             {e \in DOMAIN masterTable :
                masterTable[e].tex = m.tex /\ masterTable[e].sec = m.sec}
               = m.value + 1 .. m.value + ini[m.tex].v[m.sec]
      /\ uidsFile = [d \in DOMAIN defines |-> [tex |-> defines[d].tex, sec |-> defines[d].sec]]
      /\ \A e \in DOMAIN masterTable :
           textureList[masterTable[e].iBitmap + 1] = masterTable[e].tex

(* After every run that passes and could write its master files, even one  *)
(* after a run that died within phase 2 or could not write the files of a  *)
(* texture, the master table is the tables of the textures, each once; and *)
(* SPR_init_once, which reads SPR_MAX entries without a look at the size   *)
(* of the file and indexes Tex[TEX_MAX] with what it reads, stays within.  *)
MasterIsAllTables ==
  (pc = "passed" /\ lost # 2) =>
    /\ masterTable = FlattenSeq([t \in Textures |-> Renumber(table[t].v, t - 1)])
    /\ masterHeader.sprMax = Len(masterTable)
    /\ ~BigEndian =>
         \A e \in DOMAIN masterTable : masterTable[e].iBitmap < masterHeader.texMax
    /\ masterHeader.texMax = Len(textureList)

(* What the runs of the findings refute: see README.md                     *)

(* process_ini.cpp: "check date of ini file and all bitmaps if output      *)
(* files are newer, return true"                                           *)
UpToDateIsNewer == pc = "up2date" => table[tex].time > newest

(* Technical Reference: "Use the 'Texture Number' in combination with the  *)
(* texture list to identify the bitmap"                                    *)
TextureNumbers ==
  pc = "passed" =>
    \A e \in DOMAIN masterTable : masterTable[e].iBitmap = masterTable[e].tex - 1

(* Technical Reference: "Include the sprites_define file, in your C/C++    *)
(* code, it provides a handy rederence to the entries within the Sprite    *)
(* Table."                                                                 *)
DefinesFound ==
  (Quiet /\ suspect = {}) =>
    \A d \in DOMAIN masterHeader.defines :
      LET m == masterHeader.defines[d] IN
        /\ m.value + 1 \in DOMAIN masterTable
        /\ masterTable[m.value + 1].tex = m.tex
        /\ masterTable[m.value + 1].sec = m.sec
=============================================================================
