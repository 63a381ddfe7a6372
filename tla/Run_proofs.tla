----------------------------- MODULE Run_proofs -----------------------------
(***************************************************************************)
(* Theorems about Run, for every number of textures, every set of config   *)
(* files and sources, and every bound:                                     *)
(*                                                                         *)
(*   RunTypeCorrect        Spec => []TypeOK                                *)
(*   QuietRunsRepair       Spec => []Fresh               [1]               *)
(*   MasterFilesAgree      Spec => []MasterIsAllTables                     *)
(*   QuietRunsFindSprites  Spec => []SpritesFound        [1]               *)
(*                                                                         *)
(* [1] if the time of a file that is not there is 0, as on Windows; the    *)
(*     last one for at most 65536 textures, for m_iBitmap is a WORD        *)
(*                                                                         *)
(* The inductive invariants are Types, FreshInv, Master, UidsMade and      *)
(* HeadersFound; each has a lemma for its steps.                           *)
(***************************************************************************)
EXTENDS Run, ListLemmas

-----------------------------------------------------------------------------
(* Lemmas on what the model computes of a config file: what is reached of  *)
(* it, the entries of its table, the #defines of its header                *)

(* A beginning of a sequence                                               *)
LEMMA SubSeqFacts ==
  ASSUME NEW S, NEW list \in Seq(S), NEW n \in 0 .. Len(list)
  PROVE  /\ SubSeq(list, 1, n) \in Seq(S)
         /\ Len(SubSeq(list, 1, n)) = n
         /\ \A i \in 1 .. n : SubSeq(list, 1, n)[i] = list[i]
OBVIOUS

(* What is reached of a config file are the sections with frames in front  *)
(* of the first without.                                                   *)
LEMMA ReachedFacts ==
  ASSUME NEW list \in Seq(Int)
  PROVE  /\ Reached(list) \in Seq(Int)
         /\ Len(Reached(list)) <= Len(list)
         /\ \A l \in 1 .. Len(Reached(list)) : Reached(list)[l] = list[l] /\ list[l] > 0
<1> DEFINE stops == {l \in DOMAIN list : list[l] <= 0}
           first == CHOOSE l \in stops : \A k \in stops : l <= k
<1>1. CASE stops = {}
  <2>1. Reached(list) = list
    BY <1>1 DEF Reached
  <2>2. \A l \in 1 .. Len(list) : list[l] > 0
    BY <1>1
  <2> QED
    BY <2>1, <2>2
<1>2. CASE stops # {}
  <2>1. stops \subseteq Nat
    OBVIOUS
  <2>2. first \in stops /\ \A k \in stops : first <= k
    BY <1>2, <2>1, SmallestExists
  <2>3. Reached(list) = SubSeq(list, 1, first - 1)
    BY <1>2 DEF Reached
  <2> HIDE DEF first
  <2>4. first - 1 \in 0 .. Len(list)
    BY <2>2
  <2>5. \A l \in 1 .. first - 1 : list[l] > 0
    <3> SUFFICES ASSUME NEW l \in 1 .. first - 1, ~(list[l] > 0) PROVE FALSE
      OBVIOUS
    <3>1. l \in stops
      BY <2>4
    <3> QED
      BY <2>2, <2>4, <3>1
  <2> HIDE DEF stops
  <2>6. /\ SubSeq(list, 1, first - 1) \in Seq(Int)
        /\ Len(SubSeq(list, 1, first - 1)) = first - 1
        /\ \A i \in 1 .. first - 1 : SubSeq(list, 1, first - 1)[i] = list[i]
    BY <2>4, SubSeqFacts
  <2> QED
    BY <2>3, <2>4, <2>5, <2>6
<1> QED
  BY <1>1, <1>2

(* The frames of section l in the table of texture t                       *)
Block(t, l, n, src) == [f \in 1 .. n |-> [tex |-> t, sec |-> l, src |-> src, iBitmap |-> 0]]

(* What the entries of the table of texture t are: m_iBitmap is 0 until    *)
(* the tables are merged.                                                  *)
EntryOf(t) == [tex : {t}, sec : Nat, src : Sources, iBitmap : {0}]

(* Such frames are entries of the table of t.                              *)
LEMMA BlockInSeq ==
  ASSUME NEW t, NEW l \in Nat, NEW n \in Nat, NEW src \in Sources
  PROVE  Block(t, l, n, src) \in Seq(EntryOf(t)) /\ Len(Block(t, l, n, src)) = n
BY DEF Block, EntryOf

(* What add_bitmaps_and_frames leaves in a table is entries of its         *)
(* texture.                                                                *)
LEMMA EntriesInSeq ==
  ASSUME NEW t, NEW list \in Seq(Int), NEW src \in Sources
  PROVE  Entries(t, list, src) \in Seq(EntryOf(t))
<1> DEFINE blocks == [l \in DOMAIN Reached(list) |-> Block(t, l, list[l], src)]
<1>1. Entries(t, list, src) = FlattenSeq(blocks)
  BY DEF Entries, Block
<1>2. /\ Len(Reached(list)) \in Nat /\ DOMAIN Reached(list) = 1 .. Len(Reached(list))
      /\ \A l \in 1 .. Len(Reached(list)) : list[l] \in Nat
  BY ReachedFacts
<1>3. ASSUME NEW l \in 1 .. Len(Reached(list)) PROVE Block(t, l, list[l], src) \in Seq(EntryOf(t))
  <2>1. l \in Nat /\ list[l] \in Nat
    BY <1>2
  <2> QED
    BY <2>1, BlockInSeq
<1>4. blocks \in Seq(Seq(EntryOf(t)))
  BY <1>2, <1>3
<1> QED
  BY <1>1, <1>4, FlattenInSeq

(* process_ini.cpp counts on: the #define of a section is that of the one  *)
(* before it plus its frames.                                              *)
LEMMA DefinesFacts ==
  ASSUME NEW list \in Seq(Int)
  PROVE  /\ Len(Defines(list)) = Len(list) /\ DOMAIN Defines(list) = 1 .. Len(list)
         /\ list # <<>> => Defines(list)[1] = 0
         /\ \A l \in 1 .. Len(list) - 1 : Defines(list)[l + 1] = Defines(list)[l] + list[l]
<1>1. Len(Defines(list)) = Len(list) /\ DOMAIN Defines(list) = 1 .. Len(list)
  BY DEF Defines
<1>2. \A l \in 1 .. Len(list) : Defines(list)[l] = SumOf(SubSeq(list, 1, l - 1))
  BY DEF Defines
<1>3. ASSUME list # <<>> PROVE Defines(list)[1] = 0
  <2>1. SubSeq(list, 1, 1 - 1) = <<>>
    OBVIOUS
  <2>2. Defines(list)[1] = SumOf(SubSeq(list, 1, 1 - 1))
    BY <1>2, <1>3
  <2> QED
    BY <2>1, <2>2, SumNone, Zenon
<1>4. ASSUME NEW l \in 1 .. Len(list) - 1 PROVE Defines(list)[l + 1] = Defines(list)[l] + list[l]
  <2>1. l - 1 \in 0 .. Len(list) /\ l \in 0 .. Len(list) /\ (l + 1) - 1 = l
    OBVIOUS
  <2> DEFINE s == SubSeq(list, 1, l - 1)
             t == SubSeq(list, 1, l)
  <2>2. s \in Seq(Int) /\ Len(s) = l - 1 /\ \A i \in 1 .. l - 1 : s[i] = list[i]
    BY <2>1, SubSeqFacts
  <2>3. t \in Seq(Int) /\ Len(t) = l /\ \A i \in 1 .. l : t[i] = list[i]
    BY <2>1, SubSeqFacts
  <2>4. Defines(list)[l + 1] = SumOf(t) /\ Defines(list)[l] = SumOf(s)
    BY <1>2, <2>1
  <2> HIDE DEF s, t
  <2>5. SumOf(t) = SumOf(s) + t[Len(t)]
    <3>0. ASSUME NEW i \in 1 .. l - 1 PROVE t[i] = s[i]
      <4>1. i \in 1 .. l
        OBVIOUS
      <4>2. t[i] = list[i] /\ s[i] = list[i]
        BY <2>2, <2>3, <4>1
      <4> QED
        BY <4>2
    <3>1. Len(t) = Len(s) + 1 /\ \A i \in 1 .. Len(s) : t[i] = s[i]
      BY <2>2, <2>3, <3>0
    <3>2. s \in Seq(Int) /\ t \in Seq(Int)
      BY <2>2, <2>3
    <3> QED
      BY ONLY <3>1, <3>2, SumMore
  <2> QED
    BY <2>3, <2>4, <2>5
<1> QED
  BY <1>1, <1>3, <1>4

(* No #define is negative when every section has frames.                   *)
LEMMA DefinesInSeq ==
  ASSUME NEW list \in Seq(Int), Reached(list) = list
  PROVE  Defines(list) \in Seq(Nat)
<1>1. Len(list) \in Nat /\ \A l \in 1 .. Len(list) : list[l] \in Nat \ {0}
  BY ReachedFacts
<1> DEFINE P == {l \in 1 .. Len(list) : Defines(list)[l] \in Nat}
<1>2. Len(list) # 0 => 1 \in P
  BY <1>1, DefinesFacts
<1>3. ASSUME NEW l \in 1 .. Len(list), l \in P, l + 1 <= Len(list) PROVE l + 1 \in P
  <2>1. Defines(list)[l + 1] = Defines(list)[l] + list[l]
    BY <1>3, DefinesFacts
  <2> QED
    BY <1>1, <1>3, <2>1
<1> HIDE DEF P
<1>4. 1 .. Len(list) \subseteq P
  BY <1>1, <1>2, <1>3, RangeInduction
<1>5. \A l \in 1 .. Len(list) : Defines(list)[l] \in Nat
  BY <1>4 DEF P
<1>6. Defines(list) = [l \in 1 .. Len(list) |-> Defines(list)[l]]
  BY <1>1 DEF Defines
<1> QED
  BY <1>1, <1>5, <1>6

-----------------------------------------------------------------------------
(* Types: first part of every inductive invariant below                    *)

USE RunAssumption DEF Textures, vars, userFiles, outputs, master, memory, failures, history

(* Where process_ini is at work on a texture                               *)
Building == {"stamp", "add", "check", "up2date", "place", "copy", "table"}

(* tex is a texture while one is being built; OpenConfig goes on from the  *)
(* last one to the merge.                                                  *)
Control ==
  /\ tex \in Nat /\ newest \in Nat
  /\ pc \in Building => tex \in Textures
  /\ pc \in {"open", "merge"} => tex # 0
  /\ suspect \subseteq Textures

(* No file is newer than the clock.                                        *)
Times ==
  /\ clock \in Nat \ {0} /\ edited \in BOOLEAN /\ torn \in BOOLEAN
  /\ DOMAIN ini = Textures /\ DOMAIN source = Textures
  /\ DOMAIN header = Textures /\ DOMAIN bitmap = Textures /\ DOMAIN table = Textures
  /\ \A t \in Textures :
       /\ ini[t].time \in 1 .. clock /\ source[t].time \in 1 .. clock
       /\ bitmap[t].time \in 0 .. clock /\ table[t].time \in 0 .. clock

(* What the files of the user may hold, and what was read of them          *)
Inputs ==
  /\ ini \in [Textures -> [v : Configs, time : Nat]]
  /\ source \in [Textures -> [v : Sources, time : Nat]]
  /\ pc \in Building => config \in Configs
  /\ pc \in {"copy", "table"} => placed \in Sources

(* What the files of a texture may hold                                    *)
Outputs ==
  \A t \in Textures : header[t] \in Seq(Nat) /\ table[t].v \in Seq(EntryOf(t))

(* The bounds of the model, and where tex may stand                        *)
Bounds ==
  /\ clock <= MaxClock /\ events \in 0 .. MaxEvents
  /\ tex <= N + 1 /\ lost \in 0 .. 2

(* The places a run can be at                                              *)
Stages ==
  /\ pc \in {"idle", "open", "stamp", "add", "check", "up2date", "place",
             "copy", "table", "merge", "uids", "list", "passed", "failed"}
  /\ force \in BOOLEAN

(* The first part of the inductive invariant                               *)
Types == Control /\ Times /\ Inputs /\ Outputs /\ Bounds /\ Stages

(* Tick keeps the types.                                                   *)
LEMMA TickTypes ==
  ASSUME Types, Tick
  PROVE  Types'
<1> USE DEF Types, Tick
<1>1. Control'
  BY DEF Control, Times, Building
<1>2. Times'
  BY DEF Times, Control, Building
<1>3. Inputs'
  BY DEF Inputs, Control, Times, Building
<1>4. Outputs'
  BY DEF Outputs, Times
<1>5. Bounds'
  BY DEF Bounds, Control, Times, Building
<1>6. Stages'
  BY DEF Stages
<1> QED
  BY <1>1, <1>2, <1>3, <1>4, <1>5, <1>6

(* EditConfig keeps the types.                                             *)
LEMMA EditConfigTypes ==
  ASSUME Types, NEW t \in Textures, NEW list \in Configs, EditConfig(t, list)
  PROVE  Types'
<1> USE DEF Types, EditConfig, Edit, Running
<1>1. Control'
  BY DEF Control, Times, Building
<1>2. Times'
  BY DEF Times, Control, Building
<1>3. Inputs'
  BY DEF Inputs, Control, Times, Building
<1>4. Outputs'
  BY DEF Outputs, Times
<1>5. Bounds'
  BY DEF Bounds, Control, Times, Building
<1>6. Stages'
  BY DEF Stages
<1> QED
  BY <1>1, <1>2, <1>3, <1>4, <1>5, <1>6

(* EditSource keeps the types.                                             *)
LEMMA EditSourceTypes ==
  ASSUME Types, NEW t \in Textures, NEW src \in Sources, EditSource(t, src)
  PROVE  Types'
<1> USE DEF Types, EditSource, Edit, Running
<1>1. Control'
  BY DEF Control, Times, Building
<1>2. Times'
  BY DEF Times, Control, Building
<1>3. Inputs'
  BY DEF Inputs, Control, Times, Building
<1>4. Outputs'
  BY DEF Outputs, Times
<1>5. Bounds'
  BY DEF Bounds, Control, Times, Building
<1>6. Stages'
  BY DEF Stages
<1> QED
  BY <1>1, <1>2, <1>3, <1>4, <1>5, <1>6

(* Start keeps the types.                                                  *)
LEMMA StartTypes ==
  ASSUME Types, NEW f \in BOOLEAN, Start(f)
  PROVE  Types'
<1> USE DEF Types, Start
<1>1. Control'
  BY DEF Control, Times, Building
<1>2. Times'
  BY DEF Times, Control, Building
<1>3. Inputs'
  BY DEF Inputs, Control, Times, Building
<1>4. Outputs'
  BY DEF Outputs, Times
<1>5. Bounds'
  BY DEF Bounds, Control, Times, Building
<1>6. Stages'
  BY DEF Stages
<1> QED
  BY <1>1, <1>2, <1>3, <1>4, <1>5, <1>6

(* Crash keeps the types.                                                  *)
LEMMA CrashTypes ==
  ASSUME Types, Crash
  PROVE  Types'
<1> USE DEF Types, Crash, Die, Forget, Running
<1>1. Control'
  BY DEF Control, Times, Building
<1>2. Times'
  BY DEF Times, Control, Building
<1>3. Inputs'
  BY DEF Inputs, Control, Times, Building
<1>4. Outputs'
  BY DEF Outputs, Times
<1>5. Bounds'
  BY DEF Bounds, Control, Times, Building
<1>6. Stages'
  BY DEF Stages
<1> QED
  BY <1>1, <1>2, <1>3, <1>4, <1>5, <1>6

(* OpenConfig keeps the types.                                             *)
LEMMA OpenConfigTypes ==
  ASSUME Types, OpenConfig
  PROVE  Types'
<1> USE DEF Types, OpenConfig
<1>1. Control'
  BY DEF Control, Times, Building
<1>2. Times'
  BY DEF Times, Control, Building
<1>3. Inputs'
  <2>1. UNCHANGED <<ini, source, placed>>
    BY DEF userFiles
  <2>2. CASE tex > N /\ pc' = "merge"
    BY <2>1, <2>2 DEF Inputs, Building
  <2>3. CASE tex <= N /\ config' = ini[tex].v /\ pc' = "stamp"
    <3>1. tex \in Textures
      BY <2>3 DEF Control, Textures
    <3>2. config' \in Configs
      BY <2>3, <3>1 DEF Inputs
    <3> QED
      BY <2>1, <2>3, <3>2 DEF Inputs, Building
  <2> QED
    BY <2>2, <2>3
<1>4. Outputs'
  BY DEF Outputs, Times
<1>5. Bounds'
  BY DEF Bounds, Control, Times, Building
<1>6. Stages'
  BY DEF Stages
<1> QED
  BY <1>1, <1>2, <1>3, <1>4, <1>5, <1>6

(* StampConfig keeps the types.                                            *)
LEMMA StampConfigTypes ==
  ASSUME Types, StampConfig
  PROVE  Types'
<1> USE DEF Types, StampConfig
<1>1. Control'
  BY DEF Control, Times, Building
<1>2. Times'
  BY DEF Times, Control, Building
<1>3. Inputs'
  BY DEF Inputs, Control, Times, Building
<1>4. Outputs'
  BY DEF Outputs, Times
<1>5. Bounds'
  BY DEF Bounds, Control, Times, Building
<1>6. Stages'
  BY DEF Stages
<1> QED
  BY <1>1, <1>2, <1>3, <1>4, <1>5, <1>6

(* CheckTime keeps the types.                                              *)
LEMMA CheckTimeTypes ==
  ASSUME Types, CheckTime
  PROVE  Types'
<1> USE DEF Types, CheckTime, UpToDate, BitmapTimes
<1>1. Control'
  BY DEF Control, Times, Building
<1>2. Times'
  BY DEF Times, Control, Building
<1>3. Inputs'
  BY DEF Inputs, Control, Times, Building
<1>4. Outputs'
  BY DEF Outputs, Times
<1>5. Bounds'
  BY DEF Bounds, Control, Times, Building
<1>6. Stages'
  BY DEF Stages
<1> QED
  BY <1>1, <1>2, <1>3, <1>4, <1>5, <1>6

(* SkipTexture keeps the types.                                            *)
LEMMA SkipTextureTypes ==
  ASSUME Types, SkipTexture
  PROVE  Types'
<1> USE DEF Types, SkipTexture, NextTexture
<1>1. Control'
  BY DEF Control, Times, Building
<1>2. Times'
  BY DEF Times, Control, Building
<1>3. Inputs'
  BY DEF Inputs, Control, Times, Building
<1>4. Outputs'
  BY DEF Outputs, Times
<1>5. Bounds'
  BY DEF Bounds, Control, Times, Building
<1>6. Stages'
  BY DEF Stages
<1> QED
  BY <1>1, <1>2, <1>3, <1>4, <1>5, <1>6

(* PlaceFrames keeps the types.                                            *)
LEMMA PlaceFramesTypes ==
  ASSUME Types, PlaceFrames
  PROVE  Types'
<1> USE DEF Types, PlaceFrames, Die, Forget
<1>1. Control'
  BY DEF Control, Times, Building
<1>2. Times'
  BY DEF Times, Control, Building
<1>3. Inputs'
  BY DEF Inputs, Control, Times, Building
<1>4. Outputs'
  BY DEF Outputs, Times
<1>5. Bounds'
  BY DEF Bounds, Control, Times, Building
<1>6. Stages'
  BY DEF Stages
<1> QED
  BY <1>1, <1>2, <1>3, <1>4, <1>5, <1>6

(* AddSections: the only step that saves a header, and it does so if every *)
(* section has frames.                                                     *)
LEMMA AddSectionsTypes ==
  ASSUME Types, NEW o \in Outcomes, AddSections(o)
  PROVE  Types'
<1> USE DEF Types, AddSections, SaveHeader, Die, Forget, Write, Written, Outcomes
<1>1. Control'
  BY DEF Control, Times, Building
<1>2. Times'
  BY DEF Times, Control, Building
<1>3. Inputs'
  BY DEF Inputs, Control, Times, Building
<1>4. Outputs'
  <2>1. tex \in Textures /\ config \in Seq(Int)
    BY DEF Control, Inputs, Building
  <2>2. Reached(config) = config => Defines(config) \in Seq(Nat)
    BY <2>1, DefinesInSeq
  <2>3. \/ header'[tex] \in {header[tex], <<>>}
        \/ Reached(config) = config /\ header'[tex] = Defines(config)
    BY <2>1 DEF Times
  <2>4. header[tex] \in Seq(Nat) /\ <<>> \in Seq(Nat)
    BY <2>1 DEF Outputs
  <2>5. header'[tex] \in Seq(Nat)
    BY ONLY <2>2, <2>3, <2>4
  <2>6. \A t \in Textures \ {tex} : header'[t] = header[t]
    BY <2>1 DEF Times
  <2>7. table' = table
    OBVIOUS
  <2> QED
    BY <2>5, <2>6, <2>7 DEF Outputs
<1>5. Bounds'
  BY DEF Bounds, Control, Times, Building
<1>6. Stages'
  BY DEF Stages
<1> QED
  BY <1>1, <1>2, <1>3, <1>4, <1>5, <1>6

(* CopyFrames keeps the types.                                             *)
LEMMA CopyFramesTypes ==
  ASSUME Types, NEW o \in Outcomes, CopyFrames(o)
  PROVE  Types'
<1> USE DEF Types, CopyFrames, Write, Written, Outcomes
<1>1. Control'
  BY DEF Control, Times, Building
<1>2. Times'
  BY DEF Times, Control, Building
<1>3. Inputs'
  BY DEF Inputs, Control, Times, Building
<1>4. Outputs'
  BY DEF Outputs, Times
<1>5. Bounds'
  BY DEF Bounds, Control, Times, Building
<1>6. Stages'
  BY DEF Stages
<1> QED
  BY <1>1, <1>2, <1>3, <1>4, <1>5, <1>6

(* SaveTable: the only step that saves a table                             *)
LEMMA SaveTableTypes ==
  ASSUME Types, NEW o \in Outcomes, SaveTable(o)
  PROVE  Types'
<1> USE DEF Types, SaveTable, NextTexture, Write, Written, Outcomes
<1>1. Control'
  BY DEF Control, Times, Building
<1>2. Times'
  BY DEF Times, Control, Building
<1>3. Inputs'
  BY DEF Inputs, Control, Times, Building
<1>4. Outputs'
  <2>1. tex \in Textures /\ config \in Seq(Int) /\ placed \in Sources
    BY DEF Control, Inputs, Building
  <2>2. Entries(tex, config, placed) \in Seq(EntryOf(tex))
    BY <2>1, EntriesInSeq
  <2>3. table'[tex].v \in Seq(EntryOf(tex))
    BY <2>1, <2>2 DEF Outputs, Times
  <2>4. \A t \in Textures \ {tex} : table'[t] = table[t]
    BY <2>1 DEF Times
  <2>5. header' = header
    OBVIOUS
  <2> QED
    BY <2>3, <2>4, <2>5 DEF Outputs
<1>5. Bounds'
  BY DEF Bounds, Control, Times, Building
<1>6. Stages'
  BY DEF Stages
<1> QED
  BY <1>1, <1>2, <1>3, <1>4, <1>5, <1>6

(* Merge keeps the types.                                                  *)
LEMMA MergeTypes ==
  ASSUME Types, NEW o \in Outcomes, Merge(o)
  PROVE  Types'
<1> USE DEF Types, Merge, Write
<1>1. Control'
  BY DEF Control, Times, Building
<1>2. Times'
  BY DEF Times, Control, Building
<1>3. Inputs'
  BY DEF Inputs, Control, Times, Building
<1>4. Outputs'
  BY DEF Outputs, Times
<1>5. Bounds'
  BY DEF Bounds, Control, Times, Building
<1>6. Stages'
  BY DEF Stages
<1> QED
  BY <1>1, <1>2, <1>3, <1>4, <1>5, <1>6

(* SaveMasterHeader keeps the types.                                       *)
LEMMA SaveMasterHeaderTypes ==
  ASSUME Types, NEW o \in Outcomes, SaveMasterHeader(o)
  PROVE  Types'
<1> USE DEF Types, SaveMasterHeader, Write
<1>1. Control'
  BY DEF Control, Times, Building
<1>2. Times'
  BY DEF Times, Control, Building
<1>3. Inputs'
  BY DEF Inputs, Control, Times, Building
<1>4. Outputs'
  BY DEF Outputs, Times
<1>5. Bounds'
  BY DEF Bounds, Control, Times, Building
<1>6. Stages'
  BY DEF Stages
<1> QED
  BY <1>1, <1>2, <1>3, <1>4, <1>5, <1>6

(* SaveUIDs keeps the types.                                               *)
LEMMA SaveUIDsTypes ==
  ASSUME Types, NEW o \in Outcomes, SaveUIDs(o)
  PROVE  Types'
<1> USE DEF Types, SaveUIDs, Write
<1>1. Control'
  BY DEF Control, Times, Building
<1>2. Times'
  BY DEF Times, Control, Building
<1>3. Inputs'
  BY DEF Inputs, Control, Times, Building
<1>4. Outputs'
  BY DEF Outputs, Times
<1>5. Bounds'
  BY DEF Bounds, Control, Times, Building
<1>6. Stages'
  BY DEF Stages
<1> QED
  BY <1>1, <1>2, <1>3, <1>4, <1>5, <1>6

(* SaveTextureList keeps the types.                                        *)
LEMMA SaveTextureListTypes ==
  ASSUME Types, NEW o \in Outcomes, SaveTextureList(o)
  PROVE  Types'
<1> USE DEF Types, SaveTextureList, Write, Forget
<1>1. Control'
  BY DEF Control, Times, Building
<1>2. Times'
  BY DEF Times, Control, Building
<1>3. Inputs'
  BY DEF Inputs, Control, Times, Building
<1>4. Outputs'
  BY DEF Outputs, Times
<1>5. Bounds'
  BY DEF Bounds, Control, Times, Building
<1>6. Stages'
  BY DEF Stages
<1> QED
  BY <1>1, <1>2, <1>3, <1>4, <1>5, <1>6

(* Every step keeps the types.                                             *)
LEMMA TypesStep == ASSUME Types, [Next]_vars PROVE Types'
<1>1. ASSUME NEW o \in Outcomes,
             \/ AddSections(o) \/ CopyFrames(o) \/ SaveTable(o) \/ Merge(o)
             \/ SaveMasterHeader(o) \/ SaveUIDs(o) \/ SaveTextureList(o)
      PROVE  Types'
  BY <1>1, AddSectionsTypes, CopyFramesTypes, SaveTableTypes, MergeTypes,
     SaveMasterHeaderTypes, SaveUIDsTypes, SaveTextureListTypes
<1>2. CASE Step
  BY <1>1, <1>2, OpenConfigTypes, StampConfigTypes, CheckTimeTypes, SkipTextureTypes,
     PlaceFramesTypes DEF Step
<1>3. CASE UNCHANGED vars
  BY <1>3, ZenonT(60) DEF Types, Control, Times, Inputs, Outputs, Bounds, Stages
<1> QED
  BY <1>2, <1>3, TickTypes, EditConfigTypes, EditSourceTypes, StartTypes, CrashTypes
  DEF Next

(* They hold before the first run.                                         *)
LEMMA InitTypes == Init => Types
<1> SUFFICES ASSUME Init PROVE Types
  OBVIOUS
<1>1. Control
  BY DEF Init, Control, Building
<1>2. /\ DOMAIN ini = Textures /\ DOMAIN source = Textures
      /\ \A t \in Textures : ini[t].time = 1 /\ source[t].time = 1
  BY DEF Init
<1>3. /\ DOMAIN header = Textures /\ DOMAIN bitmap = Textures /\ DOMAIN table = Textures
      /\ \A t \in Textures : bitmap[t].time = 0 /\ table[t].time = 0
  BY DEF Init
<1>4. clock = 1 /\ edited = FALSE /\ torn = FALSE
  BY DEF Init
<1>5. Times
  <2>1. clock \in Nat \ {0}
    BY <1>4
  <2>2. edited \in BOOLEAN /\ torn \in BOOLEAN
    BY <1>4
  <2>3. \A t \in Textures : /\ ini[t].time \in 1 .. clock /\ source[t].time \in 1 .. clock
                            /\ bitmap[t].time \in 0 .. clock /\ table[t].time \in 0 .. clock
    BY <1>2, <1>3, <1>4
  <2> QED
    BY <1>2, <1>3, <2>1, <2>2, <2>3 DEF Times
<1>6. Inputs
  BY DEF Init, Inputs, Building
<1>7. Outputs
  <2>1. ASSUME NEW t \in Textures PROVE header[t] = <<>> /\ table[t].v = <<>>
    BY DEF Init
  <2>2. <<>> \in Seq(Nat) /\ \A t \in Textures : <<>> \in Seq(EntryOf(t))
    OBVIOUS
  <2> QED
    BY <2>1, <2>2 DEF Outputs
<1>8. Bounds
  BY DEF Init, Bounds
<1>9. Stages
  BY DEF Init, Stages
<1> QED
  BY <1>1, <1>5, <1>6, <1>7, <1>8, <1>9 DEF Types

-----------------------------------------------------------------------------
(* Fresh: what a run leaves alone is as it should be                       *)

(* What CheckTime takes for up to date, read off the files themselves      *)
Newer(t) == ini[t].time < bitmap[t].time /\ source[t].time < bitmap[t].time

(* The bitmap and the table are what a run from nothing would make.        *)
Current(t) ==
  /\ bitmap[t].v = [list |-> ini[t].v, src |-> source[t].v]
  /\ table[t].v = Entries(t, ini[t].v, source[t].v)

(* The heart of it: a texture whose bitmap is newer than its config file   *)
(* and its source is current, at every moment and whatever happened        *)
(* before, but for the suspects.                                           *)
NewerIsCurrent == \A t \in Textures \ suspect : Newer(t) => Current(t)

(* What process_ini has read is what is there, unless somebody edited it;  *)
(* and it is even then if the bitmap is still newer.                       *)
ReadConfig ==
  pc \in Building =>
    /\ ~edited \/ (Newer(tex) /\ pc # "table") => config = ini[tex].v
    /\ torn => edited \/ lost # 0

(* The same for the sources of which the frames were placed, and for the   *)
(* bitmap once it is written. torn is set by an edit between reading and   *)
(* writing.                                                                *)
Placed ==
  /\ pc = "copy" => 
       /\ ~torn => config = ini[tex].v /\ placed = source[tex].v
       /\ ~edited \/ Newer(tex) => placed = source[tex].v
  /\ pc = "table" => 
       /\ ~edited => placed = source[tex].v
       /\ (~torn \/ tex \notin suspect) /\ Newer(tex) =>
            config = ini[tex].v /\ placed = source[tex].v
       /\ ~torn => bitmap[tex].v = [list |-> config, src |-> placed]
  /\ pc \in {"stamp", "add", "check", "place"} => (~torn => config = ini[tex].v)

(* newest is not older than what it stands for.                            *)
Stamped == ~edited =>
  /\ pc = "add" => newest = ini[tex].time
  /\ pc = "check" => /\ newest >= ini[tex].time /\ newest >= source[tex].time
  /\ pc = "up2date" => ~force /\ Newer(tex)

(* add_bitmaps_and_frames leaves the header as it should be.               *)
HeaderMade == 
  pc \in {"check", "up2date", "place", "copy", "table"} /\ ~edited /\ lost = 0 =>
     (Whole(tex) => header[tex] = Defines(ini[tex].v))

(* What a run promises of a texture it has left behind                     *)
IsDone(t) ==
  /\ t \notin suspect => Current(t)
  /\ Whole(t) => header[t] = Defines(ini[t].v)
  /\ force => t \notin suspect

(* It keeps the promise for the textures before tex, and for all of them   *)
(* in phase 2.                                                             *)
Done == ~edited /\ lost = 0 =>
  \A t \in Textures :
    (\/ pc \in {"merge", "uids", "list", "passed"}
     \/ pc \in Building \cup {"open"} /\ t < tex) => IsDone(t)

(* The inductive invariant of Fresh, together with Types                   *)
FreshInv == NewerIsCurrent /\ ReadConfig /\ Placed /\ Stamped /\ HeaderMade /\ Done

(* CheckTime: a texture that is called up to date is newer than its        *)
(* inputs. A bitmap that is not there must have time 0 for this, or a      *)
(* forced choice of garbage would call it up to date.                      *)
LEMMA CheckTimeKeeps ==
  ASSUME Types, Types', FreshInv, MissingTime = {0}, CheckTime
  PROVE  FreshInv'
<1> USE DEF Types, FreshInv, CheckTime, UpToDate, BitmapTimes
<1>3. NewerIsCurrent'
  BY DEF NewerIsCurrent, Newer, Current
<1>4. ReadConfig'
  BY DEF ReadConfig, Building, Newer
<1>5. Placed'
  BY DEF Placed, Newer
<1>6. Stamped'
  <2>1. tex \in Textures
    BY DEF Control, Times, Building
  <2> QED
    BY <2>1 DEF Stamped, Newer, Control, Times
<1>7. HeaderMade'
  BY DEF HeaderMade, Whole
<1>8. Done'
  BY DEF Done, IsDone, Current, Whole, Building
<1> QED
  BY <1>3, <1>4, <1>5, <1>6, <1>7, <1>8

(* SkipTexture: what is newer than its inputs is as it should be, so it    *)
(* may be left alone.                                                      *)
LEMMA SkipTextureKeeps ==
  ASSUME Types, Types', FreshInv, SkipTexture
  PROVE  FreshInv'
<1> USE DEF Types, FreshInv, SkipTexture, NextTexture
<1>3. NewerIsCurrent'
  BY DEF NewerIsCurrent, Newer, Current
<1>4. ReadConfig'
  BY DEF ReadConfig, Building, Newer
<1>5. Placed'
  BY DEF Placed, Newer
<1>6. Stamped'
  BY DEF Stamped, Newer
<1>7. HeaderMade'
  BY DEF HeaderMade, Whole
<1>8. Done'
  <2> SUFFICES ASSUME ~edited, lost = 0, NEW t \in Textures, t <= tex
               PROVE  IsDone(t)'
    BY DEF Done, Building, Control
  <2>1. CASE t < tex
    BY <2>1 DEF Done, Building, IsDone, Current, Whole
  <2>2. CASE t = tex
    <3>1. Newer(tex) /\ ~force
      BY DEF Stamped
    <3>2. Whole(tex) => header[tex] = Defines(ini[tex].v)
      BY DEF HeaderMade
    <3> QED
      BY <2>2, <3>1, <3>2 DEF IsDone, NewerIsCurrent, Current, Whole
  <2> QED
    BY <2>1, <2>2 DEF Control
<1> QED
  BY <1>3, <1>4, <1>5, <1>6, <1>7, <1>8

(* PlaceFrames: the source that was placed is the one that is there.       *)
LEMMA PlaceFramesKeeps ==
  ASSUME Types, Types', FreshInv, PlaceFrames
  PROVE  FreshInv'
<1> USE DEF Types, FreshInv, PlaceFrames, Die, Forget
<1>3. NewerIsCurrent'
  BY DEF NewerIsCurrent, Newer, Current
<1>4. ReadConfig'
  BY DEF ReadConfig, Building, Newer, Control, Times
<1>5. Placed'
  BY DEF Placed, Newer
<1>6. Stamped'
  BY DEF Stamped, Newer
<1>7. HeaderMade'
  BY DEF HeaderMade, Whole
<1>8. Done'
  BY DEF Done, IsDone, Current, Whole, Building
<1> QED
  BY <1>3, <1>4, <1>5, <1>6, <1>7, <1>8

(* OpenConfig: what is read is what is there; past the last texture all    *)
(* are done.                                                               *)
LEMMA OpenConfigKeeps ==
  ASSUME Types, Types', FreshInv, OpenConfig
  PROVE  FreshInv'
<1> USE DEF Types, FreshInv, OpenConfig
<1>3. NewerIsCurrent'
  BY DEF NewerIsCurrent, Newer, Current
<1>4. ReadConfig'
  BY DEF ReadConfig, Building, Newer
<1>5. Placed'
  BY DEF Placed, Newer
<1>6. Stamped'
  BY DEF Stamped, Newer
<1>7. HeaderMade'
  BY DEF HeaderMade, Whole
<1>8. Done'
  <2>1. pc' = "merge" => \A t \in Textures : t < tex
    BY DEF Control, Times, Building
  <2> QED
    BY <2>1 DEF Done, IsDone, Current, Whole, Building
<1> QED
  BY <1>3, <1>4, <1>5, <1>6, <1>7, <1>8

(* EditConfig: the file becomes as new as anything, so no texture becomes  *)
(* newer than its inputs.                                                  *)
LEMMA EditConfigKeeps ==
  ASSUME Types, Types', FreshInv, NEW t \in Textures, NEW list \in Configs, EditConfig(t, list)
  PROVE  FreshInv'
<1> USE DEF Types, FreshInv
<1>1. /\ DOMAIN ini' = Textures
      /\ ini'[t].time = clock
      /\ \A u \in Textures \ {t} : ini'[u] = ini[u]
      /\ \A u \in Textures : ini'[u].time \in 1 .. clock
  BY DEF EditConfig, Control, Times
<1>2. /\ UNCHANGED <<clock, source, outputs, master, memory, lost, suspect>>
      /\ edited' = (edited \/ Running)
      /\ torn' = (torn \/ (t = tex /\ pc \in {"stamp", "add", "check", "place", "copy"}))
      /\ pc' = IF Running THEN pc ELSE "idle"
  BY DEF EditConfig, Edit
<1>4. ~Newer(t)' /\ \A u \in Textures \ {t} : Newer(u)' = Newer(u) /\ Current(u)' = Current(u)
  BY <1>1, <1>2 DEF Control, Times, Newer, Current
<1>5. NewerIsCurrent'
  BY <1>2, <1>4 DEF NewerIsCurrent
<1>6. ReadConfig'
  BY <1>1, <1>2, <1>4 DEF ReadConfig, Building, Control, Times, Running
<1>7. Placed'
  BY <1>1, <1>2, <1>4 DEF Placed, Control, Times, Building, Running
<1>8. Stamped'
  BY <1>1, <1>2, <1>4 DEF Stamped, Control, Times, Control, Building, Running
<1>9. HeaderMade'
  BY <1>1, <1>2 DEF HeaderMade, Whole, Running
<1>10. Done'
  BY <1>1, <1>2 DEF Done, Running, Building
<1> QED
  BY <1>5, <1>6, <1>7, <1>8, <1>9, <1>10

(* EditSource: the same for the source                                     *)
LEMMA EditSourceKeeps ==
  ASSUME Types, Types', FreshInv, NEW t \in Textures, NEW src \in Sources, EditSource(t, src)
  PROVE  FreshInv'
<1> USE DEF Types, FreshInv
<1>1. /\ DOMAIN source' = Textures
      /\ source'[t].time = clock
      /\ \A u \in Textures \ {t} : source'[u] = source[u]
      /\ \A u \in Textures : source'[u].time \in 1 .. clock
  BY DEF EditSource, Control, Times
<1>2. /\ UNCHANGED <<clock, ini, outputs, master, memory, lost, suspect>>
      /\ edited' = (edited \/ Running)
      /\ torn' = (torn \/ (t = tex /\ pc \in {"copy"}))
      /\ pc' = IF Running THEN pc ELSE "idle"
  BY DEF EditSource, Edit
<1>4. ~Newer(t)' /\ \A u \in Textures \ {t} : Newer(u)' = Newer(u) /\ Current(u)' = Current(u)
  BY <1>1, <1>2 DEF Control, Times, Newer, Current
<1>5. NewerIsCurrent'
  BY <1>2, <1>4 DEF NewerIsCurrent
<1>6. ReadConfig'
  BY <1>1, <1>2, <1>4 DEF ReadConfig, Building, Control, Times, Running
<1>7. Placed'
  BY <1>1, <1>2, <1>4 DEF Placed, Control, Times, Building, Running
<1>8. Stamped'
  BY <1>1, <1>2, <1>4 DEF Stamped, Control, Times, Control, Building, Running
<1>9. HeaderMade'
  BY <1>1, <1>2 DEF HeaderMade, Whole, Running
<1>10. Done'
  BY <1>1, <1>2 DEF Done, Running, Building
<1> QED
  BY <1>5, <1>6, <1>7, <1>8, <1>9, <1>10

(* AddSections: the header of the texture is now what its config file      *)
(* says.                                                                   *)
LEMMA AddSectionsKeeps ==
  ASSUME Types, Types', FreshInv, NEW o \in Outcomes, AddSections(o)
  PROVE  FreshInv'
<1> USE DEF Types, FreshInv, AddSections, SaveHeader, Die, Forget, Write, Written, Outcomes
<1>3. NewerIsCurrent'
  BY DEF NewerIsCurrent, Newer, Current
<1>4. ReadConfig'
  BY DEF ReadConfig, Building, Newer
<1>5. Placed'
  BY DEF Placed, Newer
<1>6. Stamped'
  BY DEF Stamped, Newer, Control, Times, Building
<1>7. HeaderMade'
  BY DEF HeaderMade, Whole, Control, Times, ReadConfig, Building
<1>8. Done'
  <2> SUFFICES ASSUME ~edited, lost' = 0, pc' = "check", NEW t \in Textures, t < tex
               PROVE  IsDone(t)'
    BY DEF Done, Building
  <2>1. IsDone(t) /\ t # tex
    BY DEF Done, Building, Control
  <2>2. header'[t] = header[t] /\ UNCHANGED <<ini, source, bitmap, table, suspect, force>>
    BY <2>1 DEF Control, Times
  <2> QED
    BY <2>1, <2>2 DEF IsDone, Current, Whole
<1> QED
  BY <1>3, <1>4, <1>5, <1>6, <1>7, <1>8

(* CopyFrames: the bitmap is new, the table is not, so the texture is      *)
(* suspect until the table is saved.                                       *)
LEMMA CopyFramesKeeps ==
  ASSUME Types, Types', FreshInv, NEW o \in Outcomes, CopyFrames(o)
  PROVE  FreshInv'
<1> USE DEF Types, FreshInv, CopyFrames, Write, Written, Outcomes
<1>3. NewerIsCurrent'
  BY DEF NewerIsCurrent, Newer, Current
<1>4. ReadConfig'
  <2>1. torn' => edited' \/ lost' # 0
    BY DEF ReadConfig, Building, Control, Times, Outcomes
  <2> QED
    BY <2>1 DEF ReadConfig, Building, Control, Times
<1>5. Placed'
  BY DEF Placed, Newer, Control, Times, Building, ReadConfig
<1>6. Stamped'
  BY DEF Stamped, Newer
<1>7. HeaderMade'
  BY DEF HeaderMade, Whole
<1>8. Done'
  BY DEF Done, IsDone, Current, Whole, Building
<1> QED
  BY <1>3, <1>4, <1>5, <1>6, <1>7, <1>8

(* SaveTable: the texture is made of what was read, and that is what there *)
(* is unless somebody edited it.                                           *)
LEMMA SaveTableKeeps ==
  ASSUME Types, Types', FreshInv, NEW o \in Outcomes, SaveTable(o)
  PROVE  FreshInv'
<1> USE DEF Types, FreshInv, SaveTable, NextTexture, Write, Written, Outcomes
<1>3. NewerIsCurrent'
  BY ZenonT(60) DEF NewerIsCurrent, Newer, Current, Control, Times, Building, Placed
<1>4. ReadConfig'
  BY DEF ReadConfig, Building, Newer
<1>5. Placed'
  BY DEF Placed, Newer
<1>6. Stamped'
  BY DEF Stamped, Newer
<1>7. HeaderMade'
  BY DEF HeaderMade, Whole, Control, Times
<1>8. Done'
  <2> SUFFICES ASSUME ~edited, lost' = 0, NEW t \in Textures, t <= tex
               PROVE  IsDone(t)'
    BY DEF Done, Building, Control
  <2>1. CASE t < tex
    BY <2>1 DEF Done, Building, IsDone, Current, Whole
  <2>2. CASE t = tex
    <3>1. o = "saved" /\ lost = 0
      OBVIOUS
    <3>2. ~torn /\ config = ini[tex].v /\ placed = source[tex].v
      BY <3>1 DEF ReadConfig, Building, Placed
    <3>3. Whole(tex) => header[tex] = Defines(ini[tex].v)
      BY <3>1 DEF HeaderMade
    <3> QED
      BY <2>2, <3>1, <3>2, <3>3 DEF IsDone, Placed, Current, Whole, Control, Times
  <2> QED
    BY <2>1, <2>2 DEF Control
<1> QED
  BY <1>3, <1>4, <1>5, <1>6, <1>7, <1>8

(* Merge: phase 2 touches no file of a texture.                            *)
LEMMA MergeKeeps ==
  ASSUME Types, Types', FreshInv, NEW o \in Outcomes, Merge(o)
  PROVE  FreshInv'
<1> USE DEF Types, FreshInv, Merge, Write
<1>3. NewerIsCurrent'
  BY DEF NewerIsCurrent, Newer, Current
<1>4. ReadConfig'
  BY DEF ReadConfig, Building, Newer
<1>5. Placed'
  BY DEF Placed, Newer
<1>6. Stamped'
  BY DEF Stamped, Newer
<1>7. HeaderMade'
  BY DEF HeaderMade, Whole
<1>8. Done'
  <2>1. lost' = 0 => lost = 0
    BY DEF Outcomes
  <2>2. \A t \in Textures : IsDone(t)' = IsDone(t)
    BY DEF IsDone, Current, Whole
  <2> QED
    BY <2>1, <2>2 DEF Done, Building
<1> QED
  BY <1>3, <1>4, <1>5, <1>6, <1>7, <1>8

(* SaveMasterHeader: neither does this.                                    *)
LEMMA SaveMasterHeaderKeeps ==
  ASSUME Types, Types', FreshInv, NEW o \in Outcomes, SaveMasterHeader(o)
  PROVE  FreshInv'
<1> USE DEF Types, FreshInv, SaveMasterHeader, Write
<1>3. NewerIsCurrent'
  BY DEF NewerIsCurrent, Newer, Current
<1>4. ReadConfig'
  BY DEF ReadConfig, Building, Newer
<1>5. Placed'
  BY DEF Placed, Newer
<1>6. Stamped'
  BY DEF Stamped, Newer
<1>7. HeaderMade'
  BY DEF HeaderMade, Whole
<1>8. Done'
  <2>1. lost' = 0 => lost = 0
    BY DEF Outcomes
  <2>2. \A t \in Textures : IsDone(t)' = IsDone(t)
    BY DEF IsDone, Current, Whole
  <2> QED
    BY <2>1, <2>2 DEF Done, Building
<1> QED
  BY <1>3, <1>4, <1>5, <1>6, <1>7, <1>8

(* SaveUIDs: nor this.                                                     *)
LEMMA SaveUIDsKeeps ==
  ASSUME Types, Types', FreshInv, NEW o \in Outcomes, SaveUIDs(o)
  PROVE  FreshInv'
<1> USE DEF Types, FreshInv, SaveUIDs, Write
<1>3. NewerIsCurrent'
  BY DEF NewerIsCurrent, Newer, Current
<1>4. ReadConfig'
  BY DEF ReadConfig, Building, Newer
<1>5. Placed'
  BY DEF Placed, Newer
<1>6. Stamped'
  BY DEF Stamped, Newer
<1>7. HeaderMade'
  BY DEF HeaderMade, Whole
<1>8. Done'
  <2>1. lost' = 0 => lost = 0
    BY DEF Outcomes
  <2>2. \A t \in Textures : IsDone(t)' = IsDone(t)
    BY DEF IsDone, Current, Whole
  <2> QED
    BY <2>1, <2>2 DEF Done, Building
<1> QED
  BY <1>3, <1>4, <1>5, <1>6, <1>7, <1>8

(* SaveTextureList: nor this.                                              *)
LEMMA SaveTextureListKeeps ==
  ASSUME Types, Types', FreshInv, NEW o \in Outcomes, SaveTextureList(o)
  PROVE  FreshInv'
<1> USE DEF Types, FreshInv, SaveTextureList, Write, Forget
<1>3. NewerIsCurrent'
  BY DEF NewerIsCurrent, Newer, Current
<1>4. ReadConfig'
  BY DEF ReadConfig, Building, Newer
<1>5. Placed'
  BY DEF Placed, Newer
<1>6. Stamped'
  BY DEF Stamped, Newer
<1>7. HeaderMade'
  BY DEF HeaderMade, Whole
<1>8. Done'
  <2>1. lost' = 0 => lost = 0
    BY DEF Outcomes
  <2>2. \A t \in Textures : IsDone(t)' = IsDone(t)
    BY DEF IsDone, Current, Whole
  <2> QED
    BY <2>1, <2>2 DEF Done, Building
<1> QED
  BY <1>3, <1>4, <1>5, <1>6, <1>7, <1>8

(* Tick: only the clock moves.                                             *)
LEMMA TickKeeps ==
  ASSUME Types, Types', FreshInv, Tick
  PROVE  FreshInv'
<1> USE DEF Types, FreshInv, Tick
<1>3. NewerIsCurrent'
  BY DEF NewerIsCurrent, Newer, Current
<1>4. ReadConfig'
  BY DEF ReadConfig, Building, Newer
<1>5. Placed'
  BY DEF Placed, Newer
<1>6. Stamped'
  BY DEF Stamped, Newer
<1>7. HeaderMade'
  BY DEF HeaderMade, Whole
<1>8. Done'
  BY DEF Done, IsDone, Current, Whole, Building
<1> QED
  BY <1>3, <1>4, <1>5, <1>6, <1>7, <1>8

(* StampConfig: newest is the time of the config file.                     *)
LEMMA StampConfigKeeps ==
  ASSUME Types, Types', FreshInv, StampConfig
  PROVE  FreshInv'
<1> USE DEF Types, FreshInv, StampConfig
<1>3. NewerIsCurrent'
  BY DEF NewerIsCurrent, Newer, Current
<1>4. ReadConfig'
  BY DEF ReadConfig, Building, Newer
<1>5. Placed'
  BY DEF Placed, Newer
<1>6. Stamped'
  BY DEF Stamped, Newer, Control, Times
<1>7. HeaderMade'
  BY DEF HeaderMade, Whole
<1>8. Done'
  BY DEF Done, IsDone, Current, Whole, Building
<1> QED
  BY <1>3, <1>4, <1>5, <1>6, <1>7, <1>8

(* Crash: the memory of the run is gone, the files keep what they held.    *)
LEMMA CrashKeeps ==
  ASSUME Types, Types', FreshInv, Crash
  PROVE  FreshInv'
<1> USE DEF Types, FreshInv, Crash, Die, Forget, Running
<1>3. NewerIsCurrent'
  BY DEF NewerIsCurrent, Newer, Current
<1>4. ReadConfig'
  BY DEF ReadConfig, Building, Newer
<1>5. Placed'
  BY DEF Placed, Newer
<1>6. Stamped'
  BY DEF Stamped, Newer
<1>7. HeaderMade'
  BY DEF HeaderMade, Whole
<1>8. Done'
  BY DEF Done, IsDone, Current, Whole, Building
<1> QED
  BY <1>3, <1>4, <1>5, <1>6, <1>7, <1>8

(* Start: nothing is done yet.                                             *)
LEMMA StartKeeps ==
  ASSUME Types, Types', FreshInv, NEW f \in BOOLEAN, Start(f)
  PROVE  FreshInv'
<1> USE DEF Types, FreshInv, Start
<1>3. NewerIsCurrent'
  BY DEF NewerIsCurrent, Newer, Current
<1>4. ReadConfig'
  BY DEF ReadConfig, Building, Newer
<1>5. Placed'
  BY DEF Placed, Newer
<1>6. Stamped'
  BY DEF Stamped, Newer
<1>7. HeaderMade'
  BY DEF HeaderMade, Whole
<1>8. Done'
  BY DEF Done, IsDone, Current, Whole, Building
<1> QED
  BY <1>3, <1>4, <1>5, <1>6, <1>7, <1>8

(* Every step keeps the invariant, if a file that is not there has time 0. *)
LEMMA StepKeeps ==
  ASSUME Types, Types', FreshInv, MissingTime = {0}, [Next]_vars
  PROVE  FreshInv'
<1>1. ASSUME NEW o \in Outcomes,
             \/ AddSections(o) \/ CopyFrames(o) \/ SaveTable(o) \/ Merge(o)
             \/ SaveMasterHeader(o) \/ SaveUIDs(o) \/ SaveTextureList(o)
      PROVE  FreshInv'
  BY <1>1, AddSectionsKeeps, CopyFramesKeeps, SaveTableKeeps, MergeKeeps,
     SaveMasterHeaderKeeps, SaveUIDsKeeps, SaveTextureListKeeps
<1>2. CASE Step
  BY <1>1, <1>2, OpenConfigKeeps, StampConfigKeeps, CheckTimeKeeps, SkipTextureKeeps,
     PlaceFramesKeeps DEF Step
<1>3. CASE UNCHANGED vars
  BY <1>3 DEF FreshInv, Control, Times, NewerIsCurrent, ReadConfig, Placed, Stamped,
              HeaderMade, Done, IsDone, Newer, Current, Whole
<1> QED
  BY <1>2, <1>3, TickKeeps, EditConfigKeeps, EditSourceKeeps, StartKeeps, CrashKeeps
  DEF Next

(* It holds before the first run: no texture has a bitmap.                 *)
LEMMA InitFresh == Init => FreshInv
<1> SUFFICES ASSUME Init PROVE FreshInv
  OBVIOUS
<1>1. pc = "idle" /\ \A t \in Textures : ~Newer(t)
  BY DEF Init, Newer
<1>2. NewerIsCurrent /\ ReadConfig /\ HeaderMade /\ Done
  BY <1>1 DEF NewerIsCurrent, ReadConfig, HeaderMade, Done, Building
<1>3. Placed /\ Stamped
  BY <1>1 DEF Placed, Stamped
<1> QED
  BY <1>2, <1>3 DEF FreshInv

(* process_ini rebuilds what it must: after a run that passes, was not     *)
(* disturbed and could write its files, the files of every texture are     *)
(* those a run from nothing would have made, whatever happened to the runs *)
(* before it. FILE_time_last_write returns 0 for a file that is not there  *)
(* (file.cpp, Windows); on the Mac it returns what was on the stack, and   *)
(* there the run of UpToDateIsNewer refutes this.                          *)
THEOREM QuietRunsRepair ==
  ASSUME MissingTime = {0}
  PROVE  Spec => []Fresh
<1>1. Types /\ FreshInv => Fresh
  <2> SUFFICES ASSUME Types, FreshInv, Quiet
               PROVE  /\ force => suspect = {}
                      /\ \A t \in Textures \ suspect : Current(t)
                      /\ \A t \in Textures : Whole(t) => header[t] = Defines(ini[t].v)
    BY DEF Fresh, Current
  <2>1. \A t \in Textures : IsDone(t)
    BY DEF FreshInv, Done, Quiet
  <2>2. suspect \subseteq Textures
    BY DEF Types, Control
  <2> QED
    BY <2>1, <2>2 DEF IsDone
<1>2. Types /\ Types' /\ FreshInv /\ [Next]_vars => FreshInv'
  BY StepKeeps
<1> QED
  BY InitTypes, TypesStep, InitFresh, <1>1, <1>2, PTL DEF Spec

-----------------------------------------------------------------------------
(* MasterIsAllTables: phase 2                                              *)

HIDE RunAssumption

(* All that the rest needs of the assumption; the bounds would only slow   *)
(* the provers down.                                                       *)
LEMMA NPositive == N \in Nat \ {0}
BY RunAssumption

USE NPositive

(* ENDIAN_flip_word returns a number.                                      *)
LEMMA HostWordIsInt ==
  ASSUME NEW w \in Int
  PROVE  HostWord(w) \in Int
<1>1. w % 256 \in Int /\ w \div 256 \in Int
  BY SMT
<1> QED
  BY <1>1, SMT DEF HostWord, Flip

(* Zero is zero in either order.                                           *)
LEMMA HostZero == HostWord(0) = 0
BY SMT DEF HostWord, Flip

(* What becomes of an m_iBitmap of 0 when i is added to it                 *)
Numbering(i) == HostWord((HostWord(0) + i) % 65536)

(* It is a number, not above i on a machine of the order of the file.      *)
LEMMA NumberingFacts ==
  ASSUME NEW i \in Nat
  PROVE  /\ Numbering(i) \in Int
         /\ ~BigEndian => Numbering(i) = i % 65536 /\ Numbering(i) <= i
         /\ Numbering(0) = 0
<1>1. i % 65536 \in Int /\ i % 65536 <= i /\ 0 % 65536 = 0
  BY SMT
<1>2. HostWord(0) + i = i /\ HostWord(0) + 0 = 0
  BY HostZero, SMT
<1>3. Numbering(i) = HostWord(i % 65536)
  BY <1>2, SMT DEF Numbering
<1>4. Numbering(0) = HostWord(0)
  BY <1>1, <1>2, SMT DEF Numbering
<1>5. ~BigEndian => HostWord(i % 65536) = i % 65536
  BY SMT DEF HostWord
<1> QED
  BY <1>1, <1>3, <1>4, <1>5, HostZero, HostWordIsInt, SMT

(* An entry of the master table *)
MasterEntry == {r \in [tex : Textures, sec : Nat, src : Sources, iBitmap : Int] :
                  r.iBitmap = Numbering(r.tex - 1)}

(* Renumbering changes no entry but for its bitmap number.                 *)
LEMMA RenumberFacts ==
  ASSUME NEW t \in Textures, NEW entries \in Seq(EntryOf(t))
  PROVE  /\ Renumber(entries, t - 1) \in Seq(MasterEntry)
         /\ Len(Renumber(entries, t - 1)) = Len(entries)
         /\ Renumber(entries, 0) = entries
         /\ \A e \in 1 .. Len(entries) :
              LET r == Renumber(entries, t - 1)[e] IN
                r.tex = t /\ r.sec = entries[e].sec /\ r.iBitmap = Numbering(t - 1)
<1>1. \A e \in 1 .. Len(entries) : entries[e] \in EntryOf(t)
  OBVIOUS
<1>2. Len(entries) \in Nat /\ DOMAIN entries = 1 .. Len(entries)
  OBVIOUS
<1>3. ASSUME NEW i \in Nat, NEW e \in 1 .. Len(entries)
      PROVE  Renumber(entries, i)[e] = [entries[e] EXCEPT !.iBitmap = Numbering(i)]
  <2>1. entries[e].iBitmap = 0
    BY <1>1 DEF EntryOf
  <2>2. Renumber(entries, i)[e] =
          [entries[e] EXCEPT !.iBitmap = HostWord((HostWord(entries[e].iBitmap) + i) % 65536)]
    BY <1>2, SMT DEF Renumber
  <2> QED
    BY <2>1, <2>2, SMT DEF Numbering
<1>4. ASSUME NEW e \in 1 .. Len(entries)
      PROVE  LET r == Renumber(entries, t - 1)[e] IN
               /\ r \in MasterEntry
               /\ r.tex = t /\ r.sec = entries[e].sec /\ r.iBitmap = Numbering(t - 1)
  <2>1. t - 1 \in Nat /\ t - 1 < N /\ t \in Textures
    OBVIOUS
  <2>2. Numbering(t - 1) \in Int /\ (~BigEndian => Numbering(t - 1) <= t - 1)
    BY <2>1, NumberingFacts
  <2>4. Renumber(entries, t - 1)[e] = [entries[e] EXCEPT !.iBitmap = Numbering(t - 1)]
    BY <1>3, <2>1
  <2>5. entries[e] \in EntryOf(t)
    BY <1>1
  <2> QED
    BY <2>1, <2>2, <2>4, <2>5 DEF EntryOf, MasterEntry
<1>5. Renumber(entries, t - 1) = [e \in 1 .. Len(entries) |-> Renumber(entries, t - 1)[e]]
  BY <1>2, SMT DEF Renumber
<1>6. Renumber(entries, t - 1) \in Seq(MasterEntry) /\ Len(Renumber(entries, t - 1)) = Len(entries)
  <2>1. \A e \in 1 .. Len(entries) : Renumber(entries, t - 1)[e] \in MasterEntry
    BY <1>4
  <2> QED
    BY <1>2, <1>5, <2>1
<1>7. Renumber(entries, 0) = entries
  <2>1. ASSUME NEW e \in 1 .. Len(entries)
        PROVE  Renumber(entries, 0)[e] = entries[e]
    <3>1. Renumber(entries, 0)[e] = [entries[e] EXCEPT !.iBitmap = Numbering(0)]
      BY <1>3
    <3>2. Numbering(0) = 0
      BY NumberingFacts
    <3>3. entries[e] \in EntryOf(t)
      BY <1>1
    <3> QED
      BY <3>1, <3>2, <3>3 DEF EntryOf
  <2>2. Renumber(entries, 0) = [e \in 1 .. Len(entries) |-> Renumber(entries, 0)[e]]
    BY <1>2, SMT DEF Renumber
  <2>3. entries = [e \in 1 .. Len(entries) |-> entries[e]]
    BY <1>2
  <2> QED
    BY <2>1, <2>2, <2>3, Zenon
<1> QED
  BY <1>4, <1>6, <1>7

(* The tables of the first n textures, numbered *)
Numbered(n) == [t \in 1 .. n |-> Renumber(table[t].v, t - 1)]

(* The master table when n textures are merged                             *)
Merging(n) == FlattenSeq(Numbered(n))

(* They are as many, and they hold entries of the master table.            *)
LEMMA NumberedInSeq ==
  ASSUME Outputs, NEW n \in 0 .. N
  PROVE  Numbered(n) \in Seq(Seq(MasterEntry)) /\ Len(Numbered(n)) = n
<1>1. ASSUME NEW t \in 1 .. n PROVE Renumber(table[t].v, t - 1) \in Seq(MasterEntry)
  <2>1. t \in Textures /\ table[t].v \in Seq(EntryOf(t))
    BY DEF Outputs
  <2> QED
    BY <2>1, RenumberFacts
<1> QED
  BY <1>1 DEF Numbered

(* Merging another texture appends its table.                              *)
LEMMA MergingFacts ==
  ASSUME Outputs, NEW n \in 0 .. N
  PROVE  /\ Merging(n) \in Seq(MasterEntry)
         /\ n = 0 => Merging(n) = <<>>
         /\ n < N => Merging(n + 1) = Merging(n) \o Renumber(table[n + 1].v, n)
<1>1. Numbered(n) \in Seq(Seq(MasterEntry)) /\ Len(Numbered(n)) = n
  BY NumberedInSeq
<1>2. Merging(n) \in Seq(MasterEntry)
  BY <1>1, FlattenInSeq DEF Merging
<1>3. ASSUME n = 0 PROVE Merging(n) = <<>>
  <2>1. Numbered(n) = <<>>
    BY <1>1, <1>3
  <2> QED
    BY <2>1, FlattenNone DEF Merging
<1>4. ASSUME n < N PROVE Merging(n + 1) = Merging(n) \o Renumber(table[n + 1].v, n)
  <2>1. n + 1 \in 0 .. N
    BY <1>4
  <2>2. Numbered(n + 1) \in Seq(Seq(MasterEntry)) /\ Len(Numbered(n + 1)) = n + 1
    BY <2>1, NumberedInSeq
  <2>3. Len(Numbered(n + 1)) = Len(Numbered(n)) + 1
    BY <1>1, <2>2
  <2>4. \A i \in 1 .. Len(Numbered(n)) : Numbered(n + 1)[i] = Numbered(n)[i]
    BY <1>1 DEF Numbered
  <2>5. FlattenSeq(Numbered(n + 1)) = FlattenSeq(Numbered(n)) \o Numbered(n + 1)[Len(Numbered(n + 1))]
    BY ONLY <1>1, <2>2, <2>3, <2>4, FlattenMore
  <2>6. Numbered(n + 1)[n + 1] = Renumber(table[n + 1].v, n)
    BY DEF Numbered
  <2> QED
    BY <2>2, <2>5, <2>6 DEF Merging
<1> QED
  BY <1>2, <1>3, <1>4

(* The inductive invariant of MasterIsAllTables: the master table holds    *)
(* the tables of the textures that were merged, and iSprite is its size,   *)
(* if every write of phase 2 succeeded; what older runs left is gone with  *)
(* the first texture.                                                      *)
Master ==
  /\ pc \notin {"merge", "uids", "list"} \/ (pc = "merge" /\ tex = 1) => iSprite = 0
  /\ pc = "merge" /\ tex > 1 /\ lost # 2 =>
       masterTable = Merging(tex - 1) /\ iSprite = Len(masterTable)
  /\ pc \in {"uids", "list", "passed"} /\ lost # 2 =>
       /\ masterTable = Merging(N)
       /\ masterHeader.sprMax = Len(masterTable) /\ masterHeader.texMax = N
  /\ pc = "passed" /\ lost # 2 => Len(textureList) = N

(* Merge: the first table replaces the file, the others are appended.      *)
LEMMA MergeMaster ==
  ASSUME Types, Master, NEW o \in Outcomes, Merge(o)
  PROVE  Master'
<1>1. table' = table /\ pc = "merge" /\ pc' = "merge" /\ tex' = tex + 1 /\ tex \in Textures
  BY DEF Merge, Types, Control
<1>2. ASSUME lost' # 2
      PROVE  masterTable' = Merging(tex) /\ iSprite' = Len(masterTable')
  <2>1. lost # 2 /\ masterTable' = Merged(table[tex].v, tex - 1)
    BY <1>2 DEF Merge, Write, Written, Outcomes
  <2>2. table[tex].v \in Seq(EntryOf(tex))
    BY <1>1 DEF Types, Outputs
  <2>3. /\ Renumber(table[tex].v, tex - 1) \in Seq(MasterEntry)
        /\ Len(Renumber(table[tex].v, tex - 1)) = Len(table[tex].v)
        /\ Renumber(table[tex].v, 0) = table[tex].v
    BY <1>1, <2>2, RenumberFacts
  <2>4. tex - 1 \in 0 .. N /\ tex - 1 < N /\ (tex - 1) + 1 = tex
    BY <1>1
  <2>5. /\ Merging(tex - 1) \in Seq(MasterEntry)
        /\ tex - 1 = 0 => Merging(tex - 1) = <<>>
        /\ Merging((tex - 1) + 1) = Merging(tex - 1) \o Renumber(table[(tex - 1) + 1].v, tex - 1)
    BY <2>4, MergingFacts DEF Types
  <2>6. Merging(tex) = Merging(tex - 1) \o Renumber(table[tex].v, tex - 1)
    BY <2>4, <2>5
  <2>7. masterTable' = Merging(tex - 1) \o Renumber(table[tex].v, tex - 1)
    <3>1. CASE tex = 1
      <4>1. masterTable' = Renumber(table[tex].v, tex - 1)
        BY <2>1, <2>3, <3>1 DEF Merged
      <4> QED
        BY <2>3, <2>5, <3>1, <4>1
    <3>2. CASE tex # 1
      <4>1. tex > 1 /\ tex - 1 # 0
        BY <1>1, <3>2
      <4>2. masterTable = Merging(tex - 1)
        BY <1>1, <2>1, <4>1 DEF Master
      <4> QED
        BY <2>1, <4>1, <4>2 DEF Merged
    <3> QED
      BY <3>1, <3>2
  <2>8. iSprite' = iSprite + Len(table[tex].v)
    BY DEF Merge, Sprites
  <2>9. iSprite = Len(Merging(tex - 1))
    <3>1. CASE tex = 1
      BY <1>1, <2>5, <3>1 DEF Master
    <3>2. CASE tex # 1
      BY <1>1, <2>1, <3>2 DEF Master
    <3> QED
      BY <3>1, <3>2
  <2>10. Len(masterTable') = Len(Merging(tex - 1)) + Len(table[tex].v)
    <3> DEFINE s == Merging(tex - 1)
               r == Renumber(table[tex].v, tex - 1)
    <3>1. s \in Seq(MasterEntry) /\ r \in Seq(MasterEntry)
      BY <2>3, <2>5
    <3>2. masterTable' = s \o r /\ Len(r) = Len(table[tex].v)
      BY <2>3, <2>7
    <3> HIDE DEF s, r
    <3>3. Len(s \o r) = Len(s) + Len(r)
      BY <3>1
    <3> QED
      BY <3>2, <3>3 DEF s
  <2> QED
    BY <2>6, <2>7, <2>8, <2>9, <2>10
<1>3. tex' > 1 /\ tex' - 1 = tex
  BY <1>1
<1> QED
  BY <1>1, <1>2, <1>3 DEF Master, Merging, Numbered

(* Every step keeps it.                                                    *)
LEMMA MasterStep ==
  ASSUME Types, Master, [Next]_vars
  PROVE  Master'
<1>1. ASSUME table' = table, masterTable' = masterTable, masterHeader' = masterHeader,
             textureList' = textureList, iSprite' = iSprite, lost' = lost, pc' = pc,
             tex' = tex \/ pc # "merge"
      PROVE  Master'
  BY <1>1 DEF Master, Merging, Numbered
<1>2. ASSUME pc' \notin {"merge", "uids", "list", "passed"}, iSprite' = 0
      PROVE  Master'
  BY <1>2 DEF Master
<1>3. CASE Tick
  BY <1>1, <1>3 DEF Tick
<1>4. CASE \E t \in Textures, list \in Configs : EditConfig(t, list)
  BY <1>1, <1>2, <1>4 DEF EditConfig, Edit, Running, Master
<1>5. CASE \E t \in Textures, src \in Sources : EditSource(t, src)
  BY <1>1, <1>2, <1>5 DEF EditSource, Edit, Running, Master
<1>6. CASE \E f \in BOOLEAN : Start(f)
  BY <1>2, <1>6 DEF Start, Master
<1>7. CASE Crash
  BY <1>2, <1>7 DEF Crash, Die, Forget
<1>8. CASE OpenConfig
  BY <1>8 DEF OpenConfig, Master
<1>9. CASE StampConfig \/ CheckTime \/ SkipTexture \/ PlaceFrames
  BY <1>2, <1>9 DEF StampConfig, CheckTime, SkipTexture, NextTexture, PlaceFrames, Die, Forget, Master
<1>10. ASSUME NEW o \in Outcomes PROVE AddSections(o) \/ CopyFrames(o) \/ SaveTable(o) => Master'
  BY <1>2 DEF AddSections, CopyFrames, SaveTable, NextTexture, Die, Forget, Master
<1>11. ASSUME NEW o \in Outcomes, SaveMasterHeader(o) PROVE Master'
  <2>1. tex = N + 1 /\ tex > 1 /\ tex - 1 = N
    BY <1>11 DEF SaveMasterHeader, Types, Control, Bounds
  <2>2. /\ pc = "merge" /\ pc' = "uids" /\ masterTable' = masterTable /\ table' = table
    BY <1>11 DEF SaveMasterHeader
  <2>3. ASSUME lost' # 2
        PROVE  lost # 2 /\ masterHeader' = [defines |-> headerOut, sprMax |-> iSprite, texMax |-> N]
    BY <1>11, <2>3 DEF SaveMasterHeader, Write, Written, Outcomes
  <2>4. Merging(N)' = Merging(N)
    BY <2>2 DEF Merging, Numbered
  <2>5. ASSUME lost' # 2
        PROVE  masterTable = Merging(N) /\ iSprite = Len(masterTable)
    BY <2>1, <2>2, <2>3, <2>5 DEF Master
  <2> QED
    BY <2>2, <2>3, <2>4, <2>5 DEF Master
<1>12. ASSUME NEW o \in Outcomes, SaveUIDs(o) PROVE Master'
  BY <1>12 DEF SaveUIDs, Write, Outcomes, Master, Merging, Numbered
<1>13. ASSUME NEW o \in Outcomes, SaveTextureList(o) PROVE Master'
  BY <1>13 DEF SaveTextureList, Write, Written, Forget, Outcomes, Master, Merging, Numbered
<1>14. CASE UNCHANGED vars
  BY <1>1, <1>14
<1> QED
  BY <1>3, <1>4, <1>5, <1>6, <1>7, <1>8, <1>9, <1>10, <1>11, <1>12, <1>13, <1>14, MergeMaster
  DEF Next, Step

(* It implies the property.                                                *)
LEMMA MasterGood == Types /\ Master => MasterIsAllTables
<1> SUFFICES ASSUME Types, Master, pc = "passed", lost # 2
             PROVE  /\ masterTable = Merging(N)
                    /\ masterHeader.sprMax = Len(masterTable)
                    /\ ~BigEndian =>
                         \A e \in DOMAIN masterTable : masterTable[e].iBitmap < masterHeader.texMax
                    /\ masterHeader.texMax = Len(textureList)
  BY DEF MasterIsAllTables, Merging, Numbered
<1>1. /\ masterTable = Merging(N) /\ masterHeader.sprMax = Len(masterTable)
      /\ masterHeader.texMax = N /\ Len(textureList) = N
  BY DEF Master
<1>2. Merging(N) \in Seq(MasterEntry)
  BY MergingFacts DEF Types
<1>3. \A e \in DOMAIN masterTable : masterTable[e] \in MasterEntry
  BY <1>1, <1>2
<1>4. ASSUME ~BigEndian, NEW e \in DOMAIN masterTable
      PROVE  masterTable[e].iBitmap < N
  <2>1. masterTable[e].tex \in Textures /\ masterTable[e].iBitmap = Numbering(masterTable[e].tex - 1)
    BY <1>3 DEF MasterEntry
  <2>2. masterTable[e].tex - 1 \in Nat /\ masterTable[e].tex - 1 < N
    BY <2>1
  <2>3. Numbering(masterTable[e].tex - 1) <= masterTable[e].tex - 1
    BY <1>4, <2>2, NumberingFacts
  <2>4. Numbering(masterTable[e].tex - 1) \in Int
    BY <2>2, NumberingFacts
  <2> QED
    BY <2>1, <2>2, <2>3, <2>4
<1> QED
  BY <1>1, <1>4

(* TypeOK is Types and the part of Master about the offset.                *)
LEMMA TypesGood == Types /\ Master => TypeOK
<1> SUFFICES ASSUME Types, Master PROVE TypeOK
  OBVIOUS
<1>1. clock \in 1 .. MaxClock /\ events \in 0 .. MaxEvents
  BY RunAssumption DEF Types, Times, Bounds
<1>2. ini \in [Textures -> [v : Configs, time : 1 .. MaxClock]]
  <2>1. \A t \in Textures : ini[t] \in [v : Configs, time : Nat] /\ ini[t].time \in 1 .. MaxClock
    BY <1>1, RunAssumption DEF Types, Times, Inputs
  <2>2. \A t \in Textures : ini[t] \in [v : Configs, time : 1 .. MaxClock]
    BY <2>1
  <2> QED
    BY <2>2 DEF Types, Inputs
<1>3. source \in [Textures -> [v : Sources, time : 1 .. MaxClock]]
  <2>1. \A t \in Textures : source[t] \in [v : Sources, time : Nat] /\ source[t].time \in 1 .. MaxClock
    BY <1>1, RunAssumption DEF Types, Times, Inputs
  <2>2. \A t \in Textures : source[t] \in [v : Sources, time : 1 .. MaxClock]
    BY <2>1
  <2> QED
    BY <2>2 DEF Types, Inputs
<1>4. \A t \in Textures : /\ bitmap[t].time \in 0 .. clock
                          /\ table[t].time \in 0 .. clock
                          /\ header[t] \in Seq(Nat)
  BY DEF Types, Times, Outputs
<1>5. tex \in 0 .. N + 1 /\ lost \in 0 .. 2 /\ suspect \subseteq Textures
  BY DEF Types, Control, Bounds
<1>6. (pc = "merge" /\ tex > 1 /\ lost # 2) => iSprite = Len(masterTable)
  BY DEF Master
<1> QED
  BY <1>1, <1>2, <1>3, <1>4, <1>5, <1>6 DEF TypeOK, Types, Stages, Times

(* The types hold, and in phase 2 of process_ini iSprite is the size of    *)
(* the master table as long as it could be written: what the #defines of   *)
(* the next texture are relative to.                                       *)
THEOREM RunTypeCorrect == Spec => []TypeOK
<1>1. Init => Master
  BY DEF Init, Master
<1> QED
  BY <1>1, InitTypes, TypesStep, MasterStep, TypesGood, PTL DEF Spec

(* After every run that passes and could write its master files, even      *)
(* after runs that died in phase 2, the master table is the tables of the  *)
(* textures, each once, and SPR_MAX and TEX_MAX are its size and a bound   *)
(* of its bitmap numbers, on which SPR_init_once relies.                   *)
THEOREM MasterFilesAgree == Spec => []MasterIsAllTables
<1>1. Init => Master
  BY DEF Init, Master
<1> QED
  BY <1>1, InitTypes, TypesStep, MasterStep, MasterGood, PTL DEF Spec

-----------------------------------------------------------------------------
(* SpritesFound. First: a table has the frames of a section where the      *)
(* header of the texture says                                              *)

(* The frames of the first k sections                                      *)
Before(list, k) == SumOf(SubSeq(list, 1, k))

(* They add up, and the #define of a section is the frames before it.      *)
LEMMA BeforeFacts ==
  ASSUME NEW list \in Seq(Int)
  PROVE  /\ Before(list, 0) = 0
         /\ \A k \in 0 .. Len(list) : Before(list, k) \in Int
         /\ \A k \in 1 .. Len(list) : Before(list, k) = Before(list, k - 1) + list[k]
         /\ \A l \in 1 .. Len(list) : Defines(list)[l] = Before(list, l - 1)
<1>1. Before(list, 0) = 0
  <2>1. SubSeq(list, 1, 0) = <<>>
    OBVIOUS
  <2> QED
    BY <2>1, SumNone DEF Before
<1>2. ASSUME NEW k \in 0 .. Len(list) PROVE Before(list, k) \in Int
  BY SubSeqFacts, SumIsInt DEF Before
<1>3. ASSUME NEW k \in 1 .. Len(list) PROVE Before(list, k) = Before(list, k - 1) + list[k]
  <2>1. k - 1 \in 0 .. Len(list) /\ k \in 0 .. Len(list)
    OBVIOUS
  <2> DEFINE s == SubSeq(list, 1, k - 1)
             t == SubSeq(list, 1, k)
  <2>2. s \in Seq(Int) /\ Len(s) = k - 1 /\ \A i \in 1 .. k - 1 : s[i] = list[i]
    BY <2>1, SubSeqFacts
  <2>3. t \in Seq(Int) /\ Len(t) = k /\ \A i \in 1 .. k : t[i] = list[i]
    BY <2>1, SubSeqFacts
  <2>4. Before(list, k) = SumOf(t) /\ Before(list, k - 1) = SumOf(s)
    BY DEF Before
  <2> HIDE DEF s, t
  <2>5. ASSUME NEW i \in 1 .. k - 1 PROVE t[i] = s[i]
    <3>1. i \in 1 .. k
      OBVIOUS
    <3> QED
      BY <2>2, <2>3, <3>1
  <2>6. Len(t) = Len(s) + 1 /\ \A i \in 1 .. Len(s) : t[i] = s[i]
    BY <2>2, <2>3, <2>5
  <2>7. SumOf(t) = SumOf(s) + t[Len(t)]
    BY ONLY <2>2, <2>3, <2>6, SumMore
  <2> QED
    BY <2>3, <2>4, <2>7
<1>4. \A l \in 1 .. Len(list) : Defines(list)[l] = Before(list, l - 1)
  BY DEF Defines, Before
<1> QED
  BY <1>1, <1>2, <1>3, <1>4

(* The frames of the first k sections of list, and where they are. *)
Blocks(t, list, k, src) == [l \in 1 .. k |-> Block(t, l, list[l], src)]

(* In E are the frames of the first k sections of list, each section where *)
(* its #define says and nowhere else.                                      *)
Placing(E, list, k) ==
  /\ Len(E) = Before(list, k)
  /\ \A e \in 1 .. Len(E) : E[e].sec \in 1 .. k
  /\ \A l \in 1 .. k :
       /\ 0 <= Before(list, l - 1) /\ Before(list, l) <= Len(E)
       /\ \A e \in 1 .. Len(E) : E[e].sec = l <=> Before(list, l - 1) < e /\ e <= Before(list, l)

(* Adding the frames of the next section keeps that.                       *)
LEMMA PlacingMore ==
  ASSUME NEW t, NEW src \in Sources, NEW list \in Seq(Int), NEW k \in Nat, k + 1 <= Len(list),
         list[k + 1] > 0, NEW E \in Seq(EntryOf(t)), Placing(E, list, k), Before(list, k) >= 0
  PROVE  Placing(E \o Block(t, k + 1, list[k + 1], src), list, k + 1)
<1> DEFINE n == list[k + 1]
           B == Block(t, k + 1, n, src)
           F == E \o B
<1>1. n \in Nat /\ n > 0
  OBVIOUS
<1> HIDE DEF n
<1>2. B \in Seq(EntryOf(t)) /\ Len(B) = n /\ \A f \in 1 .. n : B[f].sec = k + 1
  <2>1. B \in Seq(EntryOf(t)) /\ Len(B) = n
    <3>1. k + 1 \in Nat /\ n \in Nat /\ src \in Sources
      BY <1>1
    <3>2. Block(t, k + 1, n, src) \in Seq(EntryOf(t)) /\ Len(Block(t, k + 1, n, src)) = n
      BY ONLY <3>1, BlockInSeq
    <3> QED
      BY ONLY <3>2 DEF B
  <2>2. \A f \in 1 .. n : B[f].sec = k + 1
    BY DEF Block
  <2> QED
    BY <2>1, <2>2
<1> HIDE DEF B
<1>0. E \in Seq(EntryOf(t)) /\ Len(E) \in Nat
  OBVIOUS
<1>3. /\ Len(F) = Len(E) + n
      /\ \A e \in 1 .. Len(E) : F[e] = E[e]
      /\ \A e \in Len(E) + 1 .. Len(E) + n : F[e] = B[e - Len(E)]
  <2>1. F = E \o B /\ B \in Seq(EntryOf(t)) /\ Len(B) = n
    BY <1>2
  <2> HIDE DEF F
  <2>2. /\ Len(E \o B) = Len(E) + Len(B)
        /\ \A e \in 1 .. Len(E) : (E \o B)[e] = E[e]
        /\ \A e \in Len(E) + 1 .. Len(E) + Len(B) : (E \o B)[e] = B[e - Len(E)]
    BY <1>0, <2>1, ConcatFacts, Zenon
  <2> QED
    BY <2>1, <2>2, Zenon
<1>4. ASSUME NEW e \in Len(E) + 1 .. Len(E) + n PROVE F[e].sec = k + 1
  <2>1. e - Len(E) \in 1 .. n
    BY <1>0, <1>1
  <2> QED
    BY <1>2, <1>3, <2>1
<1> HIDE DEF F
<1>5. Before(list, k + 1) = Before(list, k) + n /\ Before(list, k) \in Int /\ Before(list, k + 1) \in Int
  <2>1. k + 1 \in 1 .. Len(list) /\ (k + 1) - 1 = k /\ k \in 0 .. Len(list)
    OBVIOUS
  <2> QED
    BY <2>1, BeforeFacts DEF n
<1>6. Len(E) = Before(list, k) /\ Len(E) \in Nat
  BY DEF Placing
<1>7. Len(F) = Before(list, k + 1)
  BY <1>3, <1>5, <1>6
<1>8. ASSUME NEW e \in 1 .. Len(F) PROVE F[e].sec \in 1 .. k + 1
  <2>1. CASE e \in 1 .. Len(E)
    <3>1. E[e].sec \in 1 .. k
      BY <2>1 DEF Placing
    <3> QED
      BY <1>3, <2>1, <3>1
  <2>2. CASE e \in Len(E) + 1 .. Len(E) + n
    BY <1>4, <2>2
  <2> QED
    BY <1>0, <1>1, <1>3, <2>1, <2>2
<1>9. ASSUME NEW l \in 1 .. k + 1
      PROVE  /\ 0 <= Before(list, l - 1) /\ Before(list, l) <= Len(F)
             /\ \A e \in 1 .. Len(F) : F[e].sec = l <=> Before(list, l - 1) < e /\ e <= Before(list, l)
  <2>1. CASE l = k + 1
    <3>1. Before(list, l - 1) = Before(list, k) /\ Before(list, l) = Before(list, k + 1)
      BY <2>1
    <3>2. \A e \in 1 .. Len(E) : F[e].sec # l
      BY <1>3, <1>6, <2>1 DEF Placing
    <3>3. \A e \in 1 .. Len(F) : F[e].sec = l <=> Len(E) < e
      <4> TAKE e \in 1 .. Len(F)
      <4>1. CASE e \in 1 .. Len(E)
        BY <1>0, <3>2, <4>1
      <4>2. CASE e \in Len(E) + 1 .. Len(E) + n
        BY <1>0, <1>4, <2>1, <4>2
      <4> QED
        BY <1>0, <1>1, <1>3, <4>1, <4>2
    <3> QED
      BY <1>3, <1>5, <1>6, <1>7, <3>1, <3>3
  <2>2. CASE l \in 1 .. k
    <3>1. /\ 0 <= Before(list, l - 1) /\ Before(list, l) <= Len(E)
          /\ \A e \in 1 .. Len(E) : E[e].sec = l <=> Before(list, l - 1) < e /\ e <= Before(list, l)
      BY <2>2 DEF Placing
    <3>2. l \in 0 .. Len(list) /\ l - 1 \in 0 .. Len(list)
      BY <2>2
    <3>3. Before(list, l) \in Int /\ Before(list, l - 1) \in Int
      BY <3>2, BeforeFacts
    <3>4. \A e \in Len(E) + 1 .. Len(E) + n : F[e].sec # l
      BY <1>4, <2>2
    <3>5. \A e \in 1 .. Len(F) : F[e].sec = l <=> Before(list, l - 1) < e /\ e <= Before(list, l)
      <4> TAKE e \in 1 .. Len(F)
      <4>1. CASE e \in 1 .. Len(E)
        BY <1>3, <3>1, <4>1
      <4>2. CASE e \in Len(E) + 1 .. Len(E) + n
        BY <1>0, <3>1, <3>3, <3>4, <4>2
      <4> QED
        BY <1>0, <1>1, <1>3, <4>1, <4>2
    <3> QED
      BY <1>0, <1>1, <1>3, <3>1, <3>3, <3>5
  <2> QED
    BY <2>1, <2>2
<1> QED
  BY <1>7, <1>8, <1>9 DEF Placing, F, B, n

(* The frames of each section are entries of the table.                    *)
LEMMA BlocksFacts ==
  ASSUME NEW t, NEW src \in Sources, NEW list \in Seq(Int), Reached(list) = list,
         NEW k \in 0 .. Len(list)
  PROVE  Blocks(t, list, k, src) \in Seq(Seq(EntryOf(t))) /\ Len(Blocks(t, list, k, src)) = k
<1>1. ASSUME NEW l \in 1 .. k PROVE Block(t, l, list[l], src) \in Seq(EntryOf(t))
  <2>1. l \in Nat /\ list[l] \in Nat /\ src \in Sources
    BY ReachedFacts
  <2> QED
    BY ONLY <2>1, BlockInSeq
<1> QED
  BY <1>1 DEF Blocks

(* A table has the frames of every section just where the header of the    *)
(* texture says: the two loops of add_bitmaps_and_frames count alike.      *)
LEMMA EntriesPlaces ==
  ASSUME NEW t, NEW src \in Sources, NEW list \in Seq(Int), Reached(list) = list
  PROVE  Placing(Entries(t, list, src), list, Len(list))
<1> DEFINE E(k) == FlattenSeq(Blocks(t, list, k, src))
           P == {k \in Nat : k <= Len(list) => Placing(E(k), list, k)}
<1>1. \A l \in 1 .. Len(list) : list[l] \in Nat /\ list[l] > 0
  BY ReachedFacts
<1>2. ASSUME NEW k \in 0 .. Len(list) PROVE E(k) \in Seq(EntryOf(t))
  <2>1. Blocks(t, list, k, src) \in Seq(Seq(EntryOf(t)))
    BY BlocksFacts
  <2> QED
    BY <2>1, FlattenInSeq
<1>3. 0 \in P
  <2>1. E(0) = <<>>
    <3>1. Blocks(t, list, 0, src) = <<>>
      BY DEF Blocks
    <3> QED
      BY <3>1, FlattenNone
  <2>2. Before(list, 0) = 0
    BY BeforeFacts
  <2> QED
    BY <2>1, <2>2 DEF Placing
<1>4. ASSUME NEW k \in Nat, k \in P PROVE k + 1 \in P
  <2> SUFFICES ASSUME k + 1 <= Len(list) PROVE Placing(E(k + 1), list, k + 1)
    OBVIOUS
  <2>1. k \in 0 .. Len(list) /\ k + 1 \in 0 .. Len(list)
    OBVIOUS
  <2>2. Placing(E(k), list, k)
    BY <1>4, <2>1
  <2>3. list[k + 1] > 0
    BY <1>1, <2>1
  <2> DEFINE s == Blocks(t, list, k, src)
             u == Blocks(t, list, k + 1, src)
  <2>4. s \in Seq(Seq(EntryOf(t))) /\ Len(s) = k /\ u \in Seq(Seq(EntryOf(t))) /\ Len(u) = k + 1
    BY <2>1, BlocksFacts
  <2>5. \A i \in 1 .. k : u[i] = s[i]
    BY DEF Blocks
  <2>6. u[k + 1] = Block(t, k + 1, list[k + 1], src)
    BY DEF Blocks
  <2>7. E(k) = FlattenSeq(s) /\ E(k + 1) = FlattenSeq(u)
    OBVIOUS
  <2>8. E(k) \in Seq(EntryOf(t))
    BY <1>2, <2>1
  <2>9. Before(list, k) >= 0
    <3>1. Len(E(k)) = Before(list, k)
      BY <2>2 DEF Placing
    <3> QED
      BY <2>8, <3>1
  <2> HIDE DEF s, u, E
  <2>10. Len(u) = Len(s) + 1 /\ \A i \in 1 .. Len(s) : u[i] = s[i]
    BY <2>4, <2>5
  <2>11. FlattenSeq(u) = FlattenSeq(s) \o u[Len(u)]
    BY ONLY <2>4, <2>10, FlattenMore
  <2>12. E(k + 1) = E(k) \o Block(t, k + 1, list[k + 1], src)
    BY <2>4, <2>6, <2>7, <2>11
  <2>13. src \in Sources /\ list \in Seq(Int) /\ k \in Nat /\ k + 1 <= Len(list)
    OBVIOUS
  <2>14. Placing(E(k) \o Block(t, k + 1, list[k + 1], src), list, k + 1)
    BY ONLY <2>2, <2>3, <2>8, <2>9, <2>13, PlacingMore
  <2> QED
    BY <2>12, <2>14
<1> HIDE DEF P
<1>5. Nat \subseteq P
  BY <1>3, <1>4, NatSetInduction
<1>6. Placing(E(Len(list)), list, Len(list))
  BY <1>5 DEF P
<1>7. Entries(t, list, src) = E(Len(list))
  <2>1. Entries(t, list, src) =
          FlattenSeq([l \in DOMAIN list |-> Block(t, l, list[l], src)])
    BY DEF Entries, Block
  <2>2. DOMAIN list = 1 .. Len(list)
    OBVIOUS
  <2> QED
    BY <2>1, <2>2 DEF Blocks
<1> QED
  BY <1>6, <1>7

-----------------------------------------------------------------------------
(* The #defines of the master header and the entries of the master table   *)
(* are moved alike                                                         *)

(* The #defines of the master header                                       *)
Items == [tex : Textures, sec : Nat, value : Int]

(* The frames of the section of a #define                                  *)
Size(m) == ini[m.tex].v[m.sec]

(* The #define m is the place in T of just the frames of its section,      *)
(* where T has the entries of the first n textures.                        *)
FoundItem(m, T, n) ==
  /\ m.tex \in 1 .. n /\ m.sec \in 1 .. Len(ini[m.tex].v)
  /\ m.value >= 0 /\ Size(m) \in Int /\ m.value + Size(m) <= Len(T)
  /\ \A e \in 1 .. Len(T) :
       T[e].tex = m.tex /\ T[e].sec = m.sec <=> m.value < e /\ e <= m.value + Size(m)

(* Every #define of h is, and T has entries of no other textures.          *)
Found(h, T, n) ==
  /\ \A d \in 1 .. Len(h) : FoundItem(h[d], T, n)
  /\ \A e \in 1 .. Len(T) : T[e].tex \in 1 .. n

(* What Merge adds to the master header for a texture whose table is       *)
(* appended after i entries                                                *)
ItemsOf(t, list, i) ==
  [l \in 1 .. Len(list) |-> [tex |-> t, sec |-> l, value |-> Defines(list)[l] + i]]

(* A #define of the texture is moved by i.                                 *)
LEMMA ItemsFacts ==
  ASSUME NEW t \in Textures, NEW list \in Seq(Int), NEW i \in Int
  PROVE  /\ ItemsOf(t, list, i) \in Seq(Items)
         /\ Len(ItemsOf(t, list, i)) = Len(list)
         /\ \A l \in 1 .. Len(list) :
              ItemsOf(t, list, i)[l] = [tex |-> t, sec |-> l, value |-> Before(list, l - 1) + i]
<1>1. \A l \in 1 .. Len(list) : /\ Defines(list)[l] = Before(list, l - 1)
                                /\ Before(list, l - 1) \in Int
  <2>1. \A l \in 1 .. Len(list) : l - 1 \in 0 .. Len(list)
    OBVIOUS
  <2> QED
    BY <2>1, BeforeFacts
<1>2. \A l \in 1 .. Len(list) : l \in Nat /\ Defines(list)[l] + i \in Int
  BY <1>1
<1> QED
  BY <1>1, <1>2 DEF ItemsOf, Items

(* Merging one more texture moves no entry that a #define of an earlier    *)
(* one finds, and moves its own #defines as far as its entries.            *)
LEMMA FoundMore ==
  ASSUME NEW n \in Nat, n + 1 <= N, NEW list \in Seq(Int), Reached(list) = list,
         list = ini[n + 1].v, NEW src \in Sources,
         NEW T \in Seq(MasterEntry), NEW h \in Seq(Items), Found(h, T, n)
  PROVE  Found(h \o ItemsOf(n + 1, list, Len(T)),
               T \o Renumber(Entries(n + 1, list, src), n), n + 1)
<1> DEFINE t == n + 1
           E == Entries(t, list, src)
           R == Renumber(E, n)
           g == ItemsOf(t, list, Len(T))
           U == T \o R
           k == h \o g
           s == Len(T)
<1>1. t \in Textures /\ t \in Nat /\ t - 1 = n /\ s \in Nat
  OBVIOUS
<1>2. E \in Seq(EntryOf(t)) /\ Placing(E, list, Len(list))
  BY EntriesInSeq, EntriesPlaces
<1>3. /\ R \in Seq(MasterEntry) /\ Len(R) = Len(E)
      /\ \A e \in 1 .. Len(E) : R[e].tex = t /\ R[e].sec = E[e].sec
  <2> HIDE DEF E, t
  <2>1. /\ Renumber(E, t - 1) \in Seq(MasterEntry) /\ Len(Renumber(E, t - 1)) = Len(E)
        /\ \A e \in 1 .. Len(E) :
             LET r == Renumber(E, t - 1)[e] IN
               r.tex = t /\ r.sec = E[e].sec /\ r.iBitmap = Numbering(t - 1)
    BY <1>1, <1>2, RenumberFacts
  <2> QED
    BY <1>1, <2>1
<1>4. /\ g \in Seq(Items) /\ Len(g) = Len(list)
      /\ \A l \in 1 .. Len(list) : g[l] = [tex |-> t, sec |-> l, value |-> Before(list, l - 1) + s]
  BY <1>1, ItemsFacts
<1>5. \A l \in 1 .. Len(list) :
        /\ Before(list, l - 1) \in Int /\ Before(list, l) \in Int /\ list[l] \in Int
        /\ Before(list, l) = Before(list, l - 1) + list[l]
  <2> TAKE l \in 1 .. Len(list)
  <2>1. list \in Seq(Int) /\ l \in 1 .. Len(list)
    OBVIOUS
  <2>2. l - 1 \in 0 .. Len(list) /\ l \in 0 .. Len(list) /\ list[l] \in Int
    BY ONLY <2>1
  <2>3. /\ \A j \in 0 .. Len(list) : Before(list, j) \in Int
        /\ \A j \in 1 .. Len(list) : Before(list, j) = Before(list, j - 1) + list[j]
    BY ONLY <2>1, BeforeFacts
  <2> QED
    BY ONLY <2>1, <2>2, <2>3
<1>6. /\ Len(E) \in Nat
      /\ \A l \in 1 .. Len(list) :
           /\ 0 <= Before(list, l - 1) /\ Before(list, l) <= Len(E)
           /\ \A e \in 1 .. Len(E) : E[e].sec = l <=> Before(list, l - 1) < e /\ e <= Before(list, l)
  BY <1>2 DEF Placing
<1>7. list = ini[t].v
  OBVIOUS
<1> HIDE DEF t, E, R, g
<1>8. /\ Len(U) = s + Len(E) /\ \A e \in 1 .. s : U[e] = T[e]
      /\ \A e \in s + 1 .. s + Len(E) : U[e] = R[e - s]
  <2>1. T \in Seq(MasterEntry) /\ R \in Seq(MasterEntry)
    BY <1>3
  <2>2. /\ Len(T \o R) = Len(T) + Len(R)
        /\ \A i \in 1 .. Len(T) : (T \o R)[i] = T[i]
        /\ \A i \in Len(T) + 1 .. Len(T) + Len(R) : (T \o R)[i] = R[i - Len(T)]
    BY ONLY <2>1, ConcatFacts
  <2> QED
    BY ONLY <1>3, <2>2
<1>9. Len(h) \in Nat /\ Len(list) \in Nat
  OBVIOUS
<1>10. /\ Len(k) = Len(h) + Len(list) /\ \A d \in 1 .. Len(h) : k[d] = h[d]
       /\ \A d \in Len(h) + 1 .. Len(h) + Len(list) : k[d] = g[d - Len(h)]
  <2>1. h \in Seq(Items) /\ g \in Seq(Items)
    BY <1>4
  <2>2. /\ Len(h \o g) = Len(h) + Len(g)
        /\ \A i \in 1 .. Len(h) : (h \o g)[i] = h[i]
        /\ \A i \in Len(h) + 1 .. Len(h) + Len(g) : (h \o g)[i] = g[i - Len(h)]
    BY ONLY <2>1, ConcatFacts
  <2> QED
    BY ONLY <1>4, <2>2
<1> HIDE DEF U, k, s
<1>11. \A e \in s + 1 .. s + Len(E) : U[e].tex = t /\ U[e].sec = E[e - s].sec
  <2> TAKE e \in s + 1 .. s + Len(E)
  <2>1. e - s \in 1 .. Len(E)
    BY <1>1, <1>6
  <2> QED
    BY <1>3, <1>8, <2>1
<1>12. \A e \in 1 .. s : U[e] = T[e] /\ T[e].tex \in 1 .. n
  BY <1>8 DEF Found, s
<1>13. ASSUME NEW e \in 1 .. Len(U) PROVE e \in 1 .. s \/ e \in s + 1 .. s + Len(E)
  BY <1>1, <1>6, <1>8
<1>14. ASSUME NEW e \in 1 .. Len(U) PROVE U[e].tex \in 1 .. t
  BY <1>1, <1>11, <1>12, <1>13
<1>15. ASSUME NEW d \in 1 .. Len(h) PROVE FoundItem(k[d], U, t)
  <2> DEFINE m == h[d]
  <2>1. m \in Items
    OBVIOUS
  <2>2. k[d] = m
    BY <1>10
  <2>3. /\ m.tex \in 1 .. n /\ m.sec \in 1 .. Len(ini[m.tex].v)
        /\ m.value >= 0 /\ Size(m) \in Int /\ m.value + Size(m) <= s
        /\ \A e \in 1 .. s :
             T[e].tex = m.tex /\ T[e].sec = m.sec <=> m.value < e /\ e <= m.value + Size(m)
    BY DEF Found, FoundItem, s
  <2> HIDE DEF m
  <2>0. m.value \in Int /\ m.tex \in 1 .. n
    BY <2>1, <2>3 DEF Items
  <2>4. m.value \in Int /\ m.tex # t /\ m.tex \in 1 .. t
    BY ONLY <1>1, <2>0
  <2>5. m.value + Size(m) <= Len(U)
    BY <1>1, <1>6, <1>8, <2>3, <2>4
  <2>6. \A e \in 1 .. Len(U) :
          U[e].tex = m.tex /\ U[e].sec = m.sec <=> m.value < e /\ e <= m.value + Size(m)
    <3> TAKE e \in 1 .. Len(U)
    <3>1. CASE e \in 1 .. s
      BY <1>12, <2>3, <3>1
    <3>2. CASE e \in s + 1 .. s + Len(E)
      <4>1. U[e].tex # m.tex
        BY <1>11, <2>4, <3>2
      <4>2. e \in Int /\ e > s
        BY <1>1, <1>6, <3>2
      <4>3. ~(e <= m.value + Size(m))
        BY ONLY <1>1, <2>3, <2>4, <4>2
      <4> QED
        BY <4>1, <4>3
    <3> QED
      BY <1>13, <3>1, <3>2
  <2> QED
    BY <2>2, <2>3, <2>4, <2>5, <2>6 DEF FoundItem
<1>16. ASSUME NEW d \in Len(h) + 1 .. Len(h) + Len(list) PROVE FoundItem(k[d], U, t)
  <2> DEFINE l == d - Len(h)
             m == [tex |-> t, sec |-> l, value |-> Before(list, l - 1) + s]
  <2>1. l \in 1 .. Len(list)
    BY <1>9
  <2> HIDE DEF l
  <2>2. k[d] = m
    BY <1>4, <1>10, <2>1 DEF l
  <2>3. Size(m) = list[l]
    BY <1>7 DEF Size
  <2>4. m.tex = t /\ m.sec = l /\ m.value = Before(list, l - 1) + s
    OBVIOUS
  <2> HIDE DEF m
  <2>5. /\ Before(list, l - 1) \in Int /\ Before(list, l) \in Int /\ list[l] \in Int
        /\ Before(list, l) = Before(list, l - 1) + list[l]
        /\ 0 <= Before(list, l - 1) /\ Before(list, l) <= Len(E)
        /\ \A e \in 1 .. Len(E) : E[e].sec = l <=> Before(list, l - 1) < e /\ e <= Before(list, l)
    BY <1>5, <1>6, <2>1
  <2>9. /\ Before(list, l - 1) \in Int /\ Before(list, l) \in Int /\ list[l] \in Int
        /\ Before(list, l) = Before(list, l - 1) + list[l]
        /\ 0 <= Before(list, l - 1) /\ Before(list, l) <= Len(E)
    BY ONLY <2>5
  <2>6. \A e \in 1 .. Len(U) :
          U[e].tex = t /\ U[e].sec = l <=>
            Before(list, l - 1) + s < e /\ e <= Before(list, l - 1) + s + list[l]
    <3> TAKE e \in 1 .. Len(U)
    <3>1. CASE e \in 1 .. s
      <4>1. U[e].tex # t
        BY <1>1, <1>12, <3>1, SMTT(60)
      <4>2. e \in Int /\ e <= s
        BY <1>1, <3>1
      <4>3. ~(Before(list, l - 1) + s < e)
        BY ONLY <1>1, <2>5, <4>2
      <4> QED
        BY <4>1, <4>3
    <3>2. CASE e \in s + 1 .. s + Len(E)
      <4>1. e - s \in 1 .. Len(E)
        BY <1>1, <1>6, <3>2
      <4>2. U[e].tex = t /\ U[e].sec = E[e - s].sec
        BY <1>11, <3>2
      <4>3. E[e - s].sec = l <=> Before(list, l - 1) < e - s /\ e - s <= Before(list, l)
        BY <2>5, <4>1
      <4>4. e \in Int
        BY <1>1, <1>6, <3>2
      <4>5. /\ Before(list, l - 1) < e - s <=> Before(list, l - 1) + s < e
            /\ e - s <= Before(list, l) <=> e <= Before(list, l - 1) + s + list[l]
        <5> DEFINE a == Before(list, l - 1)
                   b == Before(list, l)
                   c == list[l]
        <5>1. a \in Int /\ b \in Int /\ c \in Int /\ b = a + c /\ s \in Int /\ e \in Int
          BY ONLY <1>1, <2>9, <4>4
        <5> HIDE DEF a, b, c
        <5>2. (a < e - s <=> a + s < e) /\ (e - s <= b <=> e <= a + s + c)
          BY ONLY <5>1
        <5> QED
          BY ONLY <5>2 DEF a, b, c
      <4>6. U[e].tex = t /\ (U[e].sec = l <=> E[e - s].sec = l)
        BY ONLY <4>2
      <4> QED
        BY ONLY <4>3, <4>5, <4>6, Zenon
    <3> QED
      BY <1>13, <3>1, <3>2
  <2>7. m.value >= 0 /\ m.value + list[l] <= Len(U)
    <3>1. Len(U) = s + Len(E) /\ Len(E) \in Nat
      BY <1>6, <1>8
    <3> DEFINE a == Before(list, l - 1)
               b == Before(list, l)
               c == list[l]
    <3>2. a \in Int /\ b \in Int /\ c \in Int /\ b = a + c /\ 0 <= a /\ b <= Len(E)
          /\ s \in Nat /\ m.value = a + s
      BY ONLY <1>1, <2>4, <2>9
    <3> HIDE DEF a, b, c
    <3>3. m.value >= 0 /\ m.value + c <= Len(U)
      BY ONLY <3>1, <3>2
    <3> QED
      BY ONLY <3>3 DEF c
  <2>8. m.tex \in 1 .. t /\ m.sec \in 1 .. Len(ini[m.tex].v)
    BY <1>1, <1>7, <2>1, <2>4
  <2> QED
    BY <2>2, <2>3, <2>4, <2>5, <2>6, <2>7, <2>8 DEF FoundItem
<1>17. ASSUME NEW d \in 1 .. Len(k) PROVE FoundItem(k[d], U, t)
  BY <1>9, <1>10, <1>15, <1>16
<1>18. Found(k, U, t)
  BY <1>14, <1>17 DEF Found
<1> QED
  BY <1>18 DEF k, U, t, g, R, E, s

-----------------------------------------------------------------------------
(* The UIDs                                                                *)

(* What a UID stands for                                                   *)
SectionSet == [tex : Textures, sec : Nat]

(* The sections of a config file                                           *)
SectionsIn(t) == [l \in 1 .. Len(ini[t].v) |-> [tex |-> t, sec |-> l]]

(* Those of the first n config files                                       *)
Listed(n) == [t \in 1 .. n |-> SectionsIn(t)]

(* All of them, in the order of the textures                               *)
AllSections(n) == FlattenSeq(Listed(n))

(* A config file is a sequence of numbers.                                 *)
LEMMA ConfigIsSeq ==
  ASSUME Inputs, NEW t \in Textures
  PROVE  ini[t].v \in Seq(Int)
BY RunAssumption DEF Inputs

(* A section is a number in a texture.                                     *)
LEMMA SectionsInSeq ==
  ASSUME Inputs, NEW t \in Textures
  PROVE  SectionsIn(t) \in Seq(SectionSet) /\ Len(SectionsIn(t)) = Len(ini[t].v)
<1>1. Len(ini[t].v) \in Nat
  BY ConfigIsSeq
<1> QED
  BY <1>1 DEF SectionsIn, SectionSet

(* The same for many                                                       *)
LEMMA ListedInSeq ==
  ASSUME Inputs, NEW n \in 0 .. N
  PROVE  Listed(n) \in Seq(Seq(SectionSet)) /\ Len(Listed(n)) = n
<1>1. \A t \in 1 .. n : t \in Textures
  OBVIOUS
<1>2. \A t \in 1 .. n : SectionsIn(t) \in Seq(SectionSet)
  BY <1>1, SectionsInSeq
<1> QED
  BY <1>2 DEF Listed

(* One texture more appends its sections.                                  *)
LEMMA AllSectionsFacts ==
  ASSUME Inputs, NEW n \in 0 .. N
  PROVE  /\ AllSections(n) \in Seq(SectionSet)
         /\ n = 0 => AllSections(n) = <<>>
         /\ n < N => AllSections(n + 1) = AllSections(n) \o SectionsIn(n + 1)
<1>1. Listed(n) \in Seq(Seq(SectionSet)) /\ Len(Listed(n)) = n
  BY ListedInSeq
<1>2. AllSections(n) \in Seq(SectionSet)
  BY <1>1, FlattenInSeq DEF AllSections
<1>3. ASSUME n = 0 PROVE AllSections(n) = <<>>
  <2>1. Listed(n) = <<>>
    BY <1>1, <1>3
  <2> QED
    BY <2>1, FlattenNone DEF AllSections
<1>4. ASSUME n < N PROVE AllSections(n + 1) = AllSections(n) \o SectionsIn(n + 1)
  <2>1. n + 1 \in 0 .. N
    BY <1>4
  <2>2. Listed(n + 1) \in Seq(Seq(SectionSet)) /\ Len(Listed(n + 1)) = n + 1
    BY <2>1, ListedInSeq
  <2>3. Len(Listed(n + 1)) = Len(Listed(n)) + 1
    BY <1>1, <2>2
  <2>4. \A i \in 1 .. Len(Listed(n)) : Listed(n + 1)[i] = Listed(n)[i]
    BY <1>1 DEF Listed
  <2>5. FlattenSeq(Listed(n + 1)) = FlattenSeq(Listed(n)) \o Listed(n + 1)[Len(Listed(n + 1))]
    BY ONLY <1>1, <2>2, <2>3, <2>4, FlattenMore
  <2>6. Listed(n + 1)[n + 1] = SectionsIn(n + 1)
    BY DEF Listed
  <2> QED
    BY <2>2, <2>5, <2>6 DEF AllSections
<1> QED
  BY <1>2, <1>3, <1>4

(* No section is without frames.                                           *)
AllWhole == \A t \in Textures : Whole(t)

(* g_UID has the sections of the textures up to tex, from                  *)
(* add_bitmaps_and_frames on those of tex as well, whether tex is rebuilt  *)
(* or left alone; and it is empty between runs.                            *)
UidsMade ==
  /\ pc \in {"idle", "passed", "failed"} => uids = <<>>
  /\ ~edited /\ AllWhole =>
       /\ pc \in {"open", "stamp", "add"} => uids = AllSections(tex - 1)
       /\ pc \in {"check", "up2date", "place", "copy", "table"} => uids = AllSections(tex)
       /\ pc \in {"merge", "uids"} => uids = AllSections(N)
       /\ pc \in {"list", "passed"} /\ lost = 0 => uidsFile = AllSections(N)

(* None of it depends on anything but the config files.                    *)
LEMMA SameSections ==
  ASSUME ini' = ini
  PROVE  AllWhole' = AllWhole /\ \A n : AllSections(n)' = AllSections(n)
BY DEF AllWhole, Whole, AllSections, Listed, SectionsIn

(* Every step keeps it.                                                    *)
LEMMA UidsStep ==
  ASSUME Types, FreshInv, UidsMade, [Next]_vars
  PROVE  UidsMade'
<1>1. ASSUME ini' = ini, uids' = uids, uidsFile' = uidsFile, edited' = edited, lost' = lost,
             \/ pc' = pc /\ tex' = tex
             \/ pc' = pc /\ pc \notin {"open", "stamp", "add", "check", "up2date", "place", "copy", "table"}
             \/ pc \in {"stamp", "add"} /\ pc' \in {"stamp", "add"} /\ tex' = tex
      PROVE  UidsMade'
  BY <1>1, SameSections DEF UidsMade
<1>2. ASSUME pc' \in {"idle", "failed"}, uids' = <<>>
      PROVE  UidsMade'
  BY <1>2 DEF UidsMade
<1>3. CASE Tick
  BY <1>1, <1>3 DEF Tick
<1>4. CASE \E t \in Textures, list \in Configs : EditConfig(t, list)
  BY <1>4 DEF EditConfig, Edit, Running, UidsMade
<1>5. CASE \E t \in Textures, src \in Sources : EditSource(t, src)
  BY <1>5 DEF EditSource, Edit, Running, UidsMade
<1>6. ASSUME NEW f \in BOOLEAN, Start(f) PROVE UidsMade'
  <2>1. uids' = <<>> /\ pc' = "open" /\ tex' = 1 /\ ini' = ini
    BY <1>6 DEF Start, UidsMade
  <2>2. AllSections(0) = <<>>
    BY AllSectionsFacts DEF Types
  <2>3. AllSections(tex - 1)' = <<>>
    BY <2>1, <2>2, SameSections
  <2> QED
    BY <2>1, <2>3 DEF UidsMade
<1>7. CASE Crash
  BY <1>2, <1>7 DEF Crash, Die, Forget
<1>8. CASE OpenConfig
  <2>1. pc = "open" /\ ini' = ini /\ uids' = uids /\ edited' = edited /\ pc' \in {"merge", "stamp"}
    BY <1>8 DEF OpenConfig
  <2>2. pc' = "merge" => tex - 1 = N
    BY <1>8 DEF OpenConfig, Types, Control, Bounds
  <2>3. pc' = "stamp" => tex' = tex
    BY <1>8 DEF OpenConfig
  <2> QED
    BY <2>1, <2>2, <2>3, SameSections DEF UidsMade
<1>9. CASE StampConfig
  BY <1>1, <1>9 DEF StampConfig
<1>10. CASE CheckTime
  BY <1>10, SameSections DEF CheckTime, UidsMade
<1>11. ASSUME SkipTexture \/ \E o \in Outcomes : SaveTable(o) PROVE UidsMade'
  <2>1. /\ pc \in {"up2date", "table"} /\ pc' = "open" /\ tex' = tex + 1 /\ tex \in Int
        /\ ini' = ini /\ uids' = uids /\ edited' = edited
    BY <1>11 DEF SkipTexture, SaveTable, NextTexture, Types, Control
  <2>2. tex' - 1 = tex
    BY <2>1
  <2> QED
    BY <2>1, <2>2, SameSections DEF UidsMade
<1>12. CASE PlaceFrames
  BY <1>2, <1>12, SameSections DEF PlaceFrames, Die, Forget, UidsMade
<1>13. ASSUME NEW o \in Outcomes, AddSections(o) PROVE UidsMade'
  <2>1. CASE Fails(config)
    BY <1>2, <1>13, <2>1 DEF AddSections, Die, Forget
  <2>2. CASE ~Fails(config)
    <3>1. /\ pc = "add" /\ pc' = "check" /\ tex' = tex /\ ini' = ini /\ edited' = edited
          /\ uids' = uids \o [l \in DOMAIN Reached(config) |-> [tex |-> tex, sec |-> l]]
      BY <1>13, <2>2 DEF AddSections
    <3>2. ASSUME ~edited, AllWhole PROVE uids' = AllSections(tex)
      <4>1. tex \in Textures
        BY <3>1 DEF Types, Control, Building
      <4>2. config = ini[tex].v /\ Reached(config) = config
        BY <3>1, <3>2, <4>1 DEF FreshInv, ReadConfig, Building, AllWhole, Whole
      <4>3. DOMAIN config = 1 .. Len(ini[tex].v)
        BY <4>1, <4>2, ConfigIsSeq DEF Types
      <4>4. uids' = AllSections(tex - 1) \o SectionsIn(tex)
        BY <3>1, <3>2, <4>2, <4>3 DEF UidsMade, SectionsIn
      <4>5. tex - 1 \in 0 .. N /\ tex - 1 < N /\ (tex - 1) + 1 = tex
        BY <4>1
      <4>6. AllSections((tex - 1) + 1) = AllSections(tex - 1) \o SectionsIn((tex - 1) + 1)
        BY <4>5, AllSectionsFacts DEF Types
      <4> QED
        BY <4>4, <4>5, <4>6
    <3>3. AllWhole' = AllWhole /\ AllSections(tex)' = AllSections(tex)
      BY <3>1, SameSections
    <3>4. ~edited' /\ AllWhole' => uids' = AllSections(tex)'
      BY <3>1, <3>2, <3>3
    <3> QED
      BY ONLY <3>1, <3>4 DEF UidsMade
  <2> QED
    BY <2>1, <2>2
<1>14. ASSUME NEW o \in Outcomes, CopyFrames(o) PROVE UidsMade'
  BY <1>14, SameSections DEF CopyFrames, UidsMade
<1>15. ASSUME NEW o \in Outcomes, Merge(o) PROVE UidsMade'
  BY <1>15, SameSections DEF Merge, UidsMade
<1>16. ASSUME NEW o \in Outcomes, SaveMasterHeader(o) PROVE UidsMade'
  BY <1>16, SameSections DEF SaveMasterHeader, UidsMade
<1>17. ASSUME NEW o \in Outcomes, SaveUIDs(o) PROVE UidsMade'
  BY <1>17, SameSections DEF SaveUIDs, UidsMade, Write, Written, Outcomes
<1>18. ASSUME NEW o \in Outcomes, SaveTextureList(o) PROVE UidsMade'
  BY <1>18, SameSections DEF SaveTextureList, Forget, UidsMade, Write, Outcomes
<1>19. CASE UNCHANGED vars
  BY <1>1, <1>19
<1> QED
  BY <1>3, <1>4, <1>5, <1>6, <1>7, <1>8, <1>9, <1>10, <1>11, <1>12, <1>13, <1>14, <1>15,
     <1>16, <1>17, <1>18, <1>19 DEF Next, Step

-----------------------------------------------------------------------------
(* The master header, step by step                                         *)

(* The sections of the #defines of a header                                *)
SectionsOf(h) == [d \in DOMAIN h |-> [tex |-> h[d].tex, sec |-> h[d].sec]]

(* Those of two headers one behind the other                               *)
LEMMA SectionsOfFacts ==
  ASSUME NEW h \in Seq(Items), NEW g \in Seq(Items)
  PROVE  SectionsOf(h \o g) = SectionsOf(h) \o SectionsOf(g)
<1>1. /\ h \o g \in Seq(Items) /\ Len(h \o g) = Len(h) + Len(g)
      /\ \A i \in 1 .. Len(h) : (h \o g)[i] = h[i]
      /\ \A i \in Len(h) + 1 .. Len(h) + Len(g) : (h \o g)[i] = g[i - Len(h)]
  BY ConcatFacts
<1>2. ASSUME NEW s \in Seq(Items)
      PROVE  /\ SectionsOf(s) \in Seq(SectionSet) /\ Len(SectionsOf(s)) = Len(s)
             /\ \A d \in 1 .. Len(s) : SectionsOf(s)[d] = [tex |-> s[d].tex, sec |-> s[d].sec]
  <2>1. \A d \in 1 .. Len(s) : s[d] \in Items
    OBVIOUS
  <2>2. \A d \in 1 .. Len(s) : [tex |-> s[d].tex, sec |-> s[d].sec] \in SectionSet
    BY <2>1 DEF Items, SectionSet
  <2>3. DOMAIN s = 1 .. Len(s) /\ Len(s) \in Nat
    OBVIOUS
  <2> QED
    BY ONLY <2>2, <2>3 DEF SectionsOf
<1> DEFINE a == SectionsOf(h)
           b == SectionsOf(g)
           c == SectionsOf(h \o g)
<1>3. /\ a \in Seq(SectionSet) /\ Len(a) = Len(h)
      /\ \A d \in 1 .. Len(h) : a[d] = [tex |-> h[d].tex, sec |-> h[d].sec]
  BY <1>2
<1>4. /\ b \in Seq(SectionSet) /\ Len(b) = Len(g)
      /\ \A d \in 1 .. Len(g) : b[d] = [tex |-> g[d].tex, sec |-> g[d].sec]
  BY <1>2
<1>5. /\ c \in Seq(SectionSet) /\ Len(c) = Len(h \o g)
      /\ \A d \in 1 .. Len(h \o g) : c[d] = [tex |-> (h \o g)[d].tex, sec |-> (h \o g)[d].sec]
  BY <1>1, <1>2
<1> HIDE DEF a, b, c
<1>6. /\ a \o b \in Seq(SectionSet) /\ Len(a \o b) = Len(a) + Len(b)
      /\ \A i \in 1 .. Len(a) : (a \o b)[i] = a[i]
      /\ \A i \in Len(a) + 1 .. Len(a) + Len(b) : (a \o b)[i] = b[i - Len(a)]
  <2>1. a \in Seq(SectionSet) /\ b \in Seq(SectionSet)
    BY <1>3, <1>4
  <2> QED
    BY ONLY <2>1, ConcatFacts
<1>0. Len(h) \in Nat /\ Len(g) \in Nat
  OBVIOUS
<1>7. ASSUME NEW i \in 1 .. Len(h) + Len(g) PROVE c[i] = (a \o b)[i]
  <2>1. CASE i \in 1 .. Len(h)
    <3>1. (h \o g)[i] = h[i] /\ (a \o b)[i] = a[i] /\ i \in 1 .. Len(h \o g)
      BY <1>0, <1>1, <1>3, <1>6, <2>1
    <3> QED
      BY <1>3, <1>5, <2>1, <3>1
  <2>2. CASE i \in Len(h) + 1 .. Len(h) + Len(g)
    <3>1. i - Len(h) \in 1 .. Len(g)
      BY <1>0, <2>2
    <3>2. c[i] = [tex |-> (h \o g)[i].tex, sec |-> (h \o g)[i].sec]
      BY <1>1, <1>5
    <3>3. (h \o g)[i] = g[i - Len(h)] /\ (a \o b)[i] = b[i - Len(h)]
      BY <1>1, <1>3, <1>4, <1>6, <2>2
    <3>4. b[i - Len(h)] = [tex |-> g[i - Len(h)].tex, sec |-> g[i - Len(h)].sec]
      BY <1>4, <3>1
    <3> QED
      BY ONLY <3>2, <3>3, <3>4
  <2>3. \/ i \in 1 .. Len(h)
        \/ i \in Len(h) + 1 .. Len(h) + Len(g)
    BY <1>0
  <2> QED
    BY <2>1, <2>2, <2>3
<1>8. c = a \o b
  <2> DEFINE n == Len(h) + Len(g)
             e == a \o b
  <2>1. c \in Seq(SectionSet) /\ e \in Seq(SectionSet) /\ Len(c) = n /\ Len(e) = n
    BY <1>1, <1>3, <1>4, <1>5, <1>6
  <2>2. \A i \in 1 .. n : c[i] = e[i]
    BY <1>7
  <2> HIDE DEF n, e
  <2>3. c = [i \in 1 .. n |-> c[i]] /\ e = [i \in 1 .. n |-> e[i]]
    BY ONLY <2>1
  <2>4. c = e
    BY ONLY <2>2, <2>3
  <2> QED
    BY <2>4 DEF e
<1> QED
  BY <1>8 DEF a, b, c

(* The premise of SpritesFound but for where the run is                    *)
Clean == ~edited /\ lost = 0 /\ suspect = {} /\ AllWhole /\ ~BigEndian

(* The #defines of h are those of the sections of the first n textures,    *)
(* and they are the places of the frames in the merged table.              *)
HeaderFound(h, n) ==
  h \in Seq(Items) /\ SectionsOf(h) = AllSections(n) /\ Found(h, Merging(n), n)

(* HeaderOut is such a header in phase 2, and it is what is saved.         *)
HeadersFound ==
  /\ pc \notin {"merge", "uids", "list"} => headerOut = <<>>
  /\ Clean /\ pc = "merge" => HeaderFound(headerOut, tex - 1)
  /\ Clean /\ pc \in {"uids", "list", "passed"} => HeaderFound(masterHeader.defines, N)
  /\ Clean /\ pc = "passed" => textureList = [t \in Textures |-> t]

(* No texture is merged yet.                                               *)
LEMMA NothingFound ==
  ASSUME Types
  PROVE  HeaderFound(<<>>, 0)
<1>1. Merging(0) = <<>>
  BY MergingFacts DEF Types
<1>2. AllSections(0) = <<>>
  BY AllSectionsFacts DEF Types
<1>3. SectionsOf(<<>>) = <<>> /\ <<>> \in Seq(Items)
  BY DEF SectionsOf
<1>4. Found(<<>>, <<>>, 0)
  BY DEF Found
<1> QED
  BY <1>1, <1>2, <1>3, <1>4 DEF HeaderFound

(* Merge: the header and the table of the texture belong together, by      *)
(* Done, so the #defines that are added find the entries that are          *)
(* appended.                                                               *)
LEMMA MergeFinds ==
  ASSUME Types, FreshInv, Master, HeadersFound, Clean, pc = "merge", tex \in Textures
  PROVE  HeaderFound(headerOut \o [l \in DOMAIN header[tex] |->
                       [tex |-> tex, sec |-> l, value |-> header[tex][l] + iSprite]], tex)
<1> DEFINE n == tex - 1
           list == ini[tex].v
           src == source[tex].v
           T == Merging(n)
           h == headerOut
           g == [l \in DOMAIN header[tex] |->
                  [tex |-> tex, sec |-> l, value |-> header[tex][l] + iSprite]]
<1>1. n \in Nat /\ n \in 0 .. N /\ n < N /\ n + 1 <= N /\ n + 1 = tex
  OBVIOUS
<1>2. list \in Seq(Int) /\ Reached(list) = list /\ src \in Sources
  BY ConfigIsSeq DEF Types, Inputs, Clean, AllWhole, Whole
<1>3. header[tex] = Defines(list) /\ table[tex].v = Entries(tex, list, src)
  BY DEF FreshInv, Done, IsDone, Clean, AllWhole, Whole, Current
<1>4. T \in Seq(MasterEntry) /\ Merging(n + 1) = T \o Renumber(table[n + 1].v, n)
  BY <1>1, MergingFacts DEF Types
<1>5. iSprite = Len(T)
  <2>1. CASE tex = 1
    <3>1. iSprite = 0 /\ n = 0
      BY <2>1 DEF Master
    <3>2. Merging(0) = <<>>
      BY MergingFacts DEF Types
    <3> QED
      BY <3>1, <3>2
  <2>2. CASE tex > 1
    BY <2>2 DEF Master, Clean
  <2> QED
    BY <2>1, <2>2
<1>6. g = ItemsOf(tex, list, Len(T))
  <2>1. DOMAIN Defines(list) = 1 .. Len(list)
    BY <1>2, DefinesFacts
  <2> QED
    BY <1>3, <1>5, <2>1 DEF ItemsOf
<1>7. h \in Seq(Items) /\ SectionsOf(h) = AllSections(n) /\ Found(h, T, n)
  BY DEF HeadersFound, HeaderFound
<1>8. AllSections(n + 1) = AllSections(n) \o SectionsIn(n + 1)
  BY <1>1, AllSectionsFacts DEF Types
<1>9. list = ini[n + 1].v
  BY <1>1
<1>10. tex \in Textures
  OBVIOUS
<1> HIDE DEF n, list, src, T, h, g
<1>11. Found(h \o ItemsOf(n + 1, list, Len(T)), T \o Renumber(Entries(n + 1, list, src), n), n + 1)
  BY ONLY <1>1, <1>2, <1>4, <1>7, <1>9, FoundMore
<1>12. Found(h \o g, Merging(tex), tex)
  BY <1>1, <1>3, <1>4, <1>6, <1>11
<1>13. /\ g \in Seq(Items) /\ Len(g) = Len(list)
       /\ \A l \in 1 .. Len(list) : g[l] = [tex |-> tex, sec |-> l, value |-> Before(list, l - 1) + Len(T)]
  <2>1. Len(T) \in Int
    BY <1>4
  <2> QED
    BY ONLY <1>2, <1>6, <1>10, <2>1, ItemsFacts
<1>14. SectionsOf(g) = SectionsIn(n + 1)
  <2>1. DOMAIN g = 1 .. Len(list)
    BY <1>13
  <2>2. ASSUME NEW l \in 1 .. Len(list) PROVE g[l].tex = tex /\ g[l].sec = l
    <3>1. g[l] = [tex |-> tex, sec |-> l, value |-> Before(list, l - 1) + Len(T)]
      BY <1>13
    <3> QED
      BY ONLY <3>1
  <2> QED
    BY <1>1, <1>9, <2>1, <2>2 DEF SectionsOf, SectionsIn
<1>15. SectionsOf(h \o g) = AllSections(tex)
  BY <1>1, <1>7, <1>8, <1>13, <1>14, SectionsOfFacts
<1>16. h \o g \in Seq(Items)
  BY <1>7, <1>13
<1>17. HeaderFound(h \o g, tex)
  BY <1>12, <1>15, <1>16 DEF HeaderFound
<1> QED
  BY <1>17 DEF h, g

(* None of it depends on anything but the config files and the tables.     *)
LEMMA SameFound ==
  ASSUME ini' = ini, table' = table
  PROVE  /\ AllWhole' = AllWhole
         /\ \A h, n : HeaderFound(h, n)' = HeaderFound(h, n)
BY DEF AllWhole, Whole, HeaderFound, AllSections, Listed, SectionsIn, Found, FoundItem, Size,
       Merging, Numbered

(* Every step keeps it.                                                    *)
LEMMA HeadersStep ==
  ASSUME Types, FreshInv, Master, HeadersFound, [Next]_vars
  PROVE  HeadersFound'
<1>1. ASSUME pc' \notin {"merge", "uids", "list", "passed"}, headerOut' = <<>>
      PROVE  HeadersFound'
  BY <1>1 DEF HeadersFound
<1>2. ASSUME ini' = ini, table' = table, headerOut' = headerOut, edited' = edited, lost' = lost,
             suspect' = suspect, pc' = pc, masterHeader' = masterHeader, textureList' = textureList,
             tex' = tex \/ pc # "merge"
      PROVE  HeadersFound'
  BY <1>2, SameFound DEF HeadersFound, Clean
<1>3. CASE Tick
  BY <1>2, <1>3 DEF Tick
<1>4. ASSUME \/ \E t \in Textures, list \in Configs : EditConfig(t, list)
             \/ \E t \in Textures, src \in Sources : EditSource(t, src)
      PROVE  HeadersFound'
  <2>1. headerOut' = headerOut /\ edited' = (edited \/ Running) /\ pc' = IF Running THEN pc ELSE "idle"
    BY <1>4 DEF EditConfig, EditSource, Edit
  <2>2. CASE Running
    BY <2>1, <2>2 DEF HeadersFound, Clean
  <2>3. CASE ~Running
    BY <1>1, <2>1, <2>3 DEF HeadersFound, Running
  <2> QED
    BY <2>2, <2>3
<1>5. CASE \E f \in BOOLEAN : Start(f)
  BY <1>1, <1>5 DEF Start, HeadersFound
<1>6. CASE Crash
  BY <1>1, <1>6 DEF Crash, Die, Forget
<1>7. CASE OpenConfig
  <2>1. CASE pc' = "stamp"
    BY <1>1, <1>7, <2>1 DEF OpenConfig, HeadersFound
  <2>2. CASE pc' = "merge"
    <3>1. tex' = 1 /\ headerOut' = <<>> /\ ini' = ini /\ table' = table
      BY <1>7, <2>2 DEF OpenConfig, HeadersFound
    <3>2. HeaderFound(<<>>, 0)
      BY NothingFound
    <3>3. HeaderFound(headerOut, tex - 1)'
      BY <3>1, <3>2, SameFound
    <3> QED
      BY <2>2, <3>3 DEF HeadersFound
  <2> QED
    BY <1>7, <2>1, <2>2 DEF OpenConfig
<1>8. CASE StampConfig \/ CheckTime \/ SkipTexture \/ PlaceFrames
  BY <1>1, <1>8 DEF StampConfig, CheckTime, SkipTexture, NextTexture, PlaceFrames, Die, Forget,
     HeadersFound
<1>9. ASSUME NEW o \in Outcomes PROVE AddSections(o) \/ CopyFrames(o) \/ SaveTable(o) => HeadersFound'
  BY <1>1 DEF AddSections, CopyFrames, SaveTable, NextTexture, Die, Forget, HeadersFound
<1>10. ASSUME NEW o \in Outcomes, Merge(o) PROVE HeadersFound'
  <2> DEFINE h == headerOut \o [l \in DOMAIN header[tex] |->
                    [tex |-> tex, sec |-> l, value |-> header[tex][l] + iSprite]]
  <2>1. /\ pc = "merge" /\ pc' = "merge" /\ tex \in Textures /\ tex' = tex + 1
        /\ headerOut' = h /\ ini' = ini /\ table' = table
        /\ edited' = edited /\ suspect' = suspect
    BY <1>10 DEF Merge, Types, Control
  <2>2. lost' = 0 => lost = 0
    BY <1>10 DEF Merge, Write
  <2>3. AllWhole' = AllWhole /\ \A g, n : HeaderFound(g, n)' = HeaderFound(g, n)
    BY <2>1, SameFound
  <2>4. Clean' => Clean
    BY <2>1, <2>2, <2>3 DEF Clean
  <2>5. Clean => HeaderFound(h, tex)
    BY <2>1, MergeFinds
  <2>6. tex' - 1 = tex
    BY <2>1
  <2> HIDE DEF h
  <2>7. Clean' => HeaderFound(headerOut, tex - 1)'
    BY <2>1, <2>3, <2>4, <2>5, <2>6
  <2> QED
    BY <2>1, <2>7 DEF HeadersFound
<1>11. ASSUME NEW o \in Outcomes, SaveMasterHeader(o) PROVE HeadersFound'
  <2>1. /\ pc = "merge" /\ pc' = "uids" /\ ini' = ini /\ table' = table
        /\ edited' = edited /\ suspect' = suspect /\ tex - 1 = N
    BY <1>11 DEF SaveMasterHeader, Types, Control, Bounds
  <2>2. lost' = 0 => lost = 0 /\ masterHeader'.defines = headerOut
    BY <1>11 DEF SaveMasterHeader, Write, Written
  <2>3. Clean' => Clean
    BY <2>1, <2>2, SameFound DEF Clean
  <2>4. Clean' => HeaderFound(masterHeader'.defines, N)
    BY <2>1, <2>2, <2>3 DEF HeadersFound, Clean
  <2>5. Clean' => HeaderFound(masterHeader.defines, N)'
    BY <2>1, <2>4, SameFound
  <2> QED
    BY <2>1, <2>5 DEF HeadersFound
<1>12. ASSUME NEW o \in Outcomes, SaveUIDs(o) \/ SaveTextureList(o) PROVE HeadersFound'
  <2>1. /\ pc \in {"uids", "list"} /\ pc' \in {"list", "passed"} /\ ini' = ini /\ table' = table
        /\ masterHeader' = masterHeader /\ edited' = edited /\ suspect' = suspect
    BY <1>12 DEF SaveUIDs, SaveTextureList
  <2>2. lost' = 0 => lost = 0
    BY <1>12 DEF SaveUIDs, SaveTextureList, Write
  <2>3. pc' = "passed" => headerOut' = <<>> /\ (lost' = 0 => textureList' = [t \in Textures |-> t])
    BY <1>12 DEF SaveUIDs, SaveTextureList, Write, Written, Forget
  <2>4. Clean' => Clean
    BY <2>1, <2>2, SameFound DEF Clean
  <2>5. Clean' => HeaderFound(masterHeader.defines, N)'
    BY <2>1, <2>4, SameFound DEF HeadersFound
  <2>6. Clean' /\ pc' = "passed" => textureList' = [t \in Textures |-> t]
    BY <2>3 DEF Clean
  <2> QED
    BY ONLY <2>1, <2>3, <2>5, <2>6 DEF HeadersFound
<1>13. CASE UNCHANGED vars
  BY <1>2, <1>13
<1> QED
  BY <1>3, <1>4, <1>5, <1>6, <1>7, <1>8, <1>9, <1>10, <1>11, <1>12, <1>13 DEF Next, Step

(* m_iBitmap is a WORD.                                                    *)
NumbersFit == N <= 65536

(* A bitmap number that fits a WORD is what it should be.                  *)
LEMMA NumberingExact ==
  ASSUME ~BigEndian, NEW i \in Nat, i < 65536
  PROVE  Numbering(i) = i
<1>1. i % 65536 = i
  BY SMT
<1> QED
  BY <1>1, NumberingFacts, SMT

(* The invariants together imply the property.                             *)
LEMMA SpritesGood ==
  ASSUME Types, Master, UidsMade, HeadersFound, NumbersFit
  PROVE  SpritesFound
<1> SUFFICES ASSUME Quiet, suspect = {}, ~BigEndian, AllWhole PROVE
      LET defines == masterHeader.defines IN
      /\ \A d \in DOMAIN defines :
           LET m == defines[d] IN
             {e \in DOMAIN masterTable :
                masterTable[e].tex = m.tex /\ masterTable[e].sec = m.sec}
               = m.value + 1 .. m.value + ini[m.tex].v[m.sec]
      /\ uidsFile = [d \in DOMAIN defines |-> [tex |-> defines[d].tex, sec |-> defines[d].sec]]
      /\ \A e \in DOMAIN masterTable :
           textureList[masterTable[e].iBitmap + 1] = masterTable[e].tex
  BY DEF SpritesFound, AllWhole
<1> DEFINE defines == masterHeader.defines
           T == masterTable
<1>1. pc = "passed" /\ ~edited /\ lost = 0 /\ Clean
  BY DEF Quiet, Clean
<1>2. T = Merging(N) /\ T \in Seq(MasterEntry)
  <2>1. T = Merging(N)
    BY <1>1 DEF Master
  <2> QED
    BY <2>1, MergingFacts DEF Types
<1>3. defines \in Seq(Items) /\ SectionsOf(defines) = AllSections(N) /\ Found(defines, T, N)
  BY <1>1, <1>2 DEF HeadersFound, HeaderFound
<1> HIDE DEF defines, T
<1>4. uidsFile = [d \in DOMAIN defines |-> [tex |-> defines[d].tex, sec |-> defines[d].sec]]
  BY <1>1, <1>3 DEF UidsMade, SectionsOf
<1>5. ASSUME NEW d \in DOMAIN defines
      PROVE  LET m == defines[d] IN
               {e \in DOMAIN T : T[e].tex = m.tex /\ T[e].sec = m.sec}
                 = m.value + 1 .. m.value + ini[m.tex].v[m.sec]
  <2> DEFINE m == defines[d]
             a == m.value
             c == Size(m)
  <2>1. FoundItem(m, T, N)
    BY <1>3 DEF Found
  <2>2. a \in Int
    <3>1. m \in Items
      BY <1>3
    <3> HIDE DEF m
    <3> QED
      BY <3>1 DEF Items
  <2>3. /\ a >= 0 /\ c \in Int /\ a + c <= Len(T)
        /\ \A e \in 1 .. Len(T) : T[e].tex = m.tex /\ T[e].sec = m.sec <=> a < e /\ e <= a + c
    BY <2>1 DEF FoundItem
  <2>4. c = ini[m.tex].v[m.sec]
    BY DEF Size
  <2>5. DOMAIN T = 1 .. Len(T) /\ Len(T) \in Nat
    BY <1>2
  <2> HIDE DEF m, a, c
  <2>6. {e \in DOMAIN T : T[e].tex = m.tex /\ T[e].sec = m.sec} = {e \in 1 .. Len(T) : a < e /\ e <= a + c}
    BY ONLY <2>3, <2>5
  <2>7. {e \in 1 .. Len(T) : a < e /\ e <= a + c} = a + 1 .. a + c
    <3>1. a \in Int /\ c \in Int /\ a >= 0 /\ a + c <= Len(T) /\ Len(T) \in Nat
      BY <2>2, <2>3, <2>5
    <3>2. ASSUME NEW e PROVE e \in {f \in 1 .. Len(T) : a < f /\ f <= a + c} <=> e \in a + 1 .. a + c
      BY ONLY <3>1
    <3> QED
      BY <3>2
  <2>8. {e \in DOMAIN T : T[e].tex = m.tex /\ T[e].sec = m.sec} = a + 1 .. a + ini[m.tex].v[m.sec]
    BY ONLY <2>4, <2>6, <2>7
  <2> QED
    BY <2>8 DEF m, a
<1>6. ASSUME NEW e \in DOMAIN T PROVE textureList[T[e].iBitmap + 1] = T[e].tex
  <2>1. T[e] \in MasterEntry
    BY <1>2
  <2>2. T[e].tex \in Textures /\ T[e].iBitmap = Numbering(T[e].tex - 1)
    BY <2>1 DEF MasterEntry
  <2>3. T[e].tex - 1 \in Nat /\ T[e].tex - 1 < N
    BY <2>2
  <2>4. T[e].tex - 1 < 65536
    BY <2>3, SMT DEF NumbersFit
  <2>5. Numbering(T[e].tex - 1) = T[e].tex - 1
    BY <2>3, <2>4, NumberingExact
  <2>6. T[e].iBitmap + 1 = T[e].tex
    BY <2>2, <2>3, <2>5
  <2>7. textureList = [t \in Textures |-> t]
    BY <1>1 DEF HeadersFound
  <2> QED
    BY <2>2, <2>6, <2>7
<1> QED
  BY <1>4, <1>5, <1>6 DEF defines, T

(* What a game relies on, for every number of textures that m_iBitmap can  *)
(* hold: after an undisturbed run that passes, the #define of every        *)
(* section is the place in the master table of the first of its frames and *)
(* of no other, the bitmap number of an entry is the line of its texture   *)
(* in the texture list, and the UIDs are of just these sections.           *)
THEOREM QuietRunsFindSprites ==
  ASSUME MissingTime = {0}, NumbersFit
  PROVE  Spec => []SpritesFound
<1>1. Init => Master /\ UidsMade /\ HeadersFound
  BY DEF Init, Master, UidsMade, HeadersFound
<1> DEFINE I == Types /\ FreshInv /\ Master /\ UidsMade /\ HeadersFound
<1>2. Init => I
  BY <1>1, InitTypes, InitFresh
<1>3. I /\ [Next]_vars => I'
  <2> SUFFICES ASSUME I, [Next]_vars PROVE I'
    OBVIOUS
  <2>1. Types'
    BY TypesStep
  <2>2. FreshInv'
    BY <2>1, StepKeeps
  <2> QED
    BY <2>1, <2>2, MasterStep, UidsStep, HeadersStep
<1>4. I => SpritesFound
  BY SpritesGood
<1> QED
  BY <1>2, <1>3, <1>4, PTL DEF Spec
=============================================================================
