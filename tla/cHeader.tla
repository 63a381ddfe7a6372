------------------------------ MODULE cHeader ------------------------------
(***************************************************************************)
(* One cHeader object (cHeader.cpp): a growing buffer of text that is      *)
(* appended to and saved, or opened and read back one #define at a time.   *)
(*                                                                         *)
(* The text is a sequence of items: a line without "#define" in it, or a   *)
(* #define of a name and a value.  A name is the sequence of its words.    *)
(* An item has a length, so that the buffer has a size; m_psAppend is how  *)
(* far it is ahead of m_psData, m_psRead how many items are in front of it.*)
(***************************************************************************)
EXTENDS Integers, Sequences, FiniteSets, Sums

CONSTANTS
  HEADER_CHUNK_SIZE,
  Lines,             (* the lengths of the lines that are appended        *)
  Names, Values,     (* what is defined                                   *)
  WordLen,           (* WordLen[w]: how many characters word w has        *)
  Numbers,           (* Numbers[w]: the number that a word w of digits is *)
  DestSize,          (* the size of the reader's buffer for a name        *)
  MaxItems, MaxObjects   (* bounds: items of a text, objects made         *)

ASSUME cHeaderAssumption ==
  /\ HEADER_CHUNK_SIZE \in Nat \ {0} /\ DestSize \in Nat \ {0}
  /\ Lines \subseteq Nat \ {0}
  /\ Names \subseteq Seq(DOMAIN WordLen) \ {<<>>}
  /\ \A w \in DOMAIN WordLen : WordLen[w] \in Nat \ {0}
  /\ Values \subseteq Int /\ MaxItems \in Nat /\ MaxObjects \in Nat

VARIABLES
  data,      (* m_psData, the items in front of m_psAppend                *)
  size,      (* m_DataSize; 0 when m_psData is 0                          *)
  used,      (* m_DataUsed                                                *)
  append,    (* m_psAppend: where the next item goes                      *)
  read,      (* m_psRead: how many items are behind it; -1 when it is 0   *)
  disk,      (* the header file; <<>> when it is missing or empty         *)
  saved,     (* history: the text that was saved last, in a set: empty    *)
             (* when it was not written                                   *)
  got,       (* history: what ReadValue has returned since Open           *)
  reading,   (* the caller is in its loop of ReadValue                    *)
  objects    (* how many objects there have been                          *)

vars == <<data, size, used, append, read, disk, saved, got, reading, objects>>

-----------------------------------------------------------------------------
Text(n) == [name |-> <<>>, value |-> 0, length |-> n]

(* What %i prints of a long, which has ten digits at the most              *)
Digits(v) ==
  (IF v < 0 THEN 2 ELSE 1)
    + Cardinality({k \in 1 .. 9 : 10 ^ k <= (IF v < 0 THEN -v ELSE v)})

(* With a space between the words.                                         *)
NameLen(n) == SumOf([i \in DOMAIN n |-> WordLen[n[i]] + 1]) - 1

(* DefineValue: the value ends in column 60, one space behind the name at  *)
(* the least.                                                              *)
Define(n, v) ==
  LET name  == 8 + NameLen(n)
      start == IF name + 1 < 60 - Digits(v) THEN 60 - Digits(v) ELSE name + 1
  IN  [name |-> n, value |-> v, length |-> start + Digits(v) + 1]

Length(items) == SumOf([i \in DOMAIN items |-> items[i].length])

(* A fault: the new data alone is compared with the size *)
GrowToNew(n) == IF n - used < size THEN size ELSE n + HEADER_CHUNK_SIZE

(* GrowTo: the size of the buffer when there is room for n characters.     *)
GrowTo(n) == IF n < size THEN size ELSE n + HEADER_CHUNK_SIZE

(* Append moves m_psAppend with the buffer.                                *)
Append1(item) ==
  /\ size' = GrowTo(used + item.length)
  /\ data' = Append(data, item)
  /\ append' = (IF size' = size THEN append ELSE used) + item.length
  /\ used' = used + item.length

-----------------------------------------------------------------------------
Init ==
  /\ data = <<>> /\ size = HEADER_CHUNK_SIZE /\ used = 0 /\ append = 0
  /\ read = -1
  /\ disk = <<>> /\ saved = {}
  /\ got = <<>> /\ reading = FALSE
  /\ objects = 1

(* The constructor; m_psRead is not set, and not used before Open.         *)
NewObject ==
  /\ ~reading /\ objects < MaxObjects
  /\ objects' = objects + 1
  /\ data' = <<>> /\ size' = HEADER_CHUNK_SIZE /\ used' = 0 /\ append' = 0
  /\ read' = -1 /\ got' = <<>>
  /\ UNCHANGED <<disk, saved, reading>>

AppendItem(item) ==
  /\ ~reading /\ Len(data) < MaxItems
  /\ Append1(item)
  /\ UNCHANGED <<read, disk, saved, got, reading, objects>>

AppendLine(n) == AppendItem(Text(n))

DefineValue(n, v) == AppendItem(Define(n, v))

(* A fault: two texts of the same length are the same *)
SameLength == used # 0 /\ Length(disk) = used

(* The file holds the text already.                                        *)
Same == used # 0 /\ Length(disk) = used /\ data = disk

(* Save does not touch a file that holds the text, unless it is forced to. *)
(* It returns false then, and when FILE_save cannot open the file; when    *)
(* the disk is full there is a beginning of the text.                      *)
Save(bForce) ==
  /\ ~reading
  /\ \/ /\ Same /\ ~bForce
        /\ UNCHANGED disk
        /\ saved' = {data}
     \/ /\ ~Same \/ bForce
        /\ disk' \in {data, disk, <<>>}
        /\ saved' = IF disk' = data THEN {data} ELSE {}
  /\ UNCHANGED <<data, size, used, append, read, got, reading, objects>>

(* Open: the text of the file, and nothing when it is missing or empty.    *)
(* The caller calls ReadValue until it returns false.                      *)
Open ==
  /\ ~reading
  /\ data' = disk
  /\ used' = Length(disk)
  /\ append' = Length(disk)
  /\ size' = IF disk = <<>> THEN 0 ELSE Length(disk) + 1
  /\ read' = IF disk = <<>> THEN -1 ELSE 0
  /\ got' = <<>> /\ reading' = TRUE
  /\ UNCHANGED <<disk, saved, objects>>

-----------------------------------------------------------------------------
Defines == {i \in DOMAIN data : data[i].name # <<>>}

(* A fault: the search begins one line too late *)
AheadOfNextLine == {i \in Defines : i > read + 1}

(* Where strstr(m_psRead,"#define") looks.                                 *)
Ahead == {i \in Defines : i > read}

(* What is behind the first word of a name: the next word of the name, if  *)
(* it has one, or else the value.  It is read as long as there are digits. *)
HasNumber(d) ==
  IF Len(d.name) > 1 THEN d.name[2] \in DOMAIN Numbers ELSE d.value >= 0

Number(d) == IF Len(d.name) > 1 THEN Numbers[d.name[2]] ELSE d.value

Reads(d) == WordLen[d.name[1]] < DestSize /\ HasNumber(d)

NextDefine == CHOOSE i \in Ahead : \A j \in Ahead : i <= j

(* ReadValue: false when there is no further #define, when the name does   *)
(* not fit, and when no digits follow.                                     *)
ReadValue ==
  /\ reading
  /\ \/ /\ read = -1 \/ Ahead = {}
        /\ read' = -1
        /\ reading' = FALSE
        /\ UNCHANGED got
     \/ /\ read # -1 /\ Ahead # {}
        /\ read' = NextDefine
        /\ LET d == data[read']
           IN  \/ /\ Reads(d)
                  /\ got' = Append(got, <<d.name[1], Number(d)>>)
                  /\ UNCHANGED reading
               \/ /\ ~Reads(d)
                  /\ reading' = FALSE
                  /\ UNCHANGED got
  /\ UNCHANGED <<data, size, used, append, disk, saved, objects>>

(* The caller begins again with the first #define.                         *)
ReadReset ==
  /\ reading
  /\ read' = IF size = 0 THEN -1 ELSE 0
  /\ got' = <<>>
  /\ UNCHANGED <<data, size, used, append, disk, saved, reading, objects>>

Next ==
  \/ NewObject
  \/ \E n \in Lines : AppendLine(n)
  \/ \E n \in Names, v \in Values : DefineValue(n, v)
  \/ \E b \in BOOLEAN : Save(b)
  \/ Open
  \/ ReadValue
  \/ ReadReset

Spec == Init /\ [][Next]_vars

-----------------------------------------------------------------------------
(* What is counted, where the next item goes and what there is agree, and  *)
(* it fits in the buffer, through every growth of it and every Open.       *)
Fits ==
  /\ used = Length(data) /\ append = used
  /\ used < size \/ (size = 0 /\ used = 0)

(* A Save that does not write has nothing to write: the file holds the     *)
(* text that was saved last, if it could be written, whatever an earlier   *)
(* Save that failed has left of it.                                        *)
SavedIsOnDisk == saved \subseteq {disk}

(* A name of one word that the reader has room for, and a frame's number.  *)
Plain(d) == Len(d.name) = 1 /\ WordLen[d.name[1]] < DestSize /\ d.value >= 0

(* The names and values of the #defines among the first n of some items.   *)
Pairs(items, n) ==
  LET pairs[k \in 0 .. Len(items)] ==
        IF k = 0 THEN <<>>
        ELSE IF items[k].name = <<>> THEN pairs[k - 1]
        ELSE Append(pairs[k - 1], <<items[k].name[1], items[k].value>>)
  IN  pairs[n]

(* The loop that merges a header into the master header sees what was      *)
(* defined in it: every #define in order with its value, when all of the   *)
(* names are plain.                                                        *)
RoundTrip ==
  [][reading /\ ~reading' =>
       ((\A i \in Defines : Plain(data[i])) => got' = Pairs(data, Len(data)))]_vars
=============================================================================
