-------------------------------- MODULE cINI --------------------------------
(***************************************************************************)
(* One cINI object: a text file held in a buffer, read and edited in       *)
(* place, and a caller that walks over its sections with EnumSection.      *)
(*                                                                         *)
(* The text is a sequence of symbols: brackets, "=", a space SP, an end of *)
(* line NL (one LF, CR or both) and letters; a name is a sequence of       *)
(* letters.  A position p stands for a pointer: m_psData is 1, m_psDataEnd *)
(* is End.  What a read at or behind End returns is not determined.        *)
(***************************************************************************)
EXTENDS Integers, Sequences, FiniteSets, FiniteSetsExt, SequencesExt

CONSTANTS
  SP, NL, DUP,        (* a space, an end of line, INI_DUP_SECTION        *)
  Letters,            (* the other symbols of names and values           *)
  INI_DATA_EXPAND,
  Texts,              (* what the file may hold at first                 *)
  Names, Keys, Values,(* what the caller asks for and stores             *)
  DestSize,           (* the size of the caller's buffer for a name      *)
  Beyond,             (* the symbols that may be behind the end          *)
  MaxOpens, MaxSets, MaxListed    (* bounds on the calls of a behaviour  *)

Files == {"f", "g"}

Symbols == {"[", "]", "=", SP, NL} \cup Letters

KeyLine(k, v) == k \o <<SP, "=", SP>> \o v \o <<NL>>

(* No line is as long as INI_DATA_EXPAND: cTemp has room for 512 symbols.  *)
ASSUME cINIAssumption ==
  /\ INI_DATA_EXPAND \in Nat \ {0} /\ DestSize \in Nat \ {0}
  /\ Texts \subseteq Seq(Symbols)
  /\ Names \subseteq Seq(Symbols) /\ Keys \subseteq Seq(Symbols)
  /\ Values \subseteq Seq(Symbols)
  /\ \A k \in Keys, v \in Values : Len(KeyLine(k, v)) <= INI_DATA_EXPAND
  /\ MaxOpens \in Nat /\ MaxSets \in Nat /\ MaxListed \in Nat

VARIABLES
  file,      (* m_cFilename, "" before the first Open                     *)
  text,      (* m_psData to m_psDataEnd                                   *)
  size,      (* m_BufferSize; 0 when m_psData is 0                        *)
  scan,      (* m_psScan                                                  *)
  secure,    (* m_bSecureSave                                             *)
  changed,   (* m_bChanged                                                *)
  disk,      (* the files; one that is missing or empty is <<>>           *)
  beyond,    (* the symbol behind the end; "" before any read             *)
  name,      (* cSection of the caller, both argument and result          *)
  more,      (* the caller is in its loop over the sections               *)
  listed,    (* history: the names the loop has seen                      *)
  regular,   (* history: the text was Enumerable when the loop began      *)
  opens,     (* how many calls of Open were made                          *)
  stored,    (* history: the calls of SetString                           *)
  lost       (* history: the last FILE_save of this object failed         *)

data == <<text, size>>
loop == <<name, more, listed, regular>>
vars == <<file, data, scan, secure, changed, disk, beyond, loop, opens, stored, lost>>

End == Len(text) + 1

At(p) == IF p < End THEN text[p] ELSE beyond

-----------------------------------------------------------------------------
IsEOL(p) == p >= End \/ text[p] = NL

IsWS(p) == p >= End \/ text[p] \in {NL, SP}

(* m_psScan as Scan_toNextLine leaves it; it returns false at End.         *)
ToNextLine(p) ==
  LET eol == Min({q \in p .. End : IsEOL(q)})
  IN  Min({q \in eol .. End : q = End \/ text[q] # NL})

(* The places a loop "do ... while (Scan_toNextLine())" visits from p on.  *)
LinesFrom(p) ==
  {q \in p .. Len(text) : q = p \/ (text[q - 1] = NL /\ text[q] # NL)}

Holds(p, s) == p + Len(s) <= End /\ SubSeq(text, p, p + Len(s) - 1) = s

(* Scan_isSection: the header of section s begins at p.                    *)
IsSection(p, s) ==
  /\ s # <<>> /\ At(p) = "["
  /\ Holds(p + 1, s) /\ At(p + 1 + Len(s)) = "]"

Sections(s, from) == {p \in LinesFrom(from) : IsSection(p, s)}

HasSection(s, from) == Sections(s, from) # {}

(* Scan_findSection: behind the line of the header, or at the end.         *)
FindSection(s, from) ==
  LET found == Sections(s, from)
  IN  IF found = {} THEN End ELSE ToNextLine(Min(found) + 1 + Len(s))

(* Scan_isKey: the key ends with white space; "k=v" does not have key k.   *)
IsKey(p, k) == Holds(p, k) /\ IsWS(p + Len(k))

(* Scan_findKey looks at the lines up to the next that begins with "[".    *)
KeyLines(k, from) ==
  LET lines == LinesFrom(from)
  IN  {p \in lines : IsKey(p, k) /\ \A q \in lines : q <= p => text[q] # "["}

HasKey(k, from) == KeyLines(k, from) # {}

(* The end of the key, or the place for a new one.                         *)
FindKey(k, from) ==
  LET found == KeyLines(k, from)
  IN  IF found = {} THEN from ELSE Min(found) + Len(k)

ToValue(p) == Min({q \in p .. End : IsEOL(q) \/ text[q] \notin {SP, "="}})

(* Scan_sizeValue: to the end of the line, or to the next white space.     *)
SizeValue(p, ws) ==
  Min({q \in p .. End : IF ws THEN IsEOL(q) ELSE IsWS(q)}) - p

(* Where GetString and SetString are when they have looked for key k.      *)
Section(s) == FindSection(s, 1)
Stored(s, k) == HasSection(s, 1) /\ HasKey(k, Section(s))
ValueAt(s, k) == ToValue(FindKey(k, Section(s)))

(* GetString: the first word of the value; <<>> stands for the default.    *)
GetString(s, k) ==
  IF Stored(s, k)
  THEN LET p == ValueAt(s, k) IN SubSeq(text, p, p + SizeValue(p, FALSE) - 1)
  ELSE <<>>

-----------------------------------------------------------------------------
(* A fault: the size asked for is that of the new string alone *)
ExpandToString(used, bufsize, min) ==
  IF bufsize > min - bufsize /\ min # 0 THEN bufsize ELSE used + INI_DATA_EXPAND

(* Data_Expand: the buffer's size when there is room for min symbols.      *)
Expand(used, bufsize, min) ==
  IF bufsize > min /\ min # 0 THEN bufsize ELSE used + INI_DATA_EXPAND

(* Data_Append asks for more than there is, so that it always reallocates. *)
AppendSize(used, bufsize, s) == Expand(used, bufsize, bufsize + Len(s) + 2)

(* A fault: what follows the place is overwritten *)
InsertOver(p, s, remove) ==
  /\ text' = SubSeq(text, 1, p - 1) \o s \o SubSeq(text, p + Len(s), Len(text))
  /\ size' = Expand(Len(text), size, Len(text') + 2)

(* Data_Insert: s in place of the next remove symbols from p on.           *)
Insert(p, s, remove) ==
  /\ text' = SubSeq(text, 1, p - 1) \o s \o SubSeq(text, p + remove, Len(text))
  /\ size' = Expand(Len(text), size, Len(text') + 2)

(* FILE_save, whose result nobody looks at: a file that cannot be opened   *)
(* stays as it was, on a full disk there is a beginning of it.             *)
Write(f, t) ==
  \/ /\ disk' = [disk EXCEPT ![f] = t]
     /\ lost' = FALSE
  \/ /\ \E d \in {disk[f], <<>>} : disk' = [disk EXCEPT ![f] = d]
     /\ lost' = TRUE

(* A fault: an unsecured change is not remembered *)
SaveForgets ==
  /\ IF secure THEN Write(file, text') ELSE UNCHANGED <<disk, lost>>
  /\ changed' = FALSE

(* Data_Save after a change: at once, or when the object goes.             *)
Save ==
  \/ /\ file = ""
     /\ UNCHANGED <<disk, changed, lost>>
  \/ /\ file # "" /\ secure
     /\ Write(file, text')
     /\ changed' = FALSE
  \/ /\ file # "" /\ ~secure
     /\ changed' = TRUE
     /\ UNCHANGED <<disk, lost>>

-----------------------------------------------------------------------------
Init ==
  /\ file = "" /\ text = <<>> /\ size = 0 /\ scan = 0
  /\ secure = FALSE /\ changed = FALSE
  /\ disk \in {[f \in Files |-> IF f = "f" THEN t ELSE <<>>] : t \in Texts}
  /\ beyond = ""
  /\ name = <<>> /\ more = FALSE /\ listed = <<>> /\ regular = FALSE
  /\ opens = 0 /\ stored = <<>> /\ lost = FALSE

(* A fault: the size of the buffer is kept when there is no file *)
OpenKeepsSize(f, bSecureSave) ==
  /\ ~more /\ opens < MaxOpens
  /\ opens' = opens + 1
  /\ file' = f
  /\ text' = disk[f] /\ size' = IF disk[f] = <<>> THEN size ELSE Len(disk[f])
  /\ scan' = 0 /\ secure' = bSecureSave /\ beyond' \in Beyond /\ lost' = FALSE
  /\ UNCHANGED <<changed, disk, loop, stored>>

(* Open drops what the buffer held, saved or not.  A file that is missing  *)
(* or empty leaves it empty and m_bSecureSave and m_bChanged as they were. *)
Open(f, bSecureSave) ==
  /\ ~more /\ opens < MaxOpens
  /\ opens' = opens + 1
  /\ file' = f
  /\ text' = disk[f] /\ size' = Len(disk[f])
  /\ scan' = IF disk[f] = <<>> THEN 0 ELSE 1
  /\ secure' = IF disk[f] = <<>> THEN secure ELSE bSecureSave
  /\ beyond' \in Beyond /\ lost' = FALSE
  /\ UNCHANGED <<changed, disk, loop, stored>>

(* GetString, GetValue, GetLong and GetHex move m_psScan, nothing else.    *)
Get(s, k) ==
  /\ scan' = IF size = 0 THEN scan
             ELSE IF ~HasSection(s, 1) THEN End
             ELSE IF ~HasKey(k, Section(s)) THEN Section(s)
             ELSE ValueAt(s, k)
  /\ UNCHANGED <<file, data, secure, changed, disk, beyond, loop, opens, stored, lost>>

(* SetString in a section that exists: the rest of the line of the key is  *)
(* replaced; a key that is not there is put behind the header.             *)
Modify(s, k, v) ==
  \/ /\ Stored(s, k)
     /\ scan' = ValueAt(s, k)
     /\ Insert(scan', v, SizeValue(scan', TRUE))
  \/ /\ HasSection(s, 1) /\ ~Stored(s, k)
     /\ scan' = Section(s)
     /\ Insert(scan', KeyLine(k, v), 0)

(* SetString otherwise: the header and the key are appended to the file.   *)
NewSection(s, k, v) ==
  LET header == (IF size = 0 THEN <<>> ELSE <<NL>>) \o <<"[">> \o s \o <<"]", NL>>
      first  == AppendSize(Len(text), size, header)
  IN  /\ ~HasSection(s, 1)
      /\ text' = text \o header \o KeyLine(k, v)
      /\ size' = AppendSize(Len(text \o header), first, KeyLine(k, v))
      /\ scan' = IF size = 0 THEN 1 ELSE End

Settings == [p \in Names \X Keys |-> GetString(p[1], p[2])]

(* An edit goes where the text cannot take it: to a header that is the     *)
(* last line and has no line end, or to a key without a space behind it.   *)
Spoiled(s, k) ==
  /\ HasSection(s, 1)
  /\ \/ Section(s) = End /\ Last(text) # NL
     \/ HasKey(k, Section(s)) /\ IsEOL(FindKey(k, Section(s)))

SetString(s, k, v) ==
  /\ Len(stored) < MaxSets
  /\ stored' = Append(stored, [section |-> s, key |-> k, value |-> v,
                                opened |-> opens, spoiled |-> Spoiled(s, k),
                                before |-> Settings])
  /\ \/ Modify(s, k, v)
     \/ NewSection(s, k, v)
  /\ Save
  /\ beyond' \in Beyond
  /\ UNCHANGED <<file, secure, loop, opens>>

(* The destructor saves what has changed.  What follows is another object. *)
Close ==
  /\ file # "" /\ ~more
  /\ \/ size # 0 /\ changed /\ Write(file, text)
     \/ ~(size # 0 /\ changed) /\ UNCHANGED <<disk, lost>>
  /\ file' = "" /\ text' = <<>> /\ size' = 0 /\ scan' = 0
  /\ secure' = FALSE /\ changed' = FALSE /\ beyond' = ""
  /\ UNCHANGED <<loop, opens, stored>>

-----------------------------------------------------------------------------
(* The lines of the file that are the header of a section s.               *)
Headers == {p \in LinesFrom(1) : text[p] = "[" /\ \E q \in p .. Len(text) :
              text[q] = "]" /\ \A r \in p .. q : text[r] # NL}

HeaderName(p) ==
  SubSeq(text, p + 1, Min({q \in p .. Len(text) : text[q] = "]"}) - 1)

(* The text has no header that stops the walk or sets it back: none that   *)
(* is empty, not closed, too long, or the last thing in the file.          *)
Enumerable ==
  \A p \in LinesFrom(1) : text[p] = "[" =>
    /\ p \in Headers
    /\ Len(HeaderName(p)) \in 1 .. DestSize - 2
    /\ ToNextLine(p) < End

(* cSection[0] = 0; while (EnumSection(cSection,cSection,DestSize)) ...    *)
StartLoop ==
  /\ ~more /\ size # 0
  /\ name' = <<>> /\ more' = TRUE /\ listed' = <<>>
  /\ regular' = Enumerable
  /\ UNCHANGED <<file, data, scan, secure, changed, disk, beyond, opens, stored, lost>>

(* A fault: the walk goes on from wherever m_psScan is *)
ResumeAtScan == IF name = <<>> THEN 1 ELSE scan

(* A fault: the line behind the header is taken for the header's *)
ResumeNextLine == IF name = <<>> THEN 1 ELSE ToNextLine(Section(name))

(* EnumSection begins behind the header of the section it returned last.   *)
Resume == IF name = <<>> THEN 1 ELSE Section(name)

(* The next lines that begin with "[" -- or seem to, behind the end.       *)
Heads(p) ==
  {q \in LinesFrom(p) \cup ({p} \cap {End}) : At(q) = "["}

NameEnd(q) == Min({r \in q + 1 .. End + 1 : IsEOL(r) \/ text[r] = "]"})

(* EnumSection has found a name: an error when there is another further on *)
ThisName(dest, end) ==
  \/ /\ HasSection(dest, end)
     /\ name' = <<DUP>> \o dest /\ more' = FALSE
     /\ scan' = FindSection(dest, end)
     /\ UNCHANGED listed
  \/ /\ ~HasSection(dest, end)
     /\ name' = dest /\ more' = TRUE
     /\ listed' = Append(listed, dest)
     /\ scan' = IF end < End THEN End ELSE end

EnumSection ==
  /\ more /\ Len(listed) < MaxListed
  /\ beyond' \in Beyond
  /\ \/ /\ name # <<>> /\ ~HasSection(name, 1)
        /\ more' = FALSE
        /\ scan' = End
        /\ UNCHANGED <<name, listed>>
     \/ /\ name = <<>> \/ HasSection(name, 1)
        /\ Heads(Resume) = {}
        /\ more' = FALSE
        /\ scan' = End
        /\ UNCHANGED <<name, listed>>
     \/ /\ name = <<>> \/ HasSection(name, 1)
        /\ Heads(Resume) # {}
        /\ LET head == Min(Heads(Resume))
               end  == NameEnd(head)
           IN  \/ /\ end - head - 1 >= DestSize - 1
                  /\ more' = FALSE
                  /\ scan' = end
                  /\ UNCHANGED <<name, listed>>
               \/ /\ end - head - 1 < DestSize - 1
                  /\ ThisName(SubSeq(text, head + 1, end - 1), end)
  /\ UNCHANGED <<file, data, secure, changed, disk, regular, opens, stored, lost>>

-----------------------------------------------------------------------------
(* EnumKey begins at the line behind that of the key, or at the first of   *)
(* the section, and passes over the lines that begin with white space.     *)
KeyFrom(s, key) ==
  IF key = <<>> THEN Section(s) ELSE ToNextLine(FindKey(key, Section(s)))

KeyHeads(s, key) == {p \in LinesFrom(KeyFrom(s, key)) : text[p] # SP}

KeyEnd(p) == p + SizeValue(p, FALSE)

(* What EnumKey(s, dest, DestSize) puts in dest when dest is key; <<>> when *)
(* it returns false: there is no further line, it is the header of the next *)
(* section, or its first word is too long.                                 *)
NextKey(s, key) ==
  LET heads == KeyHeads(s, key) IN
    IF heads = {} \/ text[Min(heads)] = "[" \/ SizeValue(Min(heads), FALSE) >= DestSize - 1
    THEN <<>>
    ELSE SubSeq(text, Min(heads), KeyEnd(Min(heads)) - 1)

EnumKey(s, key) ==
  /\ size # 0
  /\ LET heads == KeyHeads(s, key) IN
       scan' = IF heads = {} THEN End
               ELSE IF text[Min(heads)] = "[" THEN Min(heads)
               ELSE Min({KeyEnd(Min(heads)), Min(heads) + DestSize - 1})
  /\ UNCHANGED <<file, data, secure, changed, disk, beyond, loop, opens, stored, lost>>

Next ==
  \/ \E f \in Files, b \in BOOLEAN : Open(f, b)
  \/ \E s \in Names, k \in Keys : Get(s, k)
  \/ \E s \in Names, k \in Keys \cup {<<>>} : EnumKey(s, k)
  \/ \E s \in Names, k \in Keys, v \in Values : SetString(s, k, v)
  \/ StartLoop
  \/ EnumSection
  \/ Close

Spec == Init /\ [][Next]_vars

-----------------------------------------------------------------------------
(* The state of the object is that of a cINI.                              *)
TypeOK ==
  /\ file \in Files \cup {""}
  /\ text \in Seq(Symbols) /\ size \in Nat
  /\ (size = 0) = (text = <<>>)
  /\ scan \in 0 .. End + 1
  /\ secure \in BOOLEAN /\ changed \in BOOLEAN /\ more \in BOOLEAN /\ lost \in BOOLEAN
  /\ beyond \in Beyond \cup {""}

(* Data_Expand makes room before anything is written: the text never       *)
(* outgrows the buffer, whether an edit appends to it or changes a line.   *)
DataFits == Len(text) <= size

(* What differs from the file is remembered: as long as m_bChanged is not  *)
(* set and the last FILE_save did not fail, the buffer that was loaded     *)
(* holds what the file holds; an edit that follows a failure makes up for  *)
(* it.                                                                     *)
NothingUnsaved ==
  file # "" /\ text # <<>> /\ ~changed /\ ~lost => disk[file] = text

(* The first word of a value: GetString returns no more of it.             *)
Word(v) ==
  SubSeq(v, 1, Min({q \in 1 .. Len(v) + 1 : q = Len(v) + 1 \/ v[q] = SP}) - 1)

(* SetString is seen by GetString: the key then has the value, by its      *)
(* first word, and every other key of every section the value it had.      *)
WriteRead ==
  LET call == Last(stored)
  IN  stored # <<>> /\ text # <<>> /\ call.opened = opens /\ ~call.spoiled =>
        Settings = [call.before EXCEPT ![<<call.section, call.key>>] = Word(call.value)]

Unique == \A p, q \in Headers : HeaderName(p) = HeaderName(q) => p = q

InOrder(places) == SetToSortSeq(places, LAMBDA p, q : p < q)

SectionNames ==
  [i \in 1 .. Cardinality(Headers) |-> HeaderName(InOrder(Headers)[i])]

(* The first words of the lines of section s.                              *)
KeyNames(s) ==
  LET lines  == LinesFrom(Section(s))
      heads  == {p \in lines : text[p] = "["}
      places == InOrder({p \in lines : text[p] # SP /\ \A q \in heads : p < q})
  IN  [i \in DOMAIN places |-> SubSeq(text, places[i], KeyEnd(places[i]) - 1)]

(* key[0] = 0; while (EnumKey(s,key,DestSize)) ..., with one call more     *)
(* than there are keys, sees them all -- or some key is there twice or too *)
(* long.                                                                   *)
KeysSeen(s) ==
  LET keys == KeyNames(s)
      seen == FoldLeft(LAMBDA before, call :
                LET key == NextKey(s, IF before = <<>> THEN <<>> ELSE Last(before))
                IN  IF key = <<>> THEN before ELSE Append(before, key),
                <<>>, <<"first">> \o keys)
  IN  \/ ~IsInjective(keys)
      \/ \E i \in DOMAIN keys : Len(keys[i]) >= DestSize - 1
      \/ seen = keys

(* The loop over the sections sees one after the other in the order of the *)
(* file, none of them again, whatever is read and stored in between; each  *)
(* call adds one, so that the loop ends.  A loop over the keys of a section *)
(* sees those that GetString finds, once each and in order.                *)
EnumInOrder ==
  /\ more /\ regular => IsPrefix(listed, SectionNames)
  /\ \A s \in Names : KeysSeen(s)

(* When the loop ends it has seen them all; or else a name occurs twice,   *)
(* and that is reported.                                                   *)
EnumComplete ==
  [][regular /\ more /\ ~more' =>
       IF Unique THEN listed' = SectionNames ELSE Head(name') = DUP]_vars
=============================================================================
