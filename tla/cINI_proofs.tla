---------------------------- MODULE cINI_proofs -----------------------------
(***************************************************************************)
(* Proofs about cINI: its types, that the text fits the buffer, that what  *)
(* differs from the file is remembered, and that what SetString writes is  *)
(* what GetString reads.                                                   *)
(*                                                                         *)
(* The last is proved about texts.  Found says what GetString finds in a   *)
(* text by its lines alone; an edit maps the lines of one text to those of *)
(* the next (Moved), but for a new one (Added), and a line that reads the  *)
(* same (SameLine) is found as before.                                     *)
(***************************************************************************)
EXTENDS cINI, ListLemmas

(* The smallest of some positions                                          *)
LEMMA MinFacts ==
  ASSUME NEW S, S \subseteq Nat, S # {}
  PROVE  Min(S) \in S /\ \A x \in S : Min(S) <= x
<1>1. \E x \in S : \A y \in S : x <= y
  BY SmallestExists
<1> QED
  BY <1>1 DEF Min

(* The type of the text                                                    *)
TextOK == text \in Seq(Symbols)

(* Where the text ends                                                     *)
LEMMA EndFacts ==
  ASSUME TextOK
  PROVE  End \in Nat \ {0} /\ Len(text) \in Nat /\ End = Len(text) + 1
BY DEF TextOK, End

(* Scan_toNextLine never leaves the text.                                  *)
LEMMA NextLineFacts ==
  ASSUME TextOK, NEW p \in 1 .. End
  PROVE  ToNextLine(p) \in p .. End
<1>1. End \in Nat \ {0}
  BY EndFacts
<1> DEFINE S == {q \in p .. End : IsEOL(q)}
<1>2. End \in S
  BY <1>1 DEF IsEOL
<1>3. S \subseteq Nat
  BY <1>1
<1>4. Min(S) \in S
  BY <1>2, <1>3, MinFacts
<1>5. PICK eol : eol = Min(S)
  OBVIOUS
<1>6. eol \in p .. End
  BY <1>4, <1>5
<1> DEFINE T == {q \in eol .. End : q = End \/ text[q] # NL}
<1>7. End \in T /\ T \subseteq Nat
  BY <1>1, <1>6
<1>8. Min(T) \in T
  BY <1>7, MinFacts
<1>9. ToNextLine(p) = Min(T)
  BY <1>5, Zenon DEF ToNextLine
<1> QED
  BY <1>1, <1>6, <1>8, <1>9

(* The header of a section is in the text.                                 *)
LEMMA SectionsFacts ==
  ASSUME TextOK, NEW s \in Seq(Symbols \cup {DUP}), NEW from \in Nat
  PROVE  /\ Sections(s, from) \subseteq from .. Len(text)
         /\ \A p \in Sections(s, from) : p + 1 + Len(s) <= End
<1>1. Sections(s, from) \subseteq from .. Len(text)
  BY DEF Sections, LinesFrom
<1>2. ASSUME NEW p \in Sections(s, from) PROVE p + 1 + Len(s) <= End
  BY <1>2 DEF Sections, IsSection, Holds
<1> QED
  BY <1>1, <1>2

(* Scan_findSection ends in the text, behind its first character if it     *)
(* finds the section.                                                      *)
LEMMA FindSectionFacts ==
  ASSUME TextOK, NEW s \in Seq(Symbols \cup {DUP}), NEW from \in Nat \ {0}
  PROVE  /\ FindSection(s, from) \in 1 .. End
         /\ HasSection(s, from) => FindSection(s, from) > 1
<1>1. End \in Nat \ {0} /\ Len(text) \in Nat /\ Len(s) \in Nat
  BY EndFacts
<1>2. CASE Sections(s, from) = {}
  BY <1>1, <1>2 DEF FindSection, HasSection
<1>3. CASE Sections(s, from) # {}
  <2>1. PICK p : p = Min(Sections(s, from))
    OBVIOUS
  <2>2. p \in Sections(s, from)
    <3>1. Sections(s, from) \subseteq Nat
      BY <1>1, SectionsFacts
    <3> QED
      BY <1>3, <2>1, <3>1, MinFacts
  <2>3. p \in from .. Len(text) /\ p + 1 + Len(s) <= End
    BY <2>2, SectionsFacts
  <2>4. FindSection(s, from) = ToNextLine(p + 1 + Len(s))
    BY <1>3, <2>1 DEF FindSection
  <2>5. p + 1 + Len(s) \in 2 .. End
    BY <1>1, <2>3
  <2>6. ToNextLine(p + 1 + Len(s)) \in p + 1 + Len(s) .. End
    BY <1>1, <2>5, NextLineFacts
  <2> QED
    BY <1>1, <2>4, <2>5, <2>6
<1> QED
  BY <1>2, <1>3

(* Scan_findKey ends in the text.                                          *)
LEMMA FindKeyFacts ==
  ASSUME TextOK, NEW k \in Seq(Symbols), NEW from \in 1 .. End
  PROVE  FindKey(k, from) \in from .. End
<1>1. End \in Nat \ {0} /\ Len(text) \in Nat /\ Len(k) \in Nat
  BY EndFacts
<1>2. CASE KeyLines(k, from) = {}
  BY <1>1, <1>2 DEF FindKey
<1>3. CASE KeyLines(k, from) # {}
  <2>1. PICK p : p = Min(KeyLines(k, from))
    OBVIOUS
  <2>2. KeyLines(k, from) \subseteq from .. Len(text)
    BY DEF KeyLines, LinesFrom
  <2>3. p \in KeyLines(k, from)
    <3>1. KeyLines(k, from) \subseteq Nat
      BY <1>1, <2>2
    <3> QED
      BY <1>3, <2>1, <3>1, MinFacts
  <2>4. p + Len(k) <= End
    BY <2>3 DEF KeyLines, IsKey, Holds
  <2>5. FindKey(k, from) = p + Len(k)
    BY <1>3, <2>1 DEF FindKey
  <2> QED
    BY <1>1, <2>2, <2>3, <2>4, <2>5
<1> QED
  BY <1>2, <1>3

(* So does the search for the value,                                       *)
LEMMA ToValueFacts ==
  ASSUME TextOK, NEW p \in 1 .. End
  PROVE  ToValue(p) \in p .. End
<1>1. End \in Nat \ {0}
  BY EndFacts
<1> DEFINE S == {q \in p .. End : IsEOL(q) \/ text[q] \notin {SP, "="}}
<1>2. End \in S /\ S \subseteq Nat
  BY <1>1 DEF IsEOL
<1>3. Min(S) \in S
  BY <1>2, MinFacts
<1> QED
  BY <1>3 DEF ToValue

(* and so does the value.                                                  *)
LEMMA SizeValueFacts ==
  ASSUME TextOK, NEW p \in 1 .. End, NEW ws
  PROVE  SizeValue(p, ws) \in Nat /\ p + SizeValue(p, ws) <= End
<1>1. End \in Nat \ {0}
  BY EndFacts
<1> DEFINE S == {q \in p .. End : IF ws THEN IsEOL(q) ELSE IsWS(q)}
<1>2. End \in S /\ S \subseteq Nat
  BY <1>1 DEF IsEOL, IsWS
<1>3. Min(S) \in S
  BY <1>2, MinFacts
<1>4. SizeValue(p, ws) = Min(S) - p
  BY Zenon DEF SizeValue
<1> QED
  BY <1>1, <1>3, <1>4

(* Together: where SetString and GetString are.                            *)
LEMMA ValueAtFacts ==
  ASSUME TextOK, NEW s \in Seq(Symbols), NEW k \in Seq(Symbols)
  PROVE  /\ Section(s) \in 1 .. End
         /\ HasSection(s, 1) => Section(s) > 1
         /\ ValueAt(s, k) \in Section(s) .. End
<1>0. End \in Nat \ {0} /\ s \in Seq(Symbols \cup {DUP})
  BY EndFacts
<1>1. PICK p : p = Section(s)
  OBVIOUS
<1>2. p \in 1 .. End /\ (HasSection(s, 1) => p > 1)
  <2>1. FindSection(s, 1) \in 1 .. End /\ (HasSection(s, 1) => FindSection(s, 1) > 1)
    <3>1. 1 \in Nat \ {0}
      OBVIOUS
    <3> QED
      BY ONLY <1>0, <3>1, TextOK, FindSectionFacts
  <2> QED
    BY <1>1, <2>1 DEF Section
<1>3. PICK q : q = FindKey(k, p)
  OBVIOUS
<1>4. q \in p .. End
  BY <1>2, <1>3, FindKeyFacts
<1>5. ToValue(q) \in q .. End
  <2>1. q \in 1 .. End
    BY <1>0, <1>2, <1>4
  <2> QED
    BY <2>1, ToValueFacts
<1>6. ValueAt(s, k) = ToValue(q)
  BY <1>1, <1>3 DEF ValueAt
<1> QED
  BY <1>0, <1>1, <1>2, <1>4, <1>5, <1>6

(* The text and its buffer; there is no text only when there is no buffer. *)
Buffer ==
  /\ text \in Seq(Symbols) /\ size \in Nat
  /\ size = 0 <=> text = <<>>
  /\ Len(text) <= size

(* The files and pointers of the object and its caller                     *)
Held ==
  /\ file \in Files \cup {""}
  /\ disk \in [Files -> Seq(Symbols)]
  /\ scan \in 0 .. End + 1
  /\ name \in Seq(Symbols \cup {DUP})

(* The flags                                                               *)
Flags ==
  /\ secure \in BOOLEAN /\ changed \in BOOLEAN /\ more \in BOOLEAN /\ lost \in BOOLEAN

(* The inductive invariant                                                 *)
INIInv == Buffer /\ Held /\ Flags /\ beyond \in Beyond \cup {""} /\ NothingUnsaved

(* The text after an insertion is one, and how long it is                  *)
LEMMA InsertedText ==
  ASSUME NEW t \in Seq(Symbols), NEW p \in 1 .. Len(t) + 1, NEW remove \in Nat,
         p + remove <= Len(t) + 1, NEW s \in Seq(Symbols), NEW u,
         u = SubSeq(t, 1, p - 1) \o s \o SubSeq(t, p + remove, Len(t))
  PROVE  u \in Seq(Symbols) /\ Len(u) = Len(t) + Len(s) - remove
<1>0. Len(t) \in Nat /\ Len(s) \in Nat
  OBVIOUS
<1> DEFINE a == SubSeq(t, 1, p - 1)
           b == SubSeq(t, p + remove, Len(t))
<1>1. a \in Seq(Symbols) /\ Len(a) = p - 1
  <2>1. a \in Seq(Symbols)
    OBVIOUS
  <2>2. p - 1 \in 0 .. Len(t)
    BY <1>0
  <2> QED
    BY <2>1, <2>2
<1>2. b \in Seq(Symbols) /\ Len(b) = Len(t) - (p + remove) + 1
  <2>1. \A i \in p + remove .. Len(t) : t[i] \in Symbols
    BY <1>0
  <2>2. b \in Seq(Symbols)
    BY <1>0, <2>1
  <2>3. p + remove \in 1 .. Len(t) + 1
    BY <1>0
  <2> QED
    BY <1>0, <2>2, <2>3
<1>3. u = a \o s \o b
  OBVIOUS
<1> HIDE DEF a, b
<1>4. a \o s \in Seq(Symbols) /\ Len(a \o s) = Len(a) + Len(s)
  BY <1>1, ConcatFacts
<1>5. u \in Seq(Symbols) /\ Len(u) = Len(a \o s) + Len(b)
  <2>1. (a \o s) \o b \in Seq(Symbols) /\ Len((a \o s) \o b) = Len(a \o s) + Len(b)
    BY <1>2, <1>4, ConcatFacts
  <2> QED
    BY <1>3, <2>1, Zenon
<1> QED
  <2>1. u \in Seq(Symbols)
    BY <1>5
  <2>2. Len(u) = (p - 1) + Len(s) + (Len(t) - (p + remove) + 1)
    BY <1>1, <1>2, <1>4, <1>5
  <2>3. Len(u) = Len(t) + Len(s) - remove
    BY ONLY <1>0, <2>2, p \in 1 .. Len(t) + 1, remove \in Nat
  <2> QED
    BY <2>1, <2>3

(* Data_Insert makes room before it writes, because nothing that is        *)
(* inserted is longer than INI_DATA_EXPAND.                                *)
LEMMA InsertFacts ==
  ASSUME Buffer, NEW p \in 2 .. End, NEW remove \in Nat, p + remove <= End,
         NEW s \in Seq(Symbols), Len(s) <= INI_DATA_EXPAND, Insert(p, s, remove)
  PROVE  Buffer' /\ p <= Len(text') + 1
<1>1. text \in Seq(Symbols) /\ size \in Nat /\ End = Len(text) + 1 /\ Len(text) \in Nat
  BY DEF Buffer, End
<1>2. PICK t : t = text
  OBVIOUS
<1>3. text' = SubSeq(t, 1, p - 1) \o s \o SubSeq(t, p + remove, Len(t))
      /\ size' = Expand(Len(t), size, Len(text') + 2)
  BY <1>2, Zenon DEF Insert
<1>4. t \in Seq(Symbols) /\ p \in 1 .. Len(t) + 1 /\ p + remove <= Len(t) + 1
  BY <1>1, <1>2
<1>5. text' \in Seq(Symbols) /\ Len(text') = Len(t) + Len(s) - remove
  <2>1. PICK u : u = text'
    OBVIOUS
  <2>2. u = SubSeq(t, 1, p - 1) \o s \o SubSeq(t, p + remove, Len(t))
    BY <1>3, <2>1, Zenon
  <2>3. u \in Seq(Symbols) /\ Len(u) = Len(t) + Len(s) - remove
    BY <1>4, <2>2, InsertedText, ZenonT(60)
  <2> QED
    BY <2>1, <2>3, Zenon
<1>6. Len(text') >= p - 1 /\ Len(text') \in Nat /\ Len(s) \in Nat
  BY <1>4, <1>5
<1>7. size' \in Nat /\ size' # 0 /\ Len(text') <= size'
  <2>1. PICK n \in Nat : n = Len(text')
    BY <1>6
  <2>2. size' = IF size > n + 2 /\ n + 2 # 0 THEN size ELSE Len(t) + INI_DATA_EXPAND
    BY <1>3, <2>1, Zenon DEF Expand
  <2>3. n <= Len(t) + INI_DATA_EXPAND
    BY <1>1, <1>2, <1>5, <1>6, <2>1, cINIAssumption
  <2>4. INI_DATA_EXPAND \in Nat \ {0} /\ Len(t) \in Nat
    BY <1>1, <1>2, cINIAssumption
  <2> QED
    BY <1>1, <2>1, <2>2, <2>3, <2>4
<1>8. text' # <<>>
  BY <1>5, <1>6
<1> QED
  BY <1>5, <1>6, <1>7, <1>8 DEF Buffer

(* The line of a key                                                       *)
LEMMA KeyLineFacts ==
  ASSUME NEW k \in Keys, NEW v \in Values
  PROVE  /\ k \in Seq(Symbols) /\ v \in Seq(Symbols) /\ KeyLine(k, v) \in Seq(Symbols)
         /\ Len(KeyLine(k, v)) <= INI_DATA_EXPAND
         /\ Len(v) <= INI_DATA_EXPAND
         /\ Len(KeyLine(k, v)) \in Nat \ {0}
<1>1. k \in Seq(Symbols) /\ v \in Seq(Symbols) /\ INI_DATA_EXPAND \in Nat
      /\ Len(KeyLine(k, v)) <= INI_DATA_EXPAND
  BY cINIAssumption
<1> DEFINE a == <<SP, "=", SP>>
           b == <<NL>>
<1>2. a \in Seq(Symbols) /\ b \in Seq(Symbols) /\ Len(a) = 3 /\ Len(b) = 1
  BY DEF Symbols
<1>3. KeyLine(k, v) = k \o a \o v \o b
  BY Zenon DEF KeyLine
<1> HIDE DEF a, b
<1>4. k \o a \in Seq(Symbols) /\ Len(k \o a) = Len(k) + Len(a)
  BY <1>1, <1>2, ConcatFacts
<1>5. (k \o a) \o v \in Seq(Symbols) /\ Len((k \o a) \o v) = Len(k \o a) + Len(v)
  BY <1>1, <1>4, ConcatFacts
<1>6. /\ ((k \o a) \o v) \o b \in Seq(Symbols)
      /\ Len(((k \o a) \o v) \o b) = Len((k \o a) \o v) + Len(b)
  BY <1>2, <1>5, ConcatFacts
<1>7. KeyLine(k, v) \in Seq(Symbols) /\ Len(KeyLine(k, v)) = Len(k) + 3 + Len(v) + 1
  <2>1. KeyLine(k, v) \in Seq(Symbols) /\ Len(KeyLine(k, v)) = Len((k \o a) \o v) + Len(b)
    BY <1>3, <1>6, Zenon
  <2> QED
    BY <1>2, <1>4, <1>5, <2>1
<1>8. Len(k) \in Nat /\ Len(v) \in Nat
  BY <1>1
<1> QED
  BY <1>1, <1>7, <1>8

(* SetString in a section that is there                                    *)
LEMMA ModifyFacts ==
  ASSUME Buffer, NEW s \in Names, NEW k \in Keys, NEW v \in Values, Modify(s, k, v)
  PROVE  Buffer' /\ scan' \in 0 .. End' + 1
<1>0. TextOK /\ End \in Nat \ {0} /\ s \in Seq(Symbols)
  BY EndFacts, cINIAssumption DEF Buffer, TextOK
<1>1. /\ k \in Seq(Symbols) /\ v \in Seq(Symbols) /\ KeyLine(k, v) \in Seq(Symbols)
      /\ Len(KeyLine(k, v)) <= INI_DATA_EXPAND /\ Len(v) <= INI_DATA_EXPAND
  BY KeyLineFacts
<1>2. /\ Section(s) \in 1 .. End /\ ValueAt(s, k) \in Section(s) .. End
      /\ HasSection(s, 1) => Section(s) > 1
  BY <1>0, <1>1, ValueAtFacts
<1>3. HasSection(s, 1)
  BY Zenon DEF Modify, Stored
<1>4. ASSUME NEW p, NEW r, NEW w, p = scan', p \in 2 .. End, r \in Nat, p + r <= End,
             w \in Seq(Symbols), Len(w) <= INI_DATA_EXPAND, Insert(p, w, r)
      PROVE  Buffer' /\ scan' \in 0 .. End' + 1
  <2>1. Buffer' /\ p <= Len(text') + 1
    BY <1>4, InsertFacts
  <2>2. Len(text') \in Nat
    BY <2>1 DEF Buffer
  <2> QED
    BY <1>0, <1>4, <2>1, <2>2 DEF End
<1>5. CASE Stored(s, k)
  <2>1. PICK p : p = scan'
    OBVIOUS
  <2>2. p = ValueAt(s, k) /\ Insert(p, v, SizeValue(p, TRUE))
    BY <1>5, <2>1, Zenon DEF Modify
  <2>3. p \in 2 .. End
    BY <1>0, <1>2, <1>3, <2>2
  <2>4. PICK r : r = SizeValue(p, TRUE)
    OBVIOUS
  <2>5. r \in Nat /\ p + r <= End
    <3>1. p \in 1 .. End
      BY <2>3
    <3> QED
      BY <1>0, <2>4, <3>1, SizeValueFacts
  <2>6. Insert(p, v, r)
    BY <2>2, <2>4
  <2> QED
    BY <1>1, <1>4, <2>1, <2>3, <2>5, <2>6
<1>6. CASE ~Stored(s, k)
  <2>1. PICK p : p = scan'
    OBVIOUS
  <2>2. p = Section(s) /\ Insert(p, KeyLine(k, v), 0)
    BY <1>6, <2>1, Zenon DEF Modify
  <2>3. p \in 2 .. End /\ p + 0 <= End /\ 0 \in Nat
    BY <1>0, <1>2, <1>3, <2>2
  <2> QED
    BY <1>1, <1>4, <2>1, <2>2, <2>3
<1> QED
  BY <1>5, <1>6

(* SetString in a new section: two appends, and the second fits as well.   *)
LEMMA NewSectionFacts ==
  ASSUME Buffer, NEW s \in Names, NEW k \in Keys, NEW v \in Values, NewSection(s, k, v)
  PROVE  Buffer' /\ scan' \in 0 .. End' + 1
<1>0. text \in Seq(Symbols) /\ Len(text) \in Nat /\ s \in Seq(Symbols) /\ size \in Nat
      /\ End = Len(text) + 1
  BY cINIAssumption DEF Buffer, End
<1>1. /\ KeyLine(k, v) \in Seq(Symbols) /\ Len(KeyLine(k, v)) <= INI_DATA_EXPAND
      /\ Len(KeyLine(k, v)) \in Nat \ {0}
  BY KeyLineFacts
<1> DEFINE header == (IF size = 0 THEN <<>> ELSE <<NL>>) \o <<"[">> \o s \o <<"]", NL>>
<1>2. header \in Seq(Symbols)
  <2>1. PICK a : a = IF size = 0 THEN <<>> ELSE <<NL>>
    OBVIOUS
  <2>2. a \in Seq(Symbols) /\ <<"[">> \in Seq(Symbols) /\ <<"]", NL>> \in Seq(Symbols)
    <3>1. "[" \in Symbols /\ "]" \in Symbols /\ NL \in Symbols
      BY DEF Symbols
    <3>2. <<>> \in Seq(Symbols) /\ <<NL>> \in Seq(Symbols) /\ <<"[">> \in Seq(Symbols)
          /\ <<"]", NL>> \in Seq(Symbols)
      BY <3>1
    <3>3. a \in {<<>>, <<NL>>}
      BY <2>1
    <3> QED
      BY <3>2, <3>3
  <2>3. a \o <<"[">> \in Seq(Symbols)
    BY <2>2, ConcatFacts
  <2>4. (a \o <<"[">>) \o s \in Seq(Symbols)
    BY <1>0, <2>3, ConcatFacts
  <2>5. ((a \o <<"[">>) \o s) \o <<"]", NL>> \in Seq(Symbols)
    BY <2>2, <2>4, ConcatFacts
  <2> QED
    BY <2>1, <2>5
<1>3. PICK first : first = AppendSize(Len(text), size, header)
  OBVIOUS
<1>4. /\ text' = (text \o header) \o KeyLine(k, v)
      /\ size' = AppendSize(Len(text \o header), first, KeyLine(k, v))
      /\ scan' = IF size = 0 THEN 1 ELSE End
  BY <1>3, Zenon DEF NewSection
<1>5. first \in Nat
  <2>1. Len(header) \in Nat
    BY <1>2
  <2>2. PICK n \in Nat : n = Len(header)
    BY <2>1
  <2>3. first = Expand(Len(text), size, size + n + 2)
    BY <1>3, <2>2, Zenon DEF AppendSize
  <2> QED
    BY <1>0, <2>3, cINIAssumption DEF Expand
<1> HIDE DEF header
<1>6. text \o header \in Seq(Symbols) /\ Len(text \o header) = Len(text) + Len(header)
      /\ Len(header) \in Nat
  BY <1>0, <1>2, ConcatFacts
<1>7. /\ text' \in Seq(Symbols)
      /\ Len(text') = Len(text \o header) + Len(KeyLine(k, v))
  BY <1>1, <1>4, <1>6, ConcatFacts
<1>8. size' = Len(text \o header) + INI_DATA_EXPAND
  <2>1. PICK n \in Nat : n = Len(KeyLine(k, v))
    BY <1>1
  <2>2. size' = Expand(Len(text \o header), first, first + n + 2)
    BY <1>4, <2>1, Zenon DEF AppendSize
  <2>3. ~(first > first + n + 2)
    BY <1>5
  <2> QED
    BY <2>2, <2>3, Zenon DEF Expand
<1>9. PICK n : n = Len(text \o header)
  OBVIOUS
<1>10. n \in Nat /\ n >= Len(text)
  BY <1>0, <1>6, <1>9
<1>11. size' \in Nat /\ size' # 0 /\ Len(text') <= size' /\ Len(text') \in Nat
       /\ Len(text') > Len(text)
  BY <1>0, <1>1, <1>7, <1>8, <1>9, <1>10, cINIAssumption
<1>12. text' # <<>>
  BY <1>0, <1>7, <1>11
<1>13. Buffer'
  BY <1>7, <1>11, <1>12 DEF Buffer
<1>14. scan' \in 0 .. End' + 1
  BY <1>0, <1>4, <1>11 DEF End
<1> QED
  BY <1>13, <1>14

(* FILE_save writes the text, or it is known that it has not.              *)
LEMMA WriteFacts ==
  ASSUME disk \in [Files -> Seq(Symbols)], NEW f \in Files, NEW t \in Seq(Symbols), Write(f, t)
  PROVE  /\ disk' \in [Files -> Seq(Symbols)]
         /\ lost' \in BOOLEAN
         /\ lost' = TRUE \/ disk'[f] = t
<1>1. CASE disk' = [disk EXCEPT ![f] = t] /\ lost' = FALSE
  BY <1>1
<1>2. CASE (\E d \in {disk[f], <<>>} : disk' = [disk EXCEPT ![f] = d]) /\ lost' = TRUE
  <2>1. PICK d \in {disk[f], <<>>} : disk' = [disk EXCEPT ![f] = d]
    BY <1>2
  <2>2. d \in Seq(Symbols)
    <3>1. disk[f] \in Seq(Symbols) /\ <<>> \in Seq(Symbols)
      OBVIOUS
    <3> QED
      BY <3>1
  <2> QED
    BY <1>2, <2>1, <2>2
<1> QED
  BY <1>1, <1>2, Zenon DEF Write

(* An object without text                                                  *)
LEMMA EmptyBuffer ==
  /\ text = <<>> /\ size = 0 => Buffer
  /\ text = <<>> /\ scan = 0 => scan \in 0 .. End + 1
<1>1. <<>> \in Seq(Symbols) /\ Len(<<>>) = 0
  OBVIOUS
<1>2. ASSUME text = <<>>, size = 0 PROVE Buffer
  <2>1. text \in Seq(Symbols) /\ Len(text) = 0
    BY <1>1, <1>2, Zenon
  <2>2. size \in Nat /\ Len(text) <= size
    BY <1>2, <2>1
  <2> QED
    BY <1>2, <2>1, <2>2 DEF Buffer
<1>3. ASSUME text = <<>>, scan = 0 PROVE scan \in 0 .. End + 1
  <2>1. Len(text) = 0
    BY <1>1, <1>3, Zenon
  <2> QED
    BY <1>3, <2>1 DEF End
<1> QED
  BY <1>2, <1>3

(* The same after a step                                                   *)
LEMMA EmptyBufferNext ==
  /\ text' = <<>> /\ size' = 0 => Buffer'
  /\ text' = <<>> /\ scan' = 0 => scan' \in 0 .. End' + 1
<1>1. <<>> \in Seq(Symbols) /\ Len(<<>>) = 0
  OBVIOUS
<1>2. ASSUME text' = <<>>, size' = 0 PROVE Buffer'
  <2>1. text' \in Seq(Symbols) /\ Len(text') = 0
    BY <1>1, <1>2, Zenon
  <2>2. size' \in Nat /\ Len(text') <= size'
    BY <1>2, <2>1
  <2> QED
    BY <1>2, <2>1, <2>2 DEF Buffer
<1>3. ASSUME text' = <<>>, scan' = 0 PROVE scan' \in 0 .. End' + 1
  <2>1. Len(text') = 0
    BY <1>1, <1>3, Zenon
  <2> QED
    BY <1>3, <2>1 DEF End
<1> QED
  BY <1>2, <1>3

(* The caller begins with an empty name.                                   *)
LEMMA NoName == <<>> \in Seq(Symbols \cup {DUP})
OBVIOUS

(* The constructor establishes the invariant.                              *)
LEMMA InitINI == Init => INIInv
<1> SUFFICES ASSUME Init PROVE INIInv
  OBVIOUS
<1>1. Buffer
  BY EmptyBuffer DEF Init
<1>2. Held
  <2>1. PICK t \in Texts : disk = [f \in Files |-> IF f = "f" THEN t ELSE <<>>]
    BY DEF Init
  <2>2. t \in Seq(Symbols) /\ <<>> \in Seq(Symbols)
    BY cINIAssumption
  <2>3. disk \in [Files -> Seq(Symbols)]
    BY <2>1, <2>2
  <2>4. scan \in 0 .. End + 1
    BY EmptyBuffer DEF Init
  <2>5. name \in Seq(Symbols \cup {DUP}) /\ file \in Files \cup {""}
    BY NoName DEF Init
  <2> QED
    BY <2>3, <2>4, <2>5 DEF Held
<1> QED
  BY <1>1, <1>2 DEF Init, INIInv, Flags, NothingUnsaved

(* Open keeps it, although it leaves m_bChanged as it was.                 *)
LEMMA OpenINI ==
  ASSUME INIInv, NEW f \in Files, NEW b \in BOOLEAN, Open(f, b)
  PROVE  INIInv'
<1>1. disk[f] \in Seq(Symbols)
  BY DEF INIInv, Held
<1>2. Buffer'
  BY <1>1 DEF Open, Buffer
<1>3. Held'
  <2>1. Len(text') \in Nat
    BY <1>1 DEF Open
  <2>2. scan' \in 0 .. End' + 1
    BY <2>1 DEF Open, End
  <2> QED
    BY <2>2 DEF Open, INIInv, Held, loop
<1>4. Flags'
  BY DEF Open, INIInv, Flags, loop
<1>5. NothingUnsaved'
  BY DEF Open, NothingUnsaved
<1> QED
  BY <1>2, <1>3, <1>4, <1>5 DEF INIInv, Open

(* SetString keeps it: what it changes is saved at once or marked.         *)
LEMMA StringINI ==
  ASSUME INIInv, NEW s \in Names, NEW k \in Keys, NEW v \in Values, SetString(s, k, v)
  PROVE  INIInv'
<1>1. Buffer' /\ scan' \in 0 .. End' + 1
  BY ModifyFacts, NewSectionFacts DEF INIInv, SetString
<1>2. UNCHANGED <<file, secure, name, more>> /\ beyond' \in Beyond
  BY DEF SetString, loop
<1>3. /\ disk' \in [Files -> Seq(Symbols)]
      /\ Flags'
      /\ NothingUnsaved'
  <2>0. disk \in [Files -> Seq(Symbols)] /\ file \in Files \cup {""} /\ text' \in Seq(Symbols)
    BY <1>1 DEF INIInv, Held, Buffer
  <2>1. CASE file = "" /\ UNCHANGED <<disk, changed, lost>>
    BY <1>2, <2>0, <2>1 DEF NothingUnsaved, Flags, INIInv
  <2>2. CASE file # "" /\ secure /\ Write(file, text') /\ changed' = FALSE
    <3>1. disk' \in [Files -> Seq(Symbols)] /\ lost' \in BOOLEAN
          /\ (lost' = TRUE \/ disk'[file] = text')
      BY <2>0, <2>2, WriteFacts
    <3>2. Flags'
      BY <1>2, <2>2, <3>1 DEF INIInv, Flags
    <3> QED
      BY <1>2, <3>1, <3>2 DEF NothingUnsaved
  <2>3. CASE file # "" /\ ~secure /\ changed' = TRUE /\ UNCHANGED <<disk, lost>>
    BY <1>2, <2>0, <2>3 DEF NothingUnsaved, Flags, INIInv
  <2> QED
    BY <2>1, <2>2, <2>3, Zenon DEF SetString, Save
<1>4. Held'
  BY <1>1, <1>2, <1>3 DEF INIInv, Held
<1> QED
  BY <1>1, <1>2, <1>3, <1>4 DEF INIInv

(* The destructor keeps it.                                                *)
LEMMA CloseINI == INIInv /\ Close => INIInv'
<1> SUFFICES ASSUME INIInv, Close PROVE INIInv'
  OBVIOUS
<1>1. disk' \in [Files -> Seq(Symbols)] /\ lost' \in BOOLEAN
  <2>1. disk \in [Files -> Seq(Symbols)] /\ file \in Files /\ text \in Seq(Symbols)
    BY DEF INIInv, Held, Buffer, Close
  <2>2. CASE Write(file, text)
    BY <2>1, <2>2, WriteFacts
  <2>3. CASE UNCHANGED <<disk, lost>>
    BY <2>1, <2>3 DEF INIInv, Flags
  <2> QED
    BY <2>2, <2>3, Zenon DEF Close
<1>2. Buffer'
  BY EmptyBufferNext DEF Close
<1>3. Held'
  <2>1. scan' \in 0 .. End' + 1
    BY EmptyBufferNext DEF Close
  <2> QED
    BY <1>1, <2>1 DEF Close, INIInv, Held, loop
<1>4. Flags'
  BY <1>1 DEF Close, INIInv, Flags, loop
<1> QED
  BY <1>2, <1>3, <1>4 DEF INIInv, Close, NothingUnsaved

(* Whatever only moves m_psScan or the name of the caller keeps it.        *)
LEMMA ReadINI ==
  ASSUME INIInv, UNCHANGED <<file, text, size, secure, changed, disk, lost>>,
         scan' \in 0 .. End + 1, more' \in BOOLEAN, name' \in Seq(Symbols \cup {DUP}),
         beyond' \in Beyond \cup {""}
  PROVE  INIInv'
<1>1. End' = End
  BY DEF End
<1>2. Buffer'
  BY DEF INIInv, Buffer
<1>3. Held'
  BY <1>1 DEF INIInv, Held
<1>4. Flags'
  BY DEF INIInv, Flags
<1>5. NothingUnsaved'
  BY DEF INIInv, NothingUnsaved
<1> QED
  BY <1>2, <1>3, <1>4, <1>5 DEF INIInv

(* GetString keeps it.                                                     *)
LEMMA GetINI ==
  ASSUME INIInv, NEW s \in Names, NEW k \in Keys, Get(s, k)
  PROVE  INIInv'
<1>0. TextOK /\ End \in Nat \ {0} /\ s \in Seq(Symbols) /\ k \in Seq(Symbols)
  BY EndFacts, cINIAssumption DEF INIInv, Buffer, TextOK
<1>1. Section(s) \in 1 .. End /\ ValueAt(s, k) \in Section(s) .. End
  BY <1>0, ValueAtFacts
<1>2. scan' \in {scan, End, Section(s), ValueAt(s, k)}
  BY DEF Get
<1>3. scan \in 0 .. End + 1
  BY DEF INIInv, Held
<1>4. scan' \in 0 .. End + 1
  BY ONLY <1>0, <1>1, <1>2, <1>3
<1>5. UNCHANGED <<file, text, size, secure, changed, disk, lost, more, name, beyond>>
  BY DEF Get, data, loop
<1>6. more \in BOOLEAN /\ name \in Seq(Symbols \cup {DUP}) /\ beyond \in Beyond \cup {""}
  BY DEF INIInv, Held, Flags
<1> QED
  BY <1>4, <1>5, <1>6, ReadINI

(* The beginning of a loop keeps it.                                       *)
LEMMA StartLoopINI == INIInv /\ StartLoop => INIInv'
<1> SUFFICES ASSUME INIInv, StartLoop PROVE INIInv'
  OBVIOUS
<1>1. UNCHANGED <<file, text, size, secure, changed, disk, lost, scan, beyond>>
      /\ more' = TRUE /\ name' = <<>>
  BY DEF StartLoop, data
<1>2. scan' \in 0 .. End + 1 /\ beyond' \in Beyond \cup {""} /\ <<>> \in Seq(Symbols \cup {DUP})
  <2>1. End' = End
    BY <1>1 DEF End
  <2>2. scan \in 0 .. End + 1
    BY DEF INIInv, Held
  <2>3. beyond \in Beyond \cup {""}
    BY DEF INIInv
  <2> QED
    BY <1>1, <2>1, <2>2, <2>3, NoName
<1> QED
  BY <1>1, <1>2, ReadINI

(* EnumKey keeps it.                                                       *)
LEMMA EnumKeyINI ==
  ASSUME INIInv, NEW s \in Names, NEW k \in Keys \cup {<<>>}, EnumKey(s, k)
  PROVE  INIInv'
<1>0. TextOK /\ End \in Nat \ {0} /\ Len(text) \in Nat /\ End = Len(text) + 1
  BY EndFacts DEF INIInv, Buffer, TextOK
<1>1. s \in Seq(Symbols) /\ k \in Seq(Symbols)
  <2>1. <<>> \in Seq(Symbols)
    OBVIOUS
  <2> QED
    BY <2>1, cINIAssumption
<1>2. Section(s) \in 1 .. End
  BY <1>0, <1>1, ValueAtFacts
<1>3. KeyFrom(s, k) \in 1 .. End
  <2>1. PICK p : p = Section(s)
    OBVIOUS
  <2>2. PICK q : q = FindKey(k, p)
    OBVIOUS
  <2>3. p \in 1 .. End
    BY <1>2, <2>1
  <2>4. q \in 1 .. End
    BY <1>0, <1>1, <2>2, <2>3, FindKeyFacts
  <2>5. ToNextLine(q) \in q .. End
    BY <1>0, <2>4, NextLineFacts
  <2>6. KeyFrom(s, k) \in {p, ToNextLine(q)}
    BY <2>1, <2>2 DEF KeyFrom
  <2> QED
    BY <1>0, <2>3, <2>4, <2>5, <2>6
<1>4. PICK heads : heads = KeyHeads(s, k)
  OBVIOUS
<1>5. scan' = IF heads = {} THEN End
              ELSE IF text[Min(heads)] = "[" THEN Min(heads)
              ELSE Min({KeyEnd(Min(heads)), Min(heads) + DestSize - 1})
  BY <1>4, Zenon DEF EnumKey
<1>6. scan' \in 0 .. End + 1
  <2>1. CASE heads = {}
    BY <1>0, <1>5, <2>1
  <2>2. CASE heads # {}
    <3>1. heads \subseteq KeyFrom(s, k) .. Len(text)
      BY <1>4 DEF KeyHeads, LinesFrom
    <3>2. heads \subseteq 1 .. Len(text)
      BY <1>0, <1>3, <3>1
    <3>3. PICK h : h = Min(heads)
      OBVIOUS
    <3>4. h \in 1 .. Len(text)
      <4>1. heads \subseteq Nat
        BY <3>2
      <4> QED
        BY <2>2, <3>2, <3>3, <4>1, MinFacts
    <3>5. SizeValue(h, FALSE) \in Nat /\ h + SizeValue(h, FALSE) <= End
      <4>1. h \in 1 .. End
        BY <1>0, <3>4
      <4> QED
        BY <1>0, <4>1, SizeValueFacts
    <3>6. KeyEnd(h) \in 1 .. End
      <4>1. PICK n : n = SizeValue(h, FALSE)
        OBVIOUS
      <4>2. KeyEnd(h) = h + n
        BY <4>1, Zenon DEF KeyEnd
      <4>3. n \in Nat /\ h + n <= End
        BY <3>5, <4>1, Zenon
      <4> QED
        BY <1>0, <3>4, <4>2, <4>3
    <3> DEFINE both == {KeyEnd(h), h + DestSize - 1}
    <3>7. h + DestSize - 1 \in Nat
      BY <3>4, cINIAssumption
    <3>8. both \subseteq Nat /\ KeyEnd(h) \in both
      BY <3>6, <3>7
    <3> HIDE DEF both
    <3>9. Min(both) \in Nat /\ Min(both) <= KeyEnd(h)
      BY <3>8, MinFacts
    <3>10. scan' = h \/ scan' = Min(both)
      BY <1>5, <2>2, <3>3 DEF both
    <3> QED
      BY <1>0, <3>4, <3>6, <3>9, <3>10
  <2> QED
    BY <2>1, <2>2
<1>7. UNCHANGED <<file, text, size, secure, changed, disk, lost, more, name, beyond>>
  BY DEF EnumKey, data, loop
<1>8. more \in BOOLEAN /\ name \in Seq(Symbols \cup {DUP}) /\ beyond \in Beyond \cup {""}
  BY DEF INIInv, Held, Flags
<1> QED
  BY <1>6, <1>7, <1>8, ReadINI

(* Where EnumSection sees the end of a name: at most one behind the end of *)
(* the text.                                                               *)
LEMMA NameEndFacts ==
  ASSUME TextOK, NEW q \in 1 .. End
  PROVE  NameEnd(q) \in q + 1 .. End + 1 /\ (q < End => NameEnd(q) <= End)
<1>1. End \in Nat \ {0}
  BY EndFacts
<1> DEFINE S == {r \in q + 1 .. End + 1 : IsEOL(r) \/ text[r] = "]"}
<1>2. S \subseteq Nat /\ End + 1 \in S /\ (q < End => End \in S)
  BY <1>1 DEF IsEOL
<1>3. Min(S) \in S /\ \A x \in S : Min(S) <= x
  BY <1>2, MinFacts
<1>4. NameEnd(q) = Min(S)
  BY DEF NameEnd
<1> HIDE DEF S
<1>5. Min(S) \in q + 1 .. End + 1
  BY <1>3 DEF S
<1> QED
  BY <1>1, <1>2, <1>3, <1>4, <1>5

(* Where it sees the next header                                           *)
LEMMA HeadFacts ==
  ASSUME TextOK, NEW p \in 1 .. End, Heads(p) # {}
  PROVE  Min(Heads(p)) \in p .. End
<1>1. End \in Nat \ {0} /\ End = Len(text) + 1 /\ Len(text) \in Nat
  BY EndFacts
<1>2. Heads(p) \subseteq p .. End
  BY <1>1 DEF Heads, LinesFrom
<1>3. Heads(p) \subseteq Nat
  BY <1>1, <1>2
<1> QED
  BY <1>2, <1>3, MinFacts

(* What is between them is a name.                                         *)
LEMMA SubSeqFacts ==
  ASSUME TextOK, NEW q \in 1 .. End, NEW e \in q + 1 .. End + 1, q < End => e <= End
  PROVE  SubSeq(text, q + 1, e - 1) \in Seq(Symbols)
<1>1. End \in Nat \ {0} /\ End = Len(text) + 1 /\ Len(text) \in Nat /\ text \in Seq(Symbols)
  BY EndFacts DEF TextOK
<1>2. \A n \in q + 1 .. e - 1 : text[n] \in Symbols
  BY <1>1
<1>3. q + 1 \in Int /\ e - 1 \in Int
  BY <1>1
<1> QED
  BY <1>1, <1>2, <1>3

(* What it does with the name                                              *)
LEMMA ThisNameFacts ==
  ASSUME TextOK, NEW dest \in Seq(Symbols), NEW end \in 1 .. End + 1, ThisName(dest, end)
  PROVE  /\ more' \in BOOLEAN /\ name' \in Seq(Symbols \cup {DUP})
         /\ scan' \in 0 .. End + 1
<1>1. End \in Nat \ {0}
  BY EndFacts
<1>2. dest \in Seq(Symbols \cup {DUP}) /\ end \in Nat \ {0}
  BY <1>1
<1>3. <<DUP>> \o dest \in Seq(Symbols \cup {DUP})
  <2>1. <<DUP>> \in Seq(Symbols \cup {DUP})
    OBVIOUS
  <2> QED
    BY <1>2, <2>1, ConcatFacts
<1>4. FindSection(dest, end) \in 1 .. End
  BY <1>2, FindSectionFacts
<1>5. more' \in BOOLEAN /\ name' \in {<<DUP>> \o dest, dest}
      /\ scan' \in {FindSection(dest, end), End, end}
  BY DEF ThisName
<1>6. scan' \in 0 .. End + 1
  BY <1>1, <1>4, <1>5
<1>7. name' \in Seq(Symbols \cup {DUP})
  BY <1>2, <1>3, <1>5, Zenon
<1> QED
  BY <1>5, <1>6, <1>7

(* EnumSection keeps it, also when it reads what is behind the text.       *)
LEMMA EnumSectionINI == INIInv /\ EnumSection => INIInv'
<1> SUFFICES ASSUME INIInv, EnumSection PROVE INIInv'
  OBVIOUS
<1>0. TextOK /\ End \in Nat \ {0}
  BY EndFacts DEF INIInv, Buffer, TextOK
<1>1. UNCHANGED <<file, text, size, secure, changed, disk, lost>> /\ beyond' \in Beyond
  BY DEF EnumSection, data
<1>2. name \in Seq(Symbols \cup {DUP}) /\ more = TRUE
  BY DEF INIInv, Held, EnumSection
<1> DEFINE Goal == more' \in BOOLEAN /\ name' \in Seq(Symbols \cup {DUP}) /\ scan' \in 0 .. End + 1
<1>3. CASE more' = FALSE /\ scan' = End /\ UNCHANGED <<name, listed>>
  <2>1. Goal
    <3>1. scan' \in 0 .. End + 1
      BY <1>0, <1>3
    <3>2. name' \in Seq(Symbols \cup {DUP}) /\ more' \in BOOLEAN
      BY <1>2, <1>3
    <3> QED
      BY <3>1, <3>2
  <2> QED
    BY <1>1, <2>1, ReadINI
<1>4. CASE Heads(Resume) # {} /\
           LET head == Min(Heads(Resume))
               end  == NameEnd(head)
           IN  \/ /\ end - head - 1 >= DestSize - 1
                  /\ more' = FALSE
                  /\ scan' = end
                  /\ UNCHANGED <<name, listed>>
               \/ /\ end - head - 1 < DestSize - 1
                  /\ ThisName(SubSeq(text, head + 1, end - 1), end)
  <2>1. PICK p : p = Resume
    OBVIOUS
  <2>2. p \in 1 .. End
    <3>1. FindSection(name, 1) \in 1 .. End
      <4>1. 1 \in Nat \ {0}
        OBVIOUS
      <4> QED
        BY <1>0, <1>2, <4>1, FindSectionFacts
    <3> QED
      BY <1>0, <2>1, <3>1 DEF Resume, Section
  <2>3. PICK head : head = Min(Heads(p))
    OBVIOUS
  <2>4. head \in 1 .. End
    <3>1. head \in p .. End
      BY <1>0, <1>4, <2>1, <2>2, <2>3, HeadFacts
    <3> QED
      BY <2>2, <3>1
  <2>5. PICK end : end = NameEnd(head)
    OBVIOUS
  <2>6. end \in head + 1 .. End + 1 /\ (head < End => end <= End)
    BY <1>0, <2>4, <2>5, NameEndFacts
  <2>7. end \in 1 .. End + 1
    BY <2>4, <2>6
  <2>8. \/ more' = FALSE /\ scan' = end /\ UNCHANGED <<name, listed>>
        \/ ThisName(SubSeq(text, head + 1, end - 1), end)
    BY <1>4, <2>1, <2>3, <2>5, Zenon
  <2>9. Goal
    <3>1. CASE more' = FALSE /\ scan' = end /\ UNCHANGED <<name, listed>>
      <4>1. scan' \in 0 .. End + 1
        BY <1>0, <2>7, <3>1
      <4>2. name' \in Seq(Symbols \cup {DUP}) /\ more' \in BOOLEAN
        BY <1>2, <3>1
      <4> QED
        BY <4>1, <4>2
    <3>2. CASE ThisName(SubSeq(text, head + 1, end - 1), end)
      <4>1. PICK dest : dest = SubSeq(text, head + 1, end - 1)
        OBVIOUS
      <4>2. dest \in Seq(Symbols)
        BY <1>0, <2>4, <2>6, <4>1, SubSeqFacts
      <4> QED
        BY <1>0, <2>7, <3>2, <4>1, <4>2, ThisNameFacts
    <3> QED
      BY <2>8, <3>1, <3>2
  <2> QED
    BY <1>1, <2>9, ReadINI
<1> QED
  BY <1>3, <1>4, Zenon DEF EnumSection

(* Every step keeps it.                                                    *)
LEMMA NextINI == INIInv /\ [Next]_vars => INIInv'
<1> SUFFICES ASSUME INIInv, [Next]_vars PROVE INIInv'
  OBVIOUS
<1>1. CASE \E f \in Files, b \in BOOLEAN : Open(f, b)
  BY <1>1, OpenINI
<1>2. CASE \E s \in Names, k \in Keys : Get(s, k)
  BY <1>2, GetINI
<1>3. CASE \E s \in Names, k \in Keys \cup {<<>>} : EnumKey(s, k)
  BY <1>3, EnumKeyINI
<1>4. CASE \E s \in Names, k \in Keys, v \in Values : SetString(s, k, v)
  BY <1>4, StringINI
<1>5. CASE StartLoop
  BY <1>5, StartLoopINI
<1>6. CASE EnumSection
  BY <1>6, EnumSectionINI
<1>7. CASE Close
  BY <1>7, CloseINI
<1>8. CASE UNCHANGED vars
  <2>1. UNCHANGED <<file, text, size, secure, changed, disk, lost, more, name, beyond, scan>>
    BY <1>8 DEF vars, data, loop
  <2>2. more \in BOOLEAN /\ name \in Seq(Symbols \cup {DUP}) /\ beyond \in Beyond \cup {""}
        /\ scan \in 0 .. End + 1
    BY DEF INIInv, Held, Flags
  <2> QED
    BY <2>1, <2>2, ReadINI
<1> QED
  BY <1>1, <1>2, <1>3, <1>4, <1>5, <1>6, <1>7, <1>8, Zenon DEF Next

(* The invariant holds in every state, for files of any length and any     *)
(* content.                                                                *)
THEOREM INIInvariant == Spec => []INIInv
BY InitINI, NextINI, PTL DEF Spec

(* The state of the object is that of a cINI, m_psScan at most one behind  *)
(* the end.                                                                *)
THEOREM INITypeCorrect == Spec => []TypeOK
<1>1. INIInv => TypeOK
  BY DEF INIInv, Buffer, Held, Flags, TypeOK
<1> QED
  BY <1>1, INIInvariant, PTL

(* The text never outgrows the buffer, although Data_Expand does not look  *)
(* at the size it is asked for (Data_Insert, Data_Append): no line is      *)
(* longer than INI_DATA_EXPAND.                                            *)
THEOREM TextFitsBuffer == Spec => []DataFits
<1>1. INIInv => DataFits
  BY DEF INIInv, Buffer, DataFits
<1> QED
  BY <1>1, INIInvariant, PTL

(* As long as m_bChanged is not set and the last FILE_save did not fail,   *)
(* the file holds what the buffer holds (Data_Save, Open, the destructor). *)
THEOREM NothingIsUnsaved == Spec => []NothingUnsaved
<1>1. INIInv => NothingUnsaved
  BY DEF INIInv
<1> QED
  BY <1>1, INIInvariant, PTL
-----------------------------------------------------------------------------
(* What GetString finds, in terms of the lines of a text: nothing here     *)
(* depends on the object.                                                  *)

(* Where lines begin                                                       *)
Lines(t) == {p \in 1 .. Len(t) : p = 1 \/ (t[p - 1] = NL /\ t[p] # NL)}

(* The text goes on with s at p.                                           *)
Reads(t, p, s) ==
  /\ p + Len(s) <= Len(t) + 1
  /\ \A j \in 1 .. Len(s) : t[p + j - 1] = s[j]

(* The line at p is the header of section s,                               *)
HeaderAt(t, p, s) ==
  /\ t[p] = "[" /\ Reads(t, p + 1, s)
  /\ p + 1 + Len(s) <= Len(t) /\ t[p + 1 + Len(s)] = "]"

(* that of key k,                                                          *)
KeyAt(t, p, k) ==
  /\ Reads(t, p, k)
  /\ p + Len(k) <= Len(t) => t[p + Len(k)] \in {NL, SP}

(* and the first word of its value, from the end of the key on, is w,     *)
(* which begins at v.                                                      *)
WordFrom(t, c, v, w) ==
  \E e \in v .. Len(t) + 1 :
    /\ \A q \in c .. v - 1 : t[q] \in {SP, "="}
    /\ v <= Len(t) => t[v] \notin {SP, "="}
    /\ \A q \in v .. e - 1 : t[q] \notin {SP, NL}
    /\ e <= Len(t) => t[e] \in {SP, NL}
    /\ w = SubSeq(t, v, e - 1)

WordAt(t, c, w) == \E v \in c .. Len(t) + 1 : WordFrom(t, c, v, w)

(* The first header of section s                                           *)
FirstHeader(t, s, h) ==
  /\ h \in Lines(t) /\ HeaderAt(t, h, s)
  /\ \A q \in Lines(t) : q < h => ~HeaderAt(t, q, s)

(* The first line of key k behind header h and before the next             *)
FirstKey(t, h, k, p) ==
  /\ p \in Lines(t) /\ h < p /\ KeyAt(t, p, k)
  /\ \A q \in Lines(t) : h < q /\ q <= p => t[q] # "["
  /\ \A q \in Lines(t) : h < q /\ q < p => ~KeyAt(t, q, k)

(* The line GetString reads                                                *)
Entry(t, s, k, p) == \E h \in Lines(t) : FirstHeader(t, s, h) /\ FirstKey(t, h, k, p)

(* What it returns                                                         *)
Found(t, s, k, w) ==
  \/ \E p \in Lines(t) : Entry(t, s, k, p) /\ WordAt(t, p + Len(k), w)
  \/ w = <<>> /\ \A p \in Lines(t) : ~Entry(t, s, k, p)

(* Names and keys are made of letters, and values are one line that begins *)
(* with neither a space nor "=": what else they are, the text cannot say.  *)
PlainNames ==
  /\ NL \notin {"[", "]", "=", SP} \cup Letters
  /\ SP \notin {"[", "]", "="} \cup Letters
  /\ Letters \cap {"[", "]", "="} = {}
  /\ Names \subseteq Seq(Letters) \ {<<>>} /\ Keys \subseteq Seq(Letters) \ {<<>>}
  /\ \A v \in Values : /\ v # <<>> /\ v[1] \notin {SP, "="}
                       /\ \A j \in 1 .. Len(v) : v[j] # NL

(* A name has letters only.                                                *)
LEMMA NameFacts ==
  ASSUME PlainNames, NEW s \in Names \cup Keys
  PROVE  /\ Len(s) \in Nat /\ Len(s) >= 1 /\ s \in Seq(Letters)
         /\ \A j \in 1 .. Len(s) : s[j] \in Letters /\ s[j] \notin {"[", "]", "=", SP, NL}
<1>1. s \in Seq(Letters) /\ s # <<>>
  BY DEF PlainNames
<1>2. Len(s) \in Nat /\ \A j \in 1 .. Len(s) : s[j] \in Letters
  BY <1>1
<1>3. Len(s) # 0
  BY <1>1
<1> QED
  BY <1>1, <1>2, <1>3 DEF PlainNames

(* The lines of a text are positions in it.                                *)
LEMMA LineFacts ==
  ASSUME NEW t, Len(t) \in Nat, NEW p \in Lines(t)
  PROVE  p \in Nat /\ p \in 1 .. Len(t) /\ (p # 1 => t[p - 1] = NL /\ t[p] # NL)
BY DEF Lines

(* No line is the header of two sections,                                  *)
LEMMA OneHeader ==
  ASSUME PlainNames, NEW t \in Seq(Symbols), NEW p \in Lines(t), NEW s \in Names, NEW r \in Names,
         HeaderAt(t, p, s), HeaderAt(t, p, r)
  PROVE  s = r
<1>1. Len(t) \in Nat /\ p \in Nat
  BY LineFacts
<1>2. /\ Len(s) \in Nat /\ \A j \in 1 .. Len(s) : s[j] # "]"
      /\ Len(r) \in Nat /\ \A j \in 1 .. Len(r) : r[j] # "]"
      /\ s \in Seq(Letters) /\ r \in Seq(Letters)
  BY NameFacts
<1>3. /\ \A j \in 1 .. Len(s) : t[p + 1 + j - 1] = s[j]
      /\ \A j \in 1 .. Len(r) : t[p + 1 + j - 1] = r[j]
      /\ t[p + 1 + Len(s)] = "]" /\ t[p + 1 + Len(r)] = "]"
  BY DEF HeaderAt, Reads
<1>4. ~(Len(s) < Len(r))
  <2>1. SUFFICES ASSUME Len(s) < Len(r) PROVE FALSE
    OBVIOUS
  <2>2. Len(s) + 1 \in 1 .. Len(r) /\ p + 1 + (Len(s) + 1) - 1 = p + 1 + Len(s)
    BY <1>1, <1>2, <2>1
  <2>3. t[p + 1 + Len(s)] = r[Len(s) + 1]
    BY <1>3, <2>2
  <2> QED
    BY <1>2, <1>3, <2>2, <2>3
<1>5. ~(Len(r) < Len(s))
  <2>1. SUFFICES ASSUME Len(r) < Len(s) PROVE FALSE
    OBVIOUS
  <2>2. Len(r) + 1 \in 1 .. Len(s) /\ p + 1 + (Len(r) + 1) - 1 = p + 1 + Len(r)
    BY <1>1, <1>2, <2>1
  <2>3. t[p + 1 + Len(r)] = s[Len(r) + 1]
    BY <1>3, <2>2
  <2> QED
    BY <1>2, <1>3, <2>2, <2>3
<1>6. Len(s) = Len(r)
  BY <1>2, <1>4, <1>5
<1>7. \A j \in 1 .. Len(s) : s[j] = r[j]
  BY <1>3, <1>6
<1> QED
  BY <1>2, <1>6, <1>7

(* or that of two keys,                                                    *)
LEMMA OneKey ==
  ASSUME PlainNames, NEW t \in Seq(Symbols), NEW p \in Lines(t), NEW k \in Keys, NEW r \in Keys,
         KeyAt(t, p, k), KeyAt(t, p, r)
  PROVE  k = r
<1>1. Len(t) \in Nat /\ p \in Nat
  BY LineFacts
<1>2. /\ Len(k) \in Nat /\ \A j \in 1 .. Len(k) : k[j] \notin {NL, SP}
      /\ Len(r) \in Nat /\ \A j \in 1 .. Len(r) : r[j] \notin {NL, SP}
      /\ k \in Seq(Letters) /\ r \in Seq(Letters)
  BY NameFacts
<1>3. /\ \A j \in 1 .. Len(k) : t[p + j - 1] = k[j]
      /\ \A j \in 1 .. Len(r) : t[p + j - 1] = r[j]
      /\ p + Len(k) <= Len(t) => t[p + Len(k)] \in {NL, SP}
      /\ p + Len(r) <= Len(t) => t[p + Len(r)] \in {NL, SP}
      /\ p + Len(k) <= Len(t) + 1 /\ p + Len(r) <= Len(t) + 1
  BY DEF KeyAt, Reads
<1>4. ~(Len(k) < Len(r))
  <2>1. SUFFICES ASSUME Len(k) < Len(r) PROVE FALSE
    OBVIOUS
  <2>2. /\ Len(k) + 1 \in 1 .. Len(r) /\ p + (Len(k) + 1) - 1 = p + Len(k)
        /\ p + Len(k) <= Len(t)
    BY <1>1, <1>2, <1>3, <2>1
  <2>3. t[p + Len(k)] = r[Len(k) + 1]
    BY <1>3, <2>2
  <2> QED
    BY <1>2, <1>3, <2>2, <2>3
<1>5. ~(Len(r) < Len(k))
  <2>1. SUFFICES ASSUME Len(r) < Len(k) PROVE FALSE
    OBVIOUS
  <2>2. /\ Len(r) + 1 \in 1 .. Len(k) /\ p + (Len(r) + 1) - 1 = p + Len(r)
        /\ p + Len(r) <= Len(t)
    BY <1>1, <1>2, <1>3, <2>1
  <2>3. t[p + Len(r)] = k[Len(r) + 1]
    BY <1>3, <2>2
  <2> QED
    BY <1>2, <1>3, <2>2, <2>3
<1>6. Len(k) = Len(r)
  BY <1>2, <1>4, <1>5
<1>7. \A j \in 1 .. Len(k) : k[j] = r[j]
  BY <1>3, <1>6
<1> QED
  BY <1>2, <1>6, <1>7

(* or of a section and of a key.                                           *)
LEMMA KeyIsNoHeader ==
  ASSUME PlainNames, NEW t \in Seq(Symbols), NEW p \in Lines(t), NEW k \in Keys, KeyAt(t, p, k)
  PROVE  t[p] # "[" /\ t[p] # NL
<1>1. Len(t) \in Nat /\ p \in Nat
  BY LineFacts
<1>2. 1 \in 1 .. Len(k) /\ \A j \in 1 .. Len(k) : k[j] \notin {"[", "]", "=", SP, NL}
  BY NameFacts
<1>3. t[p + 1 - 1] = k[1]
  BY <1>2 DEF KeyAt, Reads
<1> QED
  BY <1>1, <1>2, <1>3

(* A line has one first word of a value only,                              *)
LEMMA OneWord ==
  ASSUME PlainNames, NEW t \in Seq(Symbols), NEW c \in Nat, NEW w, NEW x,
         WordAt(t, c, w), WordAt(t, c, x)
  PROVE  w = x
<1>1. Len(t) \in Nat
  OBVIOUS
<1>2. PICK v \in c .. Len(t) + 1 : WordFrom(t, c, v, w)
  BY DEF WordAt
<1>3. PICK e \in v .. Len(t) + 1 :
        /\ \A q \in c .. v - 1 : t[q] \in {SP, "="}
        /\ v <= Len(t) => t[v] \notin {SP, "="}
        /\ \A q \in v .. e - 1 : t[q] \notin {SP, NL}
        /\ e <= Len(t) => t[e] \in {SP, NL}
        /\ w = SubSeq(t, v, e - 1)
  BY <1>2 DEF WordFrom
<1>4. PICK y \in c .. Len(t) + 1 : WordFrom(t, c, y, x)
  BY DEF WordAt
<1>5. PICK z \in y .. Len(t) + 1 :
        /\ \A q \in c .. y - 1 : t[q] \in {SP, "="}
        /\ y <= Len(t) => t[y] \notin {SP, "="}
        /\ \A q \in y .. z - 1 : t[q] \notin {SP, NL}
        /\ z <= Len(t) => t[z] \in {SP, NL}
        /\ x = SubSeq(t, y, z - 1)
  BY <1>4 DEF WordFrom
<1>6. v = y
  BY <1>1, <1>3, <1>5
<1>7. e = z
  BY <1>1, <1>3, <1>5, <1>6
<1> QED
  BY <1>3, <1>5, <1>6, <1>7

(* a section and a key have one line only,                                 *)
LEMMA OneEntry ==
  ASSUME NEW t \in Seq(Symbols), NEW s, NEW k, NEW p \in Lines(t), NEW q \in Lines(t),
         Entry(t, s, k, p), Entry(t, s, k, q)
  PROVE  p = q
<1>1. \A r \in Lines(t) : r \in Nat
  BY LineFacts
<1>2. PICK h \in Lines(t) : FirstHeader(t, s, h) /\ FirstKey(t, h, k, p)
  BY DEF Entry
<1>3. PICK g \in Lines(t) : FirstHeader(t, s, g) /\ FirstKey(t, g, k, q)
  BY DEF Entry
<1>4. h = g
  <2>1. ~(h < g) /\ ~(g < h)
    BY <1>2, <1>3 DEF FirstHeader
  <2> QED
    BY <1>1, <2>1
<1>5. ~(p < q) /\ ~(q < p)
  BY <1>2, <1>3, <1>4 DEF FirstKey
<1> QED
  BY <1>1, <1>5

(* so that what is found is determined.                                    *)
LEMMA OneFound ==
  ASSUME PlainNames, NEW t \in Seq(Symbols), NEW s \in Names, NEW k \in Keys, NEW w, NEW x,
         Found(t, s, k, w), Found(t, s, k, x)
  PROVE  w = x
<1>1. CASE \E p \in Lines(t) : Entry(t, s, k, p)
  <2>1. PICK p \in Lines(t) : Entry(t, s, k, p) /\ WordAt(t, p + Len(k), w)
    BY <1>1 DEF Found
  <2>2. PICK q \in Lines(t) : Entry(t, s, k, q) /\ WordAt(t, q + Len(k), x)
    BY <1>1 DEF Found
  <2>3. p = q
    BY <2>1, <2>2, OneEntry
  <2>4. p + Len(k) \in Nat
    BY LineFacts, NameFacts
  <2> QED
    BY <2>1, <2>2, <2>3, <2>4, OneWord
<1>2. CASE \A p \in Lines(t) : ~Entry(t, s, k, p)
  BY <1>2 DEF Found
<1> QED
  BY <1>1, <1>2

(* A line of t that begins at q and one of u that begins at r are the same *)
SameLine(t, q, u, r) ==
  \E n \in Nat :
    /\ q + n <= Len(t) + 1 /\ r + n <= Len(u) + 1
    /\ \A i \in 0 .. n - 1 : t[q + i] = u[r + i] /\ t[q + i] # NL
    /\ q + n <= Len(t) => t[q + n] = NL
    /\ r + n <= Len(u) => u[r + n] = NL

LEMMA SameLineBack ==
  ASSUME NEW t, NEW u, NEW q, NEW r, SameLine(t, q, u, r)
  PROVE  SameLine(u, r, t, q)
<1>1. PICK n \in Nat :
        /\ q + n <= Len(t) + 1 /\ r + n <= Len(u) + 1
        /\ \A i \in 0 .. n - 1 : t[q + i] = u[r + i] /\ t[q + i] # NL
        /\ q + n <= Len(t) => t[q + n] = NL
        /\ r + n <= Len(u) => u[r + n] = NL
  BY DEF SameLine
<1>2. \A i \in 0 .. n - 1 : u[r + i] = t[q + i] /\ u[r + i] # NL
  BY <1>1
<1> QED
  BY <1>1, <1>2 DEF SameLine

(* Then both are the header of a section, or neither is,                   *)
LEMMA SameHeader ==
  ASSUME PlainNames, NEW t \in Seq(Symbols), NEW u \in Seq(Symbols), NEW q \in Nat, NEW r \in Nat,
         SameLine(t, q, u, r), NEW s \in Names, HeaderAt(t, q, s)
  PROVE  HeaderAt(u, r, s)
<1>1. PICK a \in Nat, b \in Nat : a = Len(t) /\ b = Len(u)
  OBVIOUS
<1>2. PICK n \in Nat :
        /\ q + n <= a + 1 /\ r + n <= b + 1
        /\ \A i \in 0 .. n - 1 : t[q + i] = u[r + i] /\ t[q + i] # NL
        /\ q + n <= a => t[q + n] = NL
        /\ r + n <= b => u[r + n] = NL
  BY <1>1 DEF SameLine
<1>3. PICK m \in Nat : m = Len(s)
  BY NameFacts
<1>4. \A j \in 1 .. m : s[j] # NL
  BY <1>3, NameFacts
<1>5. /\ t[q] = "[" /\ \A j \in 1 .. m : t[q + 1 + j - 1] = s[j]
      /\ q + 1 + m <= a /\ t[q + 1 + m] = "]"
  BY <1>1, <1>3 DEF HeaderAt, Reads
<1>6. NL \notin {"[", "]"}
  BY DEF PlainNames
<1>7. n >= m + 2
  <2>1. SUFFICES ASSUME n < m + 2 PROVE FALSE
    OBVIOUS
  <2>2. q + n <= a /\ t[q + n] = NL
    BY <1>2, <1>5, <2>1
  <2>3. n # 0 /\ n # m + 1
    <3>1. q + 0 = q /\ q + (m + 1) = q + 1 + m
      OBVIOUS
    <3> QED
      BY <1>5, <1>6, <2>2, <3>1
  <2>4. n \in 1 .. m /\ q + 1 + n - 1 = q + n
    BY <2>1, <2>3
  <2> QED
    BY <1>4, <1>5, <2>2, <2>4
<1>8. u[r] = "["
  <2>1. 0 \in 0 .. n - 1 /\ q + 0 = q /\ r + 0 = r
    BY <1>7
  <2> QED
    BY <1>2, <1>5, <2>1
<1>9. \A j \in 1 .. m : u[r + 1 + j - 1] = s[j]
  <2> TAKE j \in 1 .. m
  <2>1. j \in 0 .. n - 1 /\ q + 1 + j - 1 = q + j /\ r + 1 + j - 1 = r + j
    BY <1>7
  <2> QED
    BY <1>2, <1>5, <2>1
<1>10. u[r + 1 + m] = "]"
  <2>1. m + 1 \in 0 .. n - 1 /\ q + (m + 1) = q + 1 + m /\ r + (m + 1) = r + 1 + m
    BY <1>7
  <2> QED
    BY <1>2, <1>5, <2>1
<1>11. r + 1 + m <= b
  BY <1>2, <1>7
<1> QED
  BY <1>1, <1>3, <1>8, <1>9, <1>10, <1>11 DEF HeaderAt, Reads

(* begin with a bracket,                                                   *)
LEMMA SameBracket ==
  ASSUME PlainNames, NEW t \in Seq(Symbols), NEW u \in Seq(Symbols),
         NEW q \in 1 .. Len(t), NEW r \in 1 .. Len(u), SameLine(t, q, u, r)
  PROVE  t[q] = "[" <=> u[r] = "["
<1>1. PICK n \in Nat :
        /\ q + n <= Len(t) + 1 /\ r + n <= Len(u) + 1
        /\ \A i \in 0 .. n - 1 : t[q + i] = u[r + i] /\ t[q + i] # NL
        /\ q + n <= Len(t) => t[q + n] = NL
        /\ r + n <= Len(u) => u[r + n] = NL
  BY DEF SameLine
<1>2. q + 0 = q /\ r + 0 = r
  OBVIOUS
<1>3. CASE n = 0
  BY <1>1, <1>2, <1>3 DEF PlainNames
<1>4. CASE n # 0
  <2>1. 0 \in 0 .. n - 1
    BY <1>4
  <2>2. t[q + 0] = u[r + 0]
    BY <1>1, <2>1
  <2> QED
    BY <1>2, <2>2
<1> QED
  BY <1>3, <1>4

(* have a key                                                              *)
LEMMA SameKey ==
  ASSUME PlainNames, NEW t \in Seq(Symbols), NEW u \in Seq(Symbols), NEW q \in Nat, NEW r \in Nat,
         SameLine(t, q, u, r), NEW k \in Keys, KeyAt(t, q, k)
  PROVE  KeyAt(u, r, k)
<1>1. PICK a \in Nat, b \in Nat : a = Len(t) /\ b = Len(u)
  OBVIOUS
<1>2. PICK n \in Nat :
        /\ q + n <= a + 1 /\ r + n <= b + 1
        /\ \A i \in 0 .. n - 1 : t[q + i] = u[r + i] /\ t[q + i] # NL
        /\ q + n <= a => t[q + n] = NL
        /\ r + n <= b => u[r + n] = NL
  BY <1>1 DEF SameLine
<1>3. PICK m \in Nat : m = Len(k)
  BY NameFacts
<1>4. \A j \in 1 .. m : k[j] # NL
  BY <1>3, NameFacts
<1>5. /\ q + m <= a + 1 /\ \A j \in 1 .. m : t[q + j - 1] = k[j]
      /\ q + m <= a => t[q + m] \in {NL, SP}
  BY <1>1, <1>3 DEF KeyAt, Reads
<1>6. n >= m
  <2>1. SUFFICES ASSUME n < m PROVE FALSE
    OBVIOUS
  <2>2. q + n <= a /\ t[q + n] = NL
    BY <1>2, <1>5, <2>1
  <2>3. n + 1 \in 1 .. m /\ q + (n + 1) - 1 = q + n
    BY <2>1
  <2> QED
    BY <1>4, <1>5, <2>2, <2>3
<1>7. \A j \in 1 .. m : u[r + j - 1] = k[j]
  <2> TAKE j \in 1 .. m
  <2>1. j - 1 \in 0 .. n - 1 /\ q + j - 1 = q + (j - 1) /\ r + j - 1 = r + (j - 1)
    BY <1>6
  <2> QED
    BY <1>2, <1>5, <2>1
<1>8. r + m <= b => u[r + m] \in {NL, SP}
  <2>1. CASE m = n
    BY <1>2, <2>1
  <2>2. CASE m # n
    <3>1. m \in 0 .. n - 1 /\ q + m <= a
      BY <1>2, <1>6, <2>2
    <3> QED
      BY <1>2, <1>5, <3>1
  <2> QED
    BY <2>1, <2>2
<1>9. r + m <= b + 1
  BY <1>2, <1>6
<1> QED
  BY <1>1, <1>3, <1>7, <1>8, <1>9 DEF KeyAt, Reads

(* Equal parts of two texts                                                *)
LEMMA SameParts ==
  ASSUME NEW t \in Seq(Symbols), NEW u \in Seq(Symbols), NEW v \in Nat \ {0}, NEW d \in Int,
         v + d >= 1, NEW e \in Int, e >= v, e <= Len(t) + 1, e + d <= Len(u) + 1,
         \A x \in v .. e - 1 : t[x] = u[x + d]
  PROVE  SubSeq(t, v, e - 1) = SubSeq(u, v + d, e + d - 1)
<1>1. PICK a \in Nat, b \in Nat : a = Len(t) /\ b = Len(u)
  OBVIOUS
<1>2. PICK n \in Nat : n = e - v
  OBVIOUS
<1>3. \A i \in 1 .. n : v + i - 1 \in v .. e - 1 /\ v + i - 1 + d = (v + d) + i - 1
  BY <1>2
<1>4. Len(SubSeq(t, v, e - 1)) = n /\ Len(SubSeq(u, v + d, e + d - 1)) = n
  <2>1. v \in 1 .. a + 1 /\ e - 1 \in v - 1 .. a /\ (e - 1) - v + 1 = n
    BY <1>1, <1>2
  <2>2. v + d \in 1 .. b + 1 /\ e + d - 1 \in v + d - 1 .. b /\ (e + d - 1) - (v + d) + 1 = n
    BY <1>1, <1>2
  <2>3. Len(SubSeq(t, v, e - 1)) = n
    BY <1>1, <2>1
  <2>4. Len(SubSeq(u, v + d, e + d - 1)) = n
    BY <1>1, <2>2
  <2> QED
    BY <2>3, <2>4
<1>5. \A i \in 1 .. n : SubSeq(t, v, e - 1)[i] = t[v + i - 1]
  BY <1>1, <1>2
<1>6. \A i \in 1 .. n : SubSeq(u, v + d, e + d - 1)[i] = u[(v + d) + i - 1]
  BY <1>1, <1>2
<1>7. \A i \in 1 .. n : SubSeq(t, v, e - 1)[i] = SubSeq(u, v + d, e + d - 1)[i]
  BY <1>3, <1>5, <1>6
<1>8. SubSeq(t, v, e - 1) \in Seq(Symbols) /\ SubSeq(u, v + d, e + d - 1) \in Seq(Symbols)
  BY <1>1
<1> QED
  BY <1>4, <1>7, <1>8

(* and give it the same value.                                             *)
LEMMA SameWord ==
  ASSUME PlainNames, NEW t \in Seq(Symbols), NEW u \in Seq(Symbols),
         NEW q \in Nat \ {0}, NEW r \in Nat \ {0},
         SameLine(t, q, u, r), NEW k \in Keys, KeyAt(t, q, k), NEW w, WordAt(t, q + Len(k), w)
  PROVE  WordAt(u, r + Len(k), w)
<1>1. PICK a \in Nat, b \in Nat : a = Len(t) /\ b = Len(u)
  OBVIOUS
<1>2. PICK n \in Nat :
        /\ q + n <= a + 1 /\ r + n <= b + 1
        /\ \A i \in 0 .. n - 1 : t[q + i] = u[r + i] /\ t[q + i] # NL
        /\ q + n <= a => t[q + n] = NL
        /\ r + n <= b => u[r + n] = NL
  BY <1>1 DEF SameLine
<1>3. PICK m \in Nat : m = Len(k)
  BY NameFacts
<1>4. \A j \in 1 .. m : k[j] # NL
  BY <1>3, NameFacts
<1>5. /\ q + m <= a + 1 /\ \A j \in 1 .. m : t[q + j - 1] = k[j]
  BY <1>1, <1>3 DEF KeyAt, Reads
<1>6. n >= m
  <2>1. SUFFICES ASSUME n < m PROVE FALSE
    OBVIOUS
  <2>2. q + n <= a /\ t[q + n] = NL
    BY <1>2, <1>5, <2>1
  <2>3. n + 1 \in 1 .. m /\ q + (n + 1) - 1 = q + n
    BY <2>1
  <2> QED
    BY <1>4, <1>5, <2>2, <2>3
<1>7. PICK c \in Nat : c = q + m
  OBVIOUS
<1>8. PICK v \in c .. a + 1 : WordFrom(t, c, v, w)
  BY <1>1, <1>3, <1>7 DEF WordAt
<1>9. PICK e \in v .. a + 1 :
        /\ \A x \in c .. v - 1 : t[x] \in {SP, "="}
        /\ v <= a => t[v] \notin {SP, "="}
        /\ \A x \in v .. e - 1 : t[x] \notin {SP, NL}
        /\ e <= a => t[e] \in {SP, NL}
        /\ w = SubSeq(t, v, e - 1)
  BY <1>1, <1>8 DEF WordFrom
<1>10. e <= q + n
  <2>1. SUFFICES ASSUME q + n < e PROVE FALSE
    OBVIOUS
  <2>2. q + n <= a /\ t[q + n] = NL
    BY <1>2, <1>9, <2>1
  <2>3. q + n \in c .. v - 1 \/ q + n \in v .. e - 1
    BY <1>6, <1>7, <2>1
  <2> QED
    BY <1>9, <2>2, <2>3 DEF PlainNames
<1>11. PICK d \in Int : d = r - q
  OBVIOUS
<1>12. \A x \in q .. q + n - 1 : t[x] = u[x + d]
  <2> TAKE x \in q .. q + n - 1
  <2>1. x - q \in 0 .. n - 1 /\ q + (x - q) = x /\ r + (x - q) = x + d
    BY <1>11
  <2> QED
    BY <1>2, <2>1
<1>13. r + m = c + d /\ v + d \in c + d .. b + 1 /\ e + d \in v + d .. b + 1
  BY <1>2, <1>7, <1>10, <1>11
<1>14. \A x \in c + d .. v + d - 1 : u[x] \in {SP, "="}
  <2> TAKE x \in c + d .. v + d - 1
  <2>1. x - d \in c .. v - 1 /\ x - d \in q .. q + n - 1 /\ x - d + d = x
    BY <1>7, <1>10
  <2> QED
    BY <1>9, <1>12, <2>1
<1>15. \A x \in v + d .. e + d - 1 : u[x] \notin {SP, NL}
  <2> TAKE x \in v + d .. e + d - 1
  <2>1. x - d \in v .. e - 1 /\ x - d \in q .. q + n - 1 /\ x - d + d = x
    BY <1>7, <1>10
  <2> QED
    BY <1>9, <1>12, <2>1
<1>16. ASSUME NEW x \in c .. q + n PROVE x + d <= b => (x <= a /\ t[x] = u[x + d]) \/ u[x + d] = NL
  <2>1. CASE x = q + n
    <3>1. x + d = r + n
      BY <1>11, <2>1
    <3> QED
      BY <1>2, <3>1
  <2>2. CASE x # q + n
    <3>1. x \in q .. q + n - 1 /\ x <= a
      BY <1>2, <1>7, <2>2
    <3> QED
      BY <1>12, <3>1
  <2> QED
    BY <2>1, <2>2
<1>17. v + d <= b => u[v + d] \notin {SP, "="}
  <2>1. v \in c .. q + n
    BY <1>7, <1>10
  <2>2. v + d <= b => (v <= a /\ t[v] = u[v + d]) \/ u[v + d] = NL
    BY <1>16, <2>1
  <2>3. NL # SP /\ NL # "="
    BY DEF PlainNames
  <2> QED
    BY <1>9, <2>2, <2>3
<1>18. e + d <= b => u[e + d] \in {SP, NL}
  <2>1. e \in c .. q + n
    BY <1>7, <1>10
  <2>2. e + d <= b => (e <= a /\ t[e] = u[e + d]) \/ u[e + d] = NL
    BY <1>16, <2>1
  <2> QED
    BY <1>9, <2>2
<1>19. w = SubSeq(u, v + d, e + d - 1)
  <2>1. \A x \in v .. e - 1 : t[x] = u[x + d]
    <3> TAKE x \in v .. e - 1
    <3>1. x \in q .. q + n - 1
      BY <1>7, <1>10
    <3> QED
      BY <1>12, <3>1
  <2>2. v \in Nat \ {0} /\ v + d >= 1 /\ e \in Int /\ e >= v /\ e <= a + 1 /\ e + d <= b + 1
    <3>1. v \in Int /\ v >= c /\ v <= a + 1 /\ e \in Int /\ e >= v /\ e <= a + 1
      OBVIOUS
    <3>2. v \in Nat \ {0}
      BY <1>7, <3>1
    <3>3. v + d >= 1
      BY <1>7, <1>11, <3>1
    <3>4. e + d <= b + 1
      BY <1>13
    <3> QED
      BY <3>1, <3>2, <3>3, <3>4
  <2>3. e <= Len(t) + 1 /\ e + d <= Len(u) + 1
    BY <1>1, <2>2
  <2>4. t \in Seq(Symbols) /\ u \in Seq(Symbols) /\ d \in Int
    OBVIOUS
  <2>5. SubSeq(t, v, e - 1) = SubSeq(u, v + d, e + d - 1)
    BY ONLY <2>1, <2>2, <2>3, <2>4, SameParts
  <2>6. w = SubSeq(t, v, e - 1)
    BY <1>9
  <2> QED
    BY ONLY <2>5, <2>6, Zenon
<1>20. WordFrom(u, c + d, v + d, w)
  <2>1. PICK f : f = e + d
    OBVIOUS
  <2>2. PICK y : y = v + d
    OBVIOUS
  <2>3. /\ f \in y .. Len(u) + 1
        /\ \A x \in c + d .. y - 1 : u[x] \in {SP, "="}
        /\ y <= Len(u) => u[y] \notin {SP, "="}
        /\ \A x \in y .. f - 1 : u[x] \notin {SP, NL}
        /\ f <= Len(u) => u[f] \in {SP, NL}
        /\ w = SubSeq(u, y, f - 1)
    BY <1>1, <1>13, <1>14, <1>15, <1>17, <1>18, <1>19, <2>1, <2>2
  <2> QED
    BY <2>2, <2>3 DEF WordFrom
<1>21. WordAt(u, c + d, w)
  BY <1>1, <1>13, <1>20 DEF WordAt
<1> QED
  BY <1>3, <1>13, <1>21

(* The lines of t are lines of u, at f.                                    *)
Moved(t, u, f) ==
  /\ f \in [Lines(t) -> Lines(u)]
  /\ \A p, q \in Lines(t) : p < q <=> f[p] < f[q]

(* and these are new.                                                      *)
Added(t, u, f) == {n \in Lines(u) : \A q \in Lines(t) : f[q] # n}

(* What is asked of s and k is answered for the line at p as for that at r. *)
Alike(t, p, u, r, s, k) ==
  /\ HeaderAt(t, p, s) <=> HeaderAt(u, r, s)
  /\ t[p] = "[" <=> u[r] = "["
  /\ KeyAt(t, p, k) <=> KeyAt(u, r, k)

(* A new line that is not looked for behind header h: it is neither the    *)
(* key nor a header, in another section, or behind all there was.          *)
Harmless(t, u, f, h, k, n) ==
  \/ u[n] # "[" /\ ~KeyAt(u, n, k)
  \/ \E b \in Lines(t) : h < b /\ t[b] = "[" /\ f[b] < n
  \/ ~KeyAt(u, n, k) /\ \A q \in Lines(t) : f[q] < n

(* The first header stays the first.                                       *)
LEMMA HeaderKept ==
  ASSUME NEW t \in Seq(Symbols), NEW u \in Seq(Symbols), NEW f, Moved(t, u, f), NEW s, NEW k,
         \A q \in Lines(t) : Alike(t, q, u, f[q], s, k),
         \A n \in Added(t, u, f) : ~HeaderAt(u, n, s), NEW h \in Lines(t)
  PROVE  FirstHeader(t, s, h) <=> FirstHeader(u, s, f[h])
<1>a. /\ \A q \in Lines(t) : q \in Nat /\ f[q] \in Lines(u)
      /\ \A q \in Lines(u) : q \in Nat
      /\ \A p, q \in Lines(t) : p < q <=> f[p] < f[q]
  BY LineFacts DEF Moved
<1>b. \A q \in Lines(u) : q \in Added(t, u, f) \/ \E p \in Lines(t) : q = f[p]
  BY DEF Added
<1>1. HeaderAt(t, h, s) <=> HeaderAt(u, f[h], s)
  BY DEF Alike
<1>2. ASSUME FirstHeader(t, s, h) PROVE \A q \in Lines(u) : q < f[h] => ~HeaderAt(u, q, s)
  <2> TAKE q \in Lines(u)
  <2> HAVE q < f[h]
  <2>1. CASE q \in Added(t, u, f)
    BY <2>1
  <2>2. CASE \E p \in Lines(t) : q = f[p]
    <3>1. PICK p \in Lines(t) : q = f[p]
      BY <2>2
    <3>2. p < h
      BY <1>a, <3>1
    <3>3. ~HeaderAt(t, p, s)
      BY <1>2, <3>2 DEF FirstHeader
    <3> QED
      BY <3>1, <3>3 DEF Alike
  <2> QED
    BY <1>b, <2>1, <2>2
<1>3. ASSUME FirstHeader(u, s, f[h]) PROVE \A q \in Lines(t) : q < h => ~HeaderAt(t, q, s)
  <2> TAKE q \in Lines(t)
  <2> HAVE q < h
  <2>1. f[q] < f[h] /\ f[q] \in Lines(u)
    BY <1>a
  <2>2. ~HeaderAt(u, f[q], s)
    BY <1>3, <2>1 DEF FirstHeader
  <2> QED
    BY <2>2 DEF Alike
<1> QED
  BY <1>a, <1>1, <1>2, <1>3 DEF FirstHeader

(* A line is found where it was when all that is new is harmless.          *)
LEMMA EntryKept ==
  ASSUME NEW t \in Seq(Symbols), NEW u \in Seq(Symbols), NEW f, Moved(t, u, f), NEW s, NEW k,
         \A q \in Lines(t) : Alike(t, q, u, f[q], s, k),
         \A n \in Added(t, u, f) : ~HeaderAt(u, n, s),
         \A h \in Lines(t), n \in Added(t, u, f) :
           FirstHeader(t, s, h) /\ f[h] < n => Harmless(t, u, f, h, k, n)
  PROVE  /\ \A p \in Lines(t) : Entry(t, s, k, p) <=> Entry(u, s, k, f[p])
         /\ \A n \in Added(t, u, f) : ~Entry(u, s, k, n)
<1>1. /\ \A q \in Lines(t) : q \in Nat /\ f[q] \in Lines(u)
      /\ \A q \in Lines(u) : q \in Nat
      /\ \A p, q \in Lines(t) : p < q <=> f[p] < f[q]
  BY LineFacts DEF Moved
<1>2. \A q \in Lines(u) : q \in Added(t, u, f) \/ \E p \in Lines(t) : q = f[p]
  BY DEF Added
<1>3. ASSUME NEW h \in Lines(t) PROVE FirstHeader(t, s, h) <=> FirstHeader(u, s, f[h])
  BY HeaderKept
<1>4. ASSUME NEW h \in Lines(t), FirstHeader(t, s, h), NEW p \in Lines(t)
      PROVE  FirstKey(t, h, k, p) <=> FirstKey(u, f[h], k, f[p])
  <2>1. (KeyAt(t, p, k) <=> KeyAt(u, f[p], k)) /\ (h < p <=> f[h] < f[p])
    BY <1>1 DEF Alike
  <2>2. ASSUME FirstKey(t, h, k, p), NEW q \in Lines(u), f[h] < q
        PROVE  (q <= f[p] => u[q] # "[") /\ (q < f[p] => ~KeyAt(u, q, k))
    <3>1. CASE \E x \in Lines(t) : q = f[x]
      <4>1. PICK x \in Lines(t) : q = f[x]
        BY <3>1
      <4>2. h < x /\ (q < f[p] <=> x < p) /\ (q <= f[p] => x <= p)
        <5>1. h < x
          BY <1>1, <2>2, <4>1
        <5>2. (q < f[p] <=> x < p) /\ (f[p] < q <=> p < x)
          BY <1>1, <4>1
        <5>3. x \in Nat /\ p \in Nat /\ q \in Nat /\ f[p] \in Nat
          BY <1>1
        <5> QED
          BY <5>1, <5>2, <5>3
      <4>3. (x <= p => t[x] # "[") /\ (x < p => ~KeyAt(t, x, k))
        BY <2>2, <4>2 DEF FirstKey
      <4> QED
        BY <4>1, <4>2, <4>3 DEF Alike
    <3>2. CASE q \in Added(t, u, f)
      <4>1. Harmless(t, u, f, h, k, q)
        BY <1>4, <2>2, <3>2
      <4>2. CASE u[q] # "[" /\ ~KeyAt(u, q, k)
        BY <4>2
      <4>3. CASE \E b \in Lines(t) : h < b /\ t[b] = "[" /\ f[b] < q
        <5>1. PICK b \in Lines(t) : h < b /\ t[b] = "[" /\ f[b] < q
          BY <4>3
        <5>2. ~(b <= p)
          BY <2>2, <5>1 DEF FirstKey
        <5>3. p < b
          BY <1>1, <5>2
        <5>4. f[p] < f[b]
          BY <1>1, <5>3
        <5>5. f[p] < q
          BY <1>1, <5>1, <5>4
        <5>6. ~(q <= f[p]) /\ ~(q < f[p])
          BY <1>1, <5>5
        <5> QED
          BY <5>6
      <4>4. CASE \A x \in Lines(t) : f[x] < q
        <5>1. f[p] < q
          BY <4>4
        <5>2. ~(q <= f[p]) /\ ~(q < f[p])
          BY <1>1, <5>1
        <5> QED
          BY <5>2
      <4> QED
        BY <4>1, <4>2, <4>3, <4>4 DEF Harmless
    <3> QED
      BY <1>2, <3>1, <3>2
  <2>3. ASSUME FirstKey(u, f[h], k, f[p]), NEW q \in Lines(t), h < q
        PROVE  (q <= p => t[q] # "[") /\ (q < p => ~KeyAt(t, q, k))
    <3>1. /\ f[q] \in Lines(u) /\ f[h] < f[q] /\ (q < p => f[q] < f[p])
      BY <1>1, <2>3
    <3>2. q <= p => f[q] <= f[p]
      <4>1. q \in Nat /\ p \in Nat /\ f[q] \in Nat /\ f[p] \in Nat /\ (p < q <=> f[p] < f[q])
        BY <1>1
      <4> QED
        BY <4>1
    <3>3. (f[q] <= f[p] => u[f[q]] # "[") /\ (f[q] < f[p] => ~KeyAt(u, f[q], k))
      BY <2>3, <3>1 DEF FirstKey
    <3> QED
      BY <3>1, <3>2, <3>3 DEF Alike
  <2>4. FirstKey(t, h, k, p) => FirstKey(u, f[h], k, f[p])
    BY <1>1, <2>1, <2>2 DEF FirstKey
  <2>5. FirstKey(u, f[h], k, f[p]) => FirstKey(t, h, k, p)
    BY <1>1, <2>1, <2>3 DEF FirstKey
  <2> QED
    BY <2>4, <2>5
<1>5. ASSUME NEW g \in Lines(u), FirstHeader(u, s, g)
      PROVE  \E h \in Lines(t) : g = f[h] /\ FirstHeader(t, s, h)
  <2>1. g \notin Added(t, u, f)
    BY <1>5 DEF FirstHeader
  <2>2. PICK h \in Lines(t) : g = f[h]
    BY <1>2, <2>1
  <2> QED
    BY <1>3, <1>5, <2>2
<1>6. ASSUME NEW p \in Lines(t) PROVE Entry(t, s, k, p) <=> Entry(u, s, k, f[p])
  <2>1. ASSUME Entry(t, s, k, p) PROVE Entry(u, s, k, f[p])
    <3>1. PICK h \in Lines(t) : FirstHeader(t, s, h) /\ FirstKey(t, h, k, p)
      BY <2>1 DEF Entry
    <3>2. f[h] \in Lines(u) /\ FirstHeader(u, s, f[h]) /\ FirstKey(u, f[h], k, f[p])
      BY <1>1, <1>3, <1>4, <3>1
    <3> QED
      BY <3>2 DEF Entry
  <2>2. ASSUME Entry(u, s, k, f[p]) PROVE Entry(t, s, k, p)
    <3>1. PICK g \in Lines(u) : FirstHeader(u, s, g) /\ FirstKey(u, g, k, f[p])
      BY <2>2 DEF Entry
    <3>2. PICK h \in Lines(t) : g = f[h] /\ FirstHeader(t, s, h)
      BY <1>5, <3>1
    <3>3. FirstKey(t, h, k, p)
      BY <1>4, <3>1, <3>2
    <3> QED
      BY <3>2, <3>3 DEF Entry
  <2> QED
    BY <2>1, <2>2
<1>7. ASSUME NEW n \in Added(t, u, f) PROVE ~Entry(u, s, k, n)
  <2>1. SUFFICES ASSUME Entry(u, s, k, n) PROVE FALSE
    OBVIOUS
  <2>2. PICK g \in Lines(u) : FirstHeader(u, s, g) /\ FirstKey(u, g, k, n)
    BY <2>1 DEF Entry
  <2>3. PICK h \in Lines(t) : g = f[h] /\ FirstHeader(t, s, h)
    BY <1>5, <2>2
  <2>4. f[h] < n /\ KeyAt(u, n, k) /\ n \in Lines(u)
    BY <2>2, <2>3 DEF FirstKey, Added
  <2>5. PICK b \in Lines(t) : h < b /\ t[b] = "[" /\ f[b] < n
    BY <2>3, <2>4 DEF Harmless
  <2>6. f[b] \in Lines(u) /\ f[h] < f[b] /\ u[f[b]] = "[" /\ f[b] <= n
    BY <1>1, <2>4, <2>5 DEF Alike
  <2> QED
    BY <2>2, <2>3, <2>6 DEF FirstKey
<1> QED
  BY <1>6, <1>7

(* and the value with it, when that reads as before.                       *)
LEMMA FoundKept ==
  ASSUME NEW t \in Seq(Symbols), NEW u \in Seq(Symbols), NEW f, Moved(t, u, f), NEW s, NEW k,
         \A p \in Lines(t) : Entry(t, s, k, p) <=> Entry(u, s, k, f[p]),
         \A n \in Added(t, u, f) : ~Entry(u, s, k, n),
         NEW w, Found(t, s, k, w),
         \A p \in Lines(t) : Entry(t, s, k, p) /\ WordAt(t, p + Len(k), w)
                               => WordAt(u, f[p] + Len(k), w)
  PROVE  Found(u, s, k, w)
<1>1. CASE \E p \in Lines(t) : Entry(t, s, k, p) /\ WordAt(t, p + Len(k), w)
  <2>1. PICK p \in Lines(t) : Entry(t, s, k, p) /\ WordAt(t, p + Len(k), w)
    BY <1>1
  <2>2. f[p] \in Lines(u) /\ Entry(u, s, k, f[p]) /\ WordAt(u, f[p] + Len(k), w)
    BY <2>1 DEF Moved
  <2> QED
    BY <2>2 DEF Found
<1>2. CASE w = <<>> /\ \A p \in Lines(t) : ~Entry(t, s, k, p)
  <2>1. ASSUME NEW q \in Lines(u) PROVE ~Entry(u, s, k, q)
    <3>1. CASE q \in Added(t, u, f)
      BY <3>1
    <3>2. CASE \E p \in Lines(t) : f[p] = q
      BY <1>2, <3>2
    <3> QED
      BY <3>1, <3>2 DEF Added
  <2> QED
    BY <1>2, <2>1 DEF Found
<1> QED
  BY <1>1, <1>2 DEF Found

(* The same lines are alike.                                               *)
LEMMA SameIsAlike ==
  ASSUME PlainNames, NEW t \in Seq(Symbols), NEW u \in Seq(Symbols),
         NEW q \in 1 .. Len(t), NEW r \in 1 .. Len(u), SameLine(t, q, u, r),
         NEW s \in Names, NEW k \in Keys
  PROVE  Alike(t, q, u, r, s, k)
<1>1. SameLine(u, r, t, q) /\ q \in Nat /\ r \in Nat
  BY SameLineBack
<1>2. HeaderAt(t, q, s) <=> HeaderAt(u, r, s)
  BY <1>1, SameHeader
<1>3. KeyAt(t, q, k) <=> KeyAt(u, r, k)
  BY <1>1, SameKey
<1>4. t[q] = "[" <=> u[r] = "["
  BY SameBracket
<1> QED
  BY <1>2, <1>3, <1>4 DEF Alike

(* Where a line may end                                                    *)
LineEnds(t, e) == e <= Len(t) => t[e] = NL

LEMMA LineEndExists ==
  ASSUME NEW t \in Seq(Symbols), NEW q \in Nat \ {0}, NEW m \in Nat, q <= m + 1, m <= Len(t),
         LineEnds(t, m + 1)
  PROVE  \E e \in q .. m + 1 : LineEnds(t, e) /\ \A x \in q .. e - 1 : t[x] # NL
<1>1. PICK a \in Nat : a = Len(t)
  OBVIOUS
<1> DEFINE S == {e \in q .. m + 1 : LineEnds(t, e)}
<1>2. m + 1 \in S /\ S \subseteq Nat
  OBVIOUS
<1>3. PICK e \in S : \A x \in S : e <= x
  <2> HIDE DEF S
  <2> QED
    BY <1>2, SmallestExists
<1>4. \A x \in q .. e - 1 : t[x] # NL
  <2> TAKE x \in q .. e - 1
  <2>1. x \in q .. m + 1 /\ ~(e <= x)
    BY <1>3
  <2>2. ~LineEnds(t, x)
    BY <1>3, <2>1
  <2> QED
    BY <2>2 DEF LineEnds
<1> QED
  BY <1>3, <1>4

(* A line before the place of a change is the same,                        *)
LEMMA SameLineBefore ==
  ASSUME NEW t \in Seq(Symbols), NEW u \in Seq(Symbols), NEW q \in Nat \ {0}, NEW m \in Nat,
         q <= m + 1, m <= Len(t), m <= Len(u), \A x \in 1 .. m : t[x] = u[x],
         LineEnds(t, m + 1), LineEnds(u, m + 1)
  PROVE  SameLine(t, q, u, q)
<1>1. PICK a \in Nat, b \in Nat : a = Len(t) /\ b = Len(u)
  OBVIOUS
<1>2. PICK e \in q .. m + 1 : LineEnds(t, e) /\ \A x \in q .. e - 1 : t[x] # NL
  BY LineEndExists
<1>3. PICK n \in Nat : n = e - q
  OBVIOUS
<1>4. \A i \in 0 .. n - 1 : t[q + i] = u[q + i] /\ t[q + i] # NL
  <2> TAKE i \in 0 .. n - 1
  <2>1. q + i \in q .. e - 1 /\ q + i \in 1 .. m
    BY <1>3
  <2> QED
    BY <1>2, <2>1
<1>5. LineEnds(u, e)
  <2>1. CASE e = m + 1
    BY <2>1
  <2>2. CASE e # m + 1
    <3>1. e \in 1 .. m /\ e <= a
      BY <1>1, <2>2
    <3>2. t[e] = NL
      BY <1>1, <1>2, <3>1 DEF LineEnds
    <3> QED
      BY <3>1, <3>2 DEF LineEnds
  <2> QED
    BY <2>1, <2>2
<1>6. q + n = e /\ q + n <= a + 1 /\ q + n <= b + 1
  BY <1>1, <1>3
<1> QED
  BY <1>1, <1>2, <1>4, <1>5, <1>6 DEF SameLine, LineEnds

(* and so is one behind it.                                                *)
LEMMA SameLineBehind ==
  ASSUME NEW t \in Seq(Symbols), NEW u \in Seq(Symbols), NEW q \in 1 .. Len(t), NEW d \in Int,
         q + d >= 1, Len(u) = Len(t) + d, \A x \in q .. Len(t) : u[x + d] = t[x]
  PROVE  SameLine(t, q, u, q + d)
<1>1. PICK a \in Nat : a = Len(t)
  OBVIOUS
<1>2. LineEnds(t, a + 1)
  BY <1>1 DEF LineEnds
<1>3. PICK e \in q .. a + 1 : LineEnds(t, e) /\ \A x \in q .. e - 1 : t[x] # NL
  <2>1. q \in Nat \ {0} /\ a \in Nat /\ q <= a + 1 /\ a <= Len(t)
    BY <1>1
  <2> QED
    BY <1>2, <2>1, LineEndExists
<1>4. PICK n \in Nat : n = e - q
  OBVIOUS
<1>5. \A i \in 0 .. n - 1 : t[q + i] = u[(q + d) + i] /\ t[q + i] # NL
  <2> TAKE i \in 0 .. n - 1
  <2>1. q + i \in q .. e - 1 /\ q + i \in q .. a /\ (q + d) + i = (q + i) + d
    BY <1>4
  <2> QED
    BY <1>1, <1>3, <2>1
<1>6. q + n = e /\ (q + d) + n = e + d /\ q + n <= a + 1 /\ (q + d) + n <= (a + d) + 1
  BY <1>4
<1>7. (q + d) + n <= Len(u) => u[(q + d) + n] = NL
  <2> HAVE (q + d) + n <= Len(u)
  <2>1. e \in q .. a
    BY <1>1, <1>6
  <2>2. t[e] = NL
    BY <1>1, <1>3, <2>1 DEF LineEnds
  <2> QED
    BY <1>1, <1>6, <2>1, <2>2
<1>8. q + n <= Len(t) => t[q + n] = NL
  BY <1>3, <1>6 DEF LineEnds
<1> QED
  BY <1>1, <1>5, <1>6, <1>7, <1>8 DEF SameLine

(* u is t with y in place of the r symbols from c on.                      *)
Edited(t, u, c, r, y) ==
  /\ c \in 1 .. Len(t) + 1 /\ r \in Nat /\ c + r <= Len(t) + 1
  /\ Len(u) = Len(t) - r + Len(y)
  /\ \A q \in 1 .. c - 1 : u[q] = t[q]
  /\ \A j \in 1 .. Len(y) : u[c + j - 1] = y[j]
  /\ \A q \in c + r .. Len(t) : u[q - r + Len(y)] = t[q]

(* The symbols of one sequence behind another                              *)
LEMMA ConcatSymbols ==
  ASSUME NEW a \in Seq(Symbols), NEW b \in Seq(Symbols), NEW u, u = a \o b
  PROVE  /\ u \in Seq(Symbols) /\ Len(u) = Len(a) + Len(b)
         /\ \A i \in 1 .. Len(a) : u[i] = a[i]
         /\ \A i \in 1 .. Len(b) : u[Len(a) + i] = b[i]
<1>1. u \in Seq(Symbols) /\ Len(u) = Len(a) + Len(b)
  BY ConcatFacts
<1>2. \A i \in 1 .. Len(a) : u[i] = a[i]
  OBVIOUS
<1>3. \A i \in 1 .. Len(b) : u[Len(a) + i] = b[i]
  OBVIOUS
<1> QED
  BY <1>1, <1>2, <1>3

(* Data_Insert edits.                                                      *)
LEMMA InsertEdits ==
  ASSUME NEW t \in Seq(Symbols), NEW c \in 1 .. Len(t) + 1, NEW r \in Nat,
         c + r <= Len(t) + 1, NEW y \in Seq(Symbols), NEW u,
         u = SubSeq(t, 1, c - 1) \o y \o SubSeq(t, c + r, Len(t))
  PROVE  u \in Seq(Symbols) /\ Edited(t, u, c, r, y)
<1>1. PICK n \in Nat : n = Len(t)
  OBVIOUS
<1>2. PICK m \in Nat : m = Len(y)
  OBVIOUS
<1>a. PICK a : a = SubSeq(t, 1, c - 1)
  OBVIOUS
<1>b. PICK b : b = SubSeq(t, c + r, Len(t))
  OBVIOUS
<1>3. a \in Seq(Symbols) /\ Len(a) = c - 1 /\ \A i \in 1 .. c - 1 : a[i] = t[i]
  <2>1. c - 1 \in 0 .. n
    BY <1>1
  <2> QED
    BY <1>1, <1>a, <2>1
<1>4. b \in Seq(Symbols) /\ Len(b) = n - (c + r) + 1
      /\ \A i \in 1 .. Len(b) : b[i] = t[c + r + i - 1]
  <2>1. c + r \in 1 .. n + 1 /\ n - (c + r) + 1 \in Nat
    BY <1>1
  <2>2. b \in Seq(Symbols) /\ Len(b) = n - (c + r) + 1
    BY <1>1, <1>b, <2>1
  <2>3. \A i \in 1 .. n - (c + r) + 1 : b[i] = t[c + r + i - 1]
    BY <1>1, <1>b, <2>1
  <2> QED
    BY <2>2, <2>3
<1>5. u = (a \o y) \o b
  BY <1>a, <1>b, Zenon
<1>6. PICK w : w = a \o y
  OBVIOUS
<1>7. /\ w \in Seq(Symbols) /\ Len(w) = Len(a) + Len(y)
      /\ \A i \in 1 .. Len(a) : w[i] = a[i]
      /\ \A i \in 1 .. Len(y) : w[Len(a) + i] = y[i]
  <2>1. a \in Seq(Symbols) /\ y \in Seq(Symbols)
    BY <1>3
  <2>2. w \in Seq(Symbols) /\ Len(w) = Len(a) + Len(y)
    BY ONLY <1>6, <2>1, ConcatSymbols
  <2>3. \A i \in 1 .. Len(a) : w[i] = a[i]
    BY ONLY <1>6, <2>1, ConcatSymbols
  <2>4. \A i \in 1 .. Len(y) : w[Len(a) + i] = y[i]
    BY ONLY <1>6, <2>1, ConcatSymbols
  <2> QED
    BY <2>2, <2>3, <2>4
<1>8. u = w \o b
  BY <1>5, <1>6, Zenon
<1>9. /\ u \in Seq(Symbols) /\ Len(u) = Len(w) + Len(b)
      /\ \A i \in 1 .. Len(w) : u[i] = w[i]
      /\ \A i \in 1 .. Len(b) : u[Len(w) + i] = b[i]
  <2>1. w \in Seq(Symbols) /\ b \in Seq(Symbols)
    BY <1>4, <1>7
  <2>2. u \in Seq(Symbols) /\ Len(u) = Len(w) + Len(b)
    BY ONLY <1>8, <2>1, ConcatSymbols
  <2>3. \A i \in 1 .. Len(w) : u[i] = w[i]
    BY ONLY <1>8, <2>1, ConcatSymbols
  <2>4. \A i \in 1 .. Len(b) : u[Len(w) + i] = b[i]
    BY ONLY <1>8, <2>1, ConcatSymbols
  <2> QED
    BY <2>2, <2>3, <2>4
<1>10. Len(w) = c - 1 + m /\ Len(b) = n - (c + r) + 1
  BY <1>2, <1>3, <1>4, <1>7
<1>11. \A q \in 1 .. c - 1 : u[q] = t[q]
  <2> TAKE q \in 1 .. c - 1
  <2>1. q \in 1 .. Len(a) /\ q \in 1 .. Len(w)
    BY <1>3, <1>10
  <2> QED
    BY <1>3, <1>7, <1>9, <2>1
<1>12. \A j \in 1 .. m : u[c + j - 1] = y[j]
  <2> TAKE j \in 1 .. m
  <2>1. c + j - 1 = Len(a) + j /\ Len(a) + j \in 1 .. Len(w)
    BY <1>3, <1>10
  <2> QED
    BY <1>2, <1>7, <1>9, <2>1
<1>13. \A q \in c + r .. n : u[q - r + m] = t[q]
  <2> TAKE q \in c + r .. n
  <2>1. PICK i \in Nat : i = q - (c + r) + 1
    OBVIOUS
  <2>2. i \in 1 .. Len(b) /\ q - r + m = Len(w) + i /\ c + r + i - 1 = q
    BY <1>10, <2>1
  <2> QED
    BY <1>4, <1>9, <2>2
<1>14. Len(u) = n - r + m
  <2>1. Len(u) = (c - 1 + m) + (n - (c + r) + 1)
    BY <1>9, <1>10
  <2>2. c \in Nat
    BY <1>1
  <2> QED
    BY ONLY <2>1, <2>2, n \in Nat, m \in Nat, r \in Nat
<1> QED
  BY <1>1, <1>2, <1>9, <1>11, <1>12, <1>13, <1>14 DEF Edited

(* Where the lines are that move by d from c on                            *)
Shift(t, c, d) == [q \in Lines(t) |-> IF q < c THEN q ELSE q + d]

(* A new line at c, which is where a line begins or the end: the lines     *)
(* behind it move.                                                         *)
LEMMA NewLineMoves ==
  ASSUME NEW t \in Seq(Symbols), NEW u \in Seq(Symbols), NEW c \in Nat, NEW y \in Seq(Symbols),
         Edited(t, u, c, 0, y), c > 1, t[c - 1] = NL, c = Len(t) + 1 \/ c \in Lines(t),
         Len(y) >= 1, y[Len(y)] = NL, \A j \in 1 .. Len(y) - 1 : y[j] # NL, y[1] # NL,
         NEW f, f = Shift(t, c, Len(y))
  PROVE  /\ Moved(t, u, f) /\ Added(t, u, f) = {c}
         /\ \A q \in Lines(t) : SameLine(t, q, u, f[q])
<1>1. PICK n \in Nat : n = Len(t)
  OBVIOUS
<1>2. PICK m \in Nat : m = Len(y)
  OBVIOUS
<1>3. /\ c \in 1 .. n + 1 /\ Len(u) = n + m
      /\ \A q \in 1 .. c - 1 : u[q] = t[q]
      /\ \A j \in 1 .. m : u[c + j - 1] = y[j]
      /\ \A q \in c .. n : u[q + m] = t[q]
  <2>0. PICK r \in Nat : r = 0
    OBVIOUS
  <2>1. Edited(t, u, c, r, y)
    BY <2>0
  <2>2. /\ c \in 1 .. n + 1 /\ Len(u) = n - r + m
        /\ \A q \in 1 .. c - 1 : u[q] = t[q]
        /\ \A j \in 1 .. m : u[c + j - 1] = y[j]
        /\ \A q \in c + r .. n : u[q - r + m] = t[q]
    BY <1>1, <1>2, <2>1 DEF Edited
  <2>3. \A q \in c .. n : u[q + m] = t[q]
    <3> TAKE q \in c .. n
    <3>1. q - r + m = q + m /\ q \in c + r .. n
      BY <2>0
    <3>2. u[q - r + m] = t[q]
      BY <2>2, <3>1
    <3> QED
      BY <3>1, <3>2
  <2>4. Len(u) = n + m
    BY <2>0, <2>2
  <2> QED
    BY <2>2, <2>3, <2>4
<1>4. m >= 1 /\ y[m] = NL /\ y[1] # NL /\ \A j \in 1 .. m - 1 : y[j] # NL
  BY <1>2
<1>5. \A q \in Lines(t) : q \in 1 .. n /\ (q # 1 => t[q - 1] = NL /\ t[q] # NL)
  BY <1>1 DEF Lines
<1>6. f = [q \in Lines(t) |-> IF q < c THEN q ELSE q + m]
  BY <1>2 DEF Shift
<1>7. ASSUME NEW q \in 1 .. c - 1 PROVE q \in Lines(u) <=> q \in Lines(t)
  <2>1. u[q] = t[q] /\ q <= n /\ q <= n + m
    BY <1>3
  <2>2. q # 1 => q - 1 \in 1 .. c - 1
    OBVIOUS
  <2>3. q # 1 => u[q - 1] = t[q - 1]
    BY <1>3, <2>2
  <2> QED
    BY <1>1, <1>3, <2>1, <2>3 DEF Lines
<1>8. u[c] = y[1] /\ u[c - 1] = NL
  <2>1. 1 \in 1 .. m /\ c + 1 - 1 = c /\ c - 1 \in 1 .. c - 1
    BY <1>4
  <2> QED
    BY <1>3, <2>1
<1>9. c \in Lines(u)
  <2>1. c \in 1 .. n + m
    BY <1>3, <1>4
  <2> QED
    BY <1>3, <1>4, <1>8, <2>1 DEF Lines
<1>10. ASSUME NEW q \in c + 1 .. c + m - 1 PROVE q \notin Lines(u)
  <2>1. PICK j \in Nat : j = q - c
    OBVIOUS
  <2>2. j \in 1 .. m - 1 /\ c + j - 1 = q - 1 /\ j \in 1 .. m
    BY <2>1
  <2>3. u[c + j - 1] = y[j] /\ y[j] # NL
    BY <1>3, <1>4, <2>2
  <2>4. u[q - 1] # NL /\ q # 1
    BY <1>3, <2>2, <2>3
  <2> QED
    BY <2>4 DEF Lines
<1>11. ASSUME NEW q \in c .. n PROVE q + m \in Lines(u) <=> q \in Lines(t)
  <2>0. u[q + m] = t[q]
    BY <1>3
  <2>1. q + m \in 1 .. n + m /\ q + m # 1 /\ q # 1 /\ q \in 1 .. n
    BY ONLY c > 1, c \in Nat, m \in Nat, n \in Nat, q \in c .. n
  <2>2. u[q + m - 1] = t[q - 1]
    <3>1. CASE q = c
      <4>1. m \in 1 .. m /\ q + m - 1 = c + m - 1
        BY <1>4, <3>1
      <4> QED
        BY <1>3, <1>4, <3>1, <4>1
    <3>2. CASE q # c
      <4>1. q - 1 \in c .. n /\ q - 1 + m = q + m - 1
        BY <3>2
      <4> QED
        BY <1>3, <4>1
    <3> QED
      BY <3>1, <3>2
  <2> QED
    BY <1>1, <1>3, <2>0, <2>1, <2>2 DEF Lines
<1>12. f \in [Lines(t) -> Lines(u)]
  <2>1. ASSUME NEW q \in Lines(t) PROVE f[q] \in Lines(u)
    <3>1. CASE q < c
      BY <1>5, <1>6, <1>7, <3>1
    <3>2. CASE ~(q < c)
      <4>1. q \in c .. n
        BY <1>5, <3>2
      <4> QED
        BY <1>6, <1>11, <3>2, <4>1
    <3> QED
      BY <3>1, <3>2
  <2> QED
    BY <1>6, <2>1
<1>13. \A p, q \in Lines(t) : p < q <=> f[p] < f[q]
  <2> TAKE p, q \in Lines(t)
  <2>1. p \in 1 .. n /\ q \in 1 .. n
    BY <1>5
  <2> QED
    BY <1>6, <2>1
<1>14. \A q \in Lines(t) : f[q] # c
  BY <1>4, <1>5, <1>6
<1>15. ASSUME NEW x \in Lines(u), x # c PROVE \E q \in Lines(t) : f[q] = x
  <2>1. x \in 1 .. n + m
    BY <1>3 DEF Lines
  <2>2. CASE x < c
    <3>1. x \in Lines(t)
      BY <1>7, <2>1, <2>2
    <3> QED
      BY <1>6, <2>2, <3>1
  <2>3. CASE x > c
    <3>1. ~(x \in c + 1 .. c + m - 1)
      BY <1>10
    <3>2. x >= c + m
      BY <2>1, <2>3, <3>1
    <3>3. PICK q \in Nat : q = x - m
      BY <2>1, <3>2
    <3>4. q \in c .. n /\ q + m = x
      BY <2>1, <3>2, <3>3
    <3>5. q \in Lines(t) /\ ~(q < c)
      BY <1>11, <3>4
    <3> QED
      BY <1>6, <3>4, <3>5
  <2> QED
    BY <1>15, <2>1, <2>2, <2>3
<1>16. Added(t, u, f) = {c}
  <2>1. c \in Added(t, u, f)
    BY <1>9, <1>14 DEF Added
  <2>2. ASSUME NEW x \in Added(t, u, f) PROVE x = c
    BY <1>15 DEF Added
  <2> QED
    BY <2>1, <2>2
<1>17. ASSUME NEW q \in Lines(t) PROVE SameLine(t, q, u, f[q])
  <2>1. CASE q < c
    <3>1. PICK k \in Nat : k = c - 2
      BY <1>5, <2>1
    <3>2. q \in Nat \ {0} /\ q <= k + 1 /\ k <= n /\ k <= n + m /\ k + 1 = c - 1
      BY <1>3, <1>5, <2>1, <3>1
    <3>3. \A x \in 1 .. k : t[x] = u[x]
      BY <1>3, <3>1
    <3>4. LineEnds(t, k + 1) /\ LineEnds(u, k + 1)
      BY <1>8, <3>2 DEF LineEnds
    <3>5. SameLine(t, q, u, q)
      BY <1>1, <1>3, <3>2, <3>3, <3>4, SameLineBefore
    <3> QED
      BY <1>6, <2>1, <3>5
  <2>2. CASE ~(q < c)
    <3>0. q \in 1 .. n /\ m \in Int /\ q + m >= 1 /\ q >= c
      BY <1>5, <2>2
    <3>1. \A x \in q .. n : u[x + m] = t[x]
      <4> TAKE x \in q .. n
      <4>1. x \in c .. n
        BY <3>0
      <4> QED
        BY <1>3, <4>1
    <3>2. SameLine(t, q, u, q + m)
      BY <1>1, <1>3, <3>0, <3>1, SameLineBehind
    <3> QED
      BY <1>6, <2>2, <3>2
  <2> QED
    BY <2>1, <2>2
<1> QED
  BY <1>12, <1>13, <1>16, <1>17 DEF Moved

(* All lines but one are the same.                                         *)
SameBut(t, u, f, l) == \A q \in Lines(t) : q # l => SameLine(t, q, u, f[q])

(* A new value in the rest of line l: no line is new or gone, and the      *)
(* other lines are the same.                                               *)
LEMMA NewValueMoves ==
  ASSUME NEW t \in Seq(Symbols), NEW u \in Seq(Symbols), NEW c \in Nat, NEW r \in Nat,
         NEW y \in Seq(Symbols), Edited(t, u, c, r, y), Len(y) >= 1, \A j \in 1 .. Len(y) : y[j] # NL,
         NEW l \in Lines(t), l < c, \A x \in l .. c + r - 1 : t[x] # NL, LineEnds(t, c + r),
         NEW f, f = Shift(t, c, Len(y) - r)
  PROVE  Moved(t, u, f) /\ Added(t, u, f) = {} /\ f[l] = l /\ SameBut(t, u, f, l)
<1>1. PICK n \in Nat : n = Len(t)
  OBVIOUS
<1>2. PICK m \in Nat : m = Len(y)
  OBVIOUS
<1>3. /\ c \in 1 .. n + 1 /\ c + r <= n + 1 /\ Len(u) = n - r + m
      /\ \A q \in 1 .. c - 1 : u[q] = t[q]
      /\ \A j \in 1 .. m : u[c + j - 1] = y[j]
      /\ \A q \in c + r .. n : u[q - r + m] = t[q]
  BY <1>1, <1>2 DEF Edited
<1>4. m >= 1 /\ \A j \in 1 .. m : y[j] # NL
  BY <1>2
<1>5. \A q \in Lines(t) : q \in 1 .. n /\ (q # 1 => t[q - 1] = NL /\ t[q] # NL)
  BY <1>1 DEF Lines
<1>6. f = [q \in Lines(t) |-> IF q < c THEN q ELSE q - r + m]
  <2>1. \A q \in Lines(t) : q + (m - r) = q - r + m
    BY <1>5
  <2>2. f = [q \in Lines(t) |-> IF q < c THEN q ELSE q + (m - r)]
    BY <1>2 DEF Shift
  <2> QED
    BY <2>1, <2>2
<1>7. ASSUME NEW q \in 1 .. c - 1 PROVE q \in Lines(u) <=> q \in Lines(t)
  <2>1. u[q] = t[q] /\ q <= n /\ q <= n - r + m
    BY <1>3, <1>4
  <2>2. q # 1 => q - 1 \in 1 .. c - 1
    OBVIOUS
  <2>3. q # 1 => u[q - 1] = t[q - 1]
    BY <1>3, <2>2
  <2> QED
    BY <1>1, <1>3, <2>1, <2>3 DEF Lines
<1>8. ASSUME NEW q \in c .. c + r PROVE q \notin Lines(t)
  <2>1. q - 1 \in l .. c + r - 1 /\ q # 1
    BY <1>5
  <2> QED
    BY <2>1 DEF Lines
<1>9. ASSUME NEW q \in c .. c + m PROVE q \notin Lines(u)
  <2>1. CASE q = c
    <3>1. c - 1 \in 1 .. c - 1 /\ c - 1 \in l .. c + r - 1 /\ c # 1
      BY <1>5
    <3>2. u[c - 1] # NL
      BY <1>3, <3>1
    <3> QED
      BY <2>1, <3>1, <3>2 DEF Lines
  <2>2. CASE q # c
    <3>1. PICK j \in Nat : j = q - c
      OBVIOUS
    <3>2. j \in 1 .. m /\ c + j - 1 = q - 1 /\ q # 1
      BY <1>3, <2>2, <3>1
    <3>3. u[q - 1] # NL
      BY <1>3, <1>4, <3>2
    <3> QED
      BY <3>2, <3>3 DEF Lines
  <2> QED
    BY <2>1, <2>2
<1>10. ASSUME NEW q \in c + r + 1 .. n PROVE q - r + m \in Lines(u) <=> q \in Lines(t)
  <2>0. q \in c + r .. n
    OBVIOUS
  <2>a. u[q - r + m] = t[q]
    BY <1>3, <2>0
  <2>b. c >= 1 /\ m >= 1
    BY <1>3, <1>4
  <2>c. q - r + m \in 1 .. n - r + m /\ q - r + m # 1 /\ q # 1 /\ q \in 1 .. n
    BY ONLY <2>b, q \in c + r + 1 .. n, c \in Nat, r \in Nat, m \in Nat, n \in Nat
  <2>1. /\ u[q - r + m] = t[q] /\ q - r + m \in 1 .. n - r + m /\ q - r + m # 1 /\ q # 1
        /\ q \in 1 .. n
    BY <2>a, <2>c
  <2>2. q - 1 \in c + r .. n /\ q - r + m - 1 = q - 1 - r + m
    OBVIOUS
  <2>3. u[q - r + m - 1] = t[q - 1]
    BY <1>3, <2>2
  <2> QED
    BY <1>1, <1>3, <2>1, <2>3 DEF Lines
<1>11. \A q \in Lines(t) : ~(q < c) => q \in c + r + 1 .. n
  <2> TAKE q \in Lines(t)
  <2> HAVE ~(q < c)
  <2>1. q \in 1 .. n /\ ~(q \in c .. c + r)
    BY <1>5, <1>8
  <2> QED
    BY <2>1
<1>12. f \in [Lines(t) -> Lines(u)]
  <2>1. ASSUME NEW q \in Lines(t) PROVE f[q] \in Lines(u)
    <3>1. CASE q < c
      BY <1>5, <1>6, <1>7, <3>1
    <3>2. CASE ~(q < c)
      BY <1>6, <1>10, <1>11, <3>2
    <3> QED
      BY <3>1, <3>2
  <2> QED
    BY <1>6, <2>1
<1>13. \A p, q \in Lines(t) : p < q <=> f[p] < f[q]
  <2> TAKE p, q \in Lines(t)
  <2>1. p \in 1 .. n /\ q \in 1 .. n
    BY <1>5
  <2>2. (p < c \/ p >= c + r + 1) /\ (q < c \/ q >= c + r + 1)
    BY <1>11, <2>1
  <2> QED
    BY <1>6, <2>1, <2>2
<1>14. ASSUME NEW x \in Lines(u) PROVE \E q \in Lines(t) : f[q] = x
  <2>1. x \in 1 .. n - r + m
    BY <1>3 DEF Lines
  <2>2. CASE x < c
    <3>1. x \in Lines(t)
      BY <1>7, <2>1, <2>2
    <3> QED
      BY <1>6, <2>2, <3>1
  <2>3. CASE x >= c
    <3>1. ~(x \in c .. c + m)
      BY <1>9
    <3>2. x >= c + m + 1
      BY <2>1, <2>3, <3>1
    <3>3. PICK q \in Nat : q = x - m + r
      BY <2>1, <3>2
    <3>4. q \in c + r + 1 .. n /\ q - r + m = x
      BY <2>1, <3>2, <3>3
    <3>5. q \in Lines(t) /\ ~(q < c)
      BY <1>10, <3>4
    <3> QED
      BY <1>6, <3>4, <3>5
  <2> QED
    BY <2>1, <2>2, <2>3
<1>15. Added(t, u, f) = {}
  BY <1>14 DEF Added
<1>16. ASSUME NEW q \in Lines(t), q # l PROVE SameLine(t, q, u, f[q])
  <2>1. CASE q < c
    <3>0. q < l /\ l # 1
      <4>1. CASE q > l
        <5>1. q - 1 \in l .. c + r - 1 /\ q # 1
          BY <1>5, <2>1, <4>1
        <5> QED
          BY <1>5, <5>1
      <4> QED
        BY <1>5, <1>16, <4>1
    <3>1. PICK k \in Nat : k = l - 2
      BY <1>5, <3>0
    <3>2. q \in Nat \ {0} /\ q <= k + 1 /\ k <= n /\ k <= n - r + m /\ k + 1 = l - 1 /\ k + 1 \in 1 .. c - 1
      BY <1>3, <1>4, <1>5, <3>0, <3>1
    <3>3. \A x \in 1 .. k : t[x] = u[x]
      BY <1>3, <3>2
    <3>4. LineEnds(t, k + 1) /\ LineEnds(u, k + 1)
      <4>1. t[k + 1] = NL /\ u[k + 1] = t[k + 1]
        BY <1>3, <1>5, <3>0, <3>2
      <4> QED
        BY <4>1 DEF LineEnds
    <3>5. SameLine(t, q, u, q)
      BY <1>1, <1>3, <3>2, <3>3, <3>4, SameLineBefore
    <3> QED
      BY <1>6, <2>1, <3>5
  <2>2. CASE ~(q < c)
    <3>1. PICK d \in Int : d = m - r
      OBVIOUS
    <3>2. q \in c + r + 1 .. n
      BY <1>11, <2>2
    <3>3. q \in 1 .. n /\ q + d >= 1 /\ q + d = q - r + m /\ n + d = n - r + m
      BY <1>3, <1>4, <3>1, <3>2
    <3>4. \A x \in q .. n : u[x + d] = t[x]
      <4> TAKE x \in q .. n
      <4>1. x \in c + r .. n /\ x + d = x - r + m
        BY <3>1, <3>2
      <4> QED
        BY <1>3, <4>1
    <3>5. SameLine(t, q, u, q + d)
      BY <1>1, <1>3, <3>3, <3>4, SameLineBehind
    <3> QED
      BY <1>6, <2>2, <3>3, <3>5
  <2> QED
    BY <2>1, <2>2
<1> QED
  BY <1>6, <1>12, <1>13, <1>15, <1>16 DEF Moved, SameBut

(* The lines stay where they are.                                          *)
Stay(t) == [q \in Lines(t) |-> q]

(* A new header behind the last line: nothing moves.                       *)
LEMMA NewHeaderMoves ==
  ASSUME NEW t \in Seq(Symbols), NEW u \in Seq(Symbols), NEW g \in Nat,
         g = IF Len(t) = 0 THEN 1 ELSE Len(t) + 2, g < Len(u),
         \A q \in 1 .. Len(t) : u[q] = t[q], Len(t) # 0 => u[Len(t) + 1] = NL,
         \A q \in g .. Len(u) - 1 : u[q] # NL,
         NEW f, f = Stay(t)
  PROVE  /\ Moved(t, u, f) /\ Added(t, u, f) = {g}
         /\ \A q \in Lines(t) : f[q] = q /\ q < g /\ SameLine(t, q, u, q)
<1>1. PICK n \in Nat : n = Len(t)
  OBVIOUS
<1>2. PICK m \in Nat : m = Len(u)
  OBVIOUS
<1>3. /\ g = (IF n = 0 THEN 1 ELSE n + 2) /\ g < m
      /\ \A q \in 1 .. n : u[q] = t[q]
      /\ n # 0 => u[n + 1] = NL
      /\ \A q \in g .. m - 1 : u[q] # NL
  BY <1>1, <1>2
<1>4. \A q \in Lines(t) : q \in 1 .. n /\ f[q] = q /\ q < g
  BY <1>1, <1>3 DEF Lines, Stay
<1>5. ASSUME NEW q \in 1 .. n PROVE q \in Lines(u) <=> q \in Lines(t)
  <2>1. u[q] = t[q] /\ q <= m
    BY <1>3
  <2>2. q # 1 => q - 1 \in 1 .. n
    OBVIOUS
  <2>3. q # 1 => u[q - 1] = t[q - 1]
    BY <1>3, <2>2
  <2> QED
    BY <1>1, <1>2, <2>1, <2>3 DEF Lines
<1>6. g \in Lines(u)
  <2>1. CASE n = 0
    BY <1>2, <1>3, <2>1 DEF Lines
  <2>2. CASE n # 0
    <3>1. g - 1 = n + 1 /\ g \in 1 .. m /\ g \in g .. m - 1
      BY <1>3, <2>2
    <3> QED
      BY <1>2, <1>3, <2>2, <3>1 DEF Lines
  <2> QED
    BY <2>1, <2>2
<1>7. ASSUME NEW x \in Lines(u), x # g PROVE x \in Lines(t)
  <2>1. x \in 1 .. m /\ (x # 1 => u[x - 1] = NL /\ u[x] # NL)
    BY <1>2 DEF Lines
  <2>2. ~(x > g)
    <3>1. SUFFICES ASSUME x > g PROVE FALSE
      OBVIOUS
    <3>2. x - 1 \in g .. m - 1 /\ x # 1
      BY <1>3, <2>1, <3>1
    <3> QED
      BY <1>3, <2>1, <3>2
  <2>3. x \in 1 .. n
    <3>1. x # n + 1 \/ n = 0
      BY <1>3, <2>1
    <3> QED
      BY <1>3, <1>7, <2>1, <2>2, <3>1
  <2> QED
    BY <1>5, <2>3
<1>8. Added(t, u, f) = {g}
  <2>1. g \in Added(t, u, f)
    BY <1>4, <1>6 DEF Added
  <2>2. ASSUME NEW x \in Added(t, u, f) PROVE x = g
    <3>1. x \in Lines(u) /\ \A q \in Lines(t) : f[q] # x
      BY DEF Added
    <3> QED
      BY <1>4, <1>7, <3>1
  <2> QED
    BY <2>1, <2>2
<1>9. Moved(t, u, f)
  <2>1. f \in [Lines(t) -> Lines(u)]
    BY <1>4, <1>5 DEF Stay
  <2> QED
    BY <1>4, <2>1 DEF Moved
<1>10. ASSUME NEW q \in Lines(t) PROVE SameLine(t, q, u, q)
  <2>1. q \in Nat \ {0} /\ q <= n + 1 /\ n <= m /\ n # 0
    BY <1>3, <1>4
  <2>2. LineEnds(t, n + 1) /\ LineEnds(u, n + 1)
    BY <1>1, <1>3, <2>1 DEF LineEnds
  <2>3. n <= Len(t) /\ n <= Len(u) /\ \A x \in 1 .. n : t[x] = u[x]
    BY <1>1, <1>2, <1>3, <2>1
  <2> QED
    BY <1>1, <1>2, <2>1, <2>2, <2>3, SameLineBefore
<1> QED
  BY <1>4, <1>8, <1>9, <1>10

(* The header of section s is at g, the last line.                         *)
LastHeader(u, s, g) ==
  /\ g \in Lines(u) /\ FirstHeader(u, s, g)
  /\ \A q \in Lines(u) : ~(g < q)
  /\ \A k \in Keys, p \in Lines(u) : ~Entry(u, s, k, p)

(* What is found in t is found in u.                                       *)
FoundStill(t, u) ==
  \A r \in Names, k \in Keys : \A w : Found(t, r, k, w) => Found(u, r, k, w)

(* Data_Append of a header for a section that has none: every setting      *)
(* stays what it was, and there is nothing in the new section.             *)
LEMMA HeaderAdded ==
  ASSUME PlainNames, NEW t \in Seq(Symbols), NEW u \in Seq(Symbols), NEW s \in Names, NEW g \in Nat,
         g = IF Len(t) = 0 THEN 1 ELSE Len(t) + 2, Len(u) = g + Len(s) + 2,
         \A q \in 1 .. Len(t) : u[q] = t[q], Len(t) # 0 => u[Len(t) + 1] = NL,
         HeaderAt(u, g, s), \A q \in Lines(t) : ~HeaderAt(t, q, s)
  PROVE  LastHeader(u, s, g) /\ FoundStill(t, u)
<1>1. PICK n \in Nat : n = Len(t)
  OBVIOUS
<1>2. PICK m \in Nat : m = Len(s) /\ \A j \in 1 .. m : s[j] # NL
  BY NameFacts
<1>3. g = (IF n = 0 THEN 1 ELSE n + 2) /\ Len(u) = g + m + 2
  BY <1>1, <1>2
<1>4. /\ u[g] = "[" /\ \A j \in 1 .. m : u[g + 1 + j - 1] = s[j]
      /\ u[g + 1 + m] = "]"
  BY <1>2 DEF HeaderAt, Reads
<1>5. \A q \in g .. g + m + 1 : u[q] # NL
  <2> TAKE q \in g .. g + m + 1
  <2>1. NL # "[" /\ NL # "]"
    BY DEF PlainNames
  <2>2. PICK j \in Nat : j = q - g
    BY ONLY g \in Nat, m \in Nat, q \in g .. g + m + 1
  <2>3. q = g \/ q = g + 1 + m \/ (j \in 1 .. m /\ q = g + 1 + j - 1)
    BY ONLY <2>2, g \in Nat, m \in Nat, j \in Nat, q \in g .. g + m + 1
  <2> QED
    BY <1>2, <1>4, <2>1, <2>3
<1> DEFINE f == Stay(t)
<1>6. /\ Moved(t, u, f) /\ Added(t, u, f) = {g}
      /\ \A q \in Lines(t) : f[q] = q /\ q < g /\ SameLine(t, q, u, q)
  <2>1. g < Len(u) /\ \A q \in g .. Len(u) - 1 : u[q] # NL
    BY <1>3, <1>5
  <2>2. /\ g \in Nat /\ g = (IF Len(t) = 0 THEN 1 ELSE Len(t) + 2)
        /\ \A q \in 1 .. Len(t) : u[q] = t[q]
        /\ Len(t) # 0 => u[Len(t) + 1] = NL
    OBVIOUS
  <2>3. PICK e : e = Stay(t)
    OBVIOUS
  <2>4. Moved(t, u, e) /\ Added(t, u, e) = {g}
    BY ONLY <2>1, <2>2, <2>3, NewHeaderMoves, t \in Seq(Symbols), u \in Seq(Symbols)
  <2>5. \A q \in Lines(t) : e[q] = q /\ q < g /\ SameLine(t, q, u, q)
    BY ONLY <2>1, <2>2, <2>3, NewHeaderMoves, t \in Seq(Symbols), u \in Seq(Symbols)
  <2> QED
    BY <2>3, <2>4, <2>5
<1> HIDE DEF f
<1>7. g \in Lines(u) /\ \A q \in Lines(u) : q = g \/ q \in Lines(t)
  BY <1>6 DEF Added
<1>8. \A q \in Lines(u) : ~(g < q)
  BY <1>3, <1>6, <1>7
<1>9. \A q \in Lines(t) : q \in 1 .. Len(t) /\ q \in 1 .. Len(u)
  BY <1>1, <1>3 DEF Lines
<1>10. ASSUME NEW q \in Lines(t), NEW r \in Names, NEW k \in Keys PROVE Alike(t, q, u, q, r, k)
  BY <1>6, <1>9, SameIsAlike
<1>11. FirstHeader(u, s, g)
  <2>1. \A q \in Lines(t) : ~HeaderAt(u, q, s)
    <3>1. CASE Keys = {}
      <4> TAKE q \in Lines(t)
      <4>1. SameLine(u, q, t, q)
        BY <1>6, SameLineBack
      <4>2. q \in Nat
        BY <1>9
      <4> QED
        BY <4>1, <4>2, SameHeader
    <3>2. CASE Keys # {}
      BY <1>10, <3>2 DEF Alike
    <3> QED
      BY <3>1, <3>2
  <2>2. \A q \in Lines(u) : q < g => ~HeaderAt(u, q, s)
    BY <1>7, <2>1
  <2> QED
    BY <1>7, <2>2 DEF FirstHeader
<1>12. ASSUME NEW k \in Keys, NEW p \in Lines(u) PROVE ~Entry(u, s, k, p)
  <2>1. SUFFICES ASSUME Entry(u, s, k, p) PROVE FALSE
    OBVIOUS
  <2>2. PICK h \in Lines(u) : FirstHeader(u, s, h) /\ FirstKey(u, h, k, p)
    BY <2>1 DEF Entry
  <2>3. ~(g < h) /\ ~(h < g)
    BY <1>7, <1>8, <1>11, <2>2 DEF FirstHeader
  <2>4. h = g
    BY <2>3, LineFacts
  <2> QED
    BY <1>8, <2>2, <2>4 DEF FirstKey
<1>13. ASSUME NEW r \in Names, NEW k \in Keys, NEW w, Found(t, r, k, w) PROVE Found(u, r, k, w)
  <2>1. CASE r = s
    <3>1. \A p \in Lines(t) : ~Entry(t, s, k, p)
      BY DEF Entry, FirstHeader
    <3> QED
      BY <1>12, <1>13, <2>1, <3>1 DEF Found
  <2>2. CASE r # s
    <3>1. \A q \in Lines(t) : Alike(t, q, u, f[q], r, k)
      BY <1>6, <1>10
    <3>2. \A x \in Added(t, u, f) : ~HeaderAt(u, x, r)
      BY <1>6, <1>7, <2>2, OneHeader
    <3>3. ~KeyAt(u, g, k)
      BY <1>4, <1>7, KeyIsNoHeader
    <3>4. \A h \in Lines(t), x \in Added(t, u, f) :
            FirstHeader(t, r, h) /\ f[h] < x => Harmless(t, u, f, h, k, x)
      BY <1>6, <3>3 DEF Harmless
    <3>5. /\ \A p \in Lines(t) : Entry(t, r, k, p) <=> Entry(u, r, k, f[p])
          /\ \A x \in Added(t, u, f) : ~Entry(u, r, k, x)
      BY <1>6, <3>1, <3>2, <3>4, EntryKept
    <3>6. \A p \in Lines(t) : Entry(t, r, k, p) /\ WordAt(t, p + Len(k), w) => WordAt(u, f[p] + Len(k), w)
      <4> TAKE p \in Lines(t)
      <4> HAVE Entry(t, r, k, p) /\ WordAt(t, p + Len(k), w)
      <4>1. KeyAt(t, p, k)
        BY DEF Entry, FirstKey
      <4>2. p \in Nat \ {0} /\ SameLine(t, p, u, p)
        BY <1>6, <1>9
      <4> QED
        BY <1>6, <4>1, <4>2, SameWord
    <3> QED
      BY <1>6, <1>13, <3>5, <3>6, FoundKept
  <2> QED
    BY <2>1, <2>2
<1> QED
  BY <1>7, <1>8, <1>11, <1>12, <1>13 DEF FoundStill, LastHeader

(* The symbols of the line of a key                                        *)
IsKeyLine(y, k, v) ==
  /\ y \in Seq(Symbols) /\ Len(y) = Len(k) + 4 + Len(v)
  /\ \A j \in 1 .. Len(k) : y[j] = k[j]
  /\ y[Len(k) + 1] = SP /\ y[Len(k) + 2] = "=" /\ y[Len(k) + 3] = SP
  /\ \A j \in 1 .. Len(v) : y[Len(k) + 3 + j] = v[j]
  /\ y[Len(k) + 4 + Len(v)] = NL

LEMMA KeyLineSymbols ==
  ASSUME NEW k \in Seq(Symbols), NEW v \in Seq(Symbols), NEW y, y = KeyLine(k, v)
  PROVE  IsKeyLine(y, k, v)
<1>1. PICK a : a = <<SP, "=", SP>>
  OBVIOUS
<1>2. PICK b : b = <<NL>>
  OBVIOUS
<1>3. /\ a \in Seq(Symbols) /\ Len(a) = 3 /\ a[1] = SP /\ a[2] = "=" /\ a[3] = SP
      /\ b \in Seq(Symbols) /\ Len(b) = 1 /\ b[1] = NL
  BY <1>1, <1>2 DEF Symbols
<1>0. a \in Seq(Symbols) /\ b \in Seq(Symbols)
  BY <1>3
<1>4. y = ((k \o a) \o v) \o b
  BY <1>1, <1>2, Zenon DEF KeyLine
<1>5. PICK c : c = k \o a
  OBVIOUS
<1>6. PICK d : d = c \o v
  OBVIOUS
<1>7. y = d \o b
  BY <1>4, <1>5, <1>6, Zenon
<1>8. PICK m \in Nat, n \in Nat : m = Len(k) /\ n = Len(v)
  OBVIOUS
<1>9. c \in Seq(Symbols) /\ Len(c) = Len(k) + Len(a)
  BY ONLY <1>0, <1>5, k \in Seq(Symbols), ConcatSymbols
<1>10. \A i \in 1 .. Len(k) : c[i] = k[i]
  BY ONLY <1>0, <1>5, k \in Seq(Symbols), ConcatSymbols
<1>11. \A i \in 1 .. Len(a) : c[Len(k) + i] = a[i]
  BY ONLY <1>0, <1>5, k \in Seq(Symbols), ConcatSymbols
<1>12. d \in Seq(Symbols) /\ Len(d) = Len(c) + Len(v)
  BY ONLY <1>6, <1>9, v \in Seq(Symbols), ConcatSymbols
<1>13. \A i \in 1 .. Len(c) : d[i] = c[i]
  BY ONLY <1>6, <1>9, v \in Seq(Symbols), ConcatSymbols
<1>14. \A i \in 1 .. Len(v) : d[Len(c) + i] = v[i]
  BY ONLY <1>6, <1>9, v \in Seq(Symbols), ConcatSymbols
<1>15. y \in Seq(Symbols) /\ Len(y) = Len(d) + Len(b)
  BY ONLY <1>0, <1>7, <1>12, ConcatSymbols
<1>16. \A i \in 1 .. Len(d) : y[i] = d[i]
  BY ONLY <1>0, <1>7, <1>12, ConcatSymbols
<1>17. \A i \in 1 .. Len(b) : y[Len(d) + i] = b[i]
  BY ONLY <1>0, <1>7, <1>12, ConcatSymbols
<1>18. Len(c) = m + 3 /\ Len(d) = m + 3 + n /\ Len(y) = m + 4 + n
  BY ONLY <1>3, <1>8, <1>9, <1>12, <1>15, m \in Nat, n \in Nat
<1>19. \A j \in 1 .. m + 3 : y[j] = c[j]
  <2> TAKE j \in 1 .. m + 3
  <2>1. j \in 1 .. m + 3 + n
    OBVIOUS
  <2> QED
    BY <1>13, <1>16, <1>18, <2>1
<1>20. \A j \in 1 .. m : y[j] = k[j]
  <2> TAKE j \in 1 .. m
  <2>1. j \in 1 .. m + 3
    OBVIOUS
  <2> QED
    BY <1>8, <1>10, <1>19, <2>1
<1>21. y[m + 1] = SP /\ y[m + 2] = "=" /\ y[m + 3] = SP
  <2>1. c[m + 1] = SP /\ c[m + 2] = "=" /\ c[m + 3] = SP
    BY <1>3, <1>8, <1>11
  <2>2. m + 1 \in 1 .. m + 3 /\ m + 2 \in 1 .. m + 3 /\ m + 3 \in 1 .. m + 3
    OBVIOUS
  <2> QED
    BY <1>19, <2>1, <2>2
<1>22. \A j \in 1 .. n : y[m + 3 + j] = v[j]
  <2> TAKE j \in 1 .. n
  <2>1. m + 3 + j \in 1 .. m + 3 + n
    OBVIOUS
  <2> QED
    BY <1>8, <1>14, <1>16, <1>18, <2>1
<1>23. y[m + 4 + n] = NL
  <2>1. y[(m + 3 + n) + 1] = NL
    BY <1>3, <1>17, <1>18
  <2>2. (m + 3 + n) + 1 = m + 4 + n
    OBVIOUS
  <2> QED
    BY <2>1, <2>2
<1> QED
  BY <1>8, <1>15, <1>18, <1>20, <1>21, <1>22, <1>23 DEF IsKeyLine

(* What SetString has written reads as the first word of the value.        *)
LEMMA WordWritten ==
  ASSUME PlainNames, NEW u \in Seq(Symbols), NEW v \in Values, NEW c \in Nat \ {0}, NEW p \in Nat,
         c <= p, p + Len(v) <= Len(u) + 1, \A q \in c .. p - 1 : u[q] \in {SP, "="},
         \A j \in 1 .. Len(v) : u[p + j - 1] = v[j], LineEnds(u, p + Len(v))
  PROVE  WordAt(u, c, Word(v))
<1>1. v \in Seq(Symbols) /\ v # <<>> /\ v[1] \notin {SP, "="} /\ \A j \in 1 .. Len(v) : v[j] # NL
  BY cINIAssumption DEF PlainNames
<1>2. PICK m \in Nat : m = Len(v)
  BY <1>1
<1>3. m >= 1
  BY <1>1, <1>2
<1>4. PICK n \in Nat : n = Len(u)
  OBVIOUS
<1> DEFINE S == {q \in 1 .. m + 1 : q = m + 1 \/ v[q] = SP}
<1>5. m + 1 \in S /\ S \subseteq Nat
  OBVIOUS
<1>6. PICK e : e = Min(S)
  OBVIOUS
<1>7. e \in S /\ \A x \in S : e <= x
  <2> HIDE DEF S
  <2> QED
    BY <1>5, <1>6, MinFacts
<1>8. Word(v) = SubSeq(v, 1, e - 1)
  <2>1. S = {q \in 1 .. Len(v) + 1 : q = Len(v) + 1 \/ v[q] = SP}
    BY <1>2
  <2> QED
    BY <1>6, <2>1, Zenon DEF Word
<1>9. e \in 1 .. m + 1 /\ (e = m + 1 \/ v[e] = SP) /\ \A q \in 1 .. e - 1 : v[q] # SP
  <2>1. ASSUME NEW q \in 1 .. e - 1 PROVE v[q] # SP
    <3>1. q \in 1 .. m + 1 /\ ~(e <= q)
      BY <1>7
    <3> QED
      BY <1>7, <3>1
  <2> QED
    BY <1>7, <2>1
<1> HIDE DEF S
<1>10. PICK f \in Nat : f = p + e - 1
  BY <1>9
<1>11. f \in p .. n + 1
  BY <1>2, <1>4, <1>9, <1>10
<1>12. \A j \in 1 .. m : u[p + j - 1] = v[j]
  BY <1>2
<1>13. \A q \in p .. f - 1 : u[q] \notin {SP, NL}
  <2> TAKE q \in p .. f - 1
  <2>1. PICK j \in Nat : j = q - p + 1
    OBVIOUS
  <2>2. j \in 1 .. m /\ j \in 1 .. e - 1 /\ p + j - 1 = q
    BY <1>9, <1>10, <2>1
  <2>3. u[q] = v[j]
    BY <1>12, <2>2
  <2> QED
    BY <1>1, <1>2, <1>9, <2>2, <2>3
<1>14. p <= Len(u) => u[p] \notin {SP, "="}
  <2>1. 1 \in 1 .. m /\ p + 1 - 1 = p
    BY <1>3
  <2> QED
    BY <1>1, <1>12, <2>1
<1>15. f <= Len(u) => u[f] \in {SP, NL}
  <2>1. CASE e = m + 1
    <3>1. f = p + Len(v)
      BY <1>2, <1>10, <2>1
    <3> QED
      BY <3>1 DEF LineEnds
  <2>2. CASE e # m + 1
    <3>1. e \in 1 .. m /\ f = p + e - 1 /\ v[e] = SP
      BY <1>9, <1>10, <2>2
    <3> QED
      BY <1>12, <3>1
  <2> QED
    BY <2>1, <2>2
<1>16. Word(v) = SubSeq(u, p, f - 1)
  <2>1. PICK d \in Int : d = p - 1
    OBVIOUS
  <2>2. 1 + d = p /\ e + d = f
    BY <1>9, <1>10, <2>1
  <2>3. \A x \in 1 .. e - 1 : v[x] = u[x + d]
    <3> TAKE x \in 1 .. e - 1
    <3>1. x \in 1 .. m /\ x + d = p + x - 1
      BY <1>9, <2>1
    <3> QED
      BY <1>12, <3>1
  <2>4. /\ 1 \in Nat \ {0} /\ 1 + d >= 1 /\ e \in Int /\ e >= 1 /\ e <= Len(v) + 1
        /\ e + d <= Len(u) + 1
    BY <1>2, <1>4, <1>9, <1>11, <2>2
  <2>5. SubSeq(v, 1, e - 1) = SubSeq(u, 1 + d, e + d - 1)
    BY <1>1, <2>3, <2>4, SameParts
  <2>6. (e + d) - 1 = f - 1
    BY <2>2
  <2>7. SubSeq(u, 1 + d, e + d - 1) = SubSeq(u, p, f - 1)
    <3>1. PICK a : a = 1 + d
      OBVIOUS
    <3>2. PICK b : b = e + d - 1
      OBVIOUS
    <3>3. a = p /\ b = f - 1
      BY <1>9, <2>2, <2>6, <3>1, <3>2
    <3>4. SubSeq(u, a, b) = SubSeq(u, p, f - 1)
      BY ONLY <3>3
    <3> QED
      BY ONLY <3>1, <3>2, <3>4, Zenon
  <2> QED
    BY ONLY <1>8, <2>5, <2>7, Zenon
<1>17. WordFrom(u, c, p, Word(v))
  <2>1. \A q \in c .. p - 1 : u[q] \in {SP, "="}
    OBVIOUS
  <2>2. f \in p .. Len(u) + 1
    BY <1>4, <1>11
  <2> QED
    BY <1>13, <1>14, <1>15, <1>16, <2>1, <2>2 DEF WordFrom
<1>18. p \in c .. Len(u) + 1
  BY <1>4, <1>11
<1> QED
  BY <1>17, <1>18 DEF WordAt

(* What SetString promises of the text u it makes of t: the key has the    *)
(* value, and every other key what it had.                                 *)
Written(t, u, s, k, v) ==
  /\ Found(u, s, k, Word(v))
  /\ \A r \in Names, j \in Keys : \A w :
       (r # s \/ j # k) /\ Found(t, r, j, w) => Found(u, r, j, w)

(* SetString puts the line of a new key behind the header: the key then    *)
(* has the value, and everything else stays what it was.                   *)
LEMMA KeyInserted ==
  ASSUME PlainNames, NEW t \in Seq(Symbols), NEW u \in Seq(Symbols),
         NEW s \in Names, NEW k \in Keys, NEW v \in Values, NEW c \in Nat,
         Edited(t, u, c, 0, KeyLine(k, v)), NEW h \in Lines(t), FirstHeader(t, s, h),
         h < c, t[c - 1] = NL, c = Len(t) + 1 \/ c \in Lines(t),
         \A q \in Lines(t) : h < q => c <= q, \A p \in Lines(t) : ~Entry(t, s, k, p)
  PROVE  Written(t, u, s, k, v)
<1>1. PICK n \in Nat : n = Len(t)
  OBVIOUS
<1>2. PICK m \in Nat : m = Len(k) /\ m >= 1
  BY NameFacts
<1>3. /\ k \in Seq(Symbols) /\ v \in Seq(Symbols)
      /\ \A j \in 1 .. Len(v) : v[j] # NL
      /\ \A j \in 1 .. m : k[j] \notin {"[", NL}
  BY <1>2, NameFacts, cINIAssumption DEF PlainNames
<1>4. PICK l \in Nat : l = Len(v)
  BY <1>3
<1>5. PICK y : y = KeyLine(k, v)
  OBVIOUS
<1>6. /\ y \in Seq(Symbols) /\ Len(y) = m + 4 + l
      /\ \A j \in 1 .. m : y[j] = k[j]
      /\ y[m + 1] = SP /\ y[m + 2] = "=" /\ y[m + 3] = SP
      /\ \A j \in 1 .. l : y[m + 3 + j] = v[j]
      /\ y[m + 4 + l] = NL
  <2>1. k \in Seq(Symbols) /\ v \in Seq(Symbols)
    BY <1>3
  <2>2. IsKeyLine(y, k, v)
    BY <1>5, <2>1, KeyLineSymbols
  <2> QED
    BY <1>2, <1>4, <2>2 DEF IsKeyLine
<1>7. /\ c \in 1 .. n + 1 /\ Len(u) = n + (m + 4 + l)
      /\ \A j \in 1 .. m + 4 + l : u[c + j - 1] = y[j]
  <2>1. PICK z \in Nat : z = 0
    OBVIOUS
  <2>2. Edited(t, u, c, z, y)
    BY <1>5, <2>1
  <2>3. /\ c \in 1 .. n + 1 /\ Len(u) = n - z + (m + 4 + l)
        /\ \A j \in 1 .. m + 4 + l : u[c + j - 1] = y[j]
    BY <1>1, <1>6, <2>2 DEF Edited
  <2> QED
    BY <2>1, <2>3
<1>8. h \in 1 .. n /\ h < c /\ c > 1
  BY <1>1 DEF Lines
<1>9. \A j \in 1 .. (m + 4 + l) - 1 : y[j] # NL
  <2> TAKE j \in 1 .. (m + 4 + l) - 1
  <2>1. NL # SP /\ NL # "="
    BY DEF PlainNames
  <2>2. PICK i \in Int : i = j - (m + 3)
    OBVIOUS
  <2>3. j \in 1 .. m \/ j = m + 1 \/ j = m + 2 \/ j = m + 3 \/ (i \in 1 .. l /\ j = m + 3 + i)
    BY <2>2
  <2>4. CASE j \in 1 .. m
    <3>1. y[j] = k[j]
      BY <1>6, <2>4
    <3>2. k[j] # NL
      BY <1>3, <2>4
    <3> QED
      BY <3>1, <3>2
  <2>5. CASE j = m + 1 \/ j = m + 2 \/ j = m + 3
    BY <1>6, <2>1, <2>5
  <2>6. CASE i \in 1 .. l /\ j = m + 3 + i
    <3>1. y[m + 3 + i] = v[i] /\ v[i] # NL
      BY <1>3, <1>4, <1>6, <2>6
    <3> QED
      BY <2>6, <3>1
  <2> QED
    BY <2>3, <2>4, <2>5, <2>6
<1>10. PICK f : f = Shift(t, c, Len(y))
  OBVIOUS
<1>11. /\ Moved(t, u, f) /\ Added(t, u, f) = {c}
       /\ \A q \in Lines(t) : SameLine(t, q, u, f[q])
  <2>1. Len(y) >= 1 /\ y[Len(y)] = NL /\ (\A j \in 1 .. Len(y) - 1 : y[j] # NL) /\ y[1] # NL
    <3>1. 1 \in 1 .. m
      BY <1>2
    <3> QED
      BY <1>3, <1>6, <1>9, <3>1
  <2>2. Edited(t, u, c, 0, y)
    BY <1>5
  <2>3. t[c - 1] = NL /\ (c = Len(t) + 1 \/ c \in Lines(t))
    OBVIOUS
  <2>a. y \in Seq(Symbols) /\ c > 1
    BY <1>6, <1>8
  <2>4. Moved(t, u, f) /\ Added(t, u, f) = {c}
    BY ONLY <2>a, <1>10, <2>1, <2>2, <2>3, NewLineMoves, t \in Seq(Symbols),
            u \in Seq(Symbols), c \in Nat
  <2>5. \A q \in Lines(t) : SameLine(t, q, u, f[q])
    BY ONLY <2>a, <1>10, <2>1, <2>2, <2>3, NewLineMoves, t \in Seq(Symbols),
            u \in Seq(Symbols), c \in Nat
  <2> QED
    BY <2>4, <2>5
<1>12. \A q \in Lines(t) : q \in 1 .. Len(t) /\ f[q] = (IF q < c THEN q ELSE q + (m + 4 + l))
  BY <1>6, <1>10 DEF Shift, Lines
<1>13. f[h] = h /\ c \in Lines(u) /\ \A q \in Lines(t) : f[q] \in 1 .. Len(u) /\ f[q] \in Lines(u)
  BY <1>8, <1>11, <1>12 DEF Added, Moved, Lines
<1>14. KeyAt(u, c, k)
  <2>1. \A j \in 1 .. m : u[c + j - 1] = k[j]
    <3> TAKE j \in 1 .. m
    <3>1. j \in 1 .. m + 4 + l
      OBVIOUS
    <3> QED
      BY <1>6, <1>7, <3>1
  <2>2. u[c + m] = SP
    <3>1. m + 1 \in 1 .. m + 4 + l /\ c + (m + 1) - 1 = c + m
      OBVIOUS
    <3> QED
      BY <1>6, <1>7, <3>1
  <2>3. c + m <= Len(u) + 1
    BY <1>7
  <2> QED
    BY <1>2, <2>1, <2>2, <2>3 DEF KeyAt, Reads
<1>15. u[c] # "["
  BY <1>13, <1>14, KeyIsNoHeader
<1>16. ASSUME NEW r \in Names, NEW j \in Keys
       PROVE  /\ \A q \in Lines(t) : Alike(t, q, u, f[q], r, j)
              /\ \A x \in Added(t, u, f) : ~HeaderAt(u, x, r)
  <2>1. \A q \in Lines(t) : Alike(t, q, u, f[q], r, j)
    BY <1>11, <1>12, <1>13, SameIsAlike
  <2>2. ~HeaderAt(u, c, r)
    BY <1>15 DEF HeaderAt
  <2> QED
    BY <1>11, <2>1, <2>2
<1>17. Entry(u, s, k, c)
  <2>1. FirstHeader(u, s, h)
    BY <1>11, <1>13, <1>16, HeaderKept
  <2>2. ASSUME NEW q \in Lines(u), h < q, q # c PROVE c < q
    <3>1. q \notin Added(t, u, f)
      BY <1>11, <2>2
    <3>2. PICK x \in Lines(t) : f[x] = q
      BY <3>1 DEF Added
    <3>3. f[h] < f[x]
      BY <1>13, <2>2, <3>2
    <3>4. h < x
      BY <1>11, <3>3 DEF Moved
    <3>5. c <= x
      BY <3>4
    <3> QED
      BY <1>8, <1>12, <3>2, <3>5
  <2>3. \A q \in Lines(u) : h < q /\ q <= c => u[q] # "["
    <3> TAKE q \in Lines(u)
    <3> HAVE h < q /\ q <= c
    <3>1. q \in Nat
      BY LineFacts
    <3>2. q = c
      BY <2>2, <3>1
    <3> QED
      BY <1>15, <3>2
  <2>4. \A q \in Lines(u) : h < q /\ q < c => ~KeyAt(u, q, k)
    <3> TAKE q \in Lines(u)
    <3> HAVE h < q /\ q < c
    <3>1. q \in Nat
      BY LineFacts
    <3> QED
      BY <2>2, <3>1
  <2>5. FirstKey(u, h, k, c)
    BY <1>13, <1>14, <2>3, <2>4 DEF FirstKey
  <2>6. h \in Lines(u)
    BY <1>13
  <2> QED
    BY <2>1, <2>5, <2>6 DEF Entry
<1>18. WordAt(u, c + Len(k), Word(v))
  <2>1. PICK p \in Nat : p = c + m + 3
    OBVIOUS
  <2>2. c + m \in Nat \ {0} /\ c + m <= p /\ p + l <= Len(u) + 1
    BY <1>7, <1>8, <2>1
  <2>3. \A q \in c + m .. p - 1 : u[q] \in {SP, "="}
    <3> TAKE q \in c + m .. p - 1
    <3>1. PICK i \in Nat : i = q - c + 1
      BY <2>1
    <3>2. i \in {m + 1, m + 2, m + 3} /\ i \in 1 .. m + 4 + l /\ c + i - 1 = q
      BY <2>1, <3>1
    <3>3. u[q] = y[i]
      BY <1>7, <3>2
    <3> QED
      BY <1>6, <3>2, <3>3
  <2>4. \A j \in 1 .. l : u[p + j - 1] = v[j]
    <3> TAKE j \in 1 .. l
    <3>1. m + 3 + j \in 1 .. m + 4 + l /\ c + (m + 3 + j) - 1 = p + j - 1
      BY <2>1
    <3> QED
      BY <1>6, <1>7, <3>1
  <2>5. u[p + l] = NL
    <3>1. m + 4 + l \in 1 .. m + 4 + l /\ c + (m + 4 + l) - 1 = p + l
      BY <2>1
    <3> QED
      BY <1>6, <1>7, <3>1
  <2>6. LineEnds(u, p + l)
    BY <2>5 DEF LineEnds
  <2>7. WordAt(u, c + m, Word(v))
    BY <1>4, <2>2, <2>3, <2>4, <2>6, WordWritten
  <2> QED
    BY <1>2, <2>7
<1>19. ASSUME NEW r \in Names, NEW j \in Keys, NEW w, r # s \/ j # k, Found(t, r, j, w)
       PROVE  Found(u, r, j, w)
  <2>1. ASSUME NEW g \in Lines(t), FirstHeader(t, r, g), f[g] < c PROVE Harmless(t, u, f, g, j, c)
    <3>1. CASE r = s
      <4>1. ~KeyAt(u, c, j)
        BY <1>13, <1>14, <1>19, <3>1, OneKey
      <4> QED
        BY <1>15, <4>1 DEF Harmless
    <3>2. CASE r # s
      <4>1. HeaderAt(t, h, s) /\ HeaderAt(t, g, r)
        BY <2>1 DEF FirstHeader
      <4>2. g # h
        BY <3>2, <4>1, OneHeader
      <4>3. g < c
        BY <1>8, <1>12, <2>1
      <4>4. ~(h < g)
        BY <1>12, <4>3
      <4>5. g < h
        BY <1>12, <4>2, <4>4
      <4>6. t[h] = "[" /\ f[h] < c
        BY <1>8, <1>13, <4>1 DEF HeaderAt
      <4> QED
        BY <4>5, <4>6 DEF Harmless
    <3> QED
      BY <3>1, <3>2
  <2>2. /\ \A p \in Lines(t) : Entry(t, r, j, p) <=> Entry(u, r, j, f[p])
        /\ \A x \in Added(t, u, f) : ~Entry(u, r, j, x)
    <3>1. \A g \in Lines(t), x \in Added(t, u, f) :
            FirstHeader(t, r, g) /\ f[g] < x => Harmless(t, u, f, g, j, x)
      BY <1>11, <2>1
    <3> QED
      BY <1>11, <1>16, <3>1, EntryKept
  <2>3. \A p \in Lines(t) : Entry(t, r, j, p) /\ WordAt(t, p + Len(j), w) => WordAt(u, f[p] + Len(j), w)
    <3> TAKE p \in Lines(t)
    <3> HAVE Entry(t, r, j, p) /\ WordAt(t, p + Len(j), w)
    <3>1. KeyAt(t, p, j)
      BY DEF Entry, FirstKey
    <3>2. p \in Nat \ {0} /\ f[p] \in Nat \ {0} /\ SameLine(t, p, u, f[p])
      BY <1>11, <1>12, <1>13
    <3> QED
      BY <3>1, <3>2, SameWord
  <2> QED
    BY <1>11, <1>19, <2>2, <2>3, FoundKept
<1>20. Found(u, s, k, Word(v))
  BY <1>13, <1>17, <1>18 DEF Found
<1> QED
  BY <1>19, <1>20 DEF Written

(* A section and a key are the only ones that are read from their line.    *)
LEMMA EntryIsOfOne ==
  ASSUME PlainNames, NEW t \in Seq(Symbols), NEW s \in Names, NEW k \in Keys,
         NEW r \in Names, NEW j \in Keys, NEW p \in Lines(t), Entry(t, s, k, p), Entry(t, r, j, p)
  PROVE  r = s /\ j = k
<1>1. PICK h \in Lines(t) : FirstHeader(t, s, h) /\ FirstKey(t, h, k, p)
  BY DEF Entry
<1>2. PICK g \in Lines(t) : FirstHeader(t, r, g) /\ FirstKey(t, g, j, p)
  BY DEF Entry
<1>3. j = k
  BY <1>1, <1>2, OneKey DEF FirstKey
<1>4. /\ HeaderAt(t, h, s) /\ HeaderAt(t, g, r) /\ t[h] = "[" /\ t[g] = "["
      /\ h < p /\ g < p /\ h \in Nat /\ g \in Nat /\ p \in Nat
  BY <1>1, <1>2, LineFacts DEF FirstHeader, FirstKey, HeaderAt
<1>5. g <= p /\ h <= p
  BY <1>4
<1>6. ~(g < h) /\ ~(h < g)
  BY <1>1, <1>2, <1>4, <1>5 DEF FirstKey
<1>7. g = h
  BY <1>4, <1>6
<1> QED
  BY <1>3, <1>4, <1>7, OneHeader

(* SetString replaces the rest of the line of a key: the key then has the  *)
(* value, and everything else stays what it was.                           *)
LEMMA ValueChanged ==
  ASSUME PlainNames, NEW t \in Seq(Symbols), NEW u \in Seq(Symbols),
         NEW s \in Names, NEW k \in Keys, NEW v \in Values, NEW c \in Nat, NEW d \in Nat,
         Edited(t, u, c, d, v), NEW l \in Lines(t), Entry(t, s, k, l), l + Len(k) < c,
         \A q \in l + Len(k) .. c - 1 : t[q] \in {SP, "="},
         \A q \in c .. c + d - 1 : t[q] # NL, LineEnds(t, c + d)
  PROVE  Written(t, u, s, k, v)
<1>1. PICK n \in Nat : n = Len(t)
  OBVIOUS
<1>2. PICK m \in Nat : m = Len(k) /\ m >= 1
  BY NameFacts
<1>3. /\ v \in Seq(Symbols) /\ v # <<>>
      /\ \A j \in 1 .. Len(v) : v[j] # NL
  BY cINIAssumption DEF PlainNames
<1>4. \A j \in 1 .. m : k[j] \notin {"[", NL}
  BY <1>2, NameFacts
<1>5. PICK z \in Nat : z = Len(v) /\ z >= 1
  BY <1>3
<1>6. /\ c \in 1 .. n + 1 /\ c + d <= n + 1 /\ Len(u) = n - d + z
      /\ \A q \in 1 .. c - 1 : u[q] = t[q]
      /\ \A j \in 1 .. z : u[c + j - 1] = v[j]
      /\ \A q \in c + d .. n : u[q - d + z] = t[q]
  BY <1>1, <1>5 DEF Edited
<1>7. l \in 1 .. n /\ l + m < c /\ \A q \in l + m .. c - 1 : t[q] \in {SP, "="}
  BY <1>1, <1>2 DEF Lines
<1>8. KeyAt(t, l, k)
  BY DEF Entry, FirstKey
<1>9. \A j \in 1 .. m : t[l + j - 1] = k[j]
  BY <1>2, <1>8 DEF KeyAt, Reads
<1>10. \A x \in l .. c + d - 1 : t[x] # NL
  <2> TAKE x \in l .. c + d - 1
  <2>1. NL # SP /\ NL # "="
    BY DEF PlainNames
  <2>2. PICK j \in Nat : j = x - l + 1
    BY <1>7
  <2>3. (j \in 1 .. m /\ l + j - 1 = x) \/ x \in l + m .. c - 1 \/ x \in c .. c + d - 1
    BY <1>7, <2>2
  <2>4. CASE j \in 1 .. m /\ l + j - 1 = x
    <3>1. t[l + j - 1] = k[j] /\ k[j] # NL
      BY <1>4, <1>9, <2>4
    <3> QED
      BY <2>4, <3>1
  <2>5. CASE x \in l + m .. c - 1
    BY <1>7, <2>1, <2>5
  <2> QED
    BY <2>3, <2>4, <2>5
<1>11. PICK f : f = Shift(t, c, Len(v) - d)
  OBVIOUS
<1>12. /\ Moved(t, u, f) /\ Added(t, u, f) = {} /\ f[l] = l
       /\ \A q \in Lines(t) : q # l => SameLine(t, q, u, f[q])
  <2>1. Len(v) >= 1 /\ v \in Seq(Symbols)
    BY <1>3, <1>5
  <2>2. \A j \in 1 .. Len(v) : v[j] # NL
    BY <1>3
  <2>3. l < c
    BY <1>2, <1>7
  <2>4. Moved(t, u, f) /\ Added(t, u, f) = {} /\ f[l] = l
    BY <1>10, <1>11, <2>1, <2>2, <2>3, NewValueMoves
  <2>5. SameBut(t, u, f, l)
    BY <1>10, <1>11, <2>1, <2>2, <2>3, NewValueMoves
  <2> QED
    BY <2>4, <2>5 DEF SameBut
<1>13. \A q \in Lines(t) : /\ q \in 1 .. Len(t) /\ f[q] \in Lines(u) /\ f[q] \in 1 .. Len(u)
                           /\ q \in Nat \ {0} /\ f[q] \in Nat \ {0}
  <2>1. \A q \in Lines(t) : f[q] \in Lines(u)
    BY <1>12 DEF Moved
  <2> QED
    BY <2>1 DEF Lines
<1>14. KeyAt(u, l, k)
  <2>1. \A j \in 1 .. m : u[l + j - 1] = k[j]
    <3> TAKE j \in 1 .. m
    <3>1. l + j - 1 \in 1 .. c - 1
      BY <1>7
    <3> QED
      BY <1>6, <1>9, <3>1
  <2>2. u[l + m] \in {NL, SP}
    <3>1. l + m \in 1 .. c - 1 /\ l + m <= n
      BY <1>6, <1>7
    <3>2. t[l + m] \in {NL, SP}
      BY <1>1, <1>2, <1>8, <3>1 DEF KeyAt
    <3> QED
      BY <1>6, <3>1, <3>2
  <2>3. l + m <= Len(u) + 1
    BY <1>6, <1>7
  <2> QED
    BY <1>2, <2>1, <2>2, <2>3 DEF KeyAt, Reads
<1>15. t[l] # "[" /\ u[l] # "[" /\ l \in Lines(u)
  BY <1>8, <1>12, <1>13, <1>14, KeyIsNoHeader
<1>16. ASSUME NEW r \in Names, NEW j \in Keys
       PROVE  /\ \A p \in Lines(t) : Entry(t, r, j, p) <=> Entry(u, r, j, f[p])
              /\ \A x \in Added(t, u, f) : ~Entry(u, r, j, x)
  <2>1. ASSUME NEW q \in Lines(t) PROVE Alike(t, q, u, f[q], r, j)
    <3>1. CASE q = l
      <4>1. KeyAt(t, l, j) <=> KeyAt(u, l, j)
        BY <1>8, <1>14, <1>15, OneKey
      <4> QED
        BY <1>12, <1>15, <3>1, <4>1 DEF Alike, HeaderAt
    <3>2. CASE q # l
      BY <1>12, <1>13, <3>2, SameIsAlike
    <3> QED
      BY <3>1, <3>2
  <2> QED
    BY <1>12, <2>1, EntryKept
<1>17. Entry(u, s, k, l)
  BY <1>12, <1>16
<1>18. WordAt(u, l + Len(k), Word(v))
  <2>1. l + m \in Nat \ {0} /\ l + m <= c /\ c + z <= Len(u) + 1
    BY <1>6, <1>7
  <2>2. \A q \in l + m .. c - 1 : u[q] \in {SP, "="}
    <3> TAKE q \in l + m .. c - 1
    <3>1. q \in 1 .. c - 1
      BY <1>7
    <3> QED
      BY <1>6, <1>7, <3>1
  <2>3. LineEnds(u, c + z)
    <3>1. SUFFICES ASSUME c + z <= Len(u) PROVE u[c + z] = NL
      BY DEF LineEnds
    <3>2. c + d \in c + d .. n /\ c + d - d + z = c + z
      BY <1>6, <3>1
    <3>3. t[c + d] = NL
      BY <1>1, <3>2 DEF LineEnds
    <3>4. u[c + d - d + z] = t[c + d]
      BY <1>6, <3>2
    <3> QED
      BY <3>2, <3>3, <3>4
  <2>4. WordAt(u, l + m, Word(v))
    BY <1>5, <1>6, <2>1, <2>2, <2>3, WordWritten
  <2> QED
    BY <1>2, <2>4
<1>19. ASSUME NEW r \in Names, NEW j \in Keys, NEW w, r # s \/ j # k, Found(t, r, j, w)
       PROVE  Found(u, r, j, w)
  <2>1. \A p \in Lines(t) : Entry(t, r, j, p) /\ WordAt(t, p + Len(j), w) => WordAt(u, f[p] + Len(j), w)
    <3> TAKE p \in Lines(t)
    <3> HAVE Entry(t, r, j, p) /\ WordAt(t, p + Len(j), w)
    <3>1. p # l
      BY <1>19, EntryIsOfOne
    <3>2. KeyAt(t, p, j)
      BY DEF Entry, FirstKey
    <3>3. p \in Nat \ {0} /\ f[p] \in Nat \ {0} /\ SameLine(t, p, u, f[p])
      BY <1>12, <1>13, <3>1
    <3> QED
      BY <3>2, <3>3, SameWord
  <2> QED
    BY <1>12, <1>16, <1>19, <2>1, FoundKept
<1>20. Found(u, s, k, Word(v))
  BY <1>15, <1>17, <1>18 DEF Found
<1> QED
  BY <1>19, <1>20 DEF Written

-----------------------------------------------------------------------------
(* What m_psScan finds, in these terms.                                    *)
LEMMA HoldsIsReads ==
  ASSUME TextOK, NEW p \in 1 .. End, NEW x \in Seq(Symbols)
  PROVE  Holds(p, x) <=> Reads(text, p, x)
<1>1. PICK n \in Nat : n = Len(text) /\ End = n + 1
  BY EndFacts
<1>2. PICK m \in Nat : m = Len(x)
  OBVIOUS
<1>3. text \in Seq(Symbols) /\ p \in 1 .. n + 1
  BY <1>1 DEF TextOK
<1>4. ASSUME p + m <= n + 1
      PROVE  SubSeq(text, p, p + m - 1) = x <=> \A j \in 1 .. m : text[p + j - 1] = x[j]
  <2>1. PICK y : y = SubSeq(text, p, p + m - 1)
    OBVIOUS
  <2>2. y \in Seq(Symbols) /\ Len(y) = m /\ \A j \in 1 .. m : y[j] = text[p + j - 1]
    <3>1. p \in 1 .. n + 1 /\ p + m - 1 \in p - 1 .. n /\ (p + m - 1) - p + 1 = m
      BY <1>3, <1>4
    <3>2. y \in Seq(Symbols)
      BY <1>1, <1>3, <2>1, <3>1
    <3>3. Len(y) = m
      BY <1>1, <1>3, <2>1, <3>1
    <3>4. \A j \in 1 .. m : y[j] = text[p + j - 1]
      BY <1>1, <1>3, <2>1, <3>1
    <3> QED
      BY <3>2, <3>3, <3>4
  <2>3. y = x <=> \A j \in 1 .. m : y[j] = x[j]
    <3>1. ASSUME \A j \in 1 .. m : y[j] = x[j] PROVE y = x
      <4>1. Len(y) = Len(x) /\ \A j \in 1 .. Len(x) : y[j] = x[j]
        BY <1>2, <2>2, <3>1
      <4>2. y \in Seq(Symbols) /\ x \in Seq(Symbols)
        BY <2>2
      <4> QED
        BY ONLY <4>1, <4>2
    <3> QED
      BY <3>1
  <2>4. (\A j \in 1 .. m : y[j] = x[j]) <=> \A j \in 1 .. m : text[p + j - 1] = x[j]
    BY <2>2
  <2> QED
    BY ONLY <2>1, <2>3, <2>4
<1>5. Holds(p, x) <=> p + m <= n + 1 /\ SubSeq(text, p, p + m - 1) = x
  BY <1>1, <1>2 DEF Holds
<1>6. Reads(text, p, x) <=> p + m <= n + 1 /\ \A j \in 1 .. m : text[p + j - 1] = x[j]
  BY <1>1, <1>2 DEF Reads
<1> QED
  BY ONLY <1>4, <1>5, <1>6

(* A header, or one that only what is behind the end can close             *)
LEMMA SectionIsHeader ==
  ASSUME PlainNames, TextOK, NEW p \in Lines(text), NEW s \in Names
  PROVE  /\ HeaderAt(text, p, s) <=> IsSection(p, s) /\ p + 1 + Len(s) < End
         /\ IsSection(p, s) => text[p] = "[" /\ Reads(text, p + 1, s)
<1>1. PICK n \in Nat : n = Len(text) /\ End = n + 1
  BY EndFacts
<1>2. PICK m \in Nat : m = Len(s)
  BY NameFacts
<1>3. p \in 1 .. n /\ p + 1 \in 1 .. End /\ s # <<>> /\ s \in Seq(Symbols)
  BY <1>1, cINIAssumption DEF Lines, PlainNames
<1>4. Holds(p + 1, s) <=> Reads(text, p + 1, s)
  BY <1>3, HoldsIsReads
<1>5. At(p) = text[p]
  BY <1>1, <1>3 DEF At
<1>6. p + 1 + m < End => At(p + 1 + m) = text[p + 1 + m]
  BY DEF At
<1>7. p + 1 + m <= n <=> p + 1 + m < End
  BY <1>1, <1>3
<1>8. IsSection(p, s) <=> text[p] = "[" /\ Reads(text, p + 1, s) /\ At(p + 1 + m) = "]"
  BY <1>2, <1>3, <1>4, <1>5 DEF IsSection
<1>9. HeaderAt(text, p, s) <=> /\ text[p] = "[" /\ Reads(text, p + 1, s)
                               /\ p + 1 + m <= n /\ text[p + 1 + m] = "]"
  BY <1>1, <1>2 DEF HeaderAt
<1> QED
  BY <1>2, <1>6, <1>7, <1>8, <1>9

(* c is the next line behind the one at x, or the end.                     *)
Behind(t, x, c) ==
  /\ c \in Nat /\ x < c /\ c <= Len(t) + 1
  /\ c = Len(t) + 1 \/ (c \in Lines(t) /\ t[c - 1] = NL)
  /\ \A q \in Lines(t) : x < q => c <= q

(* Scan_toNextLine                                                         *)
LEMMA NextLineIsBehind ==
  ASSUME TextOK, NEW x \in 1 .. End, NEW h \in 1 .. Len(text), h < x,
         \A q \in h .. x - 1 : text[q] # NL
  PROVE  Behind(text, h, ToNextLine(x))
<1>1. PICK n \in Nat : n = Len(text) /\ End = n + 1
  BY EndFacts
<1> DEFINE S == {q \in x .. End : IsEOL(q)}
<1>2. End \in S /\ S \subseteq Nat
  BY <1>1 DEF IsEOL
<1>3. PICK eol : eol = Min(S)
  OBVIOUS
<1>4. eol \in S /\ \A q \in S : eol <= q
  <2> HIDE DEF S
  <2> QED
    BY <1>2, <1>3, MinFacts
<1>5. eol \in x .. n + 1 /\ IsEOL(eol)
  BY <1>1, <1>4
<1> DEFINE T == {q \in eol .. End : q = End \/ text[q] # NL}
<1>6. End \in T /\ T \subseteq Nat
  BY <1>1, <1>5
<1>7. PICK c : c = Min(T)
  OBVIOUS
<1>8. c \in T /\ \A q \in T : c <= q
  <2> HIDE DEF T
  <2> QED
    BY <1>6, <1>7, MinFacts
<1>9. ToNextLine(x) = c
  BY <1>3, <1>7, Zenon DEF ToNextLine
<1>10. c \in eol .. n + 1 /\ (c = n + 1 \/ text[c] # NL)
  BY <1>1, <1>8
<1>11. h < c
  BY <1>5, <1>10
<1>12. c = n + 1 \/ (c \in Lines(text) /\ text[c - 1] = NL)
  <2>1. SUFFICES ASSUME c # n + 1 PROVE c \in Lines(text) /\ text[c - 1] = NL
    OBVIOUS
  <2>2. c \in 1 .. n /\ text[c] # NL
    BY <1>5, <1>10, <2>1
  <2>3. eol # c
    BY <1>1, <1>5, <2>2 DEF IsEOL
  <2>4. c - 1 \in eol .. n /\ ~(c <= c - 1)
    BY <1>5, <1>10, <2>2, <2>3
  <2>5. c - 1 \notin T
    BY <1>8, <2>4
  <2>6. text[c - 1] = NL
    BY <1>1, <2>4, <2>5
  <2> QED
    BY <1>1, <2>2, <2>6 DEF Lines
<1>13. ASSUME NEW q \in Lines(text), h < q PROVE c <= q
  <2>1. q \in 1 .. n /\ q # 1 /\ text[q - 1] = NL /\ text[q] # NL
    BY <1>1, <1>13 DEF Lines
  <2>2. q - 1 \notin h .. x - 1
    BY <2>1
  <2>3. q - 1 \in x .. n
    BY <1>13, <2>1, <2>2
  <2>4. q - 1 \in S
    BY <1>1, <2>1, <2>3 DEF IsEOL
  <2>5. eol <= q - 1
    BY <1>4, <2>4
  <2>6. q \in T
    BY <1>1, <1>5, <2>1, <2>5
  <2> QED
    BY <1>8, <2>6
<1>14. c \in Nat /\ c <= n + 1
  BY <1>5, <1>10
<1> QED
  BY <1>1, <1>9, <1>11, <1>12, <1>13, <1>14 DEF Behind

(* Scan_findSection: either there is a header, and it stops behind the     *)
(* line of the first; or there is none, and it stops at the end.           *)
LEMMA SectionIs ==
  ASSUME PlainNames, TextOK, NEW s \in Names
  PROVE  \/ /\ HasSection(s, 1)
            /\ \E h \in Lines(text) : FirstHeader(text, s, h) /\ Behind(text, h, Section(s))
         \/ /\ \A q \in Lines(text) : ~HeaderAt(text, q, s)
            /\ Section(s) = End
            /\ HasSection(s, 1) => Len(text) # 0 /\ text[Len(text)] # NL
<1>1. PICK n \in Nat : n = Len(text) /\ End = n + 1
  BY EndFacts
<1>2. PICK m \in Nat : m = Len(s) /\ m >= 1 /\ \A j \in 1 .. m : s[j] # NL
  BY NameFacts
<1>3. NL # "[" /\ NL # "]"
  BY DEF PlainNames
<1>4. LinesFrom(1) = Lines(text)
  BY DEF LinesFrom, Lines
<1>5. PICK found : found = Sections(s, 1)
  OBVIOUS
<1>6. found = {p \in Lines(text) : IsSection(p, s)}
  BY <1>4, <1>5 DEF Sections
<1>7. HasSection(s, 1) <=> found # {}
  BY <1>5 DEF HasSection
<1>8. Section(s) = IF found = {} THEN End ELSE ToNextLine(Min(found) + 1 + Len(s))
  BY <1>5, Zenon DEF Section, FindSection
<1>9. CASE found = {}
  BY <1>6, <1>7, <1>8, <1>9, SectionIsHeader
<1>10. CASE found # {}
  <2>1. PICK h : h = Min(found)
    OBVIOUS
  <2>2. h \in found /\ \A q \in found : h <= q
    <3>1. found \subseteq Nat
      BY <1>6 DEF Lines
    <3> QED
      BY <1>10, <2>1, <3>1, MinFacts
  <2>3. h \in Lines(text) /\ h \in 1 .. n /\ IsSection(h, s)
    BY <1>1, <1>6, <2>2 DEF Lines
  <2>4. /\ text[h] = "[" /\ h + 1 + m <= n + 1
        /\ \A j \in 1 .. m : text[h + 1 + j - 1] = s[j]
    BY <1>1, <1>2, <2>3, SectionIsHeader DEF Reads
  <2>5. \A q \in h .. h + m : text[q] # NL
    <3> TAKE q \in h .. h + m
    <3>1. PICK j \in Nat : j = q - h
      BY <2>3
    <3>2. q = h \/ (j \in 1 .. m /\ q = h + 1 + j - 1)
      BY <2>3, <3>1
    <3> QED
      BY <1>2, <1>3, <2>4, <3>2
  <2>6. Section(s) = ToNextLine(h + 1 + m)
    BY <1>2, <1>8, <1>10, <2>1
  <2>7. Behind(text, h, Section(s))
    <3>1. h + 1 + m \in 1 .. End /\ h < h + 1 + m /\ h \in 1 .. Len(text)
      BY <1>1, <2>3, <2>4
    <3>2. \A q \in h .. (h + 1 + m) - 1 : text[q] # NL
      BY <2>3, <2>5
    <3> QED
      BY <2>6, <3>1, <3>2, NextLineIsBehind
  <2>8. CASE h + 1 + m < End
    <3>1. HeaderAt(text, h, s)
      BY <1>2, <2>3, <2>8, SectionIsHeader
    <3>2. \A q \in Lines(text) : q < h => ~HeaderAt(text, q, s)
      <4> TAKE q \in Lines(text)
      <4> HAVE q < h
      <4>1. q \in Nat /\ ~(h <= q)
        BY <2>3 DEF Lines
      <4>2. ~IsSection(q, s)
        BY <1>6, <2>2, <4>1
      <4> QED
        BY <4>2, SectionIsHeader
    <3> QED
      BY <1>7, <1>10, <2>3, <2>7, <3>1, <3>2 DEF FirstHeader
  <2>9. CASE ~(h + 1 + m < End)
    <3>1. h + m = n
      BY <1>1, <2>3, <2>4, <2>9
    <3>2. text[n] # NL /\ n # 0
      BY <2>3, <2>5, <3>1
    <3>3. ASSUME NEW q \in Lines(text) PROVE ~(h < q)
      <4>1. SUFFICES ASSUME h < q PROVE FALSE
        OBVIOUS
      <4>2. q \in 1 .. n /\ q # 1 /\ text[q - 1] = NL
        BY <1>1, <2>3, <4>1 DEF Lines
      <4>3. q - 1 \in h .. h + m
        BY <2>3, <3>1, <4>1, <4>2
      <4> QED
        BY <2>5, <4>2, <4>3
    <3>4. Section(s) = End
      BY <1>1, <2>7, <3>3 DEF Behind
    <3>5. ASSUME NEW q \in Lines(text) PROVE ~HeaderAt(text, q, s)
      <4>1. SUFFICES ASSUME HeaderAt(text, q, s) PROVE FALSE
        OBVIOUS
      <4>2. IsSection(q, s) /\ q + 1 + m < End
        BY <1>2, <4>1, SectionIsHeader
      <4>3. h <= q
        BY <1>6, <2>2, <4>2
      <4>4. q \in Nat /\ q = h
        BY <2>3, <3>3, <4>3 DEF Lines
      <4> QED
        BY <2>9, <4>2, <4>4
    <3> QED
      BY <1>1, <3>2, <3>4, <3>5
  <2> QED
    BY <2>8, <2>9
<1> QED
  BY <1>9, <1>10

(* Scan_isKey                                                              *)
LEMMA KeyIsKey ==
  ASSUME PlainNames, TextOK, NEW p \in Lines(text), NEW k \in Keys
  PROVE  IsKey(p, k) <=> KeyAt(text, p, k)
<1>1. PICK n \in Nat : n = Len(text) /\ End = n + 1
  BY EndFacts
<1>2. PICK m \in Nat : m = Len(k)
  BY NameFacts
<1>3. p \in 1 .. n /\ p \in 1 .. End /\ k \in Seq(Symbols)
  BY <1>1, cINIAssumption DEF Lines
<1>4. Holds(p, k) <=> Reads(text, p, k)
  BY <1>3, HoldsIsReads
<1>5. p + m >= End <=> ~(p + m <= n)
  BY <1>1, <1>3
<1> QED
  BY <1>1, <1>2, <1>4, <1>5 DEF IsKey, KeyAt, IsWS

(* Scan_findKey stops behind the key of the line that is read.             *)
LEMMA KeyIsEntry ==
  ASSUME PlainNames, TextOK, NEW s \in Names, NEW k \in Keys
  PROVE  \/ /\ Stored(s, k)
            /\ \E p \in Lines(text) : Entry(text, s, k, p) /\ FindKey(k, Section(s)) = p + Len(k)
         \/ /\ ~Stored(s, k)
            /\ \A p \in Lines(text) : ~Entry(text, s, k, p)
<1>1. PICK n \in Nat : n = Len(text) /\ End = n + 1
  BY EndFacts
<1>2. PICK c : c = Section(s)
  OBVIOUS
<1>3. PICK keys : keys = KeyLines(k, c)
  OBVIOUS
<1>4. /\ Stored(s, k) <=> HasSection(s, 1) /\ keys # {}
      /\ keys # {} => FindKey(k, c) = Min(keys) + Len(k)
  BY <1>2, <1>3 DEF Stored, HasKey, FindKey
<1>5. CASE HasSection(s, 1) /\
           \E h \in Lines(text) : FirstHeader(text, s, h) /\ Behind(text, h, c)
  <2>1. PICK h \in Lines(text) : FirstHeader(text, s, h) /\ Behind(text, h, c)
    BY <1>5
  <2>2. /\ h \in 1 .. n /\ c \in Nat /\ h < c /\ c <= n + 1
        /\ c = n + 1 \/ c \in Lines(text)
        /\ \A q \in Lines(text) : h < q => c <= q
    BY <1>1, <2>1 DEF Behind, Lines
  <2>3. ASSUME NEW q PROVE q \in LinesFrom(c) <=> q \in Lines(text) /\ h < q
    <3>1. ASSUME q \in LinesFrom(c) PROVE q \in Lines(text) /\ h < q
      <4>1. q \in c .. n /\ (q = c \/ (text[q - 1] = NL /\ text[q] # NL))
        BY <1>1, <3>1 DEF LinesFrom
      <4>2. q \in 1 .. n /\ h < q
        BY <2>2, <4>1
      <4>3. CASE q = c
        BY <2>2, <4>2, <4>3
      <4>4. CASE text[q - 1] = NL /\ text[q] # NL
        BY <1>1, <4>2, <4>4 DEF Lines
      <4> QED
        BY <4>1, <4>2, <4>3, <4>4
    <3>2. ASSUME q \in Lines(text), h < q PROVE q \in LinesFrom(c)
      <4>1. q \in 1 .. n /\ c <= q
        BY <1>1, <2>2, <3>2 DEF Lines
      <4>2. q # 1
        BY <2>2, <3>2, <4>1
      <4>3. text[q - 1] = NL /\ text[q] # NL
        BY <3>2, <4>2 DEF Lines
      <4>4. q \in c .. n
        BY <2>2, <4>1
      <4> QED
        BY <1>1, <4>3, <4>4 DEF LinesFrom
    <3> QED
      BY <3>1, <3>2
  <2>4. ASSUME NEW p \in Lines(text)
        PROVE  p \in keys <=> /\ h < p /\ KeyAt(text, p, k)
                              /\ \A q \in Lines(text) : h < q /\ q <= p => text[q] # "["
    <3>1. p \in keys <=> /\ p \in LinesFrom(c) /\ IsKey(p, k)
                         /\ \A q \in LinesFrom(c) : q <= p => text[q] # "["
      BY <1>3 DEF KeyLines
    <3>2. IsKey(p, k) <=> KeyAt(text, p, k)
      BY KeyIsKey
    <3>3. (\A q \in LinesFrom(c) : q <= p => text[q] # "[") <=>
          \A q \in Lines(text) : h < q /\ q <= p => text[q] # "["
      BY <2>3
    <3> QED
      BY <2>3, <3>1, <3>2, <3>3
  <2>5. \A p \in keys : p \in Lines(text) /\ p \in Nat
    BY <1>3, <2>3 DEF KeyLines, Lines
  <2>6. ASSUME keys # {}
        PROVE  \E p \in Lines(text) : Entry(text, s, k, p) /\ FindKey(k, c) = p + Len(k)
    <3>1. PICK p : p = Min(keys)
      OBVIOUS
    <3>2. p \in keys /\ \A q \in keys : p <= q
      <4>1. keys \subseteq Nat
        BY <2>5
      <4> QED
        BY <2>6, <3>1, <4>1, MinFacts
    <3>3. p \in Lines(text) /\ p \in Nat
      BY <2>5, <3>2
    <3>4. /\ h < p /\ KeyAt(text, p, k)
          /\ \A q \in Lines(text) : h < q /\ q <= p => text[q] # "["
      BY <2>4, <3>2, <3>3
    <3>5. ASSUME NEW q \in Lines(text), h < q, q < p PROVE ~KeyAt(text, q, k)
      <4>1. SUFFICES ASSUME KeyAt(text, q, k) PROVE FALSE
        OBVIOUS
      <4>2. q \in Nat /\ \A x \in Lines(text) : x \in Nat
        BY DEF Lines
      <4>3. \A x \in Lines(text) : h < x /\ x <= q => text[x] # "["
        BY <3>3, <3>4, <3>5, <4>2
      <4>4. q \in keys
        BY <2>4, <3>5, <4>1, <4>3
      <4> QED
        BY <3>2, <3>3, <3>5, <4>2, <4>4
    <3>6. FirstKey(text, h, k, p)
      BY <3>3, <3>4, <3>5 DEF FirstKey
    <3> QED
      BY <1>4, <2>1, <2>6, <3>1, <3>3, <3>6 DEF Entry
  <2>7. ASSUME keys = {}, NEW p \in Lines(text) PROVE ~Entry(text, s, k, p)
    <3>1. SUFFICES ASSUME Entry(text, s, k, p) PROVE FALSE
      OBVIOUS
    <3>2. PICK g \in Lines(text) : FirstHeader(text, s, g) /\ FirstKey(text, g, k, p)
      BY <3>1 DEF Entry
    <3>3. ~(g < h) /\ ~(h < g)
      BY <2>1, <3>2 DEF FirstHeader
    <3>4. g = h
      BY <3>3 DEF Lines
    <3>5. p \in keys
      BY <2>4, <3>2, <3>4 DEF FirstKey
    <3> QED
      BY <2>7, <3>5
  <2> QED
    BY <1>2, <1>4, <1>5, <2>6, <2>7
<1>6. CASE (\A q \in Lines(text) : ~HeaderAt(text, q, s)) /\ c = End
  <2>1. LinesFrom(c) = {}
    BY <1>1, <1>6 DEF LinesFrom
  <2>2. keys = {}
    BY <1>3, <2>1 DEF KeyLines
  <2>3. \A p \in Lines(text) : ~Entry(text, s, k, p)
    BY <1>6 DEF Entry, FirstHeader
  <2> QED
    BY <1>4, <2>2, <2>3
<1>7. \/ /\ HasSection(s, 1)
         /\ \E h \in Lines(text) : FirstHeader(text, s, h) /\ Behind(text, h, c)
      \/ /\ \A q \in Lines(text) : ~HeaderAt(text, q, s)
         /\ c = End
  BY <1>2, SectionIs
<1> QED
  BY <1>5, <1>6, <1>7

(* Scan_toValue: behind white space and equal signs                        *)
LEMMA ValueBegins ==
  ASSUME PlainNames, TextOK, NEW c \in 1 .. End, NEW v, v = ToValue(c)
  PROVE  /\ v \in c .. End
         /\ \A q \in c .. v - 1 : text[q] \in {SP, "="}
         /\ v <= Len(text) => text[v] \notin {SP, "="}
<1>1. PICK n \in Nat : n = Len(text) /\ End = n + 1
  BY EndFacts
<1> DEFINE S == {q \in c .. End : IsEOL(q) \/ text[q] \notin {SP, "="}}
<1>2. End \in S /\ S \subseteq Nat
  BY <1>1 DEF IsEOL
<1>3. v = Min(S)
  BY Zenon DEF ToValue
<1>4. v \in S /\ \A q \in S : v <= q
  <2> HIDE DEF S
  <2> QED
    BY <1>2, <1>3, MinFacts
<1>5. \A q \in c .. v - 1 : text[q] \in {SP, "="}
  <2> TAKE q \in c .. v - 1
  <2>1. q \in c .. End /\ ~(v <= q)
    BY <1>1, <1>4
  <2>2. q \notin S
    BY <1>4, <2>1
  <2> QED
    BY <2>1, <2>2
<1>6. v <= Len(text) => text[v] \notin {SP, "="}
  BY <1>1, <1>4 DEF IsEOL, PlainNames
<1> QED
  BY <1>4, <1>5, <1>6

(* Scan_sizeValue: the first word of it                                    *)
LEMMA WordEnds ==
  ASSUME TextOK, NEW v \in 1 .. End, NEW e, e = v + SizeValue(v, FALSE)
  PROVE  /\ e \in v .. End
         /\ \A q \in v .. e - 1 : text[q] \notin {SP, NL}
         /\ e <= Len(text) => text[e] \in {SP, NL}
<1>1. PICK n \in Nat : n = Len(text) /\ End = n + 1
  BY EndFacts
<1> DEFINE S == {q \in v .. End : IF FALSE THEN IsEOL(q) ELSE IsWS(q)}
<1>2. End \in S /\ S \subseteq Nat
  BY <1>1 DEF IsWS
<1>3. PICK x : x = Min(S)
  OBVIOUS
<1>4. x \in S /\ \A q \in S : x <= q
  <2> HIDE DEF S
  <2> QED
    BY <1>2, <1>3, MinFacts
<1>5. \A q \in v .. End : q \in S <=> IsWS(q)
  BY Zenon
<1>6. e = x
  <2>1. SizeValue(v, FALSE) = x - v
    BY <1>3, Zenon DEF SizeValue
  <2>2. x \in v .. End
    BY <1>4, Zenon
  <2> HIDE DEF S
  <2>3. v \in Int /\ x \in Int
    BY <1>1, <2>2
  <2>4. v + (x - v) = x
    BY <2>3
  <2> QED
    BY ONLY <2>1, <2>4, e = v + SizeValue(v, FALSE), Zenon
<1>0. v \in 1 .. End
  OBVIOUS
<1>7. x \in v .. End /\ IsWS(x) /\ \A q \in v .. End : IsWS(q) => x <= q
  BY <1>4, <1>5, Zenon
<1> HIDE DEF S
<1>8. \A q \in v .. e - 1 : text[q] \notin {SP, NL}
  <2> TAKE q \in v .. e - 1
  <2>1. q \in v .. End /\ ~(x <= q)
    BY ONLY <1>0, <1>1, <1>6, <1>7, q \in v .. e - 1
  <2>2. ~IsWS(q)
    BY <1>7, <2>1
  <2> QED
    BY <2>2 DEF IsWS
<1>9. e <= Len(text) => text[e] \in {SP, NL}
  BY ONLY <1>0, <1>1, <1>6, <1>7 DEF IsWS
<1> QED
  BY <1>6, <1>7, <1>8, <1>9

(* GetString returns what is found in the text.                            *)
LEMMA GetIsFound ==
  ASSUME PlainNames, TextOK, NEW s \in Names, NEW k \in Keys
  PROVE  Found(text, s, k, GetString(s, k))
<1>1. PICK n \in Nat : n = Len(text) /\ End = n + 1
  BY EndFacts
<1>2. CASE ~Stored(s, k)
  <2>1. \A p \in Lines(text) : ~Entry(text, s, k, p)
    BY <1>2, KeyIsEntry
  <2>2. GetString(s, k) = <<>>
    BY <1>2, Zenon DEF GetString
  <2> QED
    BY <2>1, <2>2 DEF Found
<1>3. CASE Stored(s, k)
  <2>1. PICK p \in Lines(text) : Entry(text, s, k, p) /\ FindKey(k, Section(s)) = p + Len(k)
    BY <1>3, KeyIsEntry
  <2>2. PICK c : c = p + Len(k)
    OBVIOUS
  <2>3. c \in 1 .. End
    <3>1. Reads(text, p, k) /\ p \in 1 .. n /\ Len(k) \in Nat
      BY <1>1, <2>1, NameFacts DEF Entry, FirstKey, KeyAt, Lines
    <3> QED
      BY <1>1, <2>2, <3>1 DEF Reads
  <2>4. PICK v : v = ToValue(c)
    OBVIOUS
  <2>5. /\ v \in c .. End
        /\ \A q \in c .. v - 1 : text[q] \in {SP, "="}
        /\ v <= Len(text) => text[v] \notin {SP, "="}
    BY <2>3, <2>4, ValueBegins
  <2>6. v \in 1 .. End
    BY <1>1, <2>3, <2>5
  <2>7. PICK e : e = v + SizeValue(v, FALSE)
    OBVIOUS
  <2>8. /\ e \in v .. End
        /\ \A q \in v .. e - 1 : text[q] \notin {SP, NL}
        /\ e <= Len(text) => text[e] \in {SP, NL}
    BY <2>6, <2>7, WordEnds
  <2>9. GetString(s, k) = SubSeq(text, v, e - 1)
    <3>1. v = ValueAt(s, k)
      BY <2>1, <2>2, <2>4, Zenon DEF ValueAt
    <3>2. GetString(s, k) = SubSeq(text, v, v + SizeValue(v, FALSE) - 1)
      BY <1>3, <3>1, Zenon DEF GetString
    <3>3. PICK z : z = v + SizeValue(v, FALSE) - 1
      OBVIOUS
    <3>4. SizeValue(v, FALSE) \in Nat
      BY <2>6, SizeValueFacts
    <3>5. z = e - 1
      <4>1. PICK y : y = SizeValue(v, FALSE)
        OBVIOUS
      <4>2. y \in Nat
        BY <3>4, <4>1, Zenon
      <4>3. z = v + y - 1 /\ e = v + y
        BY ONLY <2>7, <3>3, <4>1, Zenon
      <4>4. v \in Int
        BY <1>1, <2>6
      <4> QED
        BY ONLY <4>2, <4>3, <4>4
    <3> QED
      BY ONLY <3>2, <3>3, <3>5, Zenon
  <2>10. WordFrom(text, c, v, GetString(s, k))
    BY <1>1, <2>5, <2>8, <2>9 DEF WordFrom
  <2>11. WordAt(text, c, GetString(s, k))
    BY <1>1, <2>5, <2>10 DEF WordAt
  <2> QED
    BY <2>1, <2>2, <2>11 DEF Found
<1> QED
  BY <1>2, <1>3

(* Scan_sizeValue of a whole line                                          *)
LEMMA ValueEnds ==
  ASSUME TextOK, NEW v \in 1 .. End, NEW d, d = SizeValue(v, TRUE)
  PROVE  /\ d \in Nat /\ v + d <= End
         /\ \A q \in v .. v + d - 1 : text[q] # NL
         /\ LineEnds(text, v + d)
<1>1. PICK n \in Nat : n = Len(text) /\ End = n + 1
  BY EndFacts
<1> DEFINE S == {q \in v .. End : IF TRUE THEN IsEOL(q) ELSE IsWS(q)}
<1>2. End \in S /\ S \subseteq Nat
  BY <1>1 DEF IsEOL
<1>3. PICK x : x = Min(S)
  OBVIOUS
<1>4. x \in S /\ \A q \in S : x <= q
  <2> HIDE DEF S
  <2> QED
    BY <1>2, <1>3, MinFacts
<1>5. \A q \in v .. End : q \in S <=> IsEOL(q)
  BY Zenon
<1>6. d = x - v
  BY <1>3, Zenon DEF SizeValue
<1>7. x \in v .. End /\ IsEOL(x) /\ \A q \in v .. End : IsEOL(q) => x <= q
  BY <1>4, <1>5, Zenon
<1>0. v \in 1 .. End
  OBVIOUS
<1> HIDE DEF S
<1>8. d \in Nat /\ v + d = x
  BY ONLY <1>0, <1>1, <1>6, <1>7
<1>9. \A q \in v .. v + d - 1 : text[q] # NL
  <2> TAKE q \in v .. v + d - 1
  <2>1. q \in v .. End /\ ~(x <= q)
    BY ONLY <1>0, <1>1, <1>7, <1>8, q \in v .. v + d - 1
  <2>2. ~IsEOL(q)
    BY <1>7, <2>1
  <2> QED
    BY <2>2 DEF IsEOL
<1>10. LineEnds(text, v + d)
  BY ONLY <1>0, <1>1, <1>7, <1>8 DEF IsEOL, LineEnds
<1> QED
  BY ONLY <1>0, <1>1, <1>7, <1>8, <1>9, <1>10

(* SetString replaces the value of a key that is there,                    *)
LEMMA StoredIsWritten ==
  ASSUME PlainNames, TextOK, NEW s \in Names, NEW k \in Keys, NEW v \in Values,
         Stored(s, k), ~Spoiled(s, k), NEW c, c = ValueAt(s, k), NEW d, d = SizeValue(c, TRUE),
         NEW u, u = SubSeq(text, 1, c - 1) \o v \o SubSeq(text, c + d, Len(text))
  PROVE  u \in Seq(Symbols) /\ Written(text, u, s, k, v)
<1>1. PICK n \in Nat : n = Len(text) /\ End = n + 1
  BY EndFacts
<1>2. PICK l \in Lines(text) : Entry(text, s, k, l) /\ FindKey(k, Section(s)) = l + Len(k)
  BY KeyIsEntry
<1>3. PICK b : b = l + Len(k)
  OBVIOUS
<1>4. KeyAt(text, l, k) /\ l \in 1 .. n /\ Len(k) \in Nat
  BY <1>1, <1>2, NameFacts DEF Entry, FirstKey, Lines
<1>5. b \in 1 .. n /\ text[b] = SP
  <2>1. ~IsEOL(b)
    BY <1>2, <1>3 DEF Spoiled, Stored
  <2>2. b \in 1 .. n /\ text[b] # NL
    BY <1>1, <1>3, <1>4, <2>1 DEF IsEOL, KeyAt, Reads
  <2> QED
    BY <1>1, <1>3, <1>4, <2>2 DEF KeyAt
<1>6. /\ c \in b .. End
      /\ \A q \in b .. c - 1 : text[q] \in {SP, "="}
      /\ c <= Len(text) => text[c] \notin {SP, "="}
  <2>1. c = ToValue(b)
    BY <1>2, <1>3, Zenon DEF ValueAt
  <2>2. b \in 1 .. End
    BY <1>1, <1>5
  <2> QED
    BY <2>1, <2>2, ValueBegins
<1>7. b < c /\ c \in 1 .. End /\ c \in Nat
  BY <1>1, <1>5, <1>6
<1>8. /\ d \in Nat /\ c + d <= End
      /\ \A q \in c .. c + d - 1 : text[q] # NL
      /\ LineEnds(text, c + d)
  BY <1>7, ValueEnds
<1>9. u \in Seq(Symbols) /\ Edited(text, u, c, d, v)
  <2>1. text \in Seq(Symbols) /\ v \in Seq(Symbols) /\ c \in 1 .. Len(text) + 1
    BY <1>1, <1>7, cINIAssumption DEF TextOK
  <2>2. c + d <= Len(text) + 1
    BY <1>1, <1>8
  <2> QED
    BY <1>8, <2>1, <2>2, InsertEdits
<1>10. \A q \in l + Len(k) .. c - 1 : text[q] \in {SP, "="}
  BY <1>3, <1>6
<1>11. l + Len(k) < c /\ text \in Seq(Symbols)
  BY <1>3, <1>7 DEF TextOK
<1>12. Written(text, u, s, k, v)
  BY <1>2, <1>7, <1>8, <1>9, <1>10, <1>11, ValueChanged
<1> QED
  BY <1>9, <1>12

(* puts a new key behind the header of its section,                        *)
LEMMA KeyIsWritten ==
  ASSUME PlainNames, TextOK, NEW s \in Names, NEW k \in Keys, NEW v \in Values,
         HasSection(s, 1), ~Stored(s, k), ~Spoiled(s, k), NEW c, c = Section(s), NEW y, y = KeyLine(k, v),
         NEW u, u = SubSeq(text, 1, c - 1) \o y \o SubSeq(text, c + 0, Len(text))
  PROVE  u \in Seq(Symbols) /\ Written(text, u, s, k, v)
<1>1. PICK n \in Nat : n = Len(text) /\ End = n + 1
  BY EndFacts
<1>2. PICK h \in Lines(text) : FirstHeader(text, s, h) /\ Behind(text, h, c)
  <2>1. ~(Section(s) = End /\ Last(text) # NL)
    BY DEF Spoiled
  <2>2. ~(Section(s) = End /\ text[Len(text)] # NL)
    BY <2>1, Zenon DEF Last
  <2> QED
    BY <2>2, SectionIs
<1>3. h \in 1 .. n /\ c \in 1 .. n + 1 /\ h < c /\ c \in Nat
  BY <1>1, <1>2 DEF Behind, Lines
<1>4. text[c - 1] = NL
  <2>1. CASE c = n + 1
    <3>1. Last(text) = NL
      BY <1>1, <2>1 DEF Spoiled
    <3>2. text[n] = NL
      BY <1>1, <3>1, Zenon DEF Last
    <3> QED
      BY <1>1, <2>1, <3>2
  <2>2. CASE c # n + 1
    BY <1>1, <1>2, <2>2 DEF Behind
  <2> QED
    BY <2>1, <2>2
<1>5. \A p \in Lines(text) : ~Entry(text, s, k, p)
  BY KeyIsEntry
<1>6. y \in Seq(Symbols) /\ text \in Seq(Symbols)
  BY KeyLineFacts DEF TextOK
<1>7. u \in Seq(Symbols) /\ Edited(text, u, c, 0, y)
  <2>1. PICK z : z = 0
    OBVIOUS
  <2>2. u = SubSeq(text, 1, c - 1) \o y \o SubSeq(text, c + z, Len(text))
    BY <2>1, Zenon
  <2>3. z \in Nat /\ c + z <= Len(text) + 1 /\ c \in 1 .. Len(text) + 1
    BY <1>1, <1>3, <2>1
  <2>4. u \in Seq(Symbols) /\ Edited(text, u, c, z, y)
    BY <1>6, <2>2, <2>3, InsertEdits
  <2> QED
    BY <2>1, <2>4, Zenon
<1>8. Edited(text, u, c, 0, KeyLine(k, v))
  BY <1>7, Zenon
<1>9. c = Len(text) + 1 \/ c \in Lines(text)
  BY <1>2 DEF Behind
<1>10. \A q \in Lines(text) : h < q => c <= q
  BY <1>2 DEF Behind
<1>11. Written(text, u, s, k, v)
  BY <1>2, <1>3, <1>4, <1>5, <1>6, <1>7, <1>8, <1>9, <1>10, KeyInserted
<1> QED
  BY <1>7, <1>11

(* u is a and b behind it.                                                 *)
Joins(u, a, b) ==
  /\ u \in Seq(Symbols) /\ Len(u) = Len(a) + Len(b)
  /\ \A i \in 1 .. Len(a) : u[i] = a[i]
  /\ \A i \in 1 .. Len(b) : u[Len(a) + i] = b[i]

LEMMA ConcatJoins ==
  ASSUME NEW a \in Seq(Symbols), NEW b \in Seq(Symbols), NEW u, u = a \o b
  PROVE  Joins(u, a, b)
<1>1. u \in Seq(Symbols) /\ Len(u) = Len(a) + Len(b)
  BY ConcatSymbols
<1>2. \A i \in 1 .. Len(a) : u[i] = a[i]
  BY ConcatSymbols
<1>3. \A i \in 1 .. Len(b) : u[Len(a) + i] = b[i]
  BY ConcatSymbols
<1> QED
  BY ONLY <1>1, <1>2, <1>3 DEF Joins

(* u is t and, behind it, at g, the line of the header of section s.       *)
Headed(t, u, g, s) ==
  /\ u \in Seq(Symbols) /\ Len(u) = g + Len(s) + 2
  /\ \A q \in 1 .. Len(t) : u[q] = t[q]
  /\ Len(t) # 0 => u[Len(t) + 1] = NL
  /\ HeaderAt(u, g, s) /\ u[Len(u)] = NL

(* The symbols of the header that is appended: at the beginning of a line  *)
(* in any case.                                                            *)
LEMMA HeaderSymbols ==
  ASSUME NEW t \in Seq(Symbols), NEW s \in Seq(Symbols), NEW x,
         x = (IF t = <<>> THEN <<>> ELSE <<NL>>) \o <<"[">> \o s \o <<"]", NL>>,
         NEW u, u = t \o x, NEW g, g = IF Len(t) = 0 THEN 1 ELSE Len(t) + 2
  PROVE  Headed(t, u, g, s)
<1>1. PICK n \in Nat : n = Len(t)
  OBVIOUS
<1>2. PICK m \in Nat : m = Len(s)
  OBVIOUS
<1>3. PICK e : e = IF n = 0 THEN 0 ELSE 1
  OBVIOUS
<1>4. e \in Nat /\ g = n + e + 1
  BY <1>1, <1>3
<1>5. PICK a : a = IF t = <<>> THEN <<>> ELSE <<NL>>
  OBVIOUS
<1>6. a \in Seq(Symbols) /\ Len(a) = e /\ (n # 0 => e = 1 /\ a[1] = NL)
  <2>1. CASE t = <<>>
    BY <1>1, <1>3, <1>5, <2>1
  <2>2. CASE t # <<>>
    <3>1. n # 0 /\ e = 1 /\ a = <<NL>>
      BY <1>1, <1>3, <1>5, <2>2
    <3> QED
      BY <3>1 DEF Symbols
  <2> QED
    BY <2>1, <2>2
<1>7. PICK b : b = <<"[">>
  OBVIOUS
<1>8. b \in Seq(Symbols) /\ Len(b) = 1 /\ b[1] = "["
  BY <1>7 DEF Symbols
<1>9. PICK c : c = <<"]", NL>>
  OBVIOUS
<1>10. c \in Seq(Symbols) /\ Len(c) = 2 /\ c[1] = "]" /\ c[2] = NL
  BY <1>9 DEF Symbols
<1>11. PICK y : y = a \o b
  OBVIOUS
<1>12. y \in Seq(Symbols) /\ Len(y) = e + 1 /\ y[e + 1] = "[" /\ (n # 0 => y[1] = NL)
  <2>1. Joins(y, a, b)
    BY <1>6, <1>8, <1>11, ConcatJoins
  <2> QED
    BY ONLY <1>4, <1>6, <1>8, <2>1 DEF Joins
<1>13. PICK z : z = y \o s
  OBVIOUS
<1>14. /\ z \in Seq(Symbols) /\ Len(z) = e + 1 + m
       /\ z[e + 1] = "[" /\ (n # 0 => z[1] = NL)
       /\ \A i \in 1 .. m : z[e + 1 + i] = s[i]
  <2>1. Joins(z, y, s)
    BY <1>12, <1>13, ConcatJoins
  <2> QED
    BY ONLY <1>2, m \in Nat, <1>4, <1>12, <2>1 DEF Joins
<1>15. x = z \o c
  BY <1>5, <1>7, <1>9, <1>11, <1>13, Zenon
<1>16. /\ x \in Seq(Symbols) /\ Len(x) = e + m + 3
       /\ x[e + 1] = "[" /\ (n # 0 => x[1] = NL)
       /\ \A i \in 1 .. m : x[e + 1 + i] = s[i]
       /\ x[e + m + 2] = "]" /\ x[e + m + 3] = NL
  <2>1. Joins(x, z, c)
    BY <1>10, <1>14, <1>15, ConcatJoins
  <2> QED
    BY ONLY m \in Nat, <1>4, <1>10, <1>14, <2>1 DEF Joins
<1>17. /\ u \in Seq(Symbols) /\ Len(u) = n + e + m + 3
       /\ \A q \in 1 .. n : u[q] = t[q]
       /\ u[n + e + 1] = "[" /\ (n # 0 => u[n + 1] = NL)
       /\ \A i \in 1 .. m : u[n + e + 1 + i] = s[i]
       /\ u[n + e + m + 2] = "]" /\ u[n + e + m + 3] = NL
  <2>1. Joins(u, t, x)
    BY <1>16, ConcatJoins
  <2>2. /\ u \in Seq(Symbols) /\ Len(u) = n + e + m + 3
        /\ \A i \in 1 .. n : u[i] = t[i]
        /\ \A i \in 1 .. e + m + 3 : u[n + i] = x[i]
    <3>1. /\ u \in Seq(Symbols) /\ Len(u) = Len(t) + Len(x)
          /\ \A i \in 1 .. Len(t) : u[i] = t[i]
          /\ \A i \in 1 .. Len(x) : u[Len(t) + i] = x[i]
      BY ONLY <2>1 DEF Joins
    <3>2. n = Len(t) /\ e + m + 3 = Len(x) /\ n + (e + m + 3) = n + e + m + 3
      BY ONLY <1>1, n \in Nat, m \in Nat, <1>4, <1>16
    <3>3. \A i \in 1 .. n : u[i] = t[i]
      BY ONLY <3>1, <3>2, Zenon
    <3>4. \A i \in 1 .. e + m + 3 : u[n + i] = x[i]
      BY ONLY <3>1, <3>2, Zenon
    <3>5. u \in Seq(Symbols) /\ Len(u) = n + e + m + 3
      BY ONLY <3>1, <3>2, Zenon
    <3> QED
      BY ONLY <3>3, <3>4, <3>5
  <2>3. u[n + (e + 1)] = x[e + 1] /\ u[n + (e + m + 2)] = x[e + m + 2] /\ u[n + (e + m + 3)] = x[e + m + 3]
        /\ u[n + 1] = x[1]
    <3>1. \A i \in 1 .. e + m + 3 : u[n + i] = x[i]
      BY ONLY <2>2
    <3>2. /\ 1 \in 1 .. e + m + 3 /\ e + 1 \in 1 .. e + m + 3
          /\ e + m + 2 \in 1 .. e + m + 3 /\ e + m + 3 \in 1 .. e + m + 3
      BY ONLY m \in Nat, <1>4
    <3> QED
      BY ONLY <3>1, <3>2, Zenon
  <2>4. ASSUME NEW i \in 1 .. m PROVE u[n + e + 1 + i] = s[i]
    <3>1. PICK q : q = e + 1 + i
      OBVIOUS
    <3>2. q \in 1 .. e + m + 3 /\ n + e + 1 + i = n + q
      BY ONLY n \in Nat, m \in Nat, <1>4, <3>1, i \in 1 .. m
    <3>3. u[n + q] = x[q]
      BY ONLY <2>2, <3>2
    <3>4. x[q] = s[i]
      BY ONLY <1>16, <3>1, i \in 1 .. m
    <3> QED
      BY ONLY <3>2, <3>3, <3>4, Zenon
  <2>5. /\ n + e + 1 = n + (e + 1) /\ n + e + m + 2 = n + (e + m + 2)
        /\ n + e + m + 3 = n + (e + m + 3)
    BY ONLY n \in Nat, m \in Nat, <1>4
  <2>6. /\ u[n + e + 1] = "[" /\ (n # 0 => u[n + 1] = NL)
        /\ u[n + e + m + 2] = "]" /\ u[n + e + m + 3] = NL
    BY ONLY <1>16, <2>3, <2>5
  <2>7. \A i \in 1 .. n : u[i] = t[i]
    BY ONLY <2>2
  <2>8. u \in Seq(Symbols) /\ Len(u) = n + e + m + 3
    BY ONLY <2>2
  <2> QED
    BY ONLY <2>4, <2>6, <2>7, <2>8
<1>18. HeaderAt(u, g, s)
  BY ONLY <1>2, n \in Nat, m \in Nat, <1>4, <1>17 DEF HeaderAt, Reads
<1> QED
  BY ONLY <1>1, <1>2, n \in Nat, m \in Nat, <1>4, <1>17, <1>18 DEF Headed

(* or appends a header and the key behind it.                              *)
LEMMA SectionIsWritten ==
  ASSUME PlainNames, TextOK, NEW s \in Names, NEW k \in Keys, NEW v \in Values,
         ~HasSection(s, 1), NEW x,
         x = (IF text = <<>> THEN <<>> ELSE <<NL>>) \o <<"[">> \o s \o <<"]", NL>>,
         NEW u, u = text \o x \o KeyLine(k, v)
  PROVE  u \in Seq(Symbols) /\ Written(text, u, s, k, v)
<1>1. PICK t : t = text \o x
  OBVIOUS
<1>2. PICK g : g = IF Len(text) = 0 THEN 1 ELSE Len(text) + 2
  OBVIOUS
<1>3. text \in Seq(Symbols) /\ s \in Seq(Symbols) /\ Len(text) \in Nat /\ Len(s) \in Nat
  BY cINIAssumption, NameFacts DEF TextOK
<1>4. /\ t \in Seq(Symbols) /\ Len(t) = g + Len(s) + 2
      /\ \A q \in 1 .. Len(text) : t[q] = text[q]
      /\ Len(text) # 0 => t[Len(text) + 1] = NL
      /\ HeaderAt(t, g, s) /\ t[Len(t)] = NL
  <2>1. Headed(text, t, g, s)
    BY <1>1, <1>2, <1>3, HeaderSymbols
  <2> QED
    BY ONLY <2>1 DEF Headed
<1>5. \A q \in Lines(text) : ~HeaderAt(text, q, s)
  BY SectionIs
<1>6. g \in Nat /\ g < Len(t) /\ Len(t) \in Nat
  BY <1>2, <1>3, <1>4
<1>7. /\ g \in Lines(t) /\ FirstHeader(t, s, g) /\ \A q \in Lines(t) : ~(g < q)
      /\ \A j \in Keys, p \in Lines(t) : ~Entry(t, s, j, p)
      /\ FoundStill(text, t)
  <2>1. LastHeader(t, s, g) /\ FoundStill(text, t)
    BY <1>2, <1>3, <1>4, <1>5, <1>6, HeaderAdded
  <2> QED
    BY ONLY <2>1 DEF LastHeader
<1>8. PICK y : y = KeyLine(k, v)
  OBVIOUS
<1>9. y \in Seq(Symbols)
  BY <1>8, KeyLineFacts
<1>10. u = t \o y
  BY <1>1, <1>8, Zenon
<1>11. PICK c : c = Len(t) + 1
  OBVIOUS
<1>12. u \in Seq(Symbols) /\ Edited(t, u, c, 0, y)
  <2>1. Joins(u, t, y)
    BY <1>4, <1>9, <1>10, ConcatJoins
  <2>2. Len(y) \in Nat
    BY <1>9
  <2> QED
    BY ONLY <1>6, <1>11, <2>1, <2>2 DEF Edited, Joins
<1>13. Written(t, u, s, k, v)
  <2>1. Edited(t, u, c, 0, KeyLine(k, v))
    BY <1>8, <1>12, Zenon
  <2>2. c \in Nat /\ g < c /\ t[c - 1] = NL /\ c = Len(t) + 1
    BY <1>4, <1>6, <1>11
  <2>3. \A q \in Lines(t) : g < q => c <= q
    BY <1>7
  <2>4. \A p \in Lines(t) : ~Entry(t, s, k, p)
    BY <1>7
  <2> QED
    BY <1>4, <1>7, <1>12, <2>1, <2>2, <2>3, <2>4, KeyInserted
<1> QED
  BY <1>7, <1>12, <1>13 DEF Written, FoundStill

-----------------------------------------------------------------------------
(* The object: what is found in its text is what GetString returns.        *)
AllFound == \A n \in Names, k \in Keys : Found(text, n, k, GetString(n, k))

LEMMA GetsAreFound ==
  ASSUME PlainNames
  PROVE  TextOK => AllFound
BY GetIsFound DEF AllFound

LEMMA GetsAreFoundNext ==
  ASSUME PlainNames
  PROVE  (TextOK => AllFound)'
<1>1. TextOK => AllFound
  BY GetsAreFound
<1> QED
  BY <1>1, PTL

(* What SetString leaves behind                                            *)
LEMMA EditIsWritten ==
  ASSUME PlainNames, Buffer, NEW s \in Names, NEW k \in Keys, NEW v \in Values,
         Modify(s, k, v) \/ NewSection(s, k, v), ~Spoiled(s, k), NEW u, u = text'
  PROVE  u \in Seq(Symbols) /\ Written(text, u, s, k, v)
<1>0. TextOK
  BY DEF Buffer, TextOK
<1>1. CASE Modify(s, k, v) /\ Stored(s, k)
  <2>1. PICK c : c = ValueAt(s, k)
    OBVIOUS
  <2>2. PICK d : d = SizeValue(c, TRUE)
    OBVIOUS
  <2>3. scan' = c /\ Insert(scan', v, SizeValue(scan', TRUE))
    BY <1>1, <2>1, Zenon DEF Modify
  <2>4. Insert(c, v, d)
    BY <2>2, <2>3, Zenon
  <2>5. u = SubSeq(text, 1, c - 1) \o v \o SubSeq(text, c + d, Len(text))
    BY <2>4, Zenon DEF Insert
  <2> QED
    BY <1>0, <1>1, <2>1, <2>2, <2>5, StoredIsWritten
<1>2. CASE Modify(s, k, v) /\ ~Stored(s, k)
  <2>1. PICK c : c = Section(s)
    OBVIOUS
  <2>2. PICK y : y = KeyLine(k, v)
    OBVIOUS
  <2>3. HasSection(s, 1) /\ scan' = c /\ Insert(scan', y, 0)
    BY <1>2, <2>1, <2>2, Zenon DEF Modify
  <2>4. u = SubSeq(text, 1, c - 1) \o y \o SubSeq(text, c + 0, Len(text))
    BY <2>3, Zenon DEF Insert
  <2> QED
    BY <1>0, <1>2, <2>1, <2>2, <2>3, <2>4, KeyIsWritten
<1>3. CASE NewSection(s, k, v)
  <2>1. PICK x : x = (IF size = 0 THEN <<>> ELSE <<NL>>) \o <<"[">> \o s \o <<"]", NL>>
    OBVIOUS
  <2>2. ~HasSection(s, 1) /\ u = text \o x \o KeyLine(k, v)
    BY <1>3, <2>1, Zenon DEF NewSection
  <2>3. x = (IF text = <<>> THEN <<>> ELSE <<NL>>) \o <<"[">> \o s \o <<"]", NL>>
    <3>1. size = 0 <=> text = <<>>
      BY DEF Buffer
    <3> QED
      BY <2>1, <3>1, Zenon
  <2> QED
    BY <1>0, <2>2, <2>3, SectionIsWritten
<1> QED
  BY <1>1, <1>2, <1>3

(* The settings after SetString are those before it, but for one.          *)
LEMMA OneSettingChanges ==
  ASSUME PlainNames, Buffer, Buffer', NEW s \in Names, NEW k \in Keys, NEW v \in Values,
         Modify(s, k, v) \/ NewSection(s, k, v), ~Spoiled(s, k)
  PROVE  Settings' = [Settings EXCEPT ![<<s, k>>] = Word(v)]
<1>1. TextOK /\ TextOK'
  BY DEF Buffer, TextOK
<1>2. AllFound /\ AllFound'
  BY <1>1, GetsAreFound, GetsAreFoundNext
<1>3. PICK u : u = text'
  OBVIOUS
<1>4. u \in Seq(Symbols) /\ Written(text, u, s, k, v)
  BY <1>3, EditIsWritten
<1>5. \A n \in Names, j \in Keys : Found(u, n, j, GetString(n, j)')
  BY <1>2, <1>3 DEF AllFound
<1>6. GetString(s, k)' = Word(v)
  BY <1>4, <1>5, OneFound DEF Written
<1>7. ASSUME NEW n \in Names, NEW j \in Keys, n # s \/ j # k
      PROVE  GetString(n, j)' = GetString(n, j)
  <2>1. Found(u, n, j, GetString(n, j))
    BY <1>2, <1>4, <1>7 DEF AllFound, Written
  <2>2. Found(u, n, j, GetString(n, j)')
    BY <1>5
  <2> QED
    BY <1>4, <2>1, <2>2, OneFound
<1> DEFINE Get2(p) == GetString(p[1], p[2])
<1>8. Settings = [p \in Names \X Keys |-> Get2(p)] /\ Settings' = [p \in Names \X Keys |-> Get2(p)']
  BY Zenon DEF Settings
<1>9. [Settings EXCEPT ![<<s, k>>] = Word(v)] =
        [p \in Names \X Keys |-> IF p = <<s, k>> THEN Word(v) ELSE Get2(p)]
  <2> HIDE DEF Get2
  <2> QED
    BY <1>8
<1>10. ASSUME NEW p \in Names \X Keys
       PROVE  Get2(p)' = IF p = <<s, k>> THEN Word(v) ELSE Get2(p)
  <2>1. PICK n \in Names, j \in Keys : p = <<n, j>>
    OBVIOUS
  <2>2. p[1] = n /\ p[2] = j
    BY <2>1
  <2>3. CASE n = s /\ j = k
    BY <1>6, <2>1, <2>2, <2>3
  <2>4. CASE n # s \/ j # k
    BY <1>7, <2>1, <2>2, <2>4
  <2> QED
    BY <2>3, <2>4
<1> HIDE DEF Get2
<1> QED
  BY <1>8, <1>9, <1>10

(* They stay what they are when the text does.                             *)
LEMMA SettingsStay ==
  ASSUME PlainNames, Buffer, Buffer', text' = text
  PROVE  Settings' = Settings
<1>1. TextOK /\ TextOK'
  BY DEF Buffer, TextOK
<1>2. AllFound /\ AllFound'
  BY <1>1, GetsAreFound, GetsAreFoundNext
<1>3. ASSUME NEW n \in Names, NEW j \in Keys PROVE GetString(n, j)' = GetString(n, j)
  <2>1. Found(text, n, j, GetString(n, j)) /\ Found(text, n, j, GetString(n, j)')
    BY <1>2 DEF AllFound
  <2> QED
    BY <1>1, <2>1, OneFound DEF TextOK
<1>4. \A p \in Names \X Keys : p[1] \in Names /\ p[2] \in Keys
  OBVIOUS
<1> QED
  BY <1>3, <1>4 DEF Settings

(* The calls of SetString that were made                                   *)
Calls == [section : Names, key : Keys, value : Values, opened : Nat,
          spoiled : BOOLEAN, before : [Names \X Keys -> Seq(Symbols)]]

(* The last one belongs to the file that is open, or to one before it.     *)
CallsOK ==
  /\ opens \in Nat /\ stored \in Seq(Calls)
  /\ stored # <<>> => Last(stored).opened <= opens

(* The inductive invariant *)
ReadInv == CallsOK /\ WriteRead

(* What is found is a text.                                                *)
LEMMA FoundIsText ==
  ASSUME NEW t \in Seq(Symbols), NEW s \in Names, NEW k \in Keys, NEW w, Found(t, s, k, w)
  PROVE  w \in Seq(Symbols)
<1>1. CASE w = <<>>
  BY <1>1
<1>2. CASE \E p \in Lines(t) : WordAt(t, p + Len(k), w)
  <2>1. PICK p \in Lines(t) : WordAt(t, p + Len(k), w)
    BY <1>2
  <2>2. PICK c \in Nat \ {0} : c = p + Len(k)
    <3>1. Len(k) \in Nat
      BY cINIAssumption
    <3> QED
      BY <3>1 DEF Lines
  <2>3. PICK v \in c .. Len(t) + 1 : WordFrom(t, c, v, w)
    BY <2>1, <2>2 DEF WordAt
  <2>4. PICK e \in v .. Len(t) + 1 : w = SubSeq(t, v, e - 1)
    BY <2>3 DEF WordFrom
  <2>5. v \in Nat \ {0} /\ e - 1 \in Int /\ e - 1 <= Len(t)
    BY <2>2
  <2>6. \A i \in v .. e - 1 : t[i] \in Symbols
    BY <2>5
  <2> QED
    BY <2>4, <2>5, <2>6
<1> QED
  BY <1>1, <1>2 DEF Found

(* The settings are those of every section and key.                        *)
LEMMA SettingsAreTexts ==
  ASSUME PlainNames, Buffer
  PROVE  Settings \in [Names \X Keys -> Seq(Symbols)]
<1>1. \A n \in Names, j \in Keys : GetString(n, j) \in Seq(Symbols)
  BY GetIsFound, FoundIsText DEF Buffer, TextOK
<1>2. \A p \in Names \X Keys : p[1] \in Names /\ p[2] \in Keys
  OBVIOUS
<1> QED
  BY <1>1, <1>2 DEF Settings

(* Nothing is stored at first.                                             *)
LEMMA InitRead == Init => ReadInv
<1> SUFFICES ASSUME Init PROVE ReadInv
  OBVIOUS
<1>1. stored = <<>> /\ opens = 0
  BY DEF Init
<1>2. stored \in Seq(Calls)
  BY <1>1
<1> QED
  BY <1>1, <1>2 DEF ReadInv, CallsOK, WriteRead

(* SetString: the last call is this one.                                   *)
LEMMA StringRead ==
  ASSUME PlainNames, ReadInv, Buffer, Buffer', NEW s \in Names, NEW k \in Keys, NEW v \in Values,
         SetString(s, k, v)
  PROVE  ReadInv'
<1>1. PICK call : call = [section |-> s, key |-> k, value |-> v, opened |-> opens,
                          spoiled |-> Spoiled(s, k), before |-> Settings]
  OBVIOUS
<1>2. stored' = Append(stored, call) /\ opens' = opens /\ (Modify(s, k, v) \/ NewSection(s, k, v))
  BY <1>1, Zenon DEF SetString
<1>3. opens \in Nat /\ stored \in Seq(Calls)
  BY DEF ReadInv, CallsOK
<1>4. call \in Calls
  <2>1. Settings \in [Names \X Keys -> Seq(Symbols)]
    BY SettingsAreTexts
  <2>2. Spoiled(s, k) \in BOOLEAN
    BY DEF Spoiled
  <2> QED
    BY <1>1, <1>3, <2>1, <2>2 DEF Calls
<1>5. stored' \in Seq(Calls) /\ stored' # <<>> /\ Last(stored') = call
  BY <1>2, <1>3, <1>4 DEF Last
<1>6. /\ call.section = s /\ call.key = k /\ call.value = v /\ call.opened = opens
      /\ call.before = Settings /\ (~call.spoiled => ~Spoiled(s, k))
  BY <1>1
<1>7. CallsOK'
  BY <1>2, <1>3, <1>5, <1>6 DEF CallsOK
<1>8. ASSUME ~call.spoiled
      PROVE  Settings' = [call.before EXCEPT ![<<call.section, call.key>>] = Word(call.value)]
  <2>1. Settings' = [Settings EXCEPT ![<<s, k>>] = Word(v)]
    BY <1>2, <1>6, <1>8, OneSettingChanges
  <2> QED
    BY ONLY <1>6, <2>1, Zenon
<1>9. WriteRead'
  BY <1>5, <1>8 DEF WriteRead
<1> QED
  BY <1>7, <1>9 DEF ReadInv

(* Open: the last call belongs to a file before it. Close leaves no text.  *)
LEMMA OpenRead ==
  ASSUME ReadInv, NEW f \in Files, NEW b \in BOOLEAN, Open(f, b) PROVE ReadInv'
<1>1. opens' = opens + 1 /\ stored' = stored
  BY DEF Open
<1>2. CallsOK /\ \A c \in Calls : c.opened \in Nat
  BY DEF ReadInv, Calls
<1>3. ASSUME stored # <<>> PROVE Last(stored).opened <= opens /\ Last(stored).opened \in Nat
  <2>1. Last(stored) \in Calls
    BY <1>2, <1>3 DEF CallsOK, Last
  <2> QED
    BY <1>2, <1>3, <2>1 DEF CallsOK
<1>4. CallsOK'
  BY <1>1, <1>2, <1>3 DEF CallsOK
<1>5. stored # <<>> => Last(stored).opened # opens'
  BY <1>1, <1>2, <1>3 DEF CallsOK
<1>6. WriteRead'
  BY <1>1, <1>5 DEF WriteRead
<1> QED
  BY <1>4, <1>6 DEF ReadInv

(* A step that changes neither the text nor the calls, or leaves no text   *)
LEMMA StillRead ==
  ASSUME PlainNames, ReadInv, Buffer, Buffer', opens' = opens, stored' = stored,
         text' = text \/ text' = <<>>
  PROVE  ReadInv'
<1>1. CallsOK'
  BY DEF ReadInv, CallsOK
<1>2. CASE text' = text
  <2>1. Settings' = Settings
    BY <1>2, SettingsStay
  <2> QED
    BY <1>1, <1>2, <2>1 DEF ReadInv, WriteRead
<1>3. CASE text' = <<>>
  BY <1>1, <1>3 DEF ReadInv, WriteRead
<1> QED
  BY <1>2, <1>3

(* Every step keeps it.                                                    *)
LEMMA NextRead ==
  ASSUME PlainNames
  PROVE  INIInv /\ INIInv' /\ ReadInv /\ [Next]_vars => ReadInv'
<1> SUFFICES ASSUME INIInv, INIInv', ReadInv, [Next]_vars PROVE ReadInv'
  OBVIOUS
<1>0. Buffer /\ Buffer'
  BY DEF INIInv
<1>1. CASE \E f \in Files, b \in BOOLEAN : Open(f, b)
  BY <1>1, OpenRead
<1>2. CASE \E s \in Names, k \in Keys : Get(s, k)
  BY <1>0, <1>2, StillRead DEF Get, data
<1>3. CASE \E s \in Names, k \in Keys \cup {<<>>} : EnumKey(s, k)
  BY <1>0, <1>3, StillRead DEF EnumKey, data
<1>4. CASE \E s \in Names, k \in Keys, v \in Values : SetString(s, k, v)
  BY <1>0, <1>4, StringRead
<1>5. CASE StartLoop
  BY <1>0, <1>5, StillRead DEF StartLoop, data
<1>6. CASE EnumSection
  BY <1>0, <1>6, StillRead DEF EnumSection, data
<1>7. CASE Close
  BY <1>0, <1>7, StillRead DEF Close
<1>8. CASE UNCHANGED vars
  BY <1>0, <1>8, StillRead DEF vars, data
<1> QED
  BY <1>1, <1>2, <1>3, <1>4, <1>5, <1>6, <1>7, <1>8, Zenon DEF Next

(* What SetString has written GetString reads, and every other setting     *)
(* stays what it was, for every text, however it is laid out: other        *)
(* headers, keys that are there twice, lines that are neither (SetString,  *)
(* Scan_findSection, Scan_findKey, Data_Insert).                           *)
THEOREM WrittenIsRead ==
  ASSUME PlainNames
  PROVE  Spec => []WriteRead
<1>1. Init => ReadInv
  BY InitRead
<1>2. INIInv /\ INIInv' /\ ReadInv /\ [Next]_vars => ReadInv'
  BY NextRead
<1>3. Spec => []INIInv
  BY INIInvariant
<1>4. ReadInv => WriteRead
  BY DEF ReadInv
<1> QED
  BY <1>1, <1>2, <1>3, <1>4, PTL DEF Spec
=============================================================================
