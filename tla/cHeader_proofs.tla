--------------------------- MODULE cHeader_proofs ---------------------------
(***************************************************************************)
(* Proofs about cHeader: the buffer, the file that Save leaves alone, and  *)
(* what ReadValue finds again of what DefineValue wrote.                   *)
(***************************************************************************)
EXTENDS cHeader, ListLemmas, FiniteSetTheorems

(* What a text consists of                                                 *)
Item == [name : Names \cup {<<>>}, value : Values \cup {0}, length : Nat \ {0}]

(* A function on 1 .. n is a sequence.                                     *)
LEMMA FunctionIsList ==
  ASSUME NEW S, NEW n \in Nat, NEW f \in [1 .. n -> S]
  PROVE  f \in Seq(S) /\ Len(f) = n
OBVIOUS

(* The lengths of the items of a text                                      *)
LEMMA LengthsAreList ==
  ASSUME NEW items \in Seq(Item)
  PROVE  /\ [i \in DOMAIN items |-> items[i].length] \in Seq(Nat)
         /\ Len([i \in DOMAIN items |-> items[i].length]) = Len(items)
<1> DEFINE f == [i \in DOMAIN items |-> items[i].length]
           n == Len(items)
<1>1. n \in Nat /\ DOMAIN items = 1 .. n
  OBVIOUS
<1>2. \A i \in 1 .. n : items[i].length \in Nat
  <2>1. \A i \in 1 .. n : items[i] \in Item
    OBVIOUS
  <2>2. \A x \in Item : x.length \in Nat
    BY DEF Item
  <2> QED
    BY <2>1, <2>2
<1>3. f \in [1 .. n -> Nat]
  BY <1>1, <1>2
<1> HIDE DEF f, n
<1>4. f \in Seq(Nat) /\ Len(f) = n
  BY <1>1, <1>3, FunctionIsList
<1> QED
  BY <1>4 DEF f, n

(* An empty text has no characters.                                        *)
LEMMA LengthNone == Length(<<>>) = 0
<1>1. [i \in DOMAIN <<>> |-> <<>>[i].length] = <<>>
  OBVIOUS
<1> QED
  BY <1>1, SumNone, Zenon DEF Length

(* How many characters a text has                                          *)
LEMMA LengthIsNat ==
  ASSUME NEW items \in Seq(Item)
  PROVE  Length(items) \in Nat
BY LengthsAreList, SumIsNat DEF Length

(* Append adds those of the item.                                          *)
LEMMA LengthMore ==
  ASSUME NEW items \in Seq(Item), NEW item \in Item
  PROVE  Length(Append(items, item)) = Length(items) + item.length
<1> DEFINE more == Append(items, item)
           s == [i \in DOMAIN items |-> items[i].length]
           t == [i \in DOMAIN more |-> more[i].length]
<1>1. more \in Seq(Item) /\ Len(more) = Len(items) + 1 /\ Len(items) \in Nat
  OBVIOUS
<1>2. more[Len(more)] = item /\ \A i \in 1 .. Len(items) : more[i] = items[i]
  OBVIOUS
<1> HIDE DEF more
<1>3. s \in Seq(Int) /\ Len(s) = Len(items)
  <2>1. s \in Seq(Nat) /\ Len(s) = Len(items)
    BY LengthsAreList
  <2> QED
    BY <2>1
<1>4. t \in Seq(Int) /\ Len(t) = Len(items) + 1
  <2>1. t \in Seq(Nat) /\ Len(t) = Len(items) + 1
    BY <1>1, LengthsAreList
  <2> QED
    BY <2>1
<1>5. \A i \in 1 .. Len(items) : t[i] = s[i]
  BY <1>1, <1>2
<1>6. t[Len(items) + 1] = item.length
  BY <1>1, <1>2
<1>7. Length(items) = SumOf(s) /\ Length(more) = SumOf(t)
  BY Zenon DEF Length
<1> HIDE DEF s, t
<1>8. SumOf(t) = SumOf(s) + t[Len(t)]
  BY <1>3, <1>4, <1>5, SumMore
<1> QED
  BY <1>1, <1>4, <1>6, <1>7, <1>8 DEF more

(* The length of a name is a number,                                       *)
LEMMA NameLenIsInt ==
  ASSUME NEW n \in Names
  PROVE  NameLen(n) \in Int
<1> DEFINE f == [i \in DOMAIN n |-> WordLen[n[i]] + 1]
           k == Len(n)
<1>1. n \in Seq(DOMAIN WordLen)
  BY cHeaderAssumption
<1>2. k \in Nat /\ DOMAIN n = 1 .. k /\ \A i \in 1 .. k : n[i] \in DOMAIN WordLen
  BY <1>1
<1>3. \A i \in 1 .. k : WordLen[n[i]] \in Int
  BY <1>2, cHeaderAssumption
<1>4. f \in [1 .. k -> Int]
  BY <1>2, <1>3
<1> HIDE DEF f, k
<1>5. f \in Seq(Int)
  BY <1>2, <1>4, FunctionIsList
<1>6. SumOf(f) \in Int
  BY <1>5, SumIsInt
<1> QED
  BY <1>6 DEF NameLen, f

(* and so a line                                                           *)
LEMMA TextIsItem ==
  ASSUME NEW n \in Lines
  PROVE  Text(n) \in Item
BY cHeaderAssumption DEF Text, Item

(* and a #define are items; a #define is never shorter than 61 characters. *)
LEMMA DefineIsItem ==
  ASSUME NEW n \in Names, NEW v \in Values
  PROVE  Define(n, v) \in Item
<1>1. v \in Int
  BY cHeaderAssumption
<1>2. Digits(v) \in Nat \ {0}
  <2> DEFINE ten == {k \in 1 .. 9 : 10 ^ k <= (IF v < 0 THEN -v ELSE v)}
  <2>1. ten \subseteq 1 .. 9
    OBVIOUS
  <2> HIDE DEF ten
  <2>2. IsFiniteSet(1 .. 9)
    <3>1. 1 \in Int /\ 9 \in Int
      OBVIOUS
    <3> QED
      BY ONLY <3>1, FS_Interval
  <2>3. Cardinality(ten) \in Nat
    BY <2>1, <2>2, FS_Subset, FS_CardinalityType
  <2> QED
    BY <1>1, <2>3 DEF Digits, ten
<1>3. NameLen(n) \in Int
  BY NameLenIsInt
<1> QED
  BY <1>2, <1>3 DEF Define, Item

(* What ReadValue gives of item k, when its name is plain                  *)
PairAt(items, k) == <<items[k].name[1], items[k].value>>

(* g[k] is what the first k items define.                                  *)
PairList(items, g, n) ==
  g = [k \in 0 .. n |->
         IF k = 0 THEN <<>>
         ELSE IF items[k].name = <<>> THEN g[k - 1] ELSE Append(g[k - 1], PairAt(items, k))]

(* There is such a list for any number of items.                           *)
LEMMA PairsExist ==
  ASSUME NEW items, NEW n \in Nat
  PROVE  \E g : PairList(items, g, n)
<1> DEFINE P == {k \in Nat : \E g : PairList(items, g, k)}
<1>1. 0 \in P
  <2> DEFINE g == [k \in 0 .. 0 |-> <<>>]
  <2>1. PairList(items, g, 0)
    BY DEF PairList
  <2> QED
    BY <2>1
<1>2. ASSUME NEW k \in Nat, k \in P PROVE k + 1 \in P
  <2>1. PICK f : PairList(items, f, k)
    BY <1>2
  <2> DEFINE next == IF items[k + 1].name = <<>> THEN f[k] ELSE Append(f[k], PairAt(items, k + 1))
             g == [i \in 0 .. k + 1 |-> IF i = k + 1 THEN next ELSE f[i]]
  <2>2. \A i \in 0 .. k : g[i] = f[i]
    OBVIOUS
  <2>3. g[k + 1] = next
    OBVIOUS
  <2>4. \A i \in 0 .. k : f[i] = IF i = 0 THEN <<>>
          ELSE IF items[i].name = <<>> THEN f[i - 1] ELSE Append(f[i - 1], PairAt(items, i))
    BY <2>1 DEF PairList
  <2>5. g = [i \in 0 .. k + 1 |-> g[i]]
    OBVIOUS
  <2> HIDE DEF g
  <2>6. ASSUME NEW i \in 0 .. k + 1
        PROVE  g[i] = IF i = 0 THEN <<>>
                      ELSE IF items[i].name = <<>> THEN g[i - 1] ELSE Append(g[i - 1], PairAt(items, i))
    <3>1. CASE i = k + 1
      <4>1. g[i - 1] = f[k] /\ i # 0
        BY <2>2, <3>1
      <4> QED
        BY <2>3, <3>1, <4>1
    <3>2. CASE i \in 0 .. k
      <4>1. g[i] = f[i] /\ (i # 0 => g[i - 1] = f[i - 1])
        BY <2>2, <3>2
      <4> QED
        BY <2>4, <3>2, <4>1
    <3> QED
      BY <3>1, <3>2
  <2>7. PairList(items, g, k + 1)
    BY <2>5, <2>6, Zenon DEF PairList
  <2> QED
    BY <2>7
<1> HIDE DEF P
<1>3. Nat \subseteq P
  BY <1>1, <1>2, NatSetInduction
<1> QED
  BY <1>3 DEF P

(* So Pairs is what its definition says.                                   *)
LEMMA PairsFacts ==
  ASSUME NEW items \in Seq(Item)
  PROVE  /\ Pairs(items, 0) = <<>>
         /\ \A k \in 1 .. Len(items) :
              Pairs(items, k) = IF items[k].name = <<>> THEN Pairs(items, k - 1)
                         ELSE Append(Pairs(items, k - 1), PairAt(items, k))
<1> DEFINE F == CHOOSE h : h = [k \in 0 .. Len(items) |->
         IF k = 0 THEN <<>>
         ELSE IF items[k].name = <<>> THEN h[k - 1]
         ELSE Append(h[k - 1], <<items[k].name[1], items[k].value>>)]
<1>1. Len(items) \in Nat
  OBVIOUS
<1>2. PICK g : PairList(items, g, Len(items))
  BY <1>1, PairsExist
<1>3. g = [k \in 0 .. Len(items) |->
         IF k = 0 THEN <<>>
         ELSE IF items[k].name = <<>> THEN g[k - 1]
         ELSE Append(g[k - 1], <<items[k].name[1], items[k].value>>)]
  BY <1>2, Zenon DEF PairList, PairAt
<1>4. F = [k \in 0 .. Len(items) |->
         IF k = 0 THEN <<>>
         ELSE IF items[k].name = <<>> THEN F[k - 1]
         ELSE Append(F[k - 1], <<items[k].name[1], items[k].value>>)]
  BY <1>3, Zenon
<1>5. \A n : Pairs(items, n) = F[n]
  BY Zenon DEF Pairs
<1> HIDE DEF F
<1>6. \A k \in 0 .. Len(items) : F[k] =
         IF k = 0 THEN <<>>
         ELSE IF items[k].name = <<>> THEN F[k - 1]
         ELSE Append(F[k - 1], <<items[k].name[1], items[k].value>>)
  BY <1>4, Zenon
<1>7. 0 \in 0 .. Len(items) /\ \A k \in 1 .. Len(items) : k \in 0 .. Len(items) /\ k # 0
  BY <1>1
<1> QED
  BY <1>5, <1>6, <1>7, Zenon DEF PairAt

(* Items without #define add nothing.                                      *)
LEMMA NoPairs ==
  ASSUME NEW items \in Seq(Item), NEW m \in 0 .. Len(items), NEW n \in m .. Len(items),
         \A i \in m + 1 .. n : items[i].name = <<>>
  PROVE  Pairs(items, n) = Pairs(items, m)
<1> DEFINE P == {k \in Nat : m + k <= n => Pairs(items, m + k) = Pairs(items, m)}
<1>1. 0 \in P
  OBVIOUS
<1>2. ASSUME NEW k \in Nat, k \in P PROVE k + 1 \in P
  <2> SUFFICES ASSUME m + (k + 1) <= n PROVE Pairs(items, m + (k + 1)) = Pairs(items, m)
    OBVIOUS
  <2>0. Len(items) \in Nat
    OBVIOUS
  <2>1. PICK j : j = m + (k + 1)
    OBVIOUS
  <2>2. j \in m + 1 .. n /\ j \in 1 .. Len(items) /\ j - 1 = m + k /\ m + k <= n
    BY <2>0, <2>1
  <2>3. Pairs(items, j) = Pairs(items, j - 1)
    BY <2>2, PairsFacts
  <2>4. Pairs(items, m + k) = Pairs(items, m)
    BY <1>2, <2>2
  <2> QED
    BY <2>1, <2>2, <2>3, <2>4
<1> HIDE DEF P
<1>3. Nat \subseteq P
  BY <1>1, <1>2, NatSetInduction
<1>4. n - m \in P
  BY <1>3
<1>5. m + (n - m) = n
  OBVIOUS
<1> QED
  BY <1>4, <1>5 DEF P

(* strstr finds the next #define, and none is in between.                  *)
LEMMA NextIsSmallest ==
  ASSUME data \in Seq(Item), read \in Int, Ahead # {}
  PROVE  NextDefine \in Ahead /\ \A j \in Ahead : NextDefine <= j
<1>1. Ahead \subseteq Nat
  BY DEF Ahead, Defines
<1>2. \E i \in Ahead : \A j \in Ahead : i <= j
  BY <1>1, SmallestExists
<1> QED
  BY <1>2 DEF NextDefine

(* Every name has one word and fits.                                       *)
AllPlain == \A i \in Defines : Plain(data[i])

(* The types                                                               *)
Typed ==
  /\ data \in Seq(Item) /\ disk \in Seq(Item)
  /\ size \in Int /\ read \in Int

(* While the caller reads, it has seen exactly the #defines m_psRead is    *)
(* behind of. A buffer without text has no m_psRead.                       *)
ReadSoFar ==
  reading =>
    \/ read = -1 /\ data = <<>> /\ got = <<>>
    \/ read \in 0 .. Len(data) /\ (AllPlain => got = Pairs(data, read))

(* The inductive invariant. That an object without buffer holds no text is *)
(* why Append may ask GrowTo for the first one.                            *)
HeaderInv ==
  /\ Typed
  /\ Fits
  /\ size = 0 => data = <<>>
  /\ SavedIsOnDisk
  /\ ReadSoFar

(* The constructor establishes it.                                         *)
LEMMA InitHeader == Init => HeaderInv
<1> SUFFICES ASSUME Init PROVE HeaderInv
  OBVIOUS
<1>1. Typed
  BY cHeaderAssumption DEF Init, Typed
<1>2. Fits
  BY LengthNone, cHeaderAssumption DEF Init, Fits
<1> QED
  BY <1>1, <1>2 DEF Init, HeaderInv, SavedIsOnDisk, ReadSoFar

(* A new object has it.                                                    *)
LEMMA NewObjectHeader == HeaderInv /\ NewObject => HeaderInv'
<1> SUFFICES ASSUME HeaderInv, NewObject PROVE HeaderInv'
  OBVIOUS
<1>1. Typed'
  BY cHeaderAssumption DEF NewObject, Typed, HeaderInv
<1>2. Fits'
  <2>1. Length(data') = 0
    BY LengthNone DEF NewObject
  <2> QED
    BY <2>1, cHeaderAssumption DEF NewObject, Fits
<1>3. SavedIsOnDisk'
  BY DEF NewObject, HeaderInv, SavedIsOnDisk
<1>4. ReadSoFar'
  BY DEF NewObject, ReadSoFar
<1> QED
  BY <1>1, <1>2, <1>3, <1>4 DEF NewObject, HeaderInv

(* Append and DefineValue keep it: m_psAppend moves with the buffer when   *)
(* it grows.                                                               *)
LEMMA AppendHeader ==
  ASSUME HeaderInv, NEW item \in Item, AppendItem(item)
  PROVE  HeaderInv'
<1>1. data \in Seq(Item) /\ data' = Append(data, item) /\ data' # <<>>
  BY DEF HeaderInv, Typed, AppendItem, Append1
<1>2. item.length \in Nat \ {0}
  BY DEF Item
<1>3. Length(data) \in Nat /\ Length(data') = Length(data) + item.length
  BY <1>1, LengthIsNat, LengthMore
<1>4. size' = GrowTo(used + item.length) /\ used' = used + item.length
      /\ append' = (IF size' = size THEN append ELSE used) + item.length
  BY Zenon DEF AppendItem, Append1
<1>5. used = Length(data) /\ append = used /\ size \in Int
  BY DEF HeaderInv, Fits, Typed
<1>6. size' \in Int /\ used' < size' /\ size' # 0
  BY <1>2, <1>3, <1>4, <1>5, cHeaderAssumption DEF GrowTo
<1>7. used' = Length(data') /\ append' = used'
  BY <1>3, <1>4, <1>5
<1>8. Typed'
  BY <1>1, <1>6 DEF Typed, HeaderInv, AppendItem
<1>9. Fits'
  BY <1>6, <1>7 DEF Fits
<1>10. SavedIsOnDisk'
  BY DEF AppendItem, HeaderInv, SavedIsOnDisk
<1>11. ReadSoFar'
  BY DEF AppendItem, ReadSoFar
<1> QED
  BY <1>6, <1>8, <1>9, <1>10, <1>11 DEF HeaderInv

(* Save keeps it: it leaves a file alone only if it holds the text.        *)
LEMMA SaveHeader == \A b \in BOOLEAN : HeaderInv /\ Save(b) => HeaderInv'
<1> SUFFICES ASSUME NEW b \in BOOLEAN, HeaderInv, Save(b) PROVE HeaderInv'
  OBVIOUS
<1>1. /\ UNCHANGED <<data, size, used, append, read, got, reading>>
      /\ disk' \in {data, disk, <<>>}
      /\ saved' \subseteq {disk'}
  BY DEF Save, Same
<1>2. Typed'
  <2>1. <<>> \in Seq(Item)
    OBVIOUS
  <2>2. data \in Seq(Item) /\ disk \in Seq(Item)
    BY DEF HeaderInv, Typed
  <2>3. disk' \in Seq(Item)
    BY ONLY <1>1, <2>1, <2>2
  <2> QED
    BY <1>1, <2>3 DEF HeaderInv, Typed
<1>3. Fits'
  BY <1>1 DEF HeaderInv, Fits
<1>4. SavedIsOnDisk'
  BY <1>1 DEF SavedIsOnDisk
<1>5. ReadSoFar'
  BY <1>1 DEF HeaderInv, ReadSoFar, AllPlain, Defines, Pairs
<1> QED
  BY <1>1, <1>2, <1>3, <1>4, <1>5 DEF HeaderInv

(* Open keeps it, also of a file that is missing.                          *)
LEMMA OpenHeader == HeaderInv /\ Open => HeaderInv'
<1> SUFFICES ASSUME HeaderInv, Open PROVE HeaderInv'
  OBVIOUS
<1>1. disk \in Seq(Item) /\ Length(disk) \in Nat
  BY LengthIsNat DEF HeaderInv, Typed
<1>2. Typed'
  BY <1>1 DEF Open, Typed
<1>3. Fits'
  <2>1. disk = <<>> => Length(disk) = 0
    BY LengthNone
  <2> QED
    BY <1>1, <2>1 DEF Open, Fits
<1>4. SavedIsOnDisk'
  BY DEF Open, HeaderInv, SavedIsOnDisk
<1>5. ReadSoFar'
  <2>1. CASE disk = <<>>
    BY <2>1 DEF Open, ReadSoFar
  <2>2. CASE disk # <<>>
    <3>1. read' = 0 /\ got' = <<>> /\ data' \in Seq(Item)
      BY <1>1, <2>2 DEF Open
    <3>2. Pairs(data', 0) = <<>>
      BY <3>1, PairsFacts
    <3>3. read' \in 0 .. Len(data')
      BY <3>1
    <3> QED
      BY <3>1, <3>2, <3>3 DEF ReadSoFar
  <2> QED
    BY <2>1, <2>2
<1>6. size' = 0 => data' = <<>>
  BY <1>1 DEF Open
<1> QED
  BY <1>2, <1>3, <1>4, <1>5, <1>6 DEF HeaderInv

(* ReadReset keeps it.                                                     *)
LEMMA ReadResetHeader == HeaderInv /\ ReadReset => HeaderInv'
<1> SUFFICES ASSUME HeaderInv, ReadReset PROVE HeaderInv'
  OBVIOUS
<1>1. Typed'
  BY DEF ReadReset, HeaderInv, Typed
<1>2. Fits'
  BY DEF ReadReset, HeaderInv, Fits
<1>3. SavedIsOnDisk'
  BY DEF ReadReset, HeaderInv, SavedIsOnDisk
<1>4. ReadSoFar'
  <2>1. CASE size = 0
    BY <2>1 DEF ReadReset, HeaderInv, ReadSoFar
  <2>2. CASE size # 0
    <3>1. read' = 0 /\ got' = <<>> /\ data' \in Seq(Item)
      BY <2>2 DEF ReadReset, HeaderInv, Typed
    <3>2. Pairs(data', 0) = <<>>
      BY <3>1, PairsFacts
    <3>3. read' \in 0 .. Len(data')
      BY <3>1
    <3> QED
      BY <3>1, <3>2, <3>3 DEF ReadSoFar
  <2> QED
    BY <2>1, <2>2
<1> QED
  BY <1>1, <1>2, <1>3, <1>4 DEF ReadReset, HeaderInv

(* One call of ReadValue that finds a #define: with plain names it returns *)
(* what that defines and the caller goes on.                               *)
LEMMA ReadValueReads ==
  ASSUME HeaderInv, ReadValue, read # -1, Ahead # {}
  PROVE  /\ read' = NextDefine /\ read' \in 1 .. Len(data) /\ data[read'].name # <<>>
         /\ AllPlain => reading' = reading
                        /\ (got = Pairs(data, read) => got' = Pairs(data, read'))
<1>1. data \in Seq(Item) /\ read \in Int
  BY DEF HeaderInv, Typed
<1>2. reading /\ read \in 0 .. Len(data)
  BY DEF HeaderInv, ReadSoFar, ReadValue
<1>3. PICK n : n = NextDefine
  OBVIOUS
<1>4. n \in Ahead /\ \A j \in Ahead : n <= j
  BY <1>1, <1>3, NextIsSmallest
<1>5. read' = n
  BY <1>3 DEF ReadValue
<1>6. n \in 1 .. Len(data) /\ n > read /\ data[n].name # <<>> /\ n \in Defines
  BY <1>1, <1>4 DEF Ahead, Defines
<1>7. \A i \in read + 1 .. n - 1 : data[i].name = <<>>
  BY <1>1, <1>2, <1>4, <1>6 DEF Ahead, Defines
<1>8. Pairs(data, n) = Append(Pairs(data, read), PairAt(data, n))
  <2>1. n - 1 \in read .. Len(data)
    BY <1>1, <1>2, <1>6
  <2>2. Pairs(data, n - 1) = Pairs(data, read)
    BY <1>1, <1>2, <1>7, <2>1, NoPairs
  <2>3. Pairs(data, n) = Append(Pairs(data, n - 1), PairAt(data, n))
    BY <1>1, <1>6, PairsFacts
  <2> QED
    BY <2>2, <2>3
<1>9. ASSUME AllPlain
      PROVE  reading' = reading /\ (got = Pairs(data, read) => got' = Pairs(data, n))
  <2>1. PICK d : d = data[n]
    OBVIOUS
  <2>2. Plain(d)
    BY <1>6, <1>9, <2>1 DEF AllPlain
  <2>3. Reads(d) /\ Number(d) = d.value
    BY <2>2 DEF Plain, Reads, HasNumber, Number
  <2>4. got' = Append(got, <<d.name[1], Number(d)>>) /\ reading' = reading
    BY <1>5, <2>1, <2>3 DEF ReadValue
  <2> QED
    BY <1>8, <2>1, <2>3, <2>4 DEF PairAt
<1> QED
  BY <1>3, <1>5, <1>6, <1>9

(* ReadValue keeps it.                                                     *)
LEMMA ReadValueHeader == HeaderInv /\ ReadValue => HeaderInv'
<1> SUFFICES ASSUME HeaderInv, ReadValue PROVE HeaderInv'
  OBVIOUS
<1>0. UNCHANGED <<data, size, used, append, disk, saved>>
  BY DEF ReadValue
<1>1. Typed'
  <2>1. read' \in Int
    <3>1. CASE read = -1 \/ Ahead = {}
      <4>1. read' = -1
        BY <3>1, Zenon DEF ReadValue
      <4> QED
        BY <4>1
    <3>2. CASE ~(read = -1 \/ Ahead = {})
      BY <3>2, ReadValueReads
    <3> QED
      BY <3>1, <3>2
  <2> QED
    BY <1>0, <2>1 DEF HeaderInv, Typed
<1>2. Fits'
  BY <1>0 DEF HeaderInv, Fits
<1>3. SavedIsOnDisk'
  BY <1>0 DEF HeaderInv, SavedIsOnDisk
<1>4. ReadSoFar'
  <2>1. CASE read = -1 \/ Ahead = {}
    BY <2>1 DEF ReadValue, ReadSoFar
  <2>2. CASE ~(read = -1 \/ Ahead = {})
    <3>1. read \in 0 .. Len(data) /\ (AllPlain => got = Pairs(data, read))
      BY <2>2 DEF HeaderInv, ReadSoFar, ReadValue
    <3>2. /\ read' \in 1 .. Len(data)
          /\ AllPlain => (got = Pairs(data, read) => got' = Pairs(data, read'))
      BY <2>2, ReadValueReads
    <3>3. AllPlain' <=> AllPlain
      BY <1>0 DEF AllPlain, Defines
    <3>4. Pairs(data, read)' = Pairs(data, read')
      BY <1>0, Zenon DEF Pairs
    <3>5. read' \in 0 .. Len(data')
      BY <1>0, <3>2
    <3> QED
      BY <3>1, <3>2, <3>3, <3>4, <3>5 DEF ReadSoFar
  <2> QED
    BY <2>1, <2>2
<1> QED
  BY <1>0, <1>1, <1>2, <1>3, <1>4 DEF HeaderInv

(* Every step keeps it.                                                    *)
LEMMA NextHeader == HeaderInv /\ [Next]_vars => HeaderInv'
<1> SUFFICES ASSUME HeaderInv, [Next]_vars PROVE HeaderInv'
  OBVIOUS
<1>1. CASE NewObject
  BY <1>1, NewObjectHeader
<1>2. CASE \E n \in Lines : AppendLine(n)
  BY <1>2, TextIsItem, AppendHeader DEF AppendLine
<1>3. CASE \E n \in Names, v \in Values : DefineValue(n, v)
  BY <1>3, DefineIsItem, AppendHeader DEF DefineValue
<1>4. CASE \E b \in BOOLEAN : Save(b)
  BY <1>4, SaveHeader
<1>5. CASE Open
  BY <1>5, OpenHeader
<1>6. CASE ReadValue
  BY <1>6, ReadValueHeader
<1>7. CASE ReadReset
  BY <1>7, ReadResetHeader
<1>8. CASE UNCHANGED vars
  <2>1. UNCHANGED <<data, size, used, append, read, disk, saved, got, reading>>
    BY <1>8 DEF vars
  <2>2. Typed' /\ Fits'
    BY <2>1 DEF HeaderInv, Typed, Fits
  <2>3. SavedIsOnDisk'
    BY <2>1 DEF HeaderInv, SavedIsOnDisk
  <2>4. ReadSoFar'
    BY <2>1 DEF HeaderInv, ReadSoFar, AllPlain, Defines
  <2> QED
    BY <2>1, <2>2, <2>3, <2>4 DEF HeaderInv
<1> QED
  BY <1>1, <1>2, <1>3, <1>4, <1>5, <1>6, <1>7, <1>8 DEF Next

(* The invariant holds in every state, for any texts and any size of the   *)
(* chunks.                                                                 *)
THEOREM HeaderInvariant == Spec => []HeaderInv
BY InitHeader, NextHeader, PTL DEF Spec

(* The pointers and sizes of the buffer agree and the text fits, through   *)
(* every growth and every Open (GrowTo, Append, Open).                     *)
THEOREM BufferFits == Spec => []Fits
<1>1. HeaderInv => Fits
  BY DEF HeaderInv
<1> QED
  BY <1>1, HeaderInvariant, PTL

(* A Save that does not write had nothing to write (cHeader::Save).        *)
THEOREM SavedTextIsOnDisk == Spec => []SavedIsOnDisk
<1>1. HeaderInv => SavedIsOnDisk
  BY DEF HeaderInv
<1> QED
  BY <1>1, HeaderInvariant, PTL

(* What the caller has read is what is defined.                            *)
Merged == (\A i \in Defines : Plain(data[i])) => got' = Pairs(data, Len(data))

(* That is so when ReadValue returns false.                                *)
LEMMA LastRead ==
  ASSUME HeaderInv, ReadValue, ~reading'
  PROVE  Merged
<1> SUFFICES ASSUME AllPlain PROVE got' = Pairs(data, Len(data))
  BY DEF Merged, AllPlain
<1>1. data \in Seq(Item)
  BY DEF HeaderInv, Typed
<1>2. read = -1 \/ Ahead = {}
  <2>1. reading
    BY DEF ReadValue
  <2>2. ~(read = -1 \/ Ahead = {}) => reading' = reading
    BY ReadValueReads
  <2> QED
    BY <2>1, <2>2
<1>3. got' = got
  BY <1>2, Zenon DEF ReadValue
<1>4. CASE read = -1
  <2>1. data = <<>> /\ got = <<>>
    BY <1>1, <1>4 DEF HeaderInv, ReadSoFar, ReadValue
  <2>2. Pairs(data, 0) = <<>>
    BY <1>1, PairsFacts
  <2> QED
    BY <1>3, <2>1, <2>2
<1>5. CASE read # -1
  <2>1. read \in 0 .. Len(data) /\ got = Pairs(data, read)
    BY <1>5 DEF HeaderInv, ReadSoFar, ReadValue
  <2>2. \A i \in read + 1 .. Len(data) : data[i].name = <<>>
    BY <1>1, <1>2, <1>5, <2>1 DEF Ahead, Defines
  <2>3. Pairs(data, Len(data)) = Pairs(data, read)
    <3>1. Len(data) \in read .. Len(data)
      BY <1>1, <2>1
    <3> QED
      BY <1>1, <2>1, <2>2, <3>1, NoPairs
  <2> QED
    BY <1>3, <2>1, <2>3
<1> QED
  BY <1>4, <1>5

(* The loop of main that merges a header into the master header sees every *)
(* #define, in order and with its value, if all names are plain: for texts *)
(* of any length, and through Opens, appends and ReadResets before it.     *)
THEOREM HeaderRoundTrip == Spec => RoundTrip
<1>1. ASSUME HeaderInv, [Next]_vars, reading, ~reading' PROVE Merged
  <2>1. ReadValue
    BY <1>1, Zenon DEF Next, vars, NewObject, AppendLine, DefineValue, AppendItem, Save, Open, ReadReset
  <2> QED
    BY <1>1, <2>1, LastRead
<1>2. HeaderInv /\ [Next]_vars => [reading /\ ~reading' => Merged]_vars
  BY <1>1
<1>3. Spec => [][reading /\ ~reading' => Merged]_vars
  BY <1>2, HeaderInvariant, PTL DEF Spec
<1> QED
  BY <1>3, Zenon DEF RoundTrip, Merged
=============================================================================
