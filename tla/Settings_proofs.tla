--------------------------- MODULE Settings_proofs ---------------------------
(***************************************************************************)
(* Proofs about what is kept in the settings.  KeymapSettings, for every   *)
(* number of layers, positions and layouts, whatever edits, failed writes  *)
(* and loads, and restarts: no change is forgotten, and a save that        *)
(* succeeds is complete, but for what a reset overlooks and a discard does *)
(* not read.  Lights, for any brightness, hue and speed, any options of a  *)
(* build and any number of commands: what is drawn exists, what is off is  *)
(* dark, the LED and the settings follow the state, and the two halves     *)
(* agree on what a behavior has set.                                       *)
(***************************************************************************)
EXTENDS KeymapSettings, Lights, SequenceTheorems, WellFoundedInduction, TLAPS

\* A nonempty set of natural numbers has a least one, which is its Min.
LEMMA MinOf ==
    ASSUME NEW T \in SUBSET Nat, T # {}
    PROVE  Min(T) \in T /\ \A y \in T : Min(T) <= y
<1> DEFINE R == {ss \in Nat \X Nat : ss[1] < ss[2]}
<1>1. IsWellFoundedOn(R, Nat)
  BY NatLessThanWellFounded DEF OpToRel
<1>2. \A x, y \in Nat : y < x => <<y, x>> \in R
  OBVIOUS
<1> HIDE DEF R
<1>3. PICK x \in T : \A y \in T : ~(<<y, x>> \in R)
  BY <1>1, WFMin
<1>4. \A y \in T : ~(y < x)
  BY <1>2, <1>3
<1>5. x \in T /\ \A y \in T : x <= y
  BY <1>4
<1>6. QED
  BY <1>5 DEF Min
-----------------------------------------------------------------------------
(***************************************************************************)
(* Sequences that lose, get and move an entry.                             *)
(***************************************************************************)
LEMMA Removed ==
    ASSUME NEW S, NEW n \in Nat, NEW s \in [1..n -> S], NEW i \in 1..n
    PROVE  /\ RemoveAt(s, i) \in Seq(S) /\ Len(RemoveAt(s, i)) = n - 1
           /\ \A j \in 1..n - 1 : RemoveAt(s, i)[j] = IF j < i THEN s[j] ELSE s[j + 1]
<1>1. s \in Seq(S) /\ Len(s) = n
  OBVIOUS
<1>2. /\ SubSeq(s, 1, i - 1) \in Seq(S) /\ Len(SubSeq(s, 1, i - 1)) = i - 1
      /\ \A j \in 1..i - 1 : SubSeq(s, 1, i - 1)[j] = s[j]
  BY SubSeqProperties
<1>3. /\ SubSeq(s, i + 1, n) \in Seq(S) /\ Len(SubSeq(s, i + 1, n)) = n - i
      /\ \A j \in 1..n - i : SubSeq(s, i + 1, n)[j] = s[i + j]
  BY SubSeqProperties
<1>4. QED
  BY <1>1, <1>2, <1>3, ConcatProperties DEF RemoveAt

LEMMA Inserted ==
    ASSUME NEW S, NEW s \in Seq(S), NEW i \in 1..Len(s) + 1, NEW e \in S
    PROVE  /\ InsertAt(s, i, e) \in Seq(S) /\ Len(InsertAt(s, i, e)) = Len(s) + 1
           /\ \A j \in 1..Len(s) + 1 :
                InsertAt(s, i, e)[j] = IF j < i THEN s[j] ELSE IF j = i THEN e ELSE s[j - 1]
<1> DEFINE n == Len(s)
           head == SubSeq(s, 1, i - 1)
           tail == SubSeq(s, i, n)
<1>1. n \in Nat /\ s \in [1..n -> S] /\ i \in 1..n + 1
  BY LenProperties
<1>2. /\ head \in Seq(S) /\ Len(head) = i - 1
      /\ \A j \in 1..i - 1 : head[j] = s[j]
  BY <1>1, SubSeqProperties
<1>3. /\ tail \in Seq(S) /\ Len(tail) = n - i + 1
      /\ \A j \in 1..n - i + 1 : tail[j] = s[i + j - 1]
  BY <1>1, SubSeqProperties
<1>4. <<e>> \in Seq(S) /\ Len(<<e>>) = 1 /\ <<e>>[1] = e
  OBVIOUS
<1> HIDE DEF head, tail
<1> DEFINE front == head \o <<e>>
<1>5. /\ front \in Seq(S) /\ Len(front) = i
      /\ \A j \in 1..i : front[j] = IF j < i THEN s[j] ELSE e
  BY <1>1, <1>2, <1>4, ConcatProperties
<1>6. InsertAt(s, i, e) = front \o tail
  BY DEF InsertAt, head, tail
<1> HIDE DEF front
<1>7. /\ front \o tail \in Seq(S) /\ Len(front \o tail) = n + 1
      /\ \A j \in 1..n + 1 : (front \o tail)[j] = IF j <= i THEN front[j] ELSE tail[j - i]
  BY <1>1, <1>3, <1>5, ConcatProperties
<1>8. ASSUME NEW j \in 1..n + 1
      PROVE  (front \o tail)[j] = IF j < i THEN s[j] ELSE IF j = i THEN e ELSE s[j - 1]
  <2>1. CASE j <= i
    BY <1>1, <1>5, <1>7, <2>1
  <2>2. CASE i < j
    <3>1. j - i \in 1..n - i + 1 /\ i + (j - i) - 1 = j - 1
      BY <1>1, <2>2
    <3>2. QED
      BY <1>1, <1>3, <1>7, <2>2, <3>1
  <2> HIDE DEF n
  <2>3. j <= i \/ i < j
    BY <1>1
  <2>4. QED
    BY <2>1, <2>2, <2>3
<1>9. QED
  BY <1>6, <1>7, <1>8

\* What the four requests that change the order make of it, entry by entry.
LEMMA MovedOrder ==
    ASSUME NEW o \in Orders, NEW s \in Idx, NEW d \in Idx, s # d
    PROVE  /\ InsertAt(RemoveAt(o, s), d, o[s]) \in Orders
           /\ \A i \in Idx : InsertAt(RemoveAt(o, s), d, o[s])[i] =
                o[IF i = d THEN s ELSE IF s <= i /\ i < d THEN i + 1
                               ELSE IF d < i /\ i <= s THEN i - 1 ELSE i]
<1> DEFINE S == Ids \union {Inval}
           r == RemoveAt(o, s)
           m == InsertAt(r, d, o[s])
<1>0. LayersLen \in Nat /\ Idx = 1..LayersLen /\ o \in [1..LayersLen -> S] /\ o[s] \in S
  BY KeymapSettingsAssumption DEF Idx, Orders
<1>1. /\ r \in Seq(S) /\ Len(r) = LayersLen - 1
      /\ \A j \in 1..LayersLen - 1 : r[j] = IF j < s THEN o[j] ELSE o[j + 1]
  <2> HIDE DEF S
  <2>1. s \in 1..LayersLen
    BY <1>0
  <2>2. QED
    BY <1>0, <2>1, Removed
<1>2. /\ m \in Seq(S) /\ Len(m) = LayersLen
      /\ \A j \in 1..LayersLen : m[j] = IF j < d THEN r[j] ELSE IF j = d THEN o[s] ELSE r[j - 1]
  <2> HIDE DEF r, S
  <2>1. d \in 1..Len(r) + 1 /\ r \in Seq(S) /\ o[s] \in S
    BY <1>0, <1>1
  <2>2. /\ m \in Seq(S) /\ Len(m) = Len(r) + 1
        /\ \A j \in 1..Len(r) + 1 : m[j] = IF j < d THEN r[j] ELSE IF j = d THEN o[s] ELSE r[j - 1]
    BY <2>1, Inserted
  <2>3. QED
    BY <1>0, <1>1, <2>2
<1>3. m \in Orders
  <2> HIDE DEF m
  <2>1. QED
    BY <1>0, <1>2, LenProperties DEF Orders
<1>4. QED
  <2> HIDE DEF m, r
  <2>1. ASSUME NEW i \in Idx
        PROVE  m[i] = o[IF i = d THEN s ELSE IF s <= i /\ i < d THEN i + 1
                               ELSE IF d < i /\ i <= s THEN i - 1 ELSE i]
    <3>1. CASE i < d
      <4>1. i \in 1..LayersLen - 1 /\ s \in Int /\ d \in Int
        BY <1>0, <3>1
      <4>2. m[i] = r[i]
        BY <1>0, <1>2, <3>1
      <4>3. r[i] = IF i < s THEN o[i] ELSE o[i + 1]
        BY <1>1, <4>1
      <4> HIDE DEF S
      <4>4. QED
        BY <3>1, <4>1, <4>2, <4>3
    <3>2. CASE i = d
      BY <1>0, <1>2, <3>2
    <3>3. CASE d < i
      <4>1. i - 1 \in 1..LayersLen - 1 /\ m[i] = r[i - 1] /\ i - 1 + 1 = i
        BY <1>0, <1>2, <3>3
      <4>2. r[i - 1] = IF i - 1 < s THEN o[i - 1] ELSE o[i]
        BY <1>1, <4>1
      <4>3. i \in Int /\ s \in Int /\ d \in Int
        BY <1>0
      <4>4. QED
        BY <3>3, <4>1, <4>2, <4>3
    <3>4. QED
      BY <1>0, <3>1, <3>2, <3>3
  <2>2. QED
    BY <1>3, <2>1 DEF m, r

LEMMA ShortenedOrder ==
    ASSUME NEW o \in Orders, NEW s \in Idx
    PROVE  /\ Append(RemoveAt(o, s), Inval) \in Orders
           /\ \A i \in Idx : Append(RemoveAt(o, s), Inval)[i] =
                IF i = LayersLen THEN Inval ELSE IF i < s THEN o[i] ELSE o[i + 1]
<1> DEFINE S == Ids \union {Inval}
           r == RemoveAt(o, s)
<1>0. LayersLen \in Nat /\ Idx = 1..LayersLen /\ o \in [1..LayersLen -> S]
  BY KeymapSettingsAssumption DEF Idx, Orders
<1>1. /\ r \in Seq(S) /\ Len(r) = LayersLen - 1
      /\ \A j \in 1..LayersLen - 1 : r[j] = IF j < s THEN o[j] ELSE o[j + 1]
  <2> HIDE DEF S
  <2>1. s \in 1..LayersLen
    BY <1>0
  <2>2. QED
    BY <1>0, <2>1, Removed
<1> HIDE DEF r
<1>2. /\ Append(r, Inval) \in Seq(S) /\ Len(Append(r, Inval)) = LayersLen
      /\ \A j \in 1..LayersLen : Append(r, Inval)[j] = IF j = LayersLen THEN Inval ELSE r[j]
  <2>1. r \in Seq(S) /\ Inval \in S BY <1>1
  <2> HIDE DEF S
  <2>2. /\ Append(r, Inval) \in Seq(S) /\ Len(Append(r, Inval)) = Len(r) + 1
        /\ \A j \in 1..Len(r) : Append(r, Inval)[j] = r[j]
        /\ Append(r, Inval)[Len(r) + 1] = Inval
    BY <2>1, AppendProperties
  <2>3. Len(r) + 1 = LayersLen /\ Len(r) \in Nat BY <1>0, <1>1
  <2>4. ASSUME NEW j \in 1..LayersLen
        PROVE  Append(r, Inval)[j] = IF j = LayersLen THEN Inval ELSE r[j]
    <3>1. CASE j = LayersLen BY <2>2, <2>3, <3>1
    <3>2. CASE j # LayersLen BY <2>2, <2>3, <2>4, <3>2
    <3> QED BY <3>1, <3>2
  <2> QED BY <2>2, <2>3, <2>4
<1>3. Append(r, Inval) \in Orders
  <2> DEFINE t == Append(r, Inval)
  <2>1. t \in Seq(S) /\ Len(t) = LayersLen BY <1>2
  <2> HIDE DEF t, S
  <2>2. t \in [1..LayersLen -> S] BY <2>1, LenProperties
  <2>3. Orders = [1..LayersLen -> S] BY <1>0 DEF Orders, S
  <2> QED BY <2>2, <2>3 DEF t
<1>4. QED
  BY <1>0, <1>1, <1>2, <1>3 DEF r

LEMMA LengthenedOrder ==
    ASSUME NEW o \in Orders, NEW at \in Idx, NEW e \in Ids \union {Inval}
    PROVE  /\ SubSeq(InsertAt(o, at, e), 1, LayersLen) \in Orders
           /\ \A i \in Idx :
                /\ i < at => SubSeq(InsertAt(o, at, e), 1, LayersLen)[i] = o[i]
                /\ i = at => SubSeq(InsertAt(o, at, e), 1, LayersLen)[i] = e
                /\ at < i => SubSeq(InsertAt(o, at, e), 1, LayersLen)[i] = o[i - 1]
<1> DEFINE S == Ids \union {Inval}
           m == InsertAt(o, at, e)
<1>0. /\ LayersLen \in Nat /\ Idx = 1..LayersLen
      /\ o \in [1..LayersLen -> S] /\ o \in Seq(S) /\ Len(o) = LayersLen
  <2>1. LayersLen \in Nat /\ Idx = 1..LayersLen
    BY KeymapSettingsAssumption DEF Idx
  <2>2. o \in [1..LayersLen -> S]
    BY <2>1 DEF Orders
  <2> HIDE DEF S
  <2>3. o \in Seq(S) /\ Len(o) = LayersLen
    BY <2>1, <2>2
  <2>4. QED
    BY <2>1, <2>2, <2>3
<1>1. /\ m \in Seq(S) /\ Len(m) = LayersLen + 1
      /\ \A j \in 1..LayersLen + 1 : m[j] = IF j < at THEN o[j] ELSE IF j = at THEN e ELSE o[j - 1]
  <2>1. at \in 1..Len(o) + 1 /\ e \in S /\ o \in Seq(S)
    BY <1>0
  <2> HIDE DEF S
  <2>2. /\ m \in Seq(S) /\ Len(m) = Len(o) + 1
        /\ \A j \in 1..Len(o) + 1 :
             m[j] = IF j < at THEN o[j] ELSE IF j = at THEN e ELSE o[j - 1]
    BY <2>1, Inserted
  <2>3. QED
    BY <1>0, <2>2
<1> HIDE DEF m
<1>2. m \in [1..LayersLen + 1 -> S]
  BY <1>1, LenProperties
<1>3. /\ SubSeq(m, 1, LayersLen) \in Seq(S) /\ Len(SubSeq(m, 1, LayersLen)) = LayersLen
      /\ \A j \in 1..LayersLen : SubSeq(m, 1, LayersLen)[j] = m[j]
  BY <1>0, <1>2, SubSeqProperties
<1>4. SubSeq(m, 1, LayersLen) \in Orders
  BY <1>0, <1>3, LenProperties DEF Orders
<1>5. QED
  BY <1>0, <1>1, <1>3, <1>4 DEF m
-----------------------------------------------------------------------------
(***************************************************************************)
(* The order of the layers stays one, its free entries last.               *)
(***************************************************************************)
OrderOK(o) == \A i, j \in Idx : i < j /\ o[j] # Inval => o[i] # Inval /\ o[i] # o[j]

LEMMA Indexes ==
    /\ LayersLen \in Nat /\ LayersLen > 0 /\ LayersLen <= 32
    /\ Idx = 1..LayersLen /\ Ids = 0..LayersLen - 1 /\ Inval \notin Ids
BY KeymapSettingsAssumption DEF Idx, Ids, Inval

LEMMA MovedOK ==
    ASSUME NEW o \in Orders, OrderOK(o), NEW s \in Idx, NEW d \in Idx, s # d,
           o[s] # Inval, o[d] # Inval
    PROVE  /\ InsertAt(RemoveAt(o, s), d, o[s]) \in Orders
           /\ OrderOK(InsertAt(RemoveAt(o, s), d, o[s]))
<1> DEFINE m == InsertAt(RemoveAt(o, s), d, o[s])
           src(i) == IF i = d THEN s ELSE IF s <= i /\ i < d THEN i + 1
                               ELSE IF d < i /\ i <= s THEN i - 1 ELSE i
<1>1. m \in Orders /\ \A i \in Idx : m[i] = o[src(i)]
  BY MovedOrder
<1>2. \A i \in Idx : src(i) \in Idx
  BY Indexes
<1>3. \A i, j \in Idx : i < j => src(i) # src(j)
  BY Indexes
<1>4. \A i \in Idx : src(i) <= s \/ src(i) <= d \/ (src(i) = i /\ s < i /\ d < i)
  BY Indexes
<1>5. \A i \in Idx : i <= s \/ i <= d => o[i] # Inval
  <2>1. \A i, j \in Idx : i <= j => i = j \/ i < j
    BY Indexes
  <2>2. QED
    BY <2>1 DEF OrderOK
<1>6. \A i, j \in Idx : s < i /\ d < i /\ i < j => src(j) = j
  BY Indexes
<1>7. \A i, j \in Idx : i # j => i < j \/ j < i
  BY Indexes
<1> HIDE DEF m, src
<1>8. ASSUME NEW i \in Idx, NEW j \in Idx, i < j, m[j] # Inval
      PROVE  m[i] # Inval /\ m[i] # m[j]
  <2>1. src(i) \in Idx /\ src(j) \in Idx /\ src(i) # src(j) /\ m[i] = o[src(i)] /\ m[j] = o[src(j)]
    BY <1>1, <1>2, <1>3, <1>8
  <2>2. m[i] # Inval
    <3>1. CASE src(i) <= s \/ src(i) <= d
      BY <1>5, <2>1, <3>1
    <3>2. CASE src(i) = i /\ s < i /\ d < i
      <4>1. src(j) = j
        BY <1>6, <1>8, <3>2
      <4>2. QED
        BY <1>8, <2>1, <3>2, <4>1 DEF OrderOK
    <3>3. QED
      BY <1>4, <3>1, <3>2
  <2>3. m[i] # m[j]
    <3>1. src(i) < src(j) \/ src(j) < src(i)
      BY <1>7, <2>1
    <3>2. QED
      BY <1>8, <2>1, <2>2, <3>1 DEF OrderOK
  <2>4. QED
    BY <2>2, <2>3
<1>9. QED
  BY <1>1, <1>8 DEF m, OrderOK

LEMMA ShortenedOK ==
    ASSUME NEW o \in Orders, OrderOK(o), NEW s \in Idx
    PROVE  Append(RemoveAt(o, s), Inval) \in Orders /\ OrderOK(Append(RemoveAt(o, s), Inval))
<1> DEFINE m == Append(RemoveAt(o, s), Inval)
           src(i) == IF i < s THEN i ELSE i + 1
<1>1. /\ m \in Orders
      /\ \A i \in Idx : m[i] = IF i = LayersLen THEN Inval ELSE IF i < s THEN o[i] ELSE o[i + 1]
  BY ShortenedOrder
<1>2. \A i \in Idx : i # LayersLen => src(i) \in Idx
  BY Indexes
<1>3. \A i, j \in Idx : i < j => src(i) < src(j) /\ i # LayersLen
  BY Indexes
<1>4. \A i \in Idx : IF i = LayersLen THEN m[i] = Inval ELSE m[i] = o[src(i)]
  BY <1>1
<1> HIDE DEF m, src
<1>5. ASSUME NEW i \in Idx, NEW j \in Idx, i < j, m[j] # Inval
      PROVE  m[i] # Inval /\ m[i] # m[j]
  <2>1. j # LayersLen /\ i # LayersLen /\ src(i) < src(j)
    BY <1>3, <1>4, <1>5
  <2>2. src(i) \in Idx /\ src(j) \in Idx /\ m[i] = o[src(i)] /\ m[j] = o[src(j)]
    BY <1>2, <1>4, <2>1
  <2>3. QED
    BY <1>5, <2>1, <2>2 DEF OrderOK
<1>6. QED
  BY <1>1, <1>5 DEF m, OrderOK

LEMMA LengthenedOK ==
    ASSUME NEW o \in Orders, OrderOK(o), NEW at \in Idx,
           NEW layer \in Ids \union {Inval}, layer # Inval,
           \A i \in Idx : o[i] # layer, \A i \in 1..at - 1 : o[i] # Inval
    PROVE  /\ SubSeq(InsertAt(o, at, layer), 1, LayersLen) \in Orders
           /\ OrderOK(SubSeq(InsertAt(o, at, layer), 1, LayersLen))
<1>1. PICK m : m = SubSeq(InsertAt(o, at, layer), 1, LayersLen)
  OBVIOUS
<1> DEFINE src(i) == IF i < at THEN i ELSE i - 1
<1>2. m \in Orders
  BY <1>1, LengthenedOrder
<1>3. \A i \in Idx : /\ i < at => m[i] = o[i]
                     /\ i = at => m[i] = layer
                     /\ at < i => m[i] = o[i - 1]
  <2>1. \A i \in Idx :
          /\ i < at => SubSeq(InsertAt(o, at, layer), 1, LayersLen)[i] = o[i]
          /\ i = at => SubSeq(InsertAt(o, at, layer), 1, LayersLen)[i] = layer
          /\ at < i => SubSeq(InsertAt(o, at, layer), 1, LayersLen)[i] = o[i - 1]
    BY LengthenedOrder
  <2>2. QED
    BY <1>1, <2>1
<1>4. \A i \in Idx : i # at => src(i) \in Idx /\ m[i] = o[src(i)]
  BY <1>3, Indexes
<1>5. m[at] = layer /\ layer # Inval
  BY <1>3, Indexes
<1>6. \A i, j \in Idx : i < j /\ i # at /\ j # at => src(i) < src(j)
  BY Indexes
<1>7. \A i \in Idx : i < at => o[src(i)] # Inval
  <2>1. \A i \in Idx : i < at => i \in 1..at - 1 /\ src(i) = i
    BY Indexes
  <2>2. QED
    BY <2>1
<1> HIDE DEF src
<1>8. ASSUME NEW i \in Idx, NEW j \in Idx, i < j, m[j] # Inval
      PROVE  m[i] # Inval /\ m[i] # m[j]
  <2>1. CASE i = at
    <3>1. j # at
      BY <1>8, <2>1, Indexes
    <3>2. QED
      BY <1>4, <1>5, <2>1, <3>1
  <2>2. CASE j = at
    <3>1. i # at /\ i < at
      BY <1>8, <2>2, Indexes
    <3>2. QED
      BY <1>4, <1>5, <1>7, <2>2, <3>1
  <2>3. CASE i # at /\ j # at
    BY <1>4, <1>6, <1>8, <2>3 DEF OrderOK
  <2>4. QED
    BY <2>1, <2>2, <2>3
<1>9. QED
  BY <1>1, <1>2, <1>8 DEF OrderOK

\* zmk_keymap_add_layer: the first free index gets a layer that none before it has.
LEMMA AddedOK ==
    ASSUME NEW o \in Orders, OrderOK(o), NEW at \in Idx, NEW layer \in Ids,
           o[at] = Inval, \A i \in 1..at - 1 : o[i] # Inval /\ o[i] # layer
    PROVE  [o EXCEPT ![at] = layer] \in Orders /\ OrderOK([o EXCEPT ![at] = layer])
<1> DEFINE m == [o EXCEPT ![at] = layer]
<1>1. m \in Orders /\ \A i \in Idx : m[i] = IF i = at THEN layer ELSE o[i]
  BY DEF Orders
<1>2. layer # Inval
  BY Indexes
<1>3. \A i \in Idx : i < at => o[i] # Inval /\ o[i] # layer
  BY Indexes
<1>4. \A i \in Idx : at < i => o[i] = Inval
  BY DEF OrderOK
<1> HIDE DEF m
<1>5. \A i \in Idx : i < at \/ i = at \/ at < i
  BY Indexes
<1>6. \A i, j \in Idx : i < j => i # j
  BY Indexes
<1>7. ASSUME NEW i \in Idx, NEW j \in Idx, i < j, m[j] # Inval
      PROVE  m[i] # Inval /\ m[i] # m[j]
  <2>1. CASE j = at
    BY <1>1, <1>2, <1>3, <1>6, <1>7, <2>1
  <2>2. CASE j # at
    <3>1. j < at
      BY <1>1, <1>4, <1>5, <1>7, <2>2
    <3>2. i < at
      BY <1>7, <3>1, Indexes
    <3>3. QED
      BY <1>1, <1>7, <2>2, <3>2, <1>6 DEF OrderOK
  <2>3. QED
    BY <2>1, <2>2
<1>8. QED
  BY <1>1, <1>7 DEF m, OrderOK
-----------------------------------------------------------------------------
(***************************************************************************)
(* Types, and what is true of the state r, the settings f and the request  *)
(* d at every step.                                                        *)
(***************************************************************************)
AnyName == Names \union {StockName, NoSetting}

RamType ==
    [map : [Ids -> [KeyPositions -> AnyBinding]], pending : [Ids -> SUBSET KeyPositions],
     order : Orders, sorder : Orders, names : [Ids -> AnyName], changed : SUBSET Ids,
     layout : Layouts, known : Layouts \union {-1}]

FlashType ==
    [bind : [Ids -> [KeyPositions -> AnyBinding \union {NoSetting}]],
     order : Orders \union {NoSetting}, name : [Ids -> AnyName],
     layout : Layouts \union {NoSetting}]

Requests == {"idle", "saveLayout", "saveBindings", "saveOrder", "saveNames", "reset"}
DoingType == [what : Requests, at : 0..LayersLen, todo : SUBSET Ids]

StateType == [ram : RamType, flash : FlashType, doing : DoingType, told : BOOLEAN]

UnreadType == [bind : SUBSET (Ids \X KeyPositions), order : BOOLEAN]

\* A reset goes through the layers: those behind it hold no setting that differs from the
\* stock keymap in the bytes compared, but for bindings that are pending or were not read.
BindingsKept(r, f, d, u) ==
    \A l \in Ids, p \in KeyPositions :
        /\ d.what = "reset" /\ l < d.at =>
             LooksStock(LoadedMap(f)[l][p]) \/ <<l, p>> \in u.bind \/ p \in r.pending[l]
        /\ ~(d.what = "reset" /\ l < d.at) =>
             ComesBack(r, f, u, l, p) \/ p \in r.pending[l]

OrdersKept(r, f, u) ==
    /\ OrderOK(r.order)
    /\ f.order # NoSetting => OrderOK(f.order) /\ (~u.order => r.sorder = f.order)

\* What a save has already written is what it is to write, and a reset begins with the order.
SavedSoFar(r, f, d) ==
    /\ d.what \in {"saveOrder", "saveNames"} => \A l \in Ids : r.pending[l] = {}
    /\ d.what \in {"saveBindings", "saveOrder", "saveNames"} => f.layout = r.layout
    /\ d.what = "saveNames" => f.order = r.order
    /\ d.what = "reset" => f.order = NoSetting

SInv ==
    /\ k \in StateType /\ failures \in Nat /\ restarts \in Nat /\ unread \in UnreadType
    /\ BindingsKept(k.ram, k.flash, k.doing, unread)
    /\ OrdersKept(k.ram, k.flash, unread)
    /\ SavedSoFar(k.ram, k.flash, k.doing)

LEMMA Loaded ==
    ASSUME NEW f \in FlashType
    PROVE  /\ LoadedMap(f) \in [Ids -> [KeyPositions -> AnyBinding]]
           /\ \A l \in Ids, p \in KeyPositions :
                LoadedMap(f)[l][p] = IF f.bind[l][p] = NoSetting THEN StockBinding ELSE f.bind[l][p]
BY DEF LoadedMap, FlashType, AnyBinding

\* No setting for the order: the stock order.
LEMMA StockOrderOK == StockOrder \in Orders /\ OrderOK(StockOrder)
<1>1. \A i \in Idx : StockOrder[i] = IF i <= EnabledLayers THEN i - 1 ELSE Inval
  BY DEF StockOrder
<1>2. \A i \in Idx : i <= EnabledLayers => i - 1 \in Ids /\ i - 1 # Inval
  BY Indexes, KeymapSettingsAssumption DEF Inval
<1>3. StockOrder \in Orders
  BY <1>2 DEF StockOrder, Orders
<1>4. ASSUME NEW i \in Idx, NEW j \in Idx, i < j, StockOrder[j] # Inval
      PROVE  StockOrder[i] # Inval /\ StockOrder[i] # StockOrder[j]
  <2>1. j <= EnabledLayers /\ i <= EnabledLayers /\ i - 1 # j - 1
    BY <1>1, <1>4, Indexes, KeymapSettingsAssumption
  <2>2. QED
    BY <1>1, <1>2, <2>1
<1>5. QED
  BY <1>3, <1>4 DEF OrderOK

LEMMA StockSorderType ==
    ASSUME NEW o \in Orders
    PROVE  StockSorder(o) \in Orders
<1>1. \A i \in Idx : i <= EnabledLayers => i - 1 \in Ids
  BY Indexes, KeymapSettingsAssumption
<1>2. QED
  BY <1>1 DEF StockSorder, Orders

LEMMA LoadedOrders ==
    ASSUME NEW f \in FlashType, f.order # NoSetting => OrderOK(f.order), NEW o \in Orders
    PROVE  /\ LoadedOrder(f) \in Orders /\ OrderOK(LoadedOrder(f))
           /\ LoadedSorder(f, o) \in Orders
           /\ f.order # NoSetting => LoadedSorder(f, o) = f.order /\ LoadedOrder(f) = f.order
BY StockOrderOK, StockSorderType DEF LoadedOrder, LoadedSorder, FlashType

LEMMA NamesType ==
    ASSUME NEW f \in FlashType, NEW n \in [Ids -> AnyName]
    PROVE  LoadedNames(f, n) \in [Ids -> AnyName]
BY DEF LoadedNames, FlashType

\* After a restart the state is what the settings hold.
LEMMA BootOK ==
    ASSUME NEW f \in FlashType, f.order # NoSetting => OrderOK(f.order)
    PROVE  /\ Boot(f) \in RamType
           /\ BindingsKept(Boot(f), f, Idle, AllRead) /\ OrdersKept(Boot(f), f, AllRead) /\ SavedSoFar(Boot(f), f, Idle)
<1> DEFINE zeros == [i \in Idx |-> 0]
           stocks == [l \in Ids |-> StockName]
<1>1. zeros \in Orders
  <2>1. 0 \in Ids
    BY Indexes
  <2>2. QED
    BY <2>1 DEF Orders
<1>2. stocks \in [Ids -> AnyName]
  BY DEF AnyName
<1> HIDE DEF zeros, stocks
<1>3. /\ LoadedOrder(f) \in Orders /\ OrderOK(LoadedOrder(f)) /\ LoadedSorder(f, zeros) \in Orders
      /\ f.order # NoSetting => LoadedSorder(f, zeros) = f.order
  BY <1>1, LoadedOrders
<1>4. LoadedNames(f, stocks) \in [Ids -> AnyName]
  BY <1>2, NamesType
<1>5. LoadedMap(f) \in [Ids -> [KeyPositions -> AnyBinding]]
  BY Loaded
<1>6. NothingPending \in [Ids -> SUBSET KeyPositions]
  BY DEF NothingPending
<1>7. Boot(f) = [map |-> LoadedMap(f), pending |-> NothingPending,
                 order |-> LoadedOrder(f), sorder |-> LoadedSorder(f, zeros),
                 names |-> LoadedNames(f, stocks), changed |-> {},
                 layout |-> IF f.layout = NoSetting THEN 0 ELSE f.layout,
                 known |-> IF f.layout = NoSetting THEN -1 ELSE f.layout]
  BY DEF Boot, zeros, stocks
<1>8. /\ (IF f.layout = NoSetting THEN 0 ELSE f.layout) \in Layouts
      /\ (IF f.layout = NoSetting THEN -1 ELSE f.layout) \in Layouts \union {-1}
  BY KeymapSettingsAssumption DEF FlashType
<1>9. Boot(f) \in RamType
  BY <1>3, <1>4, <1>5, <1>6, <1>7, <1>8 DEF RamType
<1>10. BindingsKept(Boot(f), f, Idle, AllRead)
  BY <1>7 DEF BindingsKept, ComesBack, Overlooked, Idle, AllRead
<1>11. OrdersKept(Boot(f), f, AllRead)
  BY <1>3, <1>7 DEF OrdersKept, AllRead
<1>12. SavedSoFar(Boot(f), f, Idle)
  BY DEF SavedSoFar, Idle
<1>13. QED
  BY <1>9, <1>10, <1>11, <1>12

\* The same bindings, in RAM and in the settings.
LEMMA SameBindings ==
    ASSUME NEW r, NEW r2, NEW f, NEW f2, NEW d, NEW d2, NEW u, NEW u2,
           r2.map = r.map, r2.pending = r.pending, LoadedMap(f2) = LoadedMap(f), u2.bind = u.bind,
           d.what # "reset", d2.what # "reset", BindingsKept(r, f, d, u)
    PROVE  BindingsKept(r2, f2, d2, u2)
<1> SUFFICES ASSUME NEW l \in Ids, NEW p \in KeyPositions
             PROVE  ComesBack(r2, f2, u2, l, p) \/ p \in r2.pending[l]
  BY DEF BindingsKept
<1>1. ComesBack(r, f, u, l, p) \/ p \in r.pending[l]
  BY DEF BindingsKept
<1>2. QED
  BY <1>1 DEF ComesBack, Overlooked

LEMMA SInvNext ==
    ASSUME NEW r \in RamType, NEW f \in FlashType, NEW d \in DoingType, NEW t \in BOOLEAN,
           NEW u \in UnreadType,
           k' = [ram |-> r, flash |-> f, doing |-> d, told |-> t], unread' = u,
           failures' \in Nat, restarts' \in Nat,
           BindingsKept(r, f, d, u), OrdersKept(r, f, u), SavedSoFar(r, f, d)
    PROVE  SInv'
<1>1. k' \in StateType /\ k'.ram = r /\ k'.flash = f /\ k'.doing = d
  BY DEF StateType
<1>2. QED
  BY <1>1 DEF SInv, BindingsKept, ComesBack, Overlooked, OrdersKept, SavedSoFar, OrderOK, LoadedMap,
              LooksStock

LEMMA SettingsInitOK == SettingsInit => SInv
<1> SUFFICES ASSUME SettingsInit PROVE SInv
  OBVIOUS
<1>1. EmptyFlash \in FlashType /\ EmptyFlash.order = NoSetting
  BY DEF EmptyFlash, FlashType, AnyName
<1>2. Idle \in DoingType
  BY Indexes DEF Idle, DoingType, Requests
<1>3. /\ Boot(EmptyFlash) \in RamType
      /\ BindingsKept(Boot(EmptyFlash), EmptyFlash, Idle, AllRead)
      /\ OrdersKept(Boot(EmptyFlash), EmptyFlash, AllRead) /\ SavedSoFar(Boot(EmptyFlash), EmptyFlash, Idle)
  BY <1>1, BootOK
<1>4. k = [ram |-> Boot(EmptyFlash), flash |-> EmptyFlash, doing |-> Idle, told |-> FALSE]
  BY DEF SettingsInit
<1>5. k.ram = Boot(EmptyFlash) /\ k.flash = EmptyFlash /\ k.doing = Idle /\ k \in StateType
  BY <1>1, <1>2, <1>3, <1>4 DEF StateType
<1>6. unread = AllRead /\ AllRead \in UnreadType
  BY DEF SettingsInit, AllRead, UnreadType
<1>7. QED
  BY <1>3, <1>5, <1>6 DEF SInv, SettingsInit

\* An edit changes the state in RAM only.
LEMMA EditedOK ==
    ASSUME SInv, NEW r \in RamType, Edited(r),
           BindingsKept(r, k.flash, k.doing, unread), OrdersKept(r, k.flash, unread)
    PROVE  SInv'
<1>1. /\ k.flash \in FlashType /\ k.doing \in DoingType /\ k.doing.what = "idle"
      /\ k' = [ram |-> r, flash |-> k.flash, doing |-> k.doing, told |-> TRUE]
      /\ failures' \in Nat /\ restarts' \in Nat /\ unread' = unread /\ unread \in UnreadType
  BY DEF SInv, StateType, Edited
<1>2. SavedSoFar(r, k.flash, k.doing)
  BY <1>1 DEF SavedSoFar
<1>3. QED
  BY <1>1, <1>2, SInvNext

LEMMA OrderEditedOK ==
    ASSUME SInv, NEW o \in Orders, OrderOK(o), Edited([k.ram EXCEPT !.order = o])
    PROVE  SInv'
<1> DEFINE r == [k.ram EXCEPT !.order = o]
<1>1. k.ram \in RamType
  BY DEF SInv, StateType
<1>2. /\ r \in RamType /\ r.order = o
      /\ r.map = k.ram.map /\ r.pending = k.ram.pending /\ r.sorder = k.ram.sorder
  BY <1>1 DEF RamType
<1> HIDE DEF r
<1>3. BindingsKept(r, k.flash, k.doing, unread)
  BY <1>2 DEF SInv, BindingsKept, ComesBack, Overlooked
<1>4. OrdersKept(r, k.flash, unread)
  BY <1>2 DEF SInv, OrdersKept
<1>5. Edited(r)
  BY DEF r
<1>6. QED
  BY <1>2, <1>3, <1>4, <1>5, EditedOK

LEMMA OrderRequests ==
    ASSUME SInv, MoveRequest \/ AddRequest \/ RemoveRequest \/ RestoreRequest
    PROVE  SInv'
<1> DEFINE o == k.ram.order
<1>0. k.ram \in RamType /\ o \in Orders /\ OrderOK(o)
  BY DEF SInv, StateType, RamType, OrdersKept
<1>1. CASE MoveRequest
  <2>1. PICK s \in Idx, d \in Idx : /\ s # d /\ o[s] # Inval /\ o[d] # Inval
                                   /\ Edited(ClientMovesLayer(k.ram, s, d))
    BY <1>1 DEF MoveRequest
  <2>2. PICK m : m = InsertAt(RemoveAt(o, s), d, o[s])
    OBVIOUS
  <2>3. m \in Orders /\ OrderOK(m)
    BY <1>0, <2>1, <2>2, MovedOK
  <2>4. ClientMovesLayer(k.ram, s, d) = [k.ram EXCEPT !.order = m]
    BY <2>2 DEF ClientMovesLayer
  <2>5. QED
    BY <2>1, <2>3, <2>4, OrderEditedOK
<1>2. CASE AddRequest
  <2>1. /\ FreeIndexes(k.ram) # {} /\ UnseenIds(k.ram) # {}
        /\ Edited(ClientAddsLayer(k.ram))
    BY <1>2 DEF AddRequest, CanAdd
  <2>2. PICK at : at = Min(FreeIndexes(k.ram))
    OBVIOUS
  <2>3. FreeIndexes(k.ram) \subseteq Nat
    BY Indexes DEF FreeIndexes
  <2>4. at \in FreeIndexes(k.ram) /\ \A i \in FreeIndexes(k.ram) : at <= i
    BY <2>1, <2>2, <2>3, MinOf
  <2>5. PICK new : new = Min(UnseenIds(k.ram))
    OBVIOUS
  <2>6. UnseenIds(k.ram) \subseteq Nat
    BY Indexes DEF UnseenIds
  <2>7. new \in UnseenIds(k.ram)
    BY <2>1, <2>5, <2>6, MinOf
  <2>8. at \in Idx /\ o[at] = Inval /\ new \in Ids
    BY <2>4, <2>7 DEF FreeIndexes, UnseenIds
  <2>9. \A i \in 1..at - 1 : o[i] # Inval /\ o[i] # new
    <3>1. \A i \in 1..at - 1 : i \in Idx /\ ~(at <= i)
      BY <2>8, Indexes
    <3>2. \A i \in 1..at - 1 : o[i] # Inval
      BY <2>4, <3>1 DEF FreeIndexes
    <3>3. \A i \in 1..at - 1 : o[i] # new
      BY <2>2, <2>7 DEF UnseenIds
    <3>4. QED
      BY <3>2, <3>3
  <2>10. PICK m : m = [o EXCEPT ![at] = new]
    OBVIOUS
  <2>11. m \in Orders /\ OrderOK(m)
    <3>1. [o EXCEPT ![at] = new] \in Orders /\ OrderOK([o EXCEPT ![at] = new])
      BY <1>0, <2>8, <2>9, AddedOK
    <3>2. QED
      BY <2>10, <3>1
  <2>12. ClientAddsLayer(k.ram) = [k.ram EXCEPT !.order = m]
    BY <2>2, <2>5, <2>10 DEF ClientAddsLayer
  <2>13. QED
    BY <2>1, <2>11, <2>12, OrderEditedOK
<1>3. CASE RemoveRequest
  <2>1. PICK s \in Idx : Edited(ClientRemovesLayer(k.ram, s))
    BY <1>3 DEF RemoveRequest
  <2>2. PICK m : m = Append(RemoveAt(o, s), Inval)
    OBVIOUS
  <2>3. m \in Orders /\ OrderOK(m)
    BY <1>0, <2>2, ShortenedOK
  <2>4. ClientRemovesLayer(k.ram, s) = [k.ram EXCEPT !.order = m]
    BY <2>2 DEF ClientRemovesLayer
  <2>5. QED
    BY <2>1, <2>3, <2>4, OrderEditedOK
<1>4. CASE RestoreRequest
  <2>1. PICK l \in Ids, at \in Idx :
          /\ l \notin {o[i] : i \in Idx} /\ \A i \in 1..at - 1 : o[i] # Inval
          /\ Edited(ClientRestoresLayer(k.ram, l, at))
    BY <1>4 DEF RestoreRequest
  <2>2. PICK m : m = SubSeq(InsertAt(o, at, l), 1, LayersLen)
    OBVIOUS
  <2>3. m \in Orders /\ OrderOK(m)
    <3>1. \A i \in Idx : o[i] # l
      BY <2>1
    <3>2. PICK e \in Ids \union {Inval} : e = l
      OBVIOUS
    <3>3. e # Inval /\ \A i \in Idx : o[i] # e
      BY <3>1, <3>2, Indexes
    <3>4. /\ SubSeq(InsertAt(o, at, e), 1, LayersLen) \in Orders
          /\ OrderOK(SubSeq(InsertAt(o, at, e), 1, LayersLen))
      BY <1>0, <2>1, <3>3, LengthenedOK
    <3>5. QED
      BY <2>2, <3>2, <3>4
  <2>4. ClientRestoresLayer(k.ram, l, at) = [k.ram EXCEPT !.order = m]
    BY <2>2 DEF ClientRestoresLayer
  <2>5. QED
    BY <2>1, <2>3, <2>4, OrderEditedOK
<1>5. QED
  BY <1>1, <1>2, <1>3, <1>4

LEMMA OtherRequests ==
    ASSUME SInv, ClientSetsBinding \/ SetLayerProps \/ SetActiveLayout
    PROVE  SInv'
<1>0. /\ k.ram \in RamType /\ k.flash \in FlashType
      /\ BindingsKept(k.ram, k.flash, k.doing, unread) /\ OrdersKept(k.ram, k.flash, unread)
  BY DEF SInv, StateType
<1>1. CASE ClientSetsBinding
  <2>1. PICK l \in Ids, b \in KeyPositions, v \in AnyBinding : Edited(SetBinding(k.ram, l, b, v))
    BY <1>1 DEF ClientSetsBinding
  <2>2. PICK p \in KeyPositions : p = PosMap[k.ram.layout][b]
    <3>1. k.ram.layout \in Layouts
      BY <1>0 DEF RamType
    <3>2. PosMap[k.ram.layout] \in [KeyPositions -> KeyPositions]
      BY <3>1, KeymapSettingsAssumption
    <3>3. QED
      BY <3>2
  <2>3. CASE k.ram.map[l][p] = v
    <3>1. Edited(k.ram)
      BY <2>1, <2>2, <2>3 DEF SetBinding
    <3>2. QED
      BY <1>0, <3>1, EditedOK
  <2>4. CASE k.ram.map[l][p] # v
    <3> DEFINE r == [k.ram EXCEPT !.map[l][p] = v, !.pending[l] = @ \union {p}]
    <3>1. Edited(r)
      BY <2>1, <2>2, <2>4 DEF SetBinding
    <3>2. /\ r.map = [k.ram.map EXCEPT ![l][p] = v]
          /\ r.pending = [k.ram.pending EXCEPT ![l] = @ \union {p}]
          /\ r.order = k.ram.order /\ r.sorder = k.ram.sorder
      BY <1>0 DEF RamType
    <3>3. r \in RamType
      BY <1>0 DEF RamType
    <3> HIDE DEF r
    <3>4. \A i \in Ids, q \in KeyPositions :
            /\ r.map[i][q] = IF i = l /\ q = p THEN v ELSE k.ram.map[i][q]
            /\ q \in k.ram.pending[i] \/ (i = l /\ q = p) => q \in r.pending[i]
      BY <1>0, <3>2 DEF RamType
    <3>5. BindingsKept(r, k.flash, k.doing, unread)
      BY <1>0, <3>4 DEF BindingsKept, ComesBack, Overlooked
    <3>6. OrdersKept(r, k.flash, unread)
      BY <1>0, <3>2 DEF OrdersKept
    <3>7. QED
      BY <3>1, <3>3, <3>5, <3>6, EditedOK
  <2>5. QED
    BY <2>3, <2>4
<1>2. CASE SetLayerProps
  <2>1. PICK l \in Ids, n \in Names : Edited(SetName(k.ram, l, n))
    BY <1>2 DEF SetLayerProps
  <2>2. PICK r : r = SetName(k.ram, l, n)
    OBVIOUS
  <2>3. /\ r \in RamType
        /\ r.map = k.ram.map /\ r.pending = k.ram.pending
        /\ r.order = k.ram.order /\ r.sorder = k.ram.sorder
    BY <1>0, <2>2 DEF SetName, RamType, AnyName
  <2>4. BindingsKept(r, k.flash, k.doing, unread) /\ OrdersKept(r, k.flash, unread)
    BY <1>0, <2>3 DEF BindingsKept, ComesBack, Overlooked, OrdersKept
  <2>5. QED
    BY <2>1, <2>2, <2>3, <2>4, EditedOK
<1>3. CASE SetActiveLayout
  <2>1. PICK i \in Layouts : Edited(SelectLayout(k.ram, i))
    BY <1>3 DEF SetActiveLayout
  <2>2. PICK r : r = SelectLayout(k.ram, i)
    OBVIOUS
  <2>3. /\ r \in RamType
        /\ r.map = k.ram.map /\ r.pending = k.ram.pending
        /\ r.order = k.ram.order /\ r.sorder = k.ram.sorder
    BY <1>0, <2>2 DEF SelectLayout, RamType
  <2>4. BindingsKept(r, k.flash, k.doing, unread) /\ OrdersKept(r, k.flash, unread)
    BY <1>0, <2>3 DEF BindingsKept, ComesBack, Overlooked, OrdersKept
  <2>5. QED
    BY <2>1, <2>2, <2>3, <2>4, EditedOK
<1>4. QED
  BY <1>1, <1>2, <1>3
-----------------------------------------------------------------------------
(***************************************************************************)
(* Saving, discarding, resetting, restarting.                              *)
(***************************************************************************)
LEMMA WorkTypes ==
    Idle \in DoingType /\ \A w \in Requests : RpcWork(w) \in DoingType
BY Indexes DEF Idle, RpcWork, DoingType, Requests

\* What SInv says of the fields of k.
LEMMA Fields ==
    ASSUME SInv
    PROVE  /\ k = [ram |-> k.ram, flash |-> k.flash, doing |-> k.doing, told |-> k.told]
           /\ k.ram \in RamType /\ k.flash \in FlashType /\ k.doing \in DoingType
           /\ k.told \in BOOLEAN /\ failures \in Nat /\ restarts \in Nat /\ unread \in UnreadType
           /\ BindingsKept(k.ram, k.flash, k.doing, unread) /\ OrdersKept(k.ram, k.flash, unread)
           /\ SavedSoFar(k.ram, k.flash, k.doing)
BY DEF SInv, StateType

\* A request that begins or ends without a change of the state or the settings.
LEMMA RequestTurns ==
    ASSUME SInv, NEW d \in DoingType, NEW t \in BOOLEAN, k.doing.what # "reset", d.what # "reset",
           d.what \in {"idle", "saveLayout"},
           k' = [ram |-> k.ram, flash |-> k.flash, doing |-> d, told |-> t],
           failures' \in Nat, restarts' \in Nat, unread' = unread
    PROVE  SInv'
<1>1. BindingsKept(k.ram, k.flash, d, unread)
  BY Fields DEF BindingsKept, ComesBack, Overlooked
<1>2. SavedSoFar(k.ram, k.flash, d)
  BY DEF SavedSoFar
<1>3. QED
  BY <1>1, <1>2, Fields, SInvNext

LEMMA SavesOK ==
    ASSUME SInv, StartSave \/ SaveLayout \/ SaveBindings \/ SaveLayerOrder \/ SaveNames \/ WriteFails
    PROVE  SInv'
<1>1. CASE StartSave
  <2>1. /\ k.doing.what = "idle" /\ failures' = failures /\ restarts' = restarts /\ unread' = unread
        /\ k' = [ram |-> k.ram, flash |-> k.flash, doing |-> RpcWork("saveLayout"), told |-> k.told]
    BY <1>1, Fields DEF StartSave
  <2>2. RpcWork("saveLayout") \in DoingType /\ RpcWork("saveLayout").what = "saveLayout"
    BY WorkTypes DEF RpcWork, Requests
  <2>3. QED
    BY <2>1, <2>2, Fields, RequestTurns
<1>2. CASE SaveLayout
  <2> DEFINE f == [k.flash EXCEPT !.layout = k.ram.layout]
             d == RpcWork("saveBindings")
  <2>1. /\ k.doing.what = "saveLayout" /\ failures' = failures /\ restarts' = restarts /\ unread' = unread
        /\ k' = [ram |-> k.ram, flash |-> f, doing |-> d, told |-> k.told]
    BY <1>2, Fields DEF SaveLayout
  <2>2. d \in DoingType /\ d.what = "saveBindings"
    BY WorkTypes DEF RpcWork, Requests
  <2>3. /\ f \in FlashType /\ f.bind = k.flash.bind /\ f.order = k.flash.order
        /\ f.layout = k.ram.layout
    BY Fields DEF FlashType, RamType
  <2> HIDE DEF f, d
  <2>4. LoadedMap(f) = LoadedMap(k.flash)
    BY <2>3 DEF LoadedMap
  <2>5. BindingsKept(k.ram, f, d, unread)
    BY <2>1, <2>2, <2>4, Fields, SameBindings
  <2>6. OrdersKept(k.ram, f, unread) /\ SavedSoFar(k.ram, f, d)
    BY <2>2, <2>3, Fields DEF OrdersKept, SavedSoFar
  <2>7. QED
    BY <2>1, <2>2, <2>3, <2>5, <2>6, Fields, SInvNext
<1>3. CASE SaveBindings
  <2>0. k.doing.what = "saveBindings" /\ failures' = failures /\ restarts' = restarts
    BY <1>3 DEF SaveBindings
  <2>1. CASE \E l \in Ids : k.ram.pending[l] # {}
    <3> DEFINE T == {i \in Ids : k.ram.pending[i] # {}}
    <3>1. PICK l : l = Min(T)
      OBVIOUS
    <3>2. T \subseteq Nat /\ T # {}
      BY <2>1, Indexes
    <3>3. l \in T
      BY <3>1, <3>2, MinOf
    <3>4. l \in Ids /\ k.ram.pending[l] # {}
      BY <3>3
    <3> HIDE DEF T
    <3>5. PICK p : p = Min(k.ram.pending[l])
      OBVIOUS
    <3>6. k.ram.pending[l] \subseteq KeyPositions /\ k.ram.pending[l] \subseteq Nat
      BY <3>4, Fields, KeymapSettingsAssumption DEF RamType
    <3>7. p \in KeyPositions
      BY <3>4, <3>5, <3>6, MinOf
    <3>8. FirstPending(k.ram)[1] = l /\ FirstPending(k.ram)[2] = p
      BY <3>1, <3>5 DEF FirstPending, T
    <3> DEFINE r == [k.ram EXCEPT !.pending[l] = @ \ {p}]
               f == [k.flash EXCEPT !.bind[l][p] = k.ram.map[l][p]]
    <3> DEFINE u == [unread EXCEPT !.bind = @ \ {<<l, p>>}]
    <3>9. /\ k' = [ram |-> r, flash |-> f, doing |-> k.doing, told |-> k.told]
          /\ unread' = u /\ failures' = failures /\ restarts' = restarts
      <4>1. FirstPending(k.ram) = <<l, p>>
        BY <3>1, <3>5 DEF FirstPending, T
      <4>2. QED
        BY <1>3, <2>1, <3>8, <4>1, Fields DEF SaveBindings, SaveBinding
    <3>10. /\ r \in RamType /\ r.map = k.ram.map /\ r.order = k.ram.order
           /\ r.sorder = k.ram.sorder /\ r.layout = k.ram.layout
           /\ r.pending = [k.ram.pending EXCEPT ![l] = @ \ {p}]
      BY <3>4, Fields DEF RamType
    <3>11. /\ f \in FlashType /\ f.order = k.flash.order /\ f.layout = k.flash.layout
           /\ f.bind = [k.flash.bind EXCEPT ![l][p] = k.ram.map[l][p]]
      <4>1. k.ram.map[l][p] \in AnyBinding
        BY <3>4, <3>7, Fields DEF RamType
      <4>2. k.flash.bind \in [Ids -> [KeyPositions -> AnyBinding \union {NoSetting}]]
        BY Fields DEF FlashType
      <4>3. [k.flash.bind EXCEPT ![l][p] = k.ram.map[l][p]]
              \in [Ids -> [KeyPositions -> AnyBinding \union {NoSetting}]]
        BY <3>4, <3>7, <4>1, <4>2
      <4>4. QED
        BY <4>3, Fields DEF FlashType
    <3>u. /\ u \in UnreadType /\ u.order = unread.order
          /\ \A i, q : <<i, q>> \in unread.bind /\ ~(i = l /\ q = p) => <<i, q>> \in u.bind
      BY Fields DEF UnreadType
    <3> HIDE DEF r, f, u
    <3>12. ASSUME NEW i \in Ids, NEW q \in KeyPositions
           PROVE  ComesBack(r, f, u, i, q) \/ q \in r.pending[i]
      <4>1. CASE i = l /\ q = p
        <5>1. f.bind[i][q] = k.ram.map[i][q]
          BY <3>7, <3>11, <4>1, Fields DEF FlashType
        <5>2. k.ram.map[i][q] # NoSetting
          BY Fields, KeymapSettingsAssumption DEF RamType
        <5>3. r.map[i][q] = LoadedMap(f)[i][q]
          BY <3>10, <3>11, <5>1, <5>2, Loaded
        <5>4. QED
          BY <5>3 DEF ComesBack
      <4>2. CASE ~(i = l /\ q = p)
        <5>1. f.bind[i][q] = k.flash.bind[i][q]
          BY <3>11, <4>2, Fields DEF FlashType
        <5>2. LoadedMap(f)[i][q] = LoadedMap(k.flash)[i][q]
          <6>1. LoadedMap(f)[i][q] =
                  IF f.bind[i][q] = NoSetting THEN StockBinding ELSE f.bind[i][q]
            BY <3>11, Loaded
          <6>2. LoadedMap(k.flash)[i][q] =
                  IF k.flash.bind[i][q] = NoSetting THEN StockBinding ELSE k.flash.bind[i][q]
            BY Fields, Loaded
          <6>3. QED
            BY <5>1, <6>1, <6>2
        <5>3. ComesBack(k.ram, k.flash, unread, i, q) \/ q \in k.ram.pending[i]
          BY <2>0, Fields DEF BindingsKept
        <5>4. ComesBack(k.ram, k.flash, unread, i, q) => ComesBack(r, f, u, i, q)
          BY <3>10, <3>u, <4>2, <5>2 DEF ComesBack, Overlooked
        <5>5. q \in k.ram.pending[i] => q \in r.pending[i]
          BY <3>4, <3>10, <4>2, Fields DEF RamType
        <5>6. QED
          BY <5>3, <5>4, <5>5
      <4>3. QED
        BY <4>1, <4>2
    <3>13. BindingsKept(r, f, k.doing, u)
      BY <2>0, <3>12 DEF BindingsKept
    <3>14. OrdersKept(r, f, u) /\ SavedSoFar(r, f, k.doing)
      BY <2>0, <3>10, <3>11, <3>u, Fields DEF OrdersKept, SavedSoFar
    <3>15. QED
      BY <2>0, <3>9, <3>10, <3>11, <3>u, <3>13, <3>14, Fields, SInvNext
  <2>2. CASE ~ \E l \in Ids : k.ram.pending[l] # {}
    <3> DEFINE d == RpcWork("saveOrder")
    <3>1. k' = [ram |-> k.ram, flash |-> k.flash, doing |-> d, told |-> k.told] /\ unread' = unread
      BY <1>3, <2>2, Fields DEF SaveBindings
    <3>2. d \in DoingType /\ d.what = "saveOrder"
      BY WorkTypes DEF RpcWork, Requests
    <3> HIDE DEF d
    <3>3. BindingsKept(k.ram, k.flash, d, unread) /\ SavedSoFar(k.ram, k.flash, d)
      BY <2>0, <2>2, <3>2, Fields DEF BindingsKept, ComesBack, Overlooked, SavedSoFar
    <3>4. QED
      BY <2>0, <3>1, <3>2, <3>3, Fields, SInvNext
  <2>3. QED
    BY <2>1, <2>2
<1>4. CASE SaveLayerOrder
  <2> DEFINE r == [k.ram EXCEPT !.sorder = k.ram.order]
             f == [k.flash EXCEPT !.order = k.ram.order]
             d == [what |-> "saveNames", at |-> 0, todo |-> k.ram.changed]
             u == [unread EXCEPT !.order = FALSE]
  <2>1. /\ k.doing.what = "saveOrder" /\ failures' = failures /\ restarts' = restarts /\ unread' = u
        /\ k' = [ram |-> r, flash |-> f, doing |-> d, told |-> k.told]
    BY <1>4, Fields DEF SaveLayerOrder, SaveOrder
  <2>2. d \in DoingType /\ d.what = "saveNames"
    BY Fields, Indexes DEF DoingType, Requests, RamType
  <2>3. /\ r \in RamType /\ r.map = k.ram.map /\ r.pending = k.ram.pending
        /\ r.order = k.ram.order /\ r.sorder = k.ram.order /\ r.layout = k.ram.layout
    BY Fields DEF RamType
  <2>4. /\ f \in FlashType /\ f.bind = k.flash.bind /\ f.order = k.ram.order
        /\ f.layout = k.flash.layout
    BY Fields DEF FlashType, RamType
  <2>u. u \in UnreadType /\ u.bind = unread.bind
    BY Fields DEF UnreadType
  <2> HIDE DEF r, f, d, u
  <2>5. LoadedMap(f) = LoadedMap(k.flash)
    BY <2>4 DEF LoadedMap
  <2>6. BindingsKept(r, f, d, u)
    BY <2>1, <2>2, <2>3, <2>5, <2>u, Fields, SameBindings
  <2>7. OrdersKept(r, f, u) /\ SavedSoFar(r, f, d)
    BY <2>1, <2>2, <2>3, <2>4, Fields DEF OrdersKept, SavedSoFar
  <2>8. QED
    BY <2>1, <2>2, <2>3, <2>4, <2>6, <2>7, <2>u, Fields, SInvNext
<1>5. CASE SaveNames
  <2>0. k.doing.what = "saveNames" /\ failures' = failures /\ restarts' = restarts /\ unread' = unread
    BY <1>5 DEF SaveNames
  <2>1. CASE k.doing.todo = {}
    <3> DEFINE r == [k.ram EXCEPT !.changed = {}]
    <3>1. k' = [ram |-> r, flash |-> k.flash, doing |-> Idle, told |-> FALSE]
      BY <1>5, <2>1, Fields DEF SaveNames
    <3>2. /\ r \in RamType /\ r.map = k.ram.map /\ r.pending = k.ram.pending
          /\ r.order = k.ram.order /\ r.sorder = k.ram.sorder
      BY Fields DEF RamType
    <3> HIDE DEF r
    <3>3. BindingsKept(r, k.flash, Idle, unread) /\ OrdersKept(r, k.flash, unread) /\ SavedSoFar(r, k.flash, Idle)
      BY <2>0, <3>2, Fields DEF BindingsKept, ComesBack, Overlooked, OrdersKept, SavedSoFar, Idle
    <3>4. QED
      BY <2>0, <3>1, <3>2, <3>3, Fields, WorkTypes, SInvNext
  <2>2. CASE k.doing.todo # {}
    <3>1. PICK l : l = Min(k.doing.todo)
      OBVIOUS
    <3> DEFINE f == [k.flash EXCEPT !.name[l] = k.ram.names[l]]
               d == [k.doing EXCEPT !.todo = @ \ {l}]
    <3>2. k' = [ram |-> k.ram, flash |-> f, doing |-> d, told |-> k.told]
      BY <1>5, <2>2, <3>1, Fields DEF SaveNames
    <3>3. l \in Ids
      <4>1. k.doing.todo \subseteq Ids /\ k.doing.todo \subseteq Nat
        BY Fields, Indexes DEF DoingType
      <4>2. QED
        BY <2>2, <3>1, <4>1, MinOf
    <3>4. /\ f \in FlashType /\ f.bind = k.flash.bind /\ f.order = k.flash.order
          /\ f.layout = k.flash.layout
      BY <3>3, Fields DEF FlashType, RamType
    <3>5. d \in DoingType /\ d.what = "saveNames"
      BY <2>0, Fields DEF DoingType
    <3> HIDE DEF f, d
    <3>6. LoadedMap(f) = LoadedMap(k.flash)
      BY <3>4 DEF LoadedMap
    <3>7. BindingsKept(k.ram, f, d, unread)
      BY <2>0, <3>5, <3>6, Fields, SameBindings
    <3>8. OrdersKept(k.ram, f, unread) /\ SavedSoFar(k.ram, f, d)
      BY <2>0, <3>4, <3>5, Fields DEF OrdersKept, SavedSoFar
    <3>9. QED
      BY <2>0, <3>2, <3>4, <3>5, <3>7, <3>8, Fields, SInvNext
  <2>3. QED
    BY <2>1, <2>2
<1>6. CASE WriteFails
  <2>1. /\ k.doing.what # "reset" /\ failures' = failures + 1 /\ restarts' = restarts /\ unread' = unread
        /\ k' = [ram |-> k.ram, flash |-> k.flash, doing |-> Idle, told |-> k.told]
    BY <1>6, Fields DEF WriteFails
  <2>2. Idle.what = "idle"
    BY DEF Idle
  <2>3. QED
    BY <2>1, <2>2, Fields, WorkTypes, RequestTurns
<1>7. QED
  BY <1>1, <1>2, <1>3, <1>4, <1>5, <1>6

LEMMA DiscardOK == SInv /\ DiscardChanges => SInv'
<1> SUFFICES ASSUME SInv, DiscardChanges PROVE SInv'
  OBVIOUS
<1> DEFINE r == Discarded(k)
<1>1. /\ k.doing.what = "idle" /\ failures' = failures /\ restarts' = restarts /\ unread' = AllRead
      /\ k' = [ram |-> r, flash |-> k.flash, doing |-> k.doing, told |-> FALSE]
  BY Fields DEF DiscardChanges
<1>2. /\ LoadedOrder(k.flash) \in Orders /\ OrderOK(LoadedOrder(k.flash))
      /\ LoadedSorder(k.flash, k.ram.sorder) \in Orders
      /\ k.flash.order # NoSetting => LoadedSorder(k.flash, k.ram.sorder) = k.flash.order
  <2>1. k.ram.sorder \in Orders /\ k.flash \in FlashType
        /\ (k.flash.order # NoSetting => OrderOK(k.flash.order))
    BY Fields DEF RamType, OrdersKept
  <2>2. QED
    BY <2>1, LoadedOrders
<1>3. /\ LoadedMap(k.flash) \in [Ids -> [KeyPositions -> AnyBinding]]
      /\ LoadedNames(k.flash, k.ram.names) \in [Ids -> AnyName]
  <2>1. k.ram.names \in [Ids -> AnyName] /\ k.flash \in FlashType
    BY Fields DEF RamType
  <2>2. QED
    BY <2>1, Loaded, NamesType
<1>4. NothingPending \in [Ids -> SUBSET KeyPositions] /\ 0 \in Layouts
  BY KeymapSettingsAssumption DEF NothingPending
<1>5. /\ r.map = LoadedMap(k.flash) /\ r.pending = NothingPending
      /\ r.order = LoadedOrder(k.flash) /\ r.sorder = LoadedSorder(k.flash, k.ram.sorder)
  BY Fields DEF Discarded, Reloaded, RamType
<1>6. r \in RamType
  BY <1>2, <1>3, <1>4, Fields DEF Discarded, Reloaded, RamType
<1> HIDE DEF r
<1>7. BindingsKept(r, k.flash, k.doing, AllRead)
  BY <1>1, <1>5 DEF BindingsKept, ComesBack, Overlooked
<1>8. OrdersKept(r, k.flash, AllRead) /\ SavedSoFar(r, k.flash, k.doing)
  BY <1>1, <1>2, <1>5, Fields DEF OrdersKept, SavedSoFar
<1>9. AllRead \in UnreadType
  BY DEF AllRead, UnreadType
<1>10. QED
  BY <1>9, <1>1, <1>6, <1>7, <1>8, Fields, SInvNext

\* A part of the settings brings the binding that is stored, or the stock binding.
LEMMA DiscardFailsOK == SInv /\ DiscardFails => SInv'
<1> SUFFICES ASSUME SInv, DiscardFails PROVE SInv'
  OBVIOUS
<1>0. k.doing.what = "idle" /\ failures' \in Nat /\ restarts' \in Nat
  BY Fields DEF DiscardFails
<1>1. CASE k' = [k EXCEPT !.ram.layout = 0] /\ UNCHANGED unread
  <2> DEFINE r == [k.ram EXCEPT !.layout = 0]
  <2>1. k' = [ram |-> r, flash |-> k.flash, doing |-> k.doing, told |-> k.told]
    BY <1>1, Fields
  <2>2. /\ r \in RamType /\ r.map = k.ram.map /\ r.pending = k.ram.pending
        /\ r.order = k.ram.order /\ r.sorder = k.ram.sorder
    BY Fields, KeymapSettingsAssumption DEF RamType
  <2> HIDE DEF r
  <2>3. BindingsKept(r, k.flash, k.doing, unread)
    BY <1>0, <2>2, Fields, SameBindings
  <2>4. OrdersKept(r, k.flash, unread) /\ SavedSoFar(r, k.flash, k.doing)
    BY <1>0, <2>2, Fields DEF OrdersKept, SavedSoFar
  <2>5. QED
    BY <1>0, <1>1, <2>1, <2>2, <2>3, <2>4, Fields, SInvNext
<1>2. ASSUME NEW binds \in SUBSET Stored(k.flash), NEW ordered \in BOOLEAN, NEW named \in SUBSET Ids,
             k' = [k EXCEPT !.ram = Reloaded(@, OnlyRead(k.flash, binds, ordered, named))],
             unread' = [bind |-> Stored(k.flash) \ binds, order |-> ~ordered]
      PROVE  SInv'
  <2> DEFINE f == OnlyRead(k.flash, binds, ordered, named)
             r == Reloaded(k.ram, f)
             u == [bind |-> Stored(k.flash) \ binds, order |-> ~ordered]
  <2>1. k' = [ram |-> r, flash |-> k.flash, doing |-> k.doing, told |-> k.told]
    BY <1>2, Fields
  <2>2. /\ u \in UnreadType /\ u.order = ~ordered
        /\ u.bind = Stored(k.flash) \ binds
    BY DEF UnreadType, Stored
  <2>3. /\ f \in FlashType /\ f.order = IF ordered THEN k.flash.order ELSE NoSetting
        /\ \A l \in Ids, p \in KeyPositions :
             f.bind[l][p] = IF <<l, p>> \in binds THEN k.flash.bind[l][p] ELSE NoSetting
    BY Fields DEF OnlyRead, FlashType, AnyName
  <2>4. f.order # NoSetting => OrderOK(f.order)
    BY <2>3, Fields DEF OrdersKept
  <2> HIDE DEF f, u
  <2>5. /\ LoadedOrder(f) \in Orders /\ OrderOK(LoadedOrder(f))
        /\ LoadedSorder(f, k.ram.sorder) \in Orders
        /\ f.order # NoSetting => LoadedSorder(f, k.ram.sorder) = f.order
    <3>1. k.ram.sorder \in Orders
      BY Fields DEF RamType
    <3>2. QED
      BY <2>3, <2>4, <3>1, LoadedOrders
  <2>6. LoadedMap(f) \in [Ids -> [KeyPositions -> AnyBinding]]
    BY <2>3, Loaded
  <2>7. LoadedNames(f, k.ram.names) \in [Ids -> AnyName]
    <3>1. k.ram.names \in [Ids -> AnyName]
      BY Fields DEF RamType
    <3>2. QED
      BY <2>3, <3>1, NamesType
  <2>8. /\ r.map = LoadedMap(f) /\ r.pending = k.ram.pending
        /\ r.order = LoadedOrder(f) /\ r.sorder = LoadedSorder(f, k.ram.sorder)
    BY Fields DEF Reloaded, RamType
  <2>9. r \in RamType
    BY <2>5, <2>6, <2>7, Fields, KeymapSettingsAssumption DEF Reloaded, RamType
  <2> HIDE DEF r
  <2>10. ASSUME NEW l \in Ids, NEW p \in KeyPositions
         PROVE  ComesBack(r, k.flash, u, l, p)
    <3>1. LoadedMap(f)[l][p] = IF f.bind[l][p] = NoSetting THEN StockBinding ELSE f.bind[l][p]
      BY <2>3, Loaded
    <3>2. LoadedMap(k.flash)[l][p] =
            IF k.flash.bind[l][p] = NoSetting THEN StockBinding ELSE k.flash.bind[l][p]
      BY Fields, Loaded
    <3>3. CASE <<l, p>> \in binds \/ k.flash.bind[l][p] = NoSetting
      <4>1. r.map[l][p] = LoadedMap(k.flash)[l][p]
        BY <2>3, <2>8, <3>1, <3>2, <3>3
      <4>2. QED
        BY <4>1 DEF ComesBack
    <3>4. CASE ~(<<l, p>> \in binds \/ k.flash.bind[l][p] = NoSetting)
      <4>1. <<l, p>> \in u.bind
        BY <2>2, <3>4 DEF Stored
      <4>2. QED
        BY <4>1 DEF ComesBack
    <3>5. QED
      BY <3>3, <3>4
  <2>11. BindingsKept(r, k.flash, k.doing, u)
    BY <1>0, <2>10 DEF BindingsKept
  <2>12. OrdersKept(r, k.flash, u)
    BY <2>2, <2>3, <2>5, <2>8, Fields DEF OrdersKept
  <2>13. SavedSoFar(r, k.flash, k.doing)
    BY <1>0 DEF SavedSoFar
  <2>14. unread' = u
    BY <1>2 DEF u
  <2>15. QED
    BY <1>0, <2>1, <2>2, <2>9, <2>11, <2>12, <2>13, <2>14, Fields, SInvNext
<1>3. QED
  BY <1>1, <1>2 DEF DiscardFails

LEMMA StartResetOK == SInv /\ StartReset => SInv'
<1> SUFFICES ASSUME SInv, StartReset PROVE SInv'
  OBVIOUS
<1> DEFINE f == [k.flash EXCEPT !.order = NoSetting]
           d == RpcWork("reset")
<1>1. /\ k.doing.what = "idle" /\ failures' = failures /\ restarts' = restarts /\ unread' = unread
      /\ k' = [ram |-> k.ram, flash |-> f, doing |-> d, told |-> k.told]
  BY Fields DEF StartReset
<1>2. f \in FlashType /\ f.bind = k.flash.bind /\ f.order = NoSetting
  BY Fields DEF FlashType
<1>3. d \in DoingType /\ d.what = "reset" /\ d.at = 0
  BY WorkTypes DEF RpcWork, Requests
<1> HIDE DEF f, d
<1>4. LoadedMap(f) = LoadedMap(k.flash)
  BY <1>2 DEF LoadedMap
<1>5. \A l \in Ids : ~(l < d.at)
  BY <1>3, Indexes
<1>6. BindingsKept(k.ram, f, d, unread)
  <2> SUFFICES ASSUME NEW l \in Ids, NEW p \in KeyPositions
               PROVE  ComesBack(k.ram, f, unread, l, p) \/ p \in k.ram.pending[l]
    BY <1>5 DEF BindingsKept
  <2>1. ComesBack(k.ram, k.flash, unread, l, p) \/ p \in k.ram.pending[l]
    BY <1>1, Fields DEF BindingsKept
  <2>2. QED
    BY <1>4, <2>1 DEF ComesBack, Overlooked
<1>7. OrdersKept(k.ram, f, unread) /\ SavedSoFar(k.ram, f, d)
  BY <1>2, <1>3, Fields DEF OrdersKept, SavedSoFar
<1>8. QED
  BY <1>1, <1>2, <1>3, <1>6, <1>7, Fields, SInvNext

\* Whatever the array of findings holds, a layer that has been cleared has no setting that
\* differs from the stock keymap but where a binding is pending.
LEMMA ResetLayerOK == SInv /\ ResetLayer => SInv'
<1> SUFFICES ASSUME SInv, ResetLayer PROVE SInv'
  OBVIOUS
<1>1. PICK garbage \in SUBSET KeyPositions :
        k' = [ClearLayer(k, k.doing.at, garbage) EXCEPT !.doing.at = @ + 1]
  BY DEF ResetLayer
<1>2. PICK n : n = k.doing.at
  OBVIOUS
<1>3. /\ k.doing.what = "reset" /\ n < LayersLen /\ n \in 0..LayersLen
      /\ failures' = failures /\ restarts' = restarts /\ unread' = unread
  BY <1>2, Fields DEF ResetLayer, DoingType
<1>4. n \in Ids /\ n + 1 \in 0..LayersLen
  BY <1>3, Indexes
<1> DEFINE row == [p \in KeyPositions |->
                     IF ~LooksStock(k.ram.map[n][p]) /\ p \in Tracked(k.flash, n, garbage)
                     THEN NoSetting ELSE k.flash.bind[n][p]]
           f == [k.flash EXCEPT !.name[n] = NoSetting, !.bind[n] = row]
           d == [k.doing EXCEPT !.at = n + 1]
<1>5. k' = [ram |-> k.ram, flash |-> f, doing |-> d, told |-> k.told]
  BY <1>1, <1>2, <1>4, Fields DEF ClearLayer, FlashType
<1>6. k.flash.bind \in [Ids -> [KeyPositions -> AnyBinding \union {NoSetting}]]
  BY Fields DEF FlashType
<1>7. row \in [KeyPositions -> AnyBinding \union {NoSetting}]
  BY <1>4, <1>6
<1>8. /\ f \in FlashType /\ f.order = k.flash.order /\ f.bind = [k.flash.bind EXCEPT ![n] = row]
  <2> HIDE DEF row
  <2>1. [k.flash.bind EXCEPT ![n] = row] \in [Ids -> [KeyPositions -> AnyBinding \union {NoSetting}]]
    BY <1>6, <1>7
  <2>2. QED
    BY <2>1, Fields DEF FlashType, AnyName
<1>9. d \in DoingType /\ d.what = "reset" /\ d.at = n + 1
  BY <1>3, <1>4, Fields DEF DoingType
<1>10. ASSUME NEW p \in KeyPositions
       PROVE  LooksStock(LoadedMap(f)[n][p]) \/ <<n, p>> \in unread.bind \/ p \in k.ram.pending[n]
  <2>1. LoadedMap(f)[n][p] = IF f.bind[n][p] = NoSetting THEN StockBinding ELSE f.bind[n][p]
    BY <1>4, <1>8, Loaded
  <2>2. f.bind[n][p] = row[p]
    BY <1>4, <1>6, <1>8
  <2>3. CASE row[p] = NoSetting
    BY <2>1, <2>2, <2>3 DEF LooksStock
  <2>4. CASE row[p] # NoSetting
    <3>1. row[p] = k.flash.bind[n][p] /\ p \in Tracked(k.flash, n, garbage)
      BY <2>4 DEF Tracked
    <3>2. LooksStock(k.ram.map[n][p])
      BY <2>4, <3>1
    <3>3. LoadedMap(f)[n][p] = LoadedMap(k.flash)[n][p]
      <4>1. LoadedMap(k.flash)[n][p] =
              IF k.flash.bind[n][p] = NoSetting THEN StockBinding ELSE k.flash.bind[n][p]
        BY <1>4, Fields, Loaded
      <4>2. QED
        BY <2>1, <2>2, <3>1, <4>1
    <3>4. ~(n < n)
      BY <1>3
    <3>5. ComesBack(k.ram, k.flash, unread, n, p) \/ p \in k.ram.pending[n]
      BY <1>2, <1>4, <3>4, Fields DEF BindingsKept
    <3>6. QED
      BY <3>2, <3>3, <3>5 DEF ComesBack, Overlooked
  <2>5. QED
    BY <2>3, <2>4
<1>11. ASSUME NEW l \in Ids, NEW p \in KeyPositions, l # n
       PROVE  LoadedMap(f)[l][p] = LoadedMap(k.flash)[l][p]
  <2>1. f.bind[l] = k.flash.bind[l]
    BY <1>4, <1>6, <1>8, <1>11
  <2>2. LoadedMap(f)[l][p] = IF f.bind[l][p] = NoSetting THEN StockBinding ELSE f.bind[l][p]
    BY <1>8, Loaded
  <2>3. LoadedMap(k.flash)[l][p] =
          IF k.flash.bind[l][p] = NoSetting THEN StockBinding ELSE k.flash.bind[l][p]
    BY Fields, Loaded
  <2>4. QED
    BY <2>1, <2>2, <2>3
<1> HIDE DEF f, d, row
<1>12. \A l \in Ids : l # n => ((l < n + 1) <=> (l < n))
  BY <1>4, Indexes
<1>13. n < n + 1
  BY <1>3
<1>14. BindingsKept(k.ram, f, d, unread)
  <2> SUFFICES ASSUME NEW l \in Ids, NEW p \in KeyPositions
               PROVE  /\ l < n + 1 => LooksStock(LoadedMap(f)[l][p]) \/ <<l, p>> \in unread.bind
                                         \/ p \in k.ram.pending[l]
                      /\ ~(l < n + 1) => ComesBack(k.ram, f, unread, l, p) \/ p \in k.ram.pending[l]
    BY <1>9 DEF BindingsKept
  <2>1. CASE l = n
    BY <1>10, <1>13, <2>1
  <2>2. CASE l # n
    <3>1. /\ l < n => LooksStock(LoadedMap(k.flash)[l][p]) \/ <<l, p>> \in unread.bind
                         \/ p \in k.ram.pending[l]
          /\ ~(l < n) => ComesBack(k.ram, k.flash, unread, l, p) \/ p \in k.ram.pending[l]
      BY <1>2, <1>3, Fields DEF BindingsKept
    <3>2. ComesBack(k.ram, k.flash, unread, l, p) => ComesBack(k.ram, f, unread, l, p)
      BY <1>11, <2>2 DEF ComesBack, Overlooked
    <3>3. QED
      BY <1>11, <1>12, <2>2, <3>1, <3>2
  <2>3. QED
    BY <2>1, <2>2
<1>15. OrdersKept(k.ram, f, unread) /\ SavedSoFar(k.ram, f, d)
  BY <1>3, <1>8, <1>9, Fields DEF OrdersKept, SavedSoFar
<1>16. QED
  BY <1>3, <1>5, <1>8, <1>9, <1>14, <1>15, Fields, SInvNext

LEMMA ResetDoneOK == SInv /\ ResetDone => SInv'
<1> SUFFICES ASSUME SInv, ResetDone PROVE SInv'
  OBVIOUS
<1> DEFINE r == [k.ram EXCEPT !.order = StockOrder, !.sorder = StockSorder(k.ram.sorder),
                              !.map = StockMap]
<1>1. /\ k.doing.what = "reset" /\ k.doing.at = LayersLen
      /\ failures' = failures /\ restarts' = restarts /\ unread' = unread
      /\ k' = [ram |-> r, flash |-> k.flash, doing |-> Idle, told |-> k.told]
  BY Fields DEF ResetDone
<1>2. StockOrder \in Orders /\ OrderOK(StockOrder) /\ StockSorder(k.ram.sorder) \in Orders
  <2>1. k.ram.sorder \in Orders
    BY Fields DEF RamType
  <2>2. QED
    BY <2>1, StockOrderOK, StockSorderType
<1>3. /\ StockMap \in [Ids -> [KeyPositions -> AnyBinding]]
      /\ \A l \in Ids, p \in KeyPositions : StockMap[l][p] = StockBinding
  BY DEF StockMap, AnyBinding
<1>4. /\ r \in RamType /\ r.order = StockOrder /\ r.pending = k.ram.pending /\ r.map = StockMap
  BY <1>2, <1>3, Fields DEF RamType
<1> HIDE DEF r
<1>5. \A l \in Ids : l < k.doing.at
  BY <1>1, Indexes
<1>6. \A l \in Ids, p \in KeyPositions :
        LooksStock(LoadedMap(k.flash)[l][p]) \/ <<l, p>> \in unread.bind \/ p \in k.ram.pending[l]
  BY <1>1, <1>5, Fields DEF BindingsKept
<1>7. BindingsKept(r, k.flash, Idle, unread)
  BY <1>3, <1>4, <1>6 DEF BindingsKept, Idle, ComesBack, Overlooked
<1>8. k.flash.order = NoSetting
  BY <1>1, Fields DEF SavedSoFar
<1>9. OrdersKept(r, k.flash, unread) /\ SavedSoFar(r, k.flash, Idle)
  BY <1>2, <1>4, <1>8 DEF OrdersKept, SavedSoFar, Idle
<1>10. QED
  BY <1>1, <1>4, <1>7, <1>9, Fields, WorkTypes, SInvNext

LEMMA RestartOK == SInv /\ Restart => SInv'
<1> SUFFICES ASSUME SInv, Restart PROVE SInv'
  OBVIOUS
<1>1. /\ failures' = failures /\ restarts' = restarts + 1
      /\ k' = [ram |-> Boot(k.flash), flash |-> k.flash, doing |-> Idle, told |-> FALSE]
  BY Fields DEF Restart
<1>2. /\ Boot(k.flash) \in RamType
      /\ BindingsKept(Boot(k.flash), k.flash, Idle, AllRead)
      /\ OrdersKept(Boot(k.flash), k.flash, AllRead) /\ SavedSoFar(Boot(k.flash), k.flash, Idle)
  <2>1. k.flash \in FlashType /\ (k.flash.order # NoSetting => OrderOK(k.flash.order))
    BY Fields DEF OrdersKept
  <2>2. QED
    BY <2>1, BootOK
<1>3. failures' \in Nat /\ restarts' \in Nat /\ unread' = AllRead /\ AllRead \in UnreadType
  BY <1>1, Fields DEF Restart, AllRead, UnreadType
<1>4. QED
  BY <1>1, <1>2, <1>3, Fields, WorkTypes, SInvNext

-----------------------------------------------------------------------------
(***************************************************************************)
(* The theorems.                                                           *)
(***************************************************************************)
LEMMA SettingsStep == SInv /\ [SettingsNext]_settings_vars => SInv'
<1> SUFFICES ASSUME SInv, [SettingsNext]_settings_vars PROVE SInv'
  OBVIOUS
<1>1. CASE MoveRequest \/ AddRequest \/ RemoveRequest \/ RestoreRequest
  BY <1>1, OrderRequests
<1>2. CASE ClientSetsBinding \/ SetLayerProps \/ SetActiveLayout
  BY <1>2, OtherRequests
<1>3. CASE StartSave \/ SaveLayout \/ SaveBindings \/ SaveLayerOrder \/ SaveNames \/ WriteFails
  BY <1>3, SavesOK
<1>4. CASE DiscardChanges
  BY <1>4, DiscardOK
<1>4a. CASE DiscardFails
  BY <1>4a, DiscardFailsOK
<1>5. CASE StartReset
  BY <1>5, StartResetOK
<1>6. CASE ResetLayer
  BY <1>6, ResetLayerOK
<1>7. CASE ResetDone
  BY <1>7, ResetDoneOK
<1>8. CASE Restart
  BY <1>8, RestartOK
<1>9. CASE UNCHANGED settings_vars
  BY <1>9 DEF settings_vars, SInv, BindingsKept, ComesBack, Overlooked, OrdersKept, SavedSoFar, OrderOK, LoadedMap
<1>10. QED
  BY <1>1, <1>2, <1>3, <1>4, <1>4a, <1>5, <1>6, <1>7, <1>8, <1>9 DEF SettingsNext

LEMMA SettingsInvariant == SettingsSpec => []SInv
<1>1. SettingsInit => SInv
  BY SettingsInitOK
<1>2. SInv /\ [SettingsNext]_settings_vars => SInv'
  BY SettingsStep
<1>3. QED
  BY <1>1, <1>2, PTL DEF SettingsSpec

\* With no binding pending and no reset under way the settings bring the bindings back.
LEMMA NonePending ==
    ASSUME SInv, k.doing.what # "reset", \A l \in Ids : k.ram.pending[l] = {}
    PROVE  \A l \in Ids, p \in KeyPositions : ComesBack(k.ram, k.flash, unread, l, p)
BY Fields DEF BindingsKept

LEMMA SInvImplies == SInv => ChangesKept
<1> SUFFICES ASSUME SInv PROVE ChangesKept
  OBVIOUS
<1>1. SettingsTypeOK
  <2>1. \A i \in Idx : k.ram.order[i] # Inval =>
          \A j \in 1..i - 1 : k.ram.order[j] \notin {k.ram.order[i], Inval}
    <3>1. \A i \in Idx : \A j \in 1..i - 1 : j \in Idx /\ j < i
      BY Indexes
    <3>2. QED
      BY <3>1, Fields DEF OrdersKept, OrderOK
  <2>2. QED
    BY <2>1, Fields DEF SettingsTypeOK, RamType, FlashType
<1>2. ChangesArePending
  BY Fields DEF BindingsKept, ChangesArePending
<1>3. UnsavedIsNotDenied
  <2> SUFFICES ASSUME k.doing.what = "idle", ~CheckUnsaved(k.ram)
               PROVE  /\ \A l \in Ids, p \in KeyPositions : ComesBack(k.ram, k.flash, unread, l, p)
                      /\ k.flash.order # NoSetting /\ ~unread.order => k.ram.order = LoadedOrder(k.flash)
    BY DEF UnsavedIsNotDenied
  <2>1. (\A l \in Ids : k.ram.pending[l] = {}) /\ k.ram.sorder = k.ram.order
    BY DEF CheckUnsaved, CheckUnsavedKeymap
  <2>2. \A l \in Ids, p \in KeyPositions : ComesBack(k.ram, k.flash, unread, l, p)
    BY <2>1, NonePending
  <2>3. k.flash.order # NoSetting /\ ~unread.order => k.ram.order = LoadedOrder(k.flash)
    BY <2>1, Fields DEF OrdersKept, LoadedOrder
  <2>4. QED
    BY <2>2, <2>3
<1>4. QED
  BY <1>1, <1>2, <1>3 DEF ChangesKept

\* Of the steps that end a save, only the last of SaveNames ends it as it should.
LEMMA SavesComplete == SInv /\ [SettingsNext]_settings_vars => SaveCompletes
<1> SUFFICES ASSUME SInv, [SettingsNext]_settings_vars, k.doing.what = "saveNames",
                    k'.doing.what = "idle", failures' = failures, restarts' = restarts
             PROVE  /\ \A l \in Ids, p \in KeyPositions : ComesBack(k'.ram, k'.flash, unread', l, p)
                    /\ LoadedOrder(k'.flash) = k'.ram.order
                    /\ k'.flash.layout = k'.ram.layout
  BY DEF SaveCompletes
<1>1. SaveNames
  <2>1. failures + 1 # failures /\ restarts + 1 # restarts
    BY Fields
  <2>2. ~WriteFails /\ ~Restart
    BY <2>1 DEF WriteFails, Restart
  <2>3. k.doing.what # "idle"
    OBVIOUS
  <2>4. \A r : ~Edited(r)
    BY <2>3 DEF Edited
  <2>5. /\ ~ClientSetsBinding /\ ~MoveRequest /\ ~AddRequest /\ ~RemoveRequest /\ ~RestoreRequest
        /\ ~SetLayerProps /\ ~SetActiveLayout
    BY <2>4 DEF ClientSetsBinding, MoveRequest, AddRequest, RemoveRequest, RestoreRequest,
                SetLayerProps, SetActiveLayout
  <2>6. /\ ~StartSave /\ ~SaveLayout /\ ~SaveBindings /\ ~SaveLayerOrder
        /\ ~DiscardChanges /\ ~DiscardFails /\ ~StartReset /\ ~ResetLayer /\ ~ResetDone
    BY DEF StartSave, SaveLayout, SaveBindings, SaveLayerOrder, DiscardChanges, DiscardFails,
           StartReset,           ResetLayer, ResetDone
  <2>7. ~UNCHANGED settings_vars
    BY DEF settings_vars
  <2>8. QED
    BY <2>2, <2>5, <2>6, <2>7 DEF SettingsNext
<1>2. k.doing.todo = {}
  <2> SUFFICES ASSUME k.doing.todo # {} PROVE FALSE
    OBVIOUS
  <2>1. PICK l : l = Min(k.doing.todo)
    OBVIOUS
  <2>2. k' = [k EXCEPT !.flash.name[l] = k.ram.names[l], !.doing.todo = @ \ {l}]
    BY <1>1, <2>1 DEF SaveNames
  <2>3. k'.doing = [k.doing EXCEPT !.todo = @ \ {l}]
    BY <2>2, Fields
  <2>4. k'.doing.what = k.doing.what
    BY <2>3, Fields DEF DoingType
  <2>5. QED
    BY <2>4
<1>3. /\ k'.flash = k.flash /\ k'.ram.map = k.ram.map /\ k'.ram.order = k.ram.order
      /\ k'.ram.layout = k.ram.layout /\ unread' = unread
  <2>1. k' = [k EXCEPT !.ram.changed = {}, !.doing = Idle, !.told = FALSE]
    BY <1>1, <1>2 DEF SaveNames
  <2>2. k'.flash = k.flash /\ k'.ram = [k.ram EXCEPT !.changed = {}]
    BY <2>1, Fields
  <2>3. QED
    BY <1>1, <2>2, Fields DEF RamType, SaveNames
<1>4. \A l \in Ids : k.ram.pending[l] = {}
  BY Fields DEF SavedSoFar
<1>5. \A l \in Ids, p \in KeyPositions : ComesBack(k'.ram, k'.flash, unread', l, p)
  BY <1>3, <1>4, NonePending DEF ComesBack, Overlooked
<1>6. k.flash.layout = k.ram.layout /\ k.flash.order = k.ram.order
  BY Fields DEF SavedSoFar
<1>7. k.flash.order # NoSetting
  BY <1>6, Fields, KeymapSettingsAssumption DEF RamType
<1>8. LoadedOrder(k.flash) = k.ram.order
  BY <1>6, <1>7 DEF LoadedOrder
<1>9. QED
  BY <1>3, <1>5, <1>6, <1>8

\* No edit is forgotten, on any number of layers, positions and layouts, with writes that
\* fail, loads that read only a part of the settings, and restarts in between: what a restart
\* would not bring back is pending, and is not denied when the client asks whether there is
\* anything to save.  Two kinds of bindings are excepted, whatever bytes a reset compares:
\* those whose setting a reset has overlooked, and those whose setting a discard did not read.
THEOREM ChangesAreKept == SettingsSpec => []ChangesKept
<1>1. SInv => ChangesKept
  BY SInvImplies
<1>2. QED
  BY <1>1, SettingsInvariant, PTL

\* A save that ends without a failure has written the keymap and the layout as they are, but
\* for bindings of these two kinds, which are not pending and not written.
THEOREM SavesAreComplete == SettingsSpec => SaveIsComplete
<1>1. SInv /\ [SettingsNext]_settings_vars => SaveCompletes
  BY SavesComplete
<1>2. SInv /\ [SettingsNext]_settings_vars => [SaveCompletes]_settings_vars
  BY <1>1
<1>3. QED
  BY <1>2, SettingsInvariant, PTL DEF SettingsSpec, SaveIsComplete
-----------------------------------------------------------------------------
(***************************************************************************)
(* Lights.                                                                 *)
(***************************************************************************)
Backlight == [brt : 0 .. BrtMax, on : BOOLEAN]
Color == [h : 0 .. HueMax, s : 0 .. BrtMax, b : 0 .. BrtMax]
AnyUnderglow == [color : Color, speed : 1 .. SpeedMax, effect : 0 .. 3, step : Nat, on : BOOLEAN]

\* The step of an animation is one of the effect that is selected.
StepFits(u) == /\ u.effect = 1 => u.step <= 2 * BrtMax
               /\ u.effect \in {2, 3} => u.step < HueMax
Underglow == {u \in AnyUnderglow : StepFits(u)}

Flash == [bl : Backlight \cup {None}, ug : Underglow \cup {None}, ext : BOOLEAN \cup {None}]
Half == [bl : Backlight, blPrev : BOOLEAN, led : 0 .. BrtMax, powered : BOOLEAN,
         ug : Underglow, timer : BOOLEAN, awake : BOOLEAN, before : BOOLEAN,
         work : Seq({"off", "tick"}), lit : BOOLEAN, raced : BOOLEAN,
         ext : BOOLEAN, pending : SUBSET {"bl", "ug", "ext"}, flash : Flash,
         active : BOOLEAN, loaded : BOOLEAN]

\* What is sent to the peripheral: no command is relative but that of the speed.
Sent == ({"bl"} \X {"on", "off"} \X {None}) \cup ({"bl"} \X {"set"} \X Nat)
        \cup ({"ug"} \X {"on", "off", "spi", "spd"} \X {None}) \cup ({"ug"} \X {"efs"} \X Nat)
        \cup ({"ug"} \X {"hsb"} \X [h : Nat, s : Nat, b : Nat])
        \cup ({"ext"} \X {"on", "off"} \X {None})

\* An underglow that is off is dark, or the last that is queued makes it so.
Dark(x) == ~x.ug.on /\ ~x.raced =>
               IF x.work = <<>> THEN ~x.lit ELSE x.work[Len(x.work)] = "off"

\* The LED of build b shows the backlight.
Shows(b, x) == "usb" \in b.bl => x.led = IF x.powered /\ x.bl.on THEN x.bl.brt ELSE 0

\* Until its settings are loaded a half is as it was started; then it is as they say, or will
\* be saved.
StartBl(b) == [brt |-> BrtStart, on |-> "bl" \in b.on]
StartUg(b) == <<"ug" \in b.on, 0, 1>>
Saved(b, x) ==
    b.bl = {} /\ b.ug = {} =>
        IF x.loaded
        THEN /\ x.flash.bl = x.bl \/ "bl" \in x.pending \/ (x.flash.bl = None /\ x.bl = StartBl(b))
             /\ \/ "ug" \in x.pending
                \/ IF x.flash.ug = None THEN Chosen(x.ug) = StartUg(b)
                   ELSE Chosen(x.flash.ug) = Chosen(x.ug)
             /\ x.flash.ext = x.ext \/ "ext" \in x.pending
        ELSE /\ x.bl = StartBl(b) /\ Chosen(x.ug) = StartUg(b)
             /\ "bl" \notin x.pending /\ "ug" \notin x.pending

\* What command c has set.
Did(c, x) ==
    /\ c[1] = "bl" /\ c[2] \in {"on", "off"} => x.bl.on = (c[2] = "on")
    /\ c[1] = "bl" /\ c[2] = "set" =>
           x.bl = [brt |-> Least(c[3], BrtMax), on |-> Least(c[3], BrtMax) > 0]
    /\ c[1] = "ug" /\ c[2] \in {"on", "off"} => x.ug.on = (c[2] = "on")
    /\ c[1] = "ug" /\ c[2] = "efs" /\ c[3] < Effects => x.ug.effect = c[3]
    /\ c[1] = "ext" => x.ext = (c[2] = "on")

Good(b, x) == Dark(x) /\ Shows(b, x) /\ Saved(b, x)

\* The last command has been performed by the central, and by the peripheral unless it is the
\* last on the wire.
LastDone(c, h, w, b) ==
    /\ c \in Sent /\ h["central"].loaded /\ Did(c, h["central"])
    /\ b.split => IF w # <<>> THEN w[Len(w)] = c
                  ELSE h["peripheral"].loaded /\ Did(c, h["peripheral"])

LInv ==
    /\ build \in Builds /\ half \in [Halves -> Half] /\ wire \in Seq(Sent)
    /\ ~build.split => wire = <<>>
    /\ \A h \in Halves : Good(build, half[h])
    /\ last # None => LastDone(last, half, wire, build)
-----------------------------------------------------------------------------
(* What the functions of one half do. *)

\* A half that a function has changed is as good as it was.
Kept(x, y) == y \in Half /\ y.loaded = x.loaded /\ (Good(build, x) => Good(build, y))

LEMMA Bounded ==
    /\ BrtMax \in Nat /\ HueMax \in Nat /\ SpeedMax \in Nat
    /\ \A n \in Int : Clamp(n) \in 0 .. BrtMax
    /\ \A n \in Nat : Least(n, BrtMax) \in 0 .. BrtMax
    /\ \A n \in 0 .. BrtMax : Greatest(n, 1) \in 0 .. BrtMax
BY LightsAssumption DEF Clamp, Least, Greatest

\* The underglow and the external power leave the backlight and the activity alone.
Apart(x, y) == y.bl = x.bl /\ y.active = x.active

\* The backlight is set to v, drawn and saved.
LEMMA BacklightSet ==
    ASSUME NEW x \in Half, x.loaded, NEW v \in Backlight
    PROVE  LET y == BacklightChanged([x EXCEPT !.bl = v])
           IN  Kept(x, y) /\ y.bl = v
<1> DEFINE y == BacklightChanged([x EXCEPT !.bl = v])
<1>0. /\ x.bl \in Backlight /\ x.pending \subseteq {"bl", "ug", "ext"} BY DEF Half
<1>1. /\ y = [x EXCEPT !.bl = v, !.led = IF x.powered /\ v.on THEN v.brt ELSE 0,
                       !.pending = @ \cup {"bl"}]
  BY DEF BacklightChanged, UpdateBacklight, GetBrt, Half, Backlight
<1>2. (IF x.powered /\ v.on THEN v.brt ELSE 0) \in 0 .. BrtMax BY Bounded DEF Backlight
<1> HIDE DEF y
<1>3. y \in Half BY <1>0, <1>1, <1>2 DEF Half
<1>4. /\ y.bl = v /\ y.led = (IF x.powered /\ v.on THEN v.brt ELSE 0) /\ y.powered = x.powered
      /\ "bl" \in y.pending /\ x.pending \subseteq y.pending
      /\ y.ug = x.ug /\ y.raced = x.raced /\ y.work = x.work /\ y.lit = x.lit
      /\ y.flash = x.flash /\ y.ext = x.ext /\ y.loaded = x.loaded
  BY <1>1 DEF Half
<1>5. Good(build, x) => Good(build, y) BY <1>4 DEF Good, Dark, Shows, Saved
<1> QED BY <1>3, <1>4, <1>5 DEF Kept, y

LEMMA BacklightDoes ==
    ASSUME NEW x \in Half, x.loaded
    PROVE  /\ Kept(x, BacklightOn(x)) /\ BacklightOn(x).bl.on = TRUE
           /\ Kept(x, BacklightOff(x)) /\ BacklightOff(x).bl.on = FALSE
           /\ \A n \in Nat :
                 /\ Kept(x, SetBrt(x, n))
                 /\ SetBrt(x, n).bl = [brt |-> Least(n, BrtMax), on |-> Least(n, BrtMax) > 0]
<1>0. x.bl \in Backlight BY DEF Half
<1>1. /\ Kept(x, BacklightOn(x)) /\ BacklightOn(x).bl.on = TRUE
  <2> DEFINE v == [brt |-> Greatest(x.bl.brt, 1), on |-> TRUE]
  <2>1. v \in Backlight /\ v.on = TRUE BY <1>0, Bounded DEF Backlight
  <2>2. BacklightOn(x) = BacklightChanged([x EXCEPT !.bl = v]) BY DEF BacklightOn, Half
  <2> HIDE DEF v
  <2> QED BY <2>1, <2>2, BacklightSet
<1>2. /\ Kept(x, BacklightOff(x)) /\ BacklightOff(x).bl.on = FALSE
  <2> DEFINE v == [x.bl EXCEPT !.on = FALSE]
  <2>1. v \in Backlight /\ v.on = FALSE BY <1>0 DEF Backlight
  <2>2. BacklightOff(x) = BacklightChanged([x EXCEPT !.bl = v]) BY DEF BacklightOff, Half
  <2> HIDE DEF v
  <2> QED BY <2>1, <2>2, BacklightSet
<1>3. ASSUME NEW n \in Nat
      PROVE  /\ Kept(x, SetBrt(x, n))
             /\ SetBrt(x, n).bl = [brt |-> Least(n, BrtMax), on |-> Least(n, BrtMax) > 0]
  <2> DEFINE v == [brt |-> Least(n, BrtMax), on |-> Least(n, BrtMax) > 0]
  <2>1. v \in Backlight BY Bounded DEF Backlight
  <2>2. SetBrt(x, n) = BacklightChanged([x EXCEPT !.bl = v]) BY DEF SetBrt
  <2> HIDE DEF v
  <2>3. Kept(x, SetBrt(x, n)) /\ SetBrt(x, n).bl = v BY <2>1, <2>2, BacklightSet
  <2> QED BY <2>3 DEF v
<1> QED BY <1>1, <1>2, <1>3

LEMMA ExtDoes ==
    ASSUME NEW x \in Half, x.loaded
    PROVE  /\ Kept(x, ExtEnable(x)) /\ ExtEnable(x).ext = TRUE /\ Apart(x, ExtEnable(x))
           /\ Kept(x, ExtDisable(x)) /\ ExtDisable(x).ext = FALSE /\ Apart(x, ExtDisable(x))
<1>1. ASSUME NEW e \in BOOLEAN, NEW y, y = [x EXCEPT !.ext = e, !.pending = @ \union {"ext"}]
      PROVE  Kept(x, y) /\ y.ext = e /\ Apart(x, y)
  <2>1. y \in Half BY <1>1 DEF Half
  <2>2. /\ y.bl = x.bl /\ y.led = x.led /\ y.powered = x.powered
        /\ "ext" \in y.pending /\ x.pending \subseteq y.pending
        /\ y.ug = x.ug /\ y.raced = x.raced /\ y.work = x.work /\ y.lit = x.lit
        /\ y.flash = x.flash /\ y.ext = e /\ y.loaded = x.loaded /\ y.active = x.active
    BY <1>1 DEF Half
  <2>3. Good(build, x) => Good(build, y) BY <2>2 DEF Good, Dark, Shows, Saved
  <2> QED BY <2>1, <2>2, <2>3 DEF Kept, Apart
<1>2. ExtEnable(x) = [x EXCEPT !.ext = TRUE, !.pending = @ \union {"ext"}] BY DEF ExtEnable
<1>3. ExtDisable(x) = [x EXCEPT !.ext = FALSE, !.pending = @ \union {"ext"}] BY DEF ExtDisable
<1>4. Kept(x, ExtEnable(x)) /\ ExtEnable(x).ext = TRUE /\ Apart(x, ExtEnable(x)) BY <1>1, <1>2
<1>5. Kept(x, ExtDisable(x)) /\ ExtDisable(x).ext = FALSE /\ Apart(x, ExtDisable(x)) BY <1>1, <1>3
<1> QED BY <1>4, <1>5

\* What a change of the underglow that is saved leaves alone.
SameButUnderglow(x, y) ==
    /\ y.bl = x.bl /\ y.led = x.led /\ y.powered = x.powered /\ y.flash = x.flash
    /\ y.ext = x.ext /\ y.loaded = x.loaded /\ y.pending = x.pending \cup {"ug"}

LEMMA UnderglowKept ==
    ASSUME NEW x \in Half, NEW y \in Half, x.loaded, SameButUnderglow(x, y), Dark(x) => Dark(y)
    PROVE  Kept(x, y)
BY DEF Kept, Good, Shows, Saved, SameButUnderglow

LEMMA SwitchedOn ==
    ASSUME NEW u \in AnyUnderglow, NEW b \in BOOLEAN
    PROVE  [u EXCEPT !.on = b, !.step = 0] =
               [color |-> u.color, speed |-> u.speed, effect |-> u.effect, step |-> 0, on |-> b]
<1> DEFINE v == [u EXCEPT !.on = b]
<1>1. v = [color |-> u.color, speed |-> u.speed, effect |-> u.effect, step |-> u.step, on |-> b]
  BY DEF AnyUnderglow
<1> HIDE DEF v
<1>2. [v EXCEPT !.step = 0] =
          [color |-> u.color, speed |-> u.speed, effect |-> u.effect, step |-> 0, on |-> b]
  BY <1>1
<1> QED BY <1>2 DEF v

LEMMA OtherEffect ==
    ASSUME NEW u \in AnyUnderglow, NEW e \in 0 .. 3
    PROVE  [u EXCEPT !.effect = e, !.step = 0] =
               [color |-> u.color, speed |-> u.speed, effect |-> e, step |-> 0, on |-> u.on]
<1> DEFINE w == [u EXCEPT !.effect = e]
<1>1. w = [color |-> u.color, speed |-> u.speed, effect |-> e, step |-> u.step, on |-> u.on]
  BY DEF AnyUnderglow
<1> HIDE DEF w
<1>2. [w EXCEPT !.step = 0] =
          [color |-> u.color, speed |-> u.speed, effect |-> e, step |-> 0, on |-> u.on]
  BY <1>1
<1> QED BY <1>2 DEF w

\* An animation starts at its first step, whatever the effect.
LEMMA FirstStep ==
    ASSUME NEW u \in Underglow, NEW e \in 0 .. 3, NEW b \in BOOLEAN
    PROVE  LET v == [color |-> u.color, speed |-> u.speed, effect |-> e, step |-> 0, on |-> b]
           IN  v \in Underglow
<1> DEFINE v == [color |-> u.color, speed |-> u.speed, effect |-> e, step |-> 0, on |-> b]
<1>1. u \in AnyUnderglow BY DEF Underglow
<1>2. v \in AnyUnderglow BY <1>1 DEF AnyUnderglow
<1>3. 0 <= 2 * BrtMax /\ 0 < HueMax BY LightsAssumption
<1>4. StepFits(v) BY <1>3 DEF StepFits
<1> QED BY <1>2, <1>4 DEF Underglow

LEMMA KeptOn ==
    ASSUME NEW x, NEW y, NEW z, Kept(x, y), Kept(y, z)
    PROVE  Kept(x, z)
BY DEF Kept

\* What is submitted is queued, and nothing else changes.
LEMMA SubmitDoes ==
    ASSUME NEW x \in Half, NEW item \in {"off", "tick"}
    PROVE  \E w \in Seq({"off", "tick"}) : w # <<>> /\ Submit(x, item) = [x EXCEPT !.work = w]
<1>0. x.work \in Seq({"off", "tick"}) BY DEF Half
<1>1. CASE item \in Range(x.work)
  <2>1. x.work # <<>> BY <1>0, <1>1 DEF Range
  <2>2. Submit(x, item) = [x EXCEPT !.work = x.work] BY <1>1 DEF Submit, Half
  <2> QED BY <1>0, <2>1, <2>2
<1>2. CASE item \notin Range(x.work)
  <2>1. Submit(x, item) = [x EXCEPT !.work = Append(x.work, item)] BY <1>2 DEF Submit
  <2>2. Append(x.work, item) \in Seq({"off", "tick"}) /\ Append(x.work, item) # <<>> BY <1>0
  <2> QED BY <2>1, <2>2
<1> QED BY <1>1, <1>2

LEMMA UnderglowOnDoes ==
    ASSUME NEW x \in Half, x.loaded
    PROVE  /\ Kept(x, UnderglowOn(x)) /\ UnderglowOn(x).ug.on = TRUE
           /\ Apart(x, UnderglowOn(x))
<1> DEFINE y == IF build.ext THEN ExtEnable(x) ELSE x
           u == [color |-> y.ug.color, speed |-> y.ug.speed, effect |-> y.ug.effect, step |-> 0,
                 on |-> TRUE]
           z == UnderglowOn(x)
<1>1. Kept(x, x) BY DEF Kept
<1>2. Kept(x, y) /\ Apart(x, y) BY <1>1, ExtDoes DEF Apart
<1>3. y \in Half /\ y.loaded BY <1>2 DEF Kept
<1>4. z = [y EXCEPT !.ug.on = TRUE, !.ug.step = 0, !.timer = TRUE, !.pending = @ \cup {"ug"}]
  BY DEF UnderglowOn, SaveUnderglow
<1> HIDE DEF y, z
<1>5. y.ug \in Underglow /\ y.ug \in AnyUnderglow BY <1>3 DEF Half, Underglow
<1>6. y.ug.effect \in 0 .. 3 BY <1>5 DEF AnyUnderglow
<1>7. u \in Underglow BY <1>5, <1>6, FirstStep
<1>8. [y.ug EXCEPT !.on = TRUE, !.step = 0] = u BY <1>5, SwitchedOn
<1>9. u.on = TRUE OBVIOUS
<1>10. z = [y EXCEPT !.ug = u, !.timer = TRUE, !.pending = @ \cup {"ug"}]
  BY <1>3, <1>4, <1>8 DEF Half
<1> HIDE DEF u
<1>11. z \in Half BY <1>3, <1>7, <1>10 DEF Half
<1>12. SameButUnderglow(y, z) /\ z.ug = u BY <1>3, <1>10 DEF Half, SameButUnderglow
<1>13. Dark(z) BY <1>9, <1>12 DEF Dark
<1>14. Kept(y, z) BY <1>3, <1>11, <1>12, <1>13, UnderglowKept
<1>15. Apart(y, z) BY <1>3, <1>10 DEF Half, Apart
<1>16. Apart(x, z) BY <1>2, <1>15 DEF Apart
<1> QED BY <1>2, <1>9, <1>12, <1>14, <1>16, KeptOn DEF z

LEMMA UnderglowOffDoes ==
    ASSUME NEW x \in Half, x.loaded, NEW late \in BOOLEAN
    PROVE  /\ Kept(x, UnderglowOff(x, late)) /\ UnderglowOff(x, late).ug.on = FALSE
           /\ Apart(x, UnderglowOff(x, late))
<1> DEFINE e == IF build.ext THEN ExtDisable(x) ELSE x
           y == Submit(e, "off")
           fires == late /\ x.timer /\ x.ug.on
           q == IF fires THEN Submit(y, "tick") ELSE y
           z == UnderglowOff(x, late)
<1>1. Kept(x, x) BY DEF Kept
<1>2. Kept(x, e) /\ Apart(x, e) BY <1>1, ExtDoes DEF Apart
<1>3. e \in Half /\ e.loaded BY <1>2 DEF Kept
<1>4. z = [q EXCEPT !.timer = FALSE, !.ug.on = FALSE, !.raced = Last(q.work) # "off",
                    !.pending = @ \cup {"ug"}]
  BY DEF UnderglowOff, SaveUnderglow
<1> HIDE DEF e, z
<1>5. PICK w \in Seq({"off", "tick"}) : w # <<>> /\ y = [e EXCEPT !.work = w]
  BY <1>3, SubmitDoes
<1>6. y \in Half BY <1>3, <1>5 DEF Half
<1> HIDE DEF y
<1>7. \E v \in Seq({"off", "tick"}) : v # <<>> /\ Submit(y, "tick") = [y EXCEPT !.work = v]
  BY <1>6, SubmitDoes
<1>8. PICK v \in Seq({"off", "tick"}) : v # <<>> /\ q = [e EXCEPT !.work = v]
  <2>1. CASE fires BY <1>3, <1>5, <1>7, <2>1 DEF Half
  <2>2. CASE ~fires BY <1>5, <2>2
  <2> QED BY <2>1, <2>2
<1> HIDE DEF q, fires
<1> DEFINE u == [e.ug EXCEPT !.on = FALSE]
           r == v[Len(v)] # "off"
<1>9. e.ug \in Underglow /\ r \in BOOLEAN BY <1>3 DEF Half
<1>10. u \in Underglow /\ u.on = FALSE BY <1>9 DEF Underglow, AnyUnderglow, StepFits
<1>11. q.work = v /\ q.ug = e.ug BY <1>3, <1>8 DEF Half
<1>12. z = [e EXCEPT !.ug = u, !.timer = FALSE, !.work = v, !.raced = r, !.pending = @ \cup {"ug"}]
  BY <1>3, <1>4, <1>8, <1>11 DEF Half, Last
<1>13. z \in Half
  <2> HIDE DEF u, r
  <2> QED BY <1>3, <1>9, <1>10, <1>12 DEF Half
<1> HIDE DEF u
<1>14. SameButUnderglow(e, z) /\ z.ug = u /\ z.work = v BY <1>3, <1>12 DEF Half, SameButUnderglow
<1>15. z.raced = r BY <1>3, <1>12 DEF Half
<1>16. Dark(z) BY <1>8, <1>14, <1>15 DEF Dark
<1>17. Kept(e, z) BY <1>3, <1>13, <1>14, <1>16, UnderglowKept
<1>18. Apart(e, z) BY <1>3, <1>12 DEF Half, Apart
<1>19. Apart(x, z) BY <1>2, <1>18 DEF Apart
<1> QED BY <1>2, <1>10, <1>14, <1>17, <1>19, KeptOn DEF z

LEMMA EffectDoes ==
    ASSUME NEW x \in Half, x.loaded, NEW e \in Nat
    PROVE  /\ Kept(x, SelectEffect(x, e))
           /\ e < Effects => SelectEffect(x, e).ug.effect = e
<1>1. CASE e \notin 0 .. 3
  <2>1. SelectEffect(x, e) = x BY <1>1 DEF SelectEffect, Effects
  <2>2. ~(e < Effects) BY <1>1 DEF Effects
  <2> QED BY <2>1, <2>2 DEF Kept
<1>2. CASE e \in 0 .. 3
  <2> DEFINE u == [color |-> x.ug.color, speed |-> x.ug.speed, effect |-> e, step |-> 0,
                   on |-> x.ug.on]
             z == SelectEffect(x, e)
  <2>1. x.ug \in Underglow /\ x.ug \in AnyUnderglow /\ x.ug.on \in BOOLEAN
    BY DEF Half, Underglow, AnyUnderglow
  <2>2. u \in Underglow BY <1>2, <2>1, FirstStep
  <2>3. [x.ug EXCEPT !.effect = e, !.step = 0] = u BY <1>2, <2>1, OtherEffect
  <2>4. z = [x EXCEPT !.ug.effect = e, !.ug.step = 0, !.pending = @ \cup {"ug"}]
    <3>1. e \in 0 .. (Effects - 1) BY <1>2 DEF Effects
    <3> QED BY <3>1 DEF SelectEffect, SaveUnderglow
  <2> HIDE DEF z
  <2>5. z = [x EXCEPT !.ug = u, !.pending = @ \cup {"ug"}] BY <2>3, <2>4 DEF Half
  <2>6. u.effect = e /\ u.on = x.ug.on OBVIOUS
  <2> HIDE DEF u
  <2>7. z \in Half BY <2>2, <2>5 DEF Half
  <2>8. /\ SameButUnderglow(x, z) /\ z.ug = u
        /\ z.work = x.work /\ z.lit = x.lit /\ z.raced = x.raced
    BY <2>5 DEF Half, SameButUnderglow
  <2>9. Dark(x) => Dark(z) BY <2>6, <2>8 DEF Dark
  <2>10. Kept(x, z) BY <2>7, <2>8, <2>9, UnderglowKept
  <2> QED BY <2>6, <2>8, <2>10 DEF z
<1> QED BY <1>1, <1>2

LEMMA SpeedDoes ==
    ASSUME NEW x \in Half, x.loaded, NEW dir \in {-1, 1}
    PROVE  Kept(x, ChangeSpeed(x, dir))
<1>1. CASE x.ug.speed = 1 /\ dir < 0 BY <1>1 DEF ChangeSpeed, Kept
<1>2. CASE ~(x.ug.speed = 1 /\ dir < 0)
  <2> DEFINE s == Least(x.ug.speed + dir, SpeedMax)
             u == [x.ug EXCEPT !.speed = s]
             z == ChangeSpeed(x, dir)
  <2>0. x.ug \in Underglow /\ x.ug \in AnyUnderglow BY DEF Half, Underglow
  <2>1. x.ug.speed \in 1 .. SpeedMax BY <2>0 DEF AnyUnderglow
  <2>2. s \in 1 .. SpeedMax BY <1>2, <2>1, LightsAssumption DEF Least
  <2>3. z = [x EXCEPT !.ug.speed = s, !.pending = @ \cup {"ug"}]
    BY <1>2 DEF ChangeSpeed, SaveUnderglow
  <2> HIDE DEF s, z
  <2>4. z = [x EXCEPT !.ug = u, !.pending = @ \cup {"ug"}] BY <2>3 DEF Half
  <2>5. u \in Underglow /\ u.on = x.ug.on BY <2>0, <2>2 DEF Underglow, AnyUnderglow, StepFits
  <2> HIDE DEF u
  <2>6. z \in Half BY <2>4, <2>5 DEF Half
  <2>7. /\ SameButUnderglow(x, z) /\ z.ug = u
        /\ z.work = x.work /\ z.lit = x.lit /\ z.raced = x.raced
    BY <2>4 DEF Half, SameButUnderglow
  <2>8. Dark(x) => Dark(z) BY <2>5, <2>7 DEF Dark
  <2>9. Kept(x, z) BY <2>6, <2>7, <2>8, UnderglowKept
  <2> QED BY <2>9 DEF z
<1> QED BY <1>1, <1>2

LEMMA HsbDoes ==
    ASSUME NEW x \in Half, x.loaded, NEW c \in [h : Nat, s : Nat, b : Nat]
    PROVE  Kept(x, SetHsb(x, c))
<1>1. CASE c.h > HueMax \/ c.s > BrtMax \/ c.b > BrtMax BY <1>1 DEF SetHsb, Kept
<1>2. CASE ~(c.h > HueMax \/ c.s > BrtMax \/ c.b > BrtMax)
  <2> DEFINE y == SetHsb(x, c)
  <2>1. y = [x EXCEPT !.ug.color = c] BY <1>2 DEF SetHsb
  <2>2. c \in Color BY <1>2, Bounded DEF Color
  <2>3. [x.ug EXCEPT !.color = c] \in Underglow
    BY <2>2 DEF Half, Underglow, AnyUnderglow, StepFits
  <2> HIDE DEF y
  <2>4. y \in Half BY <2>1, <2>3 DEF Half
  <2>5. /\ y.bl = x.bl /\ y.led = x.led /\ y.powered = x.powered /\ y.pending = x.pending
        /\ Chosen(y.ug) = Chosen(x.ug) /\ y.ug.on = x.ug.on
        /\ y.raced = x.raced /\ y.work = x.work /\ y.lit = x.lit
        /\ y.flash = x.flash /\ y.ext = x.ext /\ y.loaded = x.loaded
    BY <2>1 DEF Half, Underglow, AnyUnderglow, Chosen
  <2>6. Good(build, x) => Good(build, y) BY <2>5 DEF Good, Dark, Shows, Saved
  <2> QED BY <2>4, <2>5, <2>6 DEF Kept, y
<1> QED BY <1>1, <1>2

\* A command that reaches the lights of a half does what it says.
LEMMA PerformDoes ==
    ASSUME NEW x \in Half, x.loaded, NEW c \in Sent, NEW late \in BOOLEAN
    PROVE  Kept(x, Perform(x, c, late)) /\ Did(c, Perform(x, c, late))
<1> DEFINE y == Perform(x, c, late)
<1>1. CASE c \in {"bl"} \X {"on", "off"} \X {None}
  <2>1. c[1] = "bl" /\ c[2] \in {"on", "off"} BY <1>1
  <2>2. y = IF c[2] = "on" THEN BacklightOn(x) ELSE BacklightOff(x)
    BY <2>1 DEF Perform, PerformBacklight
  <2> HIDE DEF y
  <2>3. Kept(x, y) /\ y.bl.on = (c[2] = "on") BY <2>1, <2>2, BacklightDoes
  <2> QED BY <2>1, <2>3 DEF Did, y
<1>2. CASE c \in {"bl"} \X {"set"} \X Nat
  <2>1. c[1] = "bl" /\ c[2] = "set" /\ c[3] \in Nat BY <1>2
  <2>2. y = SetBrt(x, c[3]) BY <2>1 DEF Perform, PerformBacklight
  <2> HIDE DEF y
  <2>3. Kept(x, y) /\ y.bl = [brt |-> Least(c[3], BrtMax), on |-> Least(c[3], BrtMax) > 0]
    BY <2>1, <2>2, BacklightDoes
  <2> QED BY <2>1, <2>3 DEF Did, y
<1>3. CASE c \in {"ug"} \X {"on", "off", "spi", "spd"} \X {None}
  <2>1. c[1] = "ug" /\ c[2] \in {"on", "off", "spi", "spd"} BY <1>3
  <2>2. y = CASE c[2] = "on" -> UnderglowOn(x)
              [] c[2] = "off" -> UnderglowOff(x, late)
              [] c[2] = "spi" -> ChangeSpeed(x, 1)
              [] c[2] = "spd" -> ChangeSpeed(x, -1)
    BY <2>1 DEF Perform, PerformUnderglow
  <2> HIDE DEF y
  <2>3. CASE c[2] \in {"on", "off"}
    <3>1. Kept(x, y) /\ y.ug.on = (c[2] = "on") BY <2>2, <2>3, UnderglowOnDoes, UnderglowOffDoes
    <3> QED BY <2>1, <2>3, <3>1 DEF Did, y
  <2>4. CASE c[2] \in {"spi", "spd"}
    <3>1. Kept(x, y) BY <2>2, <2>4, SpeedDoes
    <3> QED BY <2>1, <2>4, <3>1 DEF Did, y
  <2> QED BY <2>1, <2>3, <2>4
<1>4. CASE c \in {"ug"} \X {"efs"} \X Nat
  <2>1. c[1] = "ug" /\ c[2] = "efs" /\ c[3] \in Nat BY <1>4
  <2>2. y = SelectEffect(x, c[3]) BY <2>1 DEF Perform, PerformUnderglow
  <2> HIDE DEF y
  <2>3. Kept(x, y) /\ (c[3] < Effects => y.ug.effect = c[3]) BY <2>1, <2>2, EffectDoes
  <2> QED BY <2>1, <2>3 DEF Did, y
<1>5. CASE c \in {"ug"} \X {"hsb"} \X [h : Nat, s : Nat, b : Nat]
  <2>1. c[1] = "ug" /\ c[2] = "hsb" /\ c[3] \in [h : Nat, s : Nat, b : Nat] BY <1>5
  <2>2. y = SetHsb(x, c[3]) BY <2>1 DEF Perform, PerformUnderglow
  <2> HIDE DEF y
  <2>3. Kept(x, y) BY <2>1, <2>2, HsbDoes
  <2> QED BY <2>1, <2>3 DEF Did, y
<1>6. CASE c \in {"ext"} \X {"on", "off"} \X {None}
  <2>1. c[1] = "ext" /\ c[2] \in {"on", "off"} BY <1>6
  <2>2. y = IF c[2] = "on" THEN ExtEnable(x) ELSE ExtDisable(x)
    BY <2>1 DEF Perform, PerformExt
  <2> HIDE DEF y
  <2>3. Kept(x, y) /\ y.ext = (c[2] = "on") BY <2>1, <2>2, ExtDoes
  <2> QED BY <2>1, <2>3 DEF Did, y
<1> QED BY <1>1, <1>2, <1>3, <1>4, <1>5, <1>6 DEF Sent

\* What the central sends says what to set, not how to change it.
LEMMA ConvertedIsSent ==
    ASSUME NEW x \in Half, NEW b \in Behaviors
    PROVE  Convert(x, b) \in Sent
<1>0. /\ x.bl.brt \in 0 .. BrtMax /\ x.bl.on \in BOOLEAN /\ x.ug \in AnyUnderglow /\ x.ext \in BOOLEAN
  BY DEF Half, Backlight, Underglow
<1>1. CASE b \in {<<"bl", o, None>> : o \in {"on", "off", "tog", "inc", "dec", "cycle"}}
  <2>1. PICK o \in {"on", "off", "tog", "inc", "dec", "cycle"} : b = <<"bl", o, None>> BY <1>1
  <2>2. CalcBrt(x, 1) \in Nat /\ CalcBrt(x, -1) \in Nat /\ CalcCycle(x) \in Nat
    <3>1. x.bl.brt + 1 \in Int /\ x.bl.brt + (-1) \in Int BY <1>0
    <3> QED BY <3>1, Bounded DEF CalcBrt, CalcCycle
  <2>3. Convert(x, b) = ConvertBacklight(x, b) BY <2>1 DEF Convert
  <2> QED BY <1>0, <2>1, <2>2, <2>3 DEF ConvertBacklight, Sent
<1>2. CASE b \in {<<"bl", "set", n>> : n \in {0, BrtMax + 1}}
  <2>1. PICK n \in {0, BrtMax + 1} : b = <<"bl", "set", n>> BY <1>2
  <2>2. n \in Nat BY Bounded
  <2>3. Convert(x, b) = b BY <2>1 DEF Convert, ConvertBacklight
  <2> QED BY <2>1, <2>2, <2>3 DEF Sent
<1>3. CASE b \in {<<"ug", o, None>> : o \in {"on", "off", "tog", "hui", "hud", "sai", "sad", "bri",
                                             "brd", "spi", "spd", "efr", "eff"}}
  <2>1. PICK o \in {"on", "off", "tog", "hui", "hud", "sai", "sad", "bri", "brd", "spi", "spd",
                    "efr", "eff"} : b = <<"ug", o, None>>
    BY <1>3
  <2>2. /\ x.ug.on \in BOOLEAN /\ x.ug.color \in Color /\ x.ug.effect \in 0 .. 3
    BY <1>0 DEF AnyUnderglow
  <2>3. CalcEffect(x, 1) \in Nat /\ CalcEffect(x, -1) \in Nat BY <2>2 DEF CalcEffect, Effects
  <2>4. \A dir \in {-1, 1} : /\ CalcHue(x, dir) \in [h : Nat, s : Nat, b : Nat]
                           /\ CalcSat(x, dir) \in [h : Nat, s : Nat, b : Nat]
                           /\ CalcUgBrt(x, dir) \in [h : Nat, s : Nat, b : Nat]
    <3> SUFFICES ASSUME NEW dir \in {-1, 1}
                 PROVE  /\ CalcHue(x, dir) \in [h : Nat, s : Nat, b : Nat]
                        /\ CalcSat(x, dir) \in [h : Nat, s : Nat, b : Nat]
                        /\ CalcUgBrt(x, dir) \in [h : Nat, s : Nat, b : Nat]
      OBVIOUS
    <3>1. /\ x.ug.color.h \in 0 .. HueMax /\ x.ug.color.s \in 0 .. BrtMax
          /\ x.ug.color.b \in 0 .. BrtMax
      BY <2>2 DEF Color
    <3>2. (x.ug.color.h + HueMax + dir) % HueMax \in Nat BY <3>1, LightsAssumption
    <3>3. Clamp(x.ug.color.s + dir) \in Nat /\ Clamp(x.ug.color.b + dir) \in Nat
      <4>1. x.ug.color.s + dir \in Int /\ x.ug.color.b + dir \in Int BY <3>1
      <4> QED BY <4>1, Bounded
    <3> QED BY <2>2, <3>1, <3>2, <3>3 DEF CalcHue, CalcSat, CalcUgBrt, Color
  <2>5. Convert(x, b) = ConvertUnderglow(x, b) BY <2>1 DEF Convert
  <2> QED BY <2>1, <2>2, <2>3, <2>4, <2>5 DEF ConvertUnderglow, Sent
<1>4. CASE b \in {<<"ug", "efs", Effects>>}
  <2>1. Convert(x, b) = b BY <1>4 DEF Convert, ConvertUnderglow
  <2> QED BY <1>4, <2>1 DEF Sent, Effects
<1>5. CASE b \in {<<"ug", "hsb", c>> : c \in Colors}
  <2>1. PICK c \in Colors : b = <<"ug", "hsb", c>> BY <1>5
  <2>2. c \in [h : Nat, s : Nat, b : Nat]
    <3>1. HueMax + 1 \in Nat /\ 0 \in Nat BY Bounded
    <3> QED BY <3>1, Bounded DEF Colors
  <2>3. Convert(x, b) = b BY <2>1 DEF Convert, ConvertUnderglow
  <2> QED BY <2>1, <2>2, <2>3 DEF Sent
<1>6. CASE b \in {<<"ext", o, None>> : o \in {"on", "off", "tog"}}
  <2>1. PICK o \in {"on", "off", "tog"} : b = <<"ext", o, None>> BY <1>6
  <2> QED BY <2>1 DEF Convert, ConvertExt, Sent
<1> QED BY <1>1, <1>2, <1>3, <1>4, <1>5, <1>6 DEF Behaviors
-----------------------------------------------------------------------------
(* The activity of a half and its USB power.                                 *)

\* What the LED shows of backlight v.
LedOf(x, v) == IF x.powered /\ v.on THEN v.brt ELSE 0

\* The backlight is set without being saved.
Redrawn(y, v, p) == UpdateBacklight([y EXCEPT !.bl = v, !.blPrev = p])

\* What has changed in z since y.
OnlyBacklight(y, v, z) ==
    /\ z \in Half /\ z.bl = v /\ z.led = LedOf(y, v) /\ z.powered = y.powered
    /\ z.active = y.active /\ z.ug = y.ug /\ z.raced = y.raced /\ z.work = y.work
    /\ z.lit = y.lit /\ z.loaded = y.loaded

LEMMA RedrawnDoes ==
    ASSUME NEW y \in Half, NEW v \in Backlight, NEW p \in BOOLEAN
    PROVE  OnlyBacklight(y, v, Redrawn(y, v, p))
<1> DEFINE w == [y EXCEPT !.bl = v, !.blPrev = p]
           l == LedOf(y, v)
<1>1. l \in 0 .. BrtMax BY Bounded DEF LedOf, Backlight
<1>2. w.bl = v /\ w.powered = y.powered BY DEF Half
<1>3. (IF w.powered THEN GetBrt(w) ELSE 0) = l
  <2> HIDE DEF w
  <2> QED BY <1>2 DEF GetBrt, LedOf
<1> HIDE DEF l
<1>4. Redrawn(y, v, p) = [w EXCEPT !.led = l]
  <2>1. Redrawn(y, v, p) = UpdateBacklight(w) BY DEF Redrawn
  <2> HIDE DEF w
  <2> QED BY <1>3, <2>1 DEF UpdateBacklight
<1> DEFINE z == [y EXCEPT !.bl = v, !.blPrev = p, !.led = l]
<1>5. Redrawn(y, v, p) = z
  <2>1. [w EXCEPT !.led = l] = z BY DEF Half
  <2> QED BY <1>4, <2>1
<1>6. z \in Half BY <1>1 DEF Half
<1>7. /\ z.bl = v /\ z.led = l /\ z.powered = y.powered
      /\ z.active = y.active /\ z.ug = y.ug /\ z.raced = y.raced /\ z.work = y.work
      /\ z.lit = y.lit /\ z.loaded = y.loaded
  BY DEF Half
<1> HIDE DEF z
<1> QED BY <1>5, <1>6, <1>7 DEF l, OnlyBacklight

\* What switches the lights by itself is not saved, but then the options are on.
LEMMA BacklightListens ==
    ASSUME NEW x \in Half, x.loaded, NEW event \in {"idle", "usb"}, NEW y,
           y = IF event = "idle" THEN [x EXCEPT !.active = ~@] ELSE [x EXCEPT !.powered = ~@]
    PROVE  /\ Kept(x, BacklightListener(y, event, y.active))
           /\ BacklightListener(y, event, y.active).active = y.active
<1>0. y \in Half BY DEF Half
<1>1. /\ y.bl = x.bl /\ y.blPrev = x.blPrev /\ y.led = x.led /\ y.ug = x.ug
      /\ y.raced = x.raced /\ y.work = x.work /\ y.lit = x.lit /\ y.flash = x.flash
      /\ y.ext = x.ext /\ y.loaded = x.loaded /\ y.pending = x.pending
  BY DEF Half
<1>2. /\ x.bl \in Backlight /\ x.blPrev \in BOOLEAN /\ y.active \in BOOLEAN /\ y.powered \in BOOLEAN
      /\ y.blPrev \in BOOLEAN
  BY <1>0, <1>1 DEF Half
<1>3. ASSUME NEW v \in Backlight, NEW p \in BOOLEAN, build.bl # {}
      PROVE  Kept(x, Redrawn(y, v, p)) /\ Redrawn(y, v, p).active = y.active
  <2> DEFINE z == Redrawn(y, v, p)
  <2>0. OnlyBacklight(y, v, z) BY <1>0, RedrawnDoes
  <2> HIDE DEF z
  <2>1. /\ z \in Half /\ z.bl = v /\ z.led = LedOf(y, v) /\ z.powered = y.powered
        /\ z.active = y.active /\ z.ug = y.ug /\ z.raced = y.raced /\ z.work = y.work
        /\ z.lit = y.lit /\ z.loaded = y.loaded
    BY <2>0 DEF OnlyBacklight
  <2>2. Shows(build, z) BY <2>1 DEF Shows, LedOf
  <2>3. Dark(x) => Dark(z) BY <1>1, <2>1 DEF Dark
  <2>4. Saved(build, z) BY <1>3 DEF Saved
  <2>5. Kept(x, z) BY <1>1, <2>1, <2>2, <2>3, <2>4 DEF Kept, Good
  <2> QED BY <2>1, <2>5 DEF z
<1>4. CASE event = "idle" /\ "idle" \in build.bl
  <2>1. BacklightListener(y, event, y.active) = BacklightAuto(y, y.active)
    BY <1>4 DEF BacklightListener
  <2>2. y = [x EXCEPT !.active = ~@] BY <1>4
  <2>3. y.powered = x.powered BY <2>2 DEF Half
  <2>4. build.bl # {} BY <1>4
  <2>5. CASE y.bl.on = y.active
    <3>1. BacklightAuto(y, y.active) = y BY <2>5 DEF BacklightAuto
    <3>2. Shows(build, x) => Shows(build, y) BY <1>1, <2>3 DEF Shows
    <3>3. Dark(x) => Dark(y) BY <1>1 DEF Dark
    <3>4. Saved(build, y) BY <2>4 DEF Saved
    <3>5. Kept(x, y) BY <1>0, <1>1, <3>2, <3>3, <3>4 DEF Kept, Good
    <3> QED BY <2>1, <3>1, <3>5
  <2>6. CASE y.bl.on # y.active
    <3> DEFINE on == y.active /\ y.blPrev
               v == [y.bl EXCEPT !.on = on]
               p == ~y.active
    <3>1. on \in BOOLEAN /\ p \in BOOLEAN BY <1>2
    <3>2. BacklightAuto(y, y.active) = UpdateBacklight([y EXCEPT !.bl.on = on, !.blPrev = p])
      BY <2>6 DEF BacklightAuto
    <3> HIDE DEF on, p
    <3>3. v \in Backlight BY <1>1, <1>2, <3>1 DEF Backlight
    <3>4. [y EXCEPT !.bl.on = on, !.blPrev = p] = [y EXCEPT !.bl = v, !.blPrev = p]
      BY <1>0 DEF Half
    <3>5. BacklightAuto(y, y.active) = Redrawn(y, v, p) BY <3>2, <3>4 DEF Redrawn
    <3> HIDE DEF v
    <3> QED BY <1>3, <2>1, <2>4, <3>1, <3>3, <3>5
  <2> QED BY <2>5, <2>6
<1>5. CASE event = "usb" /\ "usb" \in build.bl
  <2>1. BacklightListener(y, event, y.active) = BacklightUsb(y) BY <1>5 DEF BacklightListener
  <2>2. build.bl # {} BY <1>5
  <2>3. \E v \in Backlight : BacklightUsb(y) = UpdateBacklight([y EXCEPT !.bl = v])
    <3> DEFINE v == IF y.powered THEN [brt |-> 1, on |-> TRUE] ELSE [y.bl EXCEPT !.on = FALSE]
    <3>1. [brt |-> 1, on |-> TRUE] \in Backlight BY LightsAssumption DEF Backlight
    <3>2. [y.bl EXCEPT !.on = FALSE] \in Backlight BY <1>1, <1>2 DEF Backlight
    <3>3. v \in Backlight BY <3>1, <3>2
    <3>4. BacklightUsb(y) = UpdateBacklight([y EXCEPT !.bl = v]) BY DEF BacklightUsb
    <3> HIDE DEF v
    <3> QED BY <3>3, <3>4
  <2>4. PICK v \in Backlight : BacklightUsb(y) = UpdateBacklight([y EXCEPT !.bl = v]) BY <2>3
  <2>5. [y EXCEPT !.bl = v] = [y EXCEPT !.bl = v, !.blPrev = y.blPrev] BY <1>0 DEF Half
  <2>6. BacklightUsb(y) = Redrawn(y, v, y.blPrev) BY <2>4, <2>5 DEF Redrawn
  <2> QED BY <1>2, <1>3, <2>1, <2>2, <2>6
<1>6. CASE ~(event = "idle" /\ "idle" \in build.bl) /\ ~(event = "usb" /\ "usb" \in build.bl)
  <2>1. BacklightListener(y, event, y.active) = y BY <1>6 DEF BacklightListener
  <2>2. "usb" \in build.bl => y.powered = x.powered BY <1>6 DEF Half
  <2>3. Shows(build, x) => Shows(build, y) BY <1>1, <2>2 DEF Shows
  <2>4. Dark(x) => Dark(y) BY <1>1 DEF Dark
  <2>5. Saved(build, x) => Saved(build, y) BY <1>1 DEF Saved
  <2>6. Kept(x, y) BY <1>0, <1>1, <2>3, <2>4, <2>5 DEF Kept, Good
  <2> QED BY <2>1, <2>6
<1> QED BY <1>4, <1>5, <1>6

LEMMA UnderglowListens ==
    ASSUME NEW x \in Half, x.loaded, NEW event, NEW active \in BOOLEAN, NEW late \in BOOLEAN
    PROVE  /\ Kept(x, UnderglowListener(x, event, active, late))
           /\ Apart(x, UnderglowListener(x, event, active, late))
<1> DEFINE z == UnderglowListener(x, event, active, late)
<1>1. ASSUME NEW a \in BOOLEAN, NEW f \in BOOLEAN, NEW y, y = [x EXCEPT !.awake = a, !.before = f]
      PROVE  y \in Half /\ y.loaded = x.loaded /\ Kept(x, y) /\ Apart(x, y)
  <2>1. /\ y \in Half /\ y.bl = x.bl /\ y.led = x.led /\ y.powered = x.powered /\ y.ug = x.ug
        /\ y.raced = x.raced /\ y.work = x.work /\ y.lit = x.lit /\ y.flash = x.flash
        /\ y.ext = x.ext /\ y.loaded = x.loaded /\ y.pending = x.pending /\ y.active = x.active
    BY <1>1 DEF Half
  <2> QED BY <2>1 DEF Kept, Good, Dark, Shows, Saved, Apart
<1>2. Kept(x, x) /\ Apart(x, x) BY DEF Kept, Apart
<1>3. x.before \in BOOLEAN /\ x.awake \in BOOLEAN /\ x.ug.on \in BOOLEAN /\ x.powered \in BOOLEAN
  BY DEF Half, Underglow, AnyUnderglow
<1>4. ASSUME NEW wake \in BOOLEAN
      PROVE  Kept(x, UnderglowAuto(x, wake, late)) /\ Apart(x, UnderglowAuto(x, wake, late))
  <2>1. CASE wake = x.awake BY <1>2, <2>1 DEF UnderglowAuto
  <2>2. CASE wake # x.awake /\ wake
    <3> DEFINE y == [x EXCEPT !.awake = TRUE]
    <3>1. y = [x EXCEPT !.awake = TRUE, !.before = x.before] BY DEF Half
    <3>2. UnderglowAuto(x, wake, late) = IF x.before THEN UnderglowOn(y) ELSE UnderglowOff(y, late)
      BY <2>2 DEF UnderglowAuto
    <3> HIDE DEF y
    <3>3. y \in Half /\ y.loaded /\ Kept(x, y) /\ Apart(x, y) BY <1>1, <1>3, <3>1
    <3>4. /\ Kept(y, UnderglowOn(y)) /\ Apart(y, UnderglowOn(y))
          /\ Kept(y, UnderglowOff(y, late)) /\ Apart(y, UnderglowOff(y, late))
      BY <3>3, UnderglowOnDoes, UnderglowOffDoes
    <3> QED BY <3>2, <3>3, <3>4 DEF Kept, Apart
  <2>3. CASE wake # x.awake /\ ~wake
    <3> DEFINE y == [x EXCEPT !.awake = FALSE, !.before = x.ug.on]
    <3>1. UnderglowAuto(x, wake, late) = UnderglowOff(y, late) BY <2>3 DEF UnderglowAuto
    <3> HIDE DEF y
    <3>2. y \in Half /\ y.loaded /\ Kept(x, y) /\ Apart(x, y) BY <1>1, <1>3 DEF y
    <3>3. Kept(y, UnderglowOff(y, late)) /\ Apart(y, UnderglowOff(y, late))
      BY <3>2, UnderglowOffDoes
    <3> QED BY <3>1, <3>2, <3>3 DEF Kept, Apart
  <2> QED BY <2>1, <2>2, <2>3
<1>5. z \in {UnderglowAuto(x, active, late), UnderglowAuto(x, x.powered, late), x}
  BY DEF UnderglowListener
<1> HIDE DEF z
<1>6. Kept(x, z) /\ Apart(x, z) BY <1>2, <1>3, <1>4, <1>5
<1> QED BY <1>6 DEF z

\* The underglow leaves the rest as the backlight's listener has left it.
Heard(y, event, z) ==
    z.active = y.active /\ z.bl = BacklightListener(y, event, y.active).bl

LEMMA ListenDoes ==
    ASSUME NEW x \in Half, x.loaded, NEW event \in {"idle", "usb"}, NEW late \in BOOLEAN, NEW y,
           y = IF event = "idle" THEN [x EXCEPT !.active = ~@] ELSE [x EXCEPT !.powered = ~@]
    PROVE  /\ Kept(x, Listen(y, event, y.active, late))
           /\ Heard(y, event, Listen(y, event, y.active, late))
<1> DEFINE v == BacklightListener(y, event, y.active)
           z == UnderglowListener(v, event, y.active, late)
<1>1. Kept(x, v) /\ v.active = y.active BY BacklightListens
<1>2. v \in Half /\ v.loaded /\ y.active \in BOOLEAN BY <1>1 DEF Kept, Half
<1> HIDE DEF v
<1>3. Kept(v, z) /\ Apart(v, z) BY <1>2, UnderglowListens
<1>4. z = Listen(y, event, y.active, late) BY DEF Listen, v
<1> HIDE DEF z
<1>5. Kept(x, z) /\ z.active = y.active /\ z.bl = v.bl BY <1>1, <1>3 DEF Kept, Apart
<1>6. Heard(y, event, z) BY <1>5 DEF Heard, v
<1> QED BY <1>4, <1>5, <1>6
-----------------------------------------------------------------------------
(* The timer, the queues and a restart.                                      *)

\* Work that draws or saves leaves what was set alone.
Same(x, y) ==
    /\ y.loaded = x.loaded /\ y.active = x.active /\ y.bl = x.bl
    /\ y.ug.on = x.ug.on /\ y.ug.effect = x.ug.effect /\ y.ext = x.ext
Worked(x, y) == y \in Half /\ Same(x, y) /\ (Good(build, x) => Good(build, y))

LEMMA TickDoes ==
    ASSUME NEW x \in Half, x.ug.on
    PROVE  Worked(x, Submit(x, "tick"))
<1>1. PICK w \in Seq({"off", "tick"}) : Submit(x, "tick") = [x EXCEPT !.work = w] BY SubmitDoes
<1> DEFINE y == [x EXCEPT !.work = w]
<1>2. /\ y \in Half /\ y.bl = x.bl /\ y.led = x.led /\ y.powered = x.powered /\ y.ug = x.ug
      /\ y.flash = x.flash /\ y.ext = x.ext /\ y.loaded = x.loaded /\ y.pending = x.pending
      /\ y.active = x.active
  BY DEF Half
<1> HIDE DEF y
<1>3. Dark(y) BY <1>2 DEF Dark
<1>4. (Shows(build, x) => Shows(build, y)) /\ (Saved(build, x) => Saved(build, y))
  BY <1>2 DEF Shows, Saved
<1>5. Worked(x, y) BY <1>2, <1>3, <1>4 DEF Worked, Same, Good
<1> QED BY <1>1, <1>5 DEF y

\* The next step of an animation is one of its steps.
LEMMA NextStepFits ==
    ASSUME NEW u \in Underglow
    PROVE  [u EXCEPT !.step = NextStep(u)] \in Underglow
<1>1. u \in AnyUnderglow BY DEF Underglow
<1>2. /\ u.effect \in 0 .. 3 /\ u.step \in Nat /\ u.speed \in Nat /\ StepFits(u)
      /\ BrtMax \in Nat /\ HueMax \in Nat \ {0}
  BY LightsAssumption DEF Underglow, AnyUnderglow
<1>3. /\ NextStep(u) \in Nat /\ (u.effect = 1 => NextStep(u) <= 2 * BrtMax)
      /\ (u.effect \in {2, 3} => NextStep(u) < HueMax)
  <2>1. CASE u.effect = 0 BY <1>2, <2>1 DEF NextStep
  <2>2. CASE u.effect = 1 BY <1>2, <2>2 DEF NextStep
  <2>3. CASE u.effect = 2
    <3>1. NextStep(u) = (u.step + u.speed) % HueMax BY <2>3 DEF NextStep
    <3>2. u.step + u.speed \in Nat BY <1>2
    <3> QED BY <1>2, <2>3, <3>1, <3>2
  <2>4. CASE u.effect = 3
    <3>1. NextStep(u) = (u.step + 2 * u.speed) % HueMax BY <2>4 DEF NextStep
    <3>2. u.step + 2 * u.speed \in Nat BY <1>2
    <3> QED BY <1>2, <2>4, <3>1, <3>2
  <2> QED BY <1>2, <2>1, <2>2, <2>3, <2>4
<1> DEFINE n == NextStep(u)
           v == [u EXCEPT !.step = n]
<1> HIDE DEF n
<1>4. v \in AnyUnderglow /\ v.step = n /\ v.effect = u.effect BY <1>1, <1>3 DEF AnyUnderglow, n
<1>5. StepFits(v) BY <1>3, <1>4 DEF StepFits, n
<1>6. v \in Underglow BY <1>4, <1>5 DEF Underglow
<1> QED BY <1>6 DEF n

\* Taking the head of a queue leaves its last item, unless that was the head.
LEMMA LastOfTail ==
    ASSUME NEW S, NEW q \in Seq(S), q # <<>>
    PROVE  IF Tail(q) = <<>> THEN q[Len(q)] = Head(q) ELSE Tail(q)[Len(Tail(q))] = q[Len(q)]
<1> DEFINE w == Tail(q)
<1>1. Len(q) \in Nat /\ Len(q) # 0 BY DEF w
<1>2. Head(q) = q[1] /\ Len(w) = Len(q) - 1 BY <1>1
<1>0. w \in Seq(S) BY <1>1
<1>3. \A i \in 1 .. Len(w) : w[i] = q[i + 1] BY <1>1
<1> HIDE DEF w
<1>4. w = <<>> <=> Len(w) = 0 BY <1>0
<1>5. CASE w = <<>>
  <2>1. Len(q) = 1 BY <1>1, <1>2, <1>4, <1>5
  <2> QED BY <1>2, <1>5, <2>1 DEF w
<1>6. CASE w # <<>>
  <2>1. Len(w) \in 1 .. Len(w) /\ Len(w) + 1 = Len(q) BY <1>1, <1>2, <1>4, <1>6
  <2>2. w[Len(w)] = q[Len(q)] BY <1>3, <2>1
  <2> QED BY <1>6, <2>2 DEF w
<1> QED BY <1>5, <1>6

\* What the low priority queue does with its first item.
Drawn(x) == IF Head(x.work) = "off"
            THEN [x EXCEPT !.work = Tail(@), !.lit = FALSE]
            ELSE [x EXCEPT !.work = Tail(@), !.lit = TRUE, !.ug.step = NextStep(x.ug)]

LEMMA DrawnDoes ==
    ASSUME NEW x \in Half, x.work # <<>>
    PROVE  Worked(x, Drawn(x))
<1> DEFINE u == IF Head(x.work) = "off" THEN x.ug ELSE [x.ug EXCEPT !.step = NextStep(x.ug)]
           l == IF Head(x.work) = "off" THEN FALSE ELSE TRUE
           w == Tail(x.work)
           y == Drawn(x)
<1>1. x.ug \in Underglow /\ x.work \in Seq({"off", "tick"}) /\ l \in BOOLEAN BY DEF Half
<1>2. u \in Underglow /\ Chosen(u) = Chosen(x.ug) /\ u.on = x.ug.on /\ u.effect = x.ug.effect
  BY <1>1, NextStepFits DEF Underglow, AnyUnderglow, Chosen
<1>3. w \in Seq({"off", "tick"}) BY <1>1
<1>4. y = [x EXCEPT !.work = w, !.lit = l, !.ug = u]
  <2>1. CASE Head(x.work) = "off" BY <2>1 DEF Drawn, Half
  <2>2. CASE Head(x.work) # "off" BY <2>2 DEF Drawn, Half
  <2> QED BY <2>1, <2>2
<1> HIDE DEF u, y
<1>5. y.work = w /\ y.lit = l /\ y.ug = u /\ y.raced = x.raced BY <1>4 DEF Half
<1>6. IF w = <<>> THEN x.work[Len(x.work)] = Head(x.work)
      ELSE w[Len(w)] = x.work[Len(x.work)]
  BY <1>1, LastOfTail
<1>7. Dark(x) => Dark(y) BY <1>2, <1>5, <1>6 DEF Dark
<1> HIDE DEF l, w
<1>8. y \in Half BY <1>1, <1>2, <1>3, <1>4 DEF Half
<1>9. /\ y.bl = x.bl /\ y.led = x.led /\ y.powered = x.powered /\ y.flash = x.flash
      /\ y.ext = x.ext /\ y.loaded = x.loaded /\ y.pending = x.pending /\ y.active = x.active
  BY <1>4 DEF Half
<1>10. (Shows(build, x) => Shows(build, y)) /\ (Saved(build, x) => Saved(build, y))
  BY <1>2, <1>5, <1>9 DEF Shows, Saved
<1>11. Worked(x, y) BY <1>2, <1>5, <1>7, <1>8, <1>9, <1>10 DEF Worked, Same, Good
<1> QED BY <1>11 DEF y

\* The three delayed saves.
SavedBl(x) == [x EXCEPT !.pending = @ \ {"bl"}, !.flash.bl = x.bl]
SavedUg(x) == [x EXCEPT !.pending = @ \ {"ug"}, !.flash.ug = x.ug]
SavedExt(x) == [x EXCEPT !.pending = @ \ {"ext"}, !.flash.ext = x.ext]

LEMMA SavesDo ==
    ASSUME NEW x \in Half
    PROVE  /\ "bl" \in x.pending => Worked(x, SavedBl(x))
           /\ "ug" \in x.pending => Worked(x, SavedUg(x))
           /\ Worked(x, SavedExt(x))
<1>0. /\ x.bl \in Backlight /\ x.ug \in Underglow /\ x.ext \in BOOLEAN /\ x.flash \in Flash
  BY DEF Half
<1>1. ASSUME NEW f \in Flash, NEW kind \in {"bl", "ug", "ext"}, NEW y,
             y = [x EXCEPT !.pending = @ \ {kind}, !.flash = f],
             Saved(build, x) => Saved(build, y)
      PROVE  Worked(x, y)
  <2>1. /\ y \in Half /\ y.bl = x.bl /\ y.led = x.led /\ y.powered = x.powered /\ y.ug = x.ug
        /\ y.raced = x.raced /\ y.work = x.work /\ y.lit = x.lit /\ y.active = x.active
        /\ y.ext = x.ext /\ y.loaded = x.loaded
    BY <1>1 DEF Half
  <2>2. (Dark(x) => Dark(y)) /\ (Shows(build, x) => Shows(build, y)) BY <2>1 DEF Dark, Shows
  <2> QED BY <1>1, <2>1, <2>2 DEF Worked, Same, Good
<1>2. "bl" \in x.pending => Worked(x, SavedBl(x))
  <2> SUFFICES ASSUME "bl" \in x.pending PROVE Worked(x, SavedBl(x)) OBVIOUS
  <2> DEFINE f == [x.flash EXCEPT !.bl = x.bl]
             y == SavedBl(x)
  <2>1. f \in Flash BY <1>0 DEF Flash
  <2>2. f.bl = x.bl /\ f.ug = x.flash.ug /\ f.ext = x.flash.ext BY <1>0 DEF Flash
  <2>3. y = [x EXCEPT !.pending = @ \ {"bl"}, !.flash = f] BY DEF SavedBl, Half
  <2> HIDE DEF f, y
  <2>4. /\ y.bl = x.bl /\ y.ug = x.ug /\ y.ext = x.ext /\ y.loaded = x.loaded
        /\ y.flash = f /\ y.pending = x.pending \ {"bl"}
    BY <2>3 DEF Half
  <2>5. Saved(build, x) => Saved(build, y) BY <2>2, <2>4 DEF Saved
  <2>6. Worked(x, y) BY <1>1, <2>1, <2>3, <2>5
  <2> QED BY <2>6 DEF y
<1>3. "ug" \in x.pending => Worked(x, SavedUg(x))
  <2> SUFFICES ASSUME "ug" \in x.pending PROVE Worked(x, SavedUg(x)) OBVIOUS
  <2> DEFINE f == [x.flash EXCEPT !.ug = x.ug]
             y == SavedUg(x)
  <2>1. f \in Flash BY <1>0 DEF Flash
  <2>2. f.ug = x.ug /\ f.bl = x.flash.bl /\ f.ext = x.flash.ext BY <1>0 DEF Flash
  <2>3. y = [x EXCEPT !.pending = @ \ {"ug"}, !.flash = f] BY DEF SavedUg, Half
  <2> HIDE DEF f, y
  <2>4. /\ y.bl = x.bl /\ y.ug = x.ug /\ y.ext = x.ext /\ y.loaded = x.loaded
        /\ y.flash = f /\ y.pending = x.pending \ {"ug"}
    BY <2>3 DEF Half
  <2>5. x.ug # None
    <3>1. x.ug \in AnyUnderglow BY <1>0 DEF Underglow
    <3> QED BY <3>1, LightsAssumption DEF AnyUnderglow, Color
  <2>6. Saved(build, x) => Saved(build, y) BY <2>2, <2>4, <2>5 DEF Saved
  <2>7. Worked(x, y) BY <1>1, <2>1, <2>3, <2>6
  <2> QED BY <2>7 DEF y
<1>4. Worked(x, SavedExt(x))
  <2> DEFINE f == [x.flash EXCEPT !.ext = x.ext]
             y == SavedExt(x)
  <2>1. f \in Flash BY <1>0 DEF Flash
  <2>2. f.ext = x.ext /\ f.bl = x.flash.bl /\ f.ug = x.flash.ug BY <1>0 DEF Flash
  <2>3. y = [x EXCEPT !.pending = @ \ {"ext"}, !.flash = f] BY DEF SavedExt, Half
  <2> HIDE DEF f, y
  <2>4. /\ y.bl = x.bl /\ y.ug = x.ug /\ y.ext = x.ext /\ y.loaded = x.loaded
        /\ y.flash = f /\ y.pending = x.pending \ {"ext"}
    BY <2>3 DEF Half
  <2>5. Saved(build, x) => Saved(build, y) BY <2>2, <2>4 DEF Saved
  <2>6. Worked(x, y) BY <1>1, <2>1, <2>3, <2>5
  <2> QED BY <2>6 DEF y
<1> QED BY <1>2, <1>3, <1>4

LEMMA StartIsTyped ==
    ASSUME build \in Builds, NEW powered \in BOOLEAN
    PROVE  /\ StartBacklight(powered) \in Backlight /\ StartUnderglow(powered) \in Underglow
           /\ build.bl = {} => StartBacklight(powered) = StartBl(build)
           /\ build.ug = {} => Chosen(StartUnderglow(powered)) = StartUg(build)
<1>1. /\ build.bl \subseteq {"idle", "usb"} /\ build.ug \subseteq {"idle", "usb"}
      /\ build.on \subseteq {"bl", "ug"} /\ build.ext \in BOOLEAN /\ build.split \in BOOLEAN
  BY LightsAssumption
<1>2. /\ BrtMax \in Nat \ {0} /\ HueMax \in Nat \ {0} /\ SpeedMax \in Nat \ {0}
      /\ BrtStart \in 0 .. BrtMax
  BY LightsAssumption
<1>3. /\ StartBacklight(powered) \in Backlight
      /\ build.bl = {} => StartBacklight(powered) = StartBl(build)
  BY <1>1, <1>2 DEF StartBacklight, Backlight, StartBl
<1> DEFINE on == IF "usb" \in build.ug THEN powered ELSE "ug" \in build.on
           u == StartUnderglow(powered)
<1>4. on \in BOOLEAN /\ (build.ug = {} => on = ("ug" \in build.on))
  <2>1. CASE "usb" \in build.ug BY <2>1
  <2>2. CASE "usb" \notin build.ug BY <2>2
  <2> QED BY <2>1, <2>2
<1>5. u = [color |-> [h |-> 0, s |-> BrtMax, b |-> BrtStart], speed |-> 1, effect |-> 0,
           step |-> 0, on |-> on]
  BY DEF StartUnderglow
<1> HIDE DEF on, u
<1>6. u \in AnyUnderglow BY <1>2, <1>4, <1>5 DEF AnyUnderglow, Color
<1>7. u.effect = 0 /\ u.speed = 1 /\ u.on = on BY <1>5
<1>8. u \in Underglow BY <1>6, <1>7 DEF Underglow, StepFits
<1>9. build.ug = {} => Chosen(u) = StartUg(build) BY <1>4, <1>7 DEF Chosen, StartUg
<1> QED BY <1>3, <1>8, <1>9 DEF u

LEMMA StartedDoes ==
    ASSUME build \in Builds, NEW powered \in BOOLEAN, NEW flash \in Flash
    PROVE  LET y == Started(powered, flash)
           IN  /\ y \in Half /\ Good(build, y) /\ y.loaded = FALSE /\ y.flash = flash
               /\ y.bl = StartBacklight(powered) /\ y.ug = StartUnderglow(powered)
               /\ y.ext = TRUE
<1> DEFINE v == StartBacklight(powered)
           u == StartUnderglow(powered)
           x == [bl |-> v, blPrev |-> FALSE, led |-> 0, powered |-> powered, ug |-> u,
                 timer |-> u.on, awake |-> TRUE, before |-> FALSE, work |-> <<>>, lit |-> FALSE,
                 raced |-> FALSE, ext |-> TRUE, pending |-> {"ext"}, flash |-> flash,
                 active |-> TRUE, loaded |-> FALSE]
           l == LedOf(x, v)
           y == [x EXCEPT !.led = l]
<1>1. /\ v \in Backlight /\ u \in Underglow
      /\ build.bl = {} => v = StartBl(build)
      /\ build.ug = {} => Chosen(u) = StartUg(build)
  BY StartIsTyped
<1>2. Started(powered, flash) = UpdateBacklight(x) BY DEF Started
<1> HIDE DEF v, u
<1>3. x.bl = v /\ x.powered = powered OBVIOUS
<1>4. l \in 0 .. BrtMax BY <1>1, Bounded DEF LedOf, Backlight
<1>5. (IF x.powered THEN GetBrt(x) ELSE 0) = l BY <1>3 DEF GetBrt, LedOf
<1>6. UpdateBacklight(x) = [x EXCEPT !.led = l]
  <2> HIDE DEF x, l
  <2> QED BY <1>5 DEF UpdateBacklight
<1>7. u.on \in BOOLEAN /\ <<>> \in Seq({"off", "tick"}) BY <1>1 DEF Underglow, AnyUnderglow
<1>8. x \in Half BY <1>1, <1>7, Bounded DEF Half
<1>9. /\ x.ug = u /\ x.raced = FALSE /\ x.work = <<>> /\ x.lit = FALSE
      /\ x.ext = TRUE /\ x.loaded = FALSE /\ x.pending = {"ext"} /\ x.flash = flash
  OBVIOUS
<1>10. l = IF x.powered /\ v.on THEN v.brt ELSE 0 BY DEF LedOf
<1> HIDE DEF x, l
<1>11. y \in Half BY <1>4, <1>8 DEF Half
<1>12. /\ y.bl = v /\ y.led = l /\ y.ug = u /\ y.raced = FALSE /\ y.work = <<>> /\ y.lit = FALSE
       /\ y.ext = TRUE /\ y.loaded = FALSE /\ y.pending = {"ext"} /\ y.flash = flash
       /\ y.powered = x.powered
  BY <1>3, <1>8, <1>9 DEF Half
<1>13. Started(powered, flash) = y BY <1>2, <1>6
<1> HIDE DEF y
<1>14. Shows(build, y) BY <1>10, <1>12 DEF Shows
<1>15. Dark(y) BY <1>12 DEF Dark
<1>16. Saved(build, y) BY <1>1, <1>12 DEF Saved
<1>17. Good(build, y) BY <1>14, <1>15, <1>16 DEF Good
<1> QED BY <1>11, <1>12, <1>13, <1>17 DEF v, u

LightsLoaded(x) == [LoadExt(LoadUnderglow(LoadBacklight(x))) EXCEPT !.loaded = TRUE]

LEMMA LoadedDoes ==
    ASSUME NEW x \in Half, ~x.loaded, Good(build, x)
    PROVE  LET y == LightsLoaded(x)
           IN  y \in Half /\ y.loaded = TRUE /\ Good(build, y) /\ y.active = x.active
<1>0. x.flash \in Flash /\ x.bl \in Backlight /\ x.ug \in Underglow /\ x.blPrev \in BOOLEAN BY DEF Half
<1>1. PICK v \in Backlight, l \in 0 .. BrtMax :
          /\ LoadBacklight(x) = [x EXCEPT !.bl = v, !.led = l]
          /\ IF x.flash.bl = None THEN v = x.bl /\ l = x.led ELSE v = x.flash.bl /\ l = LedOf(x, v)
  <2>1. CASE x.flash.bl = None
    <3>1. LoadBacklight(x) = [x EXCEPT !.bl = x.bl, !.led = x.led] BY <2>1 DEF LoadBacklight, Half
    <3>2. x.led \in 0 .. BrtMax BY DEF Half
    <3> QED BY <1>0, <2>1, <3>1, <3>2
  <2>2. CASE x.flash.bl # None
    <3> DEFINE v == x.flash.bl
               w == [x EXCEPT !.bl = v]
               l == LedOf(x, v)
    <3>1. v \in Backlight BY <1>0, <2>2 DEF Flash
    <3>2. w.bl = v /\ w.powered = x.powered BY DEF Half
    <3>3. LoadBacklight(x) = UpdateBacklight(w) BY <2>2 DEF LoadBacklight
    <3>4. (IF w.powered THEN GetBrt(w) ELSE 0) = l
      <4> HIDE DEF w
      <4> QED BY <3>2 DEF GetBrt, LedOf
    <3>5. l \in 0 .. BrtMax BY <3>1, Bounded DEF LedOf, Backlight
    <3> HIDE DEF l
    <3>6. UpdateBacklight(w) = [w EXCEPT !.led = l]
      <4> HIDE DEF w
      <4> QED BY <3>4 DEF UpdateBacklight
    <3>7. [w EXCEPT !.led = l] = [x EXCEPT !.bl = v, !.led = l] BY DEF Half
    <3> HIDE DEF w
    <3>8. LoadBacklight(x) = [x EXCEPT !.bl = v, !.led = l] BY <3>3, <3>6, <3>7
    <3> QED BY <2>2, <3>1, <3>5, <3>8 DEF l
  <2> QED BY <2>1, <2>2
<1> DEFINE a == LoadBacklight(x)
<1>2. /\ a \in Half /\ a.flash = x.flash /\ a.ug = x.ug /\ a.timer = x.timer /\ a.raced = x.raced
      /\ a.timer \in BOOLEAN /\ a.raced \in BOOLEAN
  BY <1>1 DEF Half
<1> HIDE DEF a
<1>3. PICK u \in Underglow, t \in BOOLEAN, r \in BOOLEAN :
          /\ LoadUnderglow(a) = [a EXCEPT !.ug = u, !.timer = t, !.raced = r]
          /\ IF x.flash.ug = None THEN u = x.ug /\ r = x.raced ELSE u = x.flash.ug /\ (~u.on => r)
  <2>1. CASE x.flash.ug = None
    <3>1. LoadUnderglow(a) = [a EXCEPT !.ug = a.ug, !.timer = a.timer, !.raced = a.raced]
      BY <1>2, <2>1 DEF LoadUnderglow, Half
    <3> QED BY <1>0, <1>2, <2>1, <3>1
  <2>2. CASE x.flash.ug # None
    <3> DEFINE u == x.flash.ug
               t == x.timer \/ u.on
               r == x.raced \/ ~u.on
    <3>1. u \in Underglow BY <1>0, <2>2 DEF Flash
    <3>2. u.on \in BOOLEAN BY <3>1 DEF Underglow, AnyUnderglow
    <3>3. t \in BOOLEAN /\ r \in BOOLEAN /\ (~u.on => r) BY <1>2, <3>2
    <3>4. LoadUnderglow(a) = [a EXCEPT !.ug = u, !.timer = t, !.raced = r]
      BY <1>2, <2>2 DEF LoadUnderglow
    <3> HIDE DEF t, r
    <3> QED BY <2>2, <3>1, <3>3, <3>4
  <2> QED BY <2>1, <2>2
<1> DEFINE b == LoadUnderglow(a)
<1>4. b = [x EXCEPT !.bl = v, !.led = l, !.ug = u, !.timer = t, !.raced = r]
  BY <1>1, <1>3 DEF a, Half
<1>5. b \in Half /\ b.flash = x.flash BY <1>4 DEF Half
<1> HIDE DEF b
<1> DEFINE e == x.flash.ext = None \/ x.flash.ext
           y == LightsLoaded(x)
<1>6. e \in BOOLEAN BY <1>0 DEF Flash
<1>7. LoadExt(b) = [b EXCEPT !.ext = e, !.pending = @ \union {"ext"}]
  <2>1. CASE e BY <1>5, <2>1 DEF LoadExt, ExtEnable
  <2>2. CASE ~e BY <1>5, <2>2 DEF LoadExt, ExtDisable
  <2> QED BY <2>1, <2>2
<1> HIDE DEF e
<1>8. y = [LoadExt(b) EXCEPT !.loaded = TRUE] BY DEF LightsLoaded, b, a
<1> HIDE DEF y
<1>9. y = [b EXCEPT !.ext = e, !.pending = @ \union {"ext"}, !.loaded = TRUE]
  BY <1>5, <1>7, <1>8 DEF Half
<1>10. y \in Half BY <1>5, <1>6, <1>9 DEF Half
<1>11. /\ y.bl = v /\ y.led = l /\ y.powered = x.powered /\ y.ug = u /\ y.raced = r
       /\ y.work = x.work /\ y.lit = x.lit /\ y.ext = e /\ y.loaded = TRUE
       /\ y.pending = x.pending \cup {"ext"} /\ y.flash = x.flash /\ y.active = x.active
  <2>1. /\ b.bl = v /\ b.led = l /\ b.powered = x.powered /\ b.ug = u /\ b.raced = r
        /\ b.work = x.work /\ b.lit = x.lit /\ b.pending = x.pending /\ b.active = x.active
    BY <1>4 DEF Half
  <2>2. /\ y.bl = b.bl /\ y.led = b.led /\ y.powered = b.powered /\ y.ug = b.ug
        /\ y.raced = b.raced /\ y.work = b.work /\ y.lit = b.lit /\ y.ext = e /\ y.loaded = TRUE
        /\ y.pending = b.pending \cup {"ext"} /\ y.flash = b.flash /\ y.active = b.active
    BY <1>5, <1>9 DEF Half
  <2> QED BY <1>5, <2>1, <2>2
<1>12. Dark(x) /\ Shows(build, x) /\ Saved(build, x) BY DEF Good
<1>13. Shows(build, y) BY <1>1, <1>11, <1>12 DEF Shows, LedOf
<1>14. Dark(y) BY <1>3, <1>11, <1>12 DEF Dark
<1>15. Saved(build, y) BY <1>1, <1>3, <1>11, <1>12 DEF Saved
<1> QED BY <1>10, <1>11, <1>13, <1>14, <1>15 DEF Good, y
-----------------------------------------------------------------------------
(* The inductive invariant.                                                  *)

LEMMA InitLInv == LightsInit => LInv
<1> SUFFICES ASSUME LightsInit PROVE LInv OBVIOUS
<1> DEFINE f == [NoSettings EXCEPT !.ext = TRUE]
           x == Started(TRUE, f)
           y == [x EXCEPT !.loaded = TRUE, !.pending = {}]
<1>1. build \in Builds /\ half = [h \in Halves |-> y] /\ wire = <<>> /\ last = None
  BY DEF LightsInit
<1>2. f \in Flash /\ f.bl = None /\ f.ug = None /\ f.ext = TRUE BY DEF NoSettings, Flash
<1> HIDE DEF f
<1>3. /\ x \in Half /\ Good(build, x) /\ x.loaded = FALSE /\ x.flash = f
      /\ x.bl = StartBacklight(TRUE) /\ x.ug = StartUnderglow(TRUE) /\ x.ext = TRUE
  BY <1>1, <1>2, StartedDoes
<1> HIDE DEF x
<1>4. y \in Half BY <1>3 DEF Half
<1>5. /\ y.bl = x.bl /\ y.led = x.led /\ y.powered = x.powered /\ y.ug = x.ug
      /\ y.raced = x.raced /\ y.work = x.work /\ y.lit = x.lit /\ y.flash = f
      /\ y.ext = TRUE /\ y.loaded = TRUE
  BY <1>3 DEF Half
<1> HIDE DEF y
<1>6. Dark(y) /\ Shows(build, y) BY <1>3, <1>5 DEF Good, Dark, Shows
<1>7. /\ build.bl = {} => x.bl = StartBl(build)
      /\ build.ug = {} => Chosen(x.ug) = StartUg(build)
  BY <1>1, <1>3, StartIsTyped
<1>8. Saved(build, y) BY <1>2, <1>5, <1>7 DEF Saved
<1>9. Good(build, y) BY <1>6, <1>8 DEF Good
<1> QED BY <1>1, <1>4, <1>9 DEF LInv

LEMMA HalfStep ==
    ASSUME LInv, NEW h \in Halves, NEW y \in Half, half' = [half EXCEPT ![h] = y], build' = build
    PROVE  /\ Halves' = Halves /\ half' \in [Halves' -> Half] /\ half'[h] = y
           /\ \A g \in Halves : g # h => half'[g] = half[g]
<1>1. Halves' = Halves BY DEF Halves
<1>2. half \in [Halves -> Half] BY DEF LInv
<1> QED BY <1>1, <1>2

LEMMA SameDid ==
    ASSUME NEW x, NEW y, NEW c, Same(x, y), Did(c, x)
    PROVE  Did(c, y)
BY DEF Same, Did

\* A half works through what it had to do.
LEMMA WorkStep ==
    ASSUME LInv, NEW h \in Halves, NEW y, Worked(half[h], y), half' = [half EXCEPT ![h] = y],
           wire' = wire, build' = build, last' = last
    PROVE  LInv'
<1>1. y \in Half /\ Same(half[h], y) /\ Good(build, y) BY DEF Worked, LInv
<1>2. /\ Halves' = Halves /\ half' \in [Halves' -> Half] /\ half'[h] = y
      /\ \A g \in Halves : g # h => half'[g] = half[g]
  BY <1>1, HalfStep
<1>3. \A g \in Halves : Good(build, half'[g]) BY <1>1, <1>2 DEF LInv
<1>4. \A g \in Halves : Same(half[g], half'[g]) BY <1>1, <1>2 DEF Same
<1>5. ASSUME last # None PROVE LastDone(last, half', wire, build)
  <2>1. LastDone(last, half, wire, build) BY <1>5 DEF LInv
  <2>2. "central" \in Halves /\ (build.split => "peripheral" \in Halves) BY DEF Halves
  <2>3. \A g \in Halves : Did(last, half[g]) => Did(last, half'[g]) BY <1>4, SameDid
  <2>4. \A g \in Halves : half[g].loaded => half'[g].loaded BY <1>4 DEF Same
  <2> QED BY <2>1, <2>2, <2>3, <2>4 DEF LastDone
<1> QED BY <1>2, <1>3, <1>5 DEF LInv

\* Something happens to a half that no behavior has asked for.
LEMMA EventStep ==
    ASSUME LInv, NEW h \in Halves, NEW y \in Half, Good(build, y), half' = [half EXCEPT ![h] = y],
           wire' = wire, build' = build, last' = None
    PROVE  LInv'
<1>1. /\ Halves' = Halves /\ half' \in [Halves' -> Half] /\ half'[h] = y
      /\ \A g \in Halves : g # h => half'[g] = half[g]
  BY HalfStep
<1>2. \A g \in Halves : Good(build, half'[g]) BY <1>1 DEF LInv
<1> QED BY <1>1, <1>2 DEF LInv

LEMMA PressStep ==
    ASSUME LInv, PressLightKey
    PROVE  LInv'
<1> DEFINE x == half["central"]
<1>1. PICK b \in Behaviors, late \in BOOLEAN :
          /\ half' = [half EXCEPT !["central"] = Perform(x, Convert(x, b), late)]
          /\ wire' = IF build.split THEN Append(wire, Convert(x, b)) ELSE wire
          /\ last' = Convert(x, b)
  BY DEF PressLightKey, Update
<1>2. build' = build /\ x.loaded BY DEF PressLightKey
<1>3. "central" \in Halves /\ x \in Half BY DEF LInv, Halves
<1> DEFINE c == Convert(x, b)
           y == Perform(x, c, late)
<1>4. c \in Sent BY <1>3, ConvertedIsSent
<1> HIDE DEF c
<1>5. Kept(x, y) /\ Did(c, y) BY <1>2, <1>3, <1>4, PerformDoes
<1> HIDE DEF y
<1>6. /\ half' = [half EXCEPT !["central"] = y] /\ last' = c
      /\ wire' = IF build.split THEN Append(wire, c) ELSE wire
  BY <1>1 DEF y, c
<1>7. y \in Half /\ y.loaded /\ Good(build, y)
  <2>1. Good(build, x) BY <1>3 DEF LInv
  <2> QED BY <1>2, <1>5, <2>1 DEF Kept
<1>8. /\ Halves' = Halves /\ half' \in [Halves' -> Half] /\ half'["central"] = y
      /\ \A g \in Halves : g # "central" => half'[g] = half[g]
  BY <1>2, <1>3, <1>6, <1>7, HalfStep
<1>9. \A g \in Halves : Good(build, half'[g]) BY <1>7, <1>8 DEF LInv
<1>10. wire \in Seq(Sent) BY DEF LInv
<1>11. wire' \in Seq(Sent) /\ (~build.split => wire' = <<>>)
  <2>1. CASE build.split BY <1>4, <1>6, <1>10, <2>1
  <2>2. CASE ~build.split BY <1>6, <1>10, <2>2 DEF LInv
  <2> QED BY <2>1, <2>2
<1>12. build.split => wire' # <<>> /\ wire'[Len(wire')] = c BY <1>4, <1>6, <1>10
<1>13. LastDone(last', half', wire', build) BY <1>4, <1>5, <1>6, <1>7, <1>8, <1>12 DEF LastDone
<1> QED BY <1>2, <1>8, <1>9, <1>11, <1>13 DEF LInv

LEMMA DeliverStep ==
    ASSUME LInv, Deliver
    PROVE  LInv'
<1> DEFINE x == half["peripheral"]
           c == Head(wire)
<1>1. PICK late \in BOOLEAN : half' = [half EXCEPT !["peripheral"] = Perform(x, c, late)]
  BY DEF Deliver, Update
<1>2. wire # <<>> /\ wire' = Tail(wire) /\ build' = build /\ last' = last /\ x.loaded
  BY DEF Deliver
<1>3. build.split /\ wire \in Seq(Sent) BY <1>2 DEF LInv
<1>4. "peripheral" \in Halves /\ "central" \in Halves /\ x \in Half BY <1>3 DEF LInv, Halves
<1> DEFINE y == Perform(x, c, late)
<1>5. c \in Sent BY <1>2, <1>3
<1>6. IF wire' = <<>> THEN wire[Len(wire)] = c ELSE wire'[Len(wire')] = wire[Len(wire)]
  BY <1>2, <1>3, LastOfTail
<1>7. wire' \in Seq(Sent) BY <1>2, <1>3
<1> HIDE DEF c
<1>8. Kept(x, y) /\ Did(c, y) BY <1>2, <1>4, <1>5, PerformDoes
<1> HIDE DEF y
<1>9. half' = [half EXCEPT !["peripheral"] = y] BY <1>1 DEF y
<1>10. y \in Half /\ y.loaded /\ Good(build, y)
  <2>1. Good(build, x) BY <1>4 DEF LInv
  <2> QED BY <1>2, <1>8, <2>1 DEF Kept
<1>11. /\ Halves' = Halves /\ half' \in [Halves' -> Half] /\ half'["peripheral"] = y
       /\ \A g \in Halves : g # "peripheral" => half'[g] = half[g]
  BY <1>2, <1>4, <1>9, <1>10, HalfStep
<1>12. \A g \in Halves : Good(build, half'[g]) BY <1>10, <1>11 DEF LInv
<1>13. ASSUME last # None PROVE LastDone(last, half', wire', build)
  <2>1. LastDone(last, half, wire, build) BY <1>13 DEF LInv
  <2>2. /\ last \in Sent /\ half["central"].loaded /\ Did(last, half["central"])
        /\ wire[Len(wire)] = last
    BY <1>2, <1>3, <2>1 DEF LastDone
  <2>3. half'["central"] = half["central"] BY <1>4, <1>11
  <2>4. IF wire' # <<>> THEN wire'[Len(wire')] = last
        ELSE half'["peripheral"].loaded /\ Did(last, half'["peripheral"])
    BY <1>6, <1>8, <1>10, <1>11, <2>2
  <2> QED BY <2>2, <2>3, <2>4 DEF LastDone
<1> QED BY <1>2, <1>3, <1>7, <1>11, <1>12, <1>13 DEF LInv

LEMMA ListenStep ==
    ASSUME LInv, NEW h \in Halves, ActivityChanges(h) \/ PowerChanges(h)
    PROVE  LInv'
<1> DEFINE x == half[h]
<1>1. x \in Half /\ x.loaded /\ Good(build, x) BY DEF LInv, ActivityChanges, PowerChanges
<1>2. wire' = wire /\ build' = build /\ last' = None BY DEF ActivityChanges, PowerChanges
<1>3. \E y \in Half : Good(build, y) /\ half' = [half EXCEPT ![h] = y]
  <2>1. CASE ActivityChanges(h)
    <3> DEFINE w == [x EXCEPT !.active = ~@]
    <3>1. PICK late \in BOOLEAN : half' = [half EXCEPT ![h] = Listen(w, "idle", ~x.active, late)]
      BY <2>1 DEF ActivityChanges, Update
    <3>2. w.active = ~x.active BY <1>1 DEF Half
    <3>3. w = IF "idle" = "idle" THEN [x EXCEPT !.active = ~@] ELSE [x EXCEPT !.powered = ~@]
      OBVIOUS
    <3> HIDE DEF w
    <3>4. Kept(x, Listen(w, "idle", w.active, late)) BY <1>1, <3>3, ListenDoes
    <3> QED BY <1>1, <3>1, <3>2, <3>4 DEF Kept
  <2>2. CASE PowerChanges(h)
    <3> DEFINE w == [x EXCEPT !.powered = ~@]
    <3>1. PICK late \in BOOLEAN : half' = [half EXCEPT ![h] = Listen(w, "usb", x.active, late)]
      BY <2>2 DEF PowerChanges, Update
    <3>2. w.active = x.active BY <1>1 DEF Half
    <3>3. w = IF "usb" = "idle" THEN [x EXCEPT !.active = ~@] ELSE [x EXCEPT !.powered = ~@]
      OBVIOUS
    <3> HIDE DEF w
    <3>4. Kept(x, Listen(w, "usb", w.active, late)) BY <1>1, <3>3, ListenDoes
    <3> QED BY <1>1, <3>1, <3>2, <3>4 DEF Kept
  <2> QED BY <2>1, <2>2
<1> QED BY <1>2, <1>3, EventStep

LEMMA LoadStep ==
    ASSUME LInv, NEW h \in Halves, LoadSettings(h)
    PROVE  LInv'
<1> DEFINE x == half[h]
           y == LightsLoaded(x)
<1>1. half' = [half EXCEPT ![h] = y] BY DEF LoadSettings, Update, LightsLoaded
<1>2. ~x.loaded /\ wire' = wire /\ build' = build /\ last' = last BY DEF LoadSettings
<1>3. x \in Half /\ Good(build, x) BY DEF LInv
<1>4. y \in Half /\ Good(build, y) BY <1>2, <1>3, LoadedDoes
<1> HIDE DEF y
<1>5. /\ Halves' = Halves /\ half' \in [Halves' -> Half] /\ half'[h] = y
      /\ \A g \in Halves : g # h => half'[g] = half[g]
  BY <1>1, <1>2, <1>4, HalfStep
<1>6. \A g \in Halves : Good(build, half'[g]) BY <1>4, <1>5 DEF LInv
<1>7. ASSUME last # None PROVE LastDone(last, half', wire, build)
  <2>1. LastDone(last, half, wire, build) BY <1>7 DEF LInv
  <2>2. h # "central" BY <1>2, <2>1 DEF LastDone
  <2>3. half'["central"] = half["central"] BY <1>5, <2>2 DEF Halves
  <2>4. h = "peripheral" /\ build.split BY <2>2 DEF Halves
  <2>5. wire # <<>> BY <1>2, <2>1, <2>4 DEF LastDone
  <2> QED BY <2>1, <2>3, <2>5 DEF LastDone
<1> QED BY <1>2, <1>5, <1>6, <1>7 DEF LInv

LEMMA RestartStep ==
    ASSUME LInv, NEW h \in Halves, RestartHalf(h)
    PROVE  LInv'
<1> DEFINE y == Started(half[h].powered, half[h].flash)
<1>1. half[h].powered \in BOOLEAN /\ half[h].flash \in Flash /\ build \in Builds BY DEF LInv, Half
<1>2. y \in Half /\ Good(build, y) BY <1>1, StartedDoes
<1> HIDE DEF y
<1>3. half' = [half EXCEPT ![h] = y] /\ wire' = wire /\ build' = build /\ last' = None
  BY DEF RestartHalf, Update, y
<1> QED BY <1>2, <1>3, EventStep

LEMMA NextLInv == LInv /\ [LightsNext]_lights_vars => LInv'
<1> SUFFICES ASSUME LInv, [LightsNext]_lights_vars PROVE LInv' OBVIOUS
<1>0. \A h \in Halves : half[h] \in Half BY DEF LInv
<1>1. CASE PressLightKey BY <1>1, PressStep
<1>2. CASE Deliver BY <1>2, DeliverStep
<1>3. ASSUME NEW h \in Halves, ActivityChanges(h) \/ PowerChanges(h) PROVE LInv'
  BY <1>3, ListenStep
<1>4. ASSUME NEW h \in Halves, Tick(h) PROVE LInv'
  <2> DEFINE y == Submit(half[h], "tick")
  <2>1. /\ half[h].ug.on /\ half' = [half EXCEPT ![h] = y]
        /\ wire' = wire /\ build' = build /\ last' = last
    BY <1>4 DEF Tick, Update
  <2>2. Worked(half[h], y) BY <1>0, <2>1, TickDoes
  <2> HIDE DEF y
  <2> QED BY <2>1, <2>2, WorkStep
<1>5. ASSUME NEW h \in Halves, LowPriority(h) PROVE LInv'
  <2> DEFINE y == Drawn(half[h])
  <2>1. /\ half[h].work # <<>> /\ half' = [half EXCEPT ![h] = y]
        /\ wire' = wire /\ build' = build /\ last' = last
    BY <1>5 DEF LowPriority, Update, Drawn
  <2>2. Worked(half[h], y) BY <1>0, <2>1, DrawnDoes
  <2> HIDE DEF y
  <2> QED BY <2>1, <2>2, WorkStep
<1>6. ASSUME NEW h \in Halves, SaveBacklight(h) PROVE LInv'
  <2> DEFINE y == SavedBl(half[h])
  <2>1. /\ "bl" \in half[h].pending /\ half' = [half EXCEPT ![h] = y]
        /\ wire' = wire /\ build' = build /\ last' = last
    BY <1>6 DEF SaveBacklight, Update, SavedBl
  <2>2. Worked(half[h], y) BY <1>0, <2>1, SavesDo
  <2> HIDE DEF y
  <2> QED BY <2>1, <2>2, WorkStep
<1>7. ASSUME NEW h \in Halves, SaveUnderglowWork(h) PROVE LInv'
  <2> DEFINE y == SavedUg(half[h])
  <2>1. /\ "ug" \in half[h].pending /\ half' = [half EXCEPT ![h] = y]
        /\ wire' = wire /\ build' = build /\ last' = last
    BY <1>7 DEF SaveUnderglowWork, Update, SavedUg
  <2>2. Worked(half[h], y) BY <1>0, <2>1, SavesDo
  <2> HIDE DEF y
  <2> QED BY <2>1, <2>2, WorkStep
<1>8. ASSUME NEW h \in Halves, SaveExt(h) PROVE LInv'
  <2> DEFINE y == SavedExt(half[h])
  <2>1. /\ half' = [half EXCEPT ![h] = y]
        /\ wire' = wire /\ build' = build /\ last' = last
    BY <1>8 DEF SaveExt, Update, SavedExt
  <2>2. Worked(half[h], y) BY <1>0, SavesDo
  <2> HIDE DEF y
  <2> QED BY <2>1, <2>2, WorkStep
<1>9. ASSUME NEW h \in Halves, RestartHalf(h) PROVE LInv' BY <1>9, RestartStep
<1>10. ASSUME NEW h \in Halves, LoadSettings(h) PROVE LInv' BY <1>10, LoadStep
<1>11. CASE UNCHANGED lights_vars
  <2>1. half' = half /\ wire' = wire /\ build' = build /\ last' = last BY <1>11 DEF lights_vars
  <2> QED BY <2>1 DEF LInv, Halves, Good, LastDone
<1> QED BY <1>1, <1>2, <1>3, <1>4, <1>5, <1>6, <1>7, <1>8, <1>9, <1>10, <1>11 DEF LightsNext

LEMMA LInvAlways == LightsSpec => []LInv
<1> QED BY InitLInv, NextLInv, PTL DEF LightsSpec

-----------------------------------------------------------------------------
(* What the lights promise.                                                  *)

LEMMA LInvTypes == LInv => LightsTypeOK
<1> SUFFICES ASSUME LInv, NEW h \in Halves
             PROVE  /\ half[h].bl.brt \in 0 .. BrtMax /\ half[h].ug.effect \in 0 .. (Effects - 1)
                    /\ half[h].ug.speed \in 1 .. SpeedMax
                    /\ Pixel(half[h].ug)[1] \in 0 .. HueMax /\ Pixel(half[h].ug)[2] \in 0 .. BrtMax
  BY DEF LightsTypeOK
<1> DEFINE u == half[h].ug
<1>1. half[h] \in Half BY DEF LInv
<1>2. half[h].bl.brt \in 0 .. BrtMax /\ u \in Underglow BY <1>1 DEF Half, Backlight
<1> HIDE DEF u
<1>3. /\ u.effect \in 0 .. 3 /\ u.speed \in 1 .. SpeedMax /\ u.step \in Nat /\ StepFits(u)
      /\ u.color.h \in 0 .. HueMax /\ u.color.b \in 0 .. BrtMax
      /\ BrtMax \in Nat /\ HueMax \in Nat
  BY <1>2, Bounded DEF Underglow, AnyUnderglow, Color
<1>4. Pixel(u)[1] \in 0 .. HueMax /\ Pixel(u)[2] \in 0 .. BrtMax
  <2>1. CASE u.effect = 0 BY <1>3, <2>1 DEF Pixel
  <2>2. CASE u.effect = 1
    <3> DEFINE p == IF u.step > BrtMax THEN u.step - BrtMax ELSE BrtMax - u.step
    <3>1. p \in 0 .. BrtMax BY <1>3, <2>2 DEF StepFits
    <3>2. Pixel(u) = <<u.color.h, p>> BY <2>2 DEF Pixel
    <3> HIDE DEF p
    <3> QED BY <1>3, <3>1, <3>2
  <2>3. CASE u.effect \in {2, 3}
    <3>1. u.step \in 0 .. HueMax BY <1>3, <2>3 DEF StepFits
    <3>2. Pixel(u) = <<u.step, u.color.b>> BY <2>3 DEF Pixel
    <3> QED BY <1>3, <3>1, <3>2
  <2> QED BY <1>3, <2>1, <2>2, <2>3
<1>5. u.effect \in 0 .. (Effects - 1) BY <1>3 DEF Effects
<1> QED BY <1>2, <1>3, <1>4, <1>5 DEF u

LEMMA LInvAgrees == LInv => HalvesAgree
<1> SUFFICES ASSUME LInv, build.split, wire = <<>>, last # None
             PROVE  LET c == half["central"]
                        p == half["peripheral"]
                    IN  CASE last[1] = "bl" /\ last[2] \in {"on", "off"} -> c.bl.on = p.bl.on
                          [] last[1] = "bl" /\ last[2] \notin {"on", "off"} -> c.bl = p.bl
                          [] last[1] = "ug" /\ last[2] \in {"on", "off"} -> c.ug.on = p.ug.on
                          [] last[1] = "ug" /\ last[2] = "efs" /\ last[3] < Effects ->
                                 c.ug.effect = p.ug.effect
                          [] last[1] = "ext" -> c.ext = p.ext
                          [] OTHER -> TRUE
  BY DEF HalvesAgree
<1> DEFINE c == half["central"]
           p == half["peripheral"]
<1>1. last \in Sent /\ Did(last, c) /\ Did(last, p) BY DEF LInv, LastDone
<1>2. last[1] = "bl" => last[2] \in {"on", "off", "set"} BY <1>1 DEF Sent
<1> HIDE DEF c, p
<1>3. /\ last[1] = "bl" /\ last[2] \in {"on", "off"} => c.bl.on = p.bl.on
      /\ last[1] = "bl" /\ last[2] \notin {"on", "off"} => c.bl = p.bl
      /\ last[1] = "ug" /\ last[2] \in {"on", "off"} => c.ug.on = p.ug.on
      /\ last[1] = "ug" /\ last[2] = "efs" /\ last[3] < Effects => c.ug.effect = p.ug.effect
      /\ last[1] = "ext" => c.ext = p.ext
  BY <1>1, <1>2 DEF Did
<1> QED BY <1>3 DEF c, p

(* On every half, whatever behaviors, activity, USB power, restarts and saves
   come in whatever order: what is drawn exists, an underglow that is off is dark,
   the LED shows the backlight, changes are saved, and after a behavior has reached
   the peripheral the halves agree (backlight.c, rgb_underglow.c,
   ext_power_generic.c). *)
THEOREM LightsAlwaysFollow == LightsSpec => []LightsFollow
<1>1. LInv => OffIsDark
  <2> SUFFICES ASSUME LInv, NEW h \in Halves, half[h].work = <<>>, ~half[h].ug.on, ~half[h].raced
               PROVE  ~half[h].lit
    BY DEF OffIsDark
  <2> QED BY DEF LInv, Good, Dark
<1>2. LInv => LedFollows
  <2> SUFFICES ASSUME LInv, "usb" \in build.bl, NEW h \in Halves
               PROVE  half[h].led = IF half[h].powered THEN GetBrt(half[h]) ELSE 0
    BY DEF LedFollows
  <2> QED BY DEF LInv, Good, Shows, GetBrt
<1>3. LInv => ChangesSaved
  <2> SUFFICES ASSUME LInv, build.bl = {}, build.ug = {}, NEW h \in Halves, half[h].loaded
               PROVE  LET x == half[h]
                      IN  /\ \/ x.flash.bl = x.bl
                             \/ "bl" \in x.pending
                             \/ x.flash.bl = None /\ x.bl = StartBacklight(TRUE)
                          /\ \/ "ug" \in x.pending
                             \/ IF x.flash.ug = None
                                THEN Chosen(x.ug) = Chosen(StartUnderglow(TRUE))
                                ELSE Chosen(x.flash.ug) = Chosen(x.ug)
                          /\ x.flash.ext = x.ext \/ "ext" \in x.pending
    BY DEF ChangesSaved
  <2>1. StartBacklight(TRUE) = StartBl(build) /\ Chosen(StartUnderglow(TRUE)) = StartUg(build)
    BY StartIsTyped DEF LInv
  <2>2. Saved(build, half[h]) BY DEF LInv, Good
  <2> QED BY <2>1, <2>2 DEF Saved
<1>4. LInv => LightsFollow BY <1>1, <1>2, <1>3, LInvTypes, LInvAgrees DEF LightsFollow
<1> QED BY <1>4, LInvAlways, PTL

(* Whatever the options but that of the idle backlight, a keyboard that wakes up
   switches its backlight on only if it was on when it went idle
   (backlight_auto_state, backlight.c). *)
THEOREM WakingRestores == LightsSpec => WakeRestores
<1> DEFINE c == half["central"]
           A == build.bl = {"idle"} /\ ~build.split /\ half'["central"].loaded
                /\ ~half["central"].active /\ half'["central"].active
                /\ half'["central"].bl.on /\ ~half["central"].bl.on => half["central"].blPrev
<1>1. LInv /\ [LightsNext]_lights_vars => [A]_lights_vars
  <2> SUFFICES ASSUME LInv, LightsNext, build.bl = {"idle"}, ~build.split,
                      half'["central"].loaded, ~c.active, half'["central"].active,
                      half'["central"].bl.on, ~c.bl.on
               PROVE  c.blPrev
    OBVIOUS
  <2>1. Halves = {"central"} /\ wire = <<>> /\ half \in [Halves -> Half] /\ c \in Half
    BY DEF LInv, Halves
  <2>2. CASE PressLightKey BY <2>2 DEF PressLightKey
  <2>3. CASE Deliver BY <2>1, <2>3 DEF Deliver
  <2>4. CASE ActivityChanges("central")
    <3> DEFINE w == [c EXCEPT !.active = ~@]
    <3>1. PICK late \in BOOLEAN :
              half' = [half EXCEPT !["central"] = Listen(w, "idle", ~c.active, late)]
      BY <2>4 DEF ActivityChanges, Update
    <3>2. w.active = ~c.active /\ w.bl = c.bl /\ w.blPrev = c.blPrev BY <2>1 DEF Half
    <3>3. c.loaded BY <2>4 DEF ActivityChanges
    <3>4. w = IF "idle" = "idle" THEN [c EXCEPT !.active = ~@] ELSE [c EXCEPT !.powered = ~@]
      OBVIOUS
    <3>5. w \in Half BY <2>1 DEF Half
    <3> HIDE DEF w
    <3>6. Heard(w, "idle", Listen(w, "idle", w.active, late)) BY <2>1, <3>3, <3>4, ListenDoes
    <3>7. half'["central"].bl = BacklightListener(w, "idle", w.active).bl
      BY <2>1, <3>1, <3>2, <3>6 DEF Heard
    <3>8. BacklightListener(w, "idle", w.active) = BacklightAuto(w, w.active)
      BY DEF BacklightListener
    <3> DEFINE on == w.active /\ w.blPrev
    <3>9. w.active = TRUE /\ w.bl.on = FALSE BY <2>1, <3>2, <3>5 DEF Half, Backlight
    <3>10. BacklightAuto(w, w.active) = UpdateBacklight([w EXCEPT !.bl.on = on, !.blPrev = ~w.active])
      BY <3>9 DEF BacklightAuto
    <3>11. on = c.blPrev BY <2>1, <3>2, <3>9 DEF Half
    <3> HIDE DEF on
    <3>12. UpdateBacklight([w EXCEPT !.bl.on = on, !.blPrev = ~w.active]).bl.on = on
      BY <3>5 DEF UpdateBacklight, Half, Backlight
    <3> QED BY <3>7, <3>8, <3>10, <3>11, <3>12
  <2>5. CASE PowerChanges("central")
    <3> DEFINE w == [c EXCEPT !.powered = ~@]
    <3>1. PICK late \in BOOLEAN :
              half' = [half EXCEPT !["central"] = Listen(w, "usb", c.active, late)]
      BY <2>5 DEF PowerChanges, Update
    <3>2. w.active = c.active BY <2>1 DEF Half
    <3>3. c.loaded BY <2>5 DEF PowerChanges
    <3>4. w = IF "usb" = "idle" THEN [c EXCEPT !.active = ~@] ELSE [c EXCEPT !.powered = ~@]
      OBVIOUS
    <3> HIDE DEF w
    <3>5. Heard(w, "usb", Listen(w, "usb", w.active, late)) BY <2>1, <3>3, <3>4, ListenDoes
    <3> QED BY <2>1, <3>1, <3>2, <3>5 DEF Heard
  <2>6. ASSUME NEW y, Worked(c, y), half' = [half EXCEPT !["central"] = y] PROVE FALSE
    BY <2>1, <2>6 DEF Worked, Same
  <2>7. CASE Tick("central") BY <2>1, <2>6, <2>7, TickDoes DEF Tick, Update
  <2>8. CASE LowPriority("central") BY <2>1, <2>6, <2>8, DrawnDoes DEF LowPriority, Update, Drawn
  <2>9. CASE SaveBacklight("central") BY <2>1, <2>6, <2>9, SavesDo DEF SaveBacklight, Update, SavedBl
  <2>10. CASE SaveUnderglowWork("central")
    BY <2>1, <2>6, <2>10, SavesDo DEF SaveUnderglowWork, Update, SavedUg
  <2>11. CASE SaveExt("central") BY <2>1, <2>6, <2>11, SavesDo DEF SaveExt, Update, SavedExt
  <2>12. CASE RestartHalf("central")
    <3> DEFINE y == Started(c.powered, c.flash)
    <3>1. c.powered \in BOOLEAN /\ c.flash \in Flash /\ build \in Builds BY <2>1 DEF LInv, Half
    <3>2. y.loaded = FALSE BY <3>1, StartedDoes
    <3> HIDE DEF y
    <3>3. half' = [half EXCEPT !["central"] = y] BY <2>12 DEF RestartHalf, Update, y
    <3> QED BY <2>1, <3>2, <3>3
  <2>13. CASE LoadSettings("central")
    <3>1. LightsLoaded(c).active = c.active BY <2>1, <2>13, LoadedDoes DEF LInv, LoadSettings
    <3>2. half' = [half EXCEPT !["central"] = LightsLoaded(c)] BY <2>13 DEF LoadSettings, Update, LightsLoaded
    <3> QED BY <2>1, <3>1, <3>2
  <2> QED BY <2>1, <2>2, <2>3, <2>4, <2>5, <2>7, <2>8, <2>9, <2>10, <2>11, <2>12, <2>13 DEF LightsNext
<1>2. LightsSpec => [][A]_lights_vars BY <1>1, LInvAlways, PTL DEF LightsSpec
<1> QED BY <1>2 DEF WakeRestores
=============================================================================
