------------------------------ MODULE GecosProofs ------------------------------
(***************************************************************************)
(* What gecos_parse() and gecos_assemble() do to each other, for any       *)
(* string: assembling and parsing again gives the same fields, and what    *)
(* follows the fourth comma but for commas at its end.                     *)
(***************************************************************************)
EXTENDS Gecos, WellFoundedInduction, TLAPS

\* A set of numbers with a bound has a maximum.  (The numbers by which its
\* elements miss the bound have a minimum.)
LEMMA MaxIsMaximum ==
    ASSUME NEW S \in SUBSET Nat, S # {}, NEW n \in Nat, \A s \in S : s <= n
    PROVE  Max(S) \in S /\ \A s \in S : s <= Max(S)
  <1> DEFINE T == {n - s : s \in S}
  <1>1. T \subseteq Nat /\ T # {}
    <2>1. \A s \in S : n - s \in Nat
      OBVIOUS
    <2> QED
      BY <2>1
  <1>2. PICK x \in T : \A y \in T : ~(<<y, x>> \in OpToRel(<, Nat))
    <2> HIDE DEF T
    <2> QED
      BY <1>1, WFMin, NatLessThanWellFounded
  <1>3. \A y \in T : x <= y
    <2> SUFFICES ASSUME NEW y \in T PROVE x <= y
      OBVIOUS
    <2>1. x \in Nat /\ y \in Nat
      BY <1>1
    <2>2. ~(<<y, x>> \in OpToRel(<, Nat))
      BY <1>2
    <2>3. ~(y < x)
      BY <2>1, <2>2 DEF OpToRel
    <2> QED
      BY <2>1, <2>3
  <1>4. PICK m \in S : x = n - m
    OBVIOUS
  <1>5. \A s \in S : m >= s
    BY <1>3, <1>4
  <1>6. Max(S) \in S /\ \A s \in S : Max(S) >= s
    BY <1>5 DEF Max
  <1> QED
    BY <1>6

\* What is stripped is the part behind m, all of it empty, and the element at
\* m is not.
LastText(g) == Max({0} \cup {i \in DOMAIN g : g[i] # ""})

LEMMA LastTextIs ==
    ASSUME NEW g \in Seq(Texts)
    PROVE  /\ LastText(g) \in 0..Len(g)
           /\ \A i \in 1..Len(g) : i > LastText(g) => g[i] = ""
           /\ LastText(g) # 0 => g[LastText(g)] # ""
  <1> DEFINE S == {0} \cup {i \in DOMAIN g : g[i] # ""}
  <1>1. DOMAIN g = 1..Len(g) /\ Len(g) \in Nat
    OBVIOUS
  <1>2. \A s \in S : s \in Nat /\ s <= Len(g)
    <2>1. \A s \in S : s = 0 \/ s \in 1..Len(g)
      BY <1>1
    <2> HIDE DEF S
    <2> QED
      BY <1>1, <2>1
  <1>3. Max(S) \in S /\ \A s \in S : s <= Max(S)
    <2>1. 0 \in S
      OBVIOUS
    <2> HIDE DEF S
    <2>2. S \in SUBSET Nat /\ S # {}
      BY <1>2, <2>1
    <2> QED
      BY <1>1, <1>2, <2>2, MaxIsMaximum
  <1>4. PICK m \in Nat : /\ m = LastText(g) /\ m <= Len(g) /\ m \in S
                         /\ \A s \in S : s <= m
    <2>1. LastText(g) = Max(S)
      BY DEF LastText
    <2> HIDE DEF S
    <2> QED
      BY <1>2, <1>3, <2>1
  <1>5. ASSUME NEW i \in 1..Len(g), i > m
        PROVE  g[i] = ""
    <2>1. i \notin S
      <3> HIDE DEF S
      <3> QED
        BY <1>1, <1>4, <1>5
    <2> QED
      BY <1>1, <1>5, <2>1
  <1>6. m # 0 => g[m] # ""
    BY <1>4
  <1>7. m \in 0..Len(g)
    <2>1. m <= Len(g) /\ Len(g) \in Nat
      BY <1>1, <1>4
    <2> QED
      BY <2>1
  <1> QED
    BY <1>4, <1>5, <1>6, <1>7

LEMMA StrippedIs ==
    ASSUME NEW g \in Seq(Texts)
    PROVE  /\ Stripped(g) = SubSeq(g, 1, LastText(g))
           /\ Stripped(g) \in Seq(Texts)
           /\ Len(Stripped(g)) = LastText(g)
           /\ \A i \in 1..LastText(g) : Stripped(g)[i] = g[i]
  <1>1. Stripped(g) = SubSeq(g, 1, LastText(g))
    BY DEF Stripped, LastText
  <1>2. LastText(g) \in 0..Len(g)
    BY LastTextIs
  <1> QED
    BY <1>1, <1>2

-----------------------------------------------------------------------------
(* The fields by number.                                                   *)

LEMMA FieldNumbers ==
    /\ \A i \in 1..4 : FieldNames[i] \in Fields /\ FieldNumber(FieldNames[i]) = i
    /\ \A f \in Fields : FieldNumber(f) \in 1..4 /\ FieldNames[FieldNumber(f)] = f
  <1>1. \A i, j \in 1..4 : FieldNames[i] = FieldNames[j] => i = j
    BY DEF FieldNames
  <1>2. \A i \in 1..4 : FieldNumber(FieldNames[i]) = i
    BY <1>1 DEF FieldNumber
  <1> QED
    BY <1>2 DEF Fields

LEMMA TextOfType ==
    ASSUME NEW t \in Texts \cup {NoText}
    PROVE  TextOf(t) \in Texts
  BY TextsAssumption DEF TextOf

LEMMA ParseType ==
    ASSUME NEW g \in Seq(Texts)
    PROVE  GecosParse(g) \in GecosData
  <1>1. SubSeq(g, 5, Len(g)) \in Seq(Texts)
    OBVIOUS
  <1>2. [f \in Fields |-> IF FieldNumber(f) \in DOMAIN g
                          THEN g[FieldNumber(f)] ELSE NoText]
           \in [Fields -> Texts \cup {NoText}]
    OBVIOUS
  <1> QED
    BY <1>1, <1>2 DEF GecosParse, GecosData

\* The string before its terminal commas are stripped off.
Joined(p) == [i \in 1..4 |-> TextOf(p.fields[FieldNames[i]])] \o p.site_info

\* Some texts before others.
LEMMA AfterThese ==
    ASSUME NEW these \in Seq(Texts), NEW n \in Nat, n = Len(these),
           NEW site \in Seq(Texts)
    PROVE  /\ these \o site \in Seq(Texts)
           /\ Len(these \o site) = n + Len(site)
           /\ \A i \in 1..n : (these \o site)[i] = these[i]
           /\ \A i \in 1..Len(site) : (these \o site)[n + i] = site[i]
  <1>1. these \o site \in Seq(Texts) /\ Len(these \o site) = n + Len(site)
    OBVIOUS
  <1>2. ASSUME NEW i \in 1..n
        PROVE  (these \o site)[i] = these[i]
    OBVIOUS
  <1>3. ASSUME NEW i \in 1..Len(site)
        PROVE  (these \o site)[n + i] = site[i]
    OBVIOUS
  <1> QED
    BY <1>1, <1>2, <1>3

LEMMA JoinedIs ==
    ASSUME NEW p \in GecosData
    PROVE  /\ Joined(p) \in Seq(Texts)
           /\ Len(Joined(p)) = 4 + Len(p.site_info)
           /\ \A i \in 1..4 : Joined(p)[i] = TextOf(p.fields[FieldNames[i]])
           /\ \A i \in 1..Len(p.site_info) : Joined(p)[4 + i] = p.site_info[i]
  <1> DEFINE four == [i \in 1..4 |-> TextOf(p.fields[FieldNames[i]])]
  <1>1. \A i \in 1..4 : TextOf(p.fields[FieldNames[i]]) \in Texts
    BY FieldNumbers, TextOfType DEF GecosData
  <1>2. four \in Seq(Texts) /\ Len(four) = 4
    BY <1>1
  <1>3. p.site_info \in Seq(Texts)
    BY DEF GecosData
  <1>4. \A i \in 1..4 : four[i] = TextOf(p.fields[FieldNames[i]])
    OBVIOUS
  <1>5. Joined(p) = four \o p.site_info
    BY DEF Joined
  <1> HIDE DEF four
  <1>6. PICK n \in Nat : n = 4
    OBVIOUS
  <1>7. n = Len(four)
    BY <1>2, <1>6
  <1>8. /\ Joined(p) \in Seq(Texts)
        /\ Len(Joined(p)) = n + Len(p.site_info)
        /\ \A i \in 1..n : Joined(p)[i] = four[i]
        /\ \A i \in 1..Len(p.site_info) : Joined(p)[n + i] = p.site_info[i]
    <2>1. four \in Seq(Texts)
      BY <1>2
    <2> QED
      BY <1>3, <1>5, <1>7, <2>1, AfterThese
  <1> QED
    BY <1>4, <1>6, <1>8

LEMMA AssembleType ==
    ASSUME NEW p \in GecosData
    PROVE  GecosAssemble(p) = Stripped(Joined(p)) /\ GecosAssemble(p) \in Seq(Texts)
  BY JoinedIs, StrippedIs DEF GecosAssemble, Joined

\* Parsing what was assembled gives the fields, an empty one for none.
THEOREM FieldsSurvive ==
    ASSUME NEW p \in GecosData, NEW f \in Fields
    PROVE  TextOf(GecosParse(GecosAssemble(p)).fields[f]) = TextOf(p.fields[f])
  <1>1. PICK i \in 1..4 : i = FieldNumber(f) /\ FieldNames[i] = f
    BY FieldNumbers
  <1>2. PICK j \in Seq(Texts) : /\ j = Joined(p) /\ Len(j) >= 4
                                /\ j[i] = TextOf(p.fields[f])
    <2>1. Len(p.site_info) \in Nat
      BY DEF GecosData
    <2>2. Len(Joined(p)) >= 4
      BY <2>1, JoinedIs
    <2> QED
      BY <1>1, <2>2, JoinedIs
  <1>3. PICK m \in 0..Len(j) :
            /\ m = LastText(j)
            /\ \A k \in 1..Len(j) : k > m => j[k] = ""
    BY LastTextIs
  <1>4. PICK g \in Seq(Texts) : /\ g = GecosAssemble(p) /\ Len(g) = m
                                /\ \A k \in 1..m : g[k] = j[k]
    BY <1>2, <1>3, StrippedIs, AssembleType
  <1>5. GecosParse(g).fields[f] = IF i \in 1..m THEN g[i] ELSE NoText
    BY <1>1, <1>4 DEF GecosParse
  <1>6. i \in 1..Len(j)
    BY <1>2
  <1>7. CASE i \in 1..m
    <2>1. GecosParse(g).fields[f] = j[i]
      BY <1>4, <1>5, <1>7
    <2>2. j[i] # NoText
      BY <1>6, NoTextAssumption
    <2> QED
      BY <1>2, <1>4, <2>1, <2>2 DEF TextOf
  <1>8. CASE i \notin 1..m
    <2>1. i > m
      BY <1>8
    <2>2. j[i] = ""
      BY <1>3, <1>6, <2>1
    <2>3. GecosParse(g).fields[f] = NoText
      BY <1>5, <1>8
    <2> QED
      BY <1>2, <1>4, <2>2, <2>3 DEF TextOf
  <1> QED
    BY <1>7, <1>8

\* What ends after the fields ends where the rest does.
LEMMA LastTextAfterFour ==
    ASSUME NEW j \in Seq(Texts), NEW s \in Seq(Texts), Len(j) = 4 + Len(s),
           \A i \in 1..Len(s) : j[4 + i] = s[i]
    PROVE  IF LastText(s) # 0 THEN LastText(j) = 4 + LastText(s)
           ELSE LastText(j) <= 4
  <1>1. PICK n \in Nat : n = Len(s) /\ Len(j) = 4 + n
    OBVIOUS
  <1>2. PICK m \in 0..n : /\ m = LastText(s) /\ (m # 0 => s[m] # "")
                          /\ \A i \in 1..n : i > m => s[i] = ""
    BY <1>1, LastTextIs
  <1>3. PICK k \in 0..4 + n : /\ k = LastText(j) /\ (k # 0 => j[k] # "")
                              /\ \A i \in 1..4 + n : i > k => j[i] = ""
    BY <1>1, LastTextIs
  <1>4. ASSUME k > 4
        PROVE  m >= k - 4
    <2>1. k - 4 \in 1..n
      BY <1>4
    <2>2. j[4 + (k - 4)] = s[k - 4]
      BY <1>1, <2>1
    <2>3. 4 + (k - 4) = k
      OBVIOUS
    <2>4. k # 0
      BY <1>4
    <2>5. s[k - 4] # ""
      BY <1>3, <2>2, <2>3, <2>4
    <2>6. ~(k - 4 > m)
      BY <1>2, <2>1, <2>5
    <2> QED
      BY <2>1, <2>6
  <1>5. ASSUME m # 0
        PROVE  k >= 4 + m
    <2>1. m \in 1..n /\ 4 + m \in 1..4 + n
      BY <1>5
    <2>2. j[4 + m] # ""
      BY <1>1, <1>2, <1>5, <2>1
    <2>3. ~(4 + m > k)
      BY <1>3, <2>1, <2>2
    <2> QED
      BY <2>1, <2>3
  <1>6. IF m # 0 THEN k = 4 + m ELSE k <= 4
    BY <1>4, <1>5
  <1> QED
    BY <1>2, <1>3, <1>6

\* What follows the fields is kept but for commas at its end.
THEOREM SiteInfoSurvives ==
    ASSUME NEW p \in GecosData
    PROVE  GecosParse(GecosAssemble(p)).site_info = Stripped(p.site_info)
  <1>1. PICK s \in Seq(Texts) : s = p.site_info
    BY DEF GecosData
  <1>2. PICK j \in Seq(Texts) : /\ j = Joined(p) /\ Len(j) = 4 + Len(s)
                                /\ \A i \in 1..Len(s) : j[4 + i] = s[i]
    BY <1>1, JoinedIs
  <1>3. PICK m \in 0..Len(s) : m = LastText(s) /\ Stripped(s) = SubSeq(s, 1, m)
    BY StrippedIs, LastTextIs
  <1>4. PICK k \in 0..Len(j) : /\ k = LastText(j) /\ Stripped(j) = SubSeq(j, 1, k)
                               /\ Len(Stripped(j)) = k
    BY StrippedIs, LastTextIs
  <1>5. GecosParse(GecosAssemble(p)).site_info = SubSeq(SubSeq(j, 1, k), 5, k)
    BY <1>2, <1>4, AssembleType DEF GecosParse
  <1>6. IF m # 0 THEN k = 4 + m ELSE k <= 4
    BY <1>2, <1>3, <1>4, LastTextAfterFour
  <1>7. PICK n \in Nat : n = Len(s) /\ Len(j) = 4 + n
    BY <1>2
  <1>8. CASE m # 0
    <2> DEFINE t == SubSeq(SubSeq(j, 1, k), 5, k)
               u == SubSeq(s, 1, m)
    <2>1. k = 4 + m /\ m \in 1..n
      BY <1>6, <1>7, <1>8
    <2>2. SubSeq(j, 1, k) \in Seq(Texts) /\ Len(SubSeq(j, 1, k)) = 4 + m
          /\ \A i \in 1..4 + m : SubSeq(j, 1, k)[i] = j[i]
      BY <1>7, <2>1
    <2>3. u \in Seq(Texts) /\ Len(u) = m /\ \A i \in 1..m : u[i] = s[i]
      BY <1>7, <2>1
    <2>4. t \in Seq(Texts) /\ Len(t) = m
          /\ \A i \in 1..m : t[i] = SubSeq(j, 1, k)[4 + i]
      BY <2>1, <2>2
    <2>5. \A i \in 1..m : t[i] = u[i]
      BY <1>2, <1>7, <2>1, <2>2, <2>3, <2>4
    <2>6. t = u
      <3> HIDE DEF t, u
      <3> QED
        BY <2>1, <2>3, <2>4, <2>5
    <2> QED
      BY <1>1, <1>3, <1>5, <2>6
  <1>9. CASE m = 0
    <2>1. SubSeq(j, 1, k) \in Seq(Texts) /\ k \in Nat /\ k <= 4
      BY <1>6, <1>7, <1>9
    <2>2. SubSeq(SubSeq(j, 1, k), 5, k) = <<>>
      BY <2>1
    <2>3. SubSeq(s, 1, m) = <<>>
      BY <1>9
    <2> QED
      BY <1>1, <1>3, <1>5, <2>2, <2>3
  <1> QED
    BY <1>8, <1>9
=============================================================================
