------------------------------ MODULE ShvarProofs ------------------------------
(***************************************************************************)
(* Proofs about Shvar, for any variables, values, files, parents and       *)
(* included files.                                                         *)
(***************************************************************************)
EXTENDS Shvar, WellFoundedInduction, TLAPS

-----------------------------------------------------------------------------
(* UnmodifiedIsSaved.                                                      *)

\* A file is rewritten only when it was modified, and stays marked so.
Marked == phase = "writing" => modified

LEMMA SetMarks ==
    ASSUME NEW k, NEW v, SetTo(k, v) \/ Unset(k)
    PROVE  modified' = TRUE \/ UNCHANGED <<lines, modified>>
  BY DEF SetTo, Unset, AddLine, DeleteLine, PutLine

LEMMA NextUnmodified ==
    UnmodifiedIsSaved /\ Marked /\ [Next]_vars => UnmodifiedIsSaved' /\ Marked'
  <1> SUFFICES ASSUME UnmodifiedIsSaved, Marked, [Next]_vars
               PROVE  UnmodifiedIsSaved' /\ Marked'
    OBVIOUS
  <1>1. CASE Open
    BY <1>1 DEF Open, UnmodifiedIsSaved, Marked
  <1>2. CASE Close \/ Killed
    BY <1>2 DEF Close, Killed, UnmodifiedIsSaved, Marked
  <1>3. ASSUME NEW k, NEW v, SetValue(k, v)
        PROVE  UnmodifiedIsSaved' /\ Marked'
    <2>1. modified' = TRUE \/ UNCHANGED <<lines, modified>>
      BY <1>3, SetMarks DEF SetValue
    <2>2. phase = "open" /\ phase' \in {"open", "crashed"} /\ UNCHANGED <<disk, tail>>
      BY <1>3 DEF SetValue
    <2> QED
      BY <2>1, <2>2 DEF UnmodifiedIsSaved, Marked
  <1>4. CASE Write
    BY <1>4 DEF Write, UnmodifiedIsSaved, Marked
  <1>5. CASE Written
    BY <1>5 DEF Written, UnmodifiedIsSaved, Marked
  <1>6. CASE UNCHANGED vars
    BY <1>6 DEF vars, UnmodifiedIsSaved, Marked
  <1> QED
    BY <1>1, <1>2, <1>3, <1>4, <1>5, <1>6 DEF Next

\* "Write the current contents iff modified" (svWriteFile()): what is not
\* marked as modified is what the file holds, through failed writes and kills.
THEOREM ShvarUnmodifiedIsSaved == Spec => []UnmodifiedIsSaved
  <1>1. Init => UnmodifiedIsSaved /\ Marked
    BY DEF Init, UnmodifiedIsSaved, Marked
  <1> QED
    BY <1>1, NextUnmodified, PTL DEF Spec

-----------------------------------------------------------------------------
(* OthersKept, for any lines.  (That what svInclude() reads is a sequence  *)
(* of lines rests on FlattenSeq, which is recursive, so that this is said  *)
(* of each step and not of Spec.)                                          *)

AnyLine(K, T) == [key : K, text : T]

LEMMA Least ==
    ASSUME NEW S \in SUBSET Nat, S # {}
    PROVE  Min(S) \in S /\ \A s \in S : Min(S) <= s
  <1>1. PICK x \in S : \A y \in S : ~(<<y, x>> \in OpToRel(<, Nat))
    BY WFMin, NatLessThanWellFounded
  <1>2. \A y \in S : x <= y
    <2> SUFFICES ASSUME NEW y \in S PROVE x <= y
      OBVIOUS
    <2>1. x \in Nat /\ y \in Nat /\ ~(y < x)
      BY <1>1 DEF OpToRel
    <2> QED
      BY <2>1
  <1> QED
    BY <1>2 DEF Min

\* The current line is the first of its variable, 0 if there is none.
LEMMA CurrentIs ==
    ASSUME NEW K, NEW T, NEW ls \in Seq(AnyLine(K, T)), NEW k
    PROVE  IF \A i \in 1..Len(ls) : ls[i].key # k
           THEN Current(ls, k) = 0
           ELSE /\ Current(ls, k) \in 1..Len(ls)
                /\ ls[Current(ls, k)].key = k
                /\ \A i \in 1..Len(ls) : ls[i].key = k => Current(ls, k) <= i
  <1> DEFINE M == {i \in DOMAIN ls : ls[i].key = k}
  <1>1. DOMAIN ls = 1..Len(ls) /\ Len(ls) \in Nat
    OBVIOUS
  <1>2. CASE M = {}
    BY <1>1, <1>2 DEF Current
  <1>3. CASE M # {}
    <2>1. Current(ls, k) = Min(M)
      BY <1>3 DEF Current
    <2>2. M \in SUBSET Nat
      BY <1>1
    <2>3. Min(M) \in M /\ \A i \in M : Min(M) <= i
      <3> HIDE DEF M
      <3> QED
        BY <1>3, <2>2, Least
    <2> QED
      BY <1>1, <1>3, <2>1, <2>3
  <1> QED
    BY <1>2, <1>3

\* Any line with this property is the current one.
LEMMA CurrentIsFirst ==
    ASSUME NEW K, NEW T, NEW ls \in Seq(AnyLine(K, T)), NEW k,
           NEW c \in 1..Len(ls), ls[c].key = k,
           \A i \in 1..Len(ls) : ls[i].key = k => c <= i
    PROVE  Current(ls, k) = c
  <1>1. /\ Current(ls, k) \in 1..Len(ls)
        /\ ls[Current(ls, k)].key = k
        /\ \A i \in 1..Len(ls) : ls[i].key = k => Current(ls, k) <= i
    BY CurrentIs
  <1>2. Current(ls, k) <= c /\ c <= Current(ls, k)
    BY <1>1
  <1> QED
    BY <1>1, <1>2

\* Two lists say the same of a variable if it has no line in either, or the
\* first one of each has the same text.
Agree(a, b, k) ==
    \/ Current(a, k) = 0 /\ Current(b, k) = 0
    \/ /\ Current(a, k) # 0 /\ Current(b, k) # 0
       /\ a[Current(a, k)].text = b[Current(b, k)].text

LEMMA AgreeingValues ==
    ASSUME NEW a, NEW b, NEW par, NEW k, Agree(a, b, k)
    PROVE  GetValue(a, par, k) = GetValue(b, par, k)
  BY DEF Agree, GetValue, Own

LEMMA AddKeeps ==
    ASSUME NEW K, NEW T, NEW ls \in Seq(AnyLine(K, T)),
           NEW k \in K, NEW t \in T, NEW o, o # k
    PROVE  Agree(Append(ls, Line(k, t)), ls, o)
  <1> DEFINE new == Append(ls, Line(k, t))
  <1>1. Line(k, t) \in AnyLine(K, T) /\ Line(k, t).key = k
    BY DEF Line, AnyLine
  <1>2. /\ new \in Seq(AnyLine(K, T)) /\ Len(new) = Len(ls) + 1 /\ Len(ls) \in Nat
        /\ \A i \in 1..Len(ls) : new[i] = ls[i]
        /\ new[Len(ls) + 1].key = k
    BY <1>1
  <1> HIDE DEF new
  <1>3. CASE \A i \in 1..Len(ls) : ls[i].key # o
    <2>1. \A i \in 1..Len(new) : new[i].key # o
      BY <1>2, <1>3
    <2>2. Current(new, o) = 0
      BY <1>2, <2>1, CurrentIs
    <2>3. Current(ls, o) = 0
      BY <1>3, CurrentIs
    <2> QED
      BY <2>2, <2>3 DEF Agree, new
  <1>4. CASE ~\A i \in 1..Len(ls) : ls[i].key # o
    <2>1. PICK c \in 1..Len(ls) :
             /\ c = Current(ls, o) /\ ls[c].key = o
             /\ \A i \in 1..Len(ls) : ls[i].key = o => c <= i
      BY <1>4, CurrentIs
    <2>2. /\ c \in 1..Len(new) /\ new[c] = ls[c] /\ new[c].key = o
          /\ \A i \in 1..Len(new) : new[i].key = o => c <= i
      BY <1>2, <2>1
    <2>3. Current(new, o) = c
      BY <1>2, <2>2, CurrentIsFirst
    <2> QED
      BY <2>1, <2>2, <2>3 DEF Agree, new
  <1> QED
    BY <1>3, <1>4

LEMMA PutKeeps ==
    ASSUME NEW K, NEW T, NEW ls \in Seq(AnyLine(K, T)),
           NEW t \in T, NEW n \in 1..Len(ls), NEW o, o # ls[n].key
    PROVE  Agree([ls EXCEPT ![n].text = t], ls, o)
  <1> DEFINE new == [ls EXCEPT ![n].text = t]
  <1>1. ls[n] \in AnyLine(K, T)
    OBVIOUS
  <1>2. ASSUME NEW r \in AnyLine(K, T)
        PROVE  /\ [r EXCEPT !.text = t] \in AnyLine(K, T)
               /\ [r EXCEPT !.text = t].key = r.key
    BY DEF AnyLine
  <1>3. new = [ls EXCEPT ![n] = [ls[n] EXCEPT !.text = t]]
    OBVIOUS
  <1>4. /\ new \in Seq(AnyLine(K, T)) /\ Len(new) = Len(ls)
        /\ \A i \in 1..Len(ls) : i # n => new[i] = ls[i]
        /\ new[n].key = ls[n].key
    <2>1. PICK r \in AnyLine(K, T) : /\ r = [ls[n] EXCEPT !.text = t]
                                     /\ r.key = ls[n].key
      BY <1>1, <1>2
    <2>2. new = [ls EXCEPT ![n] = r]
      BY <1>3, <2>1
    <2> QED
      BY <2>1, <2>2
  <1> HIDE DEF new
  <1>5. CASE \A i \in 1..Len(ls) : ls[i].key # o
    <2>1. \A i \in 1..Len(new) : new[i].key # o
      BY <1>4, <1>5
    <2>2. Current(new, o) = 0
      BY <1>4, <2>1, CurrentIs
    <2>3. Current(ls, o) = 0
      BY <1>5, CurrentIs
    <2> QED
      BY <2>2, <2>3 DEF Agree, new
  <1>6. CASE ~\A i \in 1..Len(ls) : ls[i].key # o
    <2>1. PICK c \in 1..Len(ls) :
             /\ c = Current(ls, o) /\ ls[c].key = o
             /\ \A i \in 1..Len(ls) : ls[i].key = o => c <= i
      BY <1>6, CurrentIs
    <2>2. /\ c \in 1..Len(new) /\ new[c] = ls[c] /\ new[c].key = o
          /\ \A i \in 1..Len(new) : new[i].key = o => c <= i
      BY <1>4, <2>1
    <2>3. Current(new, o) = c
      BY <1>4, <2>2, CurrentIsFirst
    <2> QED
      BY <2>1, <2>2, <2>3 DEF Agree, new
  <1> QED
    BY <1>5, <1>6

LEMMA DeleteKeeps ==
    ASSUME NEW K, NEW T, NEW ls \in Seq(AnyLine(K, T)),
           NEW n \in 1..Len(ls), NEW o, o # ls[n].key
    PROVE  Agree(RemoveAt(ls, n), ls, o)
  <1> DEFINE new == RemoveAt(ls, n)
  <1>1. /\ new \in Seq(AnyLine(K, T)) /\ Len(new) = Len(ls) - 1 /\ Len(ls) \in Nat
        /\ \A i \in 1..Len(ls) - 1 : new[i] = IF i < n THEN ls[i] ELSE ls[i + 1]
    <2> DEFINE a == SubSeq(ls, 1, n - 1)
               b == SubSeq(ls, n + 1, Len(ls))
    <2>1. /\ a \in Seq(AnyLine(K, T)) /\ Len(a) = n - 1
          /\ \A i \in 1..n - 1 : a[i] = ls[i]
      OBVIOUS
    <2>2. /\ b \in Seq(AnyLine(K, T)) /\ Len(b) = Len(ls) - n
          /\ \A i \in 1..Len(ls) - n : b[i] = ls[n + i]
      OBVIOUS
    <2>3. new = a \o b
      BY DEF RemoveAt
    <2> HIDE DEF a, b, new
    <2>4. new \in Seq(AnyLine(K, T)) /\ Len(new) = Len(ls) - 1 /\ Len(ls) \in Nat
      <3>1. Len(a \o b) = Len(a) + Len(b) /\ a \o b \in Seq(AnyLine(K, T))
        BY <2>1, <2>2
      <3>2. Len(ls) \in Nat /\ n \in Int
        OBVIOUS
      <3> QED
        BY <2>1, <2>2, <2>3, <3>1, <3>2
    <2>5. ASSUME NEW i \in 1..Len(ls) - 1
          PROVE  new[i] = IF i < n THEN ls[i] ELSE ls[i + 1]
      <3>1. CASE i < n
        BY <2>1, <2>2, <2>3, <3>1
      <3>2. CASE i >= n
        <4>1. i - (n - 1) \in 1..Len(ls) - n /\ n + (i - (n - 1)) = i + 1
          BY <3>2
        <4>2. new[i] = b[i - (n - 1)]
          BY <2>1, <2>2, <2>3, <3>2, <4>1
        <4> QED
          BY <2>2, <3>2, <4>1, <4>2
      <3> QED
        BY <3>1, <3>2
    <2> QED
      BY <2>4, <2>5
  <1> HIDE DEF new
  <1>2. CASE \A i \in 1..Len(ls) : ls[i].key # o
    <2>1. \A i \in 1..Len(new) : new[i].key # o
      BY <1>1, <1>2
    <2>2. Current(new, o) = 0
      BY <1>1, <2>1, CurrentIs
    <2>3. Current(ls, o) = 0
      BY <1>2, CurrentIs
    <2> QED
      BY <2>2, <2>3 DEF Agree, new
  <1>3. CASE ~\A i \in 1..Len(ls) : ls[i].key # o
    <2>1. PICK c \in 1..Len(ls) :
             /\ c = Current(ls, o) /\ ls[c].key = o
             /\ \A i \in 1..Len(ls) : ls[i].key = o => c <= i
      BY <1>3, CurrentIs
    <2>2. PICK d \in 1..Len(new) : d = IF c < n THEN c ELSE c - 1
      BY <1>1, <2>1
    <2>3. new[d] = ls[c] /\ new[d].key = o
      BY <1>1, <2>1, <2>2
    <2>4. ASSUME NEW i \in 1..Len(new), new[i].key = o
          PROVE  d <= i
      <3>1. CASE i < n
        <4>1. i \in 1..Len(ls) /\ ls[i].key = o
          BY <1>1, <2>4, <3>1
        <4> QED
          BY <2>1, <2>2, <3>1, <4>1
      <3>2. CASE i >= n
        <4>1. i + 1 \in 1..Len(ls) /\ ls[i + 1].key = o
          BY <1>1, <2>4, <3>2
        <4> QED
          BY <2>1, <2>2, <3>2, <4>1
      <3> QED
        BY <3>1, <3>2
    <2>5. Current(new, o) = d
      BY <1>1, <2>3, <2>4, CurrentIsFirst
    <2> QED
      BY <2>1, <2>3, <2>5 DEF Agree, new
  <1> QED
    BY <1>2, <1>3

\* Setting or unsetting one variable leaves the value of every other one alone,
\* in files of any length, with any duplicates and any parent (svSetValue()
\* finds, changes, deletes and adds lines through a pointer that is left on the
\* line it searched for last).
THEOREM SettingOneKeepsOthers ==
    ASSUME NEW K, NEW T, lines \in Seq(AnyLine(K, T)),
           NEW k \in K, NEW v, Escape(v) \in T, <<>> \in T,
           SetValue(k, v), NEW o, o # k
    PROVE  View(o)' = View(o)
  <1>1. parent' = parent
    BY DEF SetValue
  <1>2. CASE UNCHANGED lines
    BY <1>1, <1>2 DEF View
  <1>3. ASSUME NEW t \in T, AddLine(k, t)
        PROVE  View(o)' = View(o)
    BY <1>1, <1>3, AddKeeps, AgreeingValues DEF View, AddLine
  <1>4. Current(lines, k) # 0 =>
           /\ Current(lines, k) \in 1..Len(lines)
           /\ lines[Current(lines, k)].key = k
    BY CurrentIs
  <1>5. ASSUME NEW t \in T, PutLine(k, t)
        PROVE  View(o)' = View(o)
    <2>1. CASE Current(lines, k) = 0
      BY <1>3, <1>5, <2>1 DEF PutLine
    <2>2. CASE Current(lines, k) # 0
      <3>1. PICK n \in 1..Len(lines) : n = Current(lines, k) /\ lines[n].key = k
        BY <1>4, <2>2
      <3>2. lines' = [lines EXCEPT ![n].text = t]
        BY <1>5, <2>2, <3>1 DEF PutLine
      <3>3. Agree(lines', lines, o)
        BY <3>1, <3>2, PutKeeps
      <3> QED
        BY <1>1, <3>3, AgreeingValues DEF View
    <2> QED
      BY <2>1, <2>2
  <1>6. ASSUME DeleteLine(k), Current(lines, k) # 0
        PROVE  View(o)' = View(o)
    <2>1. PICK n \in 1..Len(lines) : n = Current(lines, k) /\ lines[n].key = k
      BY <1>4, <1>6
    <2>2. lines' = RemoveAt(lines, n)
      BY <1>6, <2>1 DEF DeleteLine
    <2>3. Agree(lines', lines, o)
      BY <2>1, <2>2, DeleteKeeps
    <2> QED
      BY <1>1, <2>3, AgreeingValues DEF View
  <1> DEFINE val1 == GetValue(lines, parent, k)
             val2 == IF parent = NoFile THEN NoText
                     ELSE GetValue(parent, NoFile, k)
  <1>7. Current(lines, k) = 0 => val1 = val2
    BY DEF GetValue
  <1>8. ASSUME DeleteLine(k), val1 # val2
        PROVE  View(o)' = View(o)
    BY <1>6, <1>7, <1>8
  <1>9. CASE Unset(k)
    <2>1. \/ PutLine(k, <<>>)
          \/ DeleteLine(k) /\ val1 # val2
          \/ UNCHANGED lines
      BY <1>9 DEF Unset
    <2> QED
      BY <1>2, <1>5, <1>8, <2>1
  <1>10. CASE SetTo(k, v)
    <2>1. \/ PutLine(k, Escape(v))
          \/ AddLine(k, Escape(v))
          \/ DeleteLine(k) /\ val1 # val2
          \/ UNCHANGED lines
      BY <1>10 DEF SetTo
    <2> QED
      BY <1>2, <1>3, <1>5, <1>8, <2>1
  <1> QED
    BY <1>2, <1>9, <1>10 DEF SetValue
=============================================================================
