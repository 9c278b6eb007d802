---------------------------- MODULE UsermountProofs ----------------------------
(***************************************************************************)
(* Proofs about Usermount, for any /etc/fstab, any devices and any number  *)
(* of interventions by other programs.                                     *)
(*                                                                         *)
(* ButtonsTruthful speaks of a window that the user can reach.  It has to  *)
(* be kept while a message is up as well, when the buttons are out of date *)
(* because of the command that caused it: Truthful.  And a row is formatted*)
(* because its button was truthful when it was pressed, which stays so     *)
(* only because nobody can reach the window meanwhile: Shielded.           *)
(***************************************************************************)
EXTENDS Usermount, WellFoundedInduction, TLAPS

Info == [mounted : BOOLEAN, writable : BOOLEAN]

Formatting == {"ask", "fdformat", "mkfs"}

\* The types the proofs need: the list has the listed entries, one of them or
\* none is selected, and none before there is a list.
Typed ==
    /\ fstab \in Fstabs
    /\ pc \in {"start", "window", "over"} \cup Formatting
    /\ box \in BOOLEAN /\ sensitive \in BOOLEAN /\ formatButton \in BOOLEAN
    /\ row \in Listed \cup {0}
    /\ pc = "start" => row = 0 /\ ~box
    /\ pc # "start" => infos \in [Listed -> Info]

\* What the list and the button say of the selected row is so, unless somebody
\* has acted since it was looked at.
Truthful ==
    row \notin raced \cup {0} => /\ infos[row].mounted = (row \in mounted)
                                 /\ formatButton => row \notin mounted

\* While something is formatted the user cannot reach the window, and nothing
\* is formatted or offered without a row.
Shielded ==
    /\ formatButton => row # 0
    /\ pc \in Formatting => ~box /\ row # 0 /\ (program = "usermount" => ~sensitive)

IInv == Typed /\ Truthful /\ Shielded /\ FormatsUnmounted

-----------------------------------------------------------------------------
(* The row that userformat finds.                                          *)

\* Some element of a set of numbers with a bound is its maximum.  (The numbers
\* by which its elements miss the bound have a minimum.)
LEMMA LastOne ==
    ASSUME NEW n \in Nat, NEW S \in SUBSET (1..n), S # {}
    PROVE  \E e \in S : \A d \in S : d <= e
  <1> DEFINE T == {n - s : s \in S}
  <1>1. T \subseteq Nat /\ T # {}
    <2>1. \A s \in S : n - s \in Nat
      OBVIOUS
    <2> QED
      BY <2>1
  <1>2. PICK x \in T : \A y \in T : ~(<<y, x>> \in OpToRel(<, Nat))
    <2> HIDE DEF T
    <2> QED
      BY <1>1, WFMin, NatLessThanWellFounded
  <1>3. \A y \in T : x <= y
    <2> SUFFICES ASSUME NEW y \in T PROVE x <= y
      OBVIOUS
    <2>1. x \in Nat /\ y \in Nat
      BY <1>1
    <2>2. ~(y < x)
      BY <1>2, <2>1 DEF OpToRel
    <2> QED
      BY <2>1, <2>2
  <1>4. PICK m \in S : x = n - m
    OBVIOUS
  <1>5. \A d \in S : n - m <= n - d
    BY <1>3, <1>4
  <1>6. \A d \in S : d <= m
    <2> HIDE DEF T
    <2> SUFFICES ASSUME NEW d \in S PROVE d <= m
      OBVIOUS
    <2>1. n - m <= n - d
      BY <1>5
    <2>2. d \in Nat /\ m \in Nat
      OBVIOUS
    <2> QED
      BY <2>1, <2>2
  <1> QED
    BY <1>6

\* Entries are numbered from 1, and those listed are among them.
LEMMA ListedAreNumbers ==
    ASSUME fstab \in Fstabs
    PROVE  Listed \subseteq 1..Len(fstab) /\ Len(fstab) \in Nat /\ 0 \notin Listed
  <1>1. fstab \in Seq(Entry)
    BY EntriesAssumption DEF EntriesAssumption
  <1> QED
    BY <1>1 DEF Listed, Entries

LEMMA FoundIsWanted ==
    ASSUME fstab \in Fstabs, Wanted # {}
    PROVE  Found \in Wanted /\ Found \in Listed
  <1>1. Wanted \in SUBSET (1..Len(fstab)) /\ Len(fstab) \in Nat
    BY ListedAreNumbers DEF Wanted
  <1>2. \E e \in Wanted : \A d \in Wanted : d <= e
    BY <1>1, LastOne
  <1> QED
    BY <1>2 DEF Found, Wanted

LEMMA MountinfoListIs ==
    /\ MountinfoList \in [Listed -> Info]
    /\ \A e \in Listed : MountinfoList[e].mounted = (e \in mounted)
  <1>1. \A e \in Listed : Writable(e) \in BOOLEAN
    BY DEF Writable
  <1> QED
    BY <1>1 DEF MountinfoList, Info

-----------------------------------------------------------------------------
(* Looking at a row again.                                                 *)

\* changed_callback() leaves the buttons truthful about the row it is for.
LEMMA ChangedIsTruthful ==
    ASSUME NEW e \in Listed \cup {0}, infos \in [Listed -> Info],
           0 \notin Listed, Changed(e)
    PROVE  /\ infos' \in [Listed -> Info]
           /\ row' = e /\ formatButton' \in BOOLEAN
           /\ formatButton' => e # 0
           /\ e # 0 => /\ infos'[e].mounted = (e \in mounted')
                       /\ formatButton' => e \notin mounted'
  <1>1. CASE e = 0
    BY <1>1 DEF Changed
  <1>2. CASE e \in Listed
    <2>1. infos' = [infos EXCEPT ![e].mounted = e \in mounted']
      BY <1>2 DEF Changed
    <2>2. infos[e] \in Info
      BY <1>2
    <2>3. infos' = [infos EXCEPT ![e] = [infos[e] EXCEPT !.mounted = e \in mounted']]
      BY <2>1
    <2>4. [infos[e] EXCEPT !.mounted = e \in mounted'] \in Info
      <3>1. ASSUME NEW r \in Info, NEW b \in BOOLEAN
            PROVE  [r EXCEPT !.mounted = b] \in Info
        BY DEF Info
      <3>2. (e \in mounted') \in BOOLEAN
        OBVIOUS
      <3> QED
        BY <2>2, <3>1, <3>2
    <2>5. infos' \in [Listed -> Info]
      BY <1>2, <2>3, <2>4
    <2>6. infos'[e].mounted = (e \in mounted')
      BY <1>2, <2>2, <2>3 DEF Info
    <2>7. infos'[e].writable \in BOOLEAN
      BY <1>2, <2>5 DEF Info
    <2> QED
      BY <1>2, <2>5, <2>6, <2>7 DEF Changed
  <1> QED
    BY <1>1, <1>2

-----------------------------------------------------------------------------
LEMMA InitInv == Init => IInv
  BY DEF Init, IInv, Typed, Truthful, Shielded, FormatsUnmounted, Formatting

\* fstab and superuser never change, and with them what is listed.
LEMMA ListedStays ==
    ASSUME UNCHANGED <<fstab, superuser>>
    PROVE  Listed' = Listed
  BY DEF Listed, Usable, Entries

\* A step that looks at row e again, with no formatting going on.
LEMMA LookingAgain ==
    ASSUME IInv, NEW e \in Listed \cup {0}, Changed(e),
           UNCHANGED <<fstab, superuser, program, pc, sensitive>>,
           pc \notin Formatting \cup {"start"}, box' \in BOOLEAN
    PROVE  IInv'
  <1>1. Listed' = Listed
    BY ListedStays
  <1>2. 0 \notin Listed
    BY ListedAreNumbers DEF IInv, Typed
  <1>3. infos \in [Listed -> Info]
    BY DEF IInv, Typed
  <1>4. /\ infos' \in [Listed -> Info]
        /\ row' = e /\ formatButton' \in BOOLEAN
        /\ formatButton' => e # 0
        /\ e # 0 => /\ infos'[e].mounted = (e \in mounted')
                    /\ formatButton' => e \notin mounted'
    BY <1>2, <1>3, ChangedIsTruthful
  <1>5. Typed'
    BY <1>1, <1>4 DEF IInv, Typed
  <1>6. Truthful'
    BY <1>4 DEF Truthful
  <1>7. Shielded' /\ FormatsUnmounted'
    BY <1>4 DEF Shielded, FormatsUnmounted, Formatting
  <1> QED
    BY <1>5, <1>6, <1>7 DEF IInv

\* A step that leaves the window and the mounts as they are, and either goes
\* on formatting or stops.
LEMMA Onwards ==
    ASSUME IInv, UNCHANGED <<system, infos, row, formatButton, raced>>,
           pc # "start",
           pc' \in {"window", "over"} \cup (IF pc \in Formatting THEN Formatting
                                            ELSE {}),
           pc' \in Formatting => box' = box /\ sensitive' = sensitive,
           box' \in BOOLEAN, sensitive' \in BOOLEAN
    PROVE  IInv'
  <1>1. Listed' = Listed
    BY ListedStays DEF system
  <1> QED
    BY <1>1 DEF IInv, Typed, Truthful, Shielded, FormatsUnmounted, Formatting,
                system

-----------------------------------------------------------------------------
LEMMA StartInv == IInv /\ Start => IInv'
  <1> SUFFICES ASSUME IInv, Start PROVE IInv'
    OBVIOUS
  <1>1. Listed' = Listed
    BY ListedStays DEF Start, StartWindow, StartFormat, system
  <1>2. infos' \in [Listed -> Info] /\ \A e \in Listed : infos'[e].mounted = (e \in mounted)
    BY MountinfoListIs DEF Start, StartWindow, StartFormat
  <1>3. 0 \notin Listed
    BY ListedAreNumbers DEF IInv, Typed
  <1>4. CASE StartWindow
    BY <1>1, <1>2, <1>4 DEF StartWindow, IInv, Typed, Truthful, Shielded,
                            FormatsUnmounted, Formatting, system
  <1>5. CASE StartFormat
    <2>1. row = 0 /\ ~box /\ ~formatButton
      BY <1>5 DEF StartFormat, IInv, Typed, Shielded
    <2>2. CASE pc' = "over"
      BY <1>1, <1>2, <1>5, <2>1, <2>2
         DEF StartFormat, IInv, Typed, Truthful, Shielded, FormatsUnmounted,
             Formatting, system
    <2>3. CASE pc' = "ask"
      <3>1. Wanted # {} /\ ~infos'[Found].mounted /\ row' = Found /\ box' = box
        BY <1>5, <2>3 DEF StartFormat
      <3>2. Found \in Listed
        BY <3>1, FoundIsWanted DEF IInv, Typed
      <3>3. infos'[Found].mounted = (Found \in mounted)
        BY <1>2, <3>2
      <3>4. row' \in Listed /\ row' \notin mounted' /\ ~infos'[row'].mounted
        BY <1>5, <3>1, <3>2, <3>3 DEF StartFormat, system
      <3> QED
        BY <1>1, <1>2, <1>3, <1>5, <2>1, <2>3, <3>1, <3>4
           DEF StartFormat, IInv, Typed, Truthful, Shielded, FormatsUnmounted,
               Formatting, system
    <2> QED
      BY <1>5, <2>2, <2>3 DEF StartFormat
  <1> QED
    BY <1>4, <1>5 DEF Start

LEMMA SelectInv ==
    ASSUME IInv, NEW e, Select(e)
    PROVE  IInv'
  <1>1. e \in Listed \cup {0} /\ Changed(e) /\ box' \in BOOLEAN
    BY DEF Select, IInv, Typed
  <1>2. pc \notin Formatting \cup {"start"}
    BY DEF Select, Reachable, Iterating, IInv, Shielded, Formatting
  <1> QED
    BY <1>1, <1>2, LookingAgain DEF Select, system

LEMMA MountInv == IInv /\ (MountQuietly \/ MountWithMessages) => IInv'
  <1> SUFFICES ASSUME IInv, MountQuietly \/ MountWithMessages PROVE IInv'
    OBVIOUS
  <1>1. pc \notin Formatting \cup {"start"} /\ row \in Listed
    BY DEF MountQuietly, MountWithMessages, Reachable, Iterating, IInv, Typed,
           Shielded, Formatting
  <1>2. CASE MountQuietly
    <2>1. Changed(row) /\ box' \in BOOLEAN
      BY <1>2 DEF MountQuietly, IInv, Typed
    <2> QED
      BY <1>1, <1>2, <2>1, LookingAgain DEF MountQuietly
  <1>3. CASE MountWithMessages
    <2>1. Listed' = Listed
      BY <1>3, ListedStays DEF MountWithMessages
    <2>2. Typed' /\ Shielded' /\ FormatsUnmounted'
      BY <1>1, <1>3, <2>1
         DEF MountWithMessages, window, IInv, Typed, Shielded,
             FormatsUnmounted, Formatting
    <2>3. Truthful'
      BY <1>3 DEF MountWithMessages, window, IInv, Truthful
    <2> QED
      BY <2>2, <2>3 DEF IInv
  <1> QED
    BY <1>2, <1>3

LEMMA CloseBoxInv == IInv /\ CloseBox => IInv'
  <1> SUFFICES ASSUME IInv, CloseBox PROVE IInv'
    OBVIOUS
  <1>1. pc \notin Formatting \cup {"start"} /\ box' \in BOOLEAN
    BY DEF CloseBox, IInv, Typed, Shielded
  <1>2. CASE pc = "over"
    BY <1>1, <1>2, Onwards DEF CloseBox, IInv, Typed
  <1>3. CASE pc # "over"
    <2>1. row \in Listed \cup {0} /\ Changed(row)
      BY <1>3 DEF CloseBox, IInv, Typed
    <2> QED
      BY <1>1, <2>1, LookingAgain DEF CloseBox, system
  <1> QED
    BY <1>2, <1>3

\* The button is pressed: it is truthful.
LEMMA PressInv == IInv /\ PressFormat => IInv'
  <1> SUFFICES ASSUME IInv, PressFormat PROVE IInv'
    OBVIOUS
  <1>1. Listed' = Listed
    BY ListedStays DEF PressFormat, system
  <1>2. row # 0 /\ (row \in raced \/ row \notin mounted)
    BY DEF PressFormat, IInv, Truthful, Shielded
  <1> QED
    BY <1>1, <1>2 DEF PressFormat, Reachable, Iterating, IInv, Typed, Truthful,
                      Shielded, FormatsUnmounted, Formatting, system

LEMMA ReturnsInv ==
    ASSUME IInv, pc \in Formatting, FormatReturns
    PROVE  IInv'
  <1>1. pc' \in {"window", "over"} /\ pc # "start"
    BY DEF FormatReturns, Formatting
  <1> QED
    BY <1>1, Onwards DEF FormatReturns, Formatting, IInv, Typed

LEMMA FormatInv ==
    ASSUME IInv, \/ SayNo \/ FdformatEnds \/ MkfsEnds \/ Close
                 \/ \E type : SayYes(type)
    PROVE  IInv'
  <1>1. CASE SayNo \/ MkfsEnds
    BY <1>1, ReturnsInv DEF SayNo, MkfsEnds, Formatting
  <1>2. CASE FdformatEnds
    <2>1. CASE FormatReturns
      BY <1>2, <2>1, ReturnsInv DEF FdformatEnds, Formatting
    <2>2. CASE ~FormatReturns
      BY <1>2, <2>2, Onwards DEF FdformatEnds, window, Formatting, IInv, Typed
    <2> QED
      BY <2>1, <2>2
  <1>3. ASSUME NEW type, SayYes(type)
        PROVE  IInv'
    <2>1. CASE FormatReturns
      BY <1>3, <2>1, ReturnsInv DEF SayYes, Formatting
    <2>2. CASE ~FormatReturns
      BY <1>3, <2>2, Onwards DEF SayYes, window, Formatting, IInv, Typed
    <2> QED
      BY <2>1, <2>2
  <1>4. CASE Close
    BY <1>4, Onwards DEF Close, Iterating, Formatting, IInv, Typed
  <1> QED
    BY <1>1, <1>2, <1>3, <1>4

LEMMA OtherInv ==
    ASSUME IInv, NEW e, Other(e)
    PROVE  IInv'
  <1>1. Listed' = Listed
    BY ListedStays DEF Other
  <1>2. \A d : d # e => (d \in mounted' <=> d \in mounted)
    BY DEF Other, Does
  <1>3. Typed' /\ Shielded'
    BY <1>1 DEF Other, window, IInv, Typed, Shielded
  <1>4. Truthful'
    BY <1>2 DEF Other, window, IInv, Truthful
  <1>5. FormatsUnmounted'
    BY <1>2 DEF Other, window, IInv, FormatsUnmounted
  <1> QED
    BY <1>3, <1>4, <1>5 DEF IInv

LEMMA NextInv == IInv /\ [Next]_vars => IInv'
  <1> SUFFICES ASSUME IInv, [Next]_vars PROVE IInv'
    OBVIOUS
  <1>1. CASE UNCHANGED vars
    <2>1. Listed' = Listed
      BY <1>1, ListedStays DEF vars, system
    <2> QED
      BY <1>1, <2>1 DEF vars, system, window, IInv, Typed, Truthful, Shielded,
                        FormatsUnmounted
  <1>2. CASE Next
    BY <1>1, <1>2, StartInv, SelectInv, MountInv, CloseBoxInv, PressInv,
       FormatInv, OtherInv
       DEF Next, Over
  <1> QED
    BY <1>1, <1>2

LEMMA InvHolds == Spec => []IInv
  BY InitInv, NextInv, PTL DEF Spec

\* What the buttons offer for the selected row is so, unless another program
\* acted since (changed_callback() and response_callback() keep it so).
THEOREM UsermountButtonsTruthful == Spec => []ButtonsTruthful
  <1>1. IInv => ButtonsTruthful
    BY DEF IInv, Truthful, ButtonsTruthful
  <1> QED
    BY <1>1, InvHolds, PTL

\* Nothing is formatted that is mounted where /etc/fstab says, unless another
\* program mounted it (response_callback(), format_one_device(), format()).
THEOREM UsermountFormatsUnmounted == Spec => []FormatsUnmounted
  BY InvHolds, PTL DEF IInv
=============================================================================
