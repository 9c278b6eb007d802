---------------------------- MODULE PanelIconProofs ----------------------------
(***************************************************************************)
(* Proofs about PanelIcon for any number of checkers, reports and error    *)
(* codes.  TypeOK is inductive, and so is IconHonest beside it.  That old  *)
(* checkers are silent is not: the panel knows only `current', which is    *)
(* cleared before a new checker is launched, so what launch_checker()      *)
(* keeps is that there is never a source of any other checker.             *)
(***************************************************************************)
EXTENDS PanelIcon, TLAPS

\* The sources are those of the checker in the static variables, if any, and
\* that is the newest one.
OnlyCurrent ==
    /\ current \in {0, launched}
    /\ ioSources \cup childSources \subseteq {current}

USE LaunchAssumption, CodesAssumption, OutcomesAssumption, FlagsAssumption
    DEF LaunchAssumption, CodesAssumption, OutcomesAssumption, FlagsAssumption

-----------------------------------------------------------------------------
(* The switch, and launching.                                              *)

LEMMA CodesAreIntegers == Codes \subseteq Nat
  BY DEF Codes, STATUS_AUTHENTICATED, STATUS_OTHER_ERROR

LEMMA StatusOfInStatuses ==
    ASSUME NEW output \in Nat
    PROVE  StatusOf(output) \in Statuses
  BY DEF StatusOf, Statuses, STATUS_AUTHENTICATED, STATUS_OTHER_ERROR,
         STATUS_UNKNOWN

LEMMA RefreshType ==
    ASSUME icon \in {"none", "hidden", "shown"}, NEW new, RefreshTrayIcon(new)
    PROVE  icon' \in {"none", "hidden", "shown"}
  BY DEF RefreshTrayIcon

\* Whatever comes of launching, the types are kept.
LEMMA LaunchType ==
    ASSUME TypeOK, NEW how, NEW died \in SUBSET Checkers, Launch(how, died)
    PROVE  /\ checker' \in [Checkers -> {"unborn", "running", "exited", "reaped"}]
           /\ launched' \in 0..MaxLaunch
           /\ current' \in 0..launched'
           /\ ioSources' \subseteq 1..launched'
           /\ childSources' \subseteq 1..launched'
           /\ fds' \subseteq 1..launched'
           /\ heard' \in Codes \cup {NoCode}
  <1>1. launched' \in {launched, launched + 1} /\ launched' \in 0..MaxLaunch
    BY DEF TypeOK, Launch
  <1>2. 1..launched \subseteq 1..launched'
    BY <1>1 DEF TypeOK
  <1>3. how = "ok" => launched' = launched + 1 /\ launched + 1 \in 1..launched'
    BY DEF TypeOK, Launch
  <1>4. current' \in 0..launched'
    BY <1>1, <1>3 DEF TypeOK, Launch
  <1>5. ioSources' \subseteq 1..launched' /\ childSources' \subseteq 1..launched'
    BY <1>2, <1>3 DEF TypeOK, Launch
  <1>6. fds' \subseteq 1..launched'
    BY <1>1, <1>2 DEF TypeOK, Launch
  <1>7. checker' \in [Checkers -> {"unborn", "running", "exited", "reaped"}]
    BY DEF TypeOK, Launch
  <1>8. heard' \in Codes \cup {NoCode}
    BY DEF Launch
  <1> QED
    BY <1>1, <1>4, <1>5, <1>6, <1>7, <1>8

\* Launching leaves sources of the new checker only, or none: what was there
\* belonged to the current one, whose sources are removed.
LEMMA LaunchOnlyCurrent ==
    ASSUME TypeOK, OnlyCurrent, NEW how, NEW died, Launch(how, died)
    PROVE  OnlyCurrent'
  <1>1. CASE how = "ok"
    BY <1>1 DEF OnlyCurrent, Launch, ForgottenChild
  <1>2. CASE how # "ok"
    BY <1>2 DEF OnlyCurrent, Launch, ForgottenChild
  <1> QED
    BY <1>1, <1>2

-----------------------------------------------------------------------------
(* TypeOK.                                                                 *)

LEMMA InitType == Init => TypeOK
  <1> SUFFICES ASSUME Init PROVE TypeOK
    OBVIOUS
  <1>1. pipe \in [Checkers -> Seq(Codes)] /\ said \in [Checkers -> Codes \cup {NoCode}]
    BY DEF Init
  <1>2. status \in Statuses
    BY DEF Init, Statuses
  <1>3. launched \in 0..MaxLaunch /\ current \in 0..launched
    BY DEF Init
  <1>4. checker \in [Checkers -> {"unborn", "running", "exited", "reaped"}]
    BY DEF Init
  <1> QED
    BY <1>1, <1>2, <1>3, <1>4 DEF Init, TypeOK

LEMMA MainType ==
    ASSUME TypeOK, NEW how, Main(how)
    PROVE  TypeOK'
  <1>1. {} \in SUBSET Checkers
    OBVIOUS
  <1> QED
    BY <1>1, LaunchType DEF Main, TypeOK, desktop

\* What a checker writes is a code that goes into its pipe.
LEMMA CheckerType ==
    ASSUME TypeOK, NEW c \in Checkers, CheckerStep(c)
    PROVE  TypeOK'
  <1>1. ASSUME NEW code \in Codes, pipe' = [pipe EXCEPT ![c] = Append(@, code)],
               said' = [said EXCEPT ![c] = code]
        PROVE  /\ pipe' \in [Checkers -> Seq(Codes)]
               /\ said' \in [Checkers -> Codes \cup {NoCode}]
    <2>1. pipe[c] \in Seq(Codes)
      BY DEF TypeOK
    <2>2. Append(pipe[c], code) \in Seq(Codes)
      BY <2>1, <1>1
    <2> QED
      BY <1>1, <2>2 DEF TypeOK
  <1>2. CASE Reports(c)
    <2>1. (IF held THEN STATUS_AUTHENTICATED ELSE STATUS_OTHER_ERROR) \in Codes
      BY DEF Codes
    <2> QED
      BY <1>1, <1>2, <2>1 DEF Reports, TypeOK, watching, desktop
  <1>3. CASE Dies(c)
    BY <1>3 DEF Dies, TypeOK, watching, desktop
  <1>4. ASSUME NEW code \in ErrorCodes, Fails(c, code)
        PROVE  TypeOK'
    <2>1. code \in Codes
      BY <1>4 DEF Codes
    <2> QED
      BY <1>1, <1>4, <2>1 DEF Fails, TypeOK, watching, desktop
  <1> QED
    BY <1>2, <1>3, <1>4 DEF CheckerStep

LEMMA PanelType ==
    ASSUME TypeOK, NEW c \in Checkers, PanelStep(c)
    PROVE  TypeOK'
  <1>1. CASE ReadReports(c)
    <2> DEFINE n == IF Len(pipe[c]) < 5 THEN Len(pipe[c]) ELSE 5
    <2>1. pipe[c] \in Seq(Codes) /\ pipe[c] # <<>>
      BY <1>1 DEF ReadReports, TypeOK
    <2>2. Len(pipe[c]) \in Nat /\ Len(pipe[c]) # 0
      BY <2>1
    <2>3. n \in 1..Len(pipe[c])
      BY <2>2
    <2>4. pipe[c][n] \in Codes
      BY <2>1, <2>3
    <2>5. SubSeq(pipe[c], n + 1, Len(pipe[c])) \in Seq(Codes)
      BY <2>1, <2>3
    <2>6. heard' = pipe[c][n]
          /\ pipe' = [pipe EXCEPT ![c] = SubSeq(pipe[c], n + 1, Len(pipe[c]))]
      BY <1>1 DEF ReadReports
    <2>7. pipe' \in [Checkers -> Seq(Codes)] /\ heard' \in Codes
      BY <2>4, <2>5, <2>6 DEF TypeOK
    <2>8. status' \in Statuses
      BY <1>1, <2>7, CodesAreIntegers, StatusOfInStatuses DEF ReadReports
    <2>9. icon' \in {"none", "hidden", "shown"}
      BY <1>1, RefreshType DEF ReadReports, TypeOK
    <2> QED
      BY <1>1, <2>7, <2>8, <2>9 DEF ReadReports, TypeOK, watching
  <1>2. ASSUME NEW how, RespawnAfterIo(c, how)
        PROVE  TypeOK'
    <2>1. {} \in SUBSET Checkers
      OBVIOUS
    <2>2. status' \in Statuses
      BY <1>2, StatusOfInStatuses DEF RespawnAfterIo
    <2>3. icon' \in {"none", "hidden", "shown"}
      BY <1>2, RefreshType DEF RespawnAfterIo, TypeOK
    <2>4. Launch(how, {})
      BY <1>2 DEF RespawnAfterIo
    <2> QED
      BY <1>2, <2>1, <2>2, <2>3, <2>4, LaunchType DEF RespawnAfterIo, TypeOK
  <1>3. ASSUME NEW how, ChildDied(c, how)
        PROVE  TypeOK'
    <2>1. {c} \in SUBSET Checkers
      OBVIOUS
    <2>2. status' \in Statuses
      BY <1>3 DEF ChildDied, Statuses
    <2>3. icon' \in {"none", "hidden", "shown"}
      BY <1>3, RefreshType DEF ChildDied, TypeOK
    <2>4. Launch(how, {c})
      BY <1>3 DEF ChildDied
    <2> QED
      BY <1>3, <2>1, <2>2, <2>3, <2>4, LaunchType DEF ChildDied, TypeOK
  <1> QED
    BY <1>1, <1>2, <1>3 DEF PanelStep

LEMMA UserType ==
    ASSUME TypeOK, UserStep
    PROVE  TypeOK'
  <1>1. CASE Authorization
    BY <1>1 DEF Authorization, TypeOK, children, watching, desktop
  <1>2. CASE Activate
    BY <1>2 DEF Activate, TypeOK, children, watching
  <1>3. CASE Popup
    BY <1>3 DEF Popup, TypeOK, children, watching
  <1>4. ASSUME NEW drop \in BOOLEAN, Respond(drop)
        PROVE  TypeOK'
    BY <1>4 DEF Respond, HandleDropResponse, TypeOK, children, watching
  <1>5. CASE TrayGone
    BY <1>5 DEF TrayGone, TypeOK, children, watching
  <1>6. CASE SessionDie
    BY <1>6 DEF SessionDie, TypeOK, children
  <1> QED
    BY <1>1, <1>2, <1>3, <1>4, <1>5, <1>6 DEF UserStep

LEMMA NextType == TypeOK /\ [Next]_vars => TypeOK'
  <1> SUFFICES ASSUME TypeOK, [Next]_vars PROVE TypeOK'
    OBVIOUS
  <1>1. CASE UNCHANGED vars
    BY <1>1 DEF vars, children, watching, desktop, TypeOK
  <1> QED
    BY <1>1, MainType, CheckerType, PanelType, UserType DEF Next

\* The variables of main(), its callbacks and the checkers keep their types,
\* whatever the checkers report and however launching them fails.
THEOREM IconTypeCorrect == Spec => []TypeOK
  BY InitType, NextType, PTL DEF Spec

-----------------------------------------------------------------------------
(* OldCheckersSilent.                                                      *)

LEMMA NextOnlyCurrent == TypeOK /\ OnlyCurrent /\ [Next]_vars => OnlyCurrent'
  <1> SUFFICES ASSUME TypeOK, OnlyCurrent, [Next]_vars PROVE OnlyCurrent'
    OBVIOUS
  <1>1. CASE UNCHANGED watching
    BY <1>1 DEF watching, OnlyCurrent
  <1>2. ASSUME NEW how, NEW died, Launch(how, died)
        PROVE  OnlyCurrent'
    BY <1>2, LaunchOnlyCurrent
  <1>3. CASE UNCHANGED vars
    BY <1>1, <1>3 DEF vars
  <1>4. ASSUME NEW how, Main(how)
        PROVE  OnlyCurrent'
    BY <1>2, <1>4 DEF Main
  <1>5. ASSUME NEW c \in Checkers, CheckerStep(c)
        PROVE  OnlyCurrent'
    BY <1>1, <1>5 DEF CheckerStep, Reports, Dies, Fails
  <1>6. ASSUME NEW c \in Checkers, PanelStep(c)
        PROVE  OnlyCurrent'
    BY <1>1, <1>2, <1>6 DEF PanelStep, ReadReports, RespawnAfterIo, ChildDied
  <1>7. CASE UserStep /\ ~SessionDie
    BY <1>1, <1>7 DEF UserStep, Authorization, Activate, Popup, Respond, TrayGone
  <1>8. CASE SessionDie
    BY <1>8 DEF SessionDie, OnlyCurrent
  <1> QED
    BY <1>3, <1>4, <1>5, <1>6, <1>7, <1>8 DEF Next

\* Once a checker is launched, or launching one failed half way, nothing that
\* an older one does reaches the panel (launch_checker()'s g_source_remove()
\* calls suffice, whichever of its callers finds the checker dead).
THEOREM IconOldCheckersSilent == Spec => []OldCheckersSilent
  <1>1. Init => OnlyCurrent
    BY DEF Init, OnlyCurrent
  <1>2. OnlyCurrent /\ TypeOK => OldCheckersSilent
    <2> SUFFICES ASSUME OnlyCurrent, TypeOK,
                        NEW c \in ioSources \cup childSources
                 PROVE  c = launched
      BY DEF OldCheckersSilent
    <2>1. c = current /\ c \in 1..launched
      BY DEF OnlyCurrent, TypeOK
    <2>2. c # 0
      BY <2>1 DEF TypeOK
    <2> QED
      BY <2>1, <2>2 DEF OnlyCurrent
  <1> QED
    BY <1>1, <1>2, NextOnlyCurrent, IconTypeCorrect, PTL DEF Spec

-----------------------------------------------------------------------------
(* IconHonest.                                                             *)

LEMMA RefreshHonest ==
    ASSUME NEW new, RefreshTrayIcon(new), icon' = "shown"
    PROVE  new = STATUS_AUTHENTICATED
  BY DEF RefreshTrayIcon

LEMMA NextHonest == IconHonest /\ [Next]_vars => IconHonest'
  <1> SUFFICES ASSUME IconHonest, [Next]_vars PROVE IconHonest'
    OBVIOUS
  <1>1. CASE UNCHANGED <<status, icon>>
    BY <1>1 DEF IconHonest
  <1>2. CASE icon' = "none"
    BY <1>2 DEF IconHonest
  <1>3. CASE RefreshTrayIcon(status')
    BY <1>3, RefreshHonest DEF IconHonest
  <1>4. CASE UNCHANGED vars
    BY <1>1, <1>4 DEF vars, desktop
  <1>5. ASSUME NEW how, Main(how)
        PROVE  IconHonest'
    BY <1>1, <1>5 DEF Main, desktop
  <1>6. ASSUME NEW c \in Checkers, CheckerStep(c)
        PROVE  IconHonest'
    BY <1>1, <1>6 DEF CheckerStep, Reports, Dies, Fails, desktop
  <1>7. ASSUME NEW c \in Checkers, PanelStep(c)
        PROVE  IconHonest'
    BY <1>3, <1>7 DEF PanelStep, ReadReports, RespawnAfterIo, ChildDied
  <1>8. CASE UserStep
    BY <1>1, <1>2, <1>8 DEF UserStep, Authorization, Activate, Popup, Respond,
                            TrayGone, SessionDie, desktop
  <1> QED
    BY <1>4, <1>5, <1>6, <1>7, <1>8 DEF Next

\* The icon is shown only while current_status is STATUS_AUTHENTICATED: every
\* assignment of current_status is followed by refresh_tray_icon().
THEOREM IconStaysHonest == Spec => []IconHonest
  <1>1. Init => IconHonest
    BY DEF Init, IconHonest
  <1> QED
    BY <1>1, NextHonest, PTL DEF Spec
=============================================================================
