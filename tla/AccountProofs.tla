----------------------------- MODULE AccountProofs -----------------------------
(***************************************************************************)
(* Proofs about Account, for any number of helpers on any accounts, any    *)
(* command lines, and whatever PAM, libuser and an administrator do.       *)
(***************************************************************************)
EXTENDS Account, GecosProofs

-----------------------------------------------------------------------------
(* Data.                                                                   *)

\* fail_exit() never turns a failure into success.
LEMMA FailExitFails ==
    ASSUME NEW c \in BOOLEAN, NEW r \in PamErrors
    PROVE  FailExit(c, r) \in ExitStatuses \ {0}
  BY PamAssumption DEF FailExit, PamFailures, PamStatus, ExitStatuses,
     ERR_CANCELED, ERR_PAM_INT_ERROR, ERR_PASSWD_INVALID, ERR_LOCKS,
     ERR_NO_RIGHTS, ERR_NO_USER, ERR_MAX_TRIES, ERR_SHELL_INVALID, ERR_UNK_ERROR

LEMMA AbortFails ==
    ASSUME NEW c \in BOOLEAN
    PROVE  FailExit(c, "PAM_ABORT") \in ExitStatuses \ {0}
  BY DEF FailExit, PamStatus, ExitStatuses, ERR_CANCELED, ERR_UNK_ERROR

\* The statuses that are not a PAM result's.
Refusals == {ERR_NO_RIGHTS, ERR_INVALID_CALL, ERR_UNK_ERROR, ERR_NO_USER,
             ERR_FIELDS_INVALID, ERR_SHELL_INVALID, -SIGABRT, -SIGSEGV}

LEMMA RefusalsFail ==
    /\ 0 \notin Refusals
    /\ Refusals \subseteq ExitStatuses \cup {NoStatus, -SIGABRT, -SIGSEGV}
  BY DEF Refusals, ExitStatuses, ERR_NO_RIGHTS, ERR_INVALID_CALL, ERR_UNK_ERROR,
         ERR_NO_USER, ERR_FIELDS_INVALID, ERR_SHELL_INVALID, SIGABRT, SIGSEGV

LEMMA CallIs ==
    ASSUME NEW c \in Calls, NEW h \in Helpers
    PROVE  /\ c[h] \in Call
           /\ c[h].by \in Users
           /\ \A f \in Fields \cup {"shell"} : c[h].new[f] \in Texts \cup {NoText}
           /\ Len(c[h].names) = 1 => c[h].names[1] \in Users \cup {"nobody"}
  <1>1. c[h] \in Call
    BY CallsAssumption
  <1> QED
    BY <1>1 DEF Call

LEMMA OverlaidType ==
    ASSUME NEW p \in GecosData, NEW new \in [Fields \cup {"shell"} -> Texts \cup {NoText}]
    PROVE  Overlaid(p, new) \in GecosData
  BY DEF Overlaid, GecosData

LEMMA EditedType ==
    ASSUME NEW r \in Record, NEW new \in [Fields \cup {"shell"} -> Texts \cup {NoText}]
    PROVE  Edited(r, new) \in Record
  <1> DEFINE p == Overlaid(GecosParse(r.gecos), new)
  <1>1. r.gecos \in Seq(Texts)
    BY DEF Record
  <1>2. p \in GecosData
    BY <1>1, ParseType, OverlaidType
  <1>3. GecosAssemble(p) \in Seq(Texts)
    BY <1>2, AssembleType
  <1>4. \A f \in Fields : p.fields[f] \in Texts \cup {NoText}
    BY <1>2 DEF GecosData
  <1> HIDE DEF p
  <1>5. [f \in Fields |-> IF p.fields[f] # NoText THEN p.fields[f] ELSE r.attrs[f]]
           \in [Fields -> Texts \cup {NoText}]
    BY <1>4 DEF Record
  <1>6. (IF new["shell"] # NoText THEN new["shell"] ELSE r.shell) \in Texts \cup {NoText}
    BY DEF Record
  <1>7. Edited(r, new) =
          [gecos |-> GecosAssemble(p),
           attrs |-> [f \in Fields |-> IF p.fields[f] # NoText THEN p.fields[f]
                                       ELSE r.attrs[f]],
           shell |-> IF new["shell"] # NoText THEN new["shell"] ELSE r.shell]
    BY DEF Edited, p
  <1> QED
    BY <1>3, <1>5, <1>6, <1>7 DEF Record

\* What finger(1) shows of an edited record: the fields given, and for the
\* others what it showed before.
LEMMA EditedShows ==
    ASSUME NEW r \in Record, NEW f \in Fields,
           NEW new \in [Fields \cup {"shell"} -> Texts \cup {NoText}]
    PROVE  /\ Shown(Edited(r, new), f) =
                 IF new[f] # NoText THEN new[f] ELSE Shown(r, f)
           /\ GecosParse(Edited(r, new).gecos).site_info =
                 Stripped(GecosParse(r.gecos).site_info)
           /\ Edited(r, new).shell =
                 IF new["shell"] # NoText THEN new["shell"] ELSE r.shell
           /\ new[f] # NoText \/ GecosParse(r.gecos).fields[f] # NoText
                 => Edited(r, new).attrs[f] = Shown(Edited(r, new), f)
  <1> DEFINE q == GecosParse(r.gecos)
             p == Overlaid(q, new)
             e == Edited(r, new)
  <1>1. q \in GecosData /\ p \in GecosData
    BY ParseType, OverlaidType DEF Record
  <1>2. e.gecos = GecosAssemble(p)
    BY DEF Edited
  <1>3. e.shell = IF new["shell"] # NoText THEN new["shell"] ELSE r.shell
    BY DEF Edited
  <1>4. e.attrs[f] = IF p.fields[f] # NoText THEN p.fields[f] ELSE r.attrs[f]
    BY DEF Edited
  <1>5. /\ p.fields[f] = IF new[f] # NoText THEN new[f] ELSE q.fields[f]
        /\ p.site_info = q.site_info
    BY <1>1 DEF Overlaid, GecosData
  <1>6. Shown(e, f) = TextOf(GecosParse(e.gecos).fields[f])
        /\ Shown(r, f) = TextOf(q.fields[f])
    BY DEF Shown
  <1> HIDE DEF e, p, q
  <1>7. Shown(e, f) = TextOf(p.fields[f])
    BY <1>1, <1>2, <1>6, FieldsSurvive
  <1>8. GecosParse(e.gecos).site_info = Stripped(q.site_info)
    BY <1>1, <1>2, <1>5, SiteInfoSurvives
  <1> QED
    BY <1>3, <1>4, <1>5, <1>6, <1>7, <1>8 DEF TextOf, e, q

-----------------------------------------------------------------------------
(* Types.  The three tries last until the first success.                   *)

TriesLeft ==
    \A h \in Helpers :
        pc[h] \in {"main", "passwd", "chauthtok", "chfn", "authenticate"}
            => tries[h] \in 1..3

Typed == TypeOK /\ TriesLeft

LEMMA InitTyped == Init => Typed
  <1> SUFFICES ASSUME Init PROVE Typed
    OBVIOUS
  <1>1. \A h \in Helpers : call[h].by \in Users
    BY CallIs DEF Init
  <1>2. db \in [Users -> Record]
    BY RecordAssumption DEF Init
  <1>3. found \in [Helpers -> Record]
    BY <1>1, <1>2 DEF Init
  <1>4. repairs \in 0..MaxRepairs
    BY BoundAssumption DEF Init
  <1> QED
    BY <1>1, <1>2, <1>3, <1>4 DEF Init, Typed, TypeOK, TriesLeft

\* The conversation of a PAM call only ever sets the flag.
LEMMA ReturnsType ==
    ASSUME TypeOK, NEW h \in Helpers, NEW place, NEW r, Returns(h, place, r)
    PROVE  canceled' \in [Helpers -> BOOLEAN] /\ canceled'[h] \in BOOLEAN
  BY DEF Returns, TypeOK

LEMMA ExitType ==
    ASSUME TypeOK, NEW h \in Helpers, NEW s, Exit(h, s),
           s \in ExitStatuses \cup {NoStatus, -SIGABRT, -SIGSEGV}
    PROVE  /\ pc' \in [Helpers -> {"main", "passwd", "chauthtok", "chfn",
                           "authenticate", "acct_mgmt", "lu_start", "lookup",
                           "modify", "dead"}]
           /\ status' \in [Helpers -> ExitStatuses \cup {NoStatus, -SIGABRT, -SIGSEGV}]
           /\ pc'[h] = "dead"
           /\ \A g \in Helpers \ {h} : pc'[g] = pc[g]
  BY DEF Exit, TypeOK

LEMMA GotoType ==
    ASSUME TypeOK, NEW h \in Helpers, NEW place, Goto(h, place),
           place \in {"passwd", "chauthtok", "chfn", "authenticate",
                      "acct_mgmt", "lu_start", "lookup", "modify"}
    PROVE  /\ pc' \in [Helpers -> {"main", "passwd", "chauthtok", "chfn",
                           "authenticate", "acct_mgmt", "lu_start", "lookup",
                           "modify", "dead"}]
           /\ status' \in [Helpers -> ExitStatuses \cup {NoStatus, -SIGABRT, -SIGSEGV}]
           /\ pc'[h] = place
           /\ \A g \in Helpers \ {h} : pc'[g] = pc[g]
  BY DEF Goto, TypeOK

\* What the steps of helper h do to pc, status and what the PAM calls leave.
LEMMA StepTyped ==
    ASSUME Typed, NEW h \in Helpers, Step(h) \/ BadCall(h)
    PROVE  Typed'
  <1> USE DEF outside, private, auth, edited, verdict
  <1>0. TypeOK /\ TriesLeft /\ canceled[h] \in BOOLEAN
    BY DEF Typed, TypeOK
  <1>1. CASE BadCall(h)
    <2>1. PICK e \in {ERR_NO_RIGHTS, ERR_INVALID_CALL, ERR_UNK_ERROR} : Exit(h, e)
      BY <1>1 DEF BadCall
    <2>2. e \in ExitStatuses \cup {NoStatus, -SIGABRT, -SIGSEGV}
      BY RefusalsFail DEF Refusals
    <2> QED
      BY <1>0, <1>1, <2>1, <2>2, ExitType DEF BadCall, Typed, TypeOK, TriesLeft
  <1>2. CASE Main(h)
    <2> DEFINE c == call[h]
               user == IF NamesUser(c) THEN c.names[1] ELSE c.by
    <2>1. \/ \E e \in Refusals : Exit(h, e)
          \/ \E place \in {"passwd", "chfn"} : Goto(h, place)
      BY <1>2 DEF Main, Refusals
    <2>2. target' \in [Helpers -> Users]
      BY <1>0, <1>2 DEF Main, TypeOK
    <2>3. tries[h] \in 1..3
      BY <1>0, <1>2 DEF Main, At, TriesLeft
    <2>4. CASE \E e \in Refusals : Exit(h, e)
      BY <1>0, <1>2, <2>2, <2>4, ExitType, RefusalsFail
         DEF Main, Typed, TypeOK, TriesLeft
    <2>5. CASE \E place \in {"passwd", "chfn"} : Goto(h, place)
      BY <1>0, <1>2, <2>2, <2>3, <2>5, GotoType DEF Main, Typed, TypeOK, TriesLeft
    <2> QED
      BY <2>1, <2>4, <2>5
  <1>3. CASE Passwd(h)
    BY <1>0, <1>3, GotoType DEF Passwd, At, Typed, TypeOK, TriesLeft
  <1>4. CASE Chauthtok(h)
    <2>1. canceled' \in [Helpers -> BOOLEAN] /\ canceled'[h] \in BOOLEAN
      BY <1>0, <1>4, ReturnsType DEF Chauthtok
    <2>2. PICK e \in ExitStatuses : Exit(h, e)
      BY <1>4, <2>1, FailExitFails DEF Chauthtok, Result, ExitStatuses
    <2>3. proven' \in [Helpers -> SUBSET {"authenticate", "acct_mgmt", "chauthtok"}]
      BY <1>0, <1>4 DEF Chauthtok, Proves, TypeOK
    <2>4. password' \in [Users -> Nat]
      BY <1>0, <1>4 DEF Chauthtok, TypeOK
    <2> QED
      BY <1>0, <1>4, <2>1, <2>2, <2>3, <2>4, ExitType
         DEF Chauthtok, Typed, TypeOK, TriesLeft
  <1>5. ASSUME NEW r \in PamErrors, ChauthtokFails(h, r)
        PROVE  Typed'
    <2>1. canceled' \in [Helpers -> BOOLEAN] /\ canceled'[h] \in BOOLEAN
      BY <1>0, <1>5, ReturnsType DEF ChauthtokFails
    <2>2. Exit(h, FailExit(canceled'[h], r))
      BY <1>5 DEF ChauthtokFails, Result
    <2> QED
      BY <1>0, <1>5, <2>1, <2>2, FailExitFails, ExitType
         DEF ChauthtokFails, Typed, TypeOK, TriesLeft
  <1>6. CASE Chfn(h)
    <2>1. tries[h] \in 1..3
      BY <1>0, <1>6 DEF Chfn, At, TriesLeft
    <2> QED
      BY <1>0, <1>6, <2>1, RefusalsFail, GotoType, ExitType
         DEF Chfn, Refusals, Typed, TypeOK, TriesLeft
  <1>7. CASE Authenticated(h)
    <2>1. canceled' \in [Helpers -> BOOLEAN] /\ canceled'[h] \in BOOLEAN
      BY <1>0, <1>7, ReturnsType DEF Authenticated
    <2>2. tries[h] \in 1..3
      BY <1>0, <1>7 DEF Authenticated, Returns, At, TriesLeft
    <2>3. tries' \in [Helpers -> 0..3] /\ \A g \in Helpers \ {h} : tries'[g] = tries[g]
      BY <1>0, <1>7, <2>2 DEF Authenticated, TypeOK
    <2>4. proven' \in [Helpers -> SUBSET {"authenticate", "acct_mgmt", "chauthtok"}]
      BY <1>0, <1>7 DEF Authenticated, Proves, TypeOK
    <2>5. CASE Goto(h, "acct_mgmt")
      BY <1>0, <1>7, <2>1, <2>3, <2>4, <2>5, GotoType
         DEF Authenticated, Typed, TypeOK, TriesLeft
    <2>6. CASE ~Goto(h, "acct_mgmt")
      <3>1. PICK e \in ExitStatuses \cup {NoStatus, -SIGABRT, -SIGSEGV} : Exit(h, e)
        BY <1>7, <2>1, <2>6, FailExitFails, RefusalsFail
           DEF Authenticated, Result, Refusals
      <3> QED
        BY <1>0, <1>7, <2>1, <2>3, <2>4, <3>1, ExitType
           DEF Authenticated, Typed, TypeOK, TriesLeft
    <2> QED
      BY <2>5, <2>6
  <1>8. ASSUME NEW r \in PamErrors, AuthRefused(h, r)
        PROVE  Typed'
    <2>1. canceled' \in [Helpers -> BOOLEAN] /\ canceled'[h] \in BOOLEAN
      BY <1>0, <1>8, ReturnsType DEF AuthRefused
    <2>2. tries[h] \in 1..3
      BY <1>0, <1>8 DEF AuthRefused, Returns, At, TriesLeft
    <2>3. /\ tries' \in [Helpers -> 0..3] /\ tries'[h] = tries[h] - 1
          /\ \A g \in Helpers \ {h} : tries'[g] = tries[g]
      BY <1>0, <1>8, <2>2 DEF AuthRefused, TypeOK
    <2>4. CASE Exit(h, FailExit(canceled'[h], r))
      BY <1>0, <1>8, <2>1, <2>3, <2>4, FailExitFails, ExitType
         DEF AuthRefused, Typed, TypeOK, TriesLeft
    <2>5. CASE UNCHANGED <<pc, status>> /\ tries'[h] > 0
      BY <1>0, <1>8, <2>1, <2>2, <2>3, <2>5 DEF AuthRefused, Typed, TypeOK, TriesLeft
    <2> QED
      BY <1>8, <2>4, <2>5 DEF AuthRefused, Result
  <1>9. CASE AccountOk(h)
    <2>1. canceled' \in [Helpers -> BOOLEAN]
      BY <1>0, <1>9, ReturnsType DEF AccountOk
    <2>2. proven' \in [Helpers -> SUBSET {"authenticate", "acct_mgmt", "chauthtok"}]
      BY <1>0, <1>9 DEF AccountOk, Proves, TypeOK
    <2> QED
      BY <1>0, <1>9, <2>1, <2>2, GotoType DEF AccountOk, Typed, TypeOK, TriesLeft
  <1>10. ASSUME NEW r \in PamErrors, AccountRefused(h, r)
         PROVE  Typed'
    <2>1. canceled' \in [Helpers -> BOOLEAN] /\ canceled'[h] \in BOOLEAN
      BY <1>0, <1>10, ReturnsType DEF AccountRefused
    <2>2. Exit(h, FailExit(canceled'[h], r))
      BY <1>10 DEF AccountRefused, Result
    <2> QED
      BY <1>0, <1>10, <2>1, <2>2, FailExitFails, ExitType
         DEF AccountRefused, Typed, TypeOK, TriesLeft
  <1>11. ASSUME NEW r \in PamErrors, StartFails(h, r)
         PROVE  Typed'
    BY <1>0, <1>11, FailExitFails, ExitType
       DEF StartFails, Typed, TypeOK, TriesLeft
  <1>12. ASSUME NEW got \in 0..1, PromptFails(h, got)
         PROVE  Typed'
    <2>1. canceled' \in [Helpers -> BOOLEAN] /\ canceled'[h] \in BOOLEAN
      BY <1>0, <1>12 DEF PromptFails, TypeOK
    <2>2. PICK e \in ExitStatuses \cup {NoStatus, -SIGABRT, -SIGSEGV} : Exit(h, e)
      BY <1>12, <2>1, AbortFails DEF PromptFails, Result
    <2> QED
      BY <1>0, <1>12, <2>1, <2>2, ExitType DEF PromptFails, Typed, TypeOK, TriesLeft
  <1>13. CASE LibuserStart(h)
    BY <1>0, <1>13, AbortFails, GotoType, ExitType
       DEF LibuserStart, Typed, TypeOK, TriesLeft
  <1>14. CASE LookupFails(h)
    BY <1>0, <1>14, AbortFails, ExitType DEF LookupFails, Typed, TypeOK, TriesLeft
  <1>15. CASE Lookup(h)
    <2> DEFINE r == db[target[h]]
               new == call[h].new
    <2>1. r \in Record /\ new \in [Fields \cup {"shell"} -> Texts \cup {NoText}]
      BY <1>0, CallsAssumption DEF TypeOK, Call
    <2>2. Edited(r, new) \in Record
      BY <2>1, EditedType
    <2>3. found' \in [Helpers -> Record] /\ raced' \in [Helpers -> BOOLEAN]
      BY <1>0, <1>15, <2>1 DEF Lookup, TypeOK
    <2>4. ent' = ent \/ ent' = [ent EXCEPT ![h] = Edited(r, new)]
      BY <1>15 DEF Lookup
    <2>5. ent' \in [Helpers -> Record]
      BY <1>0, <2>2, <2>4 DEF TypeOK
    <2>6. (\E e \in Refusals : Exit(h, e)) \/ Goto(h, "modify")
      BY <1>15 DEF Lookup, Refusals
    <2>7. UNCHANGED <<db, password, repairs, call, target, tries, canceled,
                      proven, changed, grumbled>>
      BY <1>15 DEF Lookup
    <2> QED
      BY <1>0, <2>3, <2>5, <2>6, <2>7, RefusalsFail, GotoType, ExitType
         DEF Typed, TypeOK, TriesLeft
  <1>16. CASE Modify(h)
    <2>1. db' \in [Users -> Record] /\ raced' \in [Helpers -> BOOLEAN]
      BY <1>0, <1>16 DEF Modify, Write, At, TypeOK
    <2>2. PICK e \in ExitStatuses : Exit(h, e)
      BY <1>0, <1>16, AbortFails DEF Modify, ExitStatuses
    <2> QED
      BY <1>0, <1>16, <2>1, <2>2, ExitType DEF Modify, Typed, TypeOK, TriesLeft
  <1>17. CASE ModifyFails(h)
    BY <1>0, <1>17, AbortFails, ExitType DEF ModifyFails, Typed, TypeOK, TriesLeft
  <1> QED
    BY <1>1, <1>2, <1>3, <1>4, <1>5, <1>6, <1>7, <1>8, <1>9, <1>10, <1>11, <1>12,
       <1>13, <1>14, <1>15, <1>16, <1>17 DEF Step

LEMMA NextTyped == Typed /\ [Next]_vars => Typed'
  <1> SUFFICES ASSUME Typed, [Next]_vars PROVE Typed'
    OBVIOUS
  <1>1. CASE UNCHANGED vars
    BY <1>1 DEF vars, outside, private, auth, edited, verdict, Typed, TypeOK, TriesLeft
  <1>2. ASSUME NEW u \in Users, NEW r \in Repairs, Repair(u, r)
        PROVE  Typed'
    <2>1. r \in Record
      BY RecordAssumption
    <2>2. db' \in [Users -> Record] /\ raced' \in [Helpers -> BOOLEAN]
      BY <1>2, <2>1 DEF Repair, Write, At, Typed, TypeOK
    <2>3. repairs' \in 0..MaxRepairs
      BY <1>2, BoundAssumption DEF Repair, Typed, TypeOK
    <2> QED
      BY <1>2, <2>2, <2>3 DEF Repair, private, auth, verdict, Typed, TypeOK, TriesLeft
  <1> QED
    BY <1>1, <1>2, StepTyped DEF Next, AllDead

\* Every variable of every helper keeps its type, whatever fails.
THEOREM AccountTypeCorrect == Spec => []TypeOK
  <1>1. Typed => TypeOK
    BY DEF Typed
  <1> QED
    BY <1>1, InitTyped, NextTyped, PTL DEF Spec

-----------------------------------------------------------------------------
(* What has been earned, and what is said of it.                           *)

\* The PAM calls that have succeeded when a helper is at some place.
ProvenAt(place) ==
    IF place \in {"lu_start", "lookup", "modify"} THEN {"authenticate", "acct_mgmt"}
    ELSE IF place = "acct_mgmt" THEN {"authenticate"}
    ELSE {}

\* Before it ends a helper has changed nothing, has the successes that brought
\* it where it is, and has not been canceled.
Earning(h) ==
    /\ pc[h] # "dead" => ~changed[h] /\ proven[h] = ProvenAt(pc[h])
    /\ PamHonoursConv /\ (pc[h] # "dead" \/ changed[h]) => ~canceled[h]
    /\ changed[h] => proven[h] \in {{"chauthtok"}, {"authenticate", "acct_mgmt"}}
    /\ target[h] = call[h].by \/ call[h].by = "root"

\* The conjunct of StatusTruthful for one helper.
Truthful(h) ==
    pc[h] = "dead" => /\ status[h] = 0 => changed[h]
                      /\ changed[h] => status[h] = 0 \/ grumbled[h]

Control == \A h \in Helpers : Earning(h) /\ Truthful(h)

\* Everything that Control says of a helper stands in these.
Own(h) == <<pc[h], status[h], changed[h], grumbled[h], proven[h], canceled[h],
            target[h], call[h]>>

\* Another helper's step, or the administrator's, does not touch them.
LEMMA OthersOwn ==
    ASSUME Typed, NEW h \in Helpers, Step(h) \/ BadCall(h),
           NEW g \in Helpers, g # h
    PROVE  Own(g)' = Own(g)
  <1> USE DEF outside, private, auth, edited, verdict, Own, Exit, Goto, Typed, TypeOK
  <1>1. CASE BadCall(h)
    BY <1>1 DEF BadCall
  <1>2. CASE Main(h)
    BY <1>2 DEF Main
  <1>3. CASE Passwd(h) \/ Chfn(h) \/ LibuserStart(h) \/ LookupFails(h) \/ ModifyFails(h)
    BY <1>3 DEF Passwd, Chfn, LibuserStart, LookupFails, ModifyFails
  <1>4. CASE Chauthtok(h)
    BY <1>4 DEF Chauthtok, Returns, Proves
  <1>5. CASE Authenticated(h)
    BY <1>5 DEF Authenticated, Returns, Proves
  <1>6. CASE AccountOk(h)
    BY <1>6 DEF AccountOk, Returns, Proves
  <1>7. CASE Lookup(h)
    BY <1>7 DEF Lookup
  <1>8. CASE Modify(h)
    BY <1>8 DEF Modify
  <1>9. ASSUME NEW got \in 0..1, PromptFails(h, got)
        PROVE  Own(g)' = Own(g)
    BY <1>9 DEF PromptFails
  <1>10. ASSUME NEW r \in PamErrors,
                StartFails(h, r) \/ ChauthtokFails(h, r) \/ AuthRefused(h, r)
                  \/ AccountRefused(h, r)
         PROVE  Own(g)' = Own(g)
    BY <1>10 DEF StartFails, ChauthtokFails, AuthRefused, AccountRefused, Returns
  <1> QED
    BY <1>1, <1>2, <1>3, <1>4, <1>5, <1>6, <1>7, <1>8, <1>9, <1>10 DEF Step

\* A helper that ends with a failure, having changed nothing.
LEMMA Refused ==
    ASSUME Typed, NEW h \in Helpers, Earning(h), pc[h] # "dead",
           NEW s, s # 0, Exit(h, s), UNCHANGED <<changed, target, call>>
    PROVE  Earning(h)' /\ Truthful(h)'
  BY DEF Exit, Earning, Truthful, Typed, TypeOK

\* A helper that goes on, with the success that this takes.
LEMMA Continued ==
    ASSUME Typed, NEW h \in Helpers, Earning(h), pc[h] # "dead",
           NEW place, place # "dead", Goto(h, place),
           UNCHANGED <<changed, target, call>>,
           PamHonoursConv => ~canceled'[h], proven'[h] = ProvenAt(place)
    PROVE  Earning(h)' /\ Truthful(h)'
  BY DEF Goto, Earning, Truthful, Typed, TypeOK

\* If PAM honours its conversation, success means that nobody canceled.
LEMMA SuccessNotCanceled ==
    ASSUME Typed, NEW h \in Helpers, Earning(h), pc[h] # "dead", NEW place,
           Returns(h, place, "PAM_SUCCESS")
    PROVE  PamHonoursConv => ~canceled'[h]
  BY DEF Returns, Earning, Typed, TypeOK

LEMMA OwnControl ==
    ASSUME Typed, NEW h \in Helpers, Earning(h), Truthful(h), Step(h) \/ BadCall(h)
    PROVE  Earning(h)' /\ Truthful(h)'
  <1> USE DEF outside, private, auth, edited
  <1>0. canceled[h] \in BOOLEAN /\ PamHonoursConv \in BOOLEAN
    BY FlagAssumption DEF Typed, TypeOK
  <1>1. CASE BadCall(h)
    <2>1. PICK e \in {ERR_NO_RIGHTS, ERR_INVALID_CALL, ERR_UNK_ERROR} : Exit(h, e)
      BY <1>1 DEF BadCall
    <2>2. e # 0
      BY RefusalsFail DEF Refusals
    <2> QED
      BY <1>1, <2>1, <2>2, Refused DEF BadCall, At
  <1>2. CASE Main(h)
    <2>1. pc[h] = "main" /\ proven[h] = {} /\ ~changed[h]
      BY <1>2 DEF Main, At, Earning, ProvenAt
    <2>2. target'[h] = call[h].by \/ call[h].by = "root"
      BY <1>2 DEF Main, NamesUser, Earning, Typed, TypeOK
    <2>3. \/ \E e \in Refusals : Exit(h, e)
          \/ \E place \in {"passwd", "chfn"} : Goto(h, place)
      BY <1>2 DEF Main, Refusals
    <2>4. UNCHANGED <<call, changed, proven, canceled>>
      BY <1>2 DEF Main
    <2>5. CASE \E e \in Refusals : Exit(h, e)
      BY <2>1, <2>2, <2>4, <2>5, RefusalsFail
         DEF Exit, Earning, Truthful, Typed, TypeOK
    <2>6. CASE \E place \in {"passwd", "chfn"} : Goto(h, place)
      BY <2>1, <2>2, <2>4, <2>6 DEF Goto, Earning, Truthful, ProvenAt, Typed, TypeOK
    <2> QED
      BY <2>3, <2>5, <2>6
  <1>3. CASE Passwd(h)
    <2>1. proven'[h] = ProvenAt("chauthtok") /\ (PamHonoursConv => ~canceled'[h])
      BY <1>3 DEF Passwd, At, Earning, ProvenAt
    <2> QED
      BY <1>3, <2>1, Continued DEF Passwd, At
  <1>4. CASE Chauthtok(h)
    <2>1. PamHonoursConv => ~canceled'[h]
      BY <1>4, SuccessNotCanceled DEF Chauthtok, Returns, At
    <2>2. proven'[h] = {"chauthtok"} /\ changed'[h] = TRUE /\ pc'[h] = "dead"
      BY <1>4 DEF Chauthtok, Returns, Proves, Exit, At, Earning, ProvenAt, Typed, TypeOK
    <2>3. status'[h] = 0 \/ grumbled'[h] = TRUE
      BY <1>4 DEF Chauthtok, Exit, Typed, TypeOK
    <2>4. UNCHANGED <<call, target>>
      BY <1>4 DEF Chauthtok
    <2> QED
      BY <2>1, <2>2, <2>3, <2>4 DEF Earning, Truthful
  <1>5. ASSUME NEW r \in PamErrors,
               ChauthtokFails(h, r) \/ AuthRefused(h, r) \/ AccountRefused(h, r)
        PROVE  Earning(h)' /\ Truthful(h)'
    <2>1. canceled'[h] \in BOOLEAN
      BY <1>5, ReturnsType DEF ChauthtokFails, AuthRefused, AccountRefused, Typed
    <2>2. FailExit(canceled'[h], r) # 0
      BY <2>1, FailExitFails
    <2>3. pc[h] # "dead" /\ UNCHANGED <<changed, target, call>>
      BY <1>5 DEF ChauthtokFails, AuthRefused, AccountRefused, Returns, At
    <2>4. CASE Exit(h, FailExit(canceled'[h], r))
      BY <2>2, <2>3, <2>4, Refused
    <2>5. CASE UNCHANGED <<pc, status, proven>> /\ ~canceled'[h]
      BY <2>3, <2>5 DEF Earning, Truthful
    <2> QED
      BY <1>5, <2>4, <2>5 DEF ChauthtokFails, AuthRefused, AccountRefused, Result
  <1>6. CASE Chfn(h)
    <2>1. proven'[h] = ProvenAt("authenticate") /\ (PamHonoursConv => ~canceled'[h])
          /\ pc[h] # "dead" /\ UNCHANGED <<changed, target, call>>
      BY <1>6 DEF Chfn, At, Earning, ProvenAt
    <2>2. ERR_FIELDS_INVALID # 0
      BY DEF ERR_FIELDS_INVALID
    <2> QED
      BY <1>6, <2>1, <2>2, Continued, Refused DEF Chfn
  <1>7. CASE Authenticated(h)
    <2>1. pc[h] = "authenticate" /\ UNCHANGED <<changed, target, call>>
      BY <1>7 DEF Authenticated, Returns, At
    <2>2. CASE Proves(h, "authenticate") /\ Goto(h, "acct_mgmt")
      <3>1. PamHonoursConv => ~canceled'[h]
        BY <1>7, <2>1, SuccessNotCanceled DEF Authenticated
      <3>2. proven'[h] = ProvenAt("acct_mgmt")
        BY <2>1, <2>2 DEF Proves, Earning, ProvenAt, Typed, TypeOK
      <3> QED
        BY <2>1, <2>2, <3>1, <3>2, Continued
    <2>3. CASE ~(Proves(h, "authenticate") /\ Goto(h, "acct_mgmt"))
      <3>1. canceled'[h] \in BOOLEAN
        BY <1>7, ReturnsType DEF Authenticated, Typed
      <3>2. PICK e : e # 0 /\ Exit(h, e)
        BY <1>7, <2>3, <3>1, FailExitFails, RefusalsFail
           DEF Authenticated, Result, Refusals
      <3> QED
        BY <2>1, <3>2, Refused
    <2> QED
      BY <2>2, <2>3
  <1>8. CASE AccountOk(h)
    <2>1. pc[h] = "acct_mgmt" /\ UNCHANGED <<changed, target, call>>
      BY <1>8 DEF AccountOk, Returns, At
    <2>2. PamHonoursConv => ~canceled'[h]
      BY <1>8, <2>1, SuccessNotCanceled DEF AccountOk
    <2>3. proven'[h] = ProvenAt("lu_start")
      BY <1>8, <2>1 DEF AccountOk, Proves, Earning, ProvenAt, Typed, TypeOK
    <2> QED
      BY <1>8, <2>1, <2>2, <2>3, Continued DEF AccountOk
  <1>9. ASSUME NEW r \in PamErrors, StartFails(h, r)
        PROVE  Earning(h)' /\ Truthful(h)'
    BY <1>0, <1>9, FailExitFails, Refused DEF StartFails, At
  <1>10. ASSUME NEW got \in 0..1, PromptFails(h, got)
         PROVE  Earning(h)' /\ Truthful(h)'
    <2>1. canceled'[h] \in BOOLEAN
      BY <1>10 DEF PromptFails, Typed, TypeOK
    <2>2. PICK e : e # 0 /\ Exit(h, e)
      BY <1>10, <2>1, AbortFails, RefusalsFail DEF PromptFails, Result, Refusals
    <2> QED
      BY <1>10, <2>2, Refused DEF PromptFails, At
  <1>11. CASE LibuserStart(h)
    <2>1. proven'[h] = ProvenAt("lookup") /\ (PamHonoursConv => ~canceled'[h])
          /\ pc[h] # "dead" /\ UNCHANGED <<changed, target, call>>
      BY <1>11 DEF LibuserStart, At, Earning, ProvenAt
    <2> QED
      BY <1>0, <1>11, <2>1, AbortFails, Continued, Refused DEF LibuserStart
  <1>12. CASE LookupFails(h) \/ ModifyFails(h)
    <2>1. pc[h] # "dead" /\ UNCHANGED <<changed, target, call>>
      BY <1>12 DEF LookupFails, ModifyFails, At
    <2> QED
      BY <1>0, <1>12, <2>1, AbortFails, Refused DEF LookupFails, ModifyFails
  <1>13. CASE Lookup(h)
    <2>1. proven'[h] = ProvenAt("modify") /\ (PamHonoursConv => ~canceled'[h])
          /\ pc[h] # "dead" /\ UNCHANGED <<changed, target, call>>
      BY <1>13 DEF Lookup, At, Earning, ProvenAt
    <2>2. (\E e \in Refusals : Exit(h, e)) \/ Goto(h, "modify")
      BY <1>13 DEF Lookup, Refusals
    <2> QED
      BY <2>1, <2>2, RefusalsFail, Continued, Refused
  <1>14. CASE Modify(h)
    <2>1. /\ proven'[h] = {"authenticate", "acct_mgmt"}
          /\ PamHonoursConv => ~canceled'[h]
          /\ UNCHANGED <<call, target>>
      BY <1>14 DEF Modify, At, Earning, ProvenAt
    <2>2. changed'[h] = TRUE /\ pc'[h] = "dead" /\ (status'[h] = 0 \/ grumbled'[h] = TRUE)
      BY <1>14 DEF Modify, Exit, Typed, TypeOK
    <2> QED
      BY <2>1, <2>2 DEF Earning, Truthful
  <1> QED
    BY <1>1, <1>2, <1>3, <1>4, <1>5, <1>6, <1>7, <1>8, <1>9, <1>10, <1>11, <1>12,
       <1>13, <1>14 DEF Step

LEMMA NextControl == Typed /\ Control /\ [Next]_vars => Control'
  <1> SUFFICES ASSUME Typed, Control, [Next]_vars, NEW g \in Helpers
               PROVE  Earning(g)' /\ Truthful(g)'
    BY DEF Control
  <1>1. CASE Own(g)' = Own(g)
    BY <1>1 DEF Control, Own, Earning, Truthful
  <1>2. ASSUME NEW h \in Helpers, Step(h) \/ BadCall(h)
        PROVE  Earning(g)' /\ Truthful(g)'
    BY <1>1, <1>2, OthersOwn, OwnControl DEF Control
  <1>3. ASSUME NEW u \in Users, NEW r \in Repairs, Repair(u, r)
        PROVE  Earning(g)' /\ Truthful(g)'
    BY <1>1, <1>3 DEF Repair, Own, private, auth, verdict
  <1>4. CASE UNCHANGED vars
    BY <1>1, <1>4 DEF vars, Own, private, auth, verdict
  <1> QED
    BY <1>2, <1>3, <1>4 DEF Next, AllDead

LEMMA InitControl == Init => Control
  BY DEF Init, Control, Earning, Truthful, ProvenAt, NoStatus

\* An account is changed only by who may, and only after the PAM calls before
\* the change have succeeded and nobody canceled (passwd(), chfn()).
THEOREM AccountChangesEarned == Spec => []ChangesEarned
  <1>1. Typed /\ Control => ChangesEarned
    BY DEF Control, Earning, ChangesEarned
  <1> QED
    BY <1>1, InitTyped, NextTyped, InitControl, NextControl, PTL DEF Spec

\* A helper exits with 0 exactly if it changed the account, but for libraries
\* that report an error for what they did (fail_exit() and its callers).
THEOREM AccountStatusTruthful == Spec => []StatusTruthful
  <1>1. Control => StatusTruthful
    BY DEF Control, Truthful, StatusTruthful, At
  <1> QED
    BY <1>1, InitTyped, NextTyped, InitControl, NextControl, PTL DEF Spec

-----------------------------------------------------------------------------
(* What is saved.                                                          *)

\* What a helper is about to save is what it found, edited; and unless it was
\* overtaken that is still what there is.
Prepared(h) ==
    pc[h] = "modify" =>
        /\ ent[h] = Edited(found[h], call[h].new)
        /\ call[h].new["shell"] # NoText =>
              ShellChangeValid(found[h].shell, call[h].new["shell"])
        /\ ~raced[h] => found[h] = db[target[h]]

Data == \A h \in Helpers : Prepared(h)

\* The steps between which nothing is written or looked up.
LEMMA OtherSteps ==
    ASSUME Typed, NEW h \in Helpers, Step(h) \/ BadCall(h), ~Lookup(h), ~Modify(h)
    PROVE  UNCHANGED <<db, found, ent, raced, call>> /\ pc'[h] # "modify"
  <1> USE DEF outside, private, auth, edited, Exit, Goto, At, Typed, TypeOK
  <1>1. CASE BadCall(h) \/ Main(h) \/ Passwd(h) \/ Chfn(h)
    BY <1>1 DEF BadCall, Main, Passwd, Chfn
  <1>2. CASE Chauthtok(h) \/ Authenticated(h) \/ AccountOk(h)
    BY <1>2 DEF Chauthtok, Authenticated, AccountOk
  <1>3. CASE LibuserStart(h) \/ LookupFails(h) \/ ModifyFails(h)
    BY <1>3 DEF LibuserStart, LookupFails, ModifyFails
  <1>4. ASSUME NEW got \in 0..1, PromptFails(h, got)
        PROVE  UNCHANGED <<db, found, ent, raced, call>> /\ pc'[h] # "modify"
    BY <1>4 DEF PromptFails
  <1>5. ASSUME NEW r \in PamErrors,
               StartFails(h, r) \/ ChauthtokFails(h, r) \/ AuthRefused(h, r)
                 \/ AccountRefused(h, r)
        PROVE  UNCHANGED <<db, found, ent, raced, call>> /\ pc'[h] # "modify"
    BY <1>5 DEF StartFails, ChauthtokFails, AuthRefused, AccountRefused, Returns
  <1> QED
    BY <1>1, <1>2, <1>3, <1>4, <1>5 DEF Step

\* Whoever writes a record overtakes those who have looked it up.
LEMMA WriteOvertakes ==
    ASSUME Typed, NEW u \in Users, NEW r, Write(u, r), NEW g \in Helpers, Prepared(g),
           UNCHANGED <<found, ent, call>>, target'[g] = target[g],
           pc'[g] = pc[g]
    PROVE  Prepared(g)'
  <1>1. raced'[g] = (raced[g] \/ (pc[g] = "modify" /\ target[g] = u))
    BY DEF Write, At
  <1>2. target[g] # u => db'[target[g]] = db[target[g]]
    BY DEF Write, Typed, TypeOK
  <1> QED
    BY <1>1, <1>2 DEF Prepared

LEMMA NextData == Typed /\ Data /\ [Next]_vars => Data'
  <1> SUFFICES ASSUME Typed, Data, [Next]_vars, NEW g \in Helpers
               PROVE  Prepared(g)'
    BY DEF Data
  <1> USE DEF outside, private, auth, edited
  <1>0. Prepared(g) /\ target[g] \in Users
    BY DEF Data, Typed, TypeOK
  <1>1. ASSUME NEW h \in Helpers, Lookup(h)
        PROVE  Prepared(g)'
    <2>1. CASE g = h /\ pc'[h] = "modify"
      <3>1. UNCHANGED <<db, target, call>> /\ Goto(h, "modify")
        BY <1>1, <2>1 DEF Lookup, Exit, Typed, TypeOK
      <3>2. found'[h] = db[target[h]]
        BY <1>1 DEF Lookup, Typed, TypeOK
      <3>3. /\ ent'[h] = Edited(db[target[h]], call[h].new)
            /\ call[h].new["shell"] # NoText =>
                 ShellChangeValid(db[target[h]].shell, call[h].new["shell"])
        BY <1>1, <2>1 DEF Lookup, Exit, Typed, TypeOK
      <3> QED
        BY <2>1, <3>1, <3>2, <3>3 DEF Prepared
    <2>2. CASE g = h /\ pc'[h] # "modify"
      BY <2>2 DEF Prepared
    <2>3. CASE g # h
      BY <1>0, <1>1, <2>3 DEF Lookup, Exit, Goto, Prepared, Typed, TypeOK
    <2> QED
      BY <2>1, <2>2, <2>3
  <1>2. ASSUME NEW h \in Helpers, Modify(h)
        PROVE  Prepared(g)'
    <2>1. CASE g = h
      BY <1>2, <2>1 DEF Modify, Exit, Prepared, Typed, TypeOK
    <2>2. CASE g # h
      <3>1. Write(target[h], ent[h]) /\ UNCHANGED <<found, ent, call, target>>
        BY <1>2 DEF Modify
      <3>2. pc'[g] = pc[g] /\ target[h] \in Users
        BY <1>2, <2>2 DEF Modify, Exit, Typed, TypeOK
      <3> QED
        BY <1>0, <3>1, <3>2, WriteOvertakes
    <2> QED
      BY <2>1, <2>2
  <1>3. ASSUME NEW h \in Helpers, Step(h) \/ BadCall(h), ~Lookup(h), ~Modify(h)
        PROVE  Prepared(g)'
    <2>1. UNCHANGED <<db, found, ent, raced, call>> /\ pc'[h] # "modify"
      BY <1>3, OtherSteps
    <2>2. g # h => pc'[g] = pc[g] /\ target'[g] = target[g]
      BY <1>3, OthersOwn DEF Own
    <2> QED
      BY <1>0, <2>1, <2>2 DEF Prepared
  <1>4. ASSUME NEW u \in Users, NEW r \in Repairs, Repair(u, r)
        PROVE  Prepared(g)'
    <2>1. Write(u, r) /\ UNCHANGED <<found, ent, call, target, pc>>
      BY <1>4 DEF Repair
    <2> QED
      BY <1>0, <2>1, WriteOvertakes
  <1>5. CASE UNCHANGED vars
    BY <1>0, <1>5 DEF vars, Prepared
  <1> QED
    BY <1>1, <1>2, <1>3, <1>4, <1>5 DEF Next, AllDead

LEMMA InitData == Init => Data
  BY DEF Init, Data, Prepared

\* The step in which a helper saves is the return of lu_user_modify().
LEMMA SavesIsModify ==
    ASSUME Typed, [Next]_vars, NEW h \in Helpers, Saves(h)
    PROVE  Modify(h)
  <1>0. pc[h] = "modify" /\ changed'[h] # changed[h]
    BY DEF Saves, At, Typed, TypeOK
  <1>1. ASSUME NEW g \in Helpers, Step(g) \/ BadCall(g)
        PROVE  Modify(h)
    <2>1. g = h
      BY <1>0, <1>1, OthersOwn DEF Own
    <2>2. ~ModifyFails(h)
      BY <1>0 DEF ModifyFails
    <2> QED
      BY <1>0, <1>1, <2>1, <2>2
         DEF Step, BadCall, Main, Passwd, Chauthtok, Chfn, Authenticated, AccountOk,
             PromptFails, LibuserStart, LookupFails, Lookup, StartFails,
             ChauthtokFails, AuthRefused, AccountRefused, Returns, At
  <1>2. ASSUME NEW u \in Users, NEW r \in Repairs, Repair(u, r)
        PROVE  Modify(h)
    BY <1>0, <1>2 DEF Repair, verdict
  <1>3. CASE UNCHANGED vars
    BY <1>0, <1>3 DEF vars, verdict
  <1> QED
    BY <1>1, <1>2, <1>3 DEF Next, AllDead

\* What a save leaves behind.
LEMMA SaveIs ==
    ASSUME Typed, Data, [Next]_vars, NEW h \in Helpers, Saves(h)
    PROVE  /\ found[h] \in Record
           /\ call[h].new \in [Fields \cup {"shell"} -> Texts \cup {NoText}]
           /\ db'[target[h]] = Edited(found[h], call[h].new)
           /\ \A v \in Users \ {target[h]} : db'[v] = db[v]
           /\ call[h].new["shell"] # NoText =>
                 ShellChangeValid(found[h].shell, call[h].new["shell"])
           /\ ~raced[h] => found[h] = db[target[h]]
  <1>1. Modify(h)
    BY SavesIsModify
  <1>2. pc[h] = "modify" /\ Prepared(h)
    BY DEF Saves, At, Data
  <1>3. target[h] \in Users /\ found[h] \in Record
    BY DEF Typed, TypeOK
  <1>4. db' = [db EXCEPT ![target[h]] = ent[h]]
    BY <1>1 DEF Modify, Write
  <1>5. call[h].new \in [Fields \cup {"shell"} -> Texts \cup {NoText}]
    BY CallsAssumption DEF Typed, TypeOK, Call
  <1>6. db'[target[h]] = ent[h] /\ \A v \in Users \ {target[h]} : db'[v] = db[v]
    BY <1>3, <1>4 DEF Typed, TypeOK
  <1> QED
    BY <1>2, <1>3, <1>5, <1>6 DEF Prepared

\* In terms of what finger(1) and the shell see, for any field.
LEMMA SaveShows ==
    ASSUME Typed, Data, [Next]_vars, NEW h \in Helpers, Saves(h),
           NEW f \in Fields, NEW u \in Users, u = target[h],
           NEW new, new = call[h].new
    PROVE  /\ Shown(db'[u], f) = IF new[f] # NoText THEN new[f] ELSE Shown(found[h], f)
           /\ GecosParse(db'[u].gecos).site_info =
                 Stripped(GecosParse(found[h].gecos).site_info)
           /\ db'[u].shell =
                 IF new["shell"] # NoText THEN new["shell"] ELSE found[h].shell
           /\ new[f] # NoText \/ GecosParse(found[h].gecos).fields[f] # NoText
                 => db'[u].attrs[f] = Shown(db'[u], f)
           /\ \A v \in Users \ {u} : db'[v] = db[v]
           /\ ~raced[h] => found[h] = db[u]
  <1>1. /\ found[h] \in Record
        /\ new \in [Fields \cup {"shell"} -> Texts \cup {NoText}]
        /\ db'[u] = Edited(found[h], new)
        /\ \A v \in Users \ {u} : db'[v] = db[v]
        /\ ~raced[h] => found[h] = db[u]
    BY SaveIs
  <1> QED
    BY <1>1, EditedShows

\* chfn() saves the record that it found with just the given fields and shell
\* replaced, through splitting and assembling the GECOS string.
THEOREM AccountSavesWhatWasAsked == Spec => SavesWhatWasAsked
  <1>1. Typed /\ Data /\ [Next]_vars =>
          [\A h \in Helpers : Saves(h) =>
            LET u == target[h]
                new == call[h].new IN
            /\ \A f \in Fields : Shown(db'[u], f) =
                  IF new[f] # NoText THEN new[f] ELSE Shown(found[h], f)
            /\ GecosParse(db'[u].gecos).site_info =
                  Stripped(GecosParse(found[h].gecos).site_info)
            /\ db'[u].shell =
                  IF new["shell"] # NoText THEN new["shell"] ELSE found[h].shell
            /\ \A f \in Fields :
                  new[f] # NoText \/ GecosParse(found[h].gecos).fields[f] # NoText
                  => db'[u].attrs[f] = Shown(db'[u], f)
            /\ \A v \in Users \ {u} : db'[v] = db[v]]_vars
    <2> SUFFICES ASSUME Typed, Data, [Next]_vars, NEW h \in Helpers, Saves(h)
                 PROVE  LET u == target[h]
                            new == call[h].new IN
            /\ \A f \in Fields : Shown(db'[u], f) =
                  IF new[f] # NoText THEN new[f] ELSE Shown(found[h], f)
            /\ GecosParse(db'[u].gecos).site_info =
                  Stripped(GecosParse(found[h].gecos).site_info)
            /\ db'[u].shell =
                  IF new["shell"] # NoText THEN new["shell"] ELSE found[h].shell
            /\ \A f \in Fields :
                  new[f] # NoText \/ GecosParse(found[h].gecos).fields[f] # NoText
                  => db'[u].attrs[f] = Shown(db'[u], f)
            /\ \A v \in Users \ {u} : db'[v] = db[v]
      OBVIOUS
    <2>1. "full_name" \in Fields
      BY FieldNumbers DEF FieldNames
    <2>2. target[h] \in Users
      BY DEF Typed, TypeOK
    <2> QED
      BY <2>1, <2>2, SaveShows
  <1> QED
    BY <1>1, InitTyped, NextTyped, InitData, NextData, PTL DEF Spec, SavesWhatWasAsked

\* A helper that nobody overtook between lookup and save leaves everything it
\* was not asked to change as it is at that moment.
THEOREM AccountUndoesNothing == Spec => UndoesNothing
  <1>1. Typed /\ Data /\ [Next]_vars =>
          [\A h \in Helpers : Saves(h) /\ ~raced[h] =>
            LET u == target[h]
                new == call[h].new IN
            /\ \A f \in Fields : new[f] = NoText => Shown(db'[u], f) = Shown(db[u], f)
            /\ new["shell"] = NoText => db'[u].shell = db[u].shell]_vars
    <2> SUFFICES ASSUME Typed, Data, [Next]_vars, NEW h \in Helpers, Saves(h), ~raced[h]
                 PROVE  LET u == target[h]
                            new == call[h].new IN
            /\ \A f \in Fields : new[f] = NoText => Shown(db'[u], f) = Shown(db[u], f)
            /\ new["shell"] = NoText => db'[u].shell = db[u].shell
      OBVIOUS
    <2>1. "full_name" \in Fields
      BY FieldNumbers DEF FieldNames
    <2>2. target[h] \in Users
      BY DEF Typed, TypeOK
    <2> QED
      BY <2>1, <2>2, SaveShows
  <1> QED
    BY <1>1, InitTyped, NextTyped, InitData, NextData, PTL DEF Spec, UndoesNothing

\* chsh takes no valid shell away and gives none to who had no valid one
\* (shell_valid() of both).
THEOREM AccountShellsStayValid == Spec => ShellsStayValid
  <1>1. Typed /\ Data /\ [Next]_vars =>
          [\A h \in Helpers : Saves(h) /\ call[h].new["shell"] # NoText =>
            LET old == found[h].shell IN
            /\ ShellValid(db'[target[h]].shell)
            /\ old = NoText \/ ShellValid(old)]_vars
    <2> SUFFICES ASSUME Typed, Data, [Next]_vars, NEW h \in Helpers, Saves(h),
                        call[h].new["shell"] # NoText
                 PROVE  /\ ShellValid(db'[target[h]].shell)
                        /\ found[h].shell = NoText \/ ShellValid(found[h].shell)
      OBVIOUS
    <2>1. "full_name" \in Fields
      BY FieldNumbers DEF FieldNames
    <2>2. target[h] \in Users
      BY DEF Typed, TypeOK
    <2>3. db'[target[h]].shell = call[h].new["shell"]
      BY <2>1, <2>2, SaveShows
    <2> QED
      BY <2>3, SaveIs DEF ShellChangeValid
  <1> QED
    BY <1>1, InitTyped, NextTyped, InitData, NextData, PTL DEF Spec, ShellsStayValid
=============================================================================
