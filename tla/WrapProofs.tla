----------------------------- MODULE WrapProofs -----------------------------
(***************************************************************************)
(* Theorems about Wrap, for every configuration, every behaviour of PAM,   *)
(* of the user and of the program, and whoever may be killed.              *)
(*                                                                         *)
(* First its types, and that the program runs with the identity that the   *)
(* PAM calls earned and never after a cancellation.                        *)
(*                                                                         *)
(* Then what is between consolehelper and userhelper in every state, and   *)
(* what follows from it: the program runs only acknowledged, both sides    *)
(* agree on whose status the helper's is, no message is lost or answered   *)
(* twice, and, as long as nobody is killed, Wrap keeps the promise that    *)
(* WrapContract states.  PamHonoursConv is assumed for these: a PAM stack  *)
(* that goes on after a canceled conversation meets the left-over reply.   *)
(***************************************************************************)
EXTENDS Wrap, WrapRefinement, FiniteSetTheorems, TLAPS

USE DEF Procs

-----------------------------------------------------------------------------
(* Data.                                                                   *)

\* fail_exit() turns every PAM failure into an exit status.
LEMMA FailExitType ==
    ASSUME NEW c \in BOOLEAN, NEW r \in PamFailures
    PROVE  FailExit(c, r) \in ExitStatuses
BY DEF FailExit, PamFailures, PamStatus, ExitStatuses, ERR_CANCELED,
       ERR_PAM_INT_ERROR, ERR_PASSWD_INVALID, ERR_LOCKS, ERR_NO_RIGHTS,
       ERR_NO_USER, ERR_MAX_TRIES, ERR_SHELL_INVALID, ERR_UNK_ERROR

\* 128+n of a signal n is an exit status too.
LEMMA ChildStatusType ==
    ASSUME exitcode["child"] \in ExitStatuses \cup Signals
    PROVE  ChildStatus \in ExitStatuses
BY DEF ChildStatus, ExitStatuses, Signals, SIGKILL, SIGPIPE

\* The statuses that the helper's own steps use.
LEMMA StatusType ==
    {0, ERR_NO_PROGRAM, ERR_UNK_ERROR, ERR_NO_RIGHTS, ERR_NO_USER,
     ERR_INVALID_CALL, ERR_EXEC_FAILED} \subseteq ExitStatuses
BY DEF ERR_NO_PROGRAM, ERR_UNK_ERROR, ERR_NO_RIGHTS, ERR_NO_USER,
       ERR_INVALID_CALL, ERR_EXEC_FAILED, ExitStatuses

\* The signals that end a process here.
LEMMA SignalsType == -SIGKILL \in Signals /\ -SIGPIPE \in Signals
BY DEF Signals

\* The requests are requests.
LEMMA RequestType ==
    /\ \A op \in {"EXEC_START", "EXEC_FAILED"} : ExecRequest(op) \in Request
    /\ \A b \in BOOLEAN, p, t \in Nat : ConverseRequest(b, p, t) \in Request
BY DEF ExecRequest, ConverseRequest, Request

\* Putting back what was not read of a reply leaves a pipe of replies.
LEMMA PutBackType ==
    ASSUME NEW s \in Seq(Reply), s # <<>>, NEW n \in Nat
    PROVE  /\ Tail(s) \in Seq(Reply)
           /\ <<OkReply(n)>> \o Tail(s) \in Seq(Reply)
<1>1. OkReply(n) \in Reply
  BY DEF OkReply, Reply
<1>2. Tail(s) \in Seq(Reply)
  OBVIOUS
<1>3. QED BY <1>1, <1>2

-----------------------------------------------------------------------------
(* Type correctness: the helper's side.                                    *)

Moves ==
    /\ pc' \in [Procs -> PCs]
    /\ exitcode' \in [Procs -> ExitStatuses \cup Signals]

\* A process that exits stays in the type of pc and exitcode.
LEMMA DieType ==
    ASSUME TypeImage, NEW w \in Procs, NEW s \in ExitStatuses \cup Signals,
           Die(w, s)
    PROVE  Moves
BY DEF TypeImage, Die, PCs, Moves

\* So does one that goes on.
LEMMA GotoType ==
    ASSUME TypeImage, NEW w \in Procs, NEW p \in PCs, Goto(w, p)
    PROVE  Moves
BY DEF TypeImage, Goto, Moves

\* Sending a request keeps the pipe well typed.
LEMMA SendType ==
    ASSUME TypeImage, TypePipes, NEW w \in Procs, NEW p \in PCs,
           NEW req \in Request, SendRequest(w, req, p)
    PROVE  Moves /\ toParent' \in Seq(Request)
BY DieType, GotoType, SignalsType DEF SendRequest, TypePipes

\* Taking an announcement back does, too.
LEMMA ExecFailedType ==
    ASSUME TypeImage, TypePipes, NEW w \in Procs, NEW s \in ExitStatuses,
           ExecFailed(w, s)
    PROVE  Moves /\ toParent' \in Seq(Request)
<1>1. CASE ~conf.gui
  BY <1>1, DieType DEF ExecFailed, TypePipes
<1>2. CASE conf.gui /\ ppc = "gone"
  BY <1>2, DieType, SignalsType DEF ExecFailed, TypePipes
<1>3. CASE conf.gui /\ ppc # "gone"
  <2>1. Moves
    BY <1>3 DEF ExecFailed, TypeImage, PCs, Moves
  <2>2. toParent' = Append(toParent, ExecRequest("EXEC_FAILED"))
    BY <1>3 DEF ExecFailed
  <2>3. QED BY <2>1, <2>2, RequestType DEF TypePipes
<1>4. QED BY <1>1, <1>2, <1>3

\* Entering a PAM call starts its bookkeeping afresh.
LEMMA CallType ==
    ASSUME TypeImage, TypeConvo, NEW p \in PamCalls, Call(p)
    PROVE  Moves /\ TypeConvo'
<1>1. Goto("helper", p) /\ p \in PCs
  BY DEF Call, PCs
<1>2. Moves
  BY <1>1, GotoType
<1>3. TypeConvo'
  <2>1. 0 \in 0..MaxConv
    BY MaxConvAssumption
  <2>2. /\ convs' = 0
        /\ convFailed' = FALSE
        /\ UNCHANGED <<waiting, expected, canceled, fallbackChosen>>
    BY DEF Call
  <2>3. QED BY <2>1, <2>2 DEF TypeConvo
<1>4. QED BY <1>2, <1>3

\* Steps of the helper keep its own state well typed.
LEMMA HelperImage ==
    ASSUME TypeOK, HelperStep
    PROVE  TypeImage'
<1> USE DieType, GotoType, CallType, SendType, ExecFailedType, FailExitType,
        StatusType, PamAssumption DEF TypeOK, PamCalls
<1>a. ASSUME Moves, UNCHANGED <<conf, ran, kills>>,
             milestones' \subseteq PamCalls \cup {"nogui"}, tries' \in Int
      PROVE  TypeImage'
  BY <1>a DEF TypeImage, Moves
<1>b. /\ PamCalls \subseteq PCs
      /\ {"lookup", "nogui_wait", "exec_start"} \subseteq PCs
  BY DEF PCs
<1>c. \A m \in PamCalls :
         Milestone(m) => milestones' \subseteq PamCalls \cup {"nogui"}
  BY DEF TypeImage, Milestone
<1>d. /\ milestones \subseteq PamCalls \cup {"nogui"}
      /\ tries \in Int /\ tries - 1 \in Int
      /\ canceled \in BOOLEAN
  BY DEF TypeImage, TypeConvo
<1> USE <1>a, <1>b, <1>c, <1>d
<1>1. CASE \E status \in ExitStatuses :
             RefuseStart(status) \/ LookupFails(status)
  BY <1>1 DEF RefuseStart, LookupFails
<1>2. CASE StartGui
  BY <1>2 DEF StartGui
<1>3. CASE StartNoGui
  BY <1>3, RequestType DEF StartNoGui
<1>4. CASE LookupDone
  <2>1. conf.retry \in Retries
    BY DEF TypeImage, Conf
  <2>2. conf.retry \in Int
    BY <2>1, RetriesAssumption
  <2>3. conf.retry + 1 \in Int
    BY <2>2
  <2>4. QED BY <1>4, <2>3 DEF LookupDone
<1>5. CASE ConverseCanceled \/ ReadCancel \/ ReadFallback \/ ReadAnswers
           \/ ReadEof
  BY <1>5 DEF ConverseCanceled, ReadCancel, ReadFallback, ReadAnswers,
              ReadEof, image, TypeImage
<1>6. CASE \E shape \in Shapes : Converse(shape[1], shape[2])
  <2>1. PICK shape \in Shapes : Converse(shape[1], shape[2])
    BY <1>6
  <2>2. ConverseRequest(conf.fallback, shape[1], shape[2]) \in Request
    BY RequestType, ShapesAssumption DEF TypeImage, Conf
  <2>3. pc["helper"] \in PCs
    BY <2>1 DEF Converse, MayConverse
  <2>4. QED BY <2>1, <2>2, <2>3 DEF Converse
<1>7. CASE Authenticated
  BY <1>7 DEF Authenticated, Returned
<1>8. CASE \E r \in PamErrors : AuthRetry(r)
  BY <1>8 DEF AuthRetry, Returned
<1>9. CASE \E r \in PamErrors : AuthGivesUp(r)
  BY <1>9 DEF AuthGivesUp, Returned
<1>10. CASE \E r \in PamErrors : \E call \in PamCalls : CallFails(call, r)
  BY <1>10 DEF CallFails, Returned
<1>11. CASE \E r \in PamErrors : SessionCloseFails(r)
  BY <1>11 DEF SessionCloseFails, Returned
<1>12. CASE AccountOk
  BY <1>12 DEF AccountOk, Returned
<1>13. CASE SessionOpened
  BY <1>13 DEF SessionOpened, Returned
<1>14. CASE CredEstablished
  BY <1>14 DEF CredEstablished, Moves, TypeImage, PCs, Returned
<1>15. CASE ChildReaped
  BY <1>15 DEF ChildReaped
<1>16. CASE SessionClosed
  BY <1>16, ChildStatusType DEF SessionClosed, TypeImage, Returned
<1>17. QED
  BY <1>1, <1>2, <1>3, <1>4, <1>5, <1>6, <1>7, <1>8, <1>9, <1>10, <1>11,
     <1>12, <1>13, <1>14, <1>15, <1>16 DEF HelperStep

\* Steps of the helper keep the conversation's state well typed.
LEMMA HelperConvo ==
    ASSUME TypeOK, HelperStep
    PROVE  TypeConvo'
<1> USE CallType DEF TypeOK, PamCalls
<1>a. ASSUME UNCHANGED convo PROVE TypeConvo'
  BY <1>a DEF convo, TypeConvo
<1> USE <1>a
<1>1. CASE \E status \in ExitStatuses :
             RefuseStart(status) \/ LookupFails(status)
  BY <1>1 DEF RefuseStart, LookupFails
<1>2. CASE StartGui \/ StartNoGui
  BY <1>2 DEF StartGui, StartNoGui
<1>3. CASE LookupDone
  BY <1>3 DEF LookupDone
<1>4. CASE ConverseCanceled
  <2>1. convs + 1 \in 0..MaxConv
    BY <1>4, MaxConvAssumption DEF ConverseCanceled, MayConverse, TypeConvo
  <2>2. QED BY <1>4, <2>1 DEF ConverseCanceled, TypeConvo
<1>5. CASE \E shape \in Shapes : Converse(shape[1], shape[2])
  <2>1. PICK shape \in Shapes : Converse(shape[1], shape[2])
    BY <1>5
  <2>2. convs + 1 \in 0..MaxConv
    BY <2>1, MaxConvAssumption DEF Converse, MayConverse, TypeConvo
  <2>3. shape[1] \in Nat
    BY ShapesAssumption
  <2>4. QED BY <2>1, <2>2, <2>3 DEF Converse, TypeConvo
<1>6. CASE ReadCancel \/ ReadFallback \/ ReadAnswers \/ ReadEof
  BY <1>6 DEF ReadCancel, ReadFallback, ReadAnswers, ReadEof, TypeConvo
<1>7. CASE Authenticated \/ AccountOk \/ SessionOpened \/ CredEstablished
           \/ SessionClosed \/ ChildReaped
  BY <1>7 DEF Authenticated, AccountOk, SessionOpened, CredEstablished,
              SessionClosed, ChildReaped
<1>8. CASE \E r \in PamErrors : \/ AuthRetry(r)
                                \/ AuthGivesUp(r)
                                \/ \E call \in PamCalls : CallFails(call, r)
                                \/ SessionCloseFails(r)
  BY <1>8 DEF AuthRetry, AuthGivesUp, CallFails, SessionCloseFails
<1>9. QED
  BY <1>1, <1>2, <1>3, <1>4, <1>5, <1>6, <1>7, <1>8 DEF HelperStep

\* Steps of the helper keep the pipes well typed.
LEMMA HelperPipes ==
    ASSUME TypeOK, HelperStep
    PROVE  TypePipes'
<1> USE DEF TypeOK, TypePipes
<1>a. ASSUME UNCHANGED pipes PROVE TypePipes'
  BY <1>a DEF pipes
<1> USE <1>a
<1>1. CASE \E status \in ExitStatuses :
             RefuseStart(status) \/ LookupFails(status)
  BY <1>1 DEF RefuseStart, LookupFails
<1>2. CASE StartGui \/ LookupDone \/ ConverseCanceled \/ ReadEof
           \/ Authenticated \/ AccountOk \/ SessionOpened
           \/ CredEstablished \/ ChildReaped \/ SessionClosed
  BY <1>2 DEF StartGui, LookupDone, ConverseCanceled, ReadEof, Authenticated,
              AccountOk, SessionOpened, CredEstablished, ChildReaped,
              SessionClosed
<1>3. CASE StartNoGui
  BY <1>3, SendType, RequestType DEF StartNoGui, PCs
<1>4. CASE \E shape \in Shapes : Converse(shape[1], shape[2])
  <2>1. PICK shape \in Shapes : Converse(shape[1], shape[2])
    BY <1>4
  <2>2. ConverseRequest(conf.fallback, shape[1], shape[2]) \in Request
    BY RequestType, ShapesAssumption DEF TypeImage, Conf
  <2>3. pc["helper"] \in PCs
    BY <2>1 DEF Converse, MayConverse, PCs
  <2>4. QED BY <2>1, <2>2, <2>3, SendType DEF Converse
<1>5. CASE ReadCancel
  BY <1>5, PutBackType DEF ReadCancel, Reading
<1>6. CASE ReadFallback
  BY <1>6, PutBackType DEF ReadFallback, Reading
<1>7. CASE ReadAnswers
  <2>1. toChild # <<>> /\ Head(toChild).texts \in Nat /\ expected \in Nat
    <3>1. toChild # <<>>
      BY <1>7 DEF ReadAnswers, Reading
    <3>2. Head(toChild) \in Reply
      BY <3>1
    <3>3. QED BY <3>1, <3>2 DEF Reply, TypeConvo
  <2>2. Head(toChild).texts > expected =>
           Head(toChild).texts - expected - 1 \in Nat
    BY <2>1
  <2>3. QED BY <1>7, <2>1, <2>2, PutBackType DEF ReadAnswers
<1>8. CASE \E r \in PamErrors : \/ AuthRetry(r)
                                \/ AuthGivesUp(r)
                                \/ \E call \in PamCalls : CallFails(call, r)
  BY <1>8 DEF AuthRetry, AuthGivesUp, CallFails
<1>9. CASE \E r \in PamErrors : SessionCloseFails(r)
  BY <1>9, ExecFailedType, FailExitType, PamAssumption
     DEF SessionCloseFails, TypeConvo
<1>10. QED
  BY <1>1, <1>2, <1>3, <1>4, <1>5, <1>6, <1>7, <1>8, <1>9 DEF HelperStep

\* The helper does not touch the front end.
LEMMA HelperFrame == HelperStep => UNCHANGED front
BY DEF HelperStep, RefuseStart, LookupFails, StartGui, StartNoGui, LookupDone,
       ConverseCanceled, Converse, ReadCancel, ReadFallback, ReadAnswers,
       ReadEof, Authenticated, AuthRetry, AuthGivesUp, CallFails,
       SessionCloseFails, AccountOk, SessionOpened, CredEstablished,
       ChildReaped, SessionClosed

\* A step of the helper preserves the type invariant.
LEMMA HelperType == TypeOK /\ HelperStep => TypeOK'
<1>1. ASSUME TypeOK, UNCHANGED front PROVE TypeFront' /\ TypeEnding'
  BY <1>1 DEF TypeOK, front, asked, ending, TypeFront, TypeEnding
<1>2. QED
  BY <1>1, HelperImage, HelperConvo, HelperPipes, HelperFrame DEF TypeOK

-----------------------------------------------------------------------------
(* Type correctness: running the program, the front end, the outside.      *)

\* Reading one reply keeps the pipe to the helper well typed.
LEMMA SyncReadType ==
    ASSUME TypePipes, SyncRead
    PROVE  toChild' \in Seq(Reply)
<1>1. ASSUME toChild # <<>> PROVE Tail(toChild) \in Seq(Reply)
  BY <1>1, PutBackType DEF TypePipes
<1>2. QED BY <1>1 DEF TypePipes, SyncRead

\* A step towards the program preserves the type invariant.
LEMMA RunnerType ==
    ASSUME TypeOK, NEW w \in Procs, RunnerStep(w)
    PROVE  TypeOK'
<1> USE DEF TypeOK
<1>a. UNCHANGED <<convo, front, conf, tries, kills>>
  BY DEF RunnerStep, IdentityRefused, ExecStart, WaitForSync, Exec,
         ExecRefused, FailWait
<1>b. TypeConvo' /\ TypeFront' /\ TypeEnding'
  BY <1>a DEF convo, front, asked, ending, TypeConvo, TypeFront, TypeEnding
<1>c. ASSUME Moves, milestones' \subseteq PamCalls \cup {"nogui"},
             ran' \in {"no", "user", "root"}
      PROVE  TypeImage'
  BY <1>a, <1>c DEF TypeImage, Moves
<1>d. /\ milestones \subseteq PamCalls \cup {"nogui"}
      /\ ran \in {"no", "user", "root"}
      /\ exitcode[w] \in ExitStatuses \cup Signals
      /\ toParent \in Seq(Request) /\ toChild \in Seq(Reply)
  BY DEF TypeImage, TypePipes
<1>e. {"exec_wait", "exec", "lookup", "program"} \subseteq PCs
  BY DEF PCs
<1> USE <1>b, <1>c, <1>d, <1>e, DieType, GotoType, StatusType
<1>1. CASE IdentityRefused(w)
  BY <1>1 DEF IdentityRefused, pipes, TypePipes
<1>2. CASE ExecStart(w)
  BY <1>2, SendType, RequestType DEF ExecStart, TypePipes
<1>3. CASE WaitForSync(w)
  <2>1. milestones' \subseteq PamCalls \cup {"nogui"}
    BY <1>3 DEF WaitForSync, Milestone
  <2>2. Moves
    BY <1>3 DEF WaitForSync
  <2>3. TypePipes'
    BY <1>3, SyncReadType DEF WaitForSync, TypePipes
  <2>4. QED BY <1>3, <2>1, <2>2, <2>3 DEF WaitForSync
<1>4. CASE Exec(w)
  BY <1>4 DEF Exec, pipes, TypePipes
<1>5. CASE ExecRefused(w)
  BY <1>5, ExecFailedType DEF ExecRefused, TypePipes
<1>6. CASE FailWait(w)
  BY <1>6, SyncReadType DEF FailWait, TypePipes
<1>7. QED BY <1>1, <1>2, <1>3, <1>4, <1>5, <1>6 DEF RunnerStep

\* Writing a reply, or ending, keeps the front end well typed.
LEMMA WriteReplyType ==
    ASSUME TypePipes, TypeEnding, NEW r \in Reply, WriteReply(r, "loop")
    PROVE  TypeEnding' /\ toChild' \in Seq(Reply)
BY DEF TypePipes, TypeEnding, WriteReply, FrontGone, FrontStays

\* userhelper_handle_childout() preserves the type invariant.
LEMMA RequestHandledType ==
    ASSUME TypeOK, ProtocolError \/ HandleRequest
    PROVE  TypeOK'
<1> DEFINE req == Head(toParent)
<1> USE DEF TypeOK
<1>1. toParent # <<>> /\ Receives(req) /\ Noted(req)
  BY DEF ProtocolError, HandleRequest
<1>2. req \in Request /\ Tail(toParent) \in Seq(Request)
  BY <1>1 DEF TypePipes
<1>3. responses' \in Nat /\ infos' \in Nat
  BY <1>1, <1>2 DEF Noted, Request, TypeFront
<1>4. fallbackAllowed' \in BOOLEAN /\ execed' \in BOOLEAN
  BY <1>1, <1>2 DEF Noted, Request, TypeFront
<1>5. TypeImage' /\ TypeConvo' /\ watch' \in BOOLEAN
  BY <1>1 DEF Receives, image, convo, TypeImage, TypeConvo, TypeFront
<1>6. toParent' \in Seq(Request)
  BY <1>1, <1>2 DEF Receives
<1>7. dialog' \in BOOLEAN
  BY DEF ProtocolError, HandleRequest, TypeFront
<1>8. TypeEnding' /\ toChild' \in Seq(Reply)
  <2>1. CASE ProtocolError
    BY <2>1 DEF ProtocolError, FrontGone, TypeEnding, TypePipes
  <2>2. CASE HandleRequest
    <3>1. OkReply(responses') \in Reply /\ OkReply(0) \in Reply
      BY <1>3 DEF OkReply, Reply
    <3>2. \/ WriteReply(OkReply(responses'), "loop")
          \/ WriteReply(OkReply(0), "loop")
          \/ FrontStays("dialog") /\ UNCHANGED toChild
      BY <2>2 DEF HandleRequest
    <3>3. QED
      BY <3>1, <3>2, WriteReplyType DEF FrontStays, TypeEnding, TypePipes
  <2>3. QED BY <2>1, <2>2
<1>9. QED
  BY <1>3, <1>4, <1>5, <1>6, <1>7, <1>8 DEF TypeFront, TypePipes

\* The other callbacks, the user and the outside preserve it.
LEMMA FrontAndOutsideType ==
    ASSUME TypeOK, HangUp \/ ChildExited \/ UserStep \/ OutsideStep
    PROVE  TypeOK'
<1> USE DEF TypeOK
<1>a. ASSUME UNCHANGED <<conf, image, kills>> PROVE TypeImage'
  BY <1>a DEF image, TypeImage
<1>b. ASSUME UNCHANGED convo PROVE TypeConvo'
  BY <1>b DEF convo, TypeConvo
<1>c. ASSUME UNCHANGED pipes PROVE TypePipes'
  BY <1>c DEF pipes, TypePipes
<1>d. ASSUME UNCHANGED <<watch, execed, asked>> PROVE TypeFront'
  BY <1>d DEF asked, TypeFront
<1>e. ASSUME NEW how \in {"returned", "_exit", "signal"}, FrontGone(how)
      PROVE  TypeEnding'
  BY <1>e DEF FrontGone, TypeEnding
<1>1. CASE HangUp
  BY <1>1, <1>a, <1>b, <1>c
     DEF HangUp, asked, ending, TypeFront, TypeEnding
<1>2. CASE ChildExited
  <2>1. ReapedStatus \in ExitStatuses
    <3>1. exitcode["helper"] \in ExitStatuses \cup Signals
      BY DEF TypeImage
    <3>2. exitcode["helper"] \in ExitStatuses \/ exitcode["helper"] < 0
      BY <3>1 DEF Signals, SIGKILL, SIGPIPE
    <3>3. ReapedStatus = ERR_UNK_ERROR \/ ReapedStatus \in ExitStatuses
      BY <3>2 DEF ReapedStatus
    <3>4. QED BY <3>3, StatusType
  <2>2. /\ exitStatus' \in ExitStatuses
        /\ explained' \in ExitStatuses \cup {NoStatus}
    BY <1>2, <2>1 DEF ChildExited, ParseExitStatus, TypeEnding
  <2>3. TypeEnding'
    BY <1>2, <2>2 DEF ChildExited, TypeEnding
  <2>4. TypeFront'
    BY <1>2 DEF ChildExited, asked, TypeFront
  <2>5. QED BY <1>2, <2>3, <2>4, <1>a, <1>b, <1>c DEF ChildExited
<1>3. CASE Answered
  <2>1. CASE CloseQuestion
    BY <2>1, <1>a, <1>b, <1>c, <1>d, <1>e DEF CloseQuestion
  <2>2. CASE \E reply \in {OkReply(responses), CancelReply, FallbackReply} :
               Answer(reply)
    <3>1. PICK reply \in {OkReply(responses), CancelReply, FallbackReply} :
               Answer(reply)
      BY <2>2
    <3>2. reply \in Reply
      BY DEF OkReply, CancelReply, FallbackReply, Reply, TypeFront
    <3>3. TypeEnding' /\ toChild' \in Seq(Reply)
      BY <3>1, <3>2, <1>e, WriteReplyType DEF Answer, TypePipes
    <3>4. TypeFront'
      BY <3>1 DEF Answer, TypeFront
    <3>5. QED
      BY <3>1, <3>3, <3>4, <1>a, <1>b DEF Answer, TypePipes
  <2>3. QED BY <1>3, <2>1, <2>2 DEF Answered
<1>4. CASE DismissMessages
  BY <1>4, <1>a, <1>b, <1>c, <1>d, <1>e DEF DismissMessages
<1>5. CASE \E w \in Procs, status \in ProgramStatuses : ProgramExits(w, status)
  <2>1. PICK w \in Procs, status \in ProgramStatuses : ProgramExits(w, status)
    BY <1>5
  <2>2. Moves
    BY <2>1, DieType, ProgramAssumption DEF ProgramExits
  <2>3. TypeImage'
    BY <2>1, <2>2 DEF ProgramExits, Moves, TypeImage
  <2>4. QED
    BY <2>1, <2>3, <1>b, <1>c
       DEF ProgramExits, front, asked, ending, TypeFront, TypeEnding
<1>6. CASE \E w \in Procs : KillProc(w)
  <2>1. PICK w \in Procs : KillProc(w)
    BY <1>6
  <2>2. Moves
    BY <2>1, DieType, SignalsType DEF KillProc
  <2>3. TypeImage'
    BY <2>1, <2>2 DEF KillProc, Moves, TypeImage
  <2>4. TypeConvo'
    BY <2>1 DEF KillProc, TypeConvo
  <2>5. QED
    BY <2>1, <2>3, <2>4, <1>c
       DEF KillProc, front, asked, ending, TypeFront, TypeEnding
<1>7. CASE KillFront
  <2>1. TypeImage'
    BY <1>7 DEF KillFront, image, TypeImage
  <2>2. QED BY <1>7, <2>1, <1>b, <1>c, <1>d, <1>e DEF KillFront
<1>8. QED
  BY <1>1, <1>2, <1>3, <1>4, <1>5, <1>6, <1>7 DEF UserStep, OutsideStep

\* Every step preserves the type invariant.
LEMMA NextType == TypeOK /\ [Next]_vars => TypeOK'
<1>1. ASSUME TypeOK, UNCHANGED vars PROVE TypeOK'
  BY <1>1 DEF vars, image, convo, pipes, front, asked, ending, TypeOK,
              TypeImage, TypeConvo, TypePipes, TypeFront, TypeEnding
<1>2. QED
  BY <1>1, HelperType, RunnerType, RequestHandledType, FrontAndOutsideType
     DEF Next, FrontStep, AllGone

\* The starting state is well typed.
LEMMA InitType == Init => TypeOK
<1> SUFFICES ASSUME Init PROVE TypeOK
  OBVIOUS
<1>1. TypeImage
  <2>1. /\ conf \in Conf
        /\ pc = [w \in Procs |-> IF w = "helper" THEN "start" ELSE "none"]
        /\ exitcode = [w \in Procs |-> 0]
        /\ ran = "no" /\ milestones = {} /\ tries = 0 /\ kills = Killable
    BY DEF Init
  <2>2. {"start", "none"} \subseteq PCs /\ 0 \in ExitStatuses
    BY StatusType DEF PCs
  <2>3. QED BY <2>1, <2>2 DEF TypeImage
<1>2. TypeConvo
  <2>1. 0 \in 0..MaxConv
    BY MaxConvAssumption
  <2>2. /\ waiting = FALSE /\ expected = 0 /\ convs = 0
        /\ convFailed = FALSE /\ canceled = FALSE /\ fallbackChosen = FALSE
    BY DEF Init
  <2>3. QED BY <2>1, <2>2 DEF TypeConvo
<1>3. TypePipes
  <2>1. toParent = <<>> /\ toChild = <<>>
    BY DEF Init
  <2>2. QED BY <2>1 DEF TypePipes
<1>4. TypeFront
  <2>1. /\ watch = TRUE /\ execed = FALSE /\ responses = 0 /\ infos = 0
        /\ dialog = FALSE /\ fallbackAllowed = FALSE
    BY DEF Init
  <2>2. QED BY <2>1 DEF TypeFront
<1>5. TypeEnding
  <2>1. /\ ppc = "loop" /\ fate = "running" /\ quitting = FALSE
        /\ reaped = FALSE /\ exitStatus = 0 /\ explained = NoStatus
    BY DEF Init
  <2>2. QED BY <2>1, StatusType DEF TypeEnding
<1>6. QED BY <1>1, <1>2, <1>3, <1>4, <1>5 DEF TypeOK

\* Type correctness of the helper, the pipes and the front end.
THEOREM TypeCorrect == Spec => []TypeOK
BY InitType, NextType, PTL DEF Spec

-----------------------------------------------------------------------------
(* Inductive invariants.                                                   *)

\* Places of the helper before it has authenticated anybody.
Before == {"start", "nogui_wait", "lookup", "authenticate"}

\* Places on the way into the program.
Running == {"exec_start", "exec_wait", "exec"}

\* Every PAM call that must succeed has.
Earned ==
    /\ {"authenticate", "acct_mgmt"} \subseteq milestones
    /\ conf.session => {"open_session", "setcred"} \subseteq milestones

\* What the place of each process says about the PAM calls so far.
Stage ==
    /\ pc["helper"] \in Before => milestones \subseteq {"nogui"} /\ ran = "no"
    /\ pc["helper"] = "acct_mgmt" => "authenticate" \in milestones
    /\ pc["helper"] = "open_session" =>
          conf.session /\ {"authenticate", "acct_mgmt"} \subseteq milestones
    /\ pc["helper"] = "setcred" =>
          /\ conf.session
          /\ {"authenticate", "acct_mgmt", "open_session"} \subseteq milestones
    /\ pc["helper"] \in Running =>
          Earned \/ ("authenticate" \notin milestones /\ conf.fallback)
    /\ pc["child"] # "none" => Earned

\* PrivilegeEarned is not inductive: it needs to know how the process that
\* is about to run the program got there.
PrivilegeInv == TypeOK /\ Stage /\ PrivilegeEarned

\* The child is forked after the conversation before the run is over, and
\* reaped before the one after it begins.
Forked ==
    /\ pc["helper"] \in Before \cup {"acct_mgmt", "open_session", "setcred"}
          => pc["child"] = "none"
    /\ pc["helper"] = "close_session" => pc["child"] = "dead"

\* A cancellation has failed the PAM call it happened in, and nobody is on
\* the way into the program.
Stopped ==
    canceled =>
       /\ pc["helper"] \in PamCalls \ {"close_session"} => convFailed
       /\ pc["helper"] \notin {"start", "nogui_wait", "lookup"} \cup Running
       /\ pc["child"] \in {"none", "dead"}

CancelInv == TypeOK /\ Forked /\ Stopped

-----------------------------------------------------------------------------
(* Steps, as far as the places of the two processes go.                    *)

\* w is now at place; the other process is where it was.
Moved(w, place) ==
    /\ pc'[w] = place
    /\ \A v \in Procs \ {w} : pc'[v] = pc[v]

\* What Goto() and Die() do to a process.
LEMMA MovesAre ==
    ASSUME TypeOK, NEW w \in Procs, NEW place, NEW status
    PROVE  /\ Goto(w, place) => Moved(w, place)
           /\ Die(w, status) => Moved(w, "dead")
BY DEF TypeOK, TypeImage, Goto, Die, Moved

\* A process that takes its announcement back waits, or ends.
LEMMA FailMoves ==
    ASSUME TypeOK, NEW w \in Procs, NEW status, ExecFailed(w, status)
    PROVE  (Moved(w, "fail_wait") /\ conf.gui) \/ Moved(w, "dead")
<1>1. pc \in [Procs -> PCs]
  BY DEF TypeOK, TypeImage
<1>2. \/ \E s : Die(w, s)
      \/ conf.gui /\ pc' = [pc EXCEPT ![w] = "fail_wait"]
  BY DEF ExecFailed
<1>3. QED BY <1>1, <1>2, MovesAre DEF Moved

\* The front end and its user leave the helper and its child alone.
LEMMA FrontFrame ==
    FrontStep \/ UserStep \/ KillFront => UNCHANGED <<conf, image, convo>>
<1>1. FrontStep => UNCHANGED <<conf, image, convo>>
  BY DEF FrontStep, ProtocolError, HandleRequest, Receives, HangUp,
         ChildExited
<1>2. UserStep => UNCHANGED <<conf, image, convo>>
  BY DEF UserStep, Answered, Answer, CloseQuestion, DismissMessages
<1>3. QED BY <1>1, <1>2 DEF KillFront

-----------------------------------------------------------------------------
(* The program's identity is earned.                                       *)

\* A process that ends, and nothing else that Stage speaks of.
LEMMA DieKeepsStage ==
    ASSUME PrivilegeInv, NEW w \in Procs, NEW s, Die(w, s), pc[w] # "none",
           UNCHANGED <<conf, ran, milestones>>
    PROVE  Stage' /\ PrivilegeEarned'
<1>1. Moved(w, "dead")
  BY MovesAre DEF PrivilegeInv
<1>2. QED
  BY <1>1 DEF PrivilegeInv, Moved, Stage, PrivilegeEarned, Earned, Before,
              Running

\* Steps of the helper keep the identity earned.
LEMMA HelperPrivilege ==
    ASSUME PrivilegeInv, HelperStep
    PROVE  Stage' /\ PrivilegeEarned'
<1> USE DEF PrivilegeInv, Stage, PrivilegeEarned, Earned, Before, Running
<1>a. ASSUME UNCHANGED <<conf, pc, ran, milestones>>
      PROVE  Stage' /\ PrivilegeEarned'
  BY <1>a
<1>1. CASE \E status \in ExitStatuses :
             RefuseStart(status) \/ LookupFails(status)
  BY <1>1, DieKeepsStage DEF RefuseStart, LookupFails
<1>2. CASE StartGui
  <2>1. Moved("helper", "lookup") /\ UNCHANGED <<conf, ran, milestones>>
    BY <1>2, MovesAre DEF StartGui
  <2>2. QED BY <1>2, <2>1 DEF StartGui, Moved
<1>3. CASE StartNoGui
  <2>1. /\ Moved("helper", "nogui_wait") \/ Moved("helper", "dead")
        /\ UNCHANGED <<conf, ran, milestones>>
    BY <1>3, MovesAre DEF StartNoGui, SendRequest
  <2>2. QED BY <1>3, <2>1 DEF StartNoGui, Moved
<1>4. CASE LookupDone
  <2>1. Moved("helper", "authenticate") /\ UNCHANGED <<conf, ran, milestones>>
    BY <1>4, MovesAre DEF LookupDone, Call
  <2>2. QED BY <1>4, <2>1 DEF LookupDone, Moved
<1>5. CASE ConverseCanceled \/ ReadCancel \/ ReadFallback \/ ReadAnswers
           \/ ReadEof
  BY <1>5, <1>a DEF ConverseCanceled, ReadCancel, ReadFallback, ReadAnswers,
                    ReadEof, image
<1>6. CASE \E shape \in Shapes : Converse(shape[1], shape[2])
  <2>1. /\ Moved("helper", pc["helper"]) \/ Moved("helper", "dead")
        /\ UNCHANGED <<conf, ran, milestones>>
    BY <1>6, MovesAre DEF Converse, SendRequest
  <2>2. QED BY <2>1 DEF Moved
<1>7. CASE Authenticated
  <2>1. /\ Moved("helper", "acct_mgmt") \/ Moved("helper", "dead")
        /\ pc["helper"] = "authenticate"
        /\ milestones' = milestones \cup {"authenticate"}
        /\ UNCHANGED <<conf, ran>>
    BY <1>7, MovesAre DEF Authenticated, Returned, Milestone, Call
  <2>2. QED BY <2>1 DEF Moved
<1>8. CASE \E r \in PamErrors : AuthRetry(r) \/ AuthGivesUp(r)
  <2>1. /\ \/ Moved("helper", "authenticate")
           \/ Moved("helper", "exec_start") /\ conf.fallback
           \/ Moved("helper", "dead")
        /\ pc["helper"] = "authenticate"
        /\ UNCHANGED <<conf, ran, milestones>>
    BY <1>8, MovesAre DEF AuthRetry, AuthGivesUp, Returned, Call
  <2>2. QED BY <2>1 DEF Moved
<1>9. CASE \E r \in PamErrors, call \in PamCalls : CallFails(call, r)
  <2>1. /\ Moved("helper", "dead")
        /\ UNCHANGED <<conf, ran, milestones>>
    BY <1>9, MovesAre DEF CallFails, Returned
  <2>2. QED BY <2>1 DEF Moved
<1>10. CASE \E r \in PamErrors : SessionCloseFails(r)
  <2>1. /\ Moved("helper", "fail_wait") \/ Moved("helper", "dead")
        /\ UNCHANGED <<conf, ran, milestones>>
    BY <1>10, FailMoves DEF SessionCloseFails, Returned
  <2>2. QED BY <2>1 DEF Moved
<1>11. CASE AccountOk
  <2>1. /\ \/ Moved("helper", "open_session") /\ conf.session
           \/ Moved("helper", "exec_start") /\ ~conf.session
           \/ Moved("helper", "dead")
        /\ pc["helper"] = "acct_mgmt"
        /\ milestones' = milestones \cup {"acct_mgmt"}
        /\ UNCHANGED <<conf, ran>>
    BY <1>11, MovesAre DEF AccountOk, Returned, Milestone, Call
  <2>2. QED BY <2>1 DEF Moved
<1>12. CASE SessionOpened
  <2>1. /\ Moved("helper", "setcred") \/ Moved("helper", "dead")
        /\ pc["helper"] = "open_session"
        /\ milestones' = milestones \cup {"open_session"}
        /\ UNCHANGED <<conf, ran>>
    BY <1>12, MovesAre DEF SessionOpened, Returned, Milestone, Call
  <2>2. QED BY <2>1 DEF Moved
<1>13. CASE CredEstablished
  <2>1. /\ \/ pc'["helper"] = "waitpid"
           \/ Moved("helper", "dead")
        /\ pc["helper"] = "setcred"
        /\ milestones' = milestones \cup {"setcred"}
        /\ UNCHANGED <<conf, ran>>
    BY <1>13, MovesAre
       DEF CredEstablished, Returned, Milestone, TypeOK, TypeImage
  <2>2. QED BY <2>1 DEF Moved
<1>14. CASE ChildReaped
  <2>1. /\ Moved("helper", "close_session")
        /\ UNCHANGED <<conf, ran, milestones>>
    BY <1>14, MovesAre DEF ChildReaped, Call
  <2>2. QED BY <2>1 DEF Moved
<1>15. CASE SessionClosed
  <2>1. /\ Moved("helper", "dead")
        /\ pc["helper"] = "close_session"
        /\ milestones' = milestones \cup {"close_session"}
        /\ UNCHANGED <<conf, ran>>
    BY <1>15, MovesAre DEF SessionClosed, Returned, Milestone
  <2>2. QED BY <2>1 DEF Moved
<1>16. QED
  BY <1>1, <1>2, <1>3, <1>4, <1>5, <1>6, <1>7, <1>8, <1>9, <1>10, <1>11,
     <1>12, <1>13, <1>14, <1>15 DEF HelperStep

\* So do the steps into the program; Exec is the one that matters.
LEMMA RunnerPrivilege ==
    ASSUME PrivilegeInv, NEW w \in Procs, RunnerStep(w)
    PROVE  Stage' /\ PrivilegeEarned'
<1> USE DEF PrivilegeInv, Stage, PrivilegeEarned, Earned, Before, Running
<1>1. CASE IdentityRefused(w)
  BY <1>1, DieKeepsStage DEF IdentityRefused
<1>2. CASE ExecStart(w)
  <2>1. /\ Moved(w, "exec_wait") \/ Moved(w, "exec") \/ Moved(w, "dead")
        /\ pc[w] = "exec_start"
        /\ UNCHANGED <<conf, ran, milestones>>
    BY <1>2, MovesAre DEF ExecStart, SendRequest
  <2>2. QED BY <2>1 DEF Moved
<1>3. CASE WaitForSync(w)
  <2>1. /\ \/ Moved(w, "exec") /\ pc[w] = "exec_wait"
              /\ UNCHANGED milestones
           \/ Moved(w, "lookup") /\ pc[w] = "nogui_wait"
              /\ milestones' = milestones \cup {"nogui"}
           \/ Moved(w, "dead") /\ UNCHANGED milestones
        /\ pc[w] \in {"exec_wait", "nogui_wait"}
        /\ UNCHANGED <<conf, ran>>
    BY <1>3, MovesAre DEF WaitForSync, Milestone
  <2>2. QED BY <2>1 DEF Moved
<1>4. CASE Exec(w)
  <2>1. /\ Moved(w, "program")
        /\ pc[w] = "exec"
        /\ ran' = IF "authenticate" \in milestones THEN "root" ELSE "user"
        /\ UNCHANGED <<conf, milestones>>
    BY <1>4, MovesAre DEF Exec
  <2>2. QED BY <2>1 DEF Moved
<1>5. CASE ExecRefused(w)
  <2>1. /\ Moved(w, "fail_wait") \/ Moved(w, "dead")
        /\ pc[w] = "exec"
        /\ UNCHANGED <<conf, ran, milestones>>
    BY <1>5, FailMoves DEF ExecRefused
  <2>2. QED BY <2>1 DEF Moved
<1>6. CASE FailWait(w)
  BY <1>6, DieKeepsStage DEF FailWait
<1>7. QED BY <1>1, <1>2, <1>3, <1>4, <1>5, <1>6 DEF RunnerStep

\* Nobody else starts programs or passes PAM calls.
LEMMA OthersPrivilege ==
    ASSUME PrivilegeInv, FrontStep \/ UserStep \/ OutsideStep
    PROVE  Stage' /\ PrivilegeEarned'
<1>a. ASSUME UNCHANGED <<conf, pc, ran, milestones>>
      PROVE  Stage' /\ PrivilegeEarned'
  BY <1>a DEF PrivilegeInv, Stage, PrivilegeEarned, Earned
<1>1. CASE FrontStep \/ UserStep \/ KillFront
  <2>1. UNCHANGED <<conf, pc, ran, milestones>>
    BY <1>1, FrontFrame DEF image
  <2>2. QED BY <2>1, <1>a
<1>2. CASE \E w \in Procs, status \in ProgramStatuses : ProgramExits(w, status)
  BY <1>2, DieKeepsStage DEF ProgramExits
<1>3. CASE \E w \in Procs : KillProc(w)
  BY <1>3, DieKeepsStage DEF KillProc
<1>4. QED BY <1>1, <1>2, <1>3 DEF OutsideStep

\* PrivilegeInv is inductive.
LEMMA PrivilegeInductive ==
    /\ Init => PrivilegeInv
    /\ PrivilegeInv /\ [Next]_vars => PrivilegeInv'
<1>1. Init => PrivilegeInv
  BY InitType
     DEF Init, PrivilegeInv, Stage, PrivilegeEarned, Earned, Before, Running
<1>2. PrivilegeInv /\ UNCHANGED vars => Stage' /\ PrivilegeEarned'
  BY DEF vars, image, PrivilegeInv, Stage, PrivilegeEarned, Earned
<1>3. PrivilegeInv /\ Next => Stage' /\ PrivilegeEarned'
  BY <1>2, HelperPrivilege, RunnerPrivilege, OthersPrivilege
     DEF Next, AllGone
<1>4. QED BY <1>1, <1>2, <1>3, NextType DEF PrivilegeInv

\* The program runs as root only after every PAM call that must succeed did,
\* and unprivileged only where FALLBACK allows it (wrap()).
THEOREM PrivilegeIsEarned == Spec => []PrivilegeEarned
<1>1. PrivilegeInv => PrivilegeEarned
  BY DEF PrivilegeInv
<1>2. QED BY <1>1, PrivilegeInductive, PTL DEF Spec

-----------------------------------------------------------------------------
(* A cancellation is final, if PAM honours a failed conversation.          *)

\* A process that ends keeps a cancellation final.
LEMMA DieKeepsCancel ==
    ASSUME CancelInv, NEW w \in Procs, NEW s, Die(w, s), pc[w] # "none",
           UNCHANGED canceled
    PROVE  Forked' /\ Stopped'
<1>1. Moved(w, "dead")
  BY MovesAre DEF CancelInv
<1>2. QED
  BY <1>1 DEF CancelInv, Moved, Forked, Stopped, Before, Running, PamCalls

\* The conversation: a cancellation fails the call it happens in.
LEMMA ConversationCancel ==
    ASSUME CancelInv,
           \/ ConverseCanceled \/ ReadCancel \/ ReadFallback
           \/ ReadAnswers \/ ReadEof
    PROVE  Forked' /\ Stopped'
<1>1. /\ pc["helper"] \in PamCalls
      /\ UNCHANGED pc
      /\ convFailed => convFailed'
      /\ canceled' => canceled \/ convFailed'
  <2>1. CASE ConverseCanceled
    BY <2>1 DEF ConverseCanceled, MayConverse, image
  <2>2. CASE ReadCancel \/ ReadFallback \/ ReadEof
    BY <2>2 DEF ReadCancel, ReadFallback, ReadEof, Reading, image
  <2>3. CASE ReadAnswers
    BY <2>3 DEF ReadAnswers, Reading, image
  <2>4. QED BY <2>1, <2>2, <2>3
<1>2. pc["child"] \in {"none", "dead"}
  BY <1>1 DEF CancelInv, Forked, Before, PamCalls
<1>3. Forked'
  BY <1>1 DEF CancelInv, Forked
<1>4. Stopped'
  BY <1>1, <1>2 DEF CancelInv, Stopped, Running, PamCalls
<1>5. QED BY <1>3, <1>4

\* Steps of the helper keep a cancellation final.
LEMMA HelperCancel ==
    ASSUME PamHonoursConv, CancelInv, HelperStep
    PROVE  Forked' /\ Stopped'
<1> USE DEF CancelInv, Forked, Stopped, Before, Running, PamCalls
<1>1. CASE \E status \in ExitStatuses :
             RefuseStart(status) \/ LookupFails(status)
  BY <1>1, DieKeepsCancel DEF RefuseStart, LookupFails, convo
<1>2. CASE StartGui
  <2>1. Moved("helper", "lookup") /\ UNCHANGED canceled
    BY <1>2, MovesAre DEF StartGui, convo
  <2>2. QED BY <1>2, <2>1 DEF StartGui, Moved
<1>3. CASE StartNoGui
  <2>1. /\ Moved("helper", "nogui_wait") \/ Moved("helper", "dead")
        /\ UNCHANGED canceled
    BY <1>3, MovesAre DEF StartNoGui, SendRequest, convo
  <2>2. QED BY <1>3, <2>1 DEF StartNoGui, Moved
<1>4. CASE LookupDone
  <2>1. Moved("helper", "authenticate") /\ UNCHANGED canceled
    BY <1>4, MovesAre DEF LookupDone, Call
  <2>2. QED BY <1>4, <2>1 DEF LookupDone, Moved
<1>5. CASE ConverseCanceled \/ ReadCancel \/ ReadFallback \/ ReadAnswers
           \/ ReadEof
  BY <1>5, ConversationCancel
<1>6. CASE \E shape \in Shapes : Converse(shape[1], shape[2])
  <2>1. /\ Moved("helper", pc["helper"]) \/ Moved("helper", "dead")
        /\ ~canceled /\ UNCHANGED canceled
    BY <1>6, MovesAre DEF Converse, SendRequest
  <2>2. QED BY <2>1 DEF Moved
<1>7. CASE Authenticated \/ AccountOk \/ SessionOpened \/ CredEstablished
  <2>1. ~canceled /\ UNCHANGED canceled
    BY <1>7 DEF Authenticated, AccountOk, SessionOpened, CredEstablished,
                Returned, Call, convo
  <2>2. pc["child"] = "none"
    BY <1>7 DEF Authenticated, AccountOk, SessionOpened, CredEstablished,
                Returned
  <2>3. CASE CredEstablished
    <3>1. pc'["helper"] = "waitpid" \/ Moved("helper", "dead")
      BY <2>3, MovesAre DEF CredEstablished, TypeOK, TypeImage
    <3>2. QED BY <2>1, <2>2, <3>1 DEF Moved
  <2>4. CASE Authenticated \/ AccountOk \/ SessionOpened
    <3>1. \E place \in {"acct_mgmt", "open_session", "exec_start", "setcred",
                        "dead"} : Moved("helper", place)
      BY <2>4, MovesAre DEF Authenticated, AccountOk, SessionOpened, Call
    <3>2. QED BY <2>1, <2>2, <3>1 DEF Moved
  <2>5. QED BY <1>7, <2>3, <2>4
<1>8. CASE \E r \in PamErrors : AuthRetry(r) \/ AuthGivesUp(r)
  <2>1. /\ \/ Moved("helper", "authenticate") /\ ~canceled
           \/ Moved("helper", "exec_start") /\ ~canceled
           \/ Moved("helper", "dead")
        /\ pc["helper"] = "authenticate"
        /\ UNCHANGED canceled
    BY <1>8, MovesAre DEF AuthRetry, AuthGivesUp, Returned, Call, convo
  <2>2. QED BY <2>1 DEF Moved
<1>9. CASE \E r \in PamErrors, call \in PamCalls : CallFails(call, r)
  <2>1. Moved("helper", "dead") /\ UNCHANGED canceled
    BY <1>9, MovesAre DEF CallFails, convo
  <2>2. QED BY <2>1 DEF Moved
<1>10. CASE \E r \in PamErrors : SessionCloseFails(r)
  <2>1. /\ Moved("helper", "fail_wait") \/ Moved("helper", "dead")
        /\ UNCHANGED canceled
    BY <1>10, FailMoves DEF SessionCloseFails, convo
  <2>2. QED BY <2>1 DEF Moved
<1>11. CASE ChildReaped
  <2>1. /\ Moved("helper", "close_session") /\ UNCHANGED canceled
        /\ pc["child"] = "dead"
    BY <1>11, MovesAre DEF ChildReaped, Call
  <2>2. QED BY <2>1 DEF Moved
<1>12. CASE SessionClosed
  <2>1. Moved("helper", "dead") /\ UNCHANGED canceled
    BY <1>12, MovesAre DEF SessionClosed, convo
  <2>2. QED BY <2>1 DEF Moved
<1>13. QED
  BY <1>1, <1>2, <1>3, <1>4, <1>5, <1>6, <1>7, <1>8, <1>9, <1>10, <1>11,
     <1>12 DEF HelperStep

\* Steps into the program keep it final: they need that nobody canceled.
LEMMA RunnerCancel ==
    ASSUME CancelInv, NEW w \in Procs, RunnerStep(w)
    PROVE  Forked' /\ Stopped'
<1> USE DEF CancelInv, Forked, Stopped, Before, Running, PamCalls
<1>a. UNCHANGED canceled
  BY DEF RunnerStep, IdentityRefused, ExecStart, WaitForSync, Exec,
         ExecRefused, FailWait, convo
<1>1. CASE IdentityRefused(w) \/ FailWait(w)
  BY <1>1, <1>a, DieKeepsCancel DEF IdentityRefused, FailWait
<1>2. CASE ExecStart(w) \/ WaitForSync(w) \/ Exec(w) \/ ExecRefused(w)
  <2>1. /\ pc[w] \in Running \cup {"nogui_wait"}
        /\ \E place \in Running \cup {"lookup", "program", "fail_wait",
                                      "dead"} :
              Moved(w, place) /\ (place = "lookup" => pc[w] = "nogui_wait")
    BY <1>2, MovesAre, FailMoves
       DEF ExecStart, SendRequest, WaitForSync, Exec, ExecRefused
  <2>2. ~canceled
    BY <2>1
  <2>3. QED BY <1>a, <2>1, <2>2 DEF Moved
<1>3. QED BY <1>1, <1>2 DEF RunnerStep

\* The user, the front end and the outside never cancel for the helper.
LEMMA OthersCancel ==
    ASSUME CancelInv, FrontStep \/ UserStep \/ OutsideStep
    PROVE  Forked' /\ Stopped'
<1>1. CASE FrontStep \/ UserStep \/ KillFront
  <2>1. UNCHANGED <<pc, canceled, convFailed>>
    BY <1>1, FrontFrame DEF image, convo
  <2>2. QED BY <2>1 DEF CancelInv, Forked, Stopped
<1>2. CASE \E w \in Procs, status \in ProgramStatuses : ProgramExits(w, status)
  BY <1>2, DieKeepsCancel DEF ProgramExits, convo
<1>3. CASE \E w \in Procs : KillProc(w)
  BY <1>3, DieKeepsCancel DEF KillProc
<1>4. QED BY <1>1, <1>2, <1>3 DEF OutsideStep

\* CancelInv is inductive where PAM honours a failed conversation.
LEMMA CancelInductive ==
    ASSUME PamHonoursConv
    PROVE  /\ Init => CancelInv
           /\ CancelInv /\ [Next]_vars => CancelInv'
<1>1. Init => CancelInv
  BY InitType DEF Init, CancelInv, Forked, Stopped, Before
<1>2. CancelInv /\ UNCHANGED vars => Forked' /\ Stopped'
  BY DEF vars, image, convo, CancelInv, Forked, Stopped
<1>3. CancelInv /\ Next => Forked' /\ Stopped'
  BY <1>2, HelperCancel, RunnerCancel, OthersCancel DEF Next, AllGone
<1>4. QED BY <1>1, <1>2, <1>3, NextType DEF CancelInv

\* Only Exec starts a program.
LEMMA OnlyExecStarts ==
    ASSUME [Next]_vars, ran' # ran
    PROVE  \E w \in Procs : Exec(w)
<1>1. ~UNCHANGED ran
  OBVIOUS
<1>2. ~UNCHANGED vars
  BY <1>1 DEF vars, image
<1>3. ~HelperStep
  BY <1>1
     DEF HelperStep, RefuseStart, LookupFails, StartGui, StartNoGui,
         LookupDone, ConverseCanceled, Converse, ReadCancel, ReadFallback,
         ReadAnswers, ReadEof, Authenticated, AuthRetry, AuthGivesUp,
         CallFails, SessionCloseFails, AccountOk, SessionOpened,
         CredEstablished, ChildReaped, SessionClosed, Returned, image
<1>4. ~(FrontStep \/ UserStep \/ KillFront)
  BY <1>1, FrontFrame DEF image
<1>5. ~OutsideStep
  BY <1>1, <1>4 DEF OutsideStep, ProgramExits, KillProc
<1>6. \E w \in Procs : RunnerStep(w)
  BY <1>2, <1>3, <1>4, <1>5 DEF Next, AllGone
<1>7. QED
  BY <1>1, <1>6
     DEF RunnerStep, IdentityRefused, ExecStart, WaitForSync, ExecRefused,
         FailWait

\* Once the user has canceled, or the front end has gone away under a
\* conversation, the program is not started: not after a retry, not by
\* FALLBACK, not by the forked child (data->canceled).
THEOREM CancelIsFinal == ASSUME PamHonoursConv PROVE Spec => CancelStops
<1>1. CancelInv /\ [Next]_vars => (Starts => ~canceled)
  BY OnlyExecStarts DEF Starts, Exec, CancelInv, Stopped, Running
<1>2. CancelInv /\ [Next]_vars => [Starts => ~canceled]_vars
  BY <1>1
<1>3. QED BY <1>2, CancelInductive, PTL DEF Spec, CancelStops

-----------------------------------------------------------------------------
(* Where the two processes can be.                                         *)

\* Places of the helper once it has forked.
Forking == {"waitpid", "close_session", "fail_wait", "dead"}

\* The two processes take turns: the helper waits while its child lives, and
\* nothing is read on behalf of a canceled conversation.
Turns ==
    /\ pc["helper"] # "none"
    /\ pc["child"] \in {"none", "program", "fail_wait", "dead"} \cup Running
    /\ pc["child"] # "none" => pc["helper"] \in Forking /\ conf.session
    /\ pc["helper"] \in {"waitpid", "close_session"} => pc["child"] # "none"
    /\ pc["child"] \notin {"none", "dead"} =>
          pc["helper"] \notin {"close_session", "fail_wait"}
    /\ Undisturbed /\ pc["child"] \notin {"none", "dead"} =>
          pc["helper"] = "waitpid"
    /\ pc["helper"] = "waitpid" => ~canceled
    /\ waiting => pc["helper"] \in PamCalls /\ conf.gui /\ ~canceled
    /\ pc["helper"] = "nogui_wait" => ~conf.gui
    /\ \A w \in Procs : pc[w] \in {"exec_wait", "fail_wait"} => conf.gui

\* Who has run the program, as far as the places tell.
RanBy ==
    /\ pc["child"] = "none" /\ pc["helper"] \notin {"program", "dead"} =>
          ran = "no"
    /\ pc["child"] \in Running \cup {"fail_wait"} => ran = "no"
    /\ pc["child"] = "program" => ran = "root"
    /\ pc["child"] # "none" => ran # "user"
    /\ ran = "root" /\ pc["child"] = "none" => ~conf.session
    /\ pc["helper"] \in Running =>
          ~conf.session \/ "authenticate" \notin milestones
    /\ pc["helper"] = "program" =>
          ran = "user" \/ (ran = "root" /\ ~conf.session)
    /\ "close_session" \in milestones => pc["helper"] = "dead"

\* The places, together with what they rest on.
PlaceInv == PrivilegeInv /\ CancelInv /\ Turns /\ RanBy

\* The end of a process leaves the turns as they are.
LEMMA DieKeepsPlaces ==
    ASSUME PlaceInv, NEW w \in Procs, NEW s, Die(w, s), pc[w] # "none",
           UNCHANGED <<conf, ran, milestones, canceled>>,
           waiting' => waiting /\ w # "helper",
           \/ kills' # Killable
           \/ UNCHANGED kills /\ pc[w] # "waitpid"
    PROVE  Turns' /\ RanBy'
<1>1. Moved(w, "dead")
  BY MovesAre DEF PlaceInv, PrivilegeInv
<1>2. QED
  BY <1>1 DEF PlaceInv, Turns, RanBy, Moved, Running, Forking, Undisturbed,
              PamCalls, Before, Forked, CancelInv

\* A step of the helper in a PAM call, or around the fork, keeps the turns.
LEMMA HelperTurns ==
    ASSUME PamHonoursConv, PlaceInv, HelperStep
    PROVE  Turns' /\ RanBy'
<1> USE DEF PlaceInv, PrivilegeInv, CancelInv, Forked, Turns, RanBy, Before,
            Running,
            Forking, PamCalls, Undisturbed, Stage
<1>a. conf' = conf /\ kills' = kills
  BY DEF HelperStep, RefuseStart, LookupFails, StartGui, StartNoGui,
         LookupDone, ConverseCanceled, Converse, ReadCancel, ReadFallback,
         ReadAnswers, ReadEof, Authenticated, AuthRetry, AuthGivesUp,
         CallFails, SessionCloseFails, AccountOk, SessionOpened,
         CredEstablished, ChildReaped, SessionClosed, Returned
<1>1. CASE \E status \in ExitStatuses :
             RefuseStart(status) \/ LookupFails(status)
  <2>1. /\ Moved("helper", "dead") /\ pc["helper"] \in {"start", "lookup"}
        /\ UNCHANGED <<conf, ran, milestones, waiting, canceled, kills>>
    BY <1>1, MovesAre DEF RefuseStart, LookupFails, convo
  <2>2. QED BY <2>1 DEF Moved
<1>2. CASE StartGui \/ StartNoGui
  <2>1. /\ \/ Moved("helper", "lookup")
           \/ Moved("helper", "dead")
           \/ Moved("helper", "nogui_wait") /\ ~conf.gui
        /\ pc["helper"] = "start"
        /\ UNCHANGED <<conf, ran, milestones, waiting, canceled, kills>>
    BY <1>2, MovesAre DEF StartGui, StartNoGui, SendRequest, convo
  <2>2. QED BY <2>1 DEF Moved
<1>3. CASE LookupDone
  <2>1. /\ Moved("helper", "authenticate") /\ pc["helper"] = "lookup"
        /\ UNCHANGED <<conf, ran, milestones, waiting, canceled, kills>>
    BY <1>3, MovesAre DEF LookupDone, Call
  <2>2. QED BY <2>1 DEF Moved
<1>4. CASE \/ ConverseCanceled \/ ReadCancel \/ ReadFallback \/ ReadAnswers
           \/ ReadEof
  <2>1. /\ UNCHANGED <<conf, pc, ran, milestones, kills>>
        /\ pc["helper"] \in PamCalls
        /\ ~waiting'
    BY <1>4 DEF ConverseCanceled, MayConverse, ReadCancel, ReadFallback,
                ReadAnswers, ReadEof, Reading, image
  <2>2. QED BY <2>1
<1>5. CASE \E shape \in Shapes : Converse(shape[1], shape[2])
  <2>1. /\ \/ Moved("helper", pc["helper"])
           \/ Moved("helper", "dead") /\ ~waiting'
        /\ pc["helper"] \in PamCalls /\ conf.gui /\ ~canceled
        /\ UNCHANGED <<conf, ran, milestones, canceled, kills>>
    BY <1>5, MovesAre DEF Converse, MayConverse, SendRequest
  <2>2. QED BY <2>1 DEF Moved
<1>6. CASE Authenticated
  <2>1. /\ Moved("helper", "acct_mgmt") \/ Moved("helper", "dead")
        /\ pc["helper"] = "authenticate" /\ ~waiting
        /\ milestones' = milestones \cup {"authenticate"}
        /\ UNCHANGED <<conf, ran, waiting, canceled, kills>>
    BY <1>6, MovesAre DEF Authenticated, Returned, Milestone, Call, convo
  <2>2. QED BY <2>1 DEF Moved
<1>7. CASE \E r \in PamErrors : AuthRetry(r) \/ AuthGivesUp(r)
  <2>1. /\ \/ Moved("helper", "authenticate")
           \/ Moved("helper", "exec_start")
           \/ Moved("helper", "dead")
        /\ pc["helper"] = "authenticate" /\ ~waiting
        /\ UNCHANGED <<conf, ran, milestones, waiting, canceled, kills>>
    BY <1>7, MovesAre DEF AuthRetry, AuthGivesUp, Returned, Call, convo
  <2>2. QED BY <2>1 DEF Moved
<1>8. CASE \E r \in PamErrors, call \in PamCalls : CallFails(call, r)
  <2>1. /\ Moved("helper", "dead") /\ ~waiting
        /\ pc["helper"] \in {"acct_mgmt", "open_session", "setcred"}
        /\ UNCHANGED <<conf, ran, milestones, waiting, canceled, kills>>
    BY <1>8, MovesAre DEF CallFails, Returned, convo
  <2>2. QED BY <2>1 DEF Moved
<1>9. CASE \E r \in PamErrors : SessionCloseFails(r)
  <2>1. /\ \/ Moved("helper", "fail_wait") /\ conf.gui
           \/ Moved("helper", "dead")
        /\ pc["helper"] = "close_session" /\ ~waiting
        /\ UNCHANGED <<conf, ran, milestones, waiting, canceled, kills>>
    BY <1>9, FailMoves DEF SessionCloseFails, Returned, convo
  <2>2. QED BY <2>1 DEF Moved
<1>10. CASE AccountOk
  <2>1. /\ \/ Moved("helper", "open_session")
           \/ Moved("helper", "exec_start") /\ ~conf.session
           \/ Moved("helper", "dead")
        /\ pc["helper"] = "acct_mgmt" /\ ~waiting
        /\ milestones' = milestones \cup {"acct_mgmt"}
        /\ UNCHANGED <<conf, ran, waiting, canceled, kills>>
    BY <1>10, MovesAre DEF AccountOk, Returned, Milestone, Call, convo
  <2>2. QED BY <2>1 DEF Moved
<1>11. CASE SessionOpened
  <2>1. /\ Moved("helper", "setcred") \/ Moved("helper", "dead")
        /\ pc["helper"] = "open_session" /\ ~waiting
        /\ milestones' = milestones \cup {"open_session"}
        /\ UNCHANGED <<conf, ran, waiting, canceled, kills>>
    BY <1>11, MovesAre DEF SessionOpened, Returned, Milestone, Call, convo
  <2>2. QED BY <2>1 DEF Moved
<1>12. CASE CredEstablished
  <2>1. /\ \/ pc'["helper"] = "waitpid" /\ pc'["child"] = "exec_start"
           \/ Moved("helper", "dead")
        /\ pc["helper"] = "setcred" /\ ~waiting
        /\ milestones' = milestones \cup {"setcred"}
        /\ UNCHANGED <<conf, ran, waiting, canceled, kills>>
    BY <1>12, MovesAre
       DEF CredEstablished, Returned, Milestone, TypeOK, TypeImage, convo
  <2>2. ~canceled
    BY <1>12 DEF CredEstablished, Returned, Stopped
  <2>3. QED BY <2>1, <2>2 DEF Moved
<1>13. CASE ChildReaped
  <2>1. /\ Moved("helper", "close_session")
        /\ pc["helper"] = "waitpid" /\ pc["child"] = "dead"
        /\ UNCHANGED <<conf, ran, milestones, waiting, canceled, kills>>
    BY <1>13, MovesAre DEF ChildReaped, Call
  <2>2. QED BY <2>1 DEF Moved
<1>14. CASE SessionClosed
  <2>1. /\ Moved("helper", "dead")
        /\ pc["helper"] = "close_session" /\ ~waiting
        /\ milestones' = milestones \cup {"close_session"}
        /\ UNCHANGED <<conf, ran, waiting, canceled, kills>>
    BY <1>14, MovesAre DEF SessionClosed, Returned, Milestone, convo
  <2>2. QED BY <2>1 DEF Moved
<1>15. QED
  BY <1>1, <1>2, <1>3, <1>4, <1>5, <1>6, <1>7, <1>8, <1>9, <1>10, <1>11,
     <1>12, <1>13, <1>14 DEF HelperStep

\* So does a step of the process that is to run the program.
LEMMA RunnerTurns ==
    ASSUME PlaceInv, NEW w \in Procs, RunnerStep(w)
    PROVE  Turns' /\ RanBy'
<1> USE DEF PlaceInv, PrivilegeInv, CancelInv, Forked, Turns, RanBy, Before,
            Running, Forking, PamCalls, Undisturbed, Stage, Earned
<1>a. UNCHANGED <<conf, waiting, canceled, kills>>
  BY DEF RunnerStep, IdentityRefused, ExecStart, WaitForSync, Exec,
         ExecRefused, FailWait, convo
<1>1. CASE IdentityRefused(w) \/ FailWait(w)
  BY <1>1, <1>a, DieKeepsPlaces DEF IdentityRefused, FailWait
<1>2. CASE ExecStart(w)
  <2>1. /\ \/ Moved(w, "exec_wait") /\ conf.gui
           \/ Moved(w, "exec")
           \/ Moved(w, "dead")
        /\ pc[w] = "exec_start"
        /\ UNCHANGED <<ran, milestones>>
    BY <1>2, MovesAre DEF ExecStart, SendRequest
  <2>2. QED BY <1>a, <2>1 DEF Moved
<1>3. CASE WaitForSync(w)
  <2>1. /\ \/ Moved(w, "exec") /\ pc[w] = "exec_wait"
              /\ UNCHANGED milestones
           \/ Moved(w, "lookup") /\ pc[w] = "nogui_wait"
              /\ milestones' = milestones \cup {"nogui"}
           \/ Moved(w, "dead") /\ UNCHANGED milestones
        /\ pc[w] \in {"exec_wait", "nogui_wait"}
        /\ UNCHANGED ran
    BY <1>3, MovesAre DEF WaitForSync, Milestone
  <2>2. QED BY <1>a, <2>1 DEF Moved
<1>4. CASE Exec(w)
  <2>1. /\ Moved(w, "program")
        /\ pc[w] = "exec"
        /\ ran' = IF "authenticate" \in milestones THEN "root" ELSE "user"
        /\ UNCHANGED milestones
    BY <1>4, MovesAre DEF Exec
  <2>2. QED BY <1>a, <2>1 DEF Moved
<1>5. CASE ExecRefused(w)
  <2>1. /\ (Moved(w, "fail_wait") /\ conf.gui) \/ Moved(w, "dead")
        /\ pc[w] = "exec"
        /\ UNCHANGED <<ran, milestones>>
    BY <1>5, FailMoves DEF ExecRefused
  <2>2. QED BY <1>a, <2>1 DEF Moved
<1>6. QED BY <1>1, <1>2, <1>3, <1>4, <1>5 DEF RunnerStep

\* Killing a process counts as a disturbance.
LEMMA KillDisturbs ==
    ASSUME TypeOK, NEW p \in kills, kills' = kills \ {p}
    PROVE  ~Undisturbed'
BY DEF TypeOK, TypeImage, Undisturbed

\* The front end, its user, the program and a killer keep the turns too.
LEMMA OthersTurns ==
    ASSUME PlaceInv, FrontStep \/ UserStep \/ OutsideStep
    PROVE  Turns' /\ RanBy'
<1>a. ASSUME UNCHANGED <<conf, pc, ran, milestones, waiting, canceled>>,
             Undisturbed' => Undisturbed
      PROVE  Turns' /\ RanBy'
  BY <1>a DEF PlaceInv, Turns, RanBy
<1>b. TypeOK
  BY DEF PlaceInv, CancelInv
<1>1. CASE FrontStep \/ UserStep
  <2>1. UNCHANGED <<conf, image, convo, kills>>
    BY <1>1, FrontFrame
       DEF FrontStep, ProtocolError, HandleRequest, Receives, HangUp,
           ChildExited, UserStep, Answered, Answer, CloseQuestion,
           DismissMessages
  <2>2. QED BY <2>1, <1>a DEF image, convo, Undisturbed
<1>2. CASE KillFront
  BY <1>2, <1>a, <1>b, KillDisturbs DEF KillFront, image, convo
<1>3. CASE \E w \in Procs, status \in ProgramStatuses : ProgramExits(w, status)
  <2>1. PICK w \in Procs, status \in ProgramStatuses : ProgramExits(w, status)
    BY <1>3
  <2>2. waiting => pc["helper"] \in PamCalls
    BY DEF PlaceInv, Turns
  <2>3. waiting' => waiting /\ w # "helper"
    BY <2>1, <2>2 DEF ProgramExits, convo, PamCalls
  <2>4. QED BY <2>1, <2>3, DieKeepsPlaces DEF ProgramExits, convo
<1>4. CASE \E w \in Procs : KillProc(w)
  <2>1. PICK w \in Procs : KillProc(w)
    BY <1>4
  <2>2. kills' # Killable
    BY <2>1, <1>b, KillDisturbs DEF KillProc, Undisturbed
  <2>3. QED BY <2>1, <2>2, DieKeepsPlaces DEF KillProc
<1>5. QED BY <1>1, <1>2, <1>3, <1>4 DEF OutsideStep

\* PlaceInv is inductive.
LEMMA PlaceInductive ==
    ASSUME PamHonoursConv
    PROVE  /\ Init => PlaceInv
           /\ PlaceInv /\ [Next]_vars => PlaceInv'
<1>1. Init => PlaceInv
  BY PrivilegeInductive, CancelInductive
     DEF Init, PlaceInv, Turns, RanBy, Running, Forking
<1>2. PlaceInv /\ UNCHANGED vars => Turns' /\ RanBy'
  BY DEF vars, image, convo, PlaceInv, Turns, RanBy, Undisturbed
<1>3. PlaceInv /\ Next => Turns' /\ RanBy'
  BY <1>2, HelperTurns, RunnerTurns, OthersTurns DEF Next, AllGone
<1>4. QED
  BY <1>1, <1>2, <1>3, PrivilegeInductive, CancelInductive DEF PlaceInv
-----------------------------------------------------------------------------
(* What is between the two sides.                                          *)

\* Nothing; a request; the question dialog; a reply.
Idle         == toParent = <<>> /\ toChild = <<>> /\ ppc = "loop"
Requested(q) == toParent = <<q>> /\ toChild = <<>> /\ ppc = "loop"
Asked        == toParent = <<>> /\ toChild = <<>> /\ ppc = "dialog"
Replied(r)   == toParent = <<>> /\ toChild = <<r>> /\ ppc = "loop"

\* The two requests of exec(): the announcement, and taking it back.
Begin   == ExecRequest("EXEC_START")
Retract == ExecRequest("EXEC_FAILED")

\* w announces the program, runs it, or takes the announcement back.
Announcing(w) ==
    /\ pc[w] = "exec_start" => Idle /\ ~execed
    /\ pc[w] = "exec_wait" =>
          \/ Requested(Begin) /\ ~execed
          \/ Replied(OkReply(0)) /\ execed
    /\ pc[w] \in {"exec", "program"} => Idle /\ execed
    /\ pc[w] = "fail_wait" =>
          \/ Requested(Retract)
          \/ Asked /\ ~execed
          \/ (\E r \in Reply : Replied(r)) /\ ~execed

\* The helper is in a PAM call.  The reply to a conversation fits it; the
\* UH_SYNC_POINT after a cancellation is left over.
Conversing ==
    /\ ~waiting /\ ~canceled => Idle
    /\ ~waiting /\ canceled => Replied(OkReply(0))
    /\ waiting =>
          \/ \E b \in BOOLEAN, t \in Nat :
                Requested(ConverseRequest(b, expected, t))
          \/ Asked /\ responses = expected /\ ~execed
          \/ Replied(OkReply(expected))
          \/ Replied(CancelReply) /\ ~execed /\ responses = 0
          \/ Replied(FallbackReply)

\* resp counts prompts only under the question dialog, or when the answers
\* are given without one.
Counted == responses # 0 => ppc = "dialog" \/ execed

\* GUI=yes: up to the fork, and while the child lives.
Handshake ==
    conf.gui /\ ppc # "gone" =>
       /\ pc["helper"] \in {"start", "lookup"} => Idle /\ ~execed
       /\ pc["helper"] \in PamCalls \ {"close_session"} =>
             Conversing /\ ~execed
       /\ pc["child"] = "none" => Announcing("helper")
       /\ Announcing("child")
       /\ Counted

\* GUI=yes: after the child has ended.
Closing ==
    conf.gui /\ ppc # "gone" /\ Undisturbed /\ pc["child"] = "dead" =>
       /\ pc["helper"] = "waitpid" => Idle
       /\ pc["helper"] = "close_session" => Conversing
       /\ pc["helper"] \in {"waitpid", "close_session"} =>
             (execed <=> ran = "root")
       /\ pc["helper"] = "fail_wait" /\ ~canceled => Announcing("helper")
       /\ pc["helper"] = "fail_wait" /\ canceled =>
             /\ ppc = "loop"
             /\ toParent \in {<<>>, <<Retract>>}
             /\ toChild # <<>>
       /\ canceled => ~execed /\ responses = 0

\* GUI=no: one early handshake, and no dialogs.
NoGui ==
    ~conf.gui =>
       /\ ppc # "dialog" /\ ~dialog /\ responses = 0
       /\ fate \notin {"_exit", "protocol"}
       /\ fate = "returned" => reaped
       /\ toParent = <<>> \/ toParent = <<Begin>>
       /\ pc["helper"] \notin {"start", "nogui_wait", "dead"} =>
             "nogui" \in milestones
       /\ pc["child"] # "none" => "nogui" \in milestones
       /\ ppc # "gone" =>
             /\ pc["helper"] = "start" => Idle /\ ~execed
             /\ pc["helper"] = "nogui_wait" =>
                   \/ Requested(Begin) /\ ~execed
                   \/ Replied(OkReply(0)) /\ execed
             /\ "nogui" \in milestones => Idle /\ execed

\* The helper has exited.
Over ==
    ppc # "gone" /\ Undisturbed /\ pc["helper"] = "dead" =>
       /\ ppc = "loop"
       /\ \/ toParent = <<>>
          \/ /\ toParent = <<Retract>>
             /\ canceled /\ ~execed /\ responses = 0
       /\ execed <=> ProgramsStatus

\* Before the child is forked a conversation finds resp empty.
Early ==
    "setcred" \notin milestones /\ toParent # <<>> /\ ppc # "gone" =>
       \E q \in Request :
          /\ toParent = <<q>>
          /\ q.op = "CONVERSE" => q.expect = q.prompts /\ responses = 0

\* A message box is up only as long as the program is not announced.
MessageBox == dialog => ~execed

\* The front end has gone, by itself or by its user.
Left == Dismissed \/ (Undisturbed /\ ppc = "gone")

\* Nobody can start the program any more.
Walked ==
    Left =>
       /\ \A w \in Procs : pc[w] # "exec"
       /\ \A w \in Procs : pc[w] = "exec_wait" => toChild = <<>>
       /\ Undisturbed => \A w \in Procs : pc[w] # "program"
       /\ ~conf.gui => pc["helper"] = "dead"

\* What is known of the helper's end.
Reaping ==
    /\ reaped => pc["helper"] = "dead"
    /\ quitting => reaped /\ ~Undisturbed
    /\ reaped => ppc = "gone" \/ quitting
    /\ ~reaped => exitStatus = 0 /\ explained = NoStatus

\* A reply in the pipe fits the conversation that reads it, up to the fork
\* and, unless somebody is killed, after it.
Fits == Undisturbed \/ pc["child"] = "none" => AnswersMatch

\* The inductive invariant: the places of the two processes and of the front
\* end together say what is in the pipes, and whose status the front end will
\* take the helper's for.
PipeInv ==
    /\ PlaceInv
    /\ Handshake /\ Closing /\ NoGui /\ Over
    /\ Early /\ NoProtocolErrorBeforeRun /\ MessageBox /\ Walked /\ Fits
    /\ Reaping

\* A pipe holds one message or none.
LEMMA PipeFacts ==
    ASSUME NEW x, NEW y
    PROVE  /\ Append(<<>>, x) = <<x>>
           /\ Head(<<x>>) = x
           /\ Tail(<<x>>) = <<>>
           /\ <<x>> # <<>>
           /\ Len(<<x>>) = 1 /\ Len(<<>>) = 0
           /\ <<x>> = <<y>> <=> x = y
           /\ <<x>> \o <<>> = <<x>>
OBVIOUS

\* Nothing has been sent at first.
LEMMA InitPipes == Init /\ PlaceInv => PipeInv
BY DEF Init, PipeInv, Handshake, Closing, NoGui, Over, Early,
       NoProtocolErrorBeforeRun, MessageBox, Walked, Fits, Reaping, Idle,
       Announcing, Counted, Left, Dismissed, Reading, AnswersMatch, PamCalls

\* What userhelper_handle_childout() does at UH_SYNC_POINT.
LEMMA Handled ==
    ASSUME TypeOK, HandleRequest, NEW q, q = Head(toParent)
    PROVE  /\ q \in Request
           /\ toParent # <<>> /\ toParent' = Tail(toParent)
           /\ ppc = "loop"
           /\ UNCHANGED <<conf, image, convo, kills>>
           /\ UNCHANGED reaped
           /\ responses' = responses + q.prompts
           /\ q.op = "CONVERSE" => responses' = q.expect /\ execed' = execed
           /\ q.op = "EXEC_START" => execed'
           /\ q.op = "EXEC_FAILED" => ~execed'
           /\ dialog' => ~execed'
           /\ \/ /\ ppc' = "loop" /\ fate' = fate /\ Holders # {}
                 /\ toChild' = Append(toChild, OkReply(responses'))
                 /\ execed' \/ responses' = 0
              \/ /\ ppc' = "gone" /\ fate' = "signal" /\ Holders = {}
                 /\ UNCHANGED toChild
              \/ /\ ppc' = "dialog" /\ fate' = fate
                 /\ ~execed' /\ responses' # 0
                 /\ UNCHANGED toChild
<1>1. toParent # <<>> /\ Receives(q) /\ Noted(q)
  BY DEF HandleRequest
<1>2. q \in Request
  BY <1>1 DEF TypeOK, TypePipes
<1>3. /\ toParent' = Tail(toParent) /\ ppc = "loop"
      /\ UNCHANGED <<conf, image, convo, kills>>
  BY <1>1 DEF Receives
<1>4. /\ responses' = responses + q.prompts
      /\ q.op = "CONVERSE" => responses' = q.expect /\ execed' = execed
      /\ q.op = "EXEC_START" => execed'
      /\ q.op = "EXEC_FAILED" => ~execed'
  BY <1>1 DEF HandleRequest, Noted
<1>5. UNCHANGED reaped
  BY DEF HandleRequest, WriteReply, FrontGone, FrontStays
<1>6. responses' \in Nat
  BY <1>2, <1>4 DEF TypeOK, TypeFront, Request
<1> DEFINE silent == execed' \/ (responses' = 0 /\ infos' = 0)
<1>7. CASE /\ silent
           /\ dialog' = (dialog /\ ~execed' /\ responses' = 0)
           /\ WriteReply(OkReply(responses'), "loop")
  BY <1>1, <1>2, <1>3, <1>4, <1>5, <1>7 DEF WriteReply, FrontGone, FrontStays
<1>8. CASE /\ ~silent /\ responses' = 0
           /\ dialog' = TRUE
           /\ WriteReply(OkReply(0), "loop")
  BY <1>1, <1>2, <1>3, <1>4, <1>5, <1>8 DEF WriteReply, FrontGone, FrontStays
<1>9. CASE /\ ~silent /\ responses' > 0
           /\ dialog' = FALSE
           /\ FrontStays("dialog")
           /\ UNCHANGED toChild
  BY <1>1, <1>2, <1>3, <1>4, <1>5, <1>6, <1>9 DEF FrontStays
<1>10. QED BY <1>7, <1>8, <1>9 DEF HandleRequest

\* A request that gets its reply, or a dialog.
LEMMA HandledOne ==
    ASSUME PipeInv, HandleRequest, NEW q, Requested(q), ppc' # "gone"
    PROVE  /\ q \in Request
           /\ q.op = "EXEC_START" => execed'
           /\ q.op = "EXEC_FAILED" => ~execed'
           /\ q.op = "CONVERSE" => responses' = q.expect /\ execed' = execed
           /\ responses' = responses + q.prompts
           /\ \/ Replied(OkReply(responses))' /\ (execed' \/ responses' = 0)
              \/ Asked' /\ ~execed'
<1>1. q = Head(toParent) /\ toParent = <<q>> /\ toChild = <<>> /\ TypeOK
  BY PipeFacts DEF Requested, PipeInv, PlaceInv, CancelInv
<1>2. /\ Tail(toParent) = <<>>
      /\ Append(toChild, OkReply(responses')) = <<OkReply(responses')>>
  BY <1>1, PipeFacts
<1>3. QED
  BY <1>1, <1>2, Handled DEF Replied, Asked

\* userhelper_handle_childout() at UH_SYNC_POINT keeps the invariant.
LEMMA RequestHandled ==
    ASSUME PipeInv, PlaceInv', HandleRequest
    PROVE  PipeInv'
<1> DEFINE q == Head(toParent)
<1>1. /\ q \in Request
      /\ toParent # <<>> /\ toParent' = Tail(toParent)
      /\ ppc = "loop"
      /\ UNCHANGED <<conf, image, convo, kills>>
      /\ UNCHANGED reaped
      /\ responses' = responses + q.prompts
      /\ q.op = "CONVERSE" => responses' = q.expect /\ execed' = execed
      /\ q.op = "EXEC_START" => execed'
      /\ q.op = "EXEC_FAILED" => ~execed'
      /\ dialog' => ~execed'
      /\ \/ /\ ppc' = "loop" /\ fate' = fate /\ Holders # {}
            /\ toChild' = Append(toChild, OkReply(responses'))
            /\ execed' \/ responses' = 0
         \/ /\ ppc' = "gone" /\ fate' = "signal" /\ Holders = {}
            /\ UNCHANGED toChild
         \/ /\ ppc' = "dialog" /\ fate' = fate
            /\ ~execed' /\ responses' # 0
            /\ UNCHANGED toChild
  BY Handled DEF PipeInv, PlaceInv, CancelInv
<1>2. UNCHANGED <<conf, pc, ran, milestones, waiting, expected, canceled,
                  kills>>
  BY <1>1 DEF image, convo
<1>3. /\ ~Idle
      /\ \A r : ~Replied(r)
      /\ ~Asked
  BY <1>1 DEF Idle, Replied, Asked
<1>4. ASSUME NEW w \in Procs, Announcing(w), ppc' # "gone", Counted, conf.gui
      PROVE  Announcing(w)'
  <2>1. pc[w] \notin {"exec_start", "exec", "program"}
    BY <1>3, <1>4 DEF Announcing
  <2>2. CASE pc[w] = "exec_wait"
    <3>1. Requested(Begin) /\ ~execed
      BY <1>3, <1>4, <2>2 DEF Announcing
    <3>2. responses = 0
      BY <3>1, <1>1, <1>4 DEF Counted
    <3>3. Replied(OkReply(responses))' /\ execed' /\ responses' = responses + 0
      BY <3>1, <1>4, HandledOne DEF Begin, ExecRequest
    <3>4. QED BY <3>2, <3>3, <2>2, <1>2 DEF Announcing
  <2>3. CASE pc[w] = "fail_wait"
    <3>1. Requested(Retract)
      BY <1>3, <1>4, <2>3 DEF Announcing
    <3>2. /\ ~execed'
          /\ Replied(OkReply(responses))' \/ Asked'
      BY <3>1, <1>4, HandledOne DEF Retract, ExecRequest
    <3>3. OkReply(responses)' \in Reply
      BY DEF PlaceInv, CancelInv, TypeOK, TypeFront, OkReply, Reply
    <3>4. QED BY <3>2, <3>3, <2>3, <1>2 DEF Announcing
  <2>4. QED BY <2>1, <2>2, <2>3, <1>2 DEF Announcing
<1>5. ASSUME Conversing, ppc' # "gone" PROVE Conversing'
  <2>1. waiting
    BY <1>3, <1>5 DEF Conversing
  <2>2. PICK b \in BOOLEAN, t \in Nat :
           Requested(ConverseRequest(b, expected, t))
    BY <1>3, <1>5, <2>1 DEF Conversing
  <2>3. responses' = expected
    BY <2>2, <1>5, HandledOne DEF ConverseRequest
  <2>4. Replied(OkReply(expected))' \/ (Asked' /\ ~execed')
    <3>1. OkReply(responses)' = OkReply(expected)'
      BY <2>3, <1>2 DEF OkReply
    <3>2. QED BY <2>2, <3>1, <1>5, HandledOne DEF ConverseRequest, Replied
  <2>5. QED BY <2>1, <2>3, <2>4, <1>2 DEF Conversing
<1>6. ppc' # "gone" => Counted'
  BY <1>1 DEF Counted
<1>7. Handshake'
  <2>1. SUFFICES ASSUME conf.gui, ppc' # "gone"
                 PROVE  /\ pc["helper"] \in {"start", "lookup"} =>
                              Idle' /\ ~execed'
                        /\ pc["helper"] \in PamCalls \ {"close_session"} =>
                              Conversing' /\ ~execed'
                        /\ pc["child"] = "none" => Announcing("helper")'
                        /\ Announcing("child")'
    BY <1>2, <1>6 DEF Handshake
  <2>2. Handshake /\ ppc # "gone"
    BY <1>1 DEF PipeInv
  <2>3. ASSUME pc["helper"] \in PamCalls \ {"close_session"} PROVE ~execed'
    <3>1. Conversing /\ ~execed
      BY <2>1, <2>2, <2>3 DEF Handshake
    <3>2. PICK b \in BOOLEAN, t \in Nat :
             Requested(ConverseRequest(b, expected, t))
      BY <1>3, <3>1 DEF Conversing
    <3>3. QED BY <3>1, <3>2, <2>1, HandledOne DEF ConverseRequest
  <2>4. QED BY <1>3, <1>4, <1>5, <2>1, <2>2, <2>3 DEF Handshake
<1>8. ASSUME Undisturbed, pc["helper"] = "dead" PROVE ppc' = "gone"
  <2>1. Undisturbed /\ pc["helper"] = "dead"
    BY <1>8
  <2>2. pc["child"] \in {"none", "dead"}
    BY <2>1 DEF PipeInv, PlaceInv, Turns
  <2>3. Holders = {}
    BY <2>1, <2>2 DEF Holders
  <2>4. toParent = <<Retract>> /\ responses = 0
    BY <1>1, <2>1 DEF PipeInv, Over
  <2>5. responses' = responses + 0
    BY <2>4, <1>1, PipeFacts DEF Retract, ExecRequest
  <2>6. responses' = 0
    BY <2>4, <2>5
  <2>7. QED BY <2>3, <2>6, <1>1
<1>9. Closing'
  <2>1. SUFFICES ASSUME conf.gui, ppc' # "gone", Undisturbed,
                        pc["child"] = "dead"
                 PROVE  Closing'
    BY <1>2 DEF Closing, Undisturbed
  <2>2. /\ pc["helper"] = "waitpid" => Idle
        /\ pc["helper"] = "close_session" => Conversing
        /\ pc["helper"] \in {"waitpid", "close_session"} =>
              (execed <=> ran = "root")
        /\ pc["helper"] = "fail_wait" /\ ~canceled => Announcing("helper")
        /\ pc["helper"] = "fail_wait" /\ canceled =>
              /\ ppc = "loop"
              /\ toParent \in {<<>>, <<Retract>>}
              /\ toChild # <<>>
        /\ canceled => ~execed /\ responses = 0
        /\ Counted
    BY <2>1, <1>1 DEF PipeInv, Closing, Handshake
  <2>3. CASE pc["helper"] = "close_session"
    <3>1. PICK b \in BOOLEAN, t \in Nat :
             Requested(ConverseRequest(b, expected, t))
      BY <1>3, <2>2, <2>3 DEF Conversing
    <3>2. execed' = execed
      BY <3>1, <2>1, HandledOne DEF ConverseRequest
    <3>3. waiting /\ ~canceled
      BY <1>3, <2>2, <2>3 DEF Conversing, PipeInv, PlaceInv, Turns
    <3>4. QED BY <3>2, <3>3, <2>1, <2>2, <2>3, <1>2, <1>5 DEF Closing
  <2>4. CASE pc["helper"] = "fail_wait" /\ ~canceled
    BY <2>4, <2>1, <2>2, <1>2, <1>4 DEF Closing
  <2>5. CASE pc["helper"] = "fail_wait" /\ canceled
    <3>1. toParent = <<Retract>> /\ q = Retract
      BY <2>2, <2>5, <1>1, PipeFacts
    <3>2. toParent' = <<>> /\ ~execed' /\ responses' = responses + 0
      BY <3>1, <1>1, PipeFacts DEF Retract, ExecRequest
    <3>3. responses' = 0
      BY <3>2, <2>2, <2>5
    <3>4. ppc' = "loop" /\ toChild' = Append(toChild, OkReply(0))
      BY <3>2, <3>3, <1>1, <2>1
    <3>5. toChild' # <<>>
      <4>1. toChild \in Seq(Reply) /\ OkReply(0) \in Reply
        BY DEF PipeInv, PlaceInv, CancelInv, TypeOK, TypePipes, OkReply, Reply
      <4>2. QED BY <4>1, <3>4
    <3>6. QED BY <3>2, <3>3, <3>4, <3>5, <2>5, <1>2 DEF Closing
  <2>6. CASE pc["helper"] = "dead"
    BY <2>1, <2>6, <1>8
  <2>7. QED BY <2>1, <2>2, <2>3, <2>4, <2>5, <2>6, <1>3
            DEF PipeInv, PlaceInv, Turns, Forking
<1>10. NoGui'
  <2>1. SUFFICES ASSUME ~conf.gui PROVE NoGui'
    BY <1>2 DEF NoGui
  <2>2. toParent = <<Begin>> /\ q = Begin /\ responses = 0
    BY <2>1, <1>1, PipeFacts DEF PipeInv, NoGui
  <2>3. toParent' = <<>> /\ execed' /\ responses' = responses + 0 /\ ~dialog'
    BY <2>2, <1>1, PipeFacts DEF Begin, ExecRequest
  <2>4. responses' = 0
    BY <2>2, <2>3
  <2>5. ppc' # "gone" => ppc' = "loop" /\ toChild' = Append(toChild, OkReply(0))
    BY <1>1, <2>3, <2>4
  <2>6. Append(<<>>, OkReply(0)) = <<OkReply(0)>>
    BY PipeFacts
  <2>7. QED
    BY <1>1, <1>2, <1>3, <2>1, <2>3, <2>4, <2>5, <2>6
    DEF PipeInv, NoGui, Requested, Replied
<1>11. Over'
  BY <1>2, <1>8 DEF Over, Undisturbed
<1>12. Early' /\ NoProtocolErrorBeforeRun' /\ MessageBox'
  <2>1. toParent' = <<>> \/ ppc' = "gone" \/ "setcred" \in milestones
    BY <1>1, PipeFacts DEF PipeInv, Early
  <2>2. NoProtocolErrorBeforeRun'
    BY <1>1, <1>2 DEF PipeInv, NoProtocolErrorBeforeRun
  <2>3. QED BY <2>1, <2>2, <1>1, <1>2 DEF Early, MessageBox
<1>13. Walked'
  <2>1. ~Dismissed'
    BY <1>1 DEF Dismissed
  <2>2. SUFFICES ASSUME Undisturbed, ppc' = "gone" PROVE Walked'
    BY <2>1, <1>2 DEF Walked, Left, Undisturbed
  <2>3. Holders = {}
    BY <2>2, <1>1
  <2>4. \A w \in Procs : pc[w] \in {"none", "program", "dead"}
    BY <2>3 DEF Holders
  <2>5. pc["helper"] # "none"
    BY DEF PipeInv, PlaceInv, Turns
  <2>6. \A w \in Procs : pc[w] # "program"
    <3>1. CASE conf.gui
      <4>1. ASSUME pc["child"] = "program" PROVE FALSE
        BY <4>1, <3>1, <1>1, <1>3 DEF PipeInv, Handshake, Announcing
      <4>2. ASSUME pc["helper"] = "program" PROVE FALSE
        <5>1. pc["child"] = "none"
          BY <4>2 DEF PipeInv, PlaceInv, Turns, Forking
        <5>2. QED
          BY <4>2, <5>1, <3>1, <1>1, <1>3
          DEF PipeInv, Handshake, Announcing
      <4>3. QED BY <4>1, <4>2
    <3>2. CASE ~conf.gui
      <4>1. "nogui" \notin milestones
        BY <3>2, <1>1, <1>3 DEF PipeInv, NoGui
      <4>2. pc["helper"] \in {"dead", "start", "nogui_wait"}
        BY <3>2, <4>1 DEF PipeInv, NoGui
      <4>3. pc["child"] # "program"
        BY <2>2, <4>2 DEF PipeInv, PlaceInv, Turns
      <4>4. QED BY <4>2, <4>3
    <3>3. QED BY <3>1, <3>2
  <2>7. QED BY <2>4, <2>5, <2>6, <1>2 DEF Walked
<1>14. Fits'
  <2>1. ASSUME Undisturbed \/ pc["child"] = "none", Reading',
               Head(toChild').kind = "OK"
        PROVE  Head(toChild').texts = expected
    <3>1. waiting /\ pc["helper"] \in PamCalls /\ toChild' # <<>>
      BY <2>1, <1>2 DEF Reading
    <3>2. conf.gui /\ Conversing
      BY <3>1, <2>1, <1>1
      DEF PipeInv, PlaceInv, Turns, CancelInv, Forked, Handshake, Closing
    <3>3. PICK b \in BOOLEAN, t \in Nat :
             Requested(ConverseRequest(b, expected, t))
      BY <3>1, <3>2, <1>3 DEF Conversing
    <3>4. toChild = <<>> /\ q = ConverseRequest(b, expected, t)
      BY <3>3, PipeFacts DEF Requested
    <3>5. responses' = expected
      BY <3>4, <1>1 DEF ConverseRequest
    <3>6. toChild' = <<OkReply(expected)>>
      BY <3>1, <3>4, <3>5, <1>1, PipeFacts
    <3>7. QED BY <3>6, PipeFacts DEF OkReply
  <2>2. QED BY <2>1, <1>2 DEF Fits, AnswersMatch, Undisturbed
<1>15. Reaping'
  BY <1>1, <1>2
  DEF PipeInv, Reaping, HandleRequest, WriteReply, FrontGone, FrontStays,
      Undisturbed
<1>16. QED
  BY <1>7, <1>9, <1>10, <1>11, <1>12, <1>13, <1>14, <1>15 DEF PipeInv

\* What is in the pipes when somebody is about to start the program, or has.
LEMMA Starting ==
    ASSUME PipeInv, conf.gui, ppc # "gone", NEW w \in Procs
    PROVE  /\ pc[w] \in {"exec", "program"} => Idle /\ execed
           /\ pc[w] = "exec_wait" =>
                 \/ Requested(Begin) /\ ~execed
                 \/ Replied(OkReply(0)) /\ execed
BY DEF PipeInv, PlaceInv, Turns, Handshake, Announcing, Forking

\* The front end goes: most of PipeInv is about one that is there.
LEMMA FrontLeaves ==
    ASSUME PipeInv, PlaceInv', ppc' = "gone",
           NoGui', NoProtocolErrorBeforeRun', MessageBox', Walked', Fits',
           Reaping'
    PROVE  PipeInv'
BY DEF PipeInv, Handshake, Closing, Over, Early

\* So does its refusal of a request that does not count its prompts right.
LEMMA ProtocolErrorPipes ==
    ASSUME PipeInv, PlaceInv', ProtocolError
    PROVE  PipeInv'
<1> DEFINE q == Head(toParent)
<1>1. /\ toParent # <<>> /\ Receives(q) /\ Noted(q)
      /\ q.op = "CONVERSE" /\ responses' # q.expect
      /\ FrontGone("protocol") /\ UNCHANGED <<dialog, toChild>>
  BY DEF ProtocolError
<1>2. /\ UNCHANGED <<conf, pc, milestones, waiting, expected, kills, dialog,
                     toChild,
                     reaped, quitting, exitStatus, explained, execed>>
      /\ ppc = "loop" /\ ppc' = "gone" /\ fate' = "protocol"
      /\ responses' = responses + q.prompts
  BY <1>1 DEF Receives, Noted, FrontGone, image, convo
<1>3. conf.gui
  <2>1. ASSUME ~conf.gui PROVE q = Begin
    BY <2>1, <1>1, PipeFacts DEF PipeInv, NoGui
  <2>2. QED BY <2>1, <1>1 DEF Begin, ExecRequest
<1>4. NoProtocolErrorBeforeRun'
  <2>1. ASSUME "setcred" \notin milestones PROVE FALSE
    <3>1. PICK p \in Request :
             /\ toParent = <<p>>
             /\ p.op = "CONVERSE" => p.expect = p.prompts /\ responses = 0
      BY <2>1, <1>1, <1>2 DEF PipeInv, Early
    <3>2. q = p
      BY <3>1, PipeFacts
    <3>3. p.expect = p.prompts /\ responses = 0 /\ p.prompts \in Nat
      BY <3>1, <3>2, <1>1 DEF Request
    <3>4. QED BY <3>2, <3>3, <1>1, <1>2
  <2>2. QED BY <2>1, <1>2 DEF NoProtocolErrorBeforeRun
<1>5. NoGui' /\ MessageBox' /\ Reaping'
  BY <1>2, <1>3 DEF PipeInv, NoGui, MessageBox, Reaping, Undisturbed
<1>6. Fits'
  BY <1>2 DEF PipeInv, Fits, Undisturbed, AnswersMatch, Reading
<1>7. Walked'
  <2>1. ~Idle /\ ~Replied(OkReply(0))
    BY <1>1 DEF Idle, Replied
  <2>2. \A w \in Procs : pc[w] \notin {"exec", "program"}
    BY <2>1, <1>2, <1>3, Starting
  <2>3. \A w \in Procs : pc[w] = "exec_wait" => toChild = <<>>
    BY <2>1, <1>2, <1>3, Starting DEF Requested
  <2>4. QED BY <2>2, <2>3, <1>2, <1>3 DEF Walked
<1>8. QED BY <1>2, <1>4, <1>5, <1>6, <1>7, FrontLeaves

\* So does what the user does with the question dialog.
LEMMA AnswerPipes ==
    ASSUME PipeInv, PlaceInv',
           NEW reply \in {OkReply(responses), CancelReply, FallbackReply},
           Answer(reply)
    PROVE  PipeInv'
<1>1. /\ ppc = "dialog"
      /\ UNCHANGED <<conf, pc, ran, milestones, waiting, expected, canceled,
                     kills, toParent,
                     execed, reaped, quitting, exitStatus, explained>>
      /\ responses' = 0 /\ ~dialog'
      /\ \/ /\ Holders = {} /\ ppc' = "gone" /\ fate' = "signal"
            /\ UNCHANGED toChild
         \/ /\ Holders # {} /\ quitting /\ ppc' = "gone" /\ fate' = "returned"
            /\ toChild' = Append(toChild, reply)
         \/ /\ Holders # {} /\ ~quitting /\ ppc' = "loop" /\ fate' = fate
            /\ toChild' = Append(toChild, reply)
  BY DEF Answer, WriteReply, FrontGone, FrontStays, image, convo
<1>2. conf.gui
  BY <1>1 DEF PipeInv, NoGui
<1>3. /\ ~Idle
      /\ \A r : ~Replied(r)
      /\ \A q : ~Requested(q)
  BY <1>1 DEF Idle, Replied, Requested
<1>4. Append(<<>>, reply) = <<reply>>
  BY PipeFacts
<1>5. ASSUME Asked, ppc' # "gone" PROVE Replied(reply)'
  BY <1>1, <1>4, <1>5 DEF Asked, Replied
<1>6. ASSUME NEW w \in Procs, Announcing(w), ppc' # "gone" PROVE Announcing(w)'
  <2>1. reply \in Reply
    BY DEF PipeInv, PlaceInv, CancelInv, TypeOK, TypeFront, OkReply,
           CancelReply, FallbackReply, Reply
  <2>2. QED BY <2>1, <1>1, <1>3, <1>5, <1>6 DEF Announcing
<1>7. ASSUME Conversing, ppc' # "gone" PROVE Conversing'
  BY <1>1, <1>3, <1>5, <1>7 DEF Conversing
<1>8. ASSUME ppc' # "gone" PROVE Handshake' /\ Closing' /\ Over' /\ Early'
  <2>1. Handshake'
    BY <1>1, <1>2, <1>3, <1>6, <1>7, <1>8
    DEF PipeInv, Handshake, Counted
  <2>2. Closing'
    BY <1>1, <1>2, <1>3, <1>6, <1>7, <1>8 DEF PipeInv, Closing, Undisturbed
  <2>3. Over'
    BY <1>1 DEF PipeInv, Over, Undisturbed
  <2>4. Early'
    BY <1>1, <1>8 DEF PipeInv, Early
  <2>5. QED BY <2>1, <2>2, <2>3, <2>4
<1>9. NoGui' /\ NoProtocolErrorBeforeRun' /\ MessageBox' /\ Reaping'
  BY <1>1, <1>2
  DEF PipeInv, NoGui, NoProtocolErrorBeforeRun, MessageBox, Reaping, Undisturbed
<1>10. Walked'
  <2>1. \A w \in Procs : pc[w] \notin {"exec", "exec_wait", "program"}
    BY <1>1, <1>2, <1>3, Starting
  <2>2. ~conf.gui => pc["helper"] = "dead"
    BY <1>2
  <2>3. QED BY <2>1, <2>2, <1>1 DEF Walked
<1>11. Fits'
  <2>1. ASSUME Undisturbed \/ pc["child"] = "none", Reading',
               Head(toChild').kind = "OK"
        PROVE  Head(toChild').texts = expected
    <3>1. waiting /\ pc["helper"] \in PamCalls /\ toChild' # <<>>
      BY <2>1, <1>1 DEF Reading
    <3>2. conf.gui /\ Conversing
      BY <3>1, <2>1, <1>1
      DEF PipeInv, PlaceInv, Turns, CancelInv, Forked, Handshake, Closing
    <3>3. toChild = <<>> /\ responses = expected
      BY <3>1, <3>2, <1>1, <1>3 DEF Conversing, Asked
    <3>4. toChild' = <<reply>> /\ reply.kind = "OK"
      BY <3>1, <3>3, <2>1, <1>1, <1>4, PipeFacts
    <3>5. reply = OkReply(expected)
      BY <3>3, <3>4 DEF OkReply, CancelReply, FallbackReply
    <3>6. QED BY <3>4, <3>5, PipeFacts DEF OkReply
  <2>2. QED BY <2>1, <1>1 DEF Fits, AnswersMatch, Undisturbed
<1>12. QED BY <1>8, <1>9, <1>10, <1>11, FrontLeaves DEF PipeInv

\* The other steps of the front end and its user, and its end from outside.
LEMMA FrontPipes ==
    ASSUME PipeInv, PlaceInv',
           \/ HangUp \/ ChildExited \/ CloseQuestion \/ DismissMessages
           \/ KillFront
    PROVE  PipeInv'
<1>1. /\ UNCHANGED <<conf, pc, ran, milestones, waiting, expected, canceled,
                     toParent, toChild, execed, responses, dialog>>
      /\ ppc # "gone"
  BY DEF HangUp, ChildExited, CloseQuestion, DismissMessages, KillFront,
         image, convo, pipes, asked
<1>2. TypeOK
  BY DEF PipeInv, PlaceInv, CancelInv
<1>3. CASE HangUp
  <2>1. UNCHANGED <<kills, ppc, fate, quitting, reaped, exitStatus, explained>>
    BY <1>3 DEF HangUp, ending
  <2>2. QED
    BY <1>1, <2>1
    DEF PipeInv, Handshake, Closing, NoGui, Over, Early,
        NoProtocolErrorBeforeRun, MessageBox, Walked, Fits, Reaping, Idle,
        Requested, Asked, Replied, Announcing, Conversing, Counted, Left,
        Dismissed, AnswersMatch, Reading, Undisturbed, ProgramsStatus
<1>4. CASE ChildExited /\ ppc = "dialog"
  <2>1. /\ UNCHANGED <<kills, ppc, fate>>
        /\ pc["helper"] = "dead" /\ reaped' /\ quitting'
    BY <1>4 DEF ChildExited
  <2>2. ~Undisturbed
    BY <1>4, <2>1 DEF PipeInv, Over
  <2>3. QED
    BY <1>1, <1>4, <2>1, <2>2
    DEF PipeInv, Handshake, Closing, NoGui, Over, Early,
        NoProtocolErrorBeforeRun, MessageBox, Walked, Fits, Reaping, Idle,
        Requested, Asked, Replied, Announcing, Conversing, Counted, Left,
        Dismissed, AnswersMatch, Reading, Undisturbed, ProgramsStatus
<1>5. CASE ChildExited /\ ppc # "dialog"
  <2>1. /\ UNCHANGED <<kills, quitting>> /\ ppc' = "gone" /\ fate' = "returned"
        /\ pc["helper"] = "dead" /\ reaped'
    BY <1>1, <1>5 DEF ChildExited
  <2>2. NoGui' /\ NoProtocolErrorBeforeRun' /\ MessageBox' /\ Reaping'
    BY <1>1, <2>1
    DEF PipeInv, NoGui, NoProtocolErrorBeforeRun, MessageBox, Reaping,
        Undisturbed
  <2>3. Walked'
    <3>1. Undisturbed => pc["child"] \in {"none", "dead"}
      BY <2>1 DEF PipeInv, PlaceInv, Turns
    <3>2. QED
      BY <3>1, <1>1, <2>1 DEF Walked, Left, Dismissed, Undisturbed
  <2>4. Fits'
    BY <1>1, <2>1 DEF PipeInv, Fits, AnswersMatch, Reading, Undisturbed
  <2>5. QED BY <2>1, <2>2, <2>3, <2>4, FrontLeaves
<1>6. CASE CloseQuestion \/ DismissMessages
  <2>1. /\ UNCHANGED <<kills, quitting, reaped, exitStatus, explained>>
        /\ ppc' = "gone" /\ fate' \in {"_exit", "returned"}
        /\ ppc = "dialog" \/ dialog
    BY <1>6 DEF CloseQuestion, DismissMessages, FrontGone
  <2>2. conf.gui
    BY <2>1 DEF PipeInv, NoGui
  <2>3. NoGui' /\ NoProtocolErrorBeforeRun' /\ MessageBox' /\ Reaping'
    BY <1>1, <2>1, <2>2
    DEF PipeInv, NoGui, NoProtocolErrorBeforeRun, MessageBox, Reaping,
        Undisturbed
  <2>4. ~(Idle /\ execed) /\ ~(Replied(OkReply(0)) /\ execed)
    BY <2>1 DEF PipeInv, MessageBox, Idle, Replied
  <2>5. \A w \in Procs : pc[w] \notin {"exec", "program"}
    BY <2>2, <2>4, <1>1, Starting
  <2>6. \A w \in Procs : pc[w] = "exec_wait" => toChild = <<>>
    BY <2>2, <2>4, <1>1, Starting DEF Requested
  <2>7. Walked'
    BY <2>2, <2>5, <2>6, <1>1 DEF Walked
  <2>8. Fits'
    BY <1>1, <2>1 DEF PipeInv, Fits, AnswersMatch, Reading, Undisturbed
  <2>9. QED BY <2>1, <2>3, <2>7, <2>8, FrontLeaves
<1>7. CASE KillFront
  <2>1. /\ UNCHANGED <<quitting, reaped, exitStatus, explained>>
        /\ ppc' = "gone" /\ fate' = "signal"
        /\ ~Undisturbed'
    BY <1>2, <1>7, KillDisturbs DEF KillFront, FrontGone
  <2>2. NoGui' /\ NoProtocolErrorBeforeRun' /\ MessageBox' /\ Reaping'
    BY <1>1, <2>1
    DEF PipeInv, NoGui, NoProtocolErrorBeforeRun, MessageBox, Reaping
  <2>3. Walked'
    BY <2>1 DEF Walked, Left, Dismissed
  <2>4. Fits'
    BY <1>1, <2>1 DEF PipeInv, Fits, AnswersMatch, Reading
  <2>5. QED BY <2>1, <2>2, <2>3, <2>4, FrontLeaves
<1>8. QED BY <1>1, <1>3, <1>4, <1>5, <1>6, <1>7

\* The helper and its child leave the front end alone: what a step keeps of
\* PipeInv without being looked at.
LEMMA FrontKept ==
    ASSUME PipeInv, UNCHANGED front, milestones \subseteq milestones',
           pc["helper"] = "dead" => pc'["helper"] = "dead",
           Undisturbed' => Undisturbed
    PROVE  /\ UNCHANGED <<ppc, fate, execed, responses, dialog, reaped>>
           /\ NoProtocolErrorBeforeRun' /\ MessageBox' /\ Reaping'
<1>1. UNCHANGED <<ppc, fate, execed, responses, dialog, reaped, quitting,
                  exitStatus, explained>>
  BY DEF front, asked, ending
<1>2. QED
  BY <1>1 DEF PipeInv, NoProtocolErrorBeforeRun, MessageBox, Reaping

\* So do the pipes, in a step that neither reads nor writes.
LEMMA PipesKept ==
    ASSUME UNCHANGED <<pipes, ppc, execed, responses>>
    PROVE  /\ UNCHANGED <<toParent, toChild>>
           /\ Idle' <=> Idle
           /\ Asked' <=> Asked
           /\ \A r : Replied(r)' <=> Replied(r)
           /\ \A q : Requested(q)' <=> Requested(q)
BY DEF pipes, Idle, Asked, Replied, Requested

\* Places of the helper where nothing has been announced yet.
Asking == {"start", "lookup"} \cup (PamCalls \ {"close_session"})

\* Up to the fork the helper moves on only with both pipes empty.
LEMMA AskingMoves ==
    ASSUME PipeInv, PlaceInv', pc["helper"] \in Asking,
           UNCHANGED <<conf, front, pipes, kills, canceled, ran>>,
           ~waiting, ~waiting',
           milestones \subseteq milestones',
           "nogui" \in milestones' => "nogui" \in milestones,
           pc'["helper"] \in (Asking \ {"start"})
                                \cup {"exec_start", "waitpid", "dead"},
           pc'["child"] = IF pc'["helper"] = "waitpid" THEN "exec_start"
                                                       ELSE "none",
           pc'["helper"] # "dead" => ~canceled,
           pc["helper"] = "start" /\ pc'["helper"] # "dead" => conf.gui
    PROVE  PipeInv'
<1>1. /\ UNCHANGED <<toParent, toChild, ppc, fate, execed, responses, dialog,
                     reaped>>
      /\ Idle' <=> Idle
      /\ NoProtocolErrorBeforeRun' /\ MessageBox' /\ Reaping'
      /\ \A r : Replied(r)' <=> Replied(r)
  <2>1. pc["helper"] # "dead"
    BY DEF Asking, PamCalls
  <2>2. QED BY <2>1, FrontKept, PipesKept DEF Undisturbed
<1>2. pc["child"] = "none" /\ ran = "no"
  BY DEF PipeInv, PlaceInv, Turns, RanBy, Forking, Asking, PamCalls
<1>3. ASSUME conf.gui, ppc # "gone"
      PROVE  /\ ~canceled => Idle
             /\ ~Idle => Replied(OkReply(0)) /\ canceled
             /\ ~execed /\ Counted
  BY <1>3
  DEF PipeInv, PlaceInv, CancelInv, Stopped, Handshake, Conversing, Asking
<1>4. Handshake'
  BY <1>1, <1>3
  DEF Handshake, Conversing, Announcing, Counted, Asking, PamCalls
<1>5. Closing'
  BY DEF Closing
<1>6. NoGui'
  BY <1>1, <1>2
  DEF PipeInv, NoGui, Asking, PamCalls
<1>7. Over'
  <2>1. SUFFICES ASSUME ppc # "gone", Undisturbed, pc'["helper"] = "dead"
                 PROVE  Over'
    BY <1>1 DEF Over, Undisturbed
  <2>2. CASE conf.gui
    <3>1. ppc = "loop" /\ toParent = <<>> /\ ~execed
      BY <1>3, <2>1, <2>2 DEF Idle, Replied
    <3>2. ~ProgramsStatus'
      BY <1>2, <2>2 DEF ProgramsStatus
    <3>3. QED BY <3>1, <3>2, <1>1 DEF Over
  <2>3. CASE ~conf.gui
    <3>1. Idle /\ (execed <=> "nogui" \in milestones)
      BY <2>1, <2>3 DEF PipeInv, NoGui, Asking, PamCalls
    <3>2. ProgramsStatus' <=> "nogui" \in milestones
      BY <2>3 DEF ProgramsStatus
    <3>3. QED BY <3>1, <3>2, <1>1 DEF Over, Idle
  <2>4. QED BY <2>2, <2>3
<1>8. Early'
  BY <1>1 DEF PipeInv, Early
<1>9. Walked'
  <2>1. Left' => Left
    BY <1>1 DEF Left, Dismissed, Undisturbed
  <2>2. QED
    BY <2>1 DEF PipeInv, Walked, Asking, PamCalls
<1>10. Fits'
  BY DEF Fits, AnswersMatch, Reading
<1>11. QED
  BY <1>1, <1>4, <1>5, <1>6, <1>7, <1>8, <1>9, <1>10 DEF PipeInv

\* A process ends.  Over and Closing say what that leaves behind.
LEMMA Dies ==
    ASSUME PipeInv, PlaceInv', NEW w \in Procs, pc[w] \notin {"none", "dead"},
           Moved(w, "dead"),
           UNCHANGED <<conf, ran, front, toParent, canceled>>,
           milestones \subseteq milestones',
           "nogui" \in milestones' => "nogui" \in milestones,
           ~waiting',
           Undisturbed' => Undisturbed,
           \/ toChild' = toChild
           \/ pc["child"] \in {"none", "dead"} \/ w = "child",
           ~conf.gui /\ ppc # "gone" => UNCHANGED toChild,
           ppc # "gone" /\ Undisturbed' => IF w = "helper" THEN Over'
                                                           ELSE Closing'
    PROVE  PipeInv'
<1>1. /\ UNCHANGED <<ppc, fate, execed, responses, dialog, reaped>>
      /\ NoProtocolErrorBeforeRun' /\ MessageBox' /\ Reaping'
  BY FrontKept DEF Moved
<1>2. /\ pc'[w] = "dead"
      /\ \A v \in Procs \ {w} : pc'[v] = pc[v]
  BY DEF Moved
<1>3. Handshake'
  <2>1. CASE w = "child"
    <3>1. pc["helper"] \notin Asking \cup {"none"}
      BY <2>1 DEF PipeInv, PlaceInv, Turns, Forking, Asking, PamCalls
    <3>2. QED
      BY <2>1, <3>1, <1>1, <1>2
      DEF PipeInv, Handshake, Counted, Announcing, Asking
  <2>2. CASE w = "helper"
    <3>1. pc["child"] \notin {"none", "dead"} => UNCHANGED toChild
      BY <2>2
    <3>2. conf.gui /\ ppc # "gone" => Announcing("child")'
      <4>1. CASE pc["child"] \in {"none", "dead"}
        BY <4>1, <2>2, <1>2 DEF Announcing
      <4>2. CASE pc["child"] \notin {"none", "dead"}
        BY <4>2, <3>1, <2>2, <1>1, <1>2
        DEF PipeInv, Handshake, Announcing, Idle, Asked, Requested, Replied
      <4>3. QED BY <4>1, <4>2
    <3>3. QED
      BY <2>2, <3>2, <1>1, <1>2
      DEF PipeInv, Handshake, Counted, Announcing, PamCalls
  <2>3. QED BY <2>1, <2>2
<1>4. Closing'
  <2>1. CASE w = "child"
    BY <2>1, <1>1 DEF Closing
  <2>2. CASE w = "helper"
    BY <2>2, <1>1, <1>2 DEF PipeInv, Closing
  <2>3. QED BY <2>1, <2>2
<1>5. Over'
  <2>1. CASE w = "helper"
    BY <2>1, <1>1 DEF Over
  <2>2. CASE w = "child"
    <3>1. Undisturbed => pc["helper"] = "waitpid"
      BY <2>2 DEF PipeInv, PlaceInv, Turns
    <3>2. QED BY <3>1, <2>2, <1>2 DEF Over
  <2>3. QED BY <2>1, <2>2
<1>6. NoGui'
  BY <1>1, <1>2 DEF PipeInv, NoGui, Idle, Requested, Replied
<1>7. Early'
  BY <1>1 DEF PipeInv, Early
<1>8. Walked'
  <2>1. Left' => Left
    BY <1>1 DEF Left, Dismissed
  <2>2. \A v \in Procs \ {w} : pc[v] = "exec_wait" => UNCHANGED toChild
    BY DEF PipeInv, PlaceInv, Turns, Forking, Running
  <2>3. QED BY <2>1, <2>2, <1>2 DEF PipeInv, Walked
<1>9. Fits'
  BY DEF Fits, AnswersMatch, Reading
<1>10. QED
  BY <1>1, <1>3, <1>4, <1>5, <1>6, <1>7, <1>8, <1>9 DEF PipeInv

\* A step of a conversation keeps PipeInv if it keeps Conversing.
LEMMA ConversationMoves ==
    ASSUME PipeInv, PlaceInv', pc["helper"] \in PamCalls, conf.gui,
           UNCHANGED <<conf, pc, ran, milestones, kills, front>>,
           ppc # "gone" /\ Conversing =>
              /\ Conversing'
              /\ Fits'
              /\ "setcred" \notin milestones => Early'
              /\ canceled' => canceled \/ (~execed /\ responses = 0),
           ppc = "gone" => Fits'
    PROVE  PipeInv'
<1>1. /\ UNCHANGED <<ppc, fate, execed, responses, dialog, reaped>>
      /\ NoProtocolErrorBeforeRun' /\ MessageBox' /\ Reaping'
  BY FrontKept DEF Undisturbed
<1>2. pc["child"] \in {"none", "dead"}
  BY DEF PipeInv, PlaceInv, Turns, Forking, PamCalls
<1>3. pc["helper"] # "close_session" /\ ppc # "gone" => Conversing /\ ~execed
  BY DEF PipeInv, Handshake
<1>4. Undisturbed /\ ppc # "gone" => Conversing
  BY <1>3
  DEF PipeInv, PlaceInv, CancelInv, Forked, Closing
<1>5. Handshake'
  BY <1>1, <1>2, <1>3
  DEF PipeInv, Handshake, Announcing, Counted, PamCalls
<1>6. Closing'
  BY <1>1, <1>4 DEF PipeInv, Closing, Undisturbed, PamCalls
<1>7. NoGui'
  BY DEF NoGui
<1>8. Over'
  BY DEF Over, PamCalls
<1>9. Early'
  <2>1. "setcred" \notin milestones => pc["helper"] # "close_session"
    BY DEF PipeInv, PlaceInv, PrivilegeInv, Stage, Earned, CancelInv, Forked,
           Turns
  <2>2. QED BY <2>1, <1>1, <1>3 DEF Early
<1>10. Walked'
  <2>1. \A w \in Procs : pc[w] \notin {"exec", "exec_wait", "program"}
    BY <1>2 DEF PamCalls
  <2>2. QED BY <2>1 DEF Walked
<1>11. Fits'
  <2>1. ~Undisturbed /\ pc["child"] # "none" => Fits'
    BY DEF Fits, Undisturbed
  <2>2. pc["child"] = "none" => pc["helper"] # "close_session"
    BY DEF PipeInv, PlaceInv, CancelInv, Forked
  <2>3. QED BY <2>1, <2>2, <1>3, <1>4
<1>12. QED
  BY <1>1, <1>5, <1>6, <1>7, <1>8, <1>9, <1>10, <1>11 DEF PipeInv

\* The helper asks, or reads the reply.
LEMMA ReadingPipes ==
    ASSUME PipeInv, PlaceInv',
           \/ ConverseCanceled \/ ReadCancel \/ ReadFallback
           \/ ReadAnswers \/ ReadEof
    PROVE  PipeInv'
<1>1. /\ pc["helper"] \in PamCalls /\ conf.gui
      /\ UNCHANGED <<conf, pc, ran, milestones, kills, front, expected,
                     toParent>>
      /\ ~waiting'
  BY DEF ConverseCanceled, MayConverse, ReadCancel, ReadFallback, ReadAnswers,
         ReadEof, Reading, image, pipes, PipeInv, PlaceInv, Turns
<1>2. Fits'
  BY <1>1 DEF Fits, AnswersMatch, Reading
<1>3. UNCHANGED <<ppc, execed, responses>>
  BY <1>1 DEF front, asked, ending
<1>4. ASSUME ppc # "gone", Conversing
      PROVE  /\ Conversing'
             /\ "setcred" \notin milestones => Early'
             /\ canceled' => canceled \/ (~execed /\ responses = 0)
  <2>1. "setcred" \notin milestones => Early'
    BY <1>1, <1>3 DEF PipeInv, Early
  <2>2. CASE ConverseCanceled
    BY <2>1, <2>2, <1>1, <1>3, <1>4
    DEF ConverseCanceled, MayConverse, pipes, Conversing, Idle, Replied
  <2>3. ASSUME Reading
        PROVE  \E r \in {OkReply(expected), CancelReply, FallbackReply} :
                  /\ ppc = "loop" /\ toParent = <<>> /\ toChild = <<r>>
                  /\ r = CancelReply => ~execed /\ responses = 0
    <3>1. waiting /\ toChild # <<>>
      BY <2>3 DEF Reading
    <3>2. CancelReply \notin {OkReply(expected), FallbackReply}
      BY DEF CancelReply, OkReply, FallbackReply
    <3>3. QED
      BY <3>1, <3>2, <1>4 DEF Conversing, Requested, Asked, Replied
  <2>4. CASE ReadCancel
    <3>1. PICK r \in {OkReply(expected), CancelReply, FallbackReply} :
             /\ ppc = "loop" /\ toParent = <<>> /\ toChild = <<r>>
             /\ r = CancelReply => ~execed /\ responses = 0
      BY <2>3, <2>4 DEF ReadCancel
    <3>2. r = CancelReply
      BY <3>1, <2>4, PipeFacts
      DEF ReadCancel, OkReply, CancelReply, FallbackReply
    <3>3. toChild' = <<OkReply(0)>> \o Tail(toChild) /\ Tail(toChild) = <<>>
      BY <3>1, <2>4, PipeFacts DEF ReadCancel
    <3>4. toChild' = <<OkReply(0)>>
      BY <3>3, PipeFacts
    <3>5. canceled'
      BY <2>4 DEF ReadCancel
    <3>6. QED
      BY <2>1, <3>1, <3>2, <3>4, <3>5, <1>1, <1>3 DEF Conversing, Replied
  <2>5. CASE ReadFallback
    <3>1. ppc = "loop" /\ toParent = <<>> /\ Tail(toChild) = <<>>
      BY <2>3, <2>5, PipeFacts DEF ReadFallback
    <3>2. /\ toChild' = Tail(toChild) /\ canceled' = canceled
          /\ ~canceled
      BY <2>5 DEF ReadFallback, Reading, PipeInv, PlaceInv, Turns
    <3>3. QED BY <2>1, <3>1, <3>2, <1>1, <1>3 DEF Conversing, Idle
  <2>6. CASE ReadAnswers
    <3>1. PICK r \in {OkReply(expected), CancelReply, FallbackReply} :
             /\ ppc = "loop" /\ toParent = <<>> /\ toChild = <<r>>
      BY <2>3, <2>6 DEF ReadAnswers
    <3>2. Head(toChild) = OkReply(expected) /\ Tail(toChild) = <<>>
      BY <3>1, <2>6, PipeFacts
      DEF ReadAnswers, OkReply, CancelReply, FallbackReply
    <3>3. expected \in Nat /\ ~canceled
      BY <2>6 DEF ReadAnswers, Reading, PipeInv, PlaceInv, Turns, CancelInv,
                  TypeOK, TypeConvo
    <3>4. ~(Head(toChild).texts > expected)
      BY <3>2, <3>3 DEF OkReply
    <3>5. toChild' = <<>> /\ canceled' = canceled
      BY <3>2, <3>4, <2>6 DEF ReadAnswers
    <3>6. QED BY <2>1, <3>1, <3>3, <3>5, <1>1, <1>3 DEF Conversing, Idle
  <2>7. CASE ReadEof
    BY <2>7, <1>4 DEF ReadEof
  <2>8. QED BY <2>2, <2>4, <2>5, <2>6, <2>7
<1>5. QED BY <1>1, <1>2, <1>4, ConversationMoves

\* Writing to a front end that is gone ends the process.
LEMMA Sends ==
    ASSUME TypeOK, NEW w \in Procs, NEW q, NEW place, SendRequest(w, q, place)
    PROVE  \/ ppc = "gone" /\ Moved(w, "dead") /\ UNCHANGED toParent
           \/ /\ ppc # "gone" /\ Moved(w, place)
              /\ toParent' = Append(toParent, q)
BY MovesAre DEF SendRequest

\* So does a PAM conversation, as far as its request.
LEMMA ConversePipes ==
    ASSUME PipeInv, PlaceInv', NEW shape \in Shapes,
           Converse(shape[1], shape[2])
    PROVE  PipeInv'
<1> DEFINE q == ConverseRequest(conf.fallback, shape[1], shape[2])
<1>1. /\ MayConverse /\ ~canceled
      /\ SendRequest("helper", q, pc["helper"])
      /\ waiting' = (ppc # "gone")
      /\ expected' = shape[1]
      /\ UNCHANGED <<conf, ran, milestones, canceled, toChild, front, kills>>
  BY DEF Converse
<1>2. /\ TypeOK /\ conf.gui /\ conf.fallback \in BOOLEAN
      /\ pc["helper"] \in PamCalls /\ ~waiting
      /\ shape[1] \in Nat /\ shape[2] \in Nat
  BY <1>1, ShapesAssumption
  DEF MayConverse, PipeInv, PlaceInv, CancelInv, TypeOK, TypeImage, Conf
<1>3. CASE ppc = "gone"
  <2>1. Moved("helper", "dead") /\ UNCHANGED toParent /\ ~waiting'
    BY <1>1, <1>2, <1>3, Sends
  <2>2. QED
    BY <2>1, <1>1, <1>2, <1>3, Dies DEF PamCalls, Undisturbed
<1>4. CASE ppc # "gone"
  <2>1. Moved("helper", pc["helper"]) /\ toParent' = Append(toParent, q)
    BY <1>1, <1>2, <1>4, Sends
  <2>2. UNCHANGED pc
    <3>1. pc \in [Procs -> PCs] /\ pc' \in [Procs -> PCs]
      BY DEF PipeInv, PlaceInv, CancelInv, TypeOK, TypeImage
    <3>2. \A w \in Procs : pc'[w] = pc[w]
      BY <2>1 DEF Moved
    <3>3. QED BY <3>1, <3>2
  <2>3. UNCHANGED <<ppc, execed, responses>>
    BY <1>1 DEF front, asked, ending
  <2>4. ASSUME Conversing
        PROVE  Conversing' /\ Fits' /\ ("setcred" \notin milestones => Early')
    <3>1. Idle
      BY <2>4, <1>1, <1>2 DEF Conversing
    <3>2. toParent' = <<q>> /\ toChild' = <<>> /\ ppc' = "loop"
      BY <3>1, <2>1, <2>3, <1>1, PipeFacts DEF Idle
    <3>3. Conversing'
      <4>1. waiting' /\ q = ConverseRequest(conf.fallback, expected', shape[2])
        BY <1>1, <1>4
      <4>2. \E b \in BOOLEAN, t \in Nat :
               q = ConverseRequest(b, expected', t)
        BY <4>1, <1>2
      <4>3. QED BY <4>1, <4>2, <3>2 DEF Conversing, Requested
    <3>4. Fits'
      BY <3>2 DEF Fits, AnswersMatch, Reading
    <3>5. "setcred" \notin milestones => Early'
      <4>1. ASSUME "setcred" \notin milestones PROVE responses = 0
        <5>1. pc["helper"] # "close_session"
          BY <4>1 DEF PipeInv, PlaceInv, PrivilegeInv, Stage, Earned,
                      CancelInv, Forked, Turns
        <5>2. ~execed /\ Counted
          BY <5>1, <1>2, <1>4 DEF PipeInv, Handshake
        <5>3. QED BY <5>2, <3>1 DEF Counted, Idle
      <4>2. q \in Request /\ q.expect = q.prompts
        BY <1>2, RequestType DEF ConverseRequest
      <4>3. QED BY <4>1, <4>2, <3>2, <2>3 DEF Early
    <3>6. QED BY <3>3, <3>4, <3>5
  <2>5. QED
    BY <2>2, <2>4, <1>1, <1>2, <1>4, ConversationMoves
<1>5. QED BY <1>3, <1>4

\* Steps of the helper that neither read nor write, up to the fork.
LEMMA AskingPipes ==
    ASSUME PamHonoursConv, PipeInv, PlaceInv',
           \/ \E status \in ExitStatuses :
                 RefuseStart(status) \/ LookupFails(status)
           \/ StartGui \/ LookupDone \/ Authenticated \/ AccountOk
           \/ SessionOpened \/ CredEstablished
           \/ \E r \in PamErrors : \/ AuthRetry(r) \/ AuthGivesUp(r)
                                   \/ \E call \in PamCalls : CallFails(call, r)
    PROVE  PipeInv'
<1> USE MovesAre DEF Moved, Asking, PamCalls
<1>a. TypeOK
  BY DEF PipeInv, PlaceInv, CancelInv
<1>b. ASSUME pc["helper"] \in Asking
      PROVE  /\ pc["child"] = "none"
             /\ pc["helper"] \in {"start", "lookup"} => ~waiting /\ ~canceled
             /\ canceled /\ pc["helper"] \in PamCalls => convFailed
  BY <1>b DEF PipeInv, PlaceInv, Turns, Forking, CancelInv, Stopped
<1>1. CASE \E status \in ExitStatuses :
             RefuseStart(status) \/ LookupFails(status)
  BY <1>1, <1>a, <1>b, AskingMoves DEF RefuseStart, LookupFails, convo
<1>2. CASE StartGui
  BY <1>2, <1>a, <1>b, AskingMoves DEF StartGui, convo
<1>3. CASE LookupDone
  BY <1>3, <1>a, <1>b, AskingMoves DEF LookupDone, Call
<1>4. CASE Authenticated
  BY <1>4, <1>a, <1>b, AskingMoves
  DEF Authenticated, Returned, Milestone, Call, convo
<1>5. CASE AccountOk
  BY <1>5, <1>a, <1>b, AskingMoves
  DEF AccountOk, Returned, Milestone, Call, convo
<1>6. CASE SessionOpened
  BY <1>6, <1>a, <1>b, AskingMoves
  DEF SessionOpened, Returned, Milestone, Call, convo
<1>7. CASE CredEstablished
  BY <1>7, <1>a, <1>b, AskingMoves
  DEF CredEstablished, Returned, Milestone, convo, TypeOK, TypeImage
<1>8. CASE \E r \in PamErrors : AuthRetry(r) \/ AuthGivesUp(r)
  BY <1>8, <1>a, <1>b, AskingMoves
  DEF AuthRetry, AuthGivesUp, Returned, Call, convo
<1>9. CASE \E r \in PamErrors, call \in PamCalls : CallFails(call, r)
  BY <1>9, <1>a, <1>b, AskingMoves DEF CallFails, Returned, convo
<1>10. QED
  BY <1>1, <1>2, <1>3, <1>4, <1>5, <1>6, <1>7, <1>8, <1>9

\* GUI=no: the early announcement.
LEMMA StartNoGuiPipes ==
    ASSUME PipeInv, PlaceInv', StartNoGui
    PROVE  PipeInv'
<1>1. /\ TypeOK /\ pc["helper"] = "start" /\ ~conf.gui
      /\ SendRequest("helper", Begin, "nogui_wait")
      /\ UNCHANGED <<conf, ran, milestones, convo, toChild, front, kills>>
  BY DEF StartNoGui, Begin, PipeInv, PlaceInv, CancelInv
<1>2. ~waiting /\ UNCHANGED <<waiting, canceled>>
  BY <1>1 DEF PipeInv, PlaceInv, Turns, PamCalls, convo
<1>3. CASE ppc = "gone"
  BY <1>1, <1>2, <1>3, Sends, Dies DEF Undisturbed
<1>4. CASE ppc # "gone"
  <2>1. /\ Moved("helper", "nogui_wait")
        /\ toParent' = Append(toParent, Begin)
    BY <1>1, <1>4, Sends
  <2>2. /\ UNCHANGED <<ppc, fate, execed, responses, dialog, reaped>>
        /\ NoProtocolErrorBeforeRun' /\ MessageBox' /\ Reaping'
    BY <1>1, <2>1, FrontKept DEF Moved, Undisturbed
  <2>3. Idle /\ ~execed /\ responses = 0 /\ "nogui" \notin milestones
    BY <1>1, <1>4 DEF PipeInv, NoGui
  <2>4. Requested(Begin)'
    BY <1>1, <2>1, <2>2, <2>3, PipeFacts DEF Idle, Requested, Begin
  <2>5. NoGui'
    BY <1>1, <2>1, <2>2, <2>3, <2>4
    DEF PipeInv, NoGui, Moved, Requested, Begin
  <2>6. Handshake' /\ Closing' /\ Over'
    BY <1>1, <2>1 DEF Handshake, Closing, Over, Moved
  <2>7. Early'
    <3>1. Begin \in Request /\ Begin.op # "CONVERSE"
      BY RequestType DEF Begin, ExecRequest
    <3>2. QED BY <3>1, <2>4 DEF Early, Requested, Begin
  <2>8. Walked'
    <3>1. Left' => Left
      BY <1>1, <2>2 DEF Left, Dismissed, Undisturbed
    <3>2. QED BY <3>1, <1>1 DEF PipeInv, Walked
  <2>9. Fits'
    BY <1>2 DEF Fits, AnswersMatch, Reading
  <2>10. QED
    BY <2>2, <2>5, <2>6, <2>7, <2>8, <2>9 DEF PipeInv
<1>5. QED BY <1>3, <1>4

\* waitpid() returns.
LEMMA ChildReapedPipes ==
    ASSUME PipeInv, PlaceInv', ChildReaped
    PROVE  PipeInv'
<1>1. /\ pc["helper"] = "waitpid" /\ pc["child"] = "dead"
      /\ Moved("helper", "close_session")
      /\ UNCHANGED <<conf, ran, milestones, waiting, canceled, pipes, front,
                     kills>>
      /\ ~waiting /\ ~canceled
  BY MovesAre
  DEF ChildReaped, Call, PipeInv, PlaceInv, CancelInv, Turns, PamCalls
<1>2. /\ UNCHANGED <<ppc, fate, execed, responses, dialog, reaped>>
      /\ NoProtocolErrorBeforeRun' /\ MessageBox' /\ Reaping'
  BY <1>1, FrontKept DEF Undisturbed
<1>3. UNCHANGED <<toParent, toChild>> /\ (Idle' <=> Idle)
  BY <1>1, <1>2, PipesKept
<1>4. Handshake'
  BY <1>1, <1>2
  DEF PipeInv, Handshake, Announcing, Counted, Moved
<1>5. Closing'
  BY <1>1, <1>2, <1>3 DEF PipeInv, Closing, Conversing, Moved, Undisturbed
<1>6. NoGui' /\ Over' /\ Early'
  BY <1>1, <1>2, <1>3
  DEF PipeInv, NoGui, Over, Early, Moved, Idle
<1>7. Walked'
  <2>1. Left' => Left
    BY <1>1, <1>2 DEF Left, Dismissed, Undisturbed
  <2>2. QED BY <2>1, <1>1 DEF PipeInv, Walked, Moved
<1>8. Fits'
  BY <1>1 DEF Fits, AnswersMatch, Reading
<1>9. QED
  BY <1>2, <1>4, <1>5, <1>6, <1>7, <1>8 DEF PipeInv

\* The session is closed: the helper exits with its child's status.
LEMMA SessionClosedPipes ==
    ASSUME PamHonoursConv, PipeInv, PlaceInv', SessionClosed
    PROVE  PipeInv'
<1>1. /\ pc["helper"] = "close_session" /\ ~waiting /\ ~convFailed
      /\ Moved("helper", "dead")
      /\ milestones' = milestones \cup {"close_session"}
      /\ UNCHANGED <<conf, ran, waiting, canceled, toParent, toChild, front,
                     kills>>
      /\ pc["child"] = "dead"
  BY MovesAre
  DEF SessionClosed, Returned, Milestone, convo, pipes, PipeInv, PlaceInv,
      CancelInv, Forked
<1>2. UNCHANGED <<ppc, execed, responses>>
  BY <1>1 DEF front, asked, ending
<1>3. ASSUME ppc # "gone", Undisturbed' PROVE Over'
  <2>1. CASE conf.gui
    <3>1. Conversing /\ (execed <=> ran = "root")
      BY <2>1, <1>1, <1>3 DEF PipeInv, Closing, Undisturbed
    <3>2. ppc = "loop" /\ toParent = <<>>
      BY <3>1, <1>1 DEF Conversing, Idle, Replied
    <3>3. ProgramsStatus' <=> ran = "root"
      BY <2>1, <1>1 DEF ProgramsStatus, PipeInv, PlaceInv, RanBy
    <3>4. QED BY <3>1, <3>2, <3>3, <1>1, <1>2 DEF Over
  <2>2. CASE ~conf.gui
    <3>1. Idle /\ execed /\ "nogui" \in milestones
      BY <2>2, <1>1, <1>3 DEF PipeInv, NoGui
    <3>2. ProgramsStatus'
      BY <2>2, <3>1, <1>1 DEF ProgramsStatus
    <3>3. QED BY <3>1, <3>2, <1>1, <1>2 DEF Over, Idle
  <2>3. QED BY <2>1, <2>2
<1>4. QED BY <1>1, <1>3, Dies DEF Undisturbed

\* Taking the announcement back.
LEMMA Retracts ==
    ASSUME TypeOK, NEW w \in Procs, NEW status, ExecFailed(w, status)
    PROVE  \/ /\ ~conf.gui \/ ppc = "gone"
              /\ Moved(w, "dead") /\ UNCHANGED toParent
           \/ /\ conf.gui /\ ppc # "gone"
              /\ Moved(w, "fail_wait")
              /\ toParent' = Append(toParent, Retract)
<1>1. pc' = [pc EXCEPT ![w] = "fail_wait"] => Moved(w, "fail_wait")
  BY DEF TypeOK, TypeImage, Moved
<1>2. QED BY <1>1, MovesAre DEF ExecFailed, Retract

\* The session cannot be closed.
LEMMA CloseFailsPipes ==
    ASSUME PipeInv, PlaceInv', NEW r \in PamErrors, SessionCloseFails(r)
    PROVE  PipeInv'
<1>1. /\ TypeOK /\ pc["helper"] = "close_session" /\ ~waiting
      /\ ExecFailed("helper", FailExit(canceled, r))
      /\ UNCHANGED <<conf, ran, milestones, waiting, canceled, toChild, front,
                     kills>>
      /\ pc["child"] = "dead"
  BY DEF SessionCloseFails, Returned, convo, PipeInv, PlaceInv, CancelInv,
         Forked
<1>2. UNCHANGED <<ppc, fate, execed, responses, dialog, reaped>>
  BY <1>1 DEF front, asked, ending
<1>3. CASE /\ ~conf.gui \/ ppc = "gone"
           /\ Moved("helper", "dead") /\ UNCHANGED toParent
  <2>1. ASSUME ppc # "gone" PROVE Over'
    <3>1. Idle /\ execed /\ "nogui" \in milestones
      BY <2>1, <1>1, <1>3 DEF PipeInv, NoGui
    <3>2. ProgramsStatus'
      BY <2>1, <1>3, <3>1, <1>1 DEF ProgramsStatus
    <3>3. QED BY <3>1, <3>2, <1>1, <1>2, <1>3 DEF Over, Idle
  <2>2. QED BY <2>1, <1>1, <1>3, Dies DEF Undisturbed
<1>4. CASE /\ conf.gui /\ ppc # "gone"
           /\ Moved("helper", "fail_wait")
           /\ toParent' = Append(toParent, Retract)
  <2>1. NoProtocolErrorBeforeRun' /\ MessageBox' /\ Reaping'
    BY <1>1, <1>4, FrontKept DEF Undisturbed
  <2>2. Handshake'
    BY <1>1, <1>2, <1>4
    DEF PipeInv, Handshake, Announcing, Counted, Moved, PamCalls
  <2>3. Closing'
    <3>1. SUFFICES ASSUME Undisturbed PROVE Closing'
      BY <1>1 DEF Closing, Undisturbed
    <3>2. Conversing
      BY <3>1, <1>1, <1>4 DEF PipeInv, Closing
    <3>3. CASE canceled
      <4>1. Replied(OkReply(0)) /\ ~execed /\ responses = 0
        BY <3>1, <3>2, <3>3, <1>1, <1>4 DEF PipeInv, Closing, Conversing
      <4>2. toParent' = <<Retract>> /\ toChild' # <<>> /\ ppc' = "loop"
        BY <4>1, <1>1, <1>2, <1>4, PipeFacts DEF Replied
      <4>3. QED BY <4>1, <4>2, <3>3, <1>1, <1>2, <1>4 DEF Closing, Moved
    <3>4. CASE ~canceled
      <4>1. Idle
        BY <3>2, <3>4, <1>1 DEF Conversing
      <4>2. Requested(Retract)'
        BY <4>1, <1>1, <1>2, <1>4, PipeFacts
        DEF Idle, Requested, Retract
      <4>3. Announcing("helper")'
        BY <4>2, <1>4 DEF Announcing, Moved
      <4>4. QED BY <4>3, <3>4, <1>1, <1>4 DEF Closing, Moved
    <3>5. QED BY <3>3, <3>4
  <2>4. NoGui' /\ Over'
    BY <1>1, <1>4 DEF NoGui, Over, Moved
  <2>5. Early'
    BY <1>1
    DEF Early, PipeInv, PlaceInv, PrivilegeInv, Stage, Earned, Turns
  <2>6. Walked'
    <3>1. Left' => Left
      BY <1>1, <1>2 DEF Left, Dismissed, Undisturbed
    <3>2. QED BY <3>1, <1>1, <1>4 DEF PipeInv, Walked, Moved
  <2>7. Fits'
    BY <1>1 DEF Fits, AnswersMatch, Reading
  <2>8. QED
    BY <2>1, <2>2, <2>3, <2>4, <2>5, <2>6, <2>7 DEF PipeInv
<1>5. QED BY <1>1, <1>3, <1>4, Retracts

-----------------------------------------------------------------------------
(* Running the program.                                                    *)

\* GUI=no: once the early handshake is over nothing is in the pipes, whoever
\* runs, waits or ends.
LEMMA NoGuiQuiet ==
    ASSUME PipeInv, ~conf.gui, ppc # "gone",
           pc["helper"] \notin {"start", "nogui_wait", "dead"}
    PROVE  Idle /\ execed /\ "nogui" \in milestones
BY DEF PipeInv, NoGui

\* The process on its way into the program moves on.
LEMMA RunnerMoves ==
    ASSUME PipeInv, PlaceInv', NEW w \in Procs, pc[w] \in Running,
           NEW place \in {"exec_wait", "exec", "program", "fail_wait"},
           Moved(w, place), ~Left,
           UNCHANGED <<conf, milestones, front, kills, waiting>>,
           conf.gui /\ ppc # "gone" => Announcing(w)',
           ~conf.gui => UNCHANGED toParent,
           ~conf.gui /\ ppc # "gone" => UNCHANGED toChild
    PROVE  PipeInv'
<1>1. /\ UNCHANGED <<ppc, fate, execed, responses, dialog, reaped>>
      /\ NoProtocolErrorBeforeRun' /\ MessageBox' /\ Reaping'
  BY FrontKept DEF Moved, Running, Undisturbed
<1>2. /\ pc'[w] = place
      /\ \A v \in Procs \ {w} : pc'[v] = pc[v]
  BY DEF Moved
<1>3. /\ w = "helper" => pc["child"] = "none"
      /\ w = "child" => pc["helper"] \in Forking
      /\ w = "child" /\ Undisturbed => pc["helper"] = "waitpid"
      /\ w = "child" => pc["helper"] \notin {"close_session", "fail_wait"}
      /\ ~waiting
  BY DEF PipeInv, PlaceInv, Turns, Forking, Running, PamCalls
<1>4. Handshake'
  BY <1>1, <1>2, <1>3
  DEF PipeInv, Handshake, Counted, Announcing, Forking, PamCalls
<1>5. Closing' /\ Over'
  BY <1>2, <1>3 DEF Closing, Over, Undisturbed, Running
<1>6. NoGui'
  BY <1>1, <1>2, <1>3 DEF PipeInv, NoGui, Idle, Requested, Replied, Running
<1>7. Early'
  <2>1. CASE conf.gui /\ ppc # "gone"
    <3>1. toParent' \in {<<>>, <<Begin>>, <<Retract>>}
      BY <2>1, <1>2 DEF Announcing, Idle, Requested, Replied, Asked
    <3>2. /\ Begin \in Request /\ Begin.op # "CONVERSE"
          /\ Retract \in Request /\ Retract.op # "CONVERSE"
      BY RequestType DEF Begin, Retract, ExecRequest
    <3>3. QED BY <3>1, <3>2 DEF Early
  <2>2. CASE ~conf.gui \/ ppc = "gone"
    BY <2>2, <1>1 DEF PipeInv, Early
  <2>3. QED BY <2>1, <2>2
<1>8. Walked'
  <2>1. Left' => Left
    BY <1>1 DEF Left, Dismissed, Undisturbed
  <2>2. QED BY <2>1 DEF Walked
<1>9. Fits'
  BY <1>3 DEF Fits, AnswersMatch, Reading
<1>10. QED
  BY <1>1, <1>4, <1>5, <1>6, <1>7, <1>8, <1>9 DEF PipeInv

\* A process ends with both sides agreed and nothing on its way.
LEMMA EndsQuietly ==
    ASSUME PipeInv, PlaceInv', NEW w \in Procs,
           pc[w] \in Running \cup {"program", "fail_wait"},
           Moved(w, "dead"), Undisturbed, ppc # "gone",
           UNCHANGED <<conf, ran, milestones, front, kills, canceled>>,
           Idle', conf.gui => (execed <=> ran # "no"),
           conf.gui /\ w = "helper" => pc["child"] = "none"
    PROVE  IF w = "helper" THEN Over' ELSE Closing'
<1>1. UNCHANGED <<ppc, execed, responses>>
  BY DEF front, asked, ending
<1>2. CASE w = "helper" /\ conf.gui
  <2>1. ran # "no" => (execed /\ ProgramsStatus')
    BY <1>2 DEF ProgramsStatus, PipeInv, PlaceInv, RanBy, Running
  <2>2. QED BY <2>1, <1>1, <1>2 DEF Over, Idle, ProgramsStatus
<1>3. CASE w = "helper" /\ ~conf.gui
  <2>1. execed /\ "nogui" \in milestones
    BY <1>3, NoGuiQuiet DEF Running
  <2>2. QED BY <2>1, <1>1, <1>3 DEF Over, Idle, ProgramsStatus
<1>4. CASE w = "child"
  <2>1. pc["helper"] = "waitpid" /\ pc'["helper"] = "waitpid" /\ ~canceled
    BY <1>4 DEF PipeInv, PlaceInv, Turns, Running, Moved
  <2>2. ran \in {"no", "root"}
    BY <1>4
    DEF PipeInv, PlaceInv, RanBy, Running, CancelInv, TypeOK, TypeImage
  <2>3. QED BY <2>1, <2>2, <1>1, <1>4 DEF Closing
<1>5. QED BY <1>2, <1>3, <1>4

\* So does the end of a process that may not take its identity.
LEMMA IdentityRefusedPipes ==
    ASSUME PipeInv, PlaceInv', NEW w \in Procs, IdentityRefused(w)
    PROVE  PipeInv'
<1>1. /\ pc[w] = "exec_start" /\ Moved(w, "dead")
      /\ UNCHANGED <<conf, ran, milestones, waiting, canceled, pipes, front,
                     kills>>
  BY MovesAre DEF IdentityRefused, PipeInv, PlaceInv, CancelInv, convo
<1>2. /\ w = "helper" => pc["child"] = "none"
      /\ ~waiting /\ ran = "no"
  BY <1>1 DEF PipeInv, PlaceInv, Turns, RanBy, Running, Forking, PamCalls
<1>3. ASSUME ppc # "gone", Undisturbed
      PROVE  IF w = "helper" THEN Over' ELSE Closing'
  <2>1. Idle /\ (conf.gui => ~execed)
    <3>1. CASE conf.gui
      BY <3>1, <1>1, <1>2, <1>3 DEF PipeInv, Handshake, Announcing
    <3>2. CASE ~conf.gui
      <4>1. pc["helper"] \notin {"start", "nogui_wait", "dead"}
        BY <1>1, <1>3 DEF PipeInv, PlaceInv, Turns
      <4>2. QED BY <3>2, <4>1, <1>3, NoGuiQuiet
    <3>3. QED BY <3>1, <3>2
  <2>2. Idle'
    BY <2>1, <1>1, PipesKept DEF front, asked, ending
  <2>3. QED BY <2>1, <2>2, <1>1, <1>2, <1>3, EndsQuietly DEF Running
<1>4. QED
  <2>1. UNCHANGED <<toParent, toChild>>
    BY <1>1 DEF pipes
  <2>2. QED BY <2>1, <1>1, <1>2, <1>3, Dies DEF Undisturbed

\* Nobody on the way into the program has been left alone.
LEMMA RunningAttended ==
    ASSUME PipeInv, NEW w \in Procs
    PROVE  /\ pc[w] = "exec" => ~Left
           /\ pc[w] = "exec_wait" /\ toChild # <<>> => ~Left
           /\ pc[w] \in Running /\ ~conf.gui => ~Left
<1>1. ~conf.gui => ~Dismissed
  BY DEF PipeInv, NoGui, Dismissed
<1>2. pc[w] \in Running /\ Undisturbed => pc["helper"] # "dead"
  BY DEF PipeInv, PlaceInv, Turns, Running
<1>3. QED BY <1>1, <1>2 DEF PipeInv, Walked, Left

\* So does announcing the program.
LEMMA ExecStartPipes ==
    ASSUME PipeInv, PlaceInv', NEW w \in Procs, ExecStart(w)
    PROVE  PipeInv'
<1>1. /\ TypeOK /\ pc[w] = "exec_start"
      /\ UNCHANGED <<conf, ran, milestones, waiting, canceled, toChild, front,
                     kills>>
  BY DEF ExecStart, PipeInv, PlaceInv, CancelInv, convo
<1>2. /\ w = "helper" => pc["child"] = "none"
      /\ ~waiting
  BY <1>1 DEF PipeInv, PlaceInv, Turns, Running, Forking, PamCalls
<1>3. UNCHANGED <<ppc, execed, responses>>
  BY <1>1 DEF front, asked, ending
<1>4. CASE conf.gui /\ ppc = "gone"
  <2>1. Moved(w, "dead") /\ UNCHANGED toParent
    BY <1>1, <1>4, Sends DEF ExecStart
  <2>2. QED BY <2>1, <1>1, <1>2, <1>4, Dies DEF Undisturbed
<1>5. CASE conf.gui /\ ppc # "gone"
  <2>1. Moved(w, "exec_wait") /\ toParent' = Append(toParent, Begin)
    BY <1>1, <1>5, Sends DEF ExecStart, Begin
  <2>2. Idle /\ ~execed
    BY <1>1, <1>2, <1>5 DEF PipeInv, Handshake, Announcing
  <2>3. Requested(Begin)'
    BY <2>1, <2>2, <1>1, <1>3, PipeFacts DEF Idle, Requested, Begin
  <2>4. Announcing(w)'
    BY <2>1, <2>2, <2>3, <1>3 DEF Announcing, Moved
  <2>5. ~Left
    BY <1>5, <1>1 DEF Left, Dismissed
  <2>6. QED BY <2>1, <2>4, <2>5, <1>1, <1>2, <1>5, RunnerMoves DEF Running
<1>6. CASE ~conf.gui
  <2>1. Moved(w, "exec") /\ UNCHANGED toParent
    BY <1>1, <1>6, MovesAre DEF ExecStart
  <2>2. QED
    BY <2>1, <1>1, <1>2, <1>6, RunnerMoves, RunningAttended DEF Running
<1>7. QED BY <1>4, <1>5, <1>6

\* So does running it.
LEMMA ExecPipes ==
    ASSUME PipeInv, PlaceInv', NEW w \in Procs, Exec(w)
    PROVE  PipeInv'
<1>1. /\ pc[w] = "exec" /\ Moved(w, "program")
      /\ UNCHANGED <<conf, milestones, waiting, canceled, pipes, front, kills>>
  BY MovesAre DEF Exec, PipeInv, PlaceInv, CancelInv, convo
<1>2. UNCHANGED <<ppc, execed, responses>>
  BY <1>1 DEF front, asked, ending
<1>3. conf.gui /\ ppc # "gone" => Announcing(w)'
  <2>1. conf.gui /\ ppc # "gone" => Idle /\ execed
    BY <1>1, Starting
  <2>2. QED BY <2>1, <1>1, <1>2, PipesKept DEF Announcing, Moved
<1>4. UNCHANGED <<toParent, toChild>>
  BY <1>1 DEF pipes
<1>5. QED
  BY <1>1, <1>3, <1>4, RunnerMoves, RunningAttended DEF Running

\* So does taking the announcement back when execv() fails.
LEMMA ExecRefusedPipes ==
    ASSUME PipeInv, PlaceInv', NEW w \in Procs, ExecRefused(w)
    PROVE  PipeInv'
<1>1. /\ TypeOK /\ pc[w] = "exec" /\ ExecFailed(w, ERR_EXEC_FAILED)
      /\ UNCHANGED <<conf, ran, milestones, waiting, canceled, toChild, front,
                     kills>>
  BY DEF ExecRefused, PipeInv, PlaceInv, CancelInv, convo
<1>2. /\ w = "helper" => pc["child"] = "none"
      /\ ~waiting
  BY <1>1 DEF PipeInv, PlaceInv, Turns, Running, Forking, PamCalls
<1>3. UNCHANGED <<ppc, execed, responses>>
  BY <1>1 DEF front, asked, ending
<1>4. CASE /\ ~conf.gui \/ ppc = "gone"
           /\ Moved(w, "dead") /\ UNCHANGED toParent
  <2>1. ASSUME ppc # "gone", Undisturbed
        PROVE  IF w = "helper" THEN Over' ELSE Closing'
    <3>1. Idle
      <4>1. pc["helper"] \notin {"start", "nogui_wait", "dead"}
        BY <1>1, <2>1 DEF PipeInv, PlaceInv, Turns, Running
      <4>2. QED BY <4>1, <1>4, <2>1, NoGuiQuiet
    <3>2. Idle'
      BY <3>1, <1>1, <1>3, <1>4 DEF Idle
    <3>3. QED BY <3>2, <1>1, <1>4, <2>1, EndsQuietly DEF Running
  <2>2. QED BY <2>1, <1>1, <1>2, <1>4, Dies DEF Undisturbed
<1>5. CASE /\ conf.gui /\ ppc # "gone"
           /\ Moved(w, "fail_wait")
           /\ toParent' = Append(toParent, Retract)
  <2>1. Idle
    BY <1>1, <1>5, Starting
  <2>2. Requested(Retract)'
    BY <2>1, <1>1, <1>3, <1>5, PipeFacts DEF Idle, Requested, Retract
  <2>3. Announcing(w)'
    BY <2>2, <1>5 DEF Announcing, Moved
  <2>4. QED
    BY <2>3, <1>1, <1>5, RunnerMoves, RunningAttended DEF Running
<1>6. QED BY <1>1, <1>4, <1>5, Retracts

\* Reading a reply that is there, or the end of file.
LEMMA Reads ==
    ASSUME SyncRead
    PROVE  \/ ppc = "gone"
           \/ toChild # <<>> /\ toChild' = Tail(toChild)
BY DEF SyncRead

\* So does reading the reply to the announcement.
LEMMA WaitForSyncPipes ==
    ASSUME PipeInv, PlaceInv', NEW w \in Procs, WaitForSync(w)
    PROVE  PipeInv'
<1>1. /\ TypeOK /\ pc[w] \in {"exec_wait", "nogui_wait"} /\ SyncRead
      /\ UNCHANGED <<conf, ran, waiting, canceled, toParent, front, kills>>
  BY DEF WaitForSync, PipeInv, PlaceInv, CancelInv, convo
<1>2. /\ w = "helper" => pc["child"] = "none"
      /\ pc[w] = "nogui_wait" => w = "helper" /\ ~conf.gui
      /\ ~waiting
  BY <1>1
  DEF PipeInv, PlaceInv, Turns, Running, Forking, PamCalls
<1>3. UNCHANGED <<ppc, fate, execed, responses, reaped>>
  BY <1>1 DEF front, asked, ending
<1>4. ASSUME ppc # "gone"
      PROVE  Replied(OkReply(0)) /\ execed
  <2>1. toChild # <<>>
    BY <1>1, <1>4, Reads
  <2>2. CASE conf.gui
    BY <2>1, <2>2, <1>1, <1>2, <1>4, Starting DEF Requested
  <2>3. CASE ~conf.gui /\ pc[w] = "nogui_wait"
    BY <2>1, <2>3, <1>2, <1>4 DEF PipeInv, NoGui, Requested
  <2>4. conf.gui \/ pc[w] = "nogui_wait"
    BY <1>1 DEF PipeInv, PlaceInv, Turns
  <2>5. QED BY <2>2, <2>3, <2>4
<1>5. ppc # "gone" => Acknowledged /\ toChild' = <<>>
  <2>1. ppc # "gone" => toChild = <<OkReply(0)>>
    BY <1>4 DEF Replied
  <2>2. QED BY <2>1, <1>1, Reads, PipeFacts DEF Acknowledged
<1>6. CASE ~Acknowledged
  <2>1. ppc = "gone" /\ Moved(w, "dead") /\ UNCHANGED milestones
    BY <1>1, <1>5, <1>6, MovesAre DEF WaitForSync
  <2>2. QED
    BY <2>1, <1>1, <1>2, Dies DEF Undisturbed
<1>7. CASE Acknowledged /\ pc[w] = "exec_wait"
  <2>1. Moved(w, "exec") /\ UNCHANGED milestones
    BY <1>1, <1>7, MovesAre DEF WaitForSync
  <2>2. ~Left
    BY <1>7, RunningAttended DEF Acknowledged
  <2>3. conf.gui /\ ppc # "gone" => Announcing(w)'
    BY <2>1, <1>1, <1>3, <1>4, <1>5 DEF Announcing, Moved, Idle, Replied
  <2>4. conf.gui
    BY <1>7 DEF PipeInv, PlaceInv, Turns
  <2>5. QED
    BY <2>1, <2>2, <2>3, <2>4, <1>1, <1>2, <1>7, RunnerMoves DEF Running
<1>8. CASE Acknowledged /\ pc[w] = "nogui_wait"
  <2>1. /\ w = "helper" /\ ~conf.gui
        /\ Moved("helper", "lookup")
        /\ milestones' = milestones \cup {"nogui"}
    BY <1>1, <1>2, <1>8, MovesAre DEF WaitForSync, Milestone
  <2>2. NoProtocolErrorBeforeRun' /\ MessageBox' /\ Reaping'
    BY <2>1, <1>1, <1>2, <1>8, FrontKept DEF Undisturbed
  <2>3. Handshake' /\ Closing' /\ Over'
    BY <2>1, <1>1 DEF Handshake, Closing, Over, Moved
  <2>4. NoGui'
    <3>1. ppc # "gone" => Idle' /\ execed
      BY <1>1, <1>3, <1>4, <1>5 DEF Idle, Replied
    <3>2. UNCHANGED dialog
      BY <1>1 DEF front, asked
    <3>3. QED
      BY <3>1, <3>2, <2>1, <1>1, <1>3 DEF PipeInv, NoGui, Moved
  <2>5. Early'
    BY <2>1, <1>1, <1>3 DEF PipeInv, Early
  <2>6. Walked'
    <3>1. ~Left
      BY <2>1, <1>8 DEF PipeInv, Walked
    <3>2. QED BY <3>1, <1>1, <1>3 DEF Walked, Left, Dismissed, Undisturbed
  <2>7. Fits'
    BY <1>1, <1>2 DEF Fits, AnswersMatch, Reading
  <2>8. QED
    BY <2>2, <2>3, <2>4, <2>5, <2>6, <2>7 DEF PipeInv
<1>9. QED BY <1>1, <1>6, <1>7, <1>8

\* So does reading the reply to UH_EXEC_FAILED.
LEMMA FailWaitPipes ==
    ASSUME PipeInv, PlaceInv', NEW w \in Procs, FailWait(w)
    PROVE  PipeInv'
<1>1. /\ pc[w] = "fail_wait" /\ Moved(w, "dead") /\ SyncRead
      /\ UNCHANGED <<conf, ran, milestones, waiting, canceled, toParent, front,
                     kills>>
  BY MovesAre DEF FailWait, PipeInv, PlaceInv, CancelInv, convo
<1>2. /\ pc["child"] \in {"none", "dead"} \/ w = "child"
      /\ ~waiting
  <2>1. CASE w = "helper"
    BY <2>1, <1>1 DEF PipeInv, PlaceInv, Turns, PamCalls
  <2>2. CASE w = "child"
    <3>1. pc["helper"] \in {"waitpid", "dead"}
      BY <2>2, <1>1 DEF PipeInv, PlaceInv, Turns, Forking
    <3>2. QED BY <2>2, <3>1 DEF PipeInv, PlaceInv, Turns, PamCalls
  <2>3. QED BY <2>1, <2>2
<1>3. UNCHANGED <<ppc, fate, execed, responses, reaped>>
  BY <1>1 DEF front, asked, ending
<1>4. ppc # "gone" => toChild # <<>> /\ toChild' = Tail(toChild)
  BY <1>1, Reads
<1>5. ASSUME ppc # "gone", Announcing(w)
      PROVE  Idle' /\ ~execed
  <2>1. PICK r \in Reply : Replied(r) /\ ~execed
    BY <1>1, <1>4, <1>5 DEF Announcing, Requested, Asked
  <2>2. toChild' = <<>>
    BY <2>1, <1>4, <1>5, PipeFacts DEF Replied
  <2>3. QED BY <2>1, <2>2, <1>1, <1>3 DEF Idle, Replied
<1>6. conf.gui
  BY <1>1 DEF PipeInv, PlaceInv, Turns
<1>7. ASSUME ppc # "gone", Undisturbed
      PROVE  IF w = "helper" THEN Over' ELSE Closing'
  <2>1. conf.gui
    BY <1>6
  <2>2. CASE w = "child" \/ pc["child"] = "none"
    <3>1. Announcing(w) /\ ran = "no"
      BY <2>1, <2>2, <1>1, <1>7
      DEF PipeInv, Handshake, PlaceInv, RanBy
    <3>2. Idle' /\ ~execed
      BY <3>1, <1>5, <1>7
    <3>3. w = "helper" => pc["child"] = "none"
      BY <2>2
    <3>4. QED BY <3>1, <3>2, <3>3, <1>1, <1>7, EndsQuietly
  <2>3. CASE w = "helper" /\ pc["child"] = "dead"
    <3>1. /\ ppc = "loop" /\ ~execed
          /\ \/ toParent = <<>>
             \/ toParent = <<Retract>> /\ canceled /\ responses = 0
      <4>1. CASE canceled
        BY <4>1, <2>1, <2>3, <1>1, <1>7 DEF PipeInv, Closing
      <4>2. CASE ~canceled
        <5>1. Announcing(w)
          BY <4>2, <2>1, <2>3, <1>1, <1>7 DEF PipeInv, Closing
        <5>2. QED BY <5>1, <1>1, <1>3, <1>5, <1>7 DEF Idle
      <4>3. QED BY <4>1, <4>2
    <3>2. ~ProgramsStatus'
      BY <2>1, <2>3, <1>1
      DEF ProgramsStatus, PipeInv, PlaceInv, RanBy, Turns
    <3>3. QED BY <3>1, <3>2, <2>3, <1>1, <1>3 DEF Over
  <2>4. QED BY <2>2, <2>3, <1>2
<1>8. QED
  BY <1>1, <1>2, <1>6, <1>7, Dies DEF Undisturbed

\* So does the end of the program.
LEMMA ProgramExitsPipes ==
    ASSUME PipeInv, PlaceInv', NEW w \in Procs, NEW status,
           ProgramExits(w, status)
    PROVE  PipeInv'
<1>1. /\ pc[w] = "program" /\ Moved(w, "dead")
      /\ UNCHANGED <<conf, ran, milestones, waiting, canceled, pipes, front,
                     kills>>
  BY MovesAre DEF ProgramExits, PipeInv, PlaceInv, CancelInv, convo
<1>2. UNCHANGED <<toParent, toChild>>
  BY <1>1 DEF pipes
<1>3. /\ w = "helper" => pc["child"] = "none"
      /\ ~waiting /\ ran # "no"
  BY <1>1 DEF PipeInv, PlaceInv, Turns, RanBy, Forking, PamCalls
<1>4. ASSUME ppc # "gone", Undisturbed
      PROVE  IF w = "helper" THEN Over' ELSE Closing'
  <2>1. Idle /\ execed
    <3>1. CASE conf.gui
      BY <3>1, <1>1, <1>4, Starting
    <3>2. CASE ~conf.gui
      <4>1. pc["helper"] \notin {"start", "nogui_wait", "dead"}
        BY <1>1, <1>4 DEF PipeInv, PlaceInv, Turns
      <4>2. QED BY <3>2, <4>1, <1>4, NoGuiQuiet
    <3>3. QED BY <3>1, <3>2
  <2>2. Idle'
    BY <2>1, <1>1, PipesKept DEF front, asked, ending
  <2>3. QED BY <2>1, <2>2, <1>1, <1>3, <1>4, EndsQuietly
<1>5. QED BY <1>1, <1>2, <1>3, <1>4, Dies DEF Undisturbed

\* So does killing one of the two processes.
LEMMA KillProcPipes ==
    ASSUME PipeInv, PlaceInv', NEW w \in Procs, KillProc(w)
    PROVE  PipeInv'
<1>1. /\ TypeOK /\ pc[w] \notin {"none", "dead"} /\ Moved(w, "dead")
      /\ UNCHANGED <<conf, ran, milestones, canceled, toParent, toChild, front>>
      /\ waiting' = (waiting /\ w # "helper")
      /\ w \in kills /\ kills' = kills \ {w}
  BY MovesAre DEF KillProc, PipeInv, PlaceInv, CancelInv, pipes
<1>2. ~waiting'
  BY <1>1 DEF PipeInv, PlaceInv, Turns, Forking, PamCalls, CancelInv, Forked
<1>3. ~Undisturbed'
  BY <1>1, KillDisturbs
<1>4. QED BY <1>1, <1>2, <1>3, Dies

-----------------------------------------------------------------------------
\* Nothing happens.
LEMMA PipesStutter == PipeInv /\ UNCHANGED vars => PipeInv'
<1>1. SUFFICES ASSUME PipeInv, UNCHANGED vars PROVE PipeInv'
  OBVIOUS
<1>2. UNCHANGED <<conf, pc, exitcode, ran, milestones, tries, waiting,
                  expected, convs, convFailed, canceled, fallbackChosen,
                  toParent, toChild, watch, execed, responses, infos, dialog,
                  fallbackAllowed, ppc, fate, quitting, reaped, exitStatus,
                  explained, kills>>
  BY <1>1 DEF vars, image, convo, pipes, front, asked, ending
<1>3. Handshake' /\ Closing' /\ Over' /\ Early' /\ NoGui'
  BY <1>1, <1>2
  DEF PipeInv, Handshake, Closing, NoGui, Over, Early, Idle, Requested,
      Asked, Replied, Announcing, Conversing, Counted, Undisturbed,
      ProgramsStatus
<1>4. NoProtocolErrorBeforeRun' /\ MessageBox' /\ Walked' /\ Fits' /\ Reaping'
  BY <1>1, <1>2
  DEF PipeInv, NoProtocolErrorBeforeRun, MessageBox, Walked, Fits, Reaping,
      Left, Dismissed, AnswersMatch, Reading, Undisturbed
<1>5. TypeOK' /\ Stage' /\ PrivilegeEarned'
  BY <1>1, <1>2
  DEF PipeInv, PlaceInv, PrivilegeInv, TypeOK, TypeImage, TypeConvo,
      TypePipes, TypeFront, TypeEnding, Stage, PrivilegeEarned, Earned
<1>6. Forked' /\ Stopped' /\ Turns' /\ RanBy'
  BY <1>1, <1>2
  DEF PipeInv, PlaceInv, CancelInv, Forked, Stopped, Turns, RanBy, Undisturbed
<1>7. QED
  BY <1>3, <1>4, <1>5, <1>6 DEF PipeInv, PlaceInv, PrivilegeInv, CancelInv

\* PipeInv is inductive where PAM honours a failed conversation.
LEMMA PipeInductive ==
    ASSUME PamHonoursConv
    PROVE  /\ Init => PipeInv
           /\ PipeInv /\ [Next]_vars => PipeInv'
<1>1. Init => PipeInv
  BY InitPipes, PlaceInductive
<1>2. SUFFICES ASSUME PipeInv, [Next]_vars PROVE PipeInv'
  BY <1>1
<1>3. PlaceInv'
  BY <1>2, PlaceInductive DEF PipeInv
<1>4. CASE HelperStep
  BY <1>2, <1>3, <1>4, AskingPipes, StartNoGuiPipes, ReadingPipes,
     ConversePipes, ChildReapedPipes, SessionClosedPipes, CloseFailsPipes
  DEF HelperStep
<1>5. CASE \E w \in Procs : RunnerStep(w)
  BY <1>2, <1>3, <1>5, IdentityRefusedPipes, ExecStartPipes,
     WaitForSyncPipes, ExecPipes, ExecRefusedPipes, FailWaitPipes
  DEF RunnerStep
<1>6. CASE FrontStep \/ UserStep \/ KillFront
  BY <1>2, <1>3, <1>6, ProtocolErrorPipes, RequestHandled, FrontPipes,
     AnswerPipes
  DEF FrontStep, UserStep, Answered
<1>7. CASE OutsideStep
  BY <1>2, <1>3, <1>6, <1>7, ProgramExitsPipes, KillProcPipes
  DEF OutsideStep
<1>8. CASE UNCHANGED vars
  BY <1>2, <1>8, PipesStutter
<1>9. QED
  BY <1>2, <1>4, <1>5, <1>6, <1>7, <1>8 DEF Next, AllGone

-----------------------------------------------------------------------------
(* What follows.                                                           *)

\* The front end of a running program has read UH_EXEC_START.
LEMMA Acknowledges == PipeInv => RunsOnlyAcknowledged
<1>1. SUFFICES ASSUME PipeInv, NEW w \in Procs, pc[w] = "program",
                      ppc # "gone"
               PROVE  execed
  BY DEF RunsOnlyAcknowledged
<1>2. CASE conf.gui
  BY <1>1, <1>2, Starting
<1>3. CASE ~conf.gui
  BY <1>1, <1>3 DEF PipeInv, NoGui
<1>4. QED BY <1>2, <1>3

\* A reply fits the conversation that reads it.
LEMMA Matches ==
    PipeInv => (Undisturbed \/ pc["child"] = "none" => AnswersMatch)
BY DEF PipeInv, Fits

\* Both sides agree whose status the helper's is.
LEMMA Agrees == PipeInv => StatusAgreed
BY DEF PipeInv, Over, StatusAgreed

\* While a process waits, one thing is between the two sides.
LEMMA OneBetween ==
    ASSUME PipeInv, Undisturbed, NEW w \in Waiting, ~canceled, ppc # "gone"
    PROVE  \/ \E q \in Request : Requested(q)
           \/ Asked
           \/ \E r \in Reply : Replied(r)
<1>1. w \in Procs
  BY DEF Waiting
<1>2. ASSUME Announcing(w), pc[w] \in {"exec_wait", "fail_wait"}
      PROVE  \/ Requested(Begin) \/ Requested(Retract) \/ Asked
             \/ \E r \in Reply : Replied(r)
  <2>1. OkReply(0) \in Reply
    BY DEF OkReply, Reply
  <2>2. QED BY <1>2, <2>1 DEF Announcing
<1>3. Begin \in Request /\ Retract \in Request
  BY RequestType DEF Begin, Retract
<1>4. CASE pc[w] = "exec_wait"
  <2>1. Announcing(w)
    BY <1>1, <1>4 DEF PipeInv, PlaceInv, Turns, Handshake, Forking
  <2>2. QED BY <1>2, <1>3, <1>4, <2>1
<1>5. CASE pc[w] = "fail_wait"
  <2>1. Announcing(w)
    BY <1>1, <1>5
    DEF PipeInv, PlaceInv, Turns, Handshake, Closing, Forking
  <2>2. QED BY <1>2, <1>3, <1>5, <2>1
<1>6. CASE pc[w] = "nogui_wait"
  <2>1. OkReply(0) \in Reply
    BY DEF OkReply, Reply
  <2>2. QED
    BY <1>1, <1>3, <1>6, <2>1 DEF PipeInv, PlaceInv, Turns, NoGui, Running
<1>7. CASE waiting
  <2>1. pc["helper"] \in PamCalls /\ conf.gui
    BY <1>7 DEF PipeInv, PlaceInv, Turns
  <2>2. Conversing
    BY <2>1, <1>7
    DEF PipeInv, PlaceInv, CancelInv, Forked, Handshake, Closing
  <2>3. expected \in Nat
    BY DEF PipeInv, PlaceInv, CancelInv, TypeOK, TypeConvo
  <2>4. /\ {OkReply(expected), CancelReply, FallbackReply} \subseteq Reply
        /\ \A b \in BOOLEAN, t \in Nat :
              ConverseRequest(b, expected, t) \in Request
    BY <2>3 DEF OkReply, CancelReply, FallbackReply, Reply, ConverseRequest,
                Request
  <2>5. QED BY <2>2, <2>4, <1>7 DEF Conversing
<1>8. QED BY <1>4, <1>5, <1>6, <1>7 DEF Waiting

\* The helper and its child do not wait for replies at the same time.
LEMMA AtMostOneWaits ==
    ASSUME PipeInv, Undisturbed
    PROVE  \E w \in Procs : Waiting \subseteq {w}
<1>1. CASE pc["child"] \in {"none", "dead"}
  <2>1. Waiting \subseteq {"helper"}
    BY <1>1 DEF Waiting
  <2>2. QED BY <2>1
<1>2. CASE pc["child"] \notin {"none", "dead"}
  <2>1. Waiting \subseteq {"child"}
    BY <1>2 DEF Waiting, PipeInv, PlaceInv, Turns, PamCalls
  <2>2. QED BY <2>1
<1>3. QED BY <1>1, <1>2

\* One message or dialog is outstanding exactly while somebody waits for it.
LEMMA InLockStep == PipeInv /\ Undisturbed => LockStep
<1>1. SUFFICES ASSUME PipeInv, Undisturbed PROVE LockStep
  OBVIOUS
<1>2. Cardinality(Waiting) <= 1
  <2>1. PICK w \in Procs : Waiting \subseteq {w}
    BY <1>1, AtMostOneWaits
  <2>2. IsFiniteSet({w}) /\ Cardinality({w}) = 1
    BY FS_Singleton
  <2>3. /\ Cardinality(Waiting) \in Nat
        /\ Cardinality(Waiting) <= Cardinality({w})
    BY <2>1, <2>2, FS_Subset, FS_CardinalityType
  <2>4. QED BY <2>2, <2>3
<1>3. ASSUME Waiting # {}, ~canceled, ppc # "gone"
      PROVE  Len(toParent) + Len(toChild) + (IF ppc = "dialog" THEN 1 ELSE 0)
                = 1
  <2>1. \/ \E q \in Request : Requested(q)
        \/ Asked
        \/ \E r \in Reply : Replied(r)
    BY <1>1, <1>3, OneBetween
  <2>2. CASE \E q \in Request : Requested(q)
    BY <2>2 DEF Requested
  <2>3. CASE Asked
    BY <2>3 DEF Asked
  <2>4. CASE \E r \in Reply : Replied(r)
    BY <2>4 DEF Replied
  <2>5. QED BY <2>1, <2>2, <2>3, <2>4
<1>4. QED BY <1>2, <1>3 DEF LockStep

\* When nobody holds the pipes any more, they have been read.
LEMMA AllRead == PipeInv => NothingUnread
<1>1. SUFFICES ASSUME PipeInv, Undisturbed, Holders = {}, ppc # "gone"
               PROVE  \/ toParent = <<>>
                      \/ /\ canceled /\ ~execed
                         /\ toParent = <<ExecRequest("EXEC_FAILED")>>
  BY DEF NothingUnread
<1>2. \A w \in Procs : pc[w] \in {"none", "program", "dead"}
  BY <1>1 DEF Holders
<1>3. CASE pc["helper"] = "dead"
  BY <1>1, <1>3 DEF PipeInv, Over, Retract
<1>4. CASE pc["helper"] = "program"
  <2>1. pc["child"] = "none"
    BY <1>1, <1>4 DEF PipeInv, PlaceInv, Turns, Forking
  <2>2. CASE conf.gui
    BY <2>2, <1>1, <1>4, Starting DEF Idle
  <2>3. CASE ~conf.gui
    BY <2>3, <1>1, <1>4, NoGuiQuiet DEF Idle
  <2>4. QED BY <2>2, <2>3
<1>5. QED BY <1>1, <1>2, <1>3, <1>4 DEF PipeInv, PlaceInv, Turns

\* The program is started only behind a handshake that nobody walked away
\* from.
LEMMA StartsAttended ==
    ASSUME PipeInv, [Next]_vars, Starts
    PROVE  ~Dismissed
BY OnlyExecStarts, RunningAttended DEF Starts, Exec, Left

\* The program runs only after its front end has read UH_EXEC_START
\* (userhelper.c:wrap(), its child, and exec()), whoever is killed.
THEOREM Acknowledgement ==
    ASSUME PamHonoursConv PROVE Spec => []RunsOnlyAcknowledged
BY PipeInductive, Acknowledges, PTL DEF Spec

\* Up to the end of pam_setcred() the front end never finds that the helper
\* has counted its prompts wrong (userhelper_handle_childout()).
THEOREM NoEarlyProtocolError ==
    ASSUME PamHonoursConv PROVE Spec => []NoProtocolErrorBeforeRun
<1>1. PipeInv => NoProtocolErrorBeforeRun
  BY DEF PipeInv
<1>2. QED BY <1>1, PipeInductive, PTL DEF Spec

\* When the helper ends, the front end passes its status on exactly if it is
\* the program's (userhelper_parse_exitstatus(), child_exited).
THEOREM BothSidesAgree ==
    ASSUME PamHonoursConv PROVE Spec => []StatusAgreed
BY PipeInductive, Agrees, PTL DEF Spec

\* No request is left in the pipe of a helper that has ended, unless it takes
\* back an announcement after a cancellation.
THEOREM NothingIsLost ==
    ASSUME PamHonoursConv PROVE Spec => []NothingUnread
BY PipeInductive, AllRead, PTL DEF Spec

\* The replies that converse_pipe() reads answer the prompts it has just
\* asked: always up to the fork, and after it as long as nobody is killed.
THEOREM AnswersReachTheirPrompts ==
    ASSUME PamHonoursConv
    PROVE  Spec => [](Undisturbed \/ pc["child"] = "none" => AnswersMatch)
BY PipeInductive, Matches, PTL DEF Spec

\* Nobody is killed: requests and replies alternate, and one process at a
\* time waits.
THEOREM LockStepWithoutKills ==
    ASSUME PamHonoursConv PROVE Spec => [](Undisturbed => LockStep)
<1>1. PipeInv => (Undisturbed => LockStep)
  BY InLockStep
<1>2. QED BY <1>1, PipeInductive, PTL DEF Spec

\* Once the user has closed the question, or dismissed the messages, before
\* the helper had anything to report, the program is not started any more.
THEOREM DismissalIsKept ==
    ASSUME PamHonoursConv PROVE Spec => DismissalIsFinal
<1>1. PipeInv /\ [Next]_vars => [Starts => ~Dismissed]_vars
  BY StartsAttended
<1>2. QED BY <1>1, PipeInductive, PTL DEF Spec, DismissalIsFinal

-----------------------------------------------------------------------------
(* The contract is kept, step by step.                                     *)

\* Nobody has been killed.
Calm == PipeInv /\ Undisturbed

\* Who runs the program, once it has been started.
LEMMA RunnerKnown ==
    ASSUME Calm
    PROVE  /\ Run = "no" <=> ran = "no"
           /\ Run = "running" <=> \E w \in Procs : pc[w] = "program"
           /\ \A w \in Procs : pc[w] = "program" =>
                 /\ Runner = w /\ ran # "no"
                 /\ w = "helper" => ran = "user" \/ ~conf.session
           /\ Run = "over" =>
                 /\ pc[Runner] = "dead"
                 /\ pc["helper"] # "dead" =>
                       Runner = "child" /\ ran = "root" /\ conf.session
           /\ Run \in {"no", "running", "over"}
<1>0. Turns /\ RanBy /\ Stage /\ TypeOK
  BY DEF Calm, PipeInv, PlaceInv, CancelInv, PrivilegeInv
<1>1. ASSUME NEW w \in Procs, pc[w] = "program"
      PROVE  /\ Runner = w /\ ran # "no"
             /\ w = "helper" => ran = "user" \/ ~conf.session
  <2>1. CASE w = "helper"
    BY <2>1, <1>0, <1>1 DEF Turns, RanBy, Runner, Forking
  <2>2. CASE w = "child"
    BY <2>2, <1>0, <1>1 DEF Turns, RanBy, Runner, Forking
  <2>3. QED BY <2>1, <2>2
<1>2. Run = "no" <=> ran = "no"
  BY DEF Run
<1>3. Run = "running" <=> \E w \in Procs : pc[w] = "program"
  <2>1. Runner \in Procs
    BY DEF Runner
  <2>2. Run = "running" <=> ran # "no" /\ pc[Runner] = "program"
    BY DEF Run
  <2>3. QED BY <2>1, <2>2, <1>1
<1>4. Run = "over" =>
         /\ pc[Runner] = "dead"
         /\ pc["helper"] # "dead" =>
               Runner = "child" /\ ran = "root" /\ conf.session
  <2>1. SUFFICES ASSUME ran # "no", \A w \in Procs : pc[w] # "program"
                 PROVE  /\ pc[Runner] = "dead"
                        /\ pc["helper"] # "dead" =>
                              Runner = "child" /\ ran = "root" /\ conf.session
    BY <1>2, <1>3 DEF Run
  <2>2. ran \in {"root", "user"}
    BY <2>1, <1>0 DEF TypeOK, TypeImage
  <2>3. CASE pc["child"] = "none"
    BY <2>1, <2>2, <2>3, <1>0 DEF RanBy, Runner
  <2>4. CASE pc["child"] # "none"
    BY <2>1, <2>2, <2>4, <1>0 DEF Turns, RanBy, Runner
  <2>5. QED BY <2>3, <2>4
<1>5. QED BY <1>1, <1>2, <1>3, <1>4 DEF Run

\* A step that moves neither the runner nor its status changes nothing that
\* the contract knows of the program.
LEMMA SameRun ==
    ASSUME Calm, UNCHANGED <<conf, ran>>,
           \A w \in Procs : pc'[w] = "program" <=> pc[w] = "program",
           pc["helper"] = "dead" => exitcode'["helper"] = exitcode["helper"],
           pc["child"] = "dead" => exitcode'["child"] = exitcode["child"]
    PROVE  UNCHANGED <<Runner, Run, Ended>>
<1>1. UNCHANGED Runner /\ Runner \in Procs
  BY DEF Runner
<1>2. UNCHANGED Run
  BY <1>1 DEF Run
<1>3. UNCHANGED Ended
  BY <1>1, <1>2, RunnerKnown DEF Ended
<1>4. QED BY <1>1, <1>2, <1>3

\* Nothing that the contract speaks of has happened.
LEMMA Unseen ==
    ASSUME Calm, UNCHANGED <<conf, ran, ending>>,
           pc["helper"] # "dead", pc'["helper"] # "dead",
           \A w \in Procs : pc'[w] = "program" <=> pc[w] = "program",
           pc["child"] = "dead" => exitcode'["child"] = exitcode["child"]
    PROVE  UNCHANGED Contract!vars
<1>1. UNCHANGED <<Run, Ended>>
  BY SameRun
<1>2. UNCHANGED HelperOutcome
  BY DEF HelperOutcome
<1>3. UNCHANGED <<ppc, reaped, exitStatus, explained>>
  BY DEF ending
<1>4. UNCHANGED Reported
  BY <1>3 DEF Reported
<1>5. QED BY <1>1, <1>2, <1>4 DEF Contract!vars

\* The helper ends without having become the program.
LEMMA HelperEndsIs ==
    ASSUME Calm, TypeOK', RanBy', UNCHANGED <<conf, ran, ending>>,
           pc["helper"] \notin {"dead", "program", "waitpid"},
           Moved("helper", "dead"),
           exitcode'["child"] = exitcode["child"],
           "close_session" \in milestones' =>
              pc["child"] = "dead" /\ exitcode'["helper"] = ChildStatus
    PROVE  Contract!HelperEnds
<1>1. pc'["helper"] = "dead" /\ pc'["child"] = pc["child"]
  BY DEF Moved
<1>2. /\ \A w \in Procs : pc[w] # "program"
      /\ Turns /\ RanBy /\ TypeOK
  BY DEF Calm, PipeInv, PlaceInv, Turns, CancelInv
<1>3. UNCHANGED <<Runner, Run, Ended>> /\ Run # "running"
  BY <1>1, <1>2, SameRun, RunnerKnown
<1>4. UNCHANGED <<ppc, reaped, exitStatus, explained>>
  BY DEF ending
<1>5. UNCHANGED Reported
  BY <1>4 DEF Reported
<1>6. HelperOutcome = [direct |-> FALSE, code |-> -999]
  BY DEF HelperOutcome
<1> DEFINE c == exitcode'["helper"]
<1>7. c \in Contract!Codes
  BY DEF TypeOK, TypeImage, Signals, SIGKILL, SIGPIPE, ExitStatuses,
         Contract!Codes, Contract!ExitStatuses
<1>8. HelperOutcome' = [direct |-> ProgramsStatus', code |-> c]
  BY <1>1 DEF HelperOutcome
<1>9. CASE ~ProgramsStatus'
  <2>1. HelperOutcome' = Contract!Outcome(FALSE, c)
    <3>1. ProgramsStatus' = FALSE
      BY <1>9 DEF ProgramsStatus
    <3>2. QED BY <3>1, <1>8 DEF Contract!Outcome
  <2>2. QED
    BY <2>1, <1>3, <1>5, <1>6, <1>7 DEF Contract!HelperEnds, Contract!None
<1>10. CASE ProgramsStatus'
  <2>1. HelperOutcome' = Contract!Outcome(TRUE, c)
    <3>1. ProgramsStatus' = TRUE
      BY <1>10 DEF ProgramsStatus
    <3>2. QED BY <3>1, <1>8 DEF Contract!Outcome
  <2>2. CASE ~conf.gui
    BY <2>1, <2>2, <1>3, <1>5, <1>6, <1>7
    DEF Contract!HelperEnds, Contract!None
  <2>3. CASE conf.gui
    <3>1. ran = "root" /\ pc["child"] = "dead" /\ c = ChildStatus
      BY <2>3, <1>1, <1>2, <1>10
      DEF ProgramsStatus, RanBy, Turns
    <3>2. Run = "over" /\ Runner = "child" /\ Ended = exitcode["child"]
      BY <3>1, <1>2 DEF Run, Runner, Ended, Turns
    <3>3. exitcode["child"] \in Int
      BY <1>2 DEF TypeOK, TypeImage, ExitStatuses, Signals, SIGKILL, SIGPIPE
    <3>4. c \in Contract!Passed(Ended)
      BY <3>1, <3>2, <3>3 DEF ChildStatus, Contract!Passed
    <3>5. QED
      BY <2>1, <3>2, <3>4, <1>3, <1>5, <1>6
      DEF Contract!HelperEnds, Contract!None
  <2>4. QED BY <2>2, <2>3
<1>11. QED BY <1>9, <1>10

\* A process sets nobody's exit status but its own.
OwnStatus(w) == \A v \in Procs \ {w} : exitcode'[v] = exitcode[v]

\* Going on sets no other process's status.
LEMMA OwnGoto ==
    ASSUME TypeOK, NEW w \in Procs, NEW place, Goto(w, place)
    PROVE  OwnStatus(w)
BY DEF TypeOK, TypeImage, Goto, OwnStatus

\* Neither does ending.
LEMMA OwnDeath ==
    ASSUME TypeOK, NEW w \in Procs, NEW status, Die(w, status)
    PROVE  OwnStatus(w)
BY DEF TypeOK, TypeImage, Die, OwnStatus

\* Nor does the failure of exec().
LEMMA OwnFailure ==
    ASSUME TypeOK, NEW w \in Procs, NEW status, ExecFailed(w, status)
    PROVE  OwnStatus(w)
BY OwnDeath DEF TypeOK, TypeImage, ExecFailed, OwnStatus

\* What a step of the helper looks like to the contract.
HelperActs ==
    /\ UNCHANGED <<conf, ran, front>> /\ OwnStatus("helper")
    /\ pc["helper"] \notin {"dead", "program"}
    /\ pc'["helper"] # "program"
    /\ pc'["child"] \in {pc["child"], "exec_start"}
    /\ pc["child"] # "none" => pc'["child"] = pc["child"]
    /\ pc'["helper"] = "dead" =>
          Moved("helper", "dead") /\ pc["helper"] # "waitpid"

\* Every step of the helper looks like that, and only the end of the session
\* hands the child's status on.
LEMMA HelperActsSo ==
    ASSUME TypeOK, Turns, Forked, HelperStep
    PROVE  /\ HelperActs
           /\ ~SessionClosed /\ "close_session" \in milestones' =>
                 "close_session" \in milestones
<1> USE MovesAre, OwnGoto, OwnDeath, OwnFailure DEF Moved, PamCalls
<1>1. CASE \E status \in ExitStatuses :
             RefuseStart(status) \/ LookupFails(status)
  BY <1>1 DEF HelperActs, RefuseStart, LookupFails, SessionClosed, Returned
<1>2. CASE StartGui \/ StartNoGui \/ LookupDone
  BY <1>2 DEF HelperActs, StartGui, StartNoGui, LookupDone, Call, SendRequest,
              SessionClosed, Returned
<1>3. CASE \/ ConverseCanceled \/ ReadCancel \/ ReadFallback \/ ReadAnswers
           \/ ReadEof
  <2>1. UNCHANGED <<conf, pc, exitcode, ran, milestones,
                    front>> /\ pc["helper"] \in PamCalls
    BY <1>3
    DEF ConverseCanceled, MayConverse, ReadCancel, ReadFallback, ReadAnswers,
        ReadEof, Reading, image
  <2>2. QED BY <2>1 DEF HelperActs, OwnStatus
<1>4. CASE \E shape \in Shapes : Converse(shape[1], shape[2])
  BY <1>4 DEF HelperActs, Converse, MayConverse, SendRequest
<1>5. CASE Authenticated \/ AccountOk \/ SessionOpened
  BY <1>5 DEF HelperActs, Authenticated, AccountOk, SessionOpened, Returned,
              Milestone, Call, SessionClosed
<1>6. CASE CredEstablished
  BY <1>6 DEF HelperActs, CredEstablished, Returned, Milestone, SessionClosed,
              TypeOK, TypeImage, OwnStatus, Forked
<1>7. CASE \E r \in PamErrors : AuthRetry(r) \/ AuthGivesUp(r)
  BY <1>7 DEF HelperActs, AuthRetry, AuthGivesUp, Returned, Call, SessionClosed
<1>8. CASE \E r \in PamErrors, call \in PamCalls : CallFails(call, r)
  BY <1>8 DEF HelperActs, CallFails, Returned, SessionClosed
<1>9. CASE \E r \in PamErrors : SessionCloseFails(r)
  BY <1>9, FailMoves DEF HelperActs, SessionCloseFails, Returned
<1>10. CASE ChildReaped
  BY <1>10 DEF HelperActs, ChildReaped, Call, SessionClosed, Returned
<1>11. CASE SessionClosed
  BY <1>11 DEF HelperActs, SessionClosed, Returned
<1>12. QED
  BY <1>1, <1>2, <1>3, <1>4, <1>5, <1>6, <1>7, <1>8, <1>9, <1>10, <1>11
  DEF HelperStep

\* A step of the helper is HelperEnds, or unseen by the contract.
LEMMA HelperKeeps ==
    ASSUME Calm, PipeInv', HelperStep
    PROVE  Contract!Next \/ UNCHANGED Contract!vars
<1>1. /\ TypeOK /\ Turns /\ Forked /\ RanBy /\ TypeOK' /\ RanBy'
  BY DEF Calm, PipeInv, PlaceInv, CancelInv
<1>2. /\ HelperActs
      /\ ~SessionClosed /\ "close_session" \in milestones' =>
            "close_session" \in milestones
  BY <1>1, HelperActsSo
<1>3. /\ UNCHANGED <<conf, ran, ending>>
      /\ exitcode'["child"] = exitcode["child"]
  BY <1>2 DEF HelperActs, OwnStatus, front
<1>4. CASE pc'["helper"] = "dead"
  <2>1. "close_session" \in milestones' =>
           pc["child"] = "dead" /\ exitcode'["helper"] = ChildStatus
    <3>1. CASE SessionClosed
      BY <3>1, <1>1
      DEF SessionClosed, Returned, Forked, Die, TypeOK, TypeImage
    <3>2. CASE ~SessionClosed
      BY <3>2, <1>1, <1>2 DEF RanBy, HelperActs
    <3>3. QED BY <3>1, <3>2
  <2>2. Contract!HelperEnds
    BY <1>1, <1>2, <1>3, <1>4, <2>1, HelperEndsIs DEF HelperActs
  <2>3. QED BY <2>2 DEF Contract!Next
<1>5. CASE pc'["helper"] # "dead"
  <2>1. \A w \in Procs : pc'[w] = "program" <=> pc[w] = "program"
    BY <1>2 DEF HelperActs
  <2>2. QED BY <2>1, <1>2, <1>3, <1>5, Unseen DEF HelperActs
<1>6. QED BY <1>4, <1>5

\* Exec is the contract's Start.
LEMMA StartIs ==
    ASSUME Calm, PipeInv', UNCHANGED kills, NEW w \in Procs, Exec(w)
    PROVE  Contract!Start
<1>1. /\ pc[w] = "exec" /\ Moved(w, "program")
      /\ UNCHANGED <<conf, exitcode, ending>>
      /\ TypeOK /\ Turns /\ RanBy
  BY MovesAre
  DEF Exec, Goto, front, Calm, PipeInv, PlaceInv, CancelInv
<1>2. ran = "no" /\ pc["helper"] # "dead" /\ ppc # "gone"
  BY <1>1, RunningAttended DEF Calm, RanBy, Turns, Running, Forking, Left
<1>3. Run = "no" /\ Ended = 0
  BY <1>2 DEF Run, Ended
<1>4. HelperOutcome = Contract!None /\ UNCHANGED HelperOutcome
  BY <1>1, <1>2 DEF HelperOutcome, Contract!None, Moved
<1>5. UNCHANGED <<ppc, reaped, exitStatus, explained>>
  BY <1>1 DEF ending
<1>6. Reported = Contract!Pending /\ UNCHANGED Reported
  BY <1>2, <1>5 DEF Reported, Contract!Pending
<1>7. Run' = "running" /\ Ended' = 0
  <2>1. Turns' /\ RanBy' /\ pc'[w] = "program"
    BY <1>1 DEF PipeInv, PlaceInv, Moved
  <2>2. ran' # "no" /\ Runner' = w
    <3>1. CASE w = "helper"
      BY <2>1, <3>1 DEF Turns, RanBy, Runner, Forking
    <3>2. CASE w = "child"
      BY <2>1, <3>2 DEF Turns, RanBy, Runner, Forking
    <3>3. QED BY <3>1, <3>2
  <2>3. Run' = "running"
    BY <2>1, <2>2 DEF Run
  <2>4. QED BY <2>3 DEF Ended
<1>8. QED
  BY <1>1, <1>3, <1>4, <1>6, <1>7 DEF Contract!Start

\* Any other step of the process that is to run the program is HelperEnds, or
\* unseen.
LEMMA RunnerKeeps ==
    ASSUME Calm, PipeInv', NEW w \in Procs, RunnerStep(w)
    PROVE  Contract!Next \/ UNCHANGED Contract!vars
<1>1. UNCHANGED kills
  BY DEF RunnerStep, IdentityRefused, ExecStart, WaitForSync, Exec,
         ExecRefused, FailWait
<1>2. CASE Exec(w)
  BY <1>1, <1>2, StartIs DEF Contract!Next
<1>3. CASE ~Exec(w)
  <2>1. TypeOK /\ Turns /\ RanBy /\ TypeOK' /\ RanBy'
    BY DEF Calm, PipeInv, PlaceInv, CancelInv
  <2>2. /\ UNCHANGED <<conf, ran, front>>
        /\ pc[w] \in Running \cup {"nogui_wait", "fail_wait"}
        /\ \E place \in Running \cup {"lookup", "fail_wait", "dead"} :
              Moved(w, place)
        /\ OwnStatus(w)
        /\ "close_session" \in milestones' => "close_session" \in milestones
    BY <2>1, <1>3, MovesAre, FailMoves, OwnGoto, OwnDeath, OwnFailure
    DEF RunnerStep, IdentityRefused, ExecStart, WaitForSync, SendRequest,
        ExecRefused, FailWait, Milestone, Running
  <2>3. /\ UNCHANGED <<conf, ran, ending>>
        /\ \A v \in Procs : pc'[v] = "program" <=> pc[v] = "program"
    BY <2>2 DEF front, Moved, Running
  <2>4. CASE w = "helper" /\ pc'["helper"] = "dead"
    <3>1. pc["helper"] \notin {"dead", "program", "waitpid"}
      BY <2>2, <2>4 DEF Running
    <3>2. exitcode'["child"] = exitcode["child"] /\ Moved("helper", "dead")
      BY <2>2, <2>4 DEF OwnStatus, Moved
    <3>3. "close_session" \notin milestones'
      BY <2>1, <2>2, <3>1 DEF RanBy
    <3>4. QED
      BY <2>1, <2>3, <3>1, <3>2, <3>3, HelperEndsIs DEF Contract!Next
  <2>5. CASE w = "helper" /\ pc'["helper"] # "dead"
    <3>1. pc["helper"] # "dead" /\ exitcode'["child"] = exitcode["child"]
      BY <2>2, <2>5 DEF Running, OwnStatus
    <3>2. QED BY <2>3, <2>5, <3>1, Unseen
  <2>6. CASE w = "child"
    <3>1. pc["helper"] = "waitpid" /\ pc'["helper"] = "waitpid"
      BY <2>1, <2>2, <2>6 DEF Turns, Running, Calm, Moved
    <3>2. pc["child"] # "dead"
      BY <2>2, <2>6 DEF Running
    <3>3. QED BY <2>3, <3>1, <3>2, Unseen
  <2>7. QED BY <2>4, <2>5, <2>6
<1>4. QED BY <1>2, <1>3

\* ProgramExits is the contract's ProgramEnds.
LEMMA ProgramEndsIs ==
    ASSUME Calm, PipeInv', NEW w \in Procs, NEW status \in ProgramStatuses,
           ProgramExits(w, status)
    PROVE  Contract!ProgramEnds
<1>1. /\ pc[w] = "program" /\ Moved(w, "dead")
      /\ exitcode'[w] = status /\ OwnStatus(w)
      /\ UNCHANGED <<conf, ran, milestones, ending>>
      /\ TypeOK /\ Turns /\ RanBy
  BY MovesAre, OwnDeath
  DEF ProgramExits, Die, front, Calm, PipeInv, PlaceInv, CancelInv, TypeOK,
      TypeImage
<1>2. /\ Run = "running" /\ Runner = w /\ ran # "no"
      /\ w = "helper" => ran = "user" \/ ~conf.session
  BY <1>1, RunnerKnown
<1>3. Runner' = w /\ pc'[w] = "dead"
  BY <1>1, <1>2 DEF Runner, Moved
<1>4. Run' = "over"
  BY <1>1, <1>2, <1>3 DEF Run
<1>5. Ended' = status
  BY <1>1, <1>3, <1>4 DEF Ended
<1>6. status \in Contract!Codes
  BY ProgramAssumption
  DEF Signals, SIGKILL, SIGPIPE, ExitStatuses, Contract!Codes,
      Contract!ExitStatuses
<1>7. UNCHANGED <<ppc, reaped, exitStatus, explained>>
  BY <1>1 DEF ending
<1>8. UNCHANGED Reported
  BY <1>7 DEF Reported
<1>9. HelperOutcome' \in {HelperOutcome, Contract!Outcome(TRUE, status)}
  <2>1. CASE w = "child"
    <3>1. pc["helper"] = "waitpid" /\ pc'["helper"] = "waitpid"
      BY <2>1, <1>1 DEF Moved, Turns, Calm
    <3>2. UNCHANGED HelperOutcome
      BY <3>1 DEF HelperOutcome
    <3>3. QED BY <3>2
  <2>2. CASE w = "helper"
    <3>1. conf.gui => ran = "user" \/ (ran = "root" /\ ~conf.session)
      BY <2>2, <1>1 DEF RanBy
    <3>2. ~conf.gui => "nogui" \in milestones
      BY <2>2, <1>1 DEF Calm, PipeInv, NoGui
    <3>3. ProgramsStatus' = TRUE
      BY <3>1, <3>2, <1>1 DEF ProgramsStatus
    <3>4. QED
      BY <2>2, <3>3, <1>1, <1>3 DEF HelperOutcome, Contract!Outcome
  <2>3. QED BY <2>1, <2>2
<1>10. QED
  BY <1>1, <1>2, <1>4, <1>5, <1>6, <1>8, <1>9 DEF Contract!ProgramEnds

\* The front end leaves what the contract says of the program alone.
LEMMA FrontSees ==
    ASSUME Calm, UNCHANGED <<conf, image>>
    PROVE  UNCHANGED <<conf.gui, Run, Ended, HelperOutcome>>
<1>1. UNCHANGED <<pc, exitcode, ran, milestones>>
  BY DEF image
<1>2. UNCHANGED <<Runner, Run, Ended>>
  BY <1>1, SameRun
<1>3. UNCHANGED ProgramsStatus
  BY <1>1 DEF ProgramsStatus
<1>4. UNCHANGED HelperOutcome
  BY <1>1, <1>3 DEF HelperOutcome
<1>5. QED BY <1>2, <1>4

\* The front end goes before the helper has reported.
LEMMA AbandonIs ==
    ASSUME Calm, PipeInv', UNCHANGED <<conf, image, kills, reaped>>,
           ppc # "gone", ppc' = "gone"
    PROVE  Contract!Abandon
<1>1. ~reaped
  BY DEF Calm, PipeInv, Reaping
<1>2. \A w \in Procs : pc[w] # "program"
  BY DEF PipeInv, Walked, Left, Calm, Undisturbed, image
<1>3. Run # "running"
  BY <1>2, RunnerKnown
<1>4. Reported = Contract!Pending /\ Reported' = Contract!Abandoned
  BY <1>1 DEF Reported, Contract!Pending, Contract!Abandoned
<1>5. QED BY <1>3, <1>4, FrontSees DEF Contract!Abandon

\* The helper's exit is noticed.
LEMMA ReportIs ==
    ASSUME Calm, ChildExited
    PROVE  Contract!Report
<1>1. /\ pc["helper"] = "dead" /\ ppc # "gone" /\ ~reaped /\ reaped'
      /\ UNCHANGED <<conf, image>>
      /\ ParseExitStatus(ReapedStatus)
  BY DEF ChildExited
<1>2. ppc = "loop" /\ (execed <=> ProgramsStatus)
  BY <1>1 DEF Calm, PipeInv, Over
<1>3. ppc' = "gone"
  BY <1>1, <1>2 DEF ChildExited
<1>4. exitStatus = 0 /\ explained = NoStatus
  BY <1>1 DEF Calm, PipeInv, Reaping
<1>5. TypeOK
  BY DEF Calm, PipeInv, PlaceInv, CancelInv
<1> DEFINE c == exitcode["helper"]
<1>6. HelperOutcome = [direct |-> ProgramsStatus, code |-> c]
  BY <1>1 DEF HelperOutcome
<1>7. Reported = Contract!Pending
  BY <1>1 DEF Reported, Contract!Pending
<1>8. Reported' = [how |-> "told", exit |-> exitStatus',
                   explained |-> explained']
  BY <1>1, <1>3 DEF Reported
<1>9. c # -999 /\ ReapedStatus = Contract!Status(c)
  BY <1>5
  DEF ReapedStatus, Contract!Status, ERR_UNK_ERROR, Contract!ERR_UNK_ERROR,
      TypeOK, TypeImage, ExitStatuses, Signals, SIGKILL, SIGPIPE
<1>10. Reported' = Contract!Told(HelperOutcome)
  <2>1. CASE execed
    <3>1. HelperOutcome.direct = TRUE /\ HelperOutcome.code = c
      BY <2>1, <1>2, <1>6 DEF ProgramsStatus
    <3>2. exitStatus' = Contract!Status(c) /\ explained' = -1
      BY <2>1, <1>1, <1>4, <1>9 DEF ParseExitStatus, NoStatus
    <3>3. QED BY <3>1, <3>2, <1>8 DEF Contract!Told
  <2>2. CASE ~execed
    <3>1. HelperOutcome.direct = FALSE /\ HelperOutcome.code = c
      <4>1. ProgramsStatus = FALSE
        BY <2>2, <1>2 DEF ProgramsStatus
      <4>2. QED BY <4>1, <1>6
    <3>2. exitStatus' = 0 /\ explained' = Contract!Explained(Contract!Status(c))
      BY <2>2, <1>1, <1>4, <1>9
      DEF ParseExitStatus, NoStatus, Contract!Explained, ExitMessageType,
          Contract!ExitMessageType, ERR_CANCELED, Contract!ERR_CANCELED
    <3>3. QED BY <3>1, <3>2, <1>8 DEF Contract!Told
  <2>3. QED BY <2>1, <2>2
<1>11. HelperOutcome # Contract!None
  BY <1>6, <1>9 DEF Contract!None
<1>12. QED
  BY <1>1, <1>7, <1>10, <1>11, FrontSees DEF Contract!Report

\* A step of the front end or its user is Report, Abandon, or unseen.
LEMMA FrontKeeps ==
    ASSUME Calm, PipeInv', FrontStep \/ UserStep
    PROVE  Contract!Next \/ UNCHANGED Contract!vars
<1>1. UNCHANGED <<conf, image, kills>>
  BY FrontFrame
  DEF FrontStep, ProtocolError, HandleRequest, Receives, HangUp,
      ChildExited, UserStep, Answered, Answer, CloseQuestion, DismissMessages
<1>2. CASE ChildExited
  BY <1>2, ReportIs DEF Contract!Next
<1>3. CASE ~ChildExited
  <2>1. UNCHANGED <<reaped, exitStatus, explained>> /\ ppc # "gone"
    BY <1>3
    DEF FrontStep, ProtocolError, HandleRequest, Receives, HangUp, UserStep,
        Answered, Answer, CloseQuestion, DismissMessages, WriteReply,
        FrontGone, FrontStays, ending
  <2>2. CASE ppc' = "gone"
    BY <2>1, <2>2, <1>1, AbandonIs DEF Contract!Next
  <2>3. CASE ppc' # "gone"
    <3>1. UNCHANGED Reported
      BY <2>1, <2>3 DEF Reported
    <3>2. QED BY <3>1, <1>1, FrontSees DEF Contract!vars
  <2>4. QED BY <2>2, <2>3
<1>4. QED BY <1>2, <1>3

\* So is a step in which nothing happens.
LEMMA StutterKeeps ==
    ASSUME Calm, UNCHANGED vars PROVE UNCHANGED Contract!vars
<1>1. UNCHANGED <<conf, image, ppc, reaped, exitStatus, explained>>
  BY DEF vars, front, ending
<1>2. UNCHANGED Reported
  BY <1>1 DEF Reported
<1>3. QED BY <1>1, <1>2, FrontSees DEF Contract!vars

\* Every step of the program is a step of the contract, or none.
LEMMA StepKeeps ==
    ASSUME Calm, PipeInv', kills = {}, [Next]_vars
    PROVE  [Contract!Next]_Contract!vars
<1>1. CASE HelperStep \/ FrontStep \/ UserStep
  BY <1>1, HelperKeeps, FrontKeeps
<1>2. CASE \E w \in Procs : RunnerStep(w)
  BY <1>2, RunnerKeeps
<1>3. CASE OutsideStep
  BY <1>3, ProgramEndsIs DEF OutsideStep, KillProc, KillFront, Contract!Next
<1>4. CASE UNCHANGED vars
  BY <1>4, StutterKeeps
<1>5. QED BY <1>1, <1>2, <1>3, <1>4 DEF Next, AllGone

\* The contract's initial state.
LEMMA InitKeeps == Init => Contract!Init
<1>1. SUFFICES ASSUME Init PROVE Contract!Init
  OBVIOUS
<1>2. conf.gui \in BOOLEAN
  BY <1>1 DEF Init, Conf
<1>3. Run = "no" /\ Ended = 0
  BY <1>1 DEF Init, Run, Ended
<1>4. HelperOutcome = Contract!None
  BY <1>1 DEF Init, HelperOutcome, Contract!None
<1>5. Reported = Contract!Pending
  BY <1>1 DEF Init, Reported, Contract!Pending
<1>6. QED BY <1>2, <1>3, <1>4, <1>5 DEF Contract!Init

\* As long as nobody is killed from outside, consolehelper and userhelper
\* together keep the promise of WrapContract: every step is a step of the
\* contract or none.
THEOREM ContractKept ==
    ASSUME PamHonoursConv, Killable = {}
    PROVE  Spec => Contract!Spec
<1>1. PipeInv => Calm /\ kills = {}
  BY DEF PipeInv, PlaceInv, CancelInv, TypeOK, TypeImage, Calm, Undisturbed
<1>2. PipeInv /\ PipeInv' /\ [Next]_vars => [Contract!Next]_Contract!vars
  BY <1>1, StepKeeps
<1>3. QED
  BY <1>2, InitKeeps, PipeInductive, PTL DEF Spec, Contract!Spec
=============================================================================
