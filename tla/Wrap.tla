-------------------------------- MODULE Wrap --------------------------------
(***************************************************************************)
(* consolehelper runs a program through userhelper -w: the graphical front *)
(* end (userhelper-wrap.c), the setuid helper (wrap() of userhelper.c with *)
(* its PAM conversation) and, when the configuration asks for a PAM        *)
(* session, the process the helper forks to run the program.  They talk    *)
(* over two pipes; the front end must end knowing whether the status it    *)
(* reaps is the program's own (pass it on) or the helper's (explain it).   *)
(*                                                                         *)
(* PAM, the user and the wrapped program are the environment.  The         *)
(* behaviour starts when the front end has written its "go" byte and the   *)
(* forked child is about to exec userhelper.                               *)
(***************************************************************************)
EXTENDS UhMessages, FiniteSets

CONSTANTS
    Retries,          \* values of RETRY in the configuration file
    Shapes,           \* <<prompts, texts>> a PAM module may send at once
    MaxConv,          \* conversations in one PAM call, at most
    PamErrors,        \* failures a PAM call may return
    ProgramStatuses,  \* how the wrapped program may end (negative: by signal)
    Killable,         \* processes that may be killed from outside
    PamHonoursConv    \* a PAM call with a failed conversation never succeeds

SIGKILL == 9
SIGPIPE == 13

Signals == {-SIGKILL, -SIGPIPE}

ASSUME RetriesAssumption  == Retries \subseteq Int
ASSUME ShapesAssumption   == Shapes \subseteq Nat \X Nat
ASSUME MaxConvAssumption  == MaxConv \in Nat
ASSUME PamAssumption      == PamErrors \subseteq PamFailures
ASSUME ProgramAssumption  == ProgramStatuses \subseteq ExitStatuses \cup Signals
ASSUME KillableAssumption == Killable \subseteq {"helper", "child", "parent"}
ASSUME HonoursAssumption  == PamHonoursConv \in BOOLEAN

VARIABLES
    conf,             \* what wrap() reads from console.apps/<program>
    pc,               \* where the helper and its forked child are
    exitcode,         \* status each of them exits with
    ran,              \* "no", or the identity the program was started with
    milestones,       \* PAM calls that succeeded, and the early handshake
    waiting,          \* the helper is reading the reply to a conversation
    expected,         \* expected_responses of that conversation
    convs,            \* conversations in the current PAM call
    convFailed,       \* one of them failed
    tries,            \* tryagain
    canceled,         \* data->canceled
    fallbackChosen,   \* data->fallback_chosen
    toParent,         \* requests in the pipe to the front end
    toChild,          \* replies in the pipe to the helper
    ppc,              \* "loop", "dialog" (a question is up) or "gone"
    fate,             \* how the front end ended
    watch,            \* childout_tag # 0
    execed,           \* child_was_execed
    responses,        \* resp->responses
    infos,            \* message rows of resp that want no answer
    dialog,           \* resp->dialog exists, shown without waiting
    fallbackAllowed,  \* resp->fallback_allowed
    quitting,         \* gtk_main_quit() called under the question dialog
    reaped,           \* userhelper_child_exited() has run
    exitStatus,       \* child_exit_status
    explained,        \* status explained in a message box, or NoStatus
    kills             \* processes that may still be killed

pipes  == <<toParent, toChild>>
convo  == <<waiting, expected, convs, convFailed, canceled, fallbackChosen>>
image  == <<pc, exitcode, ran, milestones, tries>>
asked  == <<responses, infos, dialog, fallbackAllowed>>
ending == <<ppc, fate, quitting, reaped, exitStatus, explained>>
front  == <<watch, execed, asked, ending>>
vars   == <<conf, image, convo, pipes, front, kills>>

-----------------------------------------------------------------------------
Procs    == {"helper", "child"}
PamCalls == {"authenticate", "acct_mgmt", "open_session", "setcred",
             "close_session"}
PCs      == PamCalls \cup
            {"none", "start", "nogui_wait", "lookup", "exec_start",
             "exec_wait", "exec", "fail_wait", "waitpid", "program", "dead"}
NoStatus == -1

Conf == [gui: BOOLEAN, session: BOOLEAN, fallback: BOOLEAN, retry: Retries]

TypeImage ==
    /\ conf \in Conf
    /\ pc \in [Procs -> PCs]
    /\ exitcode \in [Procs -> ExitStatuses \cup Signals]
    /\ ran \in {"no", "user", "root"}
    /\ milestones \subseteq PamCalls \cup {"nogui"}
    /\ tries \in Int
    /\ kills \subseteq Killable

TypeConvo ==
    /\ waiting \in BOOLEAN
    /\ expected \in Nat
    /\ convs \in 0..MaxConv
    /\ convFailed \in BOOLEAN
    /\ canceled \in BOOLEAN
    /\ fallbackChosen \in BOOLEAN

TypePipes ==
    /\ toParent \in Seq(Request)
    /\ toChild \in Seq(Reply)

TypeFront ==
    /\ watch \in BOOLEAN
    /\ execed \in BOOLEAN
    /\ responses \in Nat
    /\ infos \in Nat
    /\ dialog \in BOOLEAN
    /\ fallbackAllowed \in BOOLEAN

TypeEnding ==
    /\ ppc \in {"loop", "dialog", "gone"}
    /\ fate \in {"running", "returned", "_exit", "protocol", "signal"}
    /\ quitting \in BOOLEAN
    /\ reaped \in BOOLEAN
    /\ exitStatus \in ExitStatuses
    /\ explained \in ExitStatuses \cup {NoStatus}

TypeOK == TypeImage /\ TypeConvo /\ TypePipes /\ TypeFront /\ TypeEnding

Init ==
    /\ conf \in Conf
    /\ pc = [w \in Procs |-> IF w = "helper" THEN "start" ELSE "none"]
    /\ exitcode = [w \in Procs |-> 0]
    /\ ran = "no"
    /\ milestones = {}
    /\ waiting = FALSE
    /\ expected = 0
    /\ convs = 0
    /\ convFailed = FALSE
    /\ tries = 0
    /\ canceled = FALSE
    /\ fallbackChosen = FALSE
    /\ toParent = <<>>
    /\ toChild = <<>>
    /\ ppc = "loop"
    /\ fate = "running"
    /\ watch = TRUE
    /\ execed = FALSE
    /\ responses = 0
    /\ infos = 0
    /\ dialog = FALSE
    /\ fallbackAllowed = FALSE
    /\ quitting = FALSE
    /\ reaped = FALSE
    /\ exitStatus = 0
    /\ explained = NoStatus
    /\ kills = Killable

-----------------------------------------------------------------------------
(* Processes and pipes.                                                    *)

Goto(w, place) ==
    /\ pc' = [pc EXCEPT ![w] = place]
    /\ UNCHANGED exitcode

Die(w, status) ==
    /\ pc' = [pc EXCEPT ![w] = "dead"]
    /\ exitcode' = [exitcode EXCEPT ![w] = status]

\* Processes that hold the helper's ends: exec closes them (FD_CLOEXEC).
Holders == {w \in Procs : pc[w] \notin {"none", "program", "dead"}}

\* fflush() of one request.  Writing to a front end that is gone is fatal.
SendRequest(w, req, place) ==
    IF ppc = "gone"
    THEN Die(w, -SIGPIPE) /\ UNCHANGED toParent
    ELSE Goto(w, place) /\ toParent' = Append(toParent, req)

-----------------------------------------------------------------------------
(* The helper reads its configuration.                                     *)

\* The forked child cannot exec userhelper and exits with 0, userhelper is
\* not setuid root, has no pipes or no user, or the configuration file is
\* unusable.
RefuseStart(status) ==
    /\ pc["helper"] = "start"
    /\ status \in {0, ERR_NO_RIGHTS, ERR_INVALID_CALL, ERR_UNK_ERROR}
    /\ Die("helper", status)
    /\ UNCHANGED <<conf, ran, milestones, tries, convo, pipes, front, kills>>

StartGui ==
    /\ pc["helper"] = "start"
    /\ conf.gui
    /\ Goto("helper", "lookup")
    /\ UNCHANGED <<conf, ran, milestones, tries, convo, pipes, front, kills>>

\* GUI=no: the front end is told at once to pass exit statuses through.
StartNoGui ==
    /\ pc["helper"] = "start"
    /\ ~conf.gui
    /\ SendRequest("helper", ExecRequest("EXEC_START"), "nogui_wait")
    /\ UNCHANGED <<conf, ran, milestones, tries, convo, toChild, front, kills>>

\* No such program, no user to authenticate as, pam_start() or pam_set_item()
\* fails.
LookupFails(status) ==
    /\ pc["helper"] = "lookup"
    /\ status \in {ERR_NO_PROGRAM, ERR_UNK_ERROR, ERR_NO_RIGHTS, ERR_NO_USER}
                    \cup {FailExit(canceled, r) : r \in PamErrors}
    /\ Die("helper", status)
    /\ UNCHANGED <<conf, ran, milestones, tries, convo, pipes, front, kills>>

\* Enter a PAM call: nothing asked in it yet.
Call(place) ==
    /\ Goto("helper", place)
    /\ convs' = 0
    /\ convFailed' = FALSE
    /\ UNCHANGED <<waiting, expected, canceled, fallbackChosen>>

LookupDone ==
    /\ pc["helper"] = "lookup"
    /\ Call("authenticate")
    /\ tries' = conf.retry + 1
    /\ UNCHANGED <<conf, ran, milestones, pipes, front, kills>>

-----------------------------------------------------------------------------
(* The conversation (converse_pipe): any PAM call may use it.              *)

MayConverse ==
    /\ pc["helper"] \in PamCalls
    /\ ~waiting
    /\ conf.gui
    /\ convs < MaxConv

\* Already canceled: PAM_ABORT, and the user is not bothered.
ConverseCanceled ==
    /\ MayConverse
    /\ canceled
    /\ convs' = convs + 1
    /\ convFailed' = TRUE
    /\ UNCHANGED <<conf, image, waiting, expected, canceled, fallbackChosen,
                   pipes, front, kills>>

Converse(prompts, texts) ==
    /\ MayConverse
    /\ ~canceled
    /\ SendRequest("helper", ConverseRequest(conf.fallback, prompts, texts),
                   pc["helper"])
    /\ convs' = convs + 1
    /\ waiting' = (ppc # "gone")
    /\ expected' = prompts
    /\ fallbackChosen' = FALSE
    /\ UNCHANGED <<conf, ran, milestones, tries, convFailed, canceled,
                   toChild, front, kills>>

Reading == pc["helper"] \in PamCalls /\ waiting /\ toChild # <<>>

\* Mutant: the cancellation is not remembered.
ReadCancelForgets ==
    /\ Reading
    /\ Head(toChild).kind = "CANCEL"
    /\ convFailed' = TRUE
    /\ waiting' = FALSE
    /\ toChild' = <<OkReply(0)>> \o Tail(toChild)
    /\ UNCHANGED <<conf, image, expected, convs, canceled, fallbackChosen,
                   toParent, front, kills>>

\* UH_CANCEL ends the reading: its UH_SYNC_POINT stays in the pipe.
ReadCancel ==
    /\ Reading
    /\ Head(toChild).kind = "CANCEL"
    /\ canceled' = TRUE
    /\ convFailed' = TRUE
    /\ waiting' = FALSE
    /\ toChild' = <<OkReply(0)>> \o Tail(toChild)
    /\ UNCHANGED <<conf, image, expected, convs, fallbackChosen, toParent,
                   front, kills>>

\* Mutant: UH_FALLBACK ends the reading as UH_CANCEL does.
ReadFallbackLeavesSync ==
    /\ Reading
    /\ Head(toChild).kind = "FALLBACK"
    /\ fallbackChosen' = TRUE
    /\ convFailed' = TRUE
    /\ waiting' = FALSE
    /\ toChild' = <<OkReply(0)>> \o Tail(toChild)
    /\ UNCHANGED <<conf, image, expected, convs, canceled, toParent, front,
                   kills>>

ReadFallback ==
    /\ Reading
    /\ Head(toChild).kind = "FALLBACK"
    /\ fallbackChosen' = TRUE
    /\ convFailed' = TRUE
    /\ waiting' = FALSE
    /\ toChild' = Tail(toChild)
    /\ UNCHANGED <<conf, image, expected, convs, canceled, toParent, front,
                   kills>>

\* The answers, in order.  One too many ends the reading at once.
ReadAnswers ==
    /\ Reading
    /\ Head(toChild).kind = "OK"
    /\ LET texts == Head(toChild).texts IN
       /\ convFailed' = (convFailed \/ texts # expected)
       /\ toChild' = IF texts > expected
                     THEN <<OkReply(texts - expected - 1)>> \o Tail(toChild)
                     ELSE Tail(toChild)
    /\ waiting' = FALSE
    /\ UNCHANGED <<conf, image, expected, convs, canceled, fallbackChosen,
                   toParent, front, kills>>

\* End of file counts as a cancellation.
ReadEof ==
    /\ pc["helper"] \in PamCalls
    /\ waiting
    /\ toChild = <<>>
    /\ ppc = "gone"
    /\ canceled' = TRUE
    /\ convFailed' = TRUE
    /\ waiting' = FALSE
    /\ UNCHANGED <<conf, image, expected, convs, fallbackChosen, pipes, front,
                   kills>>

-----------------------------------------------------------------------------
(* PAM calls return.                                                       *)

Returned(call, r) ==
    /\ pc["helper"] = call
    /\ ~waiting
    /\ r \in PamErrors \cup {"PAM_SUCCESS"}
    /\ PamHonoursConv /\ convFailed => r # "PAM_SUCCESS"
    /\ UNCHANGED <<conf, ran, kills>>

Milestone(m) == milestones' = milestones \cup {m}

\* PAM_USER is still the user we asked for; otherwise give up.
Authenticated ==
    /\ Returned("authenticate", "PAM_SUCCESS")
    /\ tries' = tries - 1
    /\ Milestone("authenticate")
    /\ \/ Call("acct_mgmt")
       \/ /\ \E status \in {ERR_UNK_ERROR} \cup
                           {FailExit(canceled, r) : r \in PamErrors} :
                Die("helper", status)
          /\ UNCHANGED convo
    /\ UNCHANGED <<pipes, front>>

\* Try again unless the tries are used up or the user wants something else.
AuthRetry(r) ==
    /\ Returned("authenticate", r)
    /\ r # "PAM_SUCCESS"
    /\ tries' = tries - 1
    /\ tries' # 0 /\ ~fallbackChosen /\ ~canceled
    /\ Call("authenticate")
    /\ UNCHANGED <<milestones, pipes, front>>

\* Mutant: FALLBACK is taken even when the user has canceled.
AuthGivesUpCanceled(r) ==
    /\ Returned("authenticate", r)
    /\ r # "PAM_SUCCESS"
    /\ tries' = tries - 1
    /\ tries' = 0 \/ fallbackChosen \/ canceled
    /\ IF conf.fallback
       THEN Goto("helper", "exec_start")
       ELSE Die("helper", FailExit(canceled, r))
    /\ UNCHANGED <<milestones, convo, pipes, front>>

\* No more tries: run the program as the invoking user where FALLBACK
\* allows it, otherwise report the failure.
AuthGivesUp(r) ==
    /\ Returned("authenticate", r)
    /\ r # "PAM_SUCCESS"
    /\ tries' = tries - 1
    /\ tries' = 0 \/ fallbackChosen \/ canceled
    /\ IF ~canceled /\ conf.fallback
       THEN Goto("helper", "exec_start")
       ELSE Die("helper", FailExit(canceled, r))
    /\ UNCHANGED <<milestones, convo, pipes, front>>

\* Any other call before the program runs must succeed.
CallFails(call, r) ==
    /\ call \in {"acct_mgmt", "open_session", "setcred"}
    /\ Returned(call, r)
    /\ r # "PAM_SUCCESS"
    /\ Die("helper", FailExit(canceled, r))
    /\ UNCHANGED <<milestones, tries, convo, pipes, front>>

\* The user may have vanished meanwhile (ERR_NO_USER).
AccountOk ==
    /\ Returned("acct_mgmt", "PAM_SUCCESS")
    /\ Milestone("acct_mgmt")
    /\ \/ Die("helper", ERR_NO_USER) /\ UNCHANGED convo
       \/ conf.session /\ Call("open_session")
       \/ ~conf.session /\ Goto("helper", "exec_start") /\ UNCHANGED convo
    /\ UNCHANGED <<tries, pipes, front>>

SessionOpened ==
    /\ Returned("open_session", "PAM_SUCCESS")
    /\ Milestone("open_session")
    /\ \/ Call("setcred")
       \/ Die("helper", ERR_EXEC_FAILED) /\ UNCHANGED convo
    /\ UNCHANGED <<tries, pipes, front>>

\* fork(): the child takes over the pipes while the helper waits for it.
CredEstablished ==
    /\ Returned("setcred", "PAM_SUCCESS")
    /\ Milestone("setcred")
    /\ \/ /\ pc' = [pc EXCEPT !["helper"] = "waitpid",
                              !["child"] = "exec_start"]
          /\ UNCHANGED exitcode
       \/ Die("helper", ERR_EXEC_FAILED)
    /\ UNCHANGED <<tries, convo, pipes, front>>

-----------------------------------------------------------------------------
(* Running the program.  w is the process that becomes it.                 *)

\* become_super() or become_normal() fails.
IdentityRefused(w) ==
    /\ pc[w] = "exec_start"
    /\ Die(w, ERR_EXEC_FAILED)
    /\ UNCHANGED <<conf, ran, milestones, tries, convo, pipes, front, kills>>

\* Mutant: the acknowledgement is not awaited.
ExecStartNoWait(w) ==
    /\ pc[w] = "exec_start"
    /\ IF conf.gui
       THEN SendRequest(w, ExecRequest("EXEC_START"), "exec")
       ELSE Goto(w, "exec") /\ UNCHANGED toParent
    /\ UNCHANGED <<conf, ran, milestones, tries, convo, toChild, front, kills>>

\* pipe_conv_exec_start(): announce the program and wait for the front end,
\* unless the conversation has left the pipes (GUI=no).
ExecStart(w) ==
    /\ pc[w] = "exec_start"
    /\ IF conf.gui
       THEN SendRequest(w, ExecRequest("EXEC_START"), "exec_wait")
       ELSE Goto(w, "exec") /\ UNCHANGED toParent
    /\ UNCHANGED <<conf, ran, milestones, tries, convo, toChild, front, kills>>

\* Mutant: end of file passes for an acknowledgement.
AcknowledgedByEof == toChild = <<>> \/ Head(toChild) = OkReply(0)

\* pipe_conv_wait_for_sync(): the next reply must be a bare acknowledgement.
Acknowledged == toChild # <<>> /\ Head(toChild) = OkReply(0)

\* Mutant: end of file is not noticed.
SyncReadNoEof == toChild # <<>> /\ toChild' = Tail(toChild)

\* What the process reads of a reply, and what it leaves.
SyncRead ==
    \/ toChild # <<>> /\ toChild' = Tail(toChild)
    \/ toChild = <<>> /\ ppc = "gone" /\ UNCHANGED toChild

WaitForSync(w) ==
    /\ pc[w] \in {"exec_wait", "nogui_wait"}
    /\ SyncRead
    /\ IF Acknowledged
       THEN IF pc[w] = "exec_wait"
            THEN Goto(w, "exec") /\ UNCHANGED milestones
            ELSE Goto(w, "lookup") /\ Milestone("nogui")
       ELSE Die(w, ERR_UNK_ERROR) /\ UNCHANGED milestones
    /\ UNCHANGED <<conf, ran, tries, convo, toParent, front, kills>>

\* Mutant: become_super() even where the user has not authenticated.
ExecAsRoot(w) ==
    /\ pc[w] = "exec"
    /\ Goto(w, "program")
    /\ ran' = "root"
    /\ UNCHANGED <<conf, milestones, tries, convo, pipes, front, kills>>

\* After a failed authentication the program runs as the invoking user.
Exec(w) ==
    /\ pc[w] = "exec"
    /\ Goto(w, "program")
    /\ ran' = IF "authenticate" \in milestones THEN "root" ELSE "user"
    /\ UNCHANGED <<conf, milestones, tries, convo, pipes, front, kills>>

\* Mutant: the announcement is taken back, and nobody waits.
ExecFailedNoWait(w, status) ==
    IF conf.gui /\ ppc = "gone"
    THEN Die(w, -SIGPIPE) /\ UNCHANGED toParent
    ELSE /\ Die(w, status)
         /\ toParent' = IF conf.gui
                        THEN Append(toParent, ExecRequest("EXEC_FAILED"))
                        ELSE toParent

\* pipe_conv_exec_fail(): take the announcement back, then exit with status.
ExecFailed(w, status) ==
    IF ~conf.gui
    THEN Die(w, status) /\ UNCHANGED toParent
    ELSE IF ppc = "gone"
    THEN Die(w, -SIGPIPE) /\ UNCHANGED toParent
    ELSE /\ pc' = [pc EXCEPT ![w] = "fail_wait"]
         /\ exitcode' = [exitcode EXCEPT ![w] = status]
         /\ toParent' = Append(toParent, ExecRequest("EXEC_FAILED"))

ExecRefused(w) ==
    /\ pc[w] = "exec"
    /\ ExecFailed(w, ERR_EXEC_FAILED)
    /\ UNCHANGED <<conf, ran, milestones, tries, convo, toChild, front, kills>>

\* The reply to UH_EXEC_FAILED is awaited, whatever it says.
FailWait(w) ==
    /\ pc[w] = "fail_wait"
    /\ SyncRead
    /\ Die(w, exitcode[w])
    /\ UNCHANGED <<conf, ran, milestones, tries, convo, toParent, front, kills>>

ProgramExits(w, status) ==
    /\ pc[w] = "program"
    /\ status \in ProgramStatuses
    /\ Die(w, status)
    /\ UNCHANGED <<conf, ran, milestones, tries, convo, pipes, front, kills>>

\* waitpid() returns: close the session.
ChildReaped ==
    /\ pc["helper"] = "waitpid"
    /\ pc["child"] = "dead"
    /\ Call("close_session")
    /\ UNCHANGED <<conf, ran, milestones, tries, pipes, front, kills>>

\* The helper exits with the child's status, 128+n for signal n.
ChildStatus ==
    IF exitcode["child"] < 0 THEN 128 - exitcode["child"]
                             ELSE exitcode["child"]

\* The last pam_setcred(PAM_DELETE_CRED), whose result nobody looks at, is
\* taken to ask nothing.
SessionClosed ==
    /\ Returned("close_session", "PAM_SUCCESS")
    /\ Milestone("close_session")
    /\ Die("helper", ChildStatus)
    /\ UNCHANGED <<tries, convo, pipes, front>>

\* Mutant: the announcement is not taken back.
SessionCloseFailsSilently(r) ==
    /\ Returned("close_session", r)
    /\ r # "PAM_SUCCESS"
    /\ Die("helper", FailExit(canceled, r))
    /\ UNCHANGED <<milestones, tries, convo, pipes, front>>

SessionCloseFails(r) ==
    /\ Returned("close_session", r)
    /\ r # "PAM_SUCCESS"
    /\ ExecFailed("helper", FailExit(canceled, r))
    /\ UNCHANGED <<milestones, tries, convo, toChild, front>>

-----------------------------------------------------------------------------
(* The front end.                                                          *)

\* Its process ends.
FrontGone(how) ==
    /\ ppc' = "gone"
    /\ fate' = how
    /\ UNCHANGED <<quitting, reaped, exitStatus, explained>>

FrontStays(place) ==
    /\ ppc' = place
    /\ UNCHANGED <<fate, quitting, reaped, exitStatus, explained>>

\* userhelper_write_childin(), then carry on at place.
WriteReply(reply, place) ==
    IF Holders = {}
    THEN FrontGone("signal") /\ UNCHANGED toChild
    ELSE FrontStays(place) /\ toChild' = Append(toChild, reply)

\* Mutant: UH_EXEC_FAILED is ignored.
NotedNoFailure(req) ==
    /\ responses' = responses + req.prompts
    /\ infos' = infos + req.infos
    /\ fallbackAllowed' = IF req.op = "CONVERSE" THEN req.fallback
                                                 ELSE fallbackAllowed
    /\ execed' = (execed \/ req.op = "EXEC_START")

\* The requests before UH_SYNC_POINT, noted one by one in resp.
Noted(req) ==
    /\ responses' = responses + req.prompts
    /\ infos' = infos + req.infos
    /\ fallbackAllowed' = IF req.op = "CONVERSE" THEN req.fallback
                                                 ELSE fallbackAllowed
    /\ execed' = CASE req.op = "EXEC_START"  -> TRUE
                   [] req.op = "EXEC_FAILED" -> FALSE
                   [] OTHER                  -> execed

Receives(req) ==
    /\ ppc = "loop" /\ watch
    /\ toParent # <<>> /\ req = Head(toParent)
    /\ toParent' = Tail(toParent)
    /\ UNCHANGED <<conf, image, convo, watch, kills>>

\* UH_EXPECT_RESP disagrees with the prompts noted: _exit(1).
ProtocolError ==
    /\ toParent # <<>>
    /\ LET req == Head(toParent) IN
       /\ Receives(req)
       /\ req.op = "CONVERSE"
       /\ Noted(req)
       /\ responses' # req.expect
    /\ FrontGone("protocol")
    /\ UNCHANGED <<dialog, toChild>>

\* UH_SYNC_POINT: acknowledge, show the messages, or ask the questions.
HandleRequest ==
    /\ toParent # <<>>
    /\ LET req == Head(toParent) IN
       /\ Receives(req)
       /\ Noted(req)
       /\ req.op = "CONVERSE" => responses' = req.expect
    /\ LET silent == execed' \/ (responses' = 0 /\ infos' = 0) IN
       \/ /\ silent
          /\ dialog' = (dialog /\ ~execed' /\ responses' = 0)
          /\ WriteReply(OkReply(responses'), "loop")
       \/ /\ ~silent /\ responses' = 0
          /\ dialog' = TRUE
          /\ WriteReply(OkReply(0), "loop")
       \/ /\ ~silent /\ responses' > 0
          /\ dialog' = FALSE
          /\ FrontStays("dialog")
          /\ UNCHANGED toChild

\* Mutant: resp->responses is not reset.
AnswerKeepsCount(reply) ==
    /\ ppc = "dialog"
    /\ reply \in {OkReply(responses), CancelReply} \cup
                 (IF fallbackAllowed THEN {FallbackReply} ELSE {})
    /\ IF Holders # {} /\ quitting
       THEN FrontGone("returned") /\ toChild' = Append(toChild, reply)
       ELSE WriteReply(reply, "loop")
    /\ infos' = 0
    /\ dialog' = FALSE
    /\ fallbackAllowed' = FALSE
    /\ UNCHANGED <<conf, image, convo, toParent, watch, execed, responses,
                   kills>>

\* The user answers the question dialog; resp is freed.
Answer(reply) ==
    /\ ppc = "dialog"
    /\ reply \in {OkReply(responses), CancelReply} \cup
                 (IF fallbackAllowed THEN {FallbackReply} ELSE {})
    /\ IF Holders # {} /\ quitting
       THEN FrontGone("returned") /\ toChild' = Append(toChild, reply)
       ELSE WriteReply(reply, "loop")
    /\ responses' = 0
    /\ infos' = 0
    /\ dialog' = FALSE
    /\ fallbackAllowed' = FALSE
    /\ UNCHANGED <<conf, image, convo, toParent, watch, execed, kills>>

\* The question dialog is closed in some other way: _exit(1).
CloseQuestion ==
    /\ ppc = "dialog"
    /\ FrontGone("_exit")
    /\ UNCHANGED <<conf, image, convo, pipes, watch, execed, asked, kills>>

\* Cancel, or closing, the message dialog ends the main loop.
DismissMessages ==
    /\ ppc = "loop"
    /\ dialog
    /\ FrontGone("returned")
    /\ UNCHANGED <<conf, image, convo, pipes, watch, execed, asked, kills>>

\* All writers of the pipe are gone: stop watching, read or not.
HangUp ==
    /\ ppc = "loop" /\ watch
    /\ Holders = {}
    /\ watch' = FALSE
    /\ UNCHANGED <<conf, image, convo, pipes, execed, asked, ending, kills>>

\* userhelper_parse_exitstatus().  child_success_dialog is FALSE here.
ParseExitStatus(status) ==
    IF execed
    THEN exitStatus' = status /\ UNCHANGED explained
    ELSE /\ explained' = IF ExitMessageType(status) = "UHM_ERROR"
                         THEN status ELSE NoStatus
         /\ UNCHANGED exitStatus

\* Mutant: WIFSIGNALED() is not looked at.
ReapedStatusRaw == exitcode["helper"]

ReapedStatus ==
    IF exitcode["helper"] < 0 THEN ERR_UNK_ERROR ELSE exitcode["helper"]

\* Mutant: the handler is lost with the watch on the pipe.
ChildExitedWatched ==
    /\ ppc # "gone" /\ watch
    /\ pc["helper"] = "dead"
    /\ ~reaped
    /\ reaped' = TRUE
    /\ watch' = FALSE
    /\ ParseExitStatus(ReapedStatus)
    /\ IF ppc = "dialog"
       THEN quitting' = TRUE /\ UNCHANGED <<ppc, fate>>
       ELSE ppc' = "gone" /\ fate' = "returned" /\ UNCHANGED quitting
    /\ UNCHANGED <<conf, image, convo, pipes, execed, asked, kills>>

\* userhelper_child_exited(): the main loop ends once no question is up.
ChildExited ==
    /\ ppc # "gone"
    /\ pc["helper"] = "dead"
    /\ ~reaped
    /\ reaped' = TRUE
    /\ watch' = FALSE
    /\ ParseExitStatus(ReapedStatus)
    /\ IF ppc = "dialog"
       THEN quitting' = TRUE /\ UNCHANGED <<ppc, fate>>
       ELSE ppc' = "gone" /\ fate' = "returned" /\ UNCHANGED quitting
    /\ UNCHANGED <<conf, image, convo, pipes, execed, asked, kills>>

-----------------------------------------------------------------------------
(* Kills from outside: a logout, ^C on the terminal, the OOM killer.       *)

KillProc(w) ==
    /\ w \in kills \cap Procs
    /\ pc[w] \notin {"none", "dead"}
    /\ Die(w, -SIGKILL)
    /\ waiting' = (waiting /\ w # "helper")
    /\ kills' = kills \ {w}
    /\ UNCHANGED <<conf, ran, milestones, tries, expected, convs, convFailed,
                   canceled, fallbackChosen, pipes, front>>

KillFront ==
    /\ "parent" \in kills
    /\ ppc # "gone"
    /\ FrontGone("signal")
    /\ kills' = kills \ {"parent"}
    /\ UNCHANGED <<conf, image, convo, pipes, watch, execed, asked>>

-----------------------------------------------------------------------------
HelperStep ==
    \/ \E status \in ExitStatuses : RefuseStart(status) \/ LookupFails(status)
    \/ StartGui
    \/ StartNoGui
    \/ LookupDone
    \/ ConverseCanceled
    \/ \E shape \in Shapes : Converse(shape[1], shape[2])
    \/ ReadCancel
    \/ ReadFallback
    \/ ReadAnswers
    \/ ReadEof
    \/ Authenticated
    \/ \E r \in PamErrors :
          \/ AuthRetry(r)
          \/ AuthGivesUp(r)
          \/ \E call \in PamCalls : CallFails(call, r)
          \/ SessionCloseFails(r)
    \/ AccountOk
    \/ SessionOpened
    \/ CredEstablished
    \/ ChildReaped
    \/ SessionClosed

\* Steps that the helper and its child both have.
RunnerStep(w) ==
    \/ IdentityRefused(w)
    \/ ExecStart(w)
    \/ WaitForSync(w)
    \/ Exec(w)
    \/ ExecRefused(w)
    \/ FailWait(w)

FrontStep ==
    \/ ProtocolError
    \/ HandleRequest
    \/ HangUp
    \/ ChildExited

Answered ==
    \/ \E reply \in {OkReply(responses), CancelReply, FallbackReply} :
          Answer(reply)
    \/ CloseQuestion

UserStep == Answered \/ DismissMessages

OutsideStep ==
    \/ \E w \in Procs, status \in ProgramStatuses : ProgramExits(w, status)
    \/ \E w \in Procs : KillProc(w)
    \/ KillFront

\* Every process is gone: nothing is left to do.
AllGone ==
    /\ ppc = "gone"
    /\ \A w \in Procs : pc[w] \in {"none", "dead"}
    /\ UNCHANGED vars

Next ==
    \/ HelperStep
    \/ \E w \in Procs : RunnerStep(w)
    \/ FrontStep
    \/ UserStep
    \/ OutsideStep
    \/ AllGone

Spec == Init /\ [][Next]_vars

\* Each process is scheduled, a PAM call ends after MaxConv conversations, and
\* a user who is asked a question answers it or closes it.  Nothing says that
\* the program ends or that a message box is dismissed.
Fairness ==
    /\ WF_vars(HelperStep)
    /\ \A w \in Procs : WF_vars(RunnerStep(w))
    /\ WF_vars(FrontStep)
    /\ WF_vars(Answered)

FairSpec == Spec /\ Fairness

-----------------------------------------------------------------------------
(* Safety.                                                                 *)

\* No process is killed: the front end can trust what it has been told.
Undisturbed == kills = Killable

\* The program runs only after the front end has noted UH_EXEC_START, so that
\* a status it reaps is never taken for the helper's (the handshake of
\* pipe_conv_exec_start()).
RunsOnlyAcknowledged ==
    \A w \in Procs : pc[w] = "program" => execed \/ ppc = "gone"

\* The status the helper exits with is the program's: it was started and its
\* session closed; or, with GUI=no, the helper speaks for itself on stderr.
ProgramsStatus ==
    IF conf.gui
    THEN \/ ran = "user"
         \/ ran = "root" /\ (conf.session => "close_session" \in milestones)
    ELSE "nogui" \in milestones

\* When the helper has exited both sides agree whose status that is
\* (pipe_conv_exec_start(), pipe_conv_exec_fail() and child_was_execed).
StatusAgreed ==
    Undisturbed /\ pc["helper"] = "dead" /\ ppc # "gone"
        => (execed <=> ProgramsStatus)

\* Requests are never lost when the front end stops watching the pipe: the
\* helper exits only after the front end has read what it wrote (the G_IO_HUP
\* case of userhelper_read_childout(), which drops what is unread).  The one
\* exception: after a cancellation UH_EXEC_FAILED is not really awaited, for
\* the UH_SYNC_POINT that followed UH_CANCEL is still there to be read; the
\* front end then knows already that the program does not run.
NothingUnread ==
    Undisturbed /\ Holders = {} /\ ppc # "gone" =>
        \/ toParent = <<>>
        \/ canceled /\ ~execed /\ toParent = <<ExecRequest("EXEC_FAILED")>>

\* The processes that wait for a reply.
Waiting ==
    {w \in Procs : \/ pc[w] \in {"nogui_wait", "exec_wait", "fail_wait"}
                   \/ w = "helper" /\ waiting}

\* The conversation is in lock step: while a process waits there is exactly
\* one request, or its reply, or the question dialog between the two sides,
\* and never two waiting processes (the UH_SYNC_POINT discipline).  After a
\* cancellation a UH_SYNC_POINT too many is left over.
LockStep ==
    /\ Cardinality(Waiting) <= 1
    /\ Waiting # {} /\ ~canceled /\ ppc # "gone" =>
          Len(toParent) + Len(toChild) + (IF ppc = "dialog" THEN 1 ELSE 0) = 1

\* The reply that a conversation reads answers exactly the prompts it sent:
\* no answer reaches the wrong prompt (converse_pipe() against resp).
AnswersMatch ==
    Reading /\ Head(toChild).kind = "OK" => Head(toChild).texts = expected

\* The front end gives up with "Protocol error" only once the program has
\* been started, never while the user is authenticating.
NoProtocolErrorBeforeRun == fate = "protocol" => "setcred" \in milestones

\* A helper that exits after its user has canceled says so: "Trust the canceled
\* flag before any PAM error codes" (fail_exit()).  The front end is then
\* silent, where any other failure puts up an error message.
CanceledIsSaid ==
    canceled /\ pc["helper"] = "dead" /\ exitcode["helper"] >= 0
        => exitcode["helper"] = ERR_CANCELED

\* The program runs as root only after every PAM call that must succeed did,
\* and as the invoking user only where FALLBACK allows it.
PrivilegeEarned ==
    /\ ran = "root" => /\ {"authenticate", "acct_mgmt"} \subseteq milestones
                       /\ conf.session =>
                            {"open_session", "setcred"} \subseteq milestones
    /\ ran = "user" => conf.fallback /\ "authenticate" \notin milestones

-----------------------------------------------------------------------------
(* What a step may never do.                                               *)

Starts == ran' # ran

\* Once the user has canceled (or the front end has gone away under a
\* conversation) the program is not started.
CancelStops == [][Starts => ~canceled]_vars

\* The user closed the question, or dismissed the messages, before the helper
\* had anything to report.
Dismissed ==
    /\ ppc = "gone"
    /\ fate = "_exit" \/ (fate = "returned" /\ ~reaped)

\* Closing a dialog is final: no program is started behind the user's back,
\* though nobody tells the helper, which finds out from its pipes.
DismissalIsFinal == [][Starts => ~Dismissed]_vars

\* A user who chose to run unprivileged is not asked again.
FallbackSticks == [][fallbackChosen => fallbackChosen']_vars

-----------------------------------------------------------------------------
(* Liveness.                                                               *)

\* Nothing is on its way: only a running program keeps a process busy.
Settled ==
    \/ pc["child"] \in {"none", "dead"} /\ pc["helper"] \in {"dead", "program"}
    \/ pc["child"] = "program" /\ pc["helper"] \in {"waitpid", "dead"}

\* However PAM and the user behave, the helper does not hang: it ends, or
\* hands over to the program, and ends after it.
HelperSettles == []<>Settled

\* The exit of the helper is always noticed, even under a question dialog.
FrontEndReturns == pc["helper"] = "dead" ~> ppc = "gone"
=============================================================================
