------------------------------ MODULE PanelIcon ------------------------------
(***************************************************************************)
(* pam-panel-icon.c: a process of the desktop session that keeps one       *)
(* pam_timestamp_check -d (the checker) running, shows an icon while the   *)
(* user's authorization lasts, and lets the user give it up.  The death of *)
(* a checker is reported twice, by the hang-up of its pipe and by a child  *)
(* watch, in either order; either report must launch exactly one new one.  *)
(***************************************************************************)
EXTENDS Integers, Sequences, FiniteSets

CONSTANTS
    MaxLaunch,       \* checkers launched, at most; the last one does not die
    MaxUnread,       \* reports a checker leaves in its pipe, at most
    ErrorCodes,      \* codes other than 0 and 7 a checker may report
    LaunchOutcomes,  \* what g_spawn_async_with_pipes() and what follows may do
    ReadErrors,      \* reading the pipe may fail
    AsRoot           \* the panel belongs to root, who needs no authorization

ASSUME LaunchAssumption   == MaxLaunch \in Nat \ {0} /\ MaxUnread \in Nat \ {0}
ASSUME CodesAssumption    == ErrorCodes \subseteq Nat
ASSUME OutcomesAssumption ==
    LaunchOutcomes \subseteq {"ok", "spawn_fails", "flags_fail"}
ASSUME FlagsAssumption    == ReadErrors \in BOOLEAN /\ AsRoot \in BOOLEAN

VARIABLES
    held,          \* the timestamp is there: root's password is not asked for
    main,          \* main(): "starting", "loop" (gtk_main) or "over"
    status,        \* current_status
    checker,       \* what has become of each checker
    said,          \* the code each checker reported last, or NoCode
    pipe,          \* reports each checker has written and nobody has read
    launched,      \* checkers launched so far
    current,       \* whose sources and channel the static variables hold, or 0
    ioSources,     \* checkers whose pipe is watched by child_io_func()
    childSources,  \* checkers whose exit is watched by child_watch_func()
    fds,           \* checkers whose pipe is still open in the panel
    heard,         \* last code read from the newest checker, or NoCode
    icon,          \* tray_icon: "none", "hidden" or "shown"
    dialog,        \* drop_dialog is up
    menu           \* drop_menu is up

children == <<checker, said, pipe>>
watching == <<launched, current, ioSources, childSources, fds>>
desktop  == <<icon, dialog, menu>>
vars     == <<held, main, status, children, watching, heard, desktop>>

Checkers == 1..MaxLaunch
NoCode   == -1

STATUS_UNKNOWN       == -1
STATUS_AUTHENTICATED == 0
STATUS_OTHER_ERROR   == 7

Statuses == {STATUS_UNKNOWN, STATUS_AUTHENTICATED} \cup 2..STATUS_OTHER_ERROR

Codes == {STATUS_AUTHENTICATED, STATUS_OTHER_ERROR} \cup ErrorCodes

TypeOK ==
    /\ held \in BOOLEAN
    /\ main \in {"starting", "loop", "over"}
    /\ status \in Statuses
    /\ checker \in [Checkers -> {"unborn", "running", "exited", "reaped"}]
    /\ said \in [Checkers -> Codes \cup {NoCode}]
    /\ pipe \in [Checkers -> Seq(Codes)]
    /\ launched \in 0..MaxLaunch
    /\ current \in 0..launched
    /\ ioSources \subseteq 1..launched
    /\ childSources \subseteq 1..launched
    /\ fds \subseteq 1..launched
    /\ heard \in Codes \cup {NoCode}
    /\ icon \in {"none", "hidden", "shown"}
    /\ dialog \in BOOLEAN
    /\ menu \in BOOLEAN

Init ==
    /\ held \in BOOLEAN
    /\ main = "starting"
    /\ status = STATUS_UNKNOWN
    /\ checker = [c \in Checkers |-> "unborn"]
    /\ said = [c \in Checkers |-> NoCode]
    /\ pipe = [c \in Checkers |-> <<>>]
    /\ launched = 0
    /\ current = 0
    /\ ioSources = {}
    /\ childSources = {}
    /\ fds = {}
    /\ heard = NoCode
    /\ icon = "none"
    /\ dialog = FALSE
    /\ menu = FALSE

-----------------------------------------------------------------------------
(* launch_checker().                                                       *)

\* Mutant: the child watch of the old checker is not removed.
ForgottenChildKept(died) == died

\* Removing the sources of the current checker; the child watch that is being
\* dispatched does not come back either.
ForgottenChild(died) == {current} \cup died

\* The state of the old checker is forgotten, then a new one is spawned, and
\* watched unless its pipe cannot be made non-blocking.  Nothing closes the
\* old pipe: the channel does not own it.  died: the checkers reaped just now.
Launch(how, died) ==
    LET new     == launched + 1
        spawned == how # "spawn_fails"
        watched == IF how = "ok" THEN {new} ELSE {} IN
    /\ how \in LaunchOutcomes
    /\ launched < MaxLaunch
    /\ launched' = IF spawned THEN new ELSE launched
    /\ checker' = [c \in Checkers |-> IF c \in died THEN "reaped"
                                      ELSE IF c = new /\ spawned THEN "running"
                                      ELSE checker[c]]
    /\ fds' = IF spawned THEN fds \cup {new} ELSE fds
    /\ current' = IF how = "ok" THEN new ELSE 0
    /\ ioSources' = (ioSources \ {current}) \cup watched
    /\ childSources' = (childSources \ ForgottenChild(died)) \cup watched
    /\ heard' = NoCode

\* refresh_tray_icon() for a new current_status.
RefreshTrayIcon(new) ==
    icon' = IF new = STATUS_AUTHENTICATED /\ ~AsRoot THEN "shown"
            ELSE IF icon = "none" THEN "none" ELSE "hidden"

\* main(): the first checker.
Main(how) ==
    /\ main = "starting"
    /\ main' = "loop"
    /\ Launch(how, {})
    /\ UNCHANGED <<held, status, said, pipe, desktop>>

-----------------------------------------------------------------------------
(* The checkers, and the authorization they look at.                       *)

\* The user authenticates through userhelper, or the timestamp expires.
Authorization ==
    /\ held' = ~held
    /\ UNCHANGED <<main, status, children, watching, heard, desktop>>

\* A checker reports 0 or 7 whenever that is news.
Reports(c) ==
    LET code == IF held THEN STATUS_AUTHENTICATED ELSE STATUS_OTHER_ERROR IN
    /\ checker[c] = "running"
    /\ said[c] \notin ErrorCodes \cup {code}
    /\ Len(pipe[c]) < MaxUnread
    /\ said' = [said EXCEPT ![c] = code]
    /\ pipe' = [pipe EXCEPT ![c] = Append(@, code)]
    /\ UNCHANGED <<held, main, status, checker, watching, heard, desktop>>

\* It reports an error, after which it says nothing more.
Fails(c, code) ==
    /\ checker[c] = "running" /\ c < MaxLaunch
    /\ code \in ErrorCodes
    /\ said[c] \notin ErrorCodes
    /\ Len(pipe[c]) < MaxUnread
    /\ said' = [said EXCEPT ![c] = code]
    /\ pipe' = [pipe EXCEPT ![c] = Append(@, code)]
    /\ UNCHANGED <<held, main, status, checker, watching, heard, desktop>>

\* It exits after an error, or is killed.
Dies(c) ==
    /\ checker[c] = "running" /\ c < MaxLaunch
    /\ checker' = [checker EXCEPT ![c] = "exited"]
    /\ UNCHANGED <<held, main, status, said, pipe, watching, heard, desktop>>

-----------------------------------------------------------------------------
(* child_io_func().                                                        *)

\* Mutant: the code is taken for the status.
StatusOfRaw(output) == output

\* The switch on what was read.  Nothing read counts as 0.
StatusOf(output) ==
    IF output \in {0} \cup 2..7 THEN output ELSE STATUS_UNKNOWN

HungUp(c) == checker[c] \in {"exited", "reaped"}

\* Mutant: the source is not kept.
ReadReportsOnce(c) ==
    /\ main = "loop" /\ c \in ioSources
    /\ ~HungUp(c) /\ pipe[c] # <<>>
    /\ heard' = pipe[c][Len(pipe[c])]
    /\ pipe' = [pipe EXCEPT ![c] = <<>>]
    /\ status' = StatusOf(heard')
    /\ RefreshTrayIcon(status')
    /\ ioSources' = ioSources \ {c}
    /\ UNCHANGED <<held, main, checker, said, launched, current, childSources,
                   fds, dialog, menu>>

\* Up to ten bytes, five reports, of which the last one counts.
ReadReports(c) ==
    /\ main = "loop" /\ c \in ioSources
    /\ ~HungUp(c) /\ pipe[c] # <<>>
    /\ LET n == IF Len(pipe[c]) < 5 THEN Len(pipe[c]) ELSE 5 IN
       /\ heard' = pipe[c][n]
       /\ pipe' = [pipe EXCEPT ![c] = SubSeq(@, n + 1, Len(@))]
    /\ status' = StatusOf(heard')
    /\ RefreshTrayIcon(status')
    /\ UNCHANGED <<held, main, checker, said, watching, dialog, menu>>

\* The pipe hung up, whatever is still in it, or cannot be read: the status
\* set to STATUS_UNKNOWN is overwritten as for a report of 0, and a new
\* checker is launched.
RespawnAfterIo(c, how) ==
    /\ main = "loop" /\ c \in ioSources
    /\ HungUp(c) \/ (ReadErrors /\ pipe[c] # <<>>)
    /\ status' = StatusOf(0)
    /\ RefreshTrayIcon(status')
    /\ Launch(how, {})
    /\ UNCHANGED <<held, main, said, pipe, dialog, menu>>

-----------------------------------------------------------------------------
(* child_watch_func(): the checker is reaped and another one launched.     *)

\* Mutant: the icon is not refreshed.
ChildDiedIconKept(c, how) ==
    /\ main = "loop" /\ c \in childSources
    /\ checker[c] = "exited"
    /\ status' = STATUS_UNKNOWN
    /\ Launch(how, {c})
    /\ UNCHANGED <<held, main, said, pipe, desktop>>

ChildDied(c, how) ==
    /\ main = "loop" /\ c \in childSources
    /\ checker[c] = "exited"
    /\ status' = STATUS_UNKNOWN
    /\ RefreshTrayIcon(status')
    /\ Launch(how, {c})
    /\ UNCHANGED <<held, main, said, pipe, dialog, menu>>

-----------------------------------------------------------------------------
(* The icon.                                                               *)

\* handle_activate(): offer to forget the authorization.
Activate ==
    /\ main = "loop" /\ icon = "shown"
    /\ dialog' = (dialog \/ status = STATUS_AUTHENTICATED)
    /\ UNCHANGED <<held, main, status, children, watching, heard, icon, menu>>

\* handle_popup().
Popup ==
    /\ main = "loop" /\ icon = "shown"
    /\ menu' = (menu \/ status = STATUS_AUTHENTICATED)
    /\ UNCHANGED <<held, main, status, children, watching, heard, icon,
                   dialog>>

\* handle_drop_response(): pam_timestamp_check -k runs while the panel waits.
\* It removes the timestamp, or fails and the user is told.
HandleDropResponse ==
    \/ held' = FALSE
    \/ UNCHANGED held

\* The user answers the dialog, or picks an item of the menu.
Respond(drop) ==
    /\ main = "loop"
    /\ \/ dialog /\ dialog' = FALSE /\ UNCHANGED menu
       \/ menu /\ menu' = FALSE /\ UNCHANGED dialog
    /\ IF drop THEN HandleDropResponse ELSE UNCHANGED held
    /\ UNCHANGED <<main, status, children, watching, heard, icon>>

\* The system tray goes away, and the icon in it (weak pointer).
TrayGone ==
    /\ main = "loop"
    /\ icon' = "none"
    /\ UNCHANGED <<held, main, status, children, watching, heard, dialog,
                   menu>>

\* session_die_callback(): gtk_main_quit(), and main() returns.
SessionDie ==
    /\ main = "loop"
    /\ main' = "over"
    /\ icon' = "none" /\ dialog' = FALSE /\ menu' = FALSE
    /\ ioSources' = {} /\ childSources' = {} /\ fds' = {}
    /\ UNCHANGED <<held, status, children, launched, current, heard>>

-----------------------------------------------------------------------------
CheckerStep(c) ==
    \/ Reports(c)
    \/ Dies(c)
    \/ \E code \in ErrorCodes : Fails(c, code)

PanelStep(c) ==
    \/ ReadReports(c)
    \/ \E how \in LaunchOutcomes : RespawnAfterIo(c, how) \/ ChildDied(c, how)

UserStep ==
    \/ Authorization
    \/ Activate
    \/ Popup
    \/ \E drop \in BOOLEAN : Respond(drop)
    \/ TrayGone
    \/ SessionDie

Next ==
    \/ \E how \in LaunchOutcomes : Main(how)
    \/ \E c \in Checkers : CheckerStep(c) \/ PanelStep(c)
    \/ UserStep

Spec == Init /\ [][Next]_vars

\* The main loop dispatches what is ready, and the checker polls its
\* timestamp file and exits after an error.  The user owes nothing.
Fairness ==
    /\ WF_vars(\E how \in LaunchOutcomes : Main(how))
    /\ \A c \in Checkers : /\ WF_vars(Reports(c)) /\ WF_vars(PanelStep(c))
                           /\ WF_vars(said[c] \in ErrorCodes /\ Dies(c))

FairSpec == Spec /\ Fairness

-----------------------------------------------------------------------------
(* Safety.                                                                 *)

\* Nothing an old checker still does reaches the panel once there is a newer
\* one, even where launching failed half way.
OldCheckersSilent == ioSources \cup childSources \subseteq {launched}

\* The icon offers to give up an authorization only while current_status says
\* that there is one, whatever changed the status last.
IconHonest == icon = "shown" => status = STATUS_AUTHENTICATED

\* The icon is not there when there is no authorization and the checker that
\* runs now has not said that there is one: "If the pam_timestamp authorization
\* is active, ... an icon" (pam-panel-icon.1).
ShownMeansReported == icon = "shown" /\ ~held => heard = STATUS_AUTHENTICATED

\* launch_checker() leaves nothing of an old checker behind: "destroy all
\* state associated with the old one".  Its pipe is closed, and when it has
\* exited it is reaped.
OldStateDestroyed ==
    main = "loop" => \A c \in 1..launched - 1 :
                         c \notin fds /\ checker[c] # "exited"

-----------------------------------------------------------------------------
(* Liveness.                                                               *)

\* As long as the session lasts and launching a checker does not fail, the
\* panel comes to show what has become of the authorization, however many
\* checkers were lost in between, in whatever order the two reports of each
\* death came and whatever reading their pipes did.
StatusFollows ==
    <>[](main = "loop" /\ current # 0) =>
        /\ <>[]held => <>[](status = STATUS_AUTHENTICATED)
        /\ <>[]~held => <>[](status # STATUS_AUTHENTICATED)
=============================================================================
