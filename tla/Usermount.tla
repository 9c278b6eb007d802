------------------------------ MODULE Usermount ------------------------------
(***************************************************************************)
(* usermount.c: a window with the file systems of /etc/fstab that the user *)
(* may mount, and with a button to mount or unmount and one to format the  *)
(* selected one; and userformat, which formats a device and ends.  What is *)
(* mounted is looked at when the program starts, when a row is selected    *)
(* and after a mount command, while other programs mount and unmount.      *)
(***************************************************************************)
EXTENDS Integers, Sequences, FiniteSets

CONSTANTS
    Fstabs,      \* what /etc/fstab may say
    Owned,       \* devices that belong to the user
    WritableDevs,\* devices that the user may write to
    Floppies,    \* devices that fdformat is for
    Programs,    \* files beside mkfs
    Superusers,  \* whether the user is root: the possibilities
    Arguments,   \* devices that userformat is called with
    MaxOthers    \* times that other programs mount or unmount, at most

\* dir: a mount point that is fine, not there, or none; users: the options
\* "pamconsole", "user" or "users"; owner: the option "owner".
Entry == [dir : {"fine", "missing", "bogus"}, dev : STRING, type : STRING,
          users : BOOLEAN, owner : BOOLEAN]

ASSUME EntriesAssumption == Fstabs \subseteq Seq(Entry)
ASSUME RootAssumption    == Superusers \subseteq BOOLEAN
ASSUME OthersAssumption  == MaxOthers \in Nat

VARIABLES
    fstab,        \* the entries of /etc/fstab
    superuser,    \* geteuid() is 0
    program,      \* "usermount", or the argument of userformat
    mounted,      \* entries whose directory has a file system mounted
    others,       \* times that other programs may still act
    pc,           \* "start", "window" (gtk_main), "ask" (the dialog of format),
                  \* "fdformat", "mkfs" (while it runs) or "over"
    box,          \* a message is up
    infos,        \* the list of struct mountinfo, by entry
    row,          \* the selected entry, or 0
    formatButton, \* format_button is sensitive
    sensitive,    \* so is the window
    quit,         \* gtk_main_quit() was called
    command,      \* the file system mkfs makes
    raced         \* entries mounted or unmounted by others since looked at

system == <<fstab, superuser, program, mounted, others>>
window == <<infos, row, formatButton, sensitive, quit>>
vars   == <<system, pc, box, window, command, raced>>

Entries == DOMAIN fstab

Init ==
    /\ fstab \in Fstabs
    /\ superuser \in Superusers
    /\ program \in {"usermount"} \cup Arguments
    /\ mounted \in SUBSET {e \in Entries : fstab[e].dir = "fine"}
    /\ others = MaxOthers
    /\ pc = "start" /\ box = FALSE
    /\ infos = <<>> /\ row = 0
    /\ formatButton = FALSE /\ sensitive = TRUE /\ quit = FALSE
    /\ command = "none" /\ raced = {}

-----------------------------------------------------------------------------
(* build_mountinfo_list().                                                 *)

Usable(e) ==
    \/ superuser
    \/ fstab[e].users
    \/ fstab[e].owner /\ fstab[e].dev \in Owned

Listed == {e \in Entries : /\ Usable(e) /\ fstab[e].type # "swap"
                           /\ fstab[e].dir = "fine"}

\* The file looked for.  g_strconcat() does not format.
MkfsPath(type) == "/mkfs.%s" \o type

Writable(e) ==
    /\ fstab[e].dev \in WritableDevs \/ superuser
    /\ fstab[e].type = "auto" \/ MkfsPath(fstab[e].type) \in Programs

MountinfoList ==
    [e \in Listed |-> [mounted |-> e \in mounted, writable |-> Writable(e)]]

\* format_one_device(): the first in the list, the last in /etc/fstab.
Wanted == {e \in Listed : fstab[e].dev = program}
Found  == CHOOSE e \in Wanted : \A d \in Wanted : d <= e

-----------------------------------------------------------------------------
\* main() of usermount: the window, or a message and the end when there is
\* nothing to mount.
StartWindow ==
    /\ pc = "start" /\ program = "usermount"
    /\ infos' = MountinfoList
    /\ pc' = IF Listed = {} THEN "over" ELSE "window"
    /\ box' = (Listed = {})
    /\ UNCHANGED <<system, row, formatButton, sensitive, quit, command, raced>>

\* main() of userformat.
StartFormat ==
    /\ pc = "start" /\ program # "usermount"
    /\ infos' = MountinfoList
    /\ IF Wanted # {} /\ infos'[Found].writable /\ ~infos'[Found].mounted
       THEN pc' = "ask" /\ row' = Found /\ UNCHANGED box
       ELSE pc' = "over" /\ box' = TRUE /\ UNCHANGED row
    /\ quit' = TRUE
    /\ UNCHANGED <<system, formatButton, sensitive, command, raced>>

\* changed_callback(), with entry e selected.
Changed(e) ==
    /\ row' = e
    /\ infos' = IF e = 0 THEN infos
                ELSE [infos EXCEPT ![e].mounted = e \in mounted']
    /\ formatButton' = IF e = 0 THEN FALSE
                       ELSE infos'[e].writable /\ ~infos'[e].mounted
    /\ raced' = raced \ {e}

\* The user can reach the window.
Iterating == pc \in {"window", "fdformat", "mkfs"} /\ ~box
Reachable == Iterating /\ sensitive /\ program = "usermount"

Select(e) ==
    /\ Reachable
    /\ e \in Listed \cup {0} /\ e # row
    /\ UNCHANGED <<system, pc, box, sensitive, quit, command>>
    /\ Changed(e)

-----------------------------------------------------------------------------
(* response_callback(): mounting.                                          *)

\* mount or umount does it; only one that is not mounted can be mounted.
Does(e, isUmount) ==
    /\ isUmount = (e \in mounted)
    /\ mounted' = IF isUmount THEN mounted \ {e} ELSE mounted \cup {e}

\* Mutant: the buttons are left as they were.
MountQuietlyNoRefresh ==
    /\ Reachable /\ row # 0
    /\ Does(row, infos[row].mounted) \/ UNCHANGED mounted
    /\ raced' = raced \ {row}
    /\ UNCHANGED <<fstab, superuser, program, others, pc, box, window, command>>

\* The command said nothing: it did it, or could not be run.
MountQuietly ==
    /\ Reachable /\ row # 0
    /\ Does(row, infos[row].mounted) \/ UNCHANGED mounted
    /\ Changed(row)
    /\ UNCHANGED <<fstab, superuser, program, others, pc, box, sensitive, quit,
                   command>>

\* It failed, or did it with a warning: a message, and only then a refresh.
MountWithMessages ==
    /\ Reachable /\ row # 0
    /\ Does(row, infos[row].mounted) \/ UNCHANGED mounted
    /\ box' = TRUE
    /\ raced' = IF mounted' = mounted THEN raced ELSE raced \cup {row}
    /\ UNCHANGED <<fstab, superuser, program, others, pc, window, command>>

CloseBox ==
    /\ box
    /\ box' = FALSE
    /\ UNCHANGED <<system, pc, sensitive, quit, command>>
    /\ IF pc = "over" THEN UNCHANGED <<infos, row, formatButton, raced>>
       ELSE Changed(row)

-----------------------------------------------------------------------------
(* format().                                                               *)

\* Mutant: the window stays sensitive.
PressFormatSensitive ==
    /\ Reachable /\ pc = "window" /\ formatButton
    /\ pc' = "ask"
    /\ UNCHANGED <<system, box, window, command, raced>>

PressFormat ==
    /\ Reachable /\ pc = "window" /\ formatButton
    /\ pc' = "ask" /\ sensitive' = FALSE
    /\ UNCHANGED <<system, box, infos, row, formatButton, quit, command,
                   raced>>

\* format() returns, to a program that may have been told to end.
FormatReturns ==
    /\ pc' = IF quit THEN "over" ELSE "window"
    /\ sensitive' = TRUE
    /\ command' = "none"
    /\ UNCHANGED <<system, box, infos, row, formatButton, quit, raced>>

\* Mutant: the window is not given back.
SayNoReturns ==
    /\ pc = "ask"
    /\ pc' = IF quit THEN "over" ELSE "window"
    /\ UNCHANGED <<system, box, window, command, raced>>

SayNo == pc = "ask" /\ FormatReturns

\* The file systems that may be chosen for one of the type "auto": without any
\* the type remains "auto".
Choices(e) ==
    IF fstab[e].type # "auto" THEN {fstab[e].type}
    ELSE IF Programs = {} THEN {"auto"} ELSE Programs

\* With a low-level format or without it; mkfs cannot be spawned, or is.
SayYes(type) ==
    /\ pc = "ask"
    /\ type \in Choices(row)
    /\ \/ /\ \/ pc' = "mkfs"
             \/ pc' = "fdformat" /\ fstab[row].dev \in Floppies
          /\ command' = type
          /\ UNCHANGED <<system, box, window, raced>>
       \/ FormatReturns

\* fdformat ends, and it does not matter how.
FdformatEnds ==
    /\ pc = "fdformat" /\ ~box
    /\ \/ pc' = "mkfs" /\ UNCHANGED <<system, box, window, command, raced>>
       \/ FormatReturns

MkfsEnds == pc = "mkfs" /\ ~box /\ FormatReturns

\* The Close button, or the window manager, which gets through while no dialog
\* is up and quits what is behind the format.
Close ==
    /\ Iterating /\ program = "usermount" /\ ~quit
    /\ quit' = TRUE
    /\ pc' = IF pc = "window" THEN "over" ELSE pc
    /\ UNCHANGED <<system, box, infos, row, formatButton, sensitive, command,
                   raced>>

-----------------------------------------------------------------------------
\* Another program mounts or unmounts.
Other(e) ==
    /\ others > 0 /\ pc # "over"
    /\ fstab[e].dir = "fine"
    /\ others' = others - 1
    /\ Does(e, e \in mounted)
    /\ raced' = raced \cup {e}
    /\ UNCHANGED <<fstab, superuser, program, pc, box, window, command>>

Over == pc = "over" /\ ~box /\ UNCHANGED vars

Start == StartWindow \/ StartFormat

Next ==
    \/ Start
    \/ \E e \in Entries \cup {0} : Select(e)
    \/ MountQuietly
    \/ MountWithMessages
    \/ CloseBox
    \/ PressFormat
    \/ SayNo
    \/ row # 0 /\ \E type \in Choices(row) : SayYes(type)
    \/ FdformatEnds
    \/ MkfsEnds
    \/ Close
    \/ \E e \in Entries : Other(e)
    \/ Over

Spec == Init /\ [][Next]_vars

\* Programs that were started end, and the user answers what he is asked.
Fairness ==
    /\ WF_vars(Start) /\ WF_vars(CloseBox)
    /\ WF_vars(SayNo \/ (row # 0 /\ \E type \in Choices(row) : SayYes(type)))
    /\ WF_vars(FdformatEnds) /\ WF_vars(MkfsEnds)

FairSpec == Spec /\ Fairness

-----------------------------------------------------------------------------
(* Safety.                                                                 *)

\* What the buttons offer for the selected row is what can be done with it,
\* whatever was done with it or others before, unless another program did it
\* since (changed_callback()).
ButtonsTruthful ==
    Reachable /\ row \notin raced \cup {0} =>
        /\ infos[row].mounted = (row \in mounted)
        /\ formatButton => row \notin mounted

\* From the question until mkfs is done, the row that is formatted is not
\* mounted where /etc/fstab says, unless another program mounted it: the
\* button, the question and the processes that follow speak of the same state
\* (response_callback(), format_one_device()).
FormatsUnmounted ==
    pc \in {"ask", "fdformat", "mkfs"} => row \in raced \/ row \notin mounted

\* "If the user has the appropriate permissions for the device, the Format
\* button will be active" for "a new filesystem of the type listed"
\* (usermount.1), when "we have the software to format it".
FormatOffered ==
    Reachable /\ row \notin mounted \cup raced \cup {0} =>
        (   /\ fstab[row].dev \in WritableDevs
            /\ "/mkfs." \o fstab[row].type \in Programs
         => formatButton)

\* "If a device is already mounted, the format button is inactive for all
\* entries that share the same device" (usermount.1).
FormatInactive ==
    Reachable /\ formatButton =>
        \A e \in mounted \ raced : fstab[e].dev # fstab[row].dev

-----------------------------------------------------------------------------
(* Liveness.                                                               *)

\* The window always becomes usable again, or the program ends: whether the
\* user agrees or not, closes the window during the format, and whatever the
\* programs that were started do.
WindowComesBack == []<>((pc = "window" /\ sensitive) \/ (pc = "over" /\ ~box))
=============================================================================
