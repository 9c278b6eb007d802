---------------------------- MODULE WrapContract ----------------------------
(***************************************************************************)
(* What consolehelper promises, without processes or pipes: at most one    *)
(* run of the program, one outcome, and a truthful account of it.  Either  *)
(* the program's exit status becomes consolehelper's own, or consolehelper *)
(* exits with 0 after explaining to the user why the program did not run   *)
(* (or what went wrong after it).  The user may walk away before the       *)
(* program runs, which is then never run.                                  *)
(***************************************************************************)
EXTENDS UhMessages

VARIABLES
    gui,       \* questions are asked in dialogs, not on the terminal
    run,       \* "no", "running" or "over"
    ended,     \* how the program ended (negative: by signal)
    outcome,   \* how the helper ended, once it has
    report     \* what became of it

vars == <<gui, run, ended, outcome, report>>

-----------------------------------------------------------------------------
None == [direct |-> FALSE, code |-> -999]

\* direct: the status is to be passed on as it is.
Outcome(direct, code) == [direct |-> direct, code |-> code]

Pending   == [how |-> "pending", exit |-> 0, explained |-> -1]
Abandoned == [how |-> "abandoned", exit |-> 0, explained |-> -1]

Explained(status) == IF ExitMessageType(status) = "UHM_ERROR" THEN status
                                                              ELSE -1

\* A process that a signal ended has no status of its own.
Status(code) == IF code < 0 THEN ERR_UNK_ERROR ELSE code

Told(o) ==
    IF o.direct
    THEN [how |-> "told", exit |-> Status(o.code), explained |-> -1]
    ELSE [how |-> "told", exit |-> 0, explained |-> Explained(Status(o.code))]

\* The helper's status for a program that ended so: signals are either left
\* to the front end or turned into 128+n.
Passed(code) == IF code < 0 THEN {code, 128 - code} ELSE {code}

Codes == ExitStatuses \cup {-9, -13}

-----------------------------------------------------------------------------
Init ==
    /\ gui \in BOOLEAN
    /\ run = "no"
    /\ ended = 0
    /\ outcome = None
    /\ report = Pending

Start ==
    /\ run = "no" /\ outcome = None /\ report = Pending
    /\ run' = "running"
    /\ UNCHANGED <<gui, ended, outcome, report>>

ProgramEnds ==
    /\ run = "running"
    /\ run' = "over"
    /\ ended' \in Codes
    /\ outcome' \in {outcome, Outcome(TRUE, ended')}
    /\ UNCHANGED <<gui, report>>

HelperEnds ==
    /\ outcome = None /\ run # "running"
    /\ outcome' \in
         UNION {{Outcome(FALSE, c) : c \in Codes},
                IF gui THEN {} ELSE {Outcome(TRUE, c) : c \in Codes},
                IF run = "over" THEN {Outcome(TRUE, c) : c \in Passed(ended)}
                                ELSE {}}
    /\ UNCHANGED <<gui, run, ended, report>>

Report ==
    /\ outcome # None /\ report = Pending
    /\ report' = Told(outcome)
    /\ UNCHANGED <<gui, run, ended, outcome>>

\* The user closes the dialog, or the front end gives up.
Abandon ==
    /\ run # "running" /\ report = Pending
    /\ report' = Abandoned
    /\ UNCHANGED <<gui, run, ended, outcome>>

Next == Start \/ ProgramEnds \/ HelperEnds \/ Report \/ Abandon

Fairness == WF_vars(Start \/ HelperEnds) /\ WF_vars(Report)

Spec == Init /\ [][Next]_vars

FairSpec == Spec /\ Fairness
=============================================================================
