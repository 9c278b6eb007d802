--------------------------- MODULE WrapRefinement ---------------------------
(***************************************************************************)
(* The mapping under which Wrap implements WrapContract, as long as nobody *)
(* kills one of the processes from outside.                                *)
(***************************************************************************)
EXTENDS Wrap

\* The process that becomes the program.
Runner == IF ran = "root" /\ conf.session THEN "child" ELSE "helper"

Run == CASE ran = "no" -> "no"
         [] ran # "no" /\ pc[Runner] = "program" -> "running"
         [] OTHER -> "over"

Ended == IF Run = "over" THEN exitcode[Runner] ELSE 0

\* The status of the helper, and whether it is to be passed on.
HelperOutcome ==
    IF pc["helper"] = "dead"
    THEN [direct |-> ProgramsStatus, code |-> exitcode["helper"]]
    ELSE [direct |-> FALSE, code |-> -999]

\* What the front end has made of it.
Reported ==
    CASE reaped /\ ppc = "gone" ->
            [how |-> "told", exit |-> exitStatus, explained |-> explained]
      [] ~reaped /\ ppc = "gone" ->
            [how |-> "abandoned", exit |-> 0, explained |-> -1]
      [] OTHER ->
            [how |-> "pending", exit |-> 0, explained |-> -1]

Contract ==
    INSTANCE WrapContract WITH
        gui     <- conf.gui,
        run     <- Run,
        ended   <- Ended,
        outcome <- HelperOutcome,
        report  <- Reported

\* consolehelper keeps its promise (userhelper-wrap.c and wrap() together):
\* the program is run at most once, its status is passed on, any other
\* outcome is explained, and every outcome is reported.
KeepsContract == Contract!FairSpec
=============================================================================
