------------------------------- MODULE UserInfo ------------------------------
(***************************************************************************)
(* userinfo.c, and userhelper_runv() as it uses it: one process that shows *)
(* a form and runs userhelper each time the user applies it, in a main     *)
(* loop inside the main loop.  The statics of userhelper-wrap.c (childin,  *)
(* childpid, childout_tag, resp) know one helper, the newest.              *)
(*                                                                         *)
(* The helpers are those of Account.tla, of which a front end sees that    *)
(* they tell and ask, wait for an answer to each message, and end.  Here   *)
(* each request is a batch that ends with UH_SYNC_POINT.                   *)
(***************************************************************************)
EXTENDS Gecos

CONSTANTS
    MaxRuns,      \* times the form is applied, at most
    MaxAsks,      \* messages of a helper, at most
    Gecoses,      \* the caller's pw_gecos
    OwnShells,    \* the caller's pw_shell
    Shells,       \* /etc/shells
    Edits,        \* what the user may enter: pairs of a field and a value
    OptionSets,   \* command lines: [x |-> -x given, new |-> values given]
    Habits        \* users: [dismiss |-> cancels dialogs that ask nothing,
                  \*         destroy |-> closes the form while a helper runs]

ASSUME RunsAssumption == MaxRuns \in Nat \ {0} /\ MaxAsks \in Nat
ASSUME ShellsAssumption == OwnShells \cup Shells \subseteq Texts
ASSUME HabitsAssumption ==
    Habits \subseteq [dismiss : BOOLEAN, destroy : BOOLEAN]
ASSUME GecosesAssumption == Gecoses \subseteq Seq(Texts)
ASSUME EditsAssumption == Edits \subseteq (Fields \cup {"shell"}) \X Texts
ASSUME OptionsAssumption ==
    OptionSets \subseteq
        [x : BOOLEAN, new : [Fields \cup {"shell"} -> Texts \cup {NoText}]]

VARIABLES
    db,        \* the caller's account record
    options,   \* the command line
    habit,     \* the user's habits
    form,      \* struct UserInfo and the entries of the window
    changedIn, \* fields the user has changed in it
    borrowed,  \* its shell is part of the command line
    window,    \* "none", "sensitive", "insensitive" or "destroyed"
    loops,     \* nested main loops and modal dialogs, innermost last
    runs,      \* helpers started; the newest is the one childpid, childin know
    tag,       \* childout_tag: the helper whose pipe it watches, or 0
    watched,   \* helpers whose pipe is watched
    dialog,    \* resp->dialog shows messages only
    helper,    \* what has become of each helper
    args,      \* the command line of each
    asks,      \* messages it may still send
    request,   \* what is in its pipe to the front end: "", "info", "question"
    replies,   \* what is in its pipe from the front end
    status,    \* its exit status
    told,      \* the outcome as the user knows it
    fate       \* how userinfo ended, or ""

formVars   == <<options, habit, form, changedIn, borrowed>>
frontVars  == <<window, loops, runs, tag, watched, dialog, told, fate>>
helperVars == <<helper, args, asks, request, replies, status>>
vars       == <<db, formVars, frontVars, helperVars>>

Runs     == 1..MaxRuns
Settable == Fields \cup {"shell"}
NoStatus == -1

\* ERR_CANCELED, of which the user is not told: the canceling was his.
Canceled == 2

-----------------------------------------------------------------------------
(* The form.                                                               *)

\* g_strsplit(",", 5): the first four of at most five parts.
Part(gecos, i) == IF i \in DOMAIN gecos THEN gecos[i] ELSE NoText

\* Mutant: the home phone is what follows it.
ParseUserinfoOffByOne(r) ==
    [f \in Settable |->
        IF f = "shell" THEN r.shell
        ELSE Part(r.gecos, FieldNumber(f) + (IF f = "home_phone" THEN 1 ELSE 0))]

\* parse_userinfo().
ParseUserinfo(r) ==
    [f \in Settable |-> IF f = "shell" THEN r.shell
                        ELSE Part(r.gecos, FieldNumber(f))]

\* parse_args(): what differs (safe_strcmp()) is taken over.
ParseArgs(p, new) ==
    [f \in Settable |->
        IF new[f] # NoText /\ new[f] # TextOf(p[f]) THEN new[f] ELSE p[f]]

\* on_ok_clicked() reads the entries, which are never NULL.
Entries(p) == [f \in Settable |-> TextOf(p[f])]

\* The record that chfn() saves for the arguments, see Account.tla.
Saved(r, new) ==
    LET p == GecosParse(r.gecos) IN
    [gecos |-> GecosAssemble([p EXCEPT !.fields =
                  [f \in Fields |-> IF new[f] # NoText THEN new[f]
                                    ELSE p.fields[f]]]),
     shell |-> new["shell"]]

\* chfn() refuses to change the shell from or to an invalid one.
MaySave(r, new) == r.shell \in Shells /\ new["shell"] \in Shells

-----------------------------------------------------------------------------
Loop(kind, of) == [kind |-> kind, of |-> of, quit |-> FALSE]

\* fork(), the pipes and the sources of userhelper_runv(), for arguments p.
Runv(p) ==
    LET new == runs + 1 IN
    /\ runs < MaxRuns
    /\ runs' = new /\ tag' = new /\ watched' = watched \cup {new}
    /\ helper' = [helper EXCEPT ![new] = "running"]
    /\ args' = [args EXCEPT ![new] = p]

\* main().  With -x the form is not shown, and nothing is run when nothing is
\* to be changed; userinfo then exits.
Init ==
    /\ db \in [gecos : Gecoses, shell : OwnShells]
    /\ options \in OptionSets /\ habit \in Habits
    /\ form = ParseArgs(ParseUserinfo(db), options.new)
    /\ changedIn = {f \in Settable : options.new[f] # NoText}
    /\ borrowed = (form["shell"] # db.shell)
    /\ window = "none" /\ loops = <<Loop("start", 0)>>
    /\ runs = 0 /\ tag = 0 /\ watched = {}
    /\ dialog = FALSE
    /\ helper = [h \in Runs |-> "unborn"]
    /\ args = [h \in Runs |-> form]
    /\ asks = [h \in Runs |-> MaxAsks]
    /\ request = [h \in Runs |-> ""]
    /\ replies = [h \in Runs |-> <<>>]
    /\ status = [h \in Runs |-> NoStatus]
    /\ told = [h \in Runs |-> NoStatus]
    /\ fate = ""

Top == loops[Len(loops)]
Pop == loops' = SubSeq(loops, 1, Len(loops) - 1)

Ends(how) == fate' = how /\ loops' = <<>>

Start ==
    /\ fate = "" /\ Top.kind = "start"
    /\ IF ~options.x
       THEN /\ window' = "sensitive"
            /\ loops' = <<Loop("main", 0)>>
            /\ UNCHANGED <<runs, tag, watched, helper, args, fate>>
       ELSE IF form = ParseUserinfo(db)
       THEN /\ Ends("returned")
            /\ UNCHANGED <<window, runs, tag, watched, helper, args>>
       ELSE /\ Runv(form)
            /\ loops' = <<Loop("run", 1)>>
            /\ UNCHANGED <<window, fate>>
    /\ UNCHANGED <<db, formVars, dialog, told, asks, request, replies, status>>

\* The form takes input, when nothing modal is in front of it.
AtForm == fate = "" /\ window = "sensitive" /\ Top.kind = "main"

\* An entry, or shell_changed(): it frees the old shell, which was not
\* allocated when it is an argument of -s.
Edit(f, t) ==
    /\ AtForm /\ runs < MaxRuns
    /\ <<f, t>> \in Edits
    /\ \/ /\ form' = [form EXCEPT ![f] = t]
          /\ changedIn' = changedIn \cup {f}
          /\ borrowed' = (borrowed /\ f # "shell")
          /\ UNCHANGED <<loops, fate>>
       \/ /\ borrowed /\ f = "shell" /\ Ends("signal")
          /\ UNCHANGED <<form, changedIn, borrowed>>
    /\ UNCHANGED <<db, options, habit, window, runs, tag, watched, dialog,
                   told, helperVars>>

\* Mutant: the form stays sensitive while the helper runs.
ApplySensitive ==
    /\ fate = "" /\ window = "sensitive" /\ Top.kind \in {"main", "run"}
    /\ form' = Entries(form)
    /\ Runv(Entries(form))
    /\ loops' = Append(loops, Loop("run", runs'))
    /\ UNCHANGED <<db, options, habit, changedIn, borrowed, window, dialog, told,
                   fate, asks, request, replies, status>>

\* on_ok_clicked(), as far as the gtk_main() in userhelper_runv().
Apply ==
    /\ AtForm
    /\ form' = Entries(form)
    /\ window' = "insensitive"
    /\ Runv(Entries(form))
    /\ loops' = Append(loops, Loop("run", runs'))
    /\ UNCHANGED <<db, options, habit, changedIn, borrowed, dialog, told, fate,
                   asks, request, replies, status>>

\* gtk_main_quit() ends the innermost gtk_main(), once what is nested in it
\* has returned.
Quit(stack) ==
    LET mains == {i \in DOMAIN stack : stack[i].kind \in {"main", "run"}} IN
    IF mains = {} THEN stack ELSE [stack EXCEPT ![Max(mains)].quit = TRUE]

\* The close button.
Close ==
    /\ AtForm
    /\ loops' = Quit(loops)
    /\ UNCHANGED <<db, formVars, helperVars, window, runs, tag, watched, dialog,
                   told, fate>>

\* The window manager closes the form, sensitive or not.
DestroyForm ==
    /\ fate = "" /\ window \in {"sensitive", "insensitive"}
    /\ habit.destroy \/ window = "sensitive"
    /\ Top.kind \in {"main", "run"}
    /\ window' = "destroyed"
    /\ loops' = Quit(loops)
    /\ UNCHANGED <<db, formVars, helperVars, runs, tag, watched, dialog, told,
                   fate>>

\* The innermost loop was told to quit: main() returns, or userhelper_runv()
\* does and on_ok_clicked() goes on with the form, which may be gone.
Return ==
    /\ fate = "" /\ Top.kind \in {"main", "run"} /\ Top.quit
    /\ IF Len(loops) = 1
       THEN Ends("returned") /\ UNCHANGED window
       ELSE \/ /\ Pop
               /\ window' = IF window = "destroyed" THEN window ELSE "sensitive"
               /\ UNCHANGED fate
            \/ /\ window = "destroyed" /\ Ends("signal")
               /\ UNCHANGED window
    /\ UNCHANGED <<db, formVars, helperVars, runs, tag, watched, dialog, told>>

-----------------------------------------------------------------------------
(* The helpers.                                                            *)

\* A message or a question.
Asks(h, kind) ==
    /\ helper[h] = "running" /\ asks[h] > 0
    /\ helper' = [helper EXCEPT ![h] = "waiting"]
    /\ asks' = [asks EXCEPT ![h] = @ - 1]
    /\ request' = [request EXCEPT ![h] = kind]
    /\ UNCHANGED <<db, formVars, frontVars, args, replies, status>>

\* It goes on with an answer, or gives up after UH_CANCEL.
ReadsReply(h) ==
    /\ helper[h] = "waiting" /\ replies[h] # <<>>
    /\ replies' = [replies EXCEPT ![h] = Tail(@)]
    /\ IF Head(replies[h]).cancel
       THEN /\ helper' = [helper EXCEPT ![h] = "exited"]
            /\ status' = [status EXCEPT ![h] = Canceled]
       ELSE /\ helper' = [helper EXCEPT ![h] = "running"]
            /\ UNCHANGED status
    /\ UNCHANGED <<db, formVars, frontVars, args, asks, request>>

\* It ends, having changed the account or not.
Saves(h) ==
    /\ helper[h] = "running"
    /\ MaySave(db, args[h])
    /\ db' = Saved(db, args[h])
    /\ helper' = [helper EXCEPT ![h] = "exited"]
    /\ status' = [status EXCEPT ![h] = 0]
    /\ UNCHANGED <<formVars, frontVars, args, asks, request, replies>>

\* It is refused, fails, or is killed, even while it waits.
Fails(h) ==
    /\ helper[h] \in {"running", "waiting"}
    /\ helper' = [helper EXCEPT ![h] = "exited"]
    /\ status' = [status EXCEPT ![h] = 1]
    /\ UNCHANGED <<db, formVars, frontVars, args, asks, request, replies>>

-----------------------------------------------------------------------------
(* The front end of the helpers.                                           *)

Reply(h, cancel) == [to |-> h, cancel |-> cancel]

\* The helper that the reading end of childin belongs to.
Reader == runs

\* userhelper_write_childin(), for what helper h has sent.
WriteReply(h, cancel) ==
    replies' = [replies EXCEPT ![Reader] = Append(@, Reply(h, cancel))]

ReaderGone == helper[Reader] \in {"exited", "reaped"}

\* A main loop, or that of a modal dialog, can dispatch the watch on h's pipe.
\* While a question of h is up that watch is being dispatched, and is not
\* dispatched again; the watch on h's process is another source.
Dispatchable(h) ==
    /\ fate = ""
    /\ \A i \in DOMAIN loops : loops[i].kind = "question" => loops[i].of # h

Asking == \E i \in DOMAIN loops : loops[i].kind = "question"

\* userhelper_handle_childout(), at UH_SYNC_POINT.  While a question is up
\* its prompts are counted with what another helper sends ("Protocol error").
Reads(h) ==
    /\ Dispatchable(h)
    /\ h \in watched /\ request[h] # "" /\ helper[h] = "waiting"
    /\ request' = [request EXCEPT ![h] = ""]
    /\ IF Asking
       THEN Ends("exit") /\ UNCHANGED <<dialog, replies>>
       ELSE IF request[h] = "question"
       THEN /\ dialog' = FALSE
            /\ loops' = Append(loops, Loop("question", h))
            /\ UNCHANGED <<replies, fate>>
       ELSE /\ dialog' = TRUE
            /\ IF ReaderGone THEN Ends("signal") /\ UNCHANGED replies
               ELSE WriteReply(h, FALSE) /\ UNCHANGED <<loops, fate>>
    /\ UNCHANGED <<db, formVars, window, runs, tag, watched, told, helper, args,
                   asks, status>>

\* The question is answered or canceled.
Answer(cancel) ==
    /\ fate = "" /\ Top.kind = "question"
    /\ IF ReaderGone THEN Ends("signal") /\ UNCHANGED replies
       ELSE WriteReply(Top.of, cancel) /\ Pop /\ UNCHANGED fate
    /\ UNCHANGED <<db, formVars, window, runs, tag, watched, dialog, told,
                   helper, args, asks, request, status>>

\* Its window is closed.
CloseQuestion ==
    /\ fate = "" /\ Top.kind = "question"
    /\ Ends("exit")
    /\ UNCHANGED <<db, formVars, helperVars, window, runs, tag, watched, dialog,
                   told>>

\* userhelper_dialog_response(): a dialog that only tells is canceled.
DismissMessages ==
    /\ habit.dismiss /\ fate = "" /\ dialog
    /\ Top.kind \in {"main", "run"}
    /\ loops' = Quit(loops)
    /\ UNCHANGED <<db, formVars, helperVars, window, runs, tag, watched, dialog,
                   told, fate>>

\* The helper has closed its pipe: whatever is in it is not read.
HangUp(h) ==
    /\ Dispatchable(h)
    /\ h \in watched /\ helper[h] \in {"exited", "reaped"}
    /\ watched' = watched \ {h}
    /\ tag' = 0
    /\ UNCHANGED <<db, formVars, helperVars, window, loops, runs, dialog, told,
                   fate>>

\* Mutant: the loop is not left.
ChildExitedStays(h) ==
    /\ fate = "" /\ helper[h] = "exited"
    /\ helper' = [helper EXCEPT ![h] = "reaped"]
    /\ IF h = runs
       THEN /\ watched' = watched \ {tag} /\ tag' = 0
            /\ told' = [told EXCEPT ![h] = status[h]]
       ELSE UNCHANGED <<watched, tag, told>>
    /\ UNCHANGED <<db, formVars, window, loops, runs, dialog, fate, args, asks,
                   request, replies, status>>

\* Mutant: the outcome is taken for that of a wrapped program.
ChildExitedSilently(h) ==
    /\ fate = "" /\ helper[h] = "exited"
    /\ helper' = [helper EXCEPT ![h] = "reaped"]
    /\ IF h = runs
       THEN watched' = watched \ {tag} /\ tag' = 0 /\ loops' = Quit(loops)
       ELSE UNCHANGED <<watched, tag, loops>>
    /\ UNCHANGED <<db, formVars, window, runs, dialog, told, fate, args, asks,
                   request, replies, status>>

\* userhelper_child_exited(): the newest helper's outcome is shown, in a modal
\* dialog, above whatever is up, a question of its own included; the others
\* are only reaped.
ChildExited(h) ==
    /\ fate = "" /\ helper[h] = "exited"
    /\ helper' = [helper EXCEPT ![h] = "reaped"]
    /\ IF h = runs
       THEN /\ watched' = watched \ {tag} /\ tag' = 0
            /\ told' = [told EXCEPT ![h] = status[h]]
            /\ loops' = IF status[h] = Canceled THEN Quit(loops)
                        ELSE Append(loops, Loop("result", h))
       ELSE UNCHANGED <<watched, tag, told, loops>>
    /\ UNCHANGED <<db, formVars, window, runs, dialog, fate, args, asks,
                   request, replies, status>>

\* The outcome was read: userhelper_main_quit().  A question below it stays,
\* and is in front of the loop that is to end.
ResultRead ==
    /\ fate = "" /\ Top.kind = "result"
    /\ loops' = Quit(SubSeq(loops, 1, Len(loops) - 1))
    /\ UNCHANGED <<db, formVars, helperVars, window, runs, tag, watched, dialog,
                   told, fate>>

-----------------------------------------------------------------------------
UserStep ==
    \/ \E e \in Edits : Edit(e[1], e[2])
    \/ Apply
    \/ Close
    \/ DestroyForm
    \/ DismissMessages
    \/ CloseQuestion

Responds == ResultRead \/ \E cancel \in BOOLEAN : Answer(cancel)

HelperStep(h) ==
    \/ \E kind \in {"info", "question"} : Asks(h, kind)
    \/ ReadsReply(h)
    \/ Saves(h)
    \/ Fails(h)

FrontStep(h) == Reads(h) \/ HangUp(h) \/ ChildExited(h)

\* userinfo has ended.
Over == fate # "" /\ UNCHANGED vars

Next ==
    \/ Start
    \/ UserStep
    \/ Responds
    \/ Return
    \/ \E h \in Runs : HelperStep(h) \/ FrontStep(h)
    \/ Over

Spec == Init /\ [][Next]_vars

\* The main loop dispatches, helpers end, and the user reads and answers what
\* is in front of him.
Fairness ==
    /\ WF_vars(Return) /\ WF_vars(Responds)
    /\ \A h \in Runs : /\ WF_vars(ReadsReply(h) \/ Saves(h) \/ Fails(h))
                       /\ WF_vars(Reads(h)) /\ WF_vars(HangUp(h))
                       /\ WF_vars(ChildExited(h))

FairSpec == Spec /\ Fairness

-----------------------------------------------------------------------------
(* Safety.                                                                 *)

\* What the user answers goes to the helper that asked: "Answer the child's
\* questions" (userhelper_handle_childout()).
AnswersGoToAsker ==
    \A h \in Runs : \A i \in DOMAIN replies[h] : replies[h][i].to = h

\* Unless a helper was left running behind a dialog that was dismissed.
AnswersArrive == ~habit.dismiss => AnswersGoToAsker

\* When the form comes back its helpers are at an end, and the user knows what
\* became of his changes, as it is: he is told even when the helper dies under
\* its own question (userhelper_child_exited() in the question's main loop).
\* Unless he dismisses dialogs: that brings the form back earlier, and what
\* becomes of an older helper is not told.
OutcomeTold ==
    ~habit.dismiss =>
        \A h \in 1..runs : /\ AtForm => helper[h] = "reaped"
                           /\ helper[h] = "reaped" => told[h] = status[h]

\* Field f of a record.
Shown(r, f) == TextOf(GecosParse(r.gecos).fields[f])

\* A helper run by userinfo changes what the user has changed in the form and
\* nothing else, although it is given every field: taking the GECOS string
\* apart in parse_userinfo() agrees with gecos_parse(), entries that were
\* empty stay empty, and what follows the four fields stays.
ChangesOnlyEdits ==
    [][\A h \in Runs : status'[h] = 0 /\ status[h] # 0 =>
          /\ \A f \in Fields \ changedIn : Shown(db', f) = Shown(db, f)
          /\ "shell" \notin changedIn => db'.shell = db.shell
          /\ GecosParse(db'.gecos).site_info =
                Stripped(GecosParse(db.gecos).site_info)]_vars

\* "userinfo ... [allows] users to conveniently change their finger
\* information" (userinfo.1): a change that leaves the shell alone is not
\* refused because of the shell.
FingerChangesAllowed ==
    \A h \in 1..runs : args[h]["shell"] = db.shell => MaySave(db, args[h])

-----------------------------------------------------------------------------
(* Liveness.                                                               *)

\* Every run ends, whatever its helper does and the user dismisses: the form
\* comes back if it is still there, or the program ends.
RunsEnd == window = "insensitive" ~> (AtForm \/ window = "destroyed" \/ fate # "")

\* Closing the form ends the program: "destroy" is connected with
\* userhelper_main_quit(), and main() returns after its gtk_main().
ClosedMeansOver == window = "destroyed" ~> fate # ""
=============================================================================
