------------------------------- MODULE Account -------------------------------
(***************************************************************************)
(* userhelper changing an account: main(), passwd() and chfn() of          *)
(* userhelper.c, for several helpers that run at the same time on the same *)
(* records, beside an administrator who uses other tools.  A helper reads  *)
(* the record once, after the user has authenticated, and later writes all *)
(* of it back.                                                             *)
(*                                                                         *)
(* PAM and libuser are the environment: their calls may fail, and ask the  *)
(* user, who may cancel.                                                   *)
(***************************************************************************)
EXTENDS Gecos, UhMessages

CONSTANTS
    Helpers,        \* running userhelper processes
    Users,          \* accounts that exist
    Calls,          \* command lines the helpers may be started with
    Records,        \* what an account record may be at first
    Repairs,        \* what the administrator may make of a record
    MaxRepairs,     \* how often, at most
    BadTexts,       \* with a colon, comma, equal sign or control character
    BadShells,      \* with a colon or newline
    Shells,         \* /etc/shells
    PamErrors,      \* failures a PAM call may return
    PamHonoursConv  \* a PAM call whose conversation failed does not succeed

\* Who called, with -c or not, the new values given, and the users named.
Call == [by: Users, c: BOOLEAN, names: Seq(Users \cup {"nobody"}),
         new: [Fields \cup {"shell"} -> Texts \cup {NoText}]]

Record == [gecos: Seq(Texts),                         \* LU_GECOS
           attrs: [Fields -> Texts \cup {NoText}],    \* LU_COMMONNAME, ...
           shell: Texts \cup {NoText}]                \* LU_LOGINSHELL

ASSUME UsersAssumption  == "root" \in Users /\ "nobody" \notin Users
ASSUME CallsAssumption  == Calls \subseteq [Helpers -> Call]
ASSUME RecordAssumption == Records \cup Repairs \subseteq Record
ASSUME BoundAssumption  == MaxRepairs \in Nat
ASSUME TextAssumption   == BadTexts \cup BadShells \cup Shells \subseteq Texts
ASSUME PamAssumption    == PamErrors \subseteq PamFailures
ASSUME FlagAssumption   == PamHonoursConv \in BOOLEAN

VARIABLES
    db,        \* the account records
    password,  \* how often each password was changed
    repairs,   \* changes the administrator may still make
    call,      \* the command line of each helper
    pc,        \* where it is
    target,    \* user_name, once main() has settled it
    tries,     \* tryagain
    canceled,  \* data->canceled
    proven,    \* PAM calls that succeeded in each helper
    found,     \* the record that lu_user_lookup_name() returned
    ent,       \* the record that is about to be saved
    raced,     \* somebody has written to the account since the lookup
    status,    \* exit status, negative for a signal, or NoStatus
    changed,   \* the helper has changed the account
    grumbled   \* a library call that changed it reported an error all the same

private  == <<call, target>>
outside  == <<db, password, repairs>>
auth     == <<tries, canceled, proven>>
edited   == <<found, ent, raced>>
verdict  == <<status, changed, grumbled>>
vars     == <<outside, private, pc, auth, edited, verdict>>

SIGABRT  == 6
SIGSEGV  == 11
NoStatus == -1

TypeOK ==
    /\ db \in [Users -> Record]
    /\ password \in [Users -> Nat]
    /\ repairs \in 0..MaxRepairs
    /\ call \in Calls
    /\ pc \in [Helpers -> {"main", "passwd", "chauthtok", "chfn",
                           "authenticate", "acct_mgmt", "lu_start", "lookup",
                           "modify", "dead"}]
    /\ target \in [Helpers -> Users]
    /\ tries \in [Helpers -> 0..3]
    /\ canceled \in [Helpers -> BOOLEAN]
    /\ proven \in [Helpers -> SUBSET {"authenticate", "acct_mgmt", "chauthtok"}]
    /\ found \in [Helpers -> Record]
    /\ ent \in [Helpers -> Record]
    /\ raced \in [Helpers -> BOOLEAN]
    /\ status \in [Helpers -> ExitStatuses \cup {NoStatus, -SIGABRT, -SIGSEGV}]
    /\ changed \in [Helpers -> BOOLEAN]
    /\ grumbled \in [Helpers -> BOOLEAN]

Init ==
    /\ db \in [Users -> Records]
    /\ password = [u \in Users |-> 0]
    /\ repairs = MaxRepairs
    /\ call \in Calls
    /\ pc = [h \in Helpers |-> "main"]
    /\ target = [h \in Helpers |-> call[h].by]
    /\ tries = [h \in Helpers |-> 3]
    /\ canceled = [h \in Helpers |-> FALSE]
    /\ proven = [h \in Helpers |-> {}]
    /\ found = [h \in Helpers |-> db[call[h].by]]
    /\ ent = found
    /\ raced = [h \in Helpers |-> FALSE]
    /\ status = [h \in Helpers |-> NoStatus]
    /\ changed = [h \in Helpers |-> FALSE]
    /\ grumbled = [h \in Helpers |-> FALSE]

-----------------------------------------------------------------------------
At(h, place)   == pc[h] = place
Goto(h, place) == pc' = [pc EXCEPT ![h] = place] /\ UNCHANGED status

\* exit(), die(), abort().
Exit(h, s) ==
    /\ pc' = [pc EXCEPT ![h] = "dead"]
    /\ status' = [status EXCEPT ![h] = s]

Result(r, h) == FailExit(canceled'[h], r)

\* Somebody writes record r: whoever has looked it up before holds a record
\* of the past.
Write(u, r) ==
    /\ db' = [db EXCEPT ![u] = r]
    /\ raced' = [h \in Helpers |-> raced[h] \/ (At(h, "modify") /\ target[h] = u)]

-----------------------------------------------------------------------------
(* main().                                                                 *)

Given(c)   == {f \in Fields \cup {"shell"} : c.new[f] # NoText}
Invalid(c) == c.c /\ Given(c) # {}

\* Not setuid, an unknown option, pipes that are not there, no invoking user.
BadCall(h) ==
    /\ At(h, "main")
    /\ \E s \in {ERR_NO_RIGHTS, ERR_INVALID_CALL, ERR_UNK_ERROR} : Exit(h, s)
    /\ UNCHANGED <<outside, private, auth, edited, changed, grumbled>>

\* Mutant: anybody may name a user.
AnyoneNames(c) == Len(c.names) = 1

\* Only root may name the user whose account is changed.
NamesUser(c) == c.by = "root" /\ Len(c.names) = 1

\* Without any option that says what to do an assertion fails.
Main(h) ==
    LET c     == call[h]
        named == NamesUser(c)
        user  == IF named THEN c.names[1] ELSE c.by IN
    /\ At(h, "main")
    /\ IF Invalid(c) \/ (c.names # <<>> /\ ~named)
       THEN Exit(h, ERR_INVALID_CALL) /\ UNCHANGED target
       ELSE IF user \notin Users
       THEN Exit(h, ERR_NO_USER) /\ UNCHANGED target
       ELSE /\ target' = [target EXCEPT ![h] = user]
            /\ IF ~c.c /\ Given(c) = {} THEN Exit(h, -SIGABRT)
               ELSE Goto(h, IF c.c THEN "passwd" ELSE "chfn")
    /\ UNCHANGED <<outside, call, auth, edited, changed, grumbled>>

-----------------------------------------------------------------------------
(* PAM calls.                                                              *)

\* A call at place returns r.  If the user cancels while it asks him, or had
\* canceled before, its conversation has failed.
Returns(h, place, r) ==
    /\ At(h, place)
    /\ r \in PamErrors \cup {"PAM_SUCCESS"}
    /\ canceled' \in {canceled, [canceled EXCEPT ![h] = TRUE]}
    /\ PamHonoursConv /\ canceled' # canceled => r # "PAM_SUCCESS"

Proves(h, place) == proven' = [proven EXCEPT ![h] = @ \cup {place}]

\* pam_start() or pam_set_item() fails: nothing was asked yet.
StartFails(h, r) ==
    /\ At(h, "passwd") \/ At(h, "chfn")
    /\ r \in PamErrors
    /\ Exit(h, FailExit(canceled[h], r))
    /\ UNCHANGED <<outside, private, auth, edited, changed, grumbled>>

-----------------------------------------------------------------------------
(* passwd().                                                               *)

Passwd(h) ==
    /\ At(h, "passwd")
    /\ Goto(h, "chauthtok")
    /\ UNCHANGED <<outside, private, auth, edited, changed, grumbled>>

\* pam_chauthtok() changes the password; pam_end() may still complain.
Chauthtok(h) ==
    /\ Returns(h, "chauthtok", "PAM_SUCCESS")
    /\ Proves(h, "chauthtok")
    /\ password' = [password EXCEPT ![target[h]] = @ + 1]
    /\ changed' = [changed EXCEPT ![h] = TRUE]
    /\ \/ Exit(h, 0) /\ UNCHANGED grumbled
       \/ /\ \E r \in PamErrors : Exit(h, Result(r, h))
          /\ grumbled' = [grumbled EXCEPT ![h] = TRUE]
    /\ UNCHANGED <<db, repairs, private, tries, edited>>

\* No retry.
ChauthtokFails(h, r) ==
    /\ Returns(h, "chauthtok", r)
    /\ r # "PAM_SUCCESS"
    /\ Exit(h, Result(r, h))
    /\ UNCHANGED <<outside, private, tries, proven, edited, changed, grumbled>>

-----------------------------------------------------------------------------
(* chfn(): checks and authentication.                                      *)

\* string_has_forbidden_characters(), for what was given.
FieldsInvalid(new) ==
    \/ \E f \in Fields : new[f] \in BadTexts
    \/ new["shell"] \in BadShells

Chfn(h) ==
    /\ At(h, "chfn")
    /\ IF FieldsInvalid(call[h].new)
       THEN Exit(h, ERR_FIELDS_INVALID)
       ELSE Goto(h, "authenticate")
    /\ UNCHANGED <<outside, private, auth, edited, changed, grumbled>>

\* PAM_USER cannot be read, or is not the user any more.
Authenticated(h) ==
    /\ Returns(h, "authenticate", "PAM_SUCCESS")
    /\ tries' = [tries EXCEPT ![h] = @ - 1]
    /\ \/ Proves(h, "authenticate") /\ Goto(h, "acct_mgmt")
       \/ /\ \/ Exit(h, ERR_UNK_ERROR)
             \/ \E r \in PamErrors : Exit(h, Result(r, h))
          /\ UNCHANGED proven
    /\ UNCHANGED <<outside, private, edited, changed, grumbled>>

\* Mutant: the tries are counted, but not looked at.
AuthRefusedUncounted(h, r) ==
    /\ Returns(h, "authenticate", r)
    /\ r # "PAM_SUCCESS"
    /\ tries' = [tries EXCEPT ![h] = @ - 1]
    /\ IF r # "PAM_CONV_ERR" /\ ~canceled'[h]
       THEN UNCHANGED <<pc, status>>
       ELSE Exit(h, Result(r, h))
    /\ UNCHANGED <<outside, private, proven, edited, changed, grumbled>>

\* Three tries, unless the conversation cannot go on or the user cancels.
AuthRefused(h, r) ==
    /\ Returns(h, "authenticate", r)
    /\ r # "PAM_SUCCESS"
    /\ tries' = [tries EXCEPT ![h] = @ - 1]
    /\ IF r # "PAM_CONV_ERR" /\ ~canceled'[h] /\ tries'[h] > 0
       THEN UNCHANGED <<pc, status>>
       ELSE Exit(h, Result(r, h))
    /\ UNCHANGED <<outside, private, proven, edited, changed, grumbled>>

AccountOk(h) ==
    /\ Returns(h, "acct_mgmt", "PAM_SUCCESS")
    /\ Proves(h, "acct_mgmt")
    /\ Goto(h, "lu_start")
    /\ UNCHANGED <<outside, private, tries, edited, changed, grumbled>>

AccountRefused(h, r) ==
    /\ Returns(h, "acct_mgmt", r)
    /\ r # "PAM_SUCCESS"
    /\ Exit(h, Result(r, h))
    /\ UNCHANGED <<outside, private, tries, proven, edited, changed, grumbled>>

-----------------------------------------------------------------------------
(* chfn(): libuser.                                                        *)

\* prompt_pipe(), asked for a number of answers of which got arrive before
\* the user cancels or the front end goes away.  Its error path calls the
\* free_value of the prompt after the last one answered, which was not set.
PromptFails(h, got) ==
    /\ At(h, "lu_start")
    /\ canceled' = [canceled EXCEPT ![h] = TRUE]
    /\ \/ Exit(h, Result("PAM_ABORT", h))
       \/ got > 0 /\ Exit(h, -SIGSEGV)
    /\ UNCHANGED <<outside, private, tries, proven, edited, changed, grumbled>>

\* lu_start(), having asked nothing or got its answers.
LibuserStart(h) ==
    /\ At(h, "lu_start")
    /\ \/ Goto(h, "lookup")
       \/ Exit(h, FailExit(canceled[h], "PAM_ABORT"))
    /\ UNCHANGED <<outside, private, auth, edited, changed, grumbled>>

\* The fields given replace those found.
Overlaid(p, new) ==
    [p EXCEPT !.fields = [f \in Fields |-> IF new[f] # NoText THEN new[f]
                                           ELSE p.fields[f]]]

\* Mutant: it is enough that the new shell is valid.
NewShellValid(old, new) == (IF new = "" THEN "/bin/sh" ELSE new) \in Shells

ShellValid(shell) == (IF shell = "" THEN "/bin/sh" ELSE shell) \in Shells

\* Both the old shell, /bin/sh by default, and the new one must be valid.
ShellChangeValid(old, new) ==
    /\ ShellValid(new)
    /\ ShellValid(IF old = NoText THEN "/bin/sh" ELSE old)

\* What becomes of the record: the string and the individual data items.
Edited(r, new) ==
    LET p == Overlaid(GecosParse(r.gecos), new) IN
    [gecos |-> GecosAssemble(p),
     attrs |-> [f \in Fields |-> IF p.fields[f] # NoText THEN p.fields[f]
                                 ELSE r.attrs[f]],
     shell |-> IF new["shell"] # NoText THEN new["shell"] ELSE r.shell]

TooLong(r, new) ==
    GecosSize(Overlaid(GecosParse(r.gecos), new)) > GECOS_LENGTH

LookupFails(h) ==
    /\ At(h, "lookup")
    /\ Exit(h, FailExit(canceled[h], "PAM_ABORT"))
    /\ UNCHANGED <<outside, private, auth, edited, changed, grumbled>>

\* Mutant: the record is the one read before the user was asked anything.
LookupEarly(h) ==
    LET r   == found[h]
        new == call[h].new IN
    /\ At(h, "lookup")
    /\ found' = [found EXCEPT ![h] = r]
    /\ IF TooLong(r, new)
       THEN Exit(h, ERR_FIELDS_INVALID) /\ UNCHANGED ent
       ELSE IF new["shell"] # NoText /\ ~ShellChangeValid(r.shell, new["shell"])
       THEN Exit(h, ERR_SHELL_INVALID) /\ UNCHANGED ent
       ELSE Goto(h, "modify") /\ ent' = [ent EXCEPT ![h] = Edited(r, new)]
    /\ raced' = [raced EXCEPT ![h] = FALSE]
    /\ UNCHANGED <<outside, private, auth, changed, grumbled>>

\* lu_user_lookup_name(), then the checks and the new record, all in memory.
Lookup(h) ==
    LET r   == db[target[h]]
        new == call[h].new IN
    /\ At(h, "lookup")
    /\ found' = [found EXCEPT ![h] = r]
    /\ IF TooLong(r, new)
       THEN Exit(h, ERR_FIELDS_INVALID) /\ UNCHANGED ent
       ELSE IF new["shell"] # NoText /\ ~ShellChangeValid(r.shell, new["shell"])
       THEN Exit(h, ERR_SHELL_INVALID) /\ UNCHANGED ent
       ELSE Goto(h, "modify") /\ ent' = [ent EXCEPT ![h] = Edited(r, new)]
    /\ raced' = [raced EXCEPT ![h] = FALSE]
    /\ UNCHANGED <<outside, private, auth, changed, grumbled>>

\* lu_user_modify() saves the record, and may complain nevertheless.
Modify(h) ==
    /\ At(h, "modify")
    /\ Write(target[h], ent[h])
    /\ changed' = [changed EXCEPT ![h] = TRUE]
    /\ \/ Exit(h, 0) /\ UNCHANGED grumbled
       \/ /\ Exit(h, FailExit(canceled[h], "PAM_ABORT"))
          /\ grumbled' = [grumbled EXCEPT ![h] = TRUE]
    /\ UNCHANGED <<password, repairs, private, auth, found, ent>>

\* Mutant: the result is not looked at.
ModifyFailsSilently(h) ==
    /\ At(h, "modify")
    /\ Exit(h, 0)
    /\ UNCHANGED <<outside, private, auth, edited, changed, grumbled>>

ModifyFails(h) ==
    /\ At(h, "modify")
    /\ Exit(h, FailExit(canceled[h], "PAM_ABORT"))
    /\ UNCHANGED <<outside, private, auth, edited, changed, grumbled>>

-----------------------------------------------------------------------------
\* The administrator edits a record with another tool.
Repair(u, r) ==
    /\ repairs > 0
    /\ repairs' = repairs - 1
    /\ r \in Repairs
    /\ Write(u, r)
    /\ UNCHANGED <<password, private, pc, auth, found, ent, verdict>>

Step(h) ==
    \/ Main(h)
    \/ Passwd(h)
    \/ Chauthtok(h)
    \/ Chfn(h)
    \/ Authenticated(h)
    \/ AccountOk(h)
    \/ \E got \in 0..1 : PromptFails(h, got)
    \/ LibuserStart(h)
    \/ LookupFails(h)
    \/ Lookup(h)
    \/ Modify(h)
    \/ ModifyFails(h)
    \/ \E r \in PamErrors : \/ StartFails(h, r)
                            \/ ChauthtokFails(h, r)
                            \/ AuthRefused(h, r)
                            \/ AccountRefused(h, r)

\* Every helper has ended.
AllDead == (\A h \in Helpers : At(h, "dead")) /\ UNCHANGED vars

Next ==
    \/ \E h \in Helpers : Step(h) \/ BadCall(h)
    \/ \E u \in Users, r \in Repairs : Repair(u, r)
    \/ AllDead

Spec == Init /\ [][Next]_vars

-----------------------------------------------------------------------------
(* Safety.                                                                 *)

\* The exit status tells the truth about the account: 0 exactly if it was
\* changed, unless a library changed it and reported an error as well.
StatusTruthful ==
    \A h \in Helpers : At(h, "dead") =>
        /\ status[h] = 0 => changed[h]
        /\ changed[h] => status[h] = 0 \/ grumbled[h]

\* A helper changes an account only if every PAM call before it succeeded,
\* the user has not canceled, and the account is the caller's own unless the
\* caller is root, who may name another.
ChangesEarned ==
    \A h \in Helpers : changed[h] =>
        /\ proven[h] \in {{"chauthtok"}, {"authenticate", "acct_mgmt"}}
        /\ PamHonoursConv => ~canceled[h]
        /\ target[h] = call[h].by \/ call[h].by = "root"

\* The step in which a helper saves the record.
Saves(h) == At(h, "modify") /\ changed'[h] /\ ~changed[h]

\* Field f of a record, as finger(1) shows it.
Shown(r, f) == TextOf(GecosParse(r.gecos).fields[f])

\* What is saved is what was found with just the given fields replaced: the
\* others survive splitting and assembling, and so does what follows them, but
\* for commas at its end.  The individual data items say what the string says
\* ("this may modify old data if LU_GECOS and the individual components weren't
\* in sync").  Nobody else's record is touched.
SavesWhatWasAsked ==
    [][\A h \in Helpers : Saves(h) =>
          LET u == target[h]
              new == call[h].new IN
          /\ \A f \in Fields : Shown(db'[u], f) =
                IF new[f] # NoText THEN new[f] ELSE Shown(found[h], f)
          /\ GecosParse(db'[u].gecos).site_info =
                Stripped(GecosParse(found[h].gecos).site_info)
          /\ db'[u].shell =
                IF new["shell"] # NoText THEN new["shell"] ELSE found[h].shell
          /\ \A f \in Fields :
                new[f] # NoText \/ GecosParse(found[h].gecos).fields[f] # NoText
                => db'[u].attrs[f] = Shown(db'[u], f)
          /\ \A v \in Users \ {u} : db'[v] = db[v]]_vars

\* Records of the past are written back only by helpers that were overtaken
\* between lookup and save: however long the user is asked for passwords,
\* nothing that happens meanwhile is undone.
UndoesNothing ==
    [][\A h \in Helpers : Saves(h) /\ ~raced[h] =>
          LET u == target[h]
              new == call[h].new IN
          /\ \A f \in Fields : new[f] = NoText => Shown(db'[u], f) = Shown(db[u], f)
          /\ new["shell"] = NoText => db'[u].shell = db[u].shell]_vars

\* No helper gives a valid shell to an account whose shell, when it was looked
\* up, was not valid, or takes a valid one away.
ShellsStayValid ==
    [][\A h \in Helpers : Saves(h) /\ call[h].new["shell"] # NoText =>
          LET old == found[h].shell IN
          /\ ShellValid(db'[target[h]].shell)
          /\ old = NoText \/ ShellValid(old)]_vars
=============================================================================
