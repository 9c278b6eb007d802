# usermode in TLA+

Specifications of [usermode](../src): `userhelper`, the setuid helper that
authenticates a user through PAM and then changes account data or runs a
program, the graphical front ends that talk to it (`consolehelper`,
`userinfo`, `userpasswd`), and the programs that come with them (`usermount`,
`pam-panel-icon`).  TLC checks small instances; TLAPS proves theorems for every
value of the constants.

1. [The system](#1-the-system)
2. [Modules](#2-modules)
3. [How the modules correspond to the code](#3-how-the-modules-correspond-to-the-code)
4. [Runs](#4-runs)
5. [Findings](#5-findings)
6. [Proofs](#6-proofs)
7. [Not modelled](#7-not-modelled)
8. [Plan](#8-plan)

## 1. The system

| Component | State it keeps | Operations | Talks to |
|---|---|---|---|
| `userhelper -w` (`wrap()` in `userhelper.c`) | `struct app_data` (`canceled`, `fallback_chosen`, `fallback_allowed`, the streams, the conversation function), `tryagain`, `session`, where it is in the PAM transaction | read `console.apps/<program>`, authenticate with retries, account, session, credentials, `fork()`, `exec` | PAM (calls back into `converse_pipe()`), the front end over two pipes, its own forked child through `waitpid()` |
| `userhelper -c`, `-f/-o/-p/-h/-s` (`passwd()`, `chfn()`) | the same, and the record being edited | change password, GECOS, shell | PAM, libuser (calls back into `prompt_pipe()`), front end, other helpers and administrators through the user database |
| front end (`userhelper-wrap.c`) | statics: `childin`, `childpid`, `childout_tag`, `child_exit_status`, `child_was_execed`, `sn_*`; `resp` with its dialog and message list | start the helper, handle one request, answer, notice hang-up, notice the exit | the helper's pipes, GLib main loop (nested in dialogs and runs), the user |
| `userinfo.c` | `struct UserInfo`, the form | parse, edit, apply (several helpers in one process), close | front end |
| `consolehelper.c`, `userpasswd.c` | argument vectors | choose text or X, run the front end | front end |
| `userhelper-messages.c`, `userhelper.h` | constant tables | status to message | both sides |
| `shvar.c` | lines of a file, `current`, `modified`, `parent` | open with includes, get, set, write, escape, unescape | `wrap()` |
| `pam-panel-icon.c` | `current_status`, the checker's channel and two GLib sources, icon, dialog, menu | launch, read, replace the checker; drop the authorization; end with the session | `pam_timestamp_check`, the session manager |
| `gsmclient.c`, `props.c` | `GsmClientPrivate`: state, grants, flags, properties | connect, save, interact, phase 2, set properties, disconnect, die | session manager (XSMP over ICE), the application |
| `usermount.c` | list of `struct mountinfo`, the selected row, the buttons | mount, unmount, format; `userformat` | `mount`, `umount`, `fdformat`, `mkfs`, other programs through the mount table |

What is hard here:

* **The conversation** between a privileged process, its child, and a front end
  that runs nested main loops, over two pipes with no sequence numbers.  The
  program's exit status and the helper's own are told apart only by
  `child_was_execed`, which one request sets and another takes back; a
  cancellation or a fallback arrives inside a PAM call that knows of neither;
  the reply to a cancelled conversation is left half read; every process can
  disappear at every step, and the others find out from end of file, `SIGPIPE`,
  hang-up or `SIGCHLD`, in any order.
* **Lookup, then save.**  `chfn()` writes back all of a record it read earlier,
  beside other helpers and administrators.
* **Several helpers in one process.**  The statics of `userhelper-wrap.c` know
  one helper; `userinfo` can have an old one still running.
* **Deaths reported twice.**  `pam-panel-icon` hears of its checker's death
  from the pipe and from the child watch, in either order.
* **XSMP.**  Saves, interactions, phases and cancellations cross each other on
  the way between a client and the manager.
* **State looked at earlier.**  `usermount`'s buttons speak of a mount table
  that others change; `svSetValue()` relies on the line a search was left on.

`PROJECT.json` lists each of these under "hazards" at the line where it bites,
with the properties that would catch it, and what they leave out.

## 2. Modules

| Module | Models |
|---|---|
| `UhMessages` | exit statuses, `fail_exit()`, `uh_exitstatus_message()`, the shape of requests and replies |
| `Wrap` | `wrap()` with the PAM conversation and the forked child (`userhelper.c`), and the front end (`userhelper-wrap.c`) as `consolehelper` uses it, joined by the two pipes |
| `WrapContract`, `WrapRefinement` | what `consolehelper` promises, with no processes and no pipes, and the mapping under which `Wrap` implements it |
| `Gecos` | `gecos_parse()`, `gecos_size()`, `gecos_assemble()` on sequences of what stands between the commas |
| `Account` | `main()`'s options, `passwd()` and `chfn()`, for several helpers and an administrator on one user database; extends `Gecos` and `UhMessages` |
| `UserInfo` | `userinfo.c` and `userhelper_runv()` as it uses it; extends `Gecos` |
| `PanelIcon` | `pam-panel-icon.c` |
| `SmProps` | `props.c`: lists of properties |
| `GsmClient` | `gsmclient.c`: any number of clients; extends `SmProps` |
| `Session` | composes those clients with the session manager they take for granted (external) |
| `Shvar`, `ShvarDict` | `shvar.c`, and the dictionary that `shvar.h` promises, which it implements for tidy files |
| `Usermount` | `usermount.c` as `usermount` and as `userformat`, beside other programs |
| `MCWrap`, `MCAccount`, `MCSession`, `MCUserInfo`, `MCShvar`, `MCUsermount` | constants of the instances that TLC checks (`PanelIcon` needs none) |
| `WrapProofs`, `GecosProofs`, `AccountProofs`, `UserInfoProofs`, `PanelIconProofs`, `SessionProofs`, `UsermountProofs`, `ShvarProofs` | theorems |

Operators whose comment begins with "Mutant:" are not part of the model: each
is a plausible mistake in the definition that follows it, used to make sure
that a property can fail.

## 3. How the modules correspond to the code

### Wrap

| Variable | Code |
|---|---|
| `conf` | `GUI`, `SESSION`, `FALLBACK`, `RETRY` of the configuration file |
| `pc`, `exitcode` | the control point and exit status of userhelper and of the child it forks |
| `ran` | the identity (`become_super`, `become_normal`) with which `exec` succeeded |
| `milestones` | PAM calls that returned `PAM_SUCCESS`, and the handshake of `GUI=no` |
| `tries` | `tryagain` |
| `waiting`, `expected`, `convs`, `convFailed` | inside `converse_pipe()`: reading replies, `expected_responses`; how often it was called in this PAM call, and whether it ever returned an error |
| `canceled`, `fallbackChosen` | `data->canceled`, `data->fallback_chosen` |
| `toParent`, `toChild` | the two pipes, in requests and replies |
| `ppc`, `fate` | the main loop, the modal question dialog, or how the process ended |
| `watch`, `execed`, `exitStatus` | `childout_tag != 0`, `child_was_execed`, `child_exit_status` |
| `responses`, `infos`, `dialog`, `fallbackAllowed` | `resp->responses`, the rows beyond them, `resp->dialog`, `resp->fallback_allowed` |
| `quitting`, `reaped`, `explained` | `gtk_main_quit()` under a dialog, `userhelper_child_exited()` has run, the status shown in a message box |

One request stands for everything the helper writes before one `fflush()`,
which always ends in `UH_SYNC_POINT`; one reply for everything up to the
`UH_SYNC_POINT` the front end sends back.  The helper cannot act on part of a
reply otherwise than on end of file, except where it stops reading early: then
the model puts back what is left (`ReadCancel`, `ReadAnswers`).  A front end
killed in the middle of a reply is covered by one killed before it, because
`converse_pipe()` treats both as a cancellation.

PAM is the environment: a call may converse up to `MaxConv` times with the
shapes in `Shapes` (prompts and texts), and then returns success or one of
`PamErrors`.  With `PamHonoursConv` a call in which a conversation failed does
not succeed, which is what a stack of required modules does.  The user answers,
cancels, falls back, closes or dismisses dialogs.  The program ends with one of
`ProgramStatuses`.  `Killable` processes may be killed once, at any moment.

Left out of `Wrap`: the environment variables and the `PATH` search (their
failures are in `LookupFails`), startup notification, dialog contents, a
conversation under the final `pam_setcred(PAM_DELETE_CRED)`, stopping by
`assert` or out of memory.

### Account and Gecos

| Variable | Code |
|---|---|
| `db`, `password` | the user database, as libuser and PAM change it |
| `call`, `target` | the options, who called, and `user_name` once `main()` has settled it |
| `pc` | in `main()`, `passwd()` or `chfn()`: before which PAM or libuser call |
| `tries`, `canceled` | `tryagain`, `data->canceled` |
| `found`, `ent` | what `lu_user_lookup_name()` returned and what `lu_user_modify()` is given: `LU_GECOS`, the individual items, `LU_LOGINSHELL` |
| `status`, `changed`, `grumbled` | exit status; whether the account was changed, and whether the call that did it reported an error all the same |
| `proven`, `raced` | history: PAM calls that succeeded, and whether somebody wrote between lookup and save |

Each action is one call and what follows it up to the next: `Lookup`, for
example, is the lookup with the checks of length and shell and the new record,
all of which happens in memory.  A GECOS string is the sequence of what stands
between its commas; the empty string is `<<>>`.  `PromptFails` has the error
path of `prompt_pipe()`, which calls a `free_value` that was never set and may
crash (`userhelper.c:743`).

### UserInfo

`loops` is the stack of nested main loops and modal dialogs: `gtk_main()` of
`main()`, the one inside `userhelper_runv()`, a question, and the message box
with the outcome.  `Quit` is `gtk_main_quit()`, which ends the innermost
`gtk_main()` and no dialog.  `runs` is the newest helper, the one `childpid`,
`childin` and `childout_tag` (`tag`) know; `watched` are those whose pipe still
has a source.  An answer goes to whoever reads the newest pipe (`Reader`).  A
helper here is what a front end sees of one in `Account`: it tells, asks, waits
for an answer to each, and ends having saved its arguments (`Saved`,
`MaySave`) or not.  Freed memory that is used again (the form after it was
closed, a shell that came from the command line) has both outcomes: nothing
happens, or the process dies of a signal.

The watch on a helper's pipe and the one on the helper itself are two sources.
While its question is up the first is being dispatched and is not dispatched
again (`Dispatchable`); the second is (`ChildExited`), by the question's own main
loop: the outcome comes up above the question, and `Quit` then ends the run's
loop below it, which returns once both have been answered.  A cancellation
(`Canceled`) is the one outcome that is not shown.

### PanelIcon

`current` is the checker that the statics `child_io_channel`,
`child_io_source` and `child_watch_source` belong to, `ioSources` and
`childSources` are the sources that GLib has, and `fds` the pipes that are
still open; `status` is `current_status` and `icon` the tray icon.  `Launch` is all of
`launch_checker()`, with a spawn that fails or a pipe that cannot be made
non-blocking; `RespawnAfterIo` and `ChildDied` are the two reports of a death.
When launching fails (`Launch`) there is no checker any more, none is launched
again, and `current_status` stays what the dispatcher had just made it.
The checker, `pam_timestamp_check -d`, is the environment: it reports when what
it sees changes, and exits after an error.

### GsmClient, SmProps and Session

`priv[c]` has the fields of `GsmClientPrivate` with state in it; `connection`
is `priv->connection != NULL`, and `link` what the manager has, which differs
after a broken connection since nothing tells the `GsmClient`.  Each callback
is one action with the "save" handler in it, because the handler returns before
the callback goes on and ends the save; `dialogs` are those that an application
has up for an interaction, the current one or one of a save that was cancelled.
A property list is a sequence as in the code; what the manager knows of one is
a function of the name.  `Session` adds a manager that
sends `SaveYourself`, lets one client interact at a time, starts phase 2 when
nobody is left in phase 1, may cancel a shutdown, and waits for one
`SaveYourselfDone` for each `SaveYourself`.  XSMP does not say in which order
the manager grants interactions, so it takes any of `interactWanted`.

### Shvar

A line is a variable and its text as written, a comment, or `. file`.  A text
is a sequence of characters, here alone, since quoting is what this code has to
get right.  `Load[n]` are the included files when `n - 1` are open already.
`SetTo` and `Unset` follow the table in `svSetValue()`, with its comparison of
unescaped old values with the escaped new one.  `Write` is what precedes the
first `fprintf()`, with `ftruncate()`, and `Written` the rest.  `asked` records
the arguments of the last `svSetValue()` on a tidy file; `ShvarDict` has them as
`call`, so that the refinement ties what is stored to what was passed.

### Usermount

`infos` is the list of `struct mountinfo`; `row`, `formatButton` and
`sensitive` are the window; `mounted` is the system's table, which `Other`
changes.  `Changed(e)` is `changed_callback()`, which ends selecting, mounting
and the message after it.  While `fdformat` and `mkfs` run, `format()` iterates
the main loop (`pc` is then `"fdformat"` or `"mkfs"`).

## 4. Runs

| Run | States | Shows |
|---|---|---|
| `wrap_safe` | 62,000 | The two sides stay in step while nobody is killed: `LockStep`, `AnswersMatch`, `NothingUnread`, `StatusAgreed`, `NoProtocolErrorBeforeRun`; and `Wrap` implements `WrapContract`, liveness included (`KeepsContract`) |
| `wrap_kills` | 367,000 | With each of the three processes killed at any moment: `RunsOnlyAcknowledged`, `PrivilegeEarned`, `CancelStops`, `DismissalIsFinal`, `HelperSettles`, `FrontEndReturns` and types |
| `account` | 853,000 | Two helpers and an administrator: `ChangesEarned`, `StatusTruthful`, `SavesWhatWasAsked`, `UndoesNothing`, `ShellsStayValid` and types |
| `userinfo` | 475,000 | A form applied twice: `AnswersArrive`, `OutcomeTold`, `ChangesOnlyEdits`, `RunsEnd` |
| `icon` | 536,000 | Three checkers: `OldCheckersSilent`, `IconHonest`, `StatusFollows` and types |
| `session` | 179,000 | Two clients, two saves: `OneAnswerEach`, `InteractDoneExpected`, `Phase2Alone`, `PropertiesInStep`, `SavesEnd`, `AllLeave` |
| `shvar` | 89,000 | `IsDictionary` (the refinement of `ShvarDict`), `OthersKept`, `UnsetHidesParent`, `UnmodifiedIsSaved` |
| `usermount` | 117,000 | `ButtonsTruthful`, `FormatsUnmounted`, `WindowComesBack` |
| `fallback`, `cancel`, `icon_shown`, `usermount_format` | | The findings: TLC finds the property violated |

### Bounds

*Wrap.*  The counters that are cut are reset: `convs`, `waiting`, `convFailed`
start afresh in each PAM call, and a second conversation already meets whatever
the first left in the pipes or in `resp`.  One retry makes the loop of
`pam_authenticate()` go round; a second would start from the same state but for
`tries`.  The shapes are a prompt, a text, and two prompts with a text: no
answer, one, more than one.  The statuses of the program are success, the
status that would be taken for a cancellation were it the helper's (12), and a
signal.

*Account.*  Every kind of command line is tried beside a helper that does
nothing, and three whose edits meet are tried in every pair, so that two
lookups and two saves interleave in every order, with one edit by the
administrator anywhere.  The records are the empty string, a short one, and one
with a fifth part and commas at its end; values are of length 0, 1 and one that
is too long together with others.

*UserInfo.*  Two runs make an old helper meet a new one; two messages from each
allow a question after a message, and a helper that is killed under its
question before another run begins.  The record has all four fields and a fifth.

*PanelIcon.*  Three checkers let a death be reported while its successor dies
as well; two unread reports let an old one precede a new one.  The last checker
does not die, which cuts the sequence.

*Session.*  Two clients are what it takes to have one interact while the other
waits and to have phase 2 wait for somebody; two saves to have one cross what
the first left.  Overlapping saves and changing properties are checked with one
client, as they concern one.

*Shvar.*  Two variables (one that is set and one that must not change), three
lines, values with nothing to quote, with a space, with the escapes and with
quotes inside; files with duplicates, of the variable that the parent sets and
of the one that it does not, an empty value, includes, an include of itself, and
without a final newline.

*Usermount.*  Lines that are usable by everybody, by the owner, by root, twice
for one device, or not at all; two interventions by others.

`CHECK_DEADLOCK FALSE` stands where the system stops: in `session` the session
is over, in `userinfo` a form that is closed during a run leaves the program in
its main loop with nothing to show (`ClosedMeansOver`), in `shvar` a program
that crashed or whose file cannot be read has nothing to do.

### Conditions in the properties

* `StatusAgreed` and `NothingUnread` speak of states in which nobody was killed
  from outside: a killed child cannot take its announcement back.
* `NothingUnread` and `LockStep` name one exception, after a cancellation (the
  second finding, in its harmless form: PAM refused, so the program did not
  run).
* `DismissalIsFinal` speaks of a front end that ended before it had reaped the
  helper; a helper killed in `waitpid()` leaves a child that may still run the
  program, and the front end has by then reported the helper's death.
* `UndoesNothing` excludes helpers that were overtaken between lookup and save
  (`raced`): there nothing protects the record.  What it shows is that this
  window does not reach back to the questions the user is asked.
* `AnswersArrive` and `OutcomeTold` are for users who do not dismiss a dialog
  that only tells (`habit.dismiss`); what happens otherwise is in section 5.
  `OutcomeTold` says of every helper that was reaped, be it under its own
  question, that what was told is its exit status, and that all were reaped when
  the form takes input again.
* `OneAnswerEach` and `SavesEnd` are for managers that do not ask a client
  that still saves; see section 5.
* `IsDictionary` is for files as other programs write them (`tidy`): each
  variable once, none empty, no parent.  `OthersKept` holds for all of them.
* `UnsetHidesParent` holds for all files where the parent gives the variable a
  value.  Where it does not, it is about a variable with one line: `svSetValue()`
  then deletes the first line (`shvar.c:344-349`), and a second one of the same
  variable comes into force.
* `ShownMeansReported` leaves out states in which the timestamp is held: the
  icon then says something true, if by accident.
* `ButtonsTruthful` and `FormatsUnmounted` except what another program mounted
  or unmounted since the row was looked at (`raced`).

### Fairness

Weak fairness throughout, for what a scheduler or a main loop gives:

* `Wrap`: the helper, each process on its way into the program, the front end's
  callbacks, and the user answering *or closing* a question.  `HelperStep` as a
  whole is fair: conversations in a PAM call are counted, and the loop over
  `tryagain` is finite.  Nothing is assumed about message boxes, the program's
  end or kills.
* `PanelIcon`: the main loop dispatches, the checker reports, and exits after an
  error.  `StatusFollows` has as a premise that the panel goes on having a
  checker (`launch_checker()` gives up when it cannot spawn one).
* `Session`: every main loop dispatches what has arrived, the manager goes on,
  and a dialog for a granted interaction is closed some day.  Nobody has to
  save, cancel or leave.
* `UserInfo`: the main loop dispatches, helpers end, and the user answers what
  is in front of him.
* `Usermount`: programs that were started end, and dialogs are answered.

## 5. Findings

Each of these is a run that expects a violation:

1. `fallback`: `converse_pipe()` resets `fallback_chosen` after sending its
   prompts (`userhelper.c:440`), so a module that converses again in the same
   `pam_authenticate()` asks the user who has just chosen to fall back.
   `canceled` has a guard for this (`userhelper.c:338`); `fallback_chosen` does
   not.
2. `cancel`: `converse_pipe()` returns on `UH_CANCEL` without reading the
   `UH_SYNC_POINT` behind it (`userhelper.c:507`).  If the PAM stack succeeds
   nevertheless, `pipe_conv_wait_for_sync()` takes it for the acknowledgement
   of `UH_EXEC_START`: the program runs, after a cancellation, while the front
   end still believes that statuses are the helper's.  `wrap_kills` and
   `wrap_safe` assume `PamHonoursConv` for this reason, and `CancelIsFinal` has
   it as a hypothesis.
3. `icon_shown`: on a hang-up `child_io_func()` sets `STATUS_UNKNOWN` and then
   falls into the switch on `output`, which is still 0, that is
   `STATUS_AUTHENTICATED` (`pam-panel-icon.c:245`).  In the trace the timestamp
   is never held and the checker dies before it has reported anything: the icon
   appears although nobody is authorized, until the next checker reports.
4. `usermount_format`: the `mkfs` looked for is called `mkfs.%s` followed by
   the type (`usermount.c:227`), so the Format button works only for entries of
   type `auto`.

The following configurations belong to no run of `PROJECT.json`; each checks
one property, which TLC finds violated, as `tlc -config X.cfg M` shows:

| Configuration, module | Property | What the code does |
|---|---|---|
| `MCWrapCredentials`, `MCWrap` | `CanceledIsSaid` | `fail_exit()` looks for 8, `ERR_SHELL_INVALID`, before the canceled flag, and `PAM_CRED_INSUFFICIENT` is 8 as well (`userhelper.c:155`) |
| `PanelIconLeak`, `PanelIcon` | `OldStateDestroyed` | the channel does not own its descriptor, so that each relaunch leaves one open; a checker whose hang-up came first is never reaped (`pam-panel-icon.c:373`) |
| `MCSessionOverlap`, `MCSession` | `AnswersAgree` | a `SaveYourself` during a save is ignored, although the comment says that it has to be answered (`gsmclient.c:1012`) |
| `MCSessionStale`, `MCSession` | `InteractsWhileGranted` | a cancelled shutdown does not reach the application that interacts; its `interaction_done()` may end a later save |
| `MCSessionStyle`, `MCSession` | `ToldTheStyle` | "interact" is declared with one argument and emitted with two: the handler takes the client for `errors_only` |
| `MCSessionCut`, `MCSession` | `ConnectedMeansConnected` | a broken connection is closed without telling the `GsmClient` |
| `MCSessionPriority`, `MCSession` | `PriorityKept` | `set_priority()` accepts 100, which `get_priority()` takes for none |
| `MCUserInfoDismiss`, `MCUserInfo` | `AnswersGoToAsker` | dismissing a message ends `userhelper_runv()` while its helper still runs; after the next Apply the answers to the old one go to the new one |
| `MCUserInfoClosed`, `MCUserInfo` | `ClosedMeansOver` | closing the form during a run ends the run's main loop, not the program's |
| `MCUserInfoShell`, `MCUserInfo` | `FingerChangesAllowed` | `userinfo` always passes the shell, so that with a shell that is not listed no field can be changed |
| `MCShvarSet`, `MCShvar` | `SetThenGet` | after a variable was empty, setting it appends a line behind the empty one, which is found first |
| `MCShvarNoop`, `MCShvar` | `NoopWhenEqual` | the old value is compared unescaped with the new one escaped |
| `MCShvarFull`, `MCShvar` | `SuccessMeansSaved` | neither `fprintf()` nor `fclose()` is asked |
| `MCShvarQuote`, `MCShvar` | `ReadingReturns` | `K="` is taken for a pair of quotes around -1 bytes |
| `MCShvarEmpty`, `MCShvar` | `QuotesComeOff` | `K=""` is read as one quote |
| `MCUsermountShared`, `MCUsermount` | `FormatInactive` | a device that is mounted under one entry can be formatted under another |

Two more that need no run: `shvar.c` says that a new variable is prepended, but
appends it; and a value that equals the escaped form of the present one is taken
for no change, as above (the values of `MCShvar` have no such pair, which
`IsDictionary`, that ties the value to the argument, would refuse).

## 6. Proofs

The theorems hold for every value of the constants that satisfies the
assumptions stated beside them: any configuration, shapes, number of
conversations, helpers, records, checkers, entries, lines.

* **`WrapProofs`, `TypeCorrect`.**  `TypeOK` is inductive.  It is proved in
  parts (`TypeImage`, `TypeConvo`, `TypePipes`, `TypeFront`, `TypeEnding`), one
  lemma per part and group of actions, resting on lemmas about `Goto`, `Die`,
  `SendRequest`, `ExecFailed`, `FailExit` and the pipes.
* **`WrapProofs`, `PrivilegeIsEarned`.**  `PrivilegeEarned` alone is not
  inductive: when `Exec` runs, one has to know which calls succeeded on the
  way.  `Stage` says that for each place of the helper and for the existence of
  the child; `Moved` reduces every step to where it leaves the two processes.
* **`WrapProofs`, `CancelIsFinal`**, if PAM honours failed conversations.  The
  invariant (`Forked`, `Stopped`) says that a cancellation has failed the call
  it happened in, that nobody is on the way into the program then, and that the
  child exists only between the conversations before and after the run.
* **`WrapProofs`**, if PAM honours failed conversations: what is between the two
  programs in every state, whoever is killed.  None of the properties is
  inductive, since each speaks of the moment when a message is read, and that
  depends on what was written before.  `PlaceInv` says where the helper and its
  child can be at the same time (`Turns`: they take turns at the pipes) and who
  has run the program (`RanBy`).  `PipeInv` adds the contents of the pipes, for
  each pair of places of the helper and the front end: before and during the
  run (`Handshake`), after the child has ended (`Closing`), without a GUI
  (`NoGui`) and after the helper has ended (`Over`); what the front end has
  counted and shown (`Early`, `MessageBox`, `Fits`), and what its end means
  (`Walked`, `Reaping`).  A pipe never holds two messages, except that
  `UH_EXEC_FAILED` may be written behind a cancellation (`Closing`).  From it
  follow `Acknowledgement` (`RunsOnlyAcknowledged`), `NoEarlyProtocolError`,
  `BothSidesAgree` (`StatusAgreed`), `NothingIsLost` (`NothingUnread`),
  `AnswersReachTheirPrompts`, `LockStepWithoutKills` and `DismissalIsKept`
  (`DismissalIsFinal`).  `AnswersMatch` and `LockStep` are claimed of a world
  where nobody is killed; the theorems say what is left of them otherwise.
* **`WrapProofs`, `ContractKept`.**  If moreover nobody can be killed
  (`Killable = {}`), `Spec` implements `WrapContract!Spec` under the mapping of
  `WrapRefinement`.  `StepKeeps` takes every step of `Wrap` to a step of the
  contract or to none: by `HelperKeeps`, `RunnerKeeps`, `FrontKeeps`, each from
  what the step does to the three mapped parts (`Run`, `HelperOutcome`,
  `Reported`).
* **`GecosProofs`, `FieldsSurvive`, `SiteInfoSurvives`.**  What
  `gecos_assemble()` and `gecos_parse()` do to each other, for strings of any
  length.  `LastTextIs` says where the commas at the end begin; `JoinedIs` what
  the string is before they are cut off.
* **`AccountProofs`**, for any number of helpers: `AccountTypeCorrect`,
  `AccountChangesEarned`, `AccountStatusTruthful`, `AccountSavesWhatWasAsked`,
  `AccountUndoesNothing`, `AccountShellsStayValid`.  The invariant has three
  parts.  `Typed` is `TypeOK` with how many tries are left where.  `Control`
  (`Earning`, `Truthful`) ties what a helper has proven and whether it was
  canceled to its place, and its exit status to what it did; the properties
  speak only of helpers that have changed something or ended.  `Data`
  (`Prepared`) says that between lookup and save `ent` is the edit of `found`,
  that its shell change was valid, and that `found` is still what the database
  has unless the helper was overtaken.  The action properties follow from it
  and from the theorems on GECOS strings.
* **`UserInfoProofs`**, for any number of runs, any edits and any command line:
  `UserInfoTypeCorrect`, `OnlyEditsAreSaved` (`ChangesOnlyEdits`),
  `AnswersArriveAtAsker` (`AnswersArrive`), `OutcomeIsTold` (`OutcomeTold`).
  `OnlyEditsAreSaved` holds whatever the user dismisses: the form and every
  command line agree with the account in all that he has not changed
  (`EditsOnly`), and go on to do so when a helper saves (`SavesEdits`), by the
  theorems on GECOS strings.  The other two need to know what is on the stack of
  main loops.  `InFront` says that dialogs are innermost and belong to the
  newest helper, at most a result above a question (`Nested`), and that the loop
  of a run is told to quit, as long as the form is there, only when its helper
  has been reaped; `OneAtATime`, that older
  helpers have been reaped by then.  Each step is reduced to what it does to the
  stack: a dialog opens or closes (`DialogOpens`, `DialogCloses`), a run begins
  (`FirstRun`, `AnotherRun`), the form is closed (`FormCloses`), a loop returns
  (`LoopReturns`).  A dismissed message breaks `InFront`, which is what
  `MCUserInfoDismiss` shows; the theorems exclude it by the same hypothesis as
  the properties (`~habit.dismiss`).
* **`PanelIconProofs`**, `IconTypeCorrect`, `IconOldCheckersSilent`,
  `IconStaysHonest`.  `OldCheckersSilent` is not inductive: the panel knows
  only `current`, which is cleared before a new checker is launched and stays
  so if that fails.  `OnlyCurrent` says that there is never a source of any
  other checker, and that `current` is the newest or none.
* **`SessionProofs`**, for any number of clients, saves and kinds of session:
  `AnsweredOnce` (`OneAnswerEach`), `NeverTooManyAnswers`,
  `OnlyTheInteractorIsDone` (`InteractDoneExpected`), `Phase2ComesAfterPhase1`
  (`Phase2Alone`) and `SessionTypeCorrect`.  None of them is inductive: a
  `SaveYourselfPhase2`, an `Interact` or a `ShutdownCancelled` that was sent in
  an earlier save may still be on its way when the next one begins, and would
  break each of them if it reached a client that saves.  `SessionInv` says why
  it does not: what is left over finds the client idle and is ahead of the next
  `SaveYourself` (`Delivered`, `LeftOver`, `Orderly`).  The other parts, also
  one client at a time: a client's state agrees with its connection (`Sane`),
  its answers, given and to be given, are owed (`Owing`), what it has asked for
  is behind it once it answers (`Settled`), phase 2 is wanted by clients that
  wait for it (`Wanting`), and an interaction is asked for, granted and done in
  this order (`Granting`).  One part is about two clients: while one is in
  phase 2, or will be, no other is in phase 1, or will be (`Apart`).  The
  queues enter by which types of messages they hold and in which order (`Has`,
  `Once`, `After`, `Followed`, `Pending`), with one lemma on each for what is
  sent and one for what is received.  Each action of a client is reduced to
  what it does to that client (`SaveStep`, `Silent`, `Ended`, `Done`, `Chats`,
  `Goes`, `Drops`, `Hears`), and each of these keeps the invariant; those of
  the manager change the queues of all (`ToAllIs`).
  `PropertiesAreTold` (`PropertiesInStep`) has an invariant of its own beside
  the types, `PropsInv`: every list has each name once (`OneOfEach`), those on
  their way too (`Clean`), and the last message about a name has the value the
  client has, or the manager knows it already when there is none (`Agrees`).
  Its lemmas say what `Replace` does to a list (`ReplaceIs`), and what a message
  sent or received does to `Agrees`.  It assumes that `gsm_client_init()` pushes
  each name once (`InitialPropsAssumption`).
* **`UsermountProofs`**, `UsermountButtonsTruthful`,
  `UsermountFormatsUnmounted`.  `ButtonsTruthful` speaks of a window that can
  be reached; `Truthful` has to hold behind a message as well.  `Shielded` says
  that a window behind a format cannot be reached, without which a row could be
  mounted between its question and `mkfs`.
* **`ShvarProofs`**, `ShvarUnmodifiedIsSaved`, with `Marked`: a file that is
  being rewritten is marked.  `SettingOneKeepsOthers` is `OthersKept` of one
  step from any sequence of lines.  It is not stated of `Spec`, as that the
  lines read with their includes are a sequence rests on `FlattenSeq`, a
  recursive definition.

Only model-checked:

* everything under fairness (`HelperSettles`, `FrontEndReturns`,
  `StatusFollows`, `SavesEnd`, `AllLeave`, `RunsEnd`, `WindowComesBack`), as
  liveness and `ENABLED` are out of the prover's reach;
* the fairness that `KeepsContract` adds to the steps of the contract;
* the refinement `IsDictionary`, which needs that `Unescape` undoes `Escape`,
  an induction over texts;
* `UnsetHidesParent` (what `Unescape` makes of an empty text is a fold).

## 7. Not modelled

* `consolehelper.c`'s choice between terminal and X, and `userhelper` used
  without a front end: `execv()` decisions without state.  `converse_console()`
  asks on the terminal what `converse_pipe()` asks the front end.
* `get_user_for_auth()` and `is_grouplist_member()`: whom `wrap()` authenticates
  is decided from passwd, group and configuration in one step; `Wrap` has the
  outcomes (`LookupFails`, `LookupDone`).
* `userpasswd`: a loop around `userhelper_runv()` without a form.
* Startup notification (`UH_SN_ID`, `sn_*`): changes no other state.
* `svTrueValue()`: a table of words.  The arguments of `mkfs` for each type.
* GTK layout, message texts, translations, the manual dialog test, build files:
  no behaviour.
* Memory that is leaked; out of memory.

## 8. Plan

1. `UnsetHidesParent` and the dictionary, if a definition of `Unescape` as a
   recursive function can be proved about for the texts of a given length.
2. `get_user_for_auth()` as a decision table, with `LookupDone` refined by it.
