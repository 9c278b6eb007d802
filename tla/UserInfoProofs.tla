--------------------------- MODULE UserInfoProofs ---------------------------
(***************************************************************************)
(* Theorems about UserInfo, for any number of runs and messages, any       *)
(* account, and any edits.                                                 *)
(***************************************************************************)
EXTENDS UserInfo, GecosProofs

-----------------------------------------------------------------------------
(* The inductive invariant.                                                *)

Paper == [Settable -> Texts \cup {NoText}]

Loops == [kind : {"start", "main", "run", "question", "result"},
          of : 0..MaxRuns, quit : BOOLEAN]

Statuses == {NoStatus, 0, 1, Canceled}

\* The types of the variables.
UserInfoType ==
    /\ db \in [gecos : Seq(Texts), shell : Texts]
    /\ options \in OptionSets /\ habit \in Habits
    /\ form \in Paper /\ changedIn \subseteq Settable /\ borrowed \in BOOLEAN
    /\ window \in {"none", "sensitive", "insensitive", "destroyed"}
    /\ loops \in Seq(Loops)
    /\ runs \in 0..MaxRuns /\ tag \in 0..MaxRuns /\ watched \subseteq Runs
    /\ dialog \in BOOLEAN
    /\ helper \in [Runs -> {"unborn", "running", "waiting", "exited", "reaped"}]
    /\ args \in [Runs -> Paper]
    /\ asks \in [Runs -> Nat]
    /\ request \in [Runs -> {"", "info", "question"}]
    /\ replies \in [Runs -> Seq([to : 0..MaxRuns, cancel : BOOLEAN])]
    /\ status \in [Runs -> Statuses] /\ told \in [Runs -> Statuses]
    /\ fate \in {"", "returned", "exit", "signal"}

\* As long as the program lives it is in some main loop, or on its way.
Based == fate = "" => loops # <<>> /\ loops[1].kind \in {"start", "main", "run"}

\* A form or a command line has what the account has, but for what the user
\* has changed.
Unedited(p) ==
    /\ \A f \in Fields \ changedIn : TextOf(p[f]) = Shown(db, f)
    /\ "shell" \notin changedIn => p["shell"] = db.shell

\* So does everything that userinfo may save.
EditsOnly == Unedited(form) /\ \A h \in Runs : Unedited(args[h])

\* Only the newest helper can be at work, and the outcome of the others is
\* known; what is in a helper's pipe is for it.
OneAtATime ==
    \A h \in Runs :
       /\ h < runs => helper[h] = "reaped"
       /\ h > runs => helper[h] = "unborn"
       /\ helper[h] = "reaped" => told[h] = status[h]
       /\ \A i \in DOMAIN replies[h] : replies[h][i].to = h

Idle == runs = 0 \/ helper[runs] = "reaped"

\* Main loops at the bottom; above them at most a question, and at the top at
\* most what tells of the end of a helper.
Nested(stack) ==
    /\ stack # <<>> /\ stack[1].kind \in {"start", "main", "run"}
    /\ \A i \in DOMAIN stack :
          /\ stack[i].kind = "start" => Len(stack) = 1
          /\ stack[i].kind = "main" => i = 1
          /\ stack[i].kind = "run" =>
                i = 1 \/ (i = 2 /\ stack[1].kind = "main")
          /\ stack[i].kind = "result" => i = Len(stack)
          /\ stack[i].kind = "question" =>
                \/ i = Len(stack)
                \/ /\ i = Len(stack) - 1
                   /\ stack[Len(stack)].kind = "result"

\* The form is there for input if no helper is at work; a dialog belongs to
\* the newest helper; and unless the form is gone, the loop of a run is left
\* only when its helper is at an end.
InFront ==
    /\ Nested(loops)
    /\ loops[1].kind = "start" => runs = 0
    /\ window = "none" <=> loops[1].kind \in {"start", "run"}
    /\ window = "sensitive" => Len(loops) = 1 /\ Idle
    /\ window = "insensitive" => Len(loops) > 1 /\ loops[2].kind = "run"
    /\ \A i \in DOMAIN loops :
          /\ loops[i].kind \in {"question", "result"} =>
                loops[i].of = runs /\ runs # 0
          /\ loops[i].kind = "result" => Idle
          /\ loops[i].kind = "run" /\ loops[i].quit /\ window # "destroyed" =>
                Idle

UserInfoInv ==
    /\ UserInfoType /\ Based
    /\ EditsOnly
    /\ ~habit.dismiss => OneAtATime /\ (fate = "" => InFront)

-----------------------------------------------------------------------------
(* Stacks of loops.                                                        *)

\* A loop, a dialog or a reply more.
LEMMA PushIs ==
    ASSUME NEW S, NEW stack \in Seq(S), NEW l \in S
    PROVE  /\ Append(stack, l) \in Seq(S)
           /\ Len(stack) \in Nat
           /\ DOMAIN stack = 1..Len(stack)
           /\ DOMAIN Append(stack, l) = 1..(Len(stack) + 1)
           /\ Len(Append(stack, l)) = Len(stack) + 1
           /\ Append(stack, l)[Len(stack) + 1] = l
           /\ \A i \in DOMAIN stack : Append(stack, l)[i] = stack[i]
OBVIOUS

\* One less.
LEMMA PopIs ==
    ASSUME NEW stack \in Seq(Loops), stack # <<>>,
           NEW rest, rest = SubSeq(stack, 1, Len(stack) - 1)
    PROVE  /\ rest \in Seq(Loops)
           /\ Len(stack) \in Nat /\ Len(stack) >= 1
           /\ DOMAIN stack = 1..Len(stack)
           /\ DOMAIN rest = 1..(Len(stack) - 1)
           /\ Len(rest) = Len(stack) - 1
           /\ \A i \in DOMAIN rest : rest[i] = stack[i]
<1>1. Len(stack) \in Nat /\ Len(stack) >= 1 /\ DOMAIN stack = 1..Len(stack)
  OBVIOUS
<1> DEFINE n == Len(stack) - 1
<1>2. n \in Nat /\ n <= Len(stack)
  BY <1>1
<1>3. rest = [i \in 1..n |-> stack[i]]
  BY <1>1, <1>2
<1>4. \A i \in 1..n : stack[i] \in Loops
  BY <1>1, <1>2
<1> HIDE DEF n
<1>5. rest \in [1..n -> Loops]
  BY <1>3, <1>4
<1>6. rest \in Seq(Loops) /\ Len(rest) = n /\ DOMAIN rest = 1..n
  BY <1>2, <1>5
<1>7. QED BY <1>1, <1>3, <1>6 DEF n

\* gtk_main_quit() does no more than to tell some loop to end.
LEMMA QuitIs ==
    ASSUME NEW stack \in Seq(Loops)
    PROVE  /\ Quit(stack) \in Seq(Loops)
           /\ Len(Quit(stack)) = Len(stack)
           /\ DOMAIN Quit(stack) = DOMAIN stack
           /\ \A i \in DOMAIN stack : /\ Quit(stack)[i].kind = stack[i].kind
                                      /\ Quit(stack)[i].of = stack[i].of
<1>1. PICK m : Quit(stack) \in {stack, [stack EXCEPT ![m].quit = TRUE]}
  BY DEF Quit
<1>2. \A i \in DOMAIN stack : stack[i] \in Loops
  OBVIOUS
<1>3. CASE Quit(stack) = [stack EXCEPT ![m].quit = TRUE]
  <2> DEFINE after == [stack EXCEPT ![m].quit = TRUE]
  <2>1. DOMAIN stack = 1..Len(stack) /\ Len(stack) \in Nat
    OBVIOUS
  <2>2. ASSUME NEW i \in DOMAIN stack
        PROVE  /\ after[i] \in Loops
               /\ after[i].kind = stack[i].kind /\ after[i].of = stack[i].of
    BY <1>2, <2>2 DEF Loops
  <2>3. after = [i \in 1..Len(stack) |-> after[i]]
    BY <2>1
  <2>4. after \in Seq(Loops) /\ Len(after) = Len(stack)
    <3> HIDE DEF after
    <3>1. after \in [1..Len(stack) -> Loops]
      BY <2>1, <2>2, <2>3
    <3>2. QED BY <2>1, <3>1
  <2>5. QED BY <1>3, <2>1, <2>2, <2>4
<1>4. QED BY <1>1, <1>3

-----------------------------------------------------------------------------
(* Types.                                                                  *)

\* What is in the entries, and what is asked on the command line.
LEMMA EntriesType ==
    ASSUME NEW p \in Paper
    PROVE  Entries(p) \in [Settable -> Texts] /\ Entries(p) \in Paper
BY TextsAssumption DEF Paper, Entries, TextOf

\* The form that parse_userinfo() makes.
LEMMA ParseUserinfoType ==
    ASSUME NEW r \in [gecos : Seq(Texts), shell : Texts]
    PROVE  /\ ParseUserinfo(r) \in Paper
           /\ \A f \in Fields :
                 ParseUserinfo(r)[f] = GecosParse(r.gecos).fields[f]
           /\ ParseUserinfo(r)["shell"] = r.shell
<1>1. r.gecos \in Seq(Texts) /\ r.shell \in Texts
  OBVIOUS
<1>2. "shell" \notin Fields
  BY DEF Fields, FieldNames
<1>3. \A i : Part(r.gecos, i) \in Texts \cup {NoText}
  BY <1>1 DEF Part
<1>4. ParseUserinfo(r) \in Paper
  BY <1>1, <1>3 DEF ParseUserinfo, Paper
<1>5. \A f \in Fields : ParseUserinfo(r)[f] = GecosParse(r.gecos).fields[f]
  BY <1>2 DEF ParseUserinfo, Settable, GecosParse, Part
<1>6. ParseUserinfo(r)["shell"] = r.shell
  BY DEF ParseUserinfo, Settable
<1>7. QED BY <1>4, <1>5, <1>6

\* What starting a helper sets.
LEMMA RunvIs ==
    ASSUME UserInfoType, NEW p \in Paper, Runv(p)
    PROVE  /\ runs' = runs + 1 /\ runs' \in Runs
           /\ tag' \in 0..MaxRuns /\ watched' \subseteq Runs
           /\ helper' = [helper EXCEPT ![runs'] = "running"]
           /\ args' = [args EXCEPT ![runs'] = p] /\ args' \in [Runs -> Paper]
           /\ helper' \in [Runs -> {"unborn", "running", "waiting", "exited",
                                    "reaped"}]
<1>1. runs' = runs + 1 /\ runs' \in Runs
  <2>1. runs \in 0..MaxRuns /\ MaxRuns \in Nat
    BY RunsAssumption DEF UserInfoType
  <2>2. runs < MaxRuns /\ runs' = runs + 1
    BY DEF Runv
  <2>3. QED BY <2>1, <2>2 DEF Runs
<1>2. /\ tag' = runs' /\ watched' = watched \cup {runs'}
      /\ helper' = [helper EXCEPT ![runs'] = "running"]
      /\ args' = [args EXCEPT ![runs'] = p]
  BY DEF Runv
<1>3. tag' \in 0..MaxRuns /\ watched' \subseteq Runs
  <2>1. runs' \in 0..MaxRuns
    BY <1>1, RunsAssumption DEF Runs
  <2>2. watched \subseteq Runs
    BY DEF UserInfoType
  <2>3. QED BY <1>1, <1>2, <2>1, <2>2
<1>4. /\ args' \in [Runs -> Paper]
      /\ helper' \in [Runs -> {"unborn", "running", "waiting", "exited",
                               "reaped"}]
  BY <1>1, <1>2 DEF UserInfoType
<1>5. QED BY <1>1, <1>2, <1>3, <1>4

\* The three ways to start: with the form, with nothing to do, and with a run.
LEMMA StartIs ==
    ASSUME Start
    PROVE  /\ fate = "" /\ Top.kind = "start"
           /\ UNCHANGED <<db, formVars, dialog, told, asks, request, replies,
                          status>>
           /\ \/ /\ window' = "sensitive" /\ loops' = <<Loop("main", 0)>>
                 /\ UNCHANGED <<runs, tag, watched, helper, args, fate>>
              \/ /\ fate' = "returned" /\ loops' = <<>>
                 /\ UNCHANGED <<window, runs, tag, watched, helper, args>>
              \/ /\ Runv(form) /\ loops' = <<Loop("run", 1)>>
                 /\ UNCHANGED <<window, fate>>
BY DEF Start, Ends

\* What a helper saves.
LEMMA SavedIs ==
    ASSUME NEW r \in [gecos : Seq(Texts), shell : Texts], NEW p \in Paper,
           MaySave(r, p)
    PROVE  /\ Saved(r, p) \in [gecos : Seq(Texts), shell : Texts]
           /\ Saved(r, p).shell = p["shell"]
           /\ \A f \in Fields :
                 Shown(Saved(r, p), f)
                    = IF p[f] # NoText THEN TextOf(p[f]) ELSE Shown(r, f)
           /\ GecosParse(Saved(r, p).gecos).site_info
                 = Stripped(GecosParse(r.gecos).site_info)
<1> DEFINE g == GecosParse(r.gecos)
           fs == [f \in Fields |-> IF p[f] # NoText THEN p[f] ELSE g.fields[f]]
           q == [g EXCEPT !.fields = fs]
<1>1. g \in GecosData
  BY ParseType
<1>2. fs \in [Fields -> Texts \cup {NoText}]
  BY <1>1 DEF Paper, Settable, GecosData
<1>3. /\ q \in GecosData /\ q.site_info = g.site_info
      /\ \A f \in Fields : q.fields[f] = fs[f]
  BY <1>1, <1>2 DEF GecosData
<1>4. /\ Saved(r, p).gecos = GecosAssemble(q)
      /\ Saved(r, p) = [gecos |-> GecosAssemble(q), shell |-> p["shell"]]
  BY DEF Saved
<1>5. p["shell"] \in Texts
  BY ShellsAssumption DEF MaySave
<1> HIDE DEF g, fs, q
<1>6. GecosAssemble(q) \in Seq(Texts)
  BY <1>3, AssembleType
<1>7. ASSUME NEW f \in Fields
      PROVE  Shown(Saved(r, p), f)
                = IF p[f] # NoText THEN TextOf(p[f]) ELSE Shown(r, f)
  <2>1. Shown(Saved(r, p), f) = TextOf(q.fields[f])
    BY <1>3, <1>4, FieldsSurvive DEF Shown
  <2>2. q.fields[f] = IF p[f] # NoText THEN p[f] ELSE g.fields[f]
    BY <1>3 DEF fs
  <2>3. QED BY <2>1, <2>2 DEF Shown, g
<1>8. GecosParse(Saved(r, p).gecos).site_info = Stripped(g.site_info)
  BY <1>3, <1>4, SiteInfoSurvives
<1>9. QED BY <1>4, <1>5, <1>6, <1>7, <1>8 DEF g

\* Numbers of runs, and none.
LEMMA RunNumbers ==
    /\ MaxRuns \in Nat /\ Runs \subseteq 0..MaxRuns
    /\ 0 \in 0..MaxRuns /\ 1 \in 0..MaxRuns /\ 1 \in Runs
BY RunsAssumption DEF Runs

\* A loop of runs and dialogs.
LEMMA LoopType ==
    ASSUME NEW kind \in {"start", "main", "run", "question", "result"},
           NEW of \in 0..MaxRuns
    PROVE  /\ Loop(kind, of) \in Loops
           /\ Loop(kind, of).kind = kind /\ Loop(kind, of).of = of
           /\ Loop(kind, of).quit = FALSE
BY DEF Loop, Loops

\* The initial state has these types, and a form in which only the command
\* line has changed anything.
LEMMA InitTyped == Init => UserInfoType /\ Based /\ EditsOnly
<1> SUFFICES ASSUME Init PROVE UserInfoType /\ Based /\ EditsOnly
  OBVIOUS
<1>1. db \in [gecos : Seq(Texts), shell : Texts]
  BY GecosesAssumption, ShellsAssumption DEF Init
<1>2. PICK p : p = ParseUserinfo(db)
  OBVIOUS
<1>3. /\ p \in Paper /\ p["shell"] \in Texts
      /\ \A f \in Fields : TextOf(p[f]) = Shown(db, f)
      /\ p["shell"] = db.shell
  BY <1>1, <1>2, ParseUserinfoType DEF Shown
<1>4. options.new \in [Settable -> Texts \cup {NoText}]
  BY OptionsAssumption DEF Init, Settable
<1>5. /\ form = ParseArgs(p, options.new)
      /\ changedIn = {f \in Settable : options.new[f] # NoText}
  BY <1>2 DEF Init
<1>6. form \in Paper
  BY <1>3, <1>4, <1>5 DEF ParseArgs, Paper
<1>7. \A f \in Settable \ changedIn : form[f] = p[f]
  BY <1>5 DEF ParseArgs
<1>8. Unedited(form)
  BY <1>3, <1>7 DEF Unedited, Settable
<1>9. args = [h \in Runs |-> form]
  BY DEF Init
<1>10. EditsOnly
  BY <1>8, <1>9 DEF EditsOnly
<1>11. loops \in Seq(Loops) /\ loops[1].kind = "start" /\ loops # <<>>
  <2>1. Loop("start", 0) \in Loops /\ Loop("start", 0).kind = "start"
    BY LoopType, RunNumbers
  <2>2. loops = <<Loop("start", 0)>>
    BY DEF Init
  <2>3. QED BY <2>1, <2>2
<1>12. UserInfoType /\ Based
  <2>1. /\ db \in [gecos : Seq(Texts), shell : Texts]
        /\ options \in OptionSets /\ habit \in Habits /\ form \in Paper
        /\ changedIn \subseteq Settable /\ borrowed \in BOOLEAN
        /\ window = "none"
    BY <1>1, <1>5, <1>6 DEF Init
  <2>2. runs \in 0..MaxRuns /\ tag \in 0..MaxRuns /\ watched = {}
    BY RunNumbers DEF Init
  <2>3. args \in [Runs -> Paper]
    BY <1>6, <1>9
  <2>4. replies \in [Runs -> Seq([to : 0..MaxRuns, cancel : BOOLEAN])]
    <3>1. <<>> \in Seq([to : 0..MaxRuns, cancel : BOOLEAN])
      OBVIOUS
    <3>2. replies = [h \in Runs |-> <<>>]
      BY DEF Init
    <3>3. QED BY <3>1, <3>2
  <2>5. /\ helper \in [Runs -> {"unborn", "running", "waiting", "exited",
                               "reaped"}]
        /\ request \in [Runs -> {"", "info", "question"}]
        /\ status \in [Runs -> Statuses] /\ told \in [Runs -> Statuses]
    BY DEF Init, Statuses
  <2>6. asks \in [Runs -> Nat] /\ dialog = FALSE /\ fate = ""
    BY RunsAssumption DEF Init
  <2>7. UserInfoType
    BY <1>11, <2>1, <2>2, <2>3, <2>4, <2>5, <2>6 DEF UserInfoType
  <2>8. QED BY <2>7, <1>11 DEF Based
<1>13. QED BY <1>10, <1>12

\* Every step keeps them.
LEMMA TypeKeeps ==
    ASSUME UserInfoType, Based, Next
    PROVE  UserInfoType'
<1> USE DEF formVars, frontVars, helperVars
<1>1. <<>> \in Seq(Loops) /\ loops \in Seq(Loops)
  <2>1. <<>> \in Seq(Loops)
    OBVIOUS
  <2>2. QED BY <2>1 DEF UserInfoType
<1>2. Quit(loops) \in Seq(Loops)
  BY <1>1, QuitIs
<1>3. ASSUME NEW h \in 0..MaxRuns,
             NEW kind \in {"main", "run", "question", "result"}
      PROVE  /\ Append(loops, Loop(kind, h)) \in Seq(Loops)
             /\ <<Loop(kind, h)>> \in Seq(Loops)
  <2>1. Loop(kind, h) \in Loops
    BY <1>3, LoopType
  <2>2. QED BY <1>1, <2>1
<1>4. 0 \in 0..MaxRuns /\ Runs \subseteq 0..MaxRuns
  BY RunNumbers
<1>5. CASE Start
  <2>1. form \in Paper
    BY DEF UserInfoType
  <2>2. loops' \in Seq(Loops)
    BY <1>1, <1>3, <1>5, RunNumbers, StartIs
  <2>3. CASE Runv(form)
    <3>1. /\ UNCHANGED <<db, formVars, dialog, told, asks, request, replies,
                         status>>
          /\ window' \in {window, "sensitive"} /\ fate' \in {fate, "returned"}
      BY <1>5, StartIs
    <3>2. QED BY <2>1, <2>2, <2>3, <3>1, <1>4, RunvIs DEF UserInfoType
  <2>4. CASE UNCHANGED <<runs, tag, watched, helper, args>>
    <3>1. /\ UNCHANGED <<db, formVars, dialog, told, asks, request, replies,
                         status>>
          /\ window' \in {window, "sensitive"} /\ fate' \in {fate, "returned"}
      BY <1>5, StartIs
    <3>2. QED BY <2>2, <2>4, <3>1 DEF UserInfoType
  <2>5. QED BY <1>5, <2>3, <2>4, StartIs
<1>6. ASSUME NEW e \in Edits, Edit(e[1], e[2]) PROVE UserInfoType'
  <2>1. e[1] \in Settable /\ e[2] \in Texts
    BY EditsAssumption DEF Settable
  <2>2. /\ form' \in {form, [form EXCEPT ![e[1]] = e[2]]}
        /\ changedIn' \in {changedIn, changedIn \cup {e[1]}}
        /\ borrowed' \in {borrowed, borrowed /\ e[1] # "shell"}
        /\ loops' \in {loops, <<>>} /\ fate' \in {fate, "signal"}
        /\ UNCHANGED <<db, options, habit, window, runs, tag, watched, dialog,
                       told, helperVars>>
    BY <1>6 DEF Edit, Ends
  <2>3. form' \in Paper
    BY <2>1, <2>2 DEF UserInfoType, Paper
  <2>4. changedIn' \subseteq Settable /\ borrowed' \in BOOLEAN
    BY <2>1, <2>2 DEF UserInfoType
  <2>5. QED BY <2>2, <2>3, <2>4, <1>1 DEF UserInfoType
<1>7. CASE Apply
  <2>1. form \in Paper /\ Entries(form) \in Paper /\ Runv(Entries(form))
    BY <1>7, EntriesType DEF UserInfoType, Apply
  <2>2. loops' = Append(loops, Loop("run", runs')) /\ form' = Entries(form)
    BY <1>7 DEF Apply
  <2>3. runs' \in Runs
    BY <2>1, RunvIs
  <2>4. loops' \in Seq(Loops)
    BY <2>2, <2>3, <1>3, <1>4
  <2>5. /\ window' = "insensitive"
        /\ UNCHANGED <<db, options, habit, changedIn, borrowed, dialog, told,
                       fate, asks, request, replies, status>>
    BY <1>7 DEF Apply
  <2>6. QED BY <2>1, <2>2, <2>4, <2>5, <1>4, RunvIs DEF UserInfoType
<1>8. CASE Close \/ DestroyForm \/ DismissMessages
  <2>1. /\ loops' = Quit(loops) /\ window' \in {window, "destroyed"}
        /\ UNCHANGED <<db, formVars, helperVars, runs, tag, watched, dialog,
                       told, fate>>
    BY <1>8 DEF Close, DestroyForm, DismissMessages
  <2>2. QED BY <2>1, <1>2 DEF UserInfoType
<1>9. CASE CloseQuestion
  BY <1>9, <1>1 DEF CloseQuestion, Ends, UserInfoType
<1>10. CASE ResultRead
  <2>1. loops # <<>> \/ loops = <<>>
    OBVIOUS
  <2>2. SubSeq(loops, 1, Len(loops) - 1) \in Seq(Loops)
    BY <1>1, PopIs
  <2>3. loops' \in Seq(Loops)
    BY <1>10, <2>2, QuitIs DEF ResultRead
  <2>4. QED BY <1>10, <2>3 DEF ResultRead, UserInfoType
<1>11. ASSUME NEW h, NEW cancel \in BOOLEAN, WriteReply(h, cancel),
              h \in 0..MaxRuns
       PROVE  replies' \in [Runs -> Seq([to : 0..MaxRuns, cancel : BOOLEAN])]
  <2>1. Reply(h, cancel) \in [to : 0..MaxRuns, cancel : BOOLEAN]
    BY <1>11 DEF Reply
  <2>2. replies' = [replies EXCEPT ![runs] =
                       Append(replies[runs], Reply(h, cancel))]
    BY <1>11 DEF WriteReply, Reader
  <2>3. replies \in [Runs -> Seq([to : 0..MaxRuns, cancel : BOOLEAN])]
    BY DEF UserInfoType
  <2>4. ASSUME runs \in Runs
        PROVE  Append(replies[runs], Reply(h, cancel))
                  \in Seq([to : 0..MaxRuns, cancel : BOOLEAN])
    BY <2>1, <2>3, <2>4, PushIs
  <2>5. QED BY <2>2, <2>3, <2>4
<1>12. ASSUME NEW cancel \in BOOLEAN, Answer(cancel) PROVE UserInfoType'
  <2>1. /\ UNCHANGED <<db, formVars, window, runs, tag, watched, dialog, told,
                       helper, args, asks, request, status>>
        /\ fate' \in {fate, "signal"}
    BY <1>12 DEF Answer, Ends
  <2>2. loops # <<>>
    BY <1>12 DEF Answer, Based
  <2>3. Top \in Loops
    BY <1>1, <2>2 DEF Top
  <2>31. Top.of \in 0..MaxRuns
    BY <2>3 DEF Loops
  <2>4. loops' \in Seq(Loops)
    BY <1>1, <1>12, <2>2, PopIs DEF Answer, Ends, Pop
  <2>5. replies' \in [Runs -> Seq([to : 0..MaxRuns, cancel : BOOLEAN])]
    <3>1. UNCHANGED replies \/ WriteReply(Top.of, cancel)
      BY <1>12 DEF Answer
    <3>2. replies \in [Runs -> Seq([to : 0..MaxRuns, cancel : BOOLEAN])]
      BY DEF UserInfoType
    <3>3. QED BY <1>11, <2>31, <3>1, <3>2
  <2>6. QED BY <2>1, <2>4, <2>5 DEF UserInfoType
<1>13. CASE Return
  <2>1. loops # <<>>
    BY <1>13 DEF Return, Based
  <2>2. loops' \in Seq(Loops)
    BY <1>1, <1>13, <2>1, PopIs DEF Return, Ends, Pop
  <2>3. /\ window' \in {window, "sensitive"}
        /\ fate' \in {fate, "returned", "signal"}
        /\ UNCHANGED <<db, formVars, helperVars, runs, tag, watched, dialog,
                       told>>
    BY <1>13 DEF Return, Ends
  <2>4. QED BY <2>2, <2>3 DEF UserInfoType
<1>14. ASSUME NEW h \in Runs, HelperStep(h) PROVE UserInfoType'
  <2>1. CASE \E kind \in {"info", "question"} : Asks(h, kind)
    <3>1. PICK kind \in {"info", "question"} : Asks(h, kind)
      BY <2>1
    <3>2. asks[h] \in Nat /\ asks[h] > 0
      BY <3>1 DEF Asks, UserInfoType
    <3>3. asks[h] - 1 \in Nat
      BY <3>2
    <3>4. QED BY <3>1, <3>3 DEF Asks, UserInfoType
  <2>2. CASE ReadsReply(h)
    <3>1. Tail(replies[h]) \in Seq([to : 0..MaxRuns, cancel : BOOLEAN])
      <4>1. replies[h] \in Seq([to : 0..MaxRuns, cancel : BOOLEAN])
        BY DEF UserInfoType
      <4>2. replies[h] # <<>>
        BY <2>2 DEF ReadsReply
      <4>3. QED BY <4>1, <4>2
    <3>2. replies' \in [Runs -> Seq([to : 0..MaxRuns, cancel : BOOLEAN])]
      BY <2>2, <3>1 DEF ReadsReply, UserInfoType
    <3>3. /\ helper' \in {[helper EXCEPT ![h] = "exited"],
                          [helper EXCEPT ![h] = "running"]}
          /\ status' \in {status, [status EXCEPT ![h] = Canceled]}
          /\ UNCHANGED <<db, formVars, frontVars, args, asks, request>>
      BY <2>2 DEF ReadsReply
    <3>4. QED BY <3>2, <3>3 DEF UserInfoType, Statuses
  <2>3. CASE Saves(h)
    <3>1. db' \in [gecos : Seq(Texts), shell : Texts]
      BY <2>3, SavedIs DEF Saves, UserInfoType
    <3>2. /\ helper' = [helper EXCEPT ![h] = "exited"]
          /\ status' = [status EXCEPT ![h] = 0]
          /\ UNCHANGED <<formVars, frontVars, args, asks, request, replies>>
      BY <2>3 DEF Saves
    <3>3. QED BY <3>1, <3>2 DEF UserInfoType, Statuses
  <2>4. CASE Fails(h)
    BY <2>4 DEF Fails, UserInfoType, Statuses
  <2>5. QED BY <1>14, <2>1, <2>2, <2>3, <2>4 DEF HelperStep
<1>15. ASSUME NEW h \in Runs, FrontStep(h) PROVE UserInfoType'
  <2>1. CASE Reads(h)
    <3>1. replies' \in [Runs -> Seq([to : 0..MaxRuns, cancel : BOOLEAN])]
      BY <2>1, <1>11, <1>4 DEF Reads, UserInfoType
    <3>2. loops' \in Seq(Loops)
      BY <2>1, <1>1, <1>3, <1>4 DEF Reads, Ends
    <3>3. /\ request' = [request EXCEPT ![h] = ""]
          /\ dialog' \in {dialog, TRUE, FALSE}
          /\ fate' \in {fate, "exit", "signal"}
          /\ UNCHANGED <<db, formVars, window, runs, tag, watched, told,
                         helper, args, asks, status>>
      BY <2>1 DEF Reads, Ends
    <3>4. QED BY <3>1, <3>2, <3>3 DEF UserInfoType
  <2>2. CASE HangUp(h)
    BY <2>2, <1>4 DEF HangUp, UserInfoType
  <2>3. CASE ChildExited(h)
    <3>1. loops' \in {loops, Quit(loops), Append(loops, Loop("result", h))}
      BY <2>3 DEF ChildExited
    <3>2. loops' \in Seq(Loops)
      BY <3>1, <1>1, <1>2, <1>3, <1>4
    <3>3. /\ helper' = [helper EXCEPT ![h] = "reaped"]
          /\ watched' \subseteq watched /\ tag' \in {tag, 0}
          /\ told' \in {told, [told EXCEPT ![h] = status[h]]}
          /\ UNCHANGED <<db, formVars, window, runs, dialog, fate, args, asks,
                         request, replies, status>>
      BY <2>3 DEF ChildExited
    <3>4. QED BY <3>2, <3>3, <1>4 DEF UserInfoType
  <2>4. QED BY <1>15, <2>1, <2>2, <2>3 DEF FrontStep
<1>16. CASE Over
  BY <1>16 DEF Over, vars, UserInfoType
<1>17. QED
  BY <1>5, <1>6, <1>7, <1>8, <1>9, <1>10, <1>12, <1>13, <1>14, <1>15, <1>16
  DEF Next, UserStep, Responds

\* There is a loop below every dialog.
Rooted(stack) == stack # <<>> /\ stack[1].kind \in {"start", "main", "run"}

\* A loop or a dialog more does not change that.
LEMMA RootedPush ==
    ASSUME NEW stack \in Seq(Loops), Rooted(stack), NEW l \in Loops
    PROVE  Rooted(Append(stack, l))
BY PushIs DEF Rooted

\* Neither does one less, if it is not the last, or if it is a dialog.
LEMMA RootedPop ==
    ASSUME NEW stack \in Seq(Loops), Rooted(stack),
           Len(stack) # 1 \/ stack[Len(stack)].kind \in {"question", "result"},
           NEW rest, rest = SubSeq(stack, 1, Len(stack) - 1)
    PROVE  Len(stack) > 1 /\ Rooted(rest)
<1>1. Len(stack) \in Nat /\ Len(stack) >= 1
  BY PopIs DEF Rooted
<1>2. Len(stack) # 1
  <2>1. stack[1].kind \notin {"question", "result"}
    BY DEF Rooted
  <2>2. QED BY <2>1
<1>3. PICK n \in Nat : n = Len(stack) /\ n > 1
  <2>1. PICK m \in Nat : m = Len(stack) /\ m >= 1 /\ m # 1
    BY <1>1, <1>2
  <2>2. QED BY <2>1
<1>4. /\ rest \in Seq(Loops) /\ Len(rest) = n - 1
      /\ \A i \in 1..(n - 1) : rest[i] = stack[i]
  BY <1>3, PopIs DEF Rooted
<1>5. rest # <<>> /\ rest[1] = stack[1]
  <2>1. 1 \in 1..(n - 1) /\ n - 1 # 0
    BY <1>3
  <2>2. Len(rest) # 0
    BY <1>4, <2>1
  <2>3. rest # <<>>
    BY <2>2
  <2>4. QED BY <1>4, <2>1, <2>3
<1>6. QED BY <1>3, <1>5 DEF Rooted

\* Nor does telling a loop to end.
LEMMA RootedQuit ==
    ASSUME NEW stack \in Seq(Loops), Rooted(stack)
    PROVE  Rooted(Quit(stack))
<1>1. 1 \in DOMAIN stack
  BY DEF Rooted
<1>2. 1 \in DOMAIN Quit(stack) /\ Quit(stack)[1].kind = stack[1].kind
  BY <1>1, QuitIs
<1>3. QED BY <1>2 DEF Rooted

\* The program stays in a main loop until it ends.
LEMMA BasedKeeps ==
    ASSUME UserInfoType, Based, Next
    PROVE  Based'
<1> USE DEF formVars, frontVars, helperVars
<1>1. loops \in Seq(Loops) /\ (fate = "" => Rooted(loops))
  BY DEF UserInfoType, Based, Rooted
<1>2. fate' = "" /\ Rooted(loops') => Based'
  BY DEF Based, Rooted
<1>3. fate' # "" => Based'
  BY DEF Based
<1>4. UNCHANGED <<fate, loops>> => Based'
  BY DEF Based
<1>5. ASSUME NEW h \in 0..MaxRuns,
             NEW kind \in {"main", "run", "question", "result"}, fate = ""
      PROVE  Rooted(Append(loops, Loop(kind, h)))
  BY <1>1, <1>5, LoopType, RootedPush
<1>6. \A h \in Runs : h \in 0..MaxRuns
  BY RunNumbers
<1>7. CASE Start
  <2>1. Rooted(<<Loop("main", 0)>>) /\ Rooted(<<Loop("run", 1)>>)
    BY LoopType, RunNumbers DEF Rooted
  <2>2. QED BY <1>2, <1>3, <1>7, <2>1, StartIs
<1>8. ASSUME NEW e \in Edits, Edit(e[1], e[2]) PROVE Based'
  BY <1>3, <1>4, <1>8 DEF Edit, Ends
<1>9. CASE Apply
  <2>1. runs' \in Runs
    BY <1>9, EntriesType, RunvIs DEF UserInfoType, Apply
  <2>2. fate = "" /\ fate' = fate /\ loops' = Append(loops, Loop("run", runs'))
    BY <1>9 DEF Apply, AtForm
  <2>3. QED BY <1>2, <1>5, <1>6, <2>1, <2>2
<1>10. CASE Close \/ DestroyForm \/ DismissMessages
  <2>1. fate = "" /\ fate' = fate /\ loops' = Quit(loops)
    BY <1>10 DEF Close, DestroyForm, DismissMessages, AtForm
  <2>2. QED BY <1>1, <1>2, <2>1, RootedQuit
<1>11. CASE CloseQuestion
  BY <1>3, <1>11 DEF CloseQuestion, Ends
<1>12. CASE ResultRead
  <2> DEFINE rest == SubSeq(loops, 1, Len(loops) - 1)
  <2>1. /\ fate = "" /\ fate' = fate /\ loops' = Quit(rest)
        /\ loops[Len(loops)].kind = "result"
    BY <1>12 DEF ResultRead, Top
  <2>2. Rooted(rest) /\ rest \in Seq(Loops)
    BY <1>1, <2>1, RootedPop, PopIs DEF Rooted
  <2>3. QED BY <1>2, <2>1, <2>2, RootedQuit
<1>13. ASSUME NEW cancel \in BOOLEAN, Answer(cancel) PROVE Based'
  <2>1. CASE ReaderGone
    BY <1>3, <1>13, <2>1 DEF Answer, Ends
  <2>2. CASE ~ReaderGone
    <3>1. /\ fate = "" /\ fate' = fate /\ loops[Len(loops)].kind = "question"
          /\ loops' = SubSeq(loops, 1, Len(loops) - 1)
      BY <1>13, <2>2 DEF Answer, Top, Pop
    <3>2. QED BY <1>1, <1>2, <3>1, RootedPop
  <2>3. QED BY <2>1, <2>2
<1>14. CASE Return
  <2>1. CASE fate' = ""
    <3>1. /\ fate = "" /\ Len(loops) # 1
          /\ loops' = SubSeq(loops, 1, Len(loops) - 1)
      BY <1>14, <2>1 DEF Return, Ends, Pop
    <3>2. QED BY <1>1, <1>2, <2>1, <3>1, RootedPop
  <2>2. QED BY <1>3, <2>1
<1>15. ASSUME NEW h \in Runs, HelperStep(h) PROVE Based'
  BY <1>4, <1>15 DEF HelperStep, Asks, ReadsReply, Saves, Fails
<1>16. ASSUME NEW h \in Runs, FrontStep(h) PROVE Based'
  <2>1. \/ UNCHANGED <<fate, loops>>
        \/ fate' # ""
        \/ /\ fate = "" /\ fate' = fate
           /\ \/ loops' = Append(loops, Loop("question", h))
              \/ loops' = Append(loops, Loop("result", h))
              \/ loops' = Quit(loops)
    BY <1>16 DEF FrontStep, Reads, HangUp, ChildExited, Dispatchable, Ends
  <2>2. QED BY <1>1, <1>2, <1>3, <1>4, <1>5, <1>6, <2>1, RootedQuit
<1>17. CASE Over
  BY <1>4, <1>17 DEF Over, vars
<1>18. QED
  BY <1>7, <1>8, <1>9, <1>10, <1>11, <1>12, <1>13, <1>14, <1>15, <1>16, <1>17
  DEF Next, UserStep, Responds

-----------------------------------------------------------------------------
(* What is saved.                                                          *)

\* on_ok_clicked() fills in what parse_userinfo() has left open.
LEMMA EntriesUnedited ==
    ASSUME UserInfoType, NEW p \in Paper, Unedited(p)
    PROVE  Unedited(Entries(p))
<1>1. \A f \in Settable : p[f] \in Texts \cup {NoText}
  BY DEF Paper
<1>2. \A t \in Texts \cup {NoText} : TextOf(TextOf(t)) = TextOf(t)
  BY TextsAssumption, NoTextAssumption DEF TextOf
<1>3. \A f \in Settable : Entries(p)[f] = TextOf(p[f])
  BY DEF Entries
<1>4. \A f \in Fields \ changedIn : TextOf(Entries(p)[f]) = Shown(db, f)
  BY <1>1, <1>2, <1>3 DEF Unedited, Settable
<1>5. ASSUME "shell" \notin changedIn PROVE Entries(p)["shell"] = db.shell
  <2>1. p["shell"] = db.shell /\ db.shell \in Texts
    BY <1>5 DEF Unedited, UserInfoType
  <2>2. QED BY <2>1, <1>3, NoTextAssumption DEF TextOf, Settable
<1>6. QED BY <1>4, <1>5 DEF Unedited

\* A helper that saves leaves alone what the user has.
LEMMA SavesEdits ==
    ASSUME UserInfoType, EditsOnly, NEW h \in Runs, Saves(h)
    PROVE  /\ \A f \in Fields \ changedIn : Shown(db', f) = Shown(db, f)
           /\ "shell" \notin changedIn => db'.shell = db.shell
           /\ GecosParse(db'.gecos).site_info =
                 Stripped(GecosParse(db.gecos).site_info)
<1>1. /\ db \in [gecos : Seq(Texts), shell : Texts] /\ args[h] \in Paper
      /\ MaySave(db, args[h]) /\ db' = Saved(db, args[h])
  BY DEF UserInfoType, Saves
<1>2. Unedited(args[h])
  BY DEF EditsOnly
<1>3. /\ db'.shell = args[h]["shell"]
      /\ \A f \in Fields :
            Shown(db', f) = IF args[h][f] # NoText THEN TextOf(args[h][f])
                            ELSE Shown(db, f)
      /\ GecosParse(db'.gecos).site_info
            = Stripped(GecosParse(db.gecos).site_info)
  BY <1>1, SavedIs
<1>4. QED BY <1>2, <1>3 DEF Unedited

\* Whatever the form and the helpers hold stays unedited.
LEMMA EditsKeep ==
    ASSUME UserInfoType, EditsOnly, Next
    PROVE  EditsOnly'
<1> USE DEF formVars, frontVars, helperVars
<1>1. UNCHANGED <<db, form, changedIn, args>> => EditsOnly'
  BY DEF EditsOnly, Unedited, Shown
<1>3. form \in Paper /\ Unedited(form) /\ \A h \in Runs : Unedited(args[h])
  BY DEF UserInfoType, EditsOnly
<1>4. ASSUME NEW p \in Paper, Unedited(p), Runv(p), UNCHANGED <<db, changedIn>>
      PROVE  \A h \in Runs : Unedited(args[h])'
  <2>1. args' = [args EXCEPT ![runs'] = p] /\ args \in [Runs -> Paper]
    BY <1>4, RunvIs DEF UserInfoType
  <2>2. \A h \in Runs : args'[h] = args[h] \/ args'[h] = p
    BY <2>1
  <2>3. QED BY <1>3, <1>4, <2>2 DEF Unedited
<1>5. CASE Start
  <2>1. CASE Runv(form)
    <3>1. UNCHANGED <<db, form, changedIn>>
      BY <1>5, StartIs
    <3>2. QED BY <1>3, <1>4, <2>1, <3>1 DEF EditsOnly, Unedited
  <2>2. CASE UNCHANGED args
    <3>1. UNCHANGED <<db, form, changedIn>>
      BY <1>5, StartIs
    <3>2. QED BY <1>1, <2>2, <3>1
  <2>3. QED BY <1>5, <2>1, <2>2, StartIs
<1>6. ASSUME NEW e \in Edits, Edit(e[1], e[2]) PROVE EditsOnly'
  <2>1. CASE UNCHANGED <<form, changedIn>>
    BY <1>1, <1>6, <2>1 DEF Edit
  <2>2. CASE /\ form' = [form EXCEPT ![e[1]] = e[2]]
             /\ changedIn' = changedIn \cup {e[1]}
    <3>1. UNCHANGED <<db, args>>
      BY <1>6 DEF Edit
    <3>2. \A f \in Settable \ changedIn' :
             f \notin changedIn /\ form'[f] = form[f]
      BY <1>3, <2>2 DEF Paper
    <3>3. Unedited(form)'
      BY <1>3, <3>1, <3>2 DEF Unedited, Settable
    <3>4. \A h \in Runs : Unedited(args[h])'
      BY <1>3, <2>2, <3>1 DEF Unedited
    <3>5. QED BY <3>3, <3>4 DEF EditsOnly
  <2>3. QED BY <1>6, <2>1, <2>2 DEF Edit
<1>7. CASE Apply
  <2>1. /\ form' = Entries(form) /\ Runv(Entries(form))
        /\ UNCHANGED <<db, changedIn>>
    BY <1>7 DEF Apply
  <2>2. Entries(form) \in Paper /\ Unedited(Entries(form))
    BY <1>3, EntriesType, EntriesUnedited
  <2>3. \A h \in Runs : Unedited(args[h])'
    BY <1>4, <2>1, <2>2
  <2>4. Unedited(form)'
    BY <2>1, <2>2 DEF Unedited
  <2>5. QED BY <2>3, <2>4 DEF EditsOnly
<1>8. ASSUME NEW h \in Runs, Saves(h) PROVE EditsOnly'
  <2>1. UNCHANGED <<form, changedIn, args>>
    BY <1>8 DEF Saves
  <2>2. /\ \A f \in Fields \ changedIn : Shown(db', f) = Shown(db, f)
        /\ "shell" \notin changedIn => db'.shell = db.shell
    BY <1>8, SavesEdits
  <2>3. QED BY <1>3, <2>1, <2>2 DEF EditsOnly, Unedited, Shown
<1>9. CASE Close \/ DestroyForm \/ DismissMessages \/ CloseQuestion
  BY <1>1, <1>9 DEF Close, DestroyForm, DismissMessages, CloseQuestion
<1>10. CASE Responds \/ Return
  BY <1>1, <1>10 DEF Responds, ResultRead, Answer, Return
<1>11. ASSUME NEW h \in Runs, HelperStep(h), ~Saves(h) PROVE EditsOnly'
  BY <1>1, <1>11 DEF HelperStep, Asks, ReadsReply, Fails
<1>12. ASSUME NEW h \in Runs, FrontStep(h) PROVE EditsOnly'
  BY <1>1, <1>12 DEF FrontStep, Reads, HangUp, ChildExited
<1>13. CASE Over
  BY <1>1, <1>13 DEF Over, vars
<1>14. QED
  BY <1>5, <1>6, <1>7, <1>8, <1>9, <1>10, <1>11, <1>12, <1>13
  DEF Next, UserStep

-----------------------------------------------------------------------------
(* One helper at a time, for a user who reads his messages.                *)

\* What is in front of the user stays so, as long as no helper starts.
LEMMA FrontStays ==
    ASSUME InFront, UNCHANGED <<loops, window, runs>>, Idle => Idle'
    PROVE  InFront'
<1>1. Nested(loops)' <=> Nested(loops)
  BY DEF Nested
<1>2. QED BY <1>1 DEF InFront

\* Helpers and the newest one, as numbers.
LEMMA HelperNumbers ==
    ASSUME UserInfoType, NEW h \in Runs
    PROVE  h \in Nat /\ h # 0 /\ runs \in Nat
<1>1. runs \in 0..MaxRuns
  BY DEF UserInfoType
<1>2. h \in 1..MaxRuns
  BY DEF Runs
<1>3. QED BY <1>1, <1>2, RunNumbers

\* Only the newest helper works.
LEMMA NewestWorks ==
    ASSUME UserInfoType, OneAtATime, NEW h \in Runs,
           helper[h] \in {"running", "waiting", "exited"}
    PROVE  h = runs /\ ~Idle
<1>1. h \in Nat /\ runs \in Nat /\ h # 0
  BY HelperNumbers
<1>2. ~(h < runs) /\ ~(h > runs)
  BY DEF OneAtATime
<1>3. h = runs
  BY <1>1, <1>2
<1>4. QED BY <1>1, <1>3 DEF Idle

\* A step of a helper that works.
LEMMA HelperAlone ==
    ASSUME UserInfoType, OneAtATime, NEW h \in Runs, HelperStep(h)
    PROVE  /\ h = runs /\ ~Idle
           /\ OneAtATime'
           /\ UNCHANGED <<habit, fate, loops, window, runs>>
<1> USE DEF formVars, frontVars, helperVars
<1>1. /\ helper[h] \in {"running", "waiting"}
      /\ UNCHANGED <<habit, fate, loops, window, runs, told>>
      /\ \E s \in {"running", "waiting", "exited"} :
            helper' = [helper EXCEPT ![h] = s]
      /\ \/ UNCHANGED status
         \/ \E t \in {0, 1, Canceled} : status' = [status EXCEPT ![h] = t]
      /\ \/ UNCHANGED replies
         \/ /\ replies[h] # <<>>
            /\ replies' = [replies EXCEPT ![h] = Tail(replies[h])]
  BY DEF HelperStep, Asks, ReadsReply, Saves, Fails
<1>2. h = runs /\ ~Idle
  BY <1>1, NewestWorks
<1>3. ASSUME NEW k \in Runs
      PROVE  /\ k < runs' => helper'[k] = "reaped"
             /\ k > runs' => helper'[k] = "unborn"
             /\ helper'[k] = "reaped" => told'[k] = status'[k]
             /\ \A i \in DOMAIN replies'[k] : replies'[k][i].to = k
  <2>1. /\ k < runs => helper[k] = "reaped"
        /\ k > runs => helper[k] = "unborn"
        /\ helper[k] = "reaped" => told[k] = status[k]
        /\ \A i \in DOMAIN replies[k] : replies[k][i].to = k
    BY DEF OneAtATime
  <2>2. /\ helper \in [Runs -> {"unborn", "running", "waiting", "exited",
                                "reaped"}]
        /\ status \in [Runs -> Statuses]
        /\ replies \in [Runs -> Seq([to : 0..MaxRuns, cancel : BOOLEAN])]
    BY DEF UserInfoType
  <2>3. runs \in Nat /\ h \in Nat /\ k \in Nat
    BY HelperNumbers
  <2>4. CASE k = h
    <3>1. helper'[k] # "reaped" /\ ~(k < runs') /\ ~(k > runs')
      BY <1>1, <1>2, <2>2, <2>3, <2>4
    <3>2. \/ replies'[k] = replies[k]
          \/ replies[k] # <<>> /\ replies'[k] = Tail(replies[k])
      BY <1>1, <2>2, <2>4
    <3>3. \A i \in DOMAIN replies'[k] : replies'[k][i].to = k
      <4>1. CASE replies[k] # <<>> /\ replies'[k] = Tail(replies[k])
        <5>1. PICK q \in Seq([to : 0..MaxRuns, cancel : BOOLEAN]) :
                 q = replies[k]
          BY <2>2
        <5>2. \A i \in DOMAIN Tail(q) :
                 i + 1 \in DOMAIN q /\ Tail(q)[i] = q[i + 1]
          BY <4>1, <5>1
        <5>3. QED BY <2>1, <4>1, <5>1, <5>2
      <4>2. QED BY <2>1, <3>2, <4>1
    <3>4. QED BY <3>1, <3>3
  <2>5. CASE k # h
    <3>1. helper'[k] = helper[k] /\ replies'[k] = replies[k]
      BY <1>1, <2>2, <2>5
    <3>2. status'[k] = status[k] /\ told' = told /\ runs' = runs
      BY <1>1, <2>2, <2>5
    <3>3. QED BY <2>1, <3>1, <3>2
  <2>6. QED BY <2>4, <2>5
<1>4. OneAtATime'
  BY <1>3 DEF OneAtATime
<1>5. QED BY <1>1, <1>2, <1>4

\* What the front end does when no helper is at work, or for the newest one.
Calm == /\ UserInfoType /\ OneAtATime
        /\ InFront /\ fate = ""

\* The helpers stay as they are.
LEMMA HelpersStay ==
    ASSUME OneAtATime, UNCHANGED <<runs, helper, told, status, replies>>
    PROVE  OneAtATime'
BY DEF OneAtATime

\* The stack as InFront has it.
LEMMA StackIs ==
    ASSUME Calm
    PROVE  /\ loops \in Seq(Loops) /\ loops # <<>>
           /\ Len(loops) \in Nat /\ Len(loops) >= 1
           /\ DOMAIN loops = 1..Len(loops)
           /\ loops[1].kind \in {"start", "main", "run"}
           /\ loops[Len(loops)].kind \in {"start", "main", "run", "question",
                                          "result"}
<1>1. loops \in Seq(Loops) /\ loops # <<>>
  BY DEF Calm, UserInfoType, InFront, Nested
<1>2. Len(loops) \in Nat /\ Len(loops) >= 1 /\ DOMAIN loops = 1..Len(loops)
  BY <1>1, PopIs
<1>3. loops[Len(loops)] \in Loops
  BY <1>1, <1>2
<1>4. loops[Len(loops)].kind \in {"start", "main", "run", "question", "result"}
  BY <1>3 DEF Loops
<1>5. QED BY <1>1, <1>2, <1>4 DEF Calm, InFront, Nested

\* The same, with its height as a number.
LEMMA HeightIs ==
    ASSUME Calm
    PROVE  \E n \in Nat :
              /\ n = Len(loops) /\ n >= 1 /\ DOMAIN loops = 1..n
              /\ Top = loops[n]
              /\ window = "sensitive" => n = 1
              /\ window = "insensitive" => n > 1 /\ loops[2].kind = "run"
              /\ \A i \in 1..n :
                    /\ loops[i].kind = "start" => n = 1
                    /\ loops[i].kind = "main" => i = 1
                    /\ loops[i].kind = "run" =>
                          i = 1 \/ (i = 2 /\ loops[1].kind = "main")
                    /\ loops[i].kind = "result" => i = n
                    /\ loops[i].kind = "question" =>
                          i = n \/ (i = n - 1 /\ loops[n].kind = "result")
                    /\ loops[i] \in Loops
<1>1. PICK n \in Nat : n = Len(loops) /\ n >= 1
  BY StackIs
<1>2. DOMAIN loops = 1..n /\ loops \in Seq(Loops)
  BY <1>1, StackIs
<1>3. Top = loops[n]
  BY <1>1 DEF Top
<1>4. /\ window = "sensitive" => n = 1
      /\ window = "insensitive" => n > 1 /\ loops[2].kind = "run"
  BY <1>1 DEF Calm, InFront
<1>5. \A i \in 1..n : /\ loops[i].kind = "start" => n = 1
                      /\ loops[i].kind = "main" => i = 1
                      /\ loops[i].kind = "run" =>
                            i = 1 \/ (i = 2 /\ loops[1].kind = "main")
                      /\ loops[i].kind = "result" => i = n
                      /\ loops[i].kind = "question" =>
                            i = n \/ (i = n - 1 /\ loops[n].kind = "result")
  BY <1>1, <1>2 DEF Calm, InFront, Nested
<1>6. \A i \in 1..n : loops[i] \in Loops
  BY <1>1, <1>2
<1>7. QED BY <1>1, <1>2, <1>3, <1>4, <1>5, <1>6

\* Its innermost loop or dialog.
LEMMA TopIs ==
    ASSUME Calm
    PROVE  /\ Top \in Loops
           /\ Top.kind \in {"start", "main"} => Len(loops) = 1
           /\ Top.kind = "run" =>
                 Len(loops) = 1 \/ (Len(loops) = 2 /\ loops[1].kind = "main")
           /\ Top.kind \in {"question", "result"} =>
                 Top.of = runs /\ runs # 0 /\ Len(loops) > 1
           /\ Top.kind = "result" => Idle
           /\ Top.kind = "run" /\ Top.quit /\ window # "destroyed" => Idle
<1>1. PICK n \in Nat :
         /\ n = Len(loops) /\ n >= 1 /\ DOMAIN loops = 1..n /\ Top = loops[n]
         /\ \A i \in 1..n :
               /\ loops[i].kind = "start" => n = 1
               /\ loops[i].kind = "main" => i = 1
               /\ loops[i].kind = "run" =>
                     i = 1 \/ (i = 2 /\ loops[1].kind = "main")
               /\ loops[i] \in Loops
  BY HeightIs
<1>2. n \in DOMAIN loops
  BY <1>1
<1>3. Top \in Loops
  BY <1>1, <1>2
<1>4. /\ Top.kind = "start" => n = 1
      /\ Top.kind = "main" => n = 1
      /\ Top.kind = "run" => n = 1 \/ (n = 2 /\ loops[1].kind = "main")
  BY <1>1, <1>2
<1>5. /\ Top.kind \in {"question", "result"} => Top.of = runs /\ runs # 0
      /\ Top.kind = "result" => Idle
      /\ Top.kind = "run" /\ Top.quit /\ window # "destroyed" => Idle
  BY <1>1, <1>2 DEF Calm, InFront
<1>6. Top.kind \in {"question", "result"} => n # 1
  BY <1>1, StackIs
<1>7. QED BY <1>1, <1>2, <1>3, <1>4, <1>5, <1>6

\* When a helper starts, no other is at work.
LEMMA Started ==
    ASSUME UserInfoType, OneAtATime, Idle, NEW p \in Paper, Runv(p),
           UNCHANGED <<told, status, replies>>
    PROVE  OneAtATime'
<1>1. /\ runs' = runs + 1 /\ runs' \in Runs
      /\ helper' = [helper EXCEPT ![runs'] = "running"]
  BY RunvIs
<1>2. helper \in [Runs -> {"unborn", "running", "waiting", "exited", "reaped"}]
  BY DEF UserInfoType
<1>3. ASSUME NEW h \in Runs
      PROVE  /\ h < runs' => helper'[h] = "reaped"
             /\ h > runs' => helper'[h] = "unborn"
             /\ helper'[h] = "reaped" => told'[h] = status'[h]
             /\ \A i \in DOMAIN replies'[h] : replies'[h][i].to = h
  <2>1. h \in Nat /\ h # 0 /\ runs \in Nat
    BY HelperNumbers
  <2>2. /\ h < runs => helper[h] = "reaped"
        /\ h > runs => helper[h] = "unborn"
        /\ helper[h] = "reaped" => told[h] = status[h]
        /\ \A i \in DOMAIN replies[h] : replies[h][i].to = h
    BY DEF OneAtATime
  <2>3. h = runs => helper[h] = "reaped"
    BY <2>1 DEF Idle
  <2>4. helper'[h] = IF h = runs + 1 THEN "running" ELSE helper[h]
    BY <1>1, <1>2
  <2>5. h < runs + 1 => helper[h] = "reaped"
    BY <2>1, <2>2, <2>3
  <2>6. h > runs + 1 => helper[h] = "unborn"
    BY <2>1, <2>2
  <2>7. h < runs + 1 \/ h > runs + 1 => h # runs + 1
    BY <2>1
  <2>8. QED BY <1>1, <2>2, <2>4, <2>5, <2>6, <2>7
<1>4. QED BY <1>3 DEF OneAtATime

\* A helper starts, from the command line.
LEMMA FirstRun ==
    ASSUME Calm, Start
    PROVE  OneAtATime' /\ (fate' = "" => InFront')
<1> USE DEF formVars, frontVars, helperVars
<1>1. /\ Len(loops) = 1 /\ loops[1].kind = "start" /\ runs = 0
      /\ window = "none"
  <2>1. Top.kind = "start"
    BY StartIs
  <2>2. Len(loops) = 1 /\ loops[1] = Top
    BY <2>1, TopIs DEF Top
  <2>3. QED BY <2>1, <2>2 DEF Calm, InFront
<1>2. CASE /\ window' = "sensitive" /\ loops' = <<Loop("main", 0)>>
           /\ UNCHANGED <<runs, tag, watched, helper, args, fate>>
  <2>1. OneAtATime'
    BY <1>2, StartIs, HelpersStay DEF Calm
  <2>2. Idle'
    BY <1>1, <1>2 DEF Idle
  <2>3. /\ loops' = <<Loop("main", 0)>> /\ Loop("main", 0).kind = "main"
        /\ Loop("main", 0).quit = FALSE
    BY <1>2, LoopType, RunNumbers
  <2>4. Nested(loops')
    BY <2>3 DEF Nested
  <2>5. InFront'
    BY <1>2, <2>2, <2>3, <2>4 DEF InFront, Nested
  <2>6. QED BY <2>1, <2>5
<1>3. CASE /\ fate' = "returned" /\ loops' = <<>>
           /\ UNCHANGED <<window, runs, tag, watched, helper, args>>
  BY <1>3, StartIs, HelpersStay DEF Calm
<1>4. CASE /\ Runv(form) /\ loops' = <<Loop("run", 1)>>
           /\ UNCHANGED <<window, fate>>
  <2>1. OneAtATime'
    <3>1. Idle /\ form \in Paper
      BY <1>1 DEF Idle, Calm, UserInfoType
    <3>2. QED BY <1>4, <3>1, StartIs, Started DEF Calm
  <2>2. runs' = 1
    BY <1>1, <1>4 DEF Runv
  <2>3. /\ loops' = <<Loop("run", 1)>> /\ Loop("run", 1).kind = "run"
        /\ Loop("run", 1).quit = FALSE
    BY <1>4, LoopType, RunNumbers
  <2>4. Nested(loops')
    BY <2>3 DEF Nested
  <2>5. InFront'
    BY <1>1, <1>4, <2>3, <2>4 DEF InFront, Nested
  <2>6. QED BY <2>1, <2>5
<1>5. QED BY <1>2, <1>3, <1>4, StartIs

\* Another one starts, from the form.
LEMMA AnotherRun ==
    ASSUME Calm, Apply
    PROVE  OneAtATime' /\ InFront'
<1>1. /\ window = "sensitive" /\ loops[Len(loops)].kind = "main"
      /\ window' = "insensitive" /\ Runv(Entries(form))
      /\ loops' = Append(loops, Loop("run", runs'))
      /\ UNCHANGED <<told, status, replies>>
  BY DEF Apply, AtForm, Top
<1>2. Len(loops) = 1 /\ Idle /\ loops[1].kind = "main"
  BY <1>1 DEF Calm, InFront
<1>3. Entries(form) \in Paper
  BY EntriesType DEF Calm, UserInfoType
<1>4. runs' \in Runs
  BY <1>1, <1>3, RunvIs DEF Calm
<1>5. OneAtATime'
  BY <1>1, <1>2, <1>3, Started DEF Calm
<1>6. /\ Loop("run", runs') \in Loops /\ Loop("run", runs').kind = "run"
      /\ Loop("run", runs').quit = FALSE
  BY <1>4, LoopType, RunNumbers
<1>7. /\ Len(loops') = 2 /\ DOMAIN loops' = 1..2
      /\ loops'[1] = loops[1] /\ loops'[2] = Loop("run", runs')
  <2>1. loops \in Seq(Loops) /\ DOMAIN loops = 1..1
    BY <1>2, StackIs
  <2>2. /\ DOMAIN loops' = 1..(1 + 1) /\ Len(loops') = 1 + 1
        /\ loops'[1 + 1] = Loop("run", runs')
        /\ \A i \in DOMAIN loops : loops'[i] = loops[i]
    <3> DEFINE l == Loop("run", runs')
    <3>1. l \in Loops /\ loops' = Append(loops, l)
      BY <1>1, <1>6
    <3> HIDE DEF l
    <3>2. /\ DOMAIN loops' = 1..(Len(loops) + 1)
          /\ Len(loops') = Len(loops) + 1 /\ loops'[Len(loops) + 1] = l
          /\ \A i \in DOMAIN loops : loops'[i] = loops[i]
      BY <2>1, <3>1, PushIs
    <3>3. QED BY <1>2, <3>2 DEF l
  <2>3. QED BY <2>1, <2>2
<1>8. Nested(loops')
  BY <1>2, <1>6, <1>7 DEF Nested
<1>9. InFront'
  BY <1>1, <1>2, <1>6, <1>7, <1>8 DEF InFront
<1>10. QED BY <1>5, <1>9

\* A dialog is closed, and a loop may be told to end.
LEMMA DialogCloses ==
    ASSUME Calm, Top.kind \in {"question", "result"},
           NEW rest, rest = SubSeq(loops, 1, Len(loops) - 1),
           loops' \in {rest, Quit(rest)},
           loops' = rest \/ Idle,
           UNCHANGED <<window, runs, helper>>
    PROVE  InFront'
<1>1. PICK n \in Nat :
         /\ n = Len(loops) /\ n > 1 /\ DOMAIN loops = 1..n /\ Top = loops[n]
         /\ window # "sensitive"
         /\ window = "insensitive" => loops[2].kind = "run"
         /\ \A i \in 1..n :
               /\ loops[i].kind # "start"
               /\ loops[i].kind = "main" => i = 1
               /\ loops[i].kind = "run" =>
                     i = 1 \/ (i = 2 /\ loops[1].kind = "main")
               /\ loops[i].kind = "result" => i = n
               /\ loops[i].kind = "question" => i = n \/ i = n - 1
  <2>1. Len(loops) > 1
    BY TopIs
  <2>2. QED BY <2>1, HeightIs
<1>2. /\ DOMAIN loops = 1..n /\ loops \in Seq(Loops)
      /\ rest \in Seq(Loops) /\ Len(rest) = n - 1 /\ DOMAIN rest = 1..(n - 1)
      /\ \A i \in 1..(n - 1) : rest[i] = loops[i]
  BY <1>1, StackIs, PopIs
<1>3. /\ loops' \in Seq(Loops) /\ Len(loops') = n - 1
      /\ DOMAIN loops' = 1..(n - 1)
      /\ \A i \in 1..(n - 1) : /\ loops'[i].kind = loops[i].kind
                               /\ loops'[i].of = loops[i].of
      /\ loops' = rest => \A i \in 1..(n - 1) : loops'[i] = loops[i]
  <2>1. CASE loops' = rest
    BY <1>2, <2>1
  <2>2. CASE loops' = Quit(rest)
    <3>1. /\ Quit(rest) \in Seq(Loops) /\ Len(Quit(rest)) = Len(rest)
          /\ DOMAIN Quit(rest) = DOMAIN rest
          /\ \A i \in DOMAIN rest : /\ Quit(rest)[i].kind = rest[i].kind
                                     /\ Quit(rest)[i].of = rest[i].of
      BY <1>2, QuitIs
    <3>2. QED BY <1>2, <2>2, <3>1
  <2>3. QED BY <2>1, <2>2
<1>4. \A i \in 1..(n - 1) :
         /\ loops'[i].kind \notin {"result", "start"}
         /\ loops'[i].kind = "question" => i = n - 1
  <2>1. \A i \in 1..(n - 1) : i \in 1..n /\ i # n
    BY <1>1
  <2>2. \A i \in 1..(n - 1) : /\ loops[i].kind \notin {"result", "start"}
                              /\ loops[i].kind = "question" => i = n - 1
    BY <1>1, <2>1
  <2>3. \A i \in 1..(n - 1) : loops'[i].kind = loops[i].kind
    BY <1>3
  <2>4. QED BY <2>2, <2>3
<1>5. 1 \in 1..(n - 1) /\ loops' # <<>>
  <2>1. n - 1 # 0 /\ 1 \in 1..(n - 1)
    BY <1>1
  <2>2. loops' # <<>>
    BY <1>3, <2>1
  <2>3. QED BY <2>1, <2>2
<1>6. loops'[1].kind = loops[1].kind /\ loops[1].kind \in {"main", "run"}
  <2>1. loops'[1].kind = loops[1].kind /\ loops'[1].kind # "start"
    BY <1>3, <1>4, <1>5
  <2>2. loops[1].kind \in {"start", "main", "run"}
    BY StackIs
  <2>3. QED BY <2>1, <2>2
<1>7. Nested(loops')
  <2>1. \A i \in DOMAIN loops' :
           /\ loops'[i].kind = "main" => i = 1
           /\ loops'[i].kind = "run" =>
                 i = 1 \/ (i = 2 /\ loops'[1].kind = "main")
    <3>1. \A i \in 1..(n - 1) :
             /\ loops[i].kind = "main" => i = 1
             /\ loops[i].kind = "run" =>
                   i = 1 \/ (i = 2 /\ loops[1].kind = "main")
      <4>1. \A i \in 1..(n - 1) : i \in 1..n
        BY <1>1
      <4>2. QED BY <1>1, <4>1
    <3>2. QED BY <1>3, <1>6, <3>1
  <2>2. QED BY <1>3, <1>4, <1>5, <1>6, <2>1 DEF Nested
<1>8. Idle' <=> Idle
  BY DEF Idle
<1>9. window # "sensitive"
  BY <1>1
<1>10. window = "insensitive" => Len(loops') > 1 /\ loops'[2].kind = "run"
  <2>1. ASSUME window = "insensitive"
        PROVE  n > 2 /\ loops[2].kind = "run"
    <3>1. loops[2].kind = "run"
      BY <1>1, <2>1
    <3>2. n # 2
      BY <1>1, <3>1
    <3>3. QED BY <1>1, <3>1, <3>2
  <2>2. QED BY <1>1, <1>3, <2>1
<1>11. \A i \in DOMAIN loops' :
          loops'[i].kind = "run" /\ loops'[i].quit /\ window # "destroyed" =>
             Idle
  <2>1. CASE Idle
    BY <2>1
  <2>2. CASE ~Idle
    <3>1. \A i \in 1..(n - 1) : i \in DOMAIN loops /\ loops'[i] = loops[i]
      BY <1>1, <1>2, <1>3, <2>2
    <3>2. QED BY <1>3, <3>1 DEF Calm, InFront
  <2>3. QED BY <2>1, <2>2
<1>12. window = "none" <=> loops'[1].kind \in {"start", "run"}
  BY <1>6 DEF Calm, InFront
<1>13. \A i \in DOMAIN loops' :
          loops'[i].kind \in {"question", "result"} =>
             loops'[i].of = runs /\ runs # 0
  <2>1. \A i \in 1..(n - 1) : i \in DOMAIN loops
    BY <1>1
  <2>2. QED BY <1>3, <2>1 DEF Calm, InFront
<1>14. QED
  BY <1>3, <1>4, <1>6, <1>7, <1>8, <1>9, <1>10, <1>11, <1>12, <1>13
  DEF InFront

\* The entry of the stack for a dialog.
LEMMA DialogType ==
    ASSUME NEW h \in Runs, NEW kind \in {"question", "result"}
    PROVE  /\ Loop(kind, h) \in Loops
           /\ Loop(kind, h).kind = kind /\ Loop(kind, h).of = h
<1>1. h \in 0..MaxRuns
  BY RunNumbers
<1>2. QED BY <1>1 DEF Loop, Loops

\* A dialog of the newest helper comes up: a question when it has none up, its
\* outcome even then.
LEMMA DialogOpens ==
    ASSUME Calm, NEW h \in Runs, h = runs, ~Idle,
           NEW kind \in {"question", "result"},
           loops' = Append(loops, Loop(kind, h)),
           kind = "question" => Dispatchable(h),
           kind = "result" => Idle',
           UNCHANGED <<window, runs>>
    PROVE  InFront'
<1>1. PICK n \in Nat : n = Len(loops) /\ n >= 1
  BY StackIs
<1>2. loops \in Seq(Loops) /\ DOMAIN loops = 1..n
  BY <1>1, StackIs
<1>3. /\ Loop(kind, h) \in Loops /\ Loop(kind, h).kind = kind
      /\ Loop(kind, h).of = h
  BY DialogType
<1>4. /\ Len(loops') = n + 1 /\ DOMAIN loops' = 1..(n + 1)
      /\ loops'[n + 1] = Loop(kind, h)
      /\ \A i \in 1..n : loops'[i] = loops[i]
  BY <1>1, <1>2, <1>3, PushIs
<1>5. h # 0
  BY HelperNumbers DEF Calm
<1>6. \A i \in 1..n :
         \/ loops[i].kind \in {"main", "run"}
         \/ loops[i].kind = "question" /\ kind = "result" /\ i = n
  <2>1. \A i \in 1..n : loops[i].kind # "result"
    BY <1>2 DEF Calm, InFront
  <2>2. ASSUME kind = "question", NEW i \in 1..n
        PROVE  loops[i].kind # "question"
    BY <1>2, <2>2 DEF Dispatchable, Calm, InFront
  <2>3. \A i \in 1..n : loops[i].kind = "question" => i = n
    <3>1. n \in 1..n
      BY <1>1
    <3>2. QED BY <1>1, <1>2, <2>1, <3>1 DEF Calm, InFront, Nested
  <2>4. \A i \in 1..n : loops[i].kind # "start"
    <3>1. loops[1].kind # "start"
      BY <1>5 DEF Calm, InFront
    <3>2. ASSUME NEW i \in 1..n, loops[i].kind = "start" PROVE FALSE
      <4>1. n = 1
        BY <1>1, <1>2, <3>2 DEF Calm, InFront, Nested
      <4>2. QED BY <3>1, <3>2, <4>1
    <3>3. QED BY <3>2
  <2>5. \A i \in 1..n : loops[i] \in Loops
    BY <1>2
  <2>6. QED BY <2>1, <2>2, <2>3, <2>4, <2>5 DEF Loops
<1>7. \A i \in 1..(n + 1) : i \in 1..n \/ i = n + 1
  BY <1>1
<1>8. 1 \in 1..n /\ loops'[1] = loops[1] /\ loops' # <<>>
  BY <1>1, <1>4
<1>9. Nested(loops')
  <2>1. \A i \in 1..n : /\ loops'[i].kind = "main" => i = 1
                        /\ loops'[i].kind = "run" =>
                              i = 1 \/ (i = 2 /\ loops'[1].kind = "main")
    BY <1>2, <1>4, <1>8 DEF Calm, InFront, Nested
  <2>2. ASSUME NEW i \in 1..n
        PROVE  /\ loops'[i].kind \notin {"start", "result"}
               /\ loops'[i].kind = "question" =>
                     i = (n + 1) - 1 /\ loops'[n + 1].kind = "result"
    <3>1. n = (n + 1) - 1
      BY <1>1
    <3>2. QED BY <1>3, <1>4, <1>6, <3>1
  <2>3. /\ loops'[n + 1].kind \in {"question", "result"}
        /\ loops'[1].kind \in {"start", "main", "run"}
    BY <1>3, <1>4, <1>8, StackIs
  <2>4. QED BY <1>4, <1>7, <1>8, <2>1, <2>2, <2>3 DEF Nested
<1>10. window # "sensitive"
  BY DEF Calm, InFront
<1>11. window = "insensitive" => Len(loops') > 1 /\ loops'[2].kind = "run"
  <2>1. ASSUME window = "insensitive"
        PROVE  n > 1 /\ loops[2].kind = "run"
    BY <1>1, <2>1 DEF Calm, InFront
  <2>2. QED BY <1>1, <1>4, <2>1
<1>12. \A i \in 1..n : loops'[i].kind = "run" /\ loops'[i].quit =>
                          window = "destroyed"
  BY <1>2, <1>4 DEF Calm, InFront
<1>13. \A i \in DOMAIN loops' :
          /\ loops'[i].kind \in {"question", "result"} =>
                loops'[i].of = runs' /\ runs' # 0
          /\ loops'[i].kind = "result" => Idle'
          /\ loops'[i].kind = "run" /\ loops'[i].quit
                /\ window' # "destroyed" => Idle'
  <2>1. \A i \in 1..n : loops[i].kind \in {"question", "result"} =>
                            loops[i].of = runs /\ runs # 0
    BY <1>2 DEF Calm, InFront
  <2>2. \A i \in 1..n : loops'[i].kind # "result"
    BY <1>4, <1>6
  <2>3. QED BY <1>3, <1>4, <1>5, <1>7, <1>12, <2>1, <2>2
<1>14. window = "none" <=> loops'[1].kind \in {"start", "run"}
  BY <1>8 DEF Calm, InFront
<1>15. loops'[1].kind # "start"
  BY <1>6, <1>8
<1>16. QED
  BY <1>9, <1>10, <1>11, <1>13, <1>14, <1>15 DEF InFront

\* The newest helper has ended, and its loop is told to: nothing was to be
\* shown.
LEMMA LoopQuits ==
    ASSUME Calm, Idle', loops' = Quit(loops), UNCHANGED <<window, runs>>
    PROVE  InFront'
<1>1. /\ Len(loops') = Len(loops) /\ DOMAIN loops' = DOMAIN loops
      /\ \A i \in DOMAIN loops : /\ loops'[i].kind = loops[i].kind
                                 /\ loops'[i].of = loops[i].of
  BY StackIs, QuitIs
<1>2. PICK n \in Nat : n = Len(loops) /\ n >= 1 /\ DOMAIN loops = 1..n
  BY StackIs
<1>3. 1 \in DOMAIN loops /\ n \in DOMAIN loops
  BY <1>2
<1>4. loops' # <<>>
  BY <1>1, <1>3
<1>5. Nested(loops')
  <2>1. Nested(loops)
    BY DEF Calm, InFront
  <2>2. QED BY <1>1, <1>2, <1>3, <1>4, <2>1 DEF Nested
<1>6. window = "insensitive" => loops'[2].kind = "run"
  <2>1. ASSUME window = "insensitive" PROVE loops'[2].kind = "run"
    <3>1. n > 1 /\ loops[2].kind = "run"
      BY <1>2, <2>1 DEF Calm, InFront
    <3>2. 2 \in DOMAIN loops
      BY <1>2, <3>1
    <3>3. QED BY <1>1, <3>1, <3>2
  <2>2. QED BY <2>1
<1>7. QED BY <1>1, <1>3, <1>5, <1>6 DEF Calm, InFront

\* The form is closed, by its button or by the window manager.
LEMMA FormCloses ==
    ASSUME Calm, Close \/ DestroyForm
    PROVE  OneAtATime' /\ InFront'
<1> USE DEF formVars, frontVars, helperVars
<1>1. /\ UNCHANGED <<runs, helper, told, status, replies>>
      /\ loops' = Quit(loops)
      /\ window \in {"sensitive", "insensitive"}
      /\ \/ Close /\ window = "sensitive" /\ window' = window
         \/ window' = "destroyed"
  BY DEF Close, DestroyForm, AtForm
<1>2. OneAtATime'
  BY <1>1, HelpersStay DEF Calm
<1>3. /\ Len(loops') = Len(loops) /\ DOMAIN loops' = DOMAIN loops
      /\ \A i \in DOMAIN loops : /\ loops'[i].kind = loops[i].kind
                                 /\ loops'[i].of = loops[i].of
  BY <1>1, StackIs, QuitIs
<1>4. PICK n \in Nat :
         /\ n = Len(loops) /\ n >= 1 /\ DOMAIN loops = 1..n
         /\ window = "sensitive" => n = 1
         /\ \A i \in 1..n :
               /\ loops[i].kind = "start" => n = 1
               /\ loops[i].kind = "main" => i = 1
               /\ loops[i].kind = "run" =>
                     i = 1 \/ (i = 2 /\ loops[1].kind = "main")
               /\ loops[i].kind = "result" => i = n
               /\ loops[i].kind = "question" =>
                     i = n \/ (i = n - 1 /\ loops[n].kind = "result")
  BY HeightIs
<1>5. /\ 1 \in 1..n /\ loops # <<>> /\ loops[1].kind = "main"
      /\ window = "insensitive" => Len(loops) > 1 /\ loops[2].kind = "run"
      /\ window = "sensitive" => Idle
  <2>1. 1 \in 1..n
    BY <1>4
  <2>2. loops[1].kind \in {"start", "main", "run"} /\ loops # <<>>
    BY StackIs
  <2>3. loops[1].kind = "main"
    <3>1. loops[1].kind \notin {"start", "run"}
      BY <1>1 DEF Calm, InFront
    <3>2. QED BY <2>2, <3>1
  <2>4. QED BY <2>1, <2>2, <2>3 DEF Calm, InFront
<1>6. loops' # <<>> /\ loops'[1].kind = "main" /\ Len(loops') = n
  <2>1. Len(loops') = n /\ n # 0
    BY <1>3, <1>4
  <2>2. loops' # <<>>
    BY <2>1
  <2>3. QED BY <1>3, <1>4, <1>5, <2>1, <2>2
<1>7. Nested(loops')
  <2>1. n \in DOMAIN loops /\ DOMAIN loops' = 1..n
    BY <1>3, <1>4
  <2>2. QED BY <1>3, <1>4, <1>5, <1>6, <2>1 DEF Nested
<1>8. Idle' <=> Idle
  BY <1>1 DEF Idle
<1>9. ASSUME NEW i \in DOMAIN loops'
      PROVE  /\ loops'[i].kind \in {"question", "result"} =>
                   loops'[i].of = runs' /\ runs' # 0
             /\ loops'[i].kind = "result" => Idle'
             /\ loops'[i].kind = "run" /\ window' # "destroyed" => Idle'
  <2>1. /\ loops[i].kind \in {"question", "result"} =>
              loops[i].of = runs /\ runs # 0
        /\ loops[i].kind = "result" => Idle
    BY <1>3 DEF Calm, InFront
  <2>2. window' # "destroyed" => Idle'
    BY <1>1, <1>5, <1>8
  <2>3. QED BY <1>1, <1>3, <1>8, <2>1, <2>2
<1>10. /\ window' = "sensitive" => Len(loops') = 1 /\ Idle'
       /\ window' # "none" /\ window' # "insensitive"
  BY <1>1, <1>4, <1>5, <1>6, <1>8
<1>11. InFront'
  BY <1>6, <1>7, <1>9, <1>10 DEF InFront
<1>12. QED BY <1>2, <1>11

\* A main loop returns.
LEMMA LoopReturns ==
    ASSUME Calm, Return
    PROVE  OneAtATime' /\ (fate' = "" => InFront')
<1> USE DEF formVars, frontVars, helperVars
<1>1. /\ UNCHANGED <<runs, helper, told, status, replies>>
      /\ Top.kind \in {"main", "run"} /\ Top.quit
  BY DEF Return
<1>2. OneAtATime'
  BY <1>1, HelpersStay DEF Calm
<1>3. CASE fate' # ""
  BY <1>2, <1>3
<1>4. CASE fate' = ""
  <2> DEFINE rest == SubSeq(loops, 1, Len(loops) - 1)
  <2>1. /\ Len(loops) # 1 /\ loops' = rest
        /\ window' = IF window = "destroyed" THEN window ELSE "sensitive"
    BY <1>4 DEF Return, Ends, Pop
  <2>2. /\ Len(loops) = 2 /\ loops[1].kind = "main" /\ Top.kind = "run"
        /\ window # "destroyed" => Idle
    BY <1>1, <2>1, TopIs
  <2>3. /\ DOMAIN loops' = 1..(2 - 1) /\ Len(loops') = 2 - 1
        /\ \A i \in DOMAIN loops' : loops'[i] = loops[i]
    <3>1. loops \in Seq(Loops) /\ loops # <<>>
      BY StackIs
    <3>2. /\ DOMAIN rest = 1..(Len(loops) - 1) /\ Len(rest) = Len(loops) - 1
          /\ \A i \in DOMAIN rest : rest[i] = loops[i]
      BY <3>1, PopIs
    <3> HIDE DEF rest
    <3>3. QED BY <2>1, <2>2, <3>2
  <2>4. /\ DOMAIN loops' = 1..1 /\ Len(loops') = 1 /\ loops'[1] = loops[1]
        /\ loops' # <<>>
    <3>1. DOMAIN loops' = 1..1 /\ Len(loops') = 1
      BY <2>3
    <3>2. loops' # <<>>
      BY <3>1
    <3>3. QED BY <2>3, <3>1, <3>2
  <2>5. Nested(loops')
    BY <2>2, <2>4 DEF Nested
  <2>6. Idle' <=> Idle
    BY <1>1 DEF Idle
  <2>7. window' \in {"destroyed", "sensitive"}
    BY <2>1
  <2>8. InFront'
    BY <2>1, <2>2, <2>4, <2>5, <2>6, <2>7 DEF InFront
  <2>9. QED BY <1>2, <2>8
<1>5. QED BY <1>3, <1>4

\* What is written to the newest helper is for it.
LEMMA ReplyArrives ==
    ASSUME Calm, NEW cancel \in BOOLEAN, runs # 0, WriteReply(runs, cancel),
           UNCHANGED <<runs, helper, told, status>>
    PROVE  OneAtATime'
<1>1. replies' = [replies EXCEPT ![runs] =
                     Append(replies[runs], Reply(runs, cancel))]
  BY DEF WriteReply, Reader
<1>2. replies \in [Runs -> Seq([to : 0..MaxRuns, cancel : BOOLEAN])]
  BY DEF Calm, UserInfoType
<1>3. /\ Reply(runs, cancel) \in [to : 0..MaxRuns, cancel : BOOLEAN]
      /\ Reply(runs, cancel).to = runs
  BY DEF Calm, UserInfoType, Reply
<1>4. ASSUME NEW h \in Runs
      PROVE  \A i \in DOMAIN replies'[h] : replies'[h][i].to = h
  <2>1. \A i \in DOMAIN replies[h] : replies[h][i].to = h
    BY DEF Calm, OneAtATime
  <2>2. CASE h = runs
    <3>1. PICK q \in Seq([to : 0..MaxRuns, cancel : BOOLEAN]) : q = replies[h]
      BY <1>2
    <3>2. PICK m \in [to : 0..MaxRuns, cancel : BOOLEAN] :
             m = Reply(runs, cancel)
      BY <1>3
    <3>3. replies'[h] = Append(q, m)
      BY <1>1, <1>2, <2>2, <3>1, <3>2
    <3>4. \A i \in DOMAIN Append(q, m) :
             \/ i \in DOMAIN q /\ Append(q, m)[i] = q[i]
             \/ Append(q, m)[i] = m
      BY PushIs
    <3>5. QED BY <1>3, <2>1, <2>2, <3>1, <3>2, <3>3, <3>4
  <2>3. CASE h # runs
    BY <1>1, <1>2, <2>1, <2>3
  <2>4. QED BY <2>2, <2>3
<1>5. QED BY <1>4 DEF Calm, OneAtATime

\* No helper is older or newer than itself.
LEMMA Irreflexive == \A n \in Nat : ~(n < n) /\ ~(n > n)
OBVIOUS

\* The front end reads from a helper, or is told that one has ended.
LEMMA FrontAlone ==
    ASSUME UserInfoType, OneAtATime, fate = "" => InFront,
           NEW h \in Runs, FrontStep(h)
    PROVE  OneAtATime' /\ (fate' = "" => InFront')
<1> USE DEF formVars, frontVars, helperVars
<1>1. fate = "" /\ Calm
  BY DEF FrontStep, Reads, HangUp, ChildExited, Dispatchable, Calm
<1>2. CASE Reads(h)
  <2>1. h = runs /\ ~Idle
    BY <1>2, NewestWorks DEF Reads
  <2>2. UNCHANGED <<window, runs, helper, told, status>> /\ (Idle' <=> Idle)
    BY <1>2 DEF Reads, Idle
  <2>3. CASE Asking
    <3>1. UNCHANGED replies /\ fate' # ""
      BY <1>2, <2>3 DEF Reads, Ends
    <3>2. QED BY <2>2, <3>1, HelpersStay
  <2>4. CASE ~Asking /\ request[h] = "question"
    <3>1. /\ UNCHANGED replies /\ loops' = Append(loops, Loop("question", h))
          /\ Dispatchable(h)
      BY <1>2, <2>4 DEF Reads
    <3>2. InFront'
      BY <1>1, <2>1, <2>2, <3>1, DialogOpens
    <3>3. QED BY <2>2, <3>1, <3>2, HelpersStay
  <2>5. CASE ~Asking /\ request[h] # "question" /\ ReaderGone
    <3>1. UNCHANGED replies /\ fate' # ""
      BY <1>2, <2>5 DEF Reads, Ends
    <3>2. QED BY <2>2, <3>1, HelpersStay
  <2>6. CASE ~Asking /\ request[h] # "question" /\ ~ReaderGone
    <3>1. WriteReply(runs, FALSE) /\ UNCHANGED loops
      BY <1>2, <2>1, <2>6 DEF Reads
    <3>2. InFront'
      BY <1>1, <2>2, <3>1, FrontStays DEF Calm
    <3>3. OneAtATime'
      BY <1>1, <2>1, <2>2, <3>1, ReplyArrives DEF Idle
    <3>4. QED BY <3>2, <3>3
  <2>7. QED BY <2>3, <2>4, <2>5, <2>6
<1>3. CASE HangUp(h)
  <2>1. UNCHANGED <<window, loops, runs, helper, told, status, replies>>
    BY <1>3 DEF HangUp
  <2>2. Idle => Idle'
    BY <2>1 DEF Idle
  <2>3. QED BY <1>1, <2>1, <2>2, HelpersStay, FrontStays DEF Calm
<1>4. CASE ChildExited(h)
  <2>1. h = runs /\ ~Idle
    BY <1>4, NewestWorks DEF ChildExited
  <2>2. /\ helper' = [helper EXCEPT ![h] = "reaped"]
        /\ told' = [told EXCEPT ![h] = status[h]]
        /\ loops' \in {Quit(loops), Append(loops, Loop("result", h))}
        /\ UNCHANGED <<window, runs, status, replies>>
    BY <1>4, <2>1 DEF ChildExited
  <2>3. /\ helper \in [Runs -> {"unborn", "running", "waiting", "exited",
                                "reaped"}]
        /\ told \in [Runs -> Statuses]
    BY DEF UserInfoType
  <2>4. Idle'
    BY <2>1, <2>2, <2>3 DEF Idle
  <2>5. InFront'
    BY <1>1, <2>1, <2>2, <2>4, DialogOpens, LoopQuits
  <2>6. ~(h < runs) /\ ~(h > runs)
    <3>1. h \in Nat /\ runs \in Nat /\ h = runs
      BY <2>1, HelperNumbers
    <3>2. QED BY <3>1, Irreflexive
  <2>7. OneAtATime'
    <3>1. ASSUME NEW k \in Runs
          PROVE  /\ k < runs' => helper'[k] = "reaped"
                 /\ k > runs' => helper'[k] = "unborn"
                 /\ helper'[k] = "reaped" => told'[k] = status'[k]
                 /\ \A i \in DOMAIN replies'[k] : replies'[k][i].to = k
      <4>1. /\ k < runs => helper[k] = "reaped"
            /\ k > runs => helper[k] = "unborn"
            /\ helper[k] = "reaped" => told[k] = status[k]
            /\ \A i \in DOMAIN replies[k] : replies[k][i].to = k
        BY DEF OneAtATime
      <4>2. CASE k = h
        BY <2>2, <2>3, <2>6, <4>1, <4>2
      <4>3. CASE k # h
        BY <2>2, <2>3, <4>1, <4>3
      <4>4. QED BY <4>2, <4>3
    <3>2. QED BY <3>1 DEF OneAtATime
  <2>8. QED BY <2>5, <2>7
<1>5. QED BY <1>2, <1>3, <1>4 DEF FrontStep

\* The user answers a question.
LEMMA Answered ==
    ASSUME Calm, NEW cancel \in BOOLEAN, Answer(cancel)
    PROVE  OneAtATime' /\ (fate' = "" => InFront')
<1>1. /\ Top.kind = "question"
      /\ UNCHANGED <<window, runs, helper, told, status>>
  BY DEF Answer
<1>2. Top.of = runs /\ runs # 0
  BY <1>1, TopIs
<1>3. CASE ReaderGone
  <2>1. UNCHANGED replies /\ fate' # ""
    BY <1>3 DEF Answer, Ends
  <2>2. QED BY <1>1, <2>1, HelpersStay DEF Calm
<1>4. CASE ~ReaderGone
  <2>1. WriteReply(runs, cancel) /\ loops' = SubSeq(loops, 1, Len(loops) - 1)
    BY <1>2, <1>4 DEF Answer, Pop
  <2>2. OneAtATime'
    BY <1>1, <1>2, <2>1, ReplyArrives
  <2>3. InFront'
    BY <1>1, <2>1, DialogCloses
  <2>4. QED BY <2>2, <2>3
<1>5. QED BY <1>3, <1>4

\* A user who reads his messages and answers his questions has one helper.
LEMMA PatientKeeps ==
    ASSUME UserInfoType, OneAtATime, fate = "" => InFront, ~habit.dismiss, Next
    PROVE  OneAtATime' /\ (fate' = "" => InFront')
<1> USE DEF formVars, frontVars, helperVars
<1>1. fate = "" => Calm
  BY DEF Calm
<1>2. UNCHANGED <<runs, helper>> => (Idle => Idle')
  BY DEF Idle
<1>4. CASE Start
  BY <1>1, <1>4, FirstRun DEF Start
<1>5. ASSUME NEW e \in Edits, Edit(e[1], e[2])
      PROVE  OneAtATime' /\ (fate' = "" => InFront')
  <2>1. /\ fate = ""
        /\ UNCHANGED <<window, runs, helper, told, status, replies>>
        /\ UNCHANGED loops \/ fate' # ""
    BY <1>5 DEF Edit, AtForm, Ends
  <2>2. QED BY <1>2, <2>1, HelpersStay, FrontStays
<1>6. CASE Apply
  BY <1>1, <1>6, AnotherRun DEF Apply, AtForm
<1>7. CASE Close \/ DestroyForm
  BY <1>1, <1>7, FormCloses DEF Close, DestroyForm, AtForm
<1>8. CASE DismissMessages
  BY <1>8 DEF DismissMessages
<1>9. CASE CloseQuestion
  <2>1. fate' # "" /\ UNCHANGED <<runs, helper, told, status, replies>>
    BY <1>9 DEF CloseQuestion, Ends
  <2>2. QED BY <2>1, HelpersStay
<1>10. CASE ResultRead
  <2>1. /\ Calm /\ Top.kind = "result"
        /\ loops' = Quit(SubSeq(loops, 1, Len(loops) - 1))
        /\ UNCHANGED <<window, runs, helper, told, status, replies>>
    BY <1>1, <1>10 DEF ResultRead
  <2>2. Idle
    BY <2>1, TopIs
  <2>3. InFront'
    BY <2>1, <2>2, DialogCloses
  <2>4. QED BY <2>1, <2>3, HelpersStay
<1>11. ASSUME NEW cancel \in BOOLEAN, Answer(cancel)
       PROVE  OneAtATime' /\ (fate' = "" => InFront')
  BY <1>1, <1>11, Answered DEF Answer
<1>12. CASE Return
  BY <1>1, <1>12, LoopReturns DEF Return
<1>13. ASSUME NEW h \in Runs, HelperStep(h)
       PROVE  OneAtATime' /\ (fate' = "" => InFront')
  <2>1. /\ ~Idle /\ OneAtATime'
        /\ UNCHANGED <<fate, loops, window, runs>>
    BY <1>13, HelperAlone
  <2>2. QED BY <2>1, FrontStays
<1>14. ASSUME NEW h \in Runs, FrontStep(h)
       PROVE  OneAtATime' /\ (fate' = "" => InFront')
  BY <1>14, FrontAlone
<1>15. CASE Over
  <2>1. fate' # "" /\ UNCHANGED <<runs, helper, told, status, replies>>
    BY <1>15 DEF Over, vars
  <2>2. QED BY <2>1, HelpersStay
<1>16. QED
  BY <1>4, <1>5, <1>6, <1>7, <1>8, <1>9, <1>10, <1>11, <1>12, <1>13, <1>14,
     <1>15
  DEF Next, UserStep, Responds

-----------------------------------------------------------------------------
(* The theorems.                                                           *)

\* At the beginning no helper is at work and nothing is in front.
LEMMA InitCalm == Init => OneAtATime /\ InFront
<1> SUFFICES ASSUME Init PROVE OneAtATime /\ InFront
  OBVIOUS
<1>1. /\ runs = 0 /\ helper = [h \in Runs |-> "unborn"]
      /\ replies = [h \in Runs |-> <<>>]
      /\ window = "none" /\ loops = <<Loop("start", 0)>>
  BY DEF Init
<1>2. OneAtATime
  <2>1. \A h \in Runs : ~(h < 0)
    BY DEF Runs
  <2>2. QED BY <1>1, <2>1 DEF OneAtATime
<1>3. /\ Loop("start", 0).kind = "start" /\ Loop("start", 0).quit = FALSE
  BY LoopType, RunNumbers
<1>4. Nested(loops)
  BY <1>1, <1>3 DEF Nested
<1>5. InFront
  BY <1>1, <1>3, <1>4 DEF InFront
<1>6. QED BY <1>2, <1>5

\* The invariant holds at first, and every step keeps it.
LEMMA UserInfoInductive ==
    /\ Init => UserInfoInv
    /\ UserInfoInv /\ [Next]_vars => UserInfoInv'
<1>1. Init => UserInfoInv
  BY InitTyped, InitCalm DEF UserInfoInv
<1>2. ASSUME UserInfoInv, Next PROVE UserInfoInv'
  <2>1. UserInfoType' /\ Based' /\ EditsOnly'
    BY <1>2, TypeKeeps, BasedKeeps, EditsKeep DEF UserInfoInv
  <2>2. UNCHANGED habit
    BY <1>2 DEF Next, Start, UserStep, Edit, Apply, Close, DestroyForm,
       DismissMessages, CloseQuestion, Responds, ResultRead, Answer, Return,
       HelperStep, Asks, ReadsReply, Saves, Fails, FrontStep, Reads, HangUp,
       ChildExited, Over, vars, formVars
  <2>3. ~habit.dismiss => OneAtATime' /\ (fate' = "" => InFront')
    BY <1>2, PatientKeeps DEF UserInfoInv
  <2>4. QED BY <2>1, <2>2, <2>3 DEF UserInfoInv
<1>3. ASSUME UserInfoInv, UNCHANGED vars PROVE UserInfoInv'
  <2>1. UserInfoType' /\ Based' /\ EditsOnly'
    BY <1>3 DEF UserInfoInv, UserInfoType, Based, EditsOnly, Unedited, Shown,
       vars, formVars, frontVars, helperVars
  <2>2. OneAtATime' <=> OneAtATime
    BY <1>3 DEF OneAtATime, vars, formVars, frontVars, helperVars
  <2>3. InFront' <=> InFront
    BY <1>3 DEF InFront, Nested, Idle, vars, formVars, frontVars, helperVars
  <2>4. UNCHANGED <<habit, fate>>
    BY <1>3 DEF vars, formVars, frontVars, helperVars
  <2>5. QED BY <1>3, <2>1, <2>2, <2>3, <2>4 DEF UserInfoInv
<1>4. QED BY <1>1, <1>2, <1>3

\* The variables of userinfo keep their types: the stack of its main loops and
\* dialogs, what its form and its helpers' command lines hold, and the pipes.
THEOREM UserInfoTypeCorrect == Spec => []UserInfoType
<1>1. UserInfoInv => UserInfoType
  BY DEF UserInfoInv
<1>2. QED BY <1>1, UserInfoInductive, PTL DEF Spec

\* Whatever userinfo is started with and however its form is used, a helper it
\* runs saves what the user has changed and nothing else, see on_ok_clicked().
THEOREM OnlyEditsAreSaved == Spec => ChangesOnlyEdits
<1> DEFINE A ==
       \A h \in Runs : status'[h] = 0 /\ status[h] # 0 =>
          /\ \A f \in Fields \ changedIn : Shown(db', f) = Shown(db, f)
          /\ "shell" \notin changedIn => db'.shell = db.shell
          /\ GecosParse(db'.gecos).site_info =
                Stripped(GecosParse(db.gecos).site_info)
<1>1. ASSUME UserInfoInv, [Next]_vars PROVE [A]_vars
  <2>1. SUFFICES ASSUME Next, NEW h \in Runs, status'[h] = 0, status[h] # 0
                 PROVE  /\ \A f \in Fields \ changedIn :
                              Shown(db', f) = Shown(db, f)
                        /\ "shell" \notin changedIn => db'.shell = db.shell
                        /\ GecosParse(db'.gecos).site_info =
                              Stripped(GecosParse(db.gecos).site_info)
    BY <1>1
  <2>2. status \in [Runs -> Statuses] /\ UserInfoType /\ EditsOnly
    BY <1>1 DEF UserInfoInv, UserInfoType
  <2>3. status' # status
    BY <2>1
  <2>4. PICK k \in Runs : HelperStep(k)
    BY <2>1, <2>3 DEF Next, Start, UserStep, Edit, Apply, Close, DestroyForm,
       DismissMessages, CloseQuestion, Responds, ResultRead, Answer, Return,
       FrontStep, Reads, HangUp, ChildExited, Over, vars, helperVars
  <2>5. Saves(k)
    <3>1. ~Asks(k, "info") /\ ~Asks(k, "question")
      BY <2>3 DEF Asks
    <3>2. ~Fails(k) /\ ~ReadsReply(k)
      BY <2>1, <2>2 DEF Fails, ReadsReply, Canceled
    <3>3. QED BY <2>4, <3>1, <3>2 DEF HelperStep
  <2>6. QED BY <2>2, <2>5, SavesEdits
<1>2. QED BY <1>1, UserInfoInductive, PTL DEF Spec, ChangesOnlyEdits

\* Unless the user dismisses what only tells him something, every answer he
\* gives goes to the helper that asked, however many he has run: that childin
\* and resp belong to the newest helper does no harm
\* (userhelper_write_childin()).
THEOREM AnswersArriveAtAsker == Spec => []AnswersArrive
<1>1. UserInfoInv => AnswersArrive
  BY DEF UserInfoInv, OneAtATime, AnswersArrive, AnswersGoToAsker
<1>2. QED BY <1>1, UserInfoInductive, PTL DEF Spec

\* Unless he dismisses them, by the time the form takes input again every
\* helper has ended, and of each one that has been reaped the user knows how it
\* ended, even if a question of its own was up then: see
\* userhelper_child_exited().
THEOREM OutcomeIsTold == Spec => []OutcomeTold
<1>1. ASSUME UserInfoInv, ~habit.dismiss, NEW h \in 1..runs
      PROVE  /\ AtForm => helper[h] = "reaped"
             /\ helper[h] = "reaped" => told[h] = status[h]
  <2>1. OneAtATime /\ UserInfoType
    BY <1>1 DEF UserInfoInv
  <2>2. runs \in 0..MaxRuns
    BY <2>1 DEF UserInfoType
  <2>3. h \in Runs /\ h \in Nat /\ (h < runs \/ h = runs) /\ runs # 0
    BY <1>1, <2>2, RunNumbers DEF Runs
  <2>4. ASSUME AtForm PROVE helper[h] = "reaped"
    <3>1. Idle
      BY <1>1, <2>4 DEF UserInfoInv, AtForm, InFront
    <3>2. QED BY <2>1, <2>3, <3>1 DEF OneAtATime, Idle
  <2>5. QED BY <2>1, <2>3, <2>4 DEF OneAtATime
<1>2. UserInfoInv => OutcomeTold
  BY <1>1 DEF OutcomeTold
<1>3. QED BY <1>2, UserInfoInductive, PTL DEF Spec
=============================================================================
