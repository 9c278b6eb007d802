-------------------------------- MODULE Shvar --------------------------------
(***************************************************************************)
(* shvar.c: files of shell variables, read, changed and rewritten.         *)
(*                                                                         *)
(* A line is a variable and its text, as it is written; a comment, which   *)
(* no key matches; or ". file".  A text is a sequence of characters, as    *)
(* quoting is what this code has to get right.  The parent of a file, the  *)
(* defaults it overrides, does not change and has none of its own.         *)
(***************************************************************************)
EXTENDS Naturals, SequencesExt

CONSTANTS
    Keys,      \* variables
    Values,    \* what they are set to
    Files,     \* what the file may hold at first, without what it includes
    Parents,   \* what the parent holds, or NoFile for no parent
    Included,  \* the files that can be included, and what they hold
    MaxFds,    \* files open at once
    MaxLines,  \* lines of an open file, at most
    Faults     \* writing may fail, and the program be killed

Quote     == "\""
Backslash == "\\"
Escapees  == {Quote, Backslash, "'", "$", "~", "backquote"}
Spaces    == {" ", "\t"}

NoText == <<"NULL">>
Crash  == <<"CRASH">>
NoFile == <<[key |-> "no file", text |-> <<>>]>>
NoCall == [key |-> "none", value |-> NoText]

VARIABLES
    disk,      \* the file, or NoFile
    tail,      \* its last line has no newline
    parent,    \* the parent's lines, or NoFile
    phase,     \* "closed", "open", "writing" or "crashed"
    lines,     \* lineList
    modified,
    tidy,      \* what was opened is as other programs write it
    asked,     \* what svSetValue() was last called with, on a tidy file
    result     \* what svWriteFile() has returned, "" before

vars == <<disk, tail, parent, phase, lines, modified, tidy, asked,
          result>>

-----------------------------------------------------------------------------
(* Quoting.                                                                *)

\* escape().
Escape(s) ==
    IF \A i \in DOMAIN s : s[i] \notin Escapees \cup Spaces THEN s
    ELSE <<Quote>>
         \o FlattenSeq([i \in DOMAIN s |-> IF s[i] \in Escapees
                                           THEN <<Backslash, s[i]>>
                                           ELSE <<s[i]>>])
         \o <<Quote>>

Quoted(s) == s # <<>> /\ s[1] \in {Quote, "'"} /\ s[1] = s[Len(s)]

\* unescape(): a quote that is its own partner makes it move -1 bytes, and of
\* two with nothing between them one is left.
Unescape(s) ==
    IF Quoted(s) /\ Len(s) = 1 THEN Crash
    ELSE IF Quoted(s) /\ Len(s) = 2 THEN Tail(s)
    ELSE FoldLeft(LAMBDA u, c : IF c = Backslash /\ ~u.after
                                THEN [u EXCEPT !.after = TRUE]
                                ELSE [text |-> Append(u.text, c), after |-> FALSE],
                  [text |-> <<>>, after |-> FALSE],
                  IF Quoted(s) THEN SubSeq(s, 2, Len(s) - 1) ELSE s).text

\* The texts that lines may have, and what unescape() makes of them.
Texts ==
    {<<>>} \cup {Escape(v) : v \in Values}
    \cup UNION {{ls[i].text : i \in DOMAIN ls} :
                   ls \in Files \cup Parents \cup {Included[f] : f \in DOMAIN Included}}

Unescaped == [t \in Texts |-> Unescape(t)]

-----------------------------------------------------------------------------
(* Reading.                                                                *)

\* The line svGetValue() leaves current on, 0 for none.
Current(ls, k) ==
    LET matches == {i \in DOMAIN ls : ls[i].key = k} IN
    IF matches = {} THEN 0 ELSE Min(matches)

Own(ls, k) ==
    LET t == Unescaped[ls[Current(ls, k)].text] IN
    IF t = <<>> THEN NoText ELSE t

\* svGetValue(); par is the parent's lines or NoFile.
GetValue(ls, par, k) ==
    IF Current(ls, k) # 0 THEN Own(ls, k)
    ELSE IF par # NoFile /\ Current(par, k) # 0 THEN Own(par, k)
    ELSE NoText

\* svOpenFile() and svInclude(): the lines of a file that holds ls, or NoFile
\* when what it includes cannot be opened.
Expand(ls, inner) ==
    IF \A i \in DOMAIN ls : ls[i].key # "." THEN ls
    ELSE IF \E i \in DOMAIN ls : ls[i].key = "." /\ inner[ls[i].text] = NoFile
    THEN NoFile
    ELSE FlattenSeq([i \in DOMAIN ls |-> IF ls[i].key = "."
                                         THEN inner[ls[i].text]
                                         ELSE <<ls[i]>>])

\* The files that can be included when n - 1 are open.
Load[n \in 1..MaxFds + 1] ==
    [f \in DOMAIN Included |->
        IF n > MaxFds \/ Included[f] = NoFile THEN NoFile
        ELSE Expand(Included[f], Load[n + 1])]

\* What is read of the file: a last line without newline is not.
Read(ls, incomplete) == Expand(IF incomplete THEN Front(ls) ELSE ls, Load[2])

-----------------------------------------------------------------------------
Init ==
    /\ disk \in Files
    /\ tail \in (IF disk \in {NoFile, <<>>} THEN {FALSE} ELSE BOOLEAN)
    /\ parent \in Parents
    /\ phase = "closed" /\ lines = <<>> /\ modified = FALSE /\ tidy = FALSE
    /\ asked = NoCall /\ result = ""

\* A file without a parent as other programs write it: each variable once,
\* none empty.
Tidy(ls) ==
    /\ parent = NoFile
    /\ \A i \in DOMAIN ls : ls[i].key \in Keys =>
          i = Current(ls, ls[i].key) /\ Own(ls, ls[i].key) \in Values

\* svCreateFile(); svNewFile() does not open what is not there.
Open ==
    /\ phase = "closed"
    /\ LET ls == IF disk = NoFile THEN <<>> ELSE Read(disk, tail) IN
       /\ ls # NoFile
       /\ lines' = ls /\ tidy' = Tidy(ls)
    /\ phase' = "open" /\ modified' = FALSE /\ asked' = NoCall /\ result' = ""
    /\ UNCHANGED <<disk, tail, parent>>

Close ==
    /\ phase = "open"
    /\ phase' = "closed" /\ lines' = <<>> /\ modified' = FALSE
    /\ asked' = NoCall
    /\ UNCHANGED <<disk, tail, parent, result, tidy>>

Line(k, t) == [key |-> k, text |-> t]

AddLine(k, t) == Len(lines) < MaxLines /\ lines' = Append(lines, Line(k, t))

\* Mutant: the line is replaced in place, and the file not marked.
PutLineUnmarked(k, t) ==
    /\ IF Current(lines, k) # 0
       THEN lines' = [lines EXCEPT ![Current(lines, k)].text = t]
       ELSE AddLine(k, t)
    /\ modified' = (modified \/ Current(lines, k) = 0)

\* "change line".
PutLine(k, t) ==
    /\ IF Current(lines, k) # 0
       THEN lines' = [lines EXCEPT ![Current(lines, k)].text = t]
       ELSE AddLine(k, t)
    /\ modified' = TRUE

\* Mutant: the rest of the list goes with the line.
DeleteLineOn(k) ==
    lines' = SubSeq(lines, 1, Current(lines, k) - 1) /\ modified' = TRUE

\* "delete line".
DeleteLine(k) ==
    lines' = RemoveAt(lines, Current(lines, k)) /\ modified' = TRUE

\* Mutant: a variable that has a value keeps it.
SetToOnce(k, v) ==
    \/ GetValue(lines, parent, k) # NoText /\ UNCHANGED <<lines, modified>>
    \/ /\ GetValue(lines, parent, k) = NoText
       /\ AddLine(k, Escape(v)) /\ modified' = TRUE

\* svSetValue() with a value: what it compares with is escaped, the values it
\* finds are not.
SetTo(k, v) ==
    LET val1 == GetValue(lines, parent, k)
        val2 == IF parent = NoFile THEN NoText ELSE GetValue(parent, NoFile, k)
        new  == Escape(v)
    IN
    \/ /\ val1 = new \/ (val1 = NoText /\ val2 = new)
       /\ UNCHANGED <<lines, modified>>
    \/ val1 = NoText /\ val2 # new /\ AddLine(k, new) /\ modified' = TRUE
    \/ val1 \notin {NoText, new} /\ val2 = new /\ DeleteLine(k)
    \/ val1 \notin {NoText, new} /\ val2 # new /\ PutLine(k, new)

\* Mutant: the line is deleted, whether there is a parent or not.
UnsetDeletes(k) ==
    \/ Current(lines, k) # 0 /\ DeleteLine(k)
    \/ Current(lines, k) = 0 /\ UNCHANGED <<lines, modified>>

\* svSetValue() with NULL.
Unset(k) ==
    LET val1 == GetValue(lines, parent, k)
        val2 == IF parent = NoFile THEN NoText ELSE GetValue(parent, NoFile, k)
    IN
    \/ val2 # NoText /\ PutLine(k, <<>>)
    \/ val2 = NoText /\ val1 # NoText /\ DeleteLine(k)
    \/ val2 = NoText /\ val1 = NoText /\ UNCHANGED <<lines, modified>>

\* svGetValue(), and with it svSetValue(), crashes on some lines.
Crashes(k) ==
    \/ GetValue(lines, parent, k) = Crash
    \/ parent # NoFile /\ GetValue(parent, NoFile, k) = Crash

SetValue(k, v) ==
    /\ phase = "open"
    /\ IF Crashes(k)
       THEN phase' = "crashed" /\ UNCHANGED <<lines, modified>>
       ELSE /\ IF v = NoText THEN Unset(k) ELSE SetTo(k, v)
            /\ UNCHANGED phase
    /\ asked' = IF tidy THEN [key |-> k, value |-> v] ELSE NoCall
    /\ UNCHANGED <<disk, tail, parent, result, tidy>>

\* svWriteFile(): nothing, or a failure, or the file is emptied.
Write ==
    /\ phase = "open"
    /\ \/ ~modified /\ result' = "0" /\ UNCHANGED <<disk, tail, phase>>
       \/ /\ Faults /\ modified /\ result' = "-1"
          /\ UNCHANGED <<disk, tail, phase>>
       \/ /\ modified /\ disk' = <<>> /\ tail' = FALSE /\ phase' = "writing"
          /\ UNCHANGED result
    /\ UNCHANGED <<parent, lines, modified, tidy, asked>>

\* The lines are written, or some of them when the disk is full; fprintf() and
\* fclose() are not asked.
Written ==
    /\ phase = "writing"
    /\ \E n \in 0..Len(lines) :
          /\ n = Len(lines) \/ Faults
          /\ disk' = SubSeq(lines, 1, n)
    /\ result' = "0" /\ phase' = "open"
    /\ UNCHANGED <<tail, parent, lines, modified, tidy, asked>>

\* The program is killed.
Killed ==
    /\ Faults /\ phase \in {"open", "writing"}
    /\ phase' = "closed" /\ lines' = <<>> /\ modified' = FALSE
    /\ asked' = NoCall
    /\ UNCHANGED <<disk, tail, parent, result, tidy>>

Next ==
    \/ Open
    \/ Close
    \/ \E k \in Keys, v \in Values \cup {NoText} : SetValue(k, v)
    \/ Write
    \/ Written
    \/ Killed

Spec == Init /\ [][Next]_vars

-----------------------------------------------------------------------------
(* Properties.                                                             *)

View(k) == GetValue(lines, parent, k)

Opened == phase \in {"open", "writing"}

\* The file implements a dictionary: if it was tidy, then after svSetValue() the
\* variable has the value that was passed, or none when none was, however that
\* is quoted; no other variable changes; and nothing else changes any ("Set the
\* variable <key> equal to the value <value>").
Dictionary ==
    INSTANCE ShvarDict WITH
        DictTexts <- Values \cup {NoText},
        call      <- asked,
        open      <- Opened /\ tidy,
        store     <- IF Opened /\ tidy THEN [k \in Keys |-> View(k)]
                     ELSE [k \in Keys |-> NoText]

IsDictionary == Dictionary!Spec

\* Setting one variable leaves every other one as it was, wherever its line
\* is, whatever the parent has, however often it occurs.
OthersKept ==
    [][\A k \in Keys : (\E v \in Values \cup {NoText} : SetValue(k, v)) =>
          \A other \in Keys \ {k} : View(other)' = View(other)]_vars

\* "Write the current contents iff modified": what is not marked as modified
\* is in the file, up to what it includes.
UnmodifiedIsSaved ==
    phase = "open" /\ ~modified =>
        lines = IF disk = NoFile THEN <<>> ELSE Read(disk, tail)

\* What the parent gives variable k.
Inherited(k) == IF parent = NoFile THEN NoText ELSE GetValue(parent, NoFile, k)

\* A variable that was unset has no value: that of the parent does not come
\* back ("change line to key= or append line key=", svSetValue()), and neither
\* does one of another line, unless the parent has no value to hide: then the
\* first line is deleted, and a second one of the variable is in force.
UnsetHidesParent ==
    [][\A k \in Keys :
          /\ SetValue(k, NoText) /\ phase' = "open"
          /\ \/ Inherited(k) # NoText
             \/ \A i \in DOMAIN lines : lines[i].key = k => i = Current(lines, k)
          => View(k)' = NoText]_vars

\* "Set the variable <key> equal to the value <value>" (shvar.h).
SetThenGet ==
    [][\A k \in Keys, v \in Values : SetValue(k, v) /\ phase' = "open" =>
          View(k)' = v]_vars

\* The table of svSetValue() says noop when the value is what it is set to.
NoopWhenEqual ==
    [][\A k \in Keys, v \in Values :
          SetValue(k, v) /\ View(k) = v => UNCHANGED <<lines, modified>>]_vars

\* svWriteFile() "returns -1 on error and 0 on success".
SuccessMeansSaved ==
    [][result' = "0" /\ phase = "writing" => disk' = lines]_vars

\* Reading a variable always gives its value or none.
ReadingReturns == phase # "crashed"

\* The value of a variable that was set to "" is not a quote.
QuotesComeOff ==
    Opened => \A k \in Keys : View(k) \notin {<<Quote>>, <<"'">>}
=============================================================================
