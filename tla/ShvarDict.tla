------------------------------- MODULE ShvarDict -----------------------------
(***************************************************************************)
(* What shvar.h promises of an open file: "Set the variable <key> equal to *)
(* the value <value>", so that "the value associated with the key" is that *)
(* value from then on, and no other variable changes.                      *)
(***************************************************************************)
CONSTANTS
    Keys,      \* the variables
    DictTexts, \* values, the one that stands for none among them
    NoCall

VARIABLES
    open,      \* the file is open
    store,     \* what its variables are
    call       \* the last call: a variable and the value it was to be set to

vars == <<open, store, call>>

Init == open \in BOOLEAN /\ store \in [Keys -> DictTexts] /\ call = NoCall

\* Called with this variable and this value, and that is its value.
Set(k, v) ==
    /\ open /\ UNCHANGED open
    /\ call' = [key |-> k, value |-> v]
    /\ store' = [store EXCEPT ![k] = v]

\* Between files, and when a file is opened, the variables may be anything.
Load ==
    /\ ~(open /\ open')
    /\ open' \in BOOLEAN
    /\ store' \in [Keys -> DictTexts]
    /\ call' \in {NoCall} \cup [key : Keys, value : DictTexts]

Next == (\E k \in Keys, v \in DictTexts : Set(k, v)) \/ Load

Spec == Init /\ [][Next]_vars
=============================================================================
