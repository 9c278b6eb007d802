----------------------------- MODULE MCUserInfo ------------------------------
(* Small instances of UserInfo.                                            *)
EXTENDS UserInfo

MCTexts   == {"", "a", "b", "/bin/sh", "/bin/zsh", "/odd"}
MCLength  == [t \in MCTexts |-> IF t = "" THEN 0 ELSE 1]
MCGecoses == {<<>>, <<"a">>, <<"a", "", "", "b", "a", "b">>}
MCLongGecos == {<<"a", "", "", "b", "a", "b">>}
MCSh      == {"/bin/sh"}
MCShells  == {"/bin/sh", "/bin/zsh"}
MCOdd     == {"/odd"}
MCEdits   == {<<"full_name", "b">>, <<"home_phone", "a">>,
              <<"shell", "/bin/zsh">>}
MCFewEdits == {<<"shell", "/bin/sh">>}

MCPatient == {[dismiss |-> FALSE, destroy |-> FALSE]}
MCHasty   == {[dismiss |-> TRUE,  destroy |-> TRUE]}
MCHabits  == MCPatient \cup MCHasty

New(f, t) == [g \in Settable |-> IF g = f THEN t ELSE NoText]
MCPlain   == {[x |-> FALSE, new |-> New("nothing", "")]}
MCOptionSets ==
    {[x |-> TRUE,  new |-> New("nothing", "")],
     [x |-> TRUE,  new |-> New("office", "b")],
     [x |-> FALSE, new |-> [New("office", "b") EXCEPT !["shell"] = "/bin/zsh"]]}
=============================================================================
