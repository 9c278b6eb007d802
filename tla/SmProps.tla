-------------------------------- MODULE SmProps ------------------------------
(***************************************************************************)
(* props.c: the properties of a session management client.  A property     *)
(* list is a sequence of [name, type, val]; the code keeps each name once  *)
(* and finds the first entry of a name.                                    *)
(***************************************************************************)
EXTENDS Integers, Sequences, SequencesExt

CARD8         == "CARD8"
ARRAY8        == "ARRAY8"
LISTofARRAY8  == "LISTofARRAY8"
Types         == {CARD8, ARRAY8, LISTofARRAY8}

Property      == [name : STRING, type : Types, val : Int]

NoProp == [name |-> "", type |-> "", val |-> 0]

\* smprop_new_card8() keeps eight bits, the others what they are given.
NewProp(name, type, val) ==
    [name |-> name, type |-> type,
     val  |-> IF type = CARD8 THEN val % 256 ELSE val]

\* proplist_find_link_by_name(): where the first entry of a name is, or 0.
FindLink(list, name) == SelectInSeq(list, LAMBDA prop : prop.name = name)

FindByName(list, name) ==
    IF FindLink(list, name) = 0 THEN NoProp ELSE list[FindLink(list, name)]

\* proplist_find_card8(), _string() and _vector(): nothing when the type
\* differs.
FindTyped(list, name, type) ==
    LET prop == FindByName(list, name) IN
    IF prop.type = type THEN {prop.val} ELSE {}

\* proplist_replace(): in place, or at the head.
Replace(list, prop) ==
    LET link == FindLink(list, prop.name) IN
    IF link = 0 THEN <<prop>> \o list ELSE [list EXCEPT ![link] = prop]

NamesIn(list) == {list[i].name : i \in DOMAIN list}

\* A list that has each name once.
OneOfEach(list) ==
    \A i, j \in DOMAIN list : list[i].name = list[j].name => i = j

\* What is known of each name, once a list of properties was received.
Learned(known, props) ==
    [n \in DOMAIN known |-> IF n \in NamesIn(props) THEN FindByName(props, n)
                            ELSE known[n]]
=============================================================================
