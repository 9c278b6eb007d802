------------------------------ MODULE MCSession ------------------------------
(* Instances of Session for TLC. *)
EXTENDS Session, TLC

CONSTANTS c1, c2

MCProp(name, val) == NewProp(name, CARD8, val)
MCInitialProps == <<MCProp("RestartStyleHint", 0)>>
Style    == MCProp("RestartStyleHint", 2)
Priority == MCProp("_GSM_Priority", 60)
MCSettings == {Style, Priority}

Kind(members, overlap, sets) ==
    [members |-> members, overlap |-> overlap, sets |-> sets]

\* Two clients; one that is asked again, and sets an old property or a new one.
MCSessions == {Kind({c1, c2}, FALSE, {}), Kind({c1}, TRUE, {Style}),
               Kind({c1}, TRUE, {Priority})}
MCPlain    == {Kind({c1, c2}, FALSE, {})}
MCOverlap  == {Kind({c1}, TRUE, {})}

Save(isShutdown, style) ==
    [type |-> "SaveYourself", local |-> TRUE, shutdown |-> isShutdown,
     style |-> style]
MCKinds == {Save(FALSE, "Any"), Save(TRUE, "Errors")}
=============================================================================
