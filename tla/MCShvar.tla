------------------------------- MODULE MCShvar -------------------------------
(* Small instances of Shvar.                                               *)
EXTENDS Shvar

MCKeys == {"K", "L"}
Q == <<Quote>>

\* Nothing to quote; what quoting, unquoting or both must not touch.
MCValues == {<<"a">>, <<"a", " ">>, <<Backslash, Quote>>, <<"'", "a", "'">>}
MCPlain  == {<<"a">>}

L(k, t)  == Line(k, t)
Comment  == Line("", <<>>)
Include  == Line(".", <<"inc">>)

MCFiles ==
    {NoFile,
     <<L("L", <<"a">>), Comment, L("K", <<Quote, "a", " ", Quote>>)>>,
     <<L("K", <<"a">>), L("K", <<>>)>>,
     <<L("L", <<"a">>), L("L", <<"b">>)>>,
     <<L("K", <<>>), Include>>,
     <<L("L", Q \o Q)>>,
     <<Line(".", <<"loop">>)>>}
MCParents  == {NoFile, <<L("K", <<"a">>), L("L", <<>>)>>}
MCNoParent == {NoFile}

\* A file that is included, and one that includes itself.
MCIncluded == (<<"inc">> :> <<L("L", <<"b">>)>>) @@ (<<"loop">> :> <<Line(".", <<"loop">>)>>)
MCEmptied   == {<<L("K", <<>>)>>}
MCNothing    == {<<L("K", Q \o Q)>>}
MCQuoteFiles == {<<L("K", Q)>>}
=============================================================================
