------------------------------ MODULE MCAccount ------------------------------
(* Small instances of Account.                                             *)
EXTENDS Account, TLC

MCTexts  == {"", "a", "b", "long", "a:b", "/bin/sh", "/bin/zsh", "/nologin"}
MCLength == [t \in MCTexts |-> IF t = "long" THEN 122 ELSE IF t = "" THEN 0
                               ELSE 1]
MCBad    == {"a:b"}
MCShells == {"/bin/sh", "/bin/zsh"}
MCUsers  == {"root", "ann"}

NoItems == [f \in Fields |-> NoText]
Rec(gecos, shell) == [gecos |-> gecos, attrs |-> NoItems, shell |-> shell]

\* The empty string, "a", and "a,,,,b,": commas at the end, a fifth part.
MCRecords ==
    {Rec(<<>>, NoText), Rec(<<"a">>, "/nologin"),
     Rec(<<"a", "", "", "", "b", "">>, "")}

MCRepairs == {Rec(<<"b", "b">>, "/nologin")}

New(f, t) == [g \in Fields \cup {"shell"} |-> IF g = f THEN t ELSE NoText]
Nothing == New("nothing", "")

\* userinfo gives all the fields.
All(t, shell) ==
    [g \in Fields \cup {"shell"} |-> IF g = "shell" THEN shell ELSE t]

By(who, c, new, names) == [by |-> who, c |-> c, new |-> new, names |-> names]

\* A call that nobody else's meets: the other helper does nothing.
MCAlone ==
    {By("ann", FALSE, New("full_name", "b"), <<>>),
     By("ann", FALSE, New("home_phone", "b"), <<>>),
     By("ann", FALSE, New("office", "long"), <<>>),
     By("ann", FALSE, New("office", "a:b"), <<>>),
     By("ann", FALSE, New("shell", "/bin/zsh"), <<>>),
     By("ann", FALSE, New("shell", "/nologin"), <<>>),
     By("ann", FALSE, All("", "/bin/sh"), <<>>),
     By("ann", FALSE, New("office", "b"), <<"root">>),
     By("ann", FALSE, Nothing, <<>>),
     By("ann", TRUE, Nothing, <<>>),
     By("ann", TRUE, New("office", "b"), <<>>),
     By("root", FALSE, New("office", "b"), <<"ann">>),
     By("root", TRUE, Nothing, <<"nobody">>)}

\* Calls whose edits meet.
MCMeeting ==
    {By("ann", FALSE, New("full_name", "b"), <<>>),
     By("ann", FALSE, All("b", "/bin/zsh"), <<>>),
     By("root", FALSE, New("shell", "/bin/sh"), <<"ann">>)}

MCCalls ==
    {("h1" :> c @@ "h2" :> By("ann", FALSE, Nothing, <<>>)) : c \in MCAlone}
    \cup [{"h1", "h2"} -> MCMeeting]

MCPamErrors == {"PAM_AUTH_ERR", "PAM_CONV_ERR"}
=============================================================================
