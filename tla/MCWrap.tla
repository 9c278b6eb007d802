------------------------------- MODULE MCWrap -------------------------------
(* Small instances of Wrap.                                                *)
EXTENDS WrapRefinement

\* The first attempt only, and one more.
MCRetries == {0, 1}

\* One prompt; one text; two prompts with a text.
MCShapes == {<<1, 0>>, <<0, 1>>, <<2, 1>>}

MCPamErrors == {"PAM_AUTH_ERR", "PAM_ABORT"}

MCOnePamError == {"PAM_ABORT"}

\* The error whose number is that of an exit status.
MCCredErrors == {"PAM_CRED_INSUFFICIENT"}

\* Success, the status that the helper uses for a cancellation, a signal.
MCProgramStatuses == {0, ERR_CANCELED, -SIGKILL}

MCAnyone == {"helper", "child", "parent"}
=============================================================================
