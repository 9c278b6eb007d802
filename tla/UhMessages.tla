----------------------------- MODULE UhMessages -----------------------------
(***************************************************************************)
(* The vocabulary that userhelper and the graphical front ends share:      *)
(* exit statuses of userhelper, how a PAM result becomes one of them, what *)
(* a front end makes of it, and the shape of the messages the two          *)
(* processes exchange over the pipes UH_INFILENO and UH_OUTFILENO.         *)
(***************************************************************************)
EXTENDS Integers, Sequences

-----------------------------------------------------------------------------
(* Exit statuses (userhelper.h).                                           *)

ERR_PASSWD_INVALID == 1
ERR_FIELDS_INVALID == 2
ERR_SET_PASSWORD   == 3
ERR_LOCKS          == 4
ERR_NO_USER        == 5
ERR_NO_RIGHTS      == 6
ERR_INVALID_CALL   == 7
ERR_SHELL_INVALID  == 8
ERR_NO_MEMORY      == 9
ERR_NO_PROGRAM     == 10
ERR_EXEC_FAILED    == 11
ERR_CANCELED       == 12
ERR_PAM_INT_ERROR  == 13
ERR_MAX_TRIES      == 14
ERR_UNK_ERROR      == 255

ExitStatuses == 0..255

-----------------------------------------------------------------------------
(* PAM results that fail_exit() tells apart, and "PAM_OTHER" for the rest. *)

PamStatus ==
    [ PAM_OPEN_ERR           |-> ERR_PAM_INT_ERROR,
      PAM_SYMBOL_ERR         |-> ERR_PAM_INT_ERROR,
      PAM_SERVICE_ERR        |-> ERR_PAM_INT_ERROR,
      PAM_SYSTEM_ERR         |-> ERR_PAM_INT_ERROR,
      PAM_BUF_ERR            |-> ERR_PAM_INT_ERROR,
      PAM_AUTH_ERR           |-> ERR_PASSWD_INVALID,
      PAM_AUTHTOK_ERR        |-> ERR_PASSWD_INVALID,
      PAM_PERM_DENIED        |-> ERR_PASSWD_INVALID,
      PAM_AUTHTOK_LOCK_BUSY  |-> ERR_LOCKS,
      PAM_CRED_INSUFFICIENT  |-> ERR_NO_RIGHTS,
      PAM_AUTHINFO_UNAVAIL   |-> ERR_NO_RIGHTS,
      PAM_CRED_UNAVAIL       |-> ERR_NO_RIGHTS,
      PAM_CRED_EXPIRED       |-> ERR_NO_RIGHTS,
      PAM_AUTHTOK_EXPIRED    |-> ERR_NO_RIGHTS,
      PAM_USER_UNKNOWN       |-> ERR_NO_USER,
      PAM_MAXTRIES           |-> ERR_MAX_TRIES,
      PAM_CONV_ERR           |-> ERR_UNK_ERROR,
      PAM_ABORT              |-> ERR_UNK_ERROR,
      PAM_OTHER              |-> ERR_UNK_ERROR ]

PamFailures == DOMAIN PamStatus

\* fail_exit() for a result other than PAM_SUCCESS.  The canceled flag wins,
\* but PAM_CRED_INSUFFICIENT has the number of ERR_SHELL_INVALID (8), which is
\* looked for first.
FailExit(canceled, retval) ==
    IF retval = "PAM_CRED_INSUFFICIENT" THEN ERR_SHELL_INVALID
    ELSE IF canceled THEN ERR_CANCELED
    ELSE PamStatus[retval]

\* uh_exitstatus_message(): how a front end announces a status.
ExitMessageType(status) ==
    CASE status = 0            -> "UHM_MESSAGE"
      [] status = ERR_CANCELED -> "UHM_SILENT"
      [] OTHER                 -> "UHM_ERROR"

-----------------------------------------------------------------------------
(* One request is everything the helper writes before one fflush(), up to  *)
(* and including UH_SYNC_POINT; one reply is everything the front end      *)
(* writes for it, up to and including its UH_SYNC_POINT.  Neither side     *)
(* acts on a part of the other's message.                                  *)

Request == [op: {"CONVERSE", "EXEC_START", "EXEC_FAILED"},
            fallback: BOOLEAN, prompts: Nat, infos: Nat, expect: Nat]

\* converse_pipe(): UH_FALLBACK_ALLOW, the prompts and texts, UH_EXPECT_RESP.
ConverseRequest(allowed, prompts, infos) ==
    [op |-> "CONVERSE", fallback |-> allowed,
     prompts |-> prompts, infos |-> infos, expect |-> prompts]

\* UH_EXEC_START and UH_EXEC_FAILED carry no data.
ExecRequest(op) ==
    [op |-> op, fallback |-> FALSE, prompts |-> 0, infos |-> 0, expect |-> 0]

\* texts is the number of UH_TEXT lines before the UH_SYNC_POINT.
Reply == [kind: {"OK", "CANCEL", "FALLBACK"}, texts: Nat]

OkReply(n)    == [kind |-> "OK", texts |-> n]
CancelReply   == [kind |-> "CANCEL", texts |-> 0]
FallbackReply == [kind |-> "FALLBACK", texts |-> 0]
=============================================================================
