------------------------------ MODULE GsmClient ------------------------------
(***************************************************************************)
(* gsmclient.c: the client's side of a session management connection, as   *)
(* pam-panel-icon uses it.  Each c in Clients is a process with one        *)
(* GsmClient, the application around it and the ICE connection, a FIFO in  *)
(* either direction.  A save ends "magically", when the "save" handler     *)
(* returns without having asked for anything, or when the interaction it   *)
(* asked for is done.                                                      *)
(***************************************************************************)
EXTENDS SmProps, FiniteSets

CONSTANTS
    Clients,
    HandlerChoices, \* what "save" handlers do: "saves", "interacts", "phase2"
    Settings,       \* properties the applications set
    InitialProps,   \* those gsm_client_init() pushes
    Leavers,        \* clients whose application disconnects and comes back
    Breakable       \* clients whose ICE connection breaks

ASSUME ChoicesAssumption ==
    HandlerChoices \subseteq {"saves", "interacts", "phase2"}
ASSUME PropertiesAssumption ==
    Settings \subseteq Property /\ InitialProps \in Seq(Property)
ASSUME InitialPropsAssumption == OneOfEach(InitialProps)
ASSUME ClientsAssumption == Leavers \cup Breakable \subseteq Clients

VARIABLES
    priv,        \* the GsmClientPrivate of each client
    connection,  \* clients whose priv->connection is not NULL
    link,        \* clients the session manager has a working connection to
    properties,  \* priv->properties
    toClient,    \* messages on their way to a client
    toSM,        \* messages on their way to the session manager
    dialogs,     \* dialogs its application has up: "current", for the grant
                 \* it has, or "stale", for a save that was cancelled
    told         \* errors_only as the last grant's handler was told

connections == <<connection, link, toClient, toSM>>
application == <<dialogs, told>>
clientVars  == <<priv, connections, properties, application>>

Interacting == {"INTERACT_REQUESTED", "INTERACT_REQUESTED_PHASE2"}

ClientInit ==
    /\ priv = [c \in Clients |->
                 [state |-> "DISCONNECTED", in_shutdown |-> FALSE,
                  interaction_granted |-> FALSE, errors_only |-> FALSE,
                  ignore_next_save |-> FALSE]]
    /\ connection = {} /\ link = {}
    /\ properties = [c \in Clients |-> InitialProps]
    /\ toClient = [c \in Clients |-> <<>>]
    /\ toSM = [c \in Clients |-> <<>>]
    /\ dialogs = [c \in Clients |-> {}]
    /\ told = [c \in Clients |-> FALSE]

\* Messages without arguments.
Message(type) == [type |-> type]

SetProperties(list) == [type |-> "SetProperties", props |-> list]

Send(c, messages) == toSM' = [toSM EXCEPT ![c] = @ \o messages]

\* libICE hands the next message to its callback.
Gets(c, type) ==
    /\ c \in connection \cap link
    /\ toClient[c] # <<>> /\ Head(toClient[c]).type = type
    /\ toClient' = [toClient EXCEPT ![c] = Tail(@)]

NextMessage(c) == Head(toClient[c])

-----------------------------------------------------------------------------
(* Connecting and disconnecting.                                           *)

\* What the session manager sends a client it does not know, to learn its
\* properties.
InitialSave == [type |-> "SaveYourself", local |-> TRUE, shutdown |-> FALSE,
                style |-> "None"]

\* gsm_client_connect(): known says that a previous id was given, initial that
\* the session manager does not know it and sends its first SaveYourself.
Connect(c, known, initial) ==
    /\ c \notin connection \cup link
    /\ priv[c].state = "DISCONNECTED"
    /\ ~known => initial
    /\ connection' = connection \cup {c}
    /\ link' = link \cup {c}
    /\ priv' = [priv EXCEPT ![c].state = "IDLE",
                            ![c].ignore_next_save = ~known]
    /\ toClient' = [toClient EXCEPT ![c] =
                      IF initial THEN <<InitialSave>> ELSE <<>>]
    /\ toSM' = [toSM EXCEPT ![c] =
                  IF properties[c] = <<>> THEN <<>>
                  ELSE <<SetProperties(properties[c])>>]
    /\ UNCHANGED <<properties, application>>

\* gsm_client_end_save(), without the message.
EndSave(p) ==
    IF p.state \in {"IDLE", "DISCONNECTED"} THEN p
    ELSE [p EXCEPT !.state = "IDLE", !.in_shutdown = FALSE,
                   !.interaction_granted = FALSE, !.errors_only = FALSE]

\* gsm_client_disconnect(): refused during a save.
Disconnect(c, p) ==
    IF p.state = "IDLE"
    THEN /\ priv' = [priv EXCEPT ![c] =
                       [p EXCEPT !.state = "DISCONNECTED",
                                 !.ignore_next_save = FALSE]]
         /\ connection' = connection \ {c}
         /\ Send(c, <<Message("Close")>>)
    ELSE /\ priv' = [priv EXCEPT ![c] = p]
         /\ UNCHANGED <<connection, toSM>>

\* The application leaves the session and may come back.
Leaves(c) ==
    /\ c \in Leavers \cap connection \cap link
    /\ priv[c].state = "IDLE"
    /\ Disconnect(c, priv[c])
    /\ toClient' = [toClient EXCEPT ![c] = <<>>]
    /\ UNCHANGED <<link, properties, application>>

\* The connection breaks: process_ice_messages() closes it, and nothing tells
\* the GsmClient.
LinkFails(c) ==
    /\ c \in Breakable \cap connection \cap link
    /\ link' = link \ {c}
    /\ toClient' = [toClient EXCEPT ![c] = <<>>]
    /\ toSM' = [toSM EXCEPT ![c] = <<>>]
    /\ UNCHANGED <<priv, connection, properties, application>>

-----------------------------------------------------------------------------
(* The callbacks of a save.  set is what a "save" handler changes in the   *)
(* properties before it returns, a sequence of at most one.                *)

\* Mutant: the new value is appended, behind the old one.
ReplacedAtEnd(c, set) == properties[c] \o set

\* replace_one_prop().
Replaced(c, set) ==
    IF set = <<>> THEN properties[c] ELSE Replace(properties[c], set[1])

SetMessages(set) == IF set = <<>> THEN <<>> ELSE <<SetProperties(set)>>

\* gsm_client_request_interaction() and gsm_client_request_phase2_save(), for a
\* client that is saving, and the end of the save when it asked for nothing.
AfterSave(p, choice) ==
    CASE choice = "interacts" ->
           [p EXCEPT !.state = IF p.state = "SAVING" THEN "INTERACT_REQUESTED"
                               ELSE "INTERACT_REQUESTED_PHASE2"]
      [] choice = "phase2" /\ p.state = "SAVING" ->
           [p EXCEPT !.state = "PHASE2_REQUESTED"]
      [] OTHER -> EndSave(p)

SaveMessage(p, choice) ==
    CASE choice = "interacts" -> Message("InteractRequest")
      [] choice = "phase2" /\ p.state = "SAVING" -> Message("Phase2Request")
      [] OTHER -> Message("SaveYourselfDone")

\* Mutant: whatever the handler asked for, the save ends with it.
SaveHandlerEnds(c, p, choice, set) ==
    /\ properties' = [properties EXCEPT ![c] = Replaced(c, set)]
    /\ priv' = [priv EXCEPT ![c] = AfterSave(p, choice)]
    /\ Send(c, SetMessages(set) \o <<SaveMessage(p, choice),
                                     Message("SaveYourselfDone")>>)

\* Mutant: a client that has asked for phase 2 may ask to interact as well.
SaveHandlerAsksTwice(c, p, choice, set) ==
    \E both \in {FALSE, choice = "phase2" /\ p.state = "SAVING"} :
    /\ properties' = [properties EXCEPT ![c] = Replaced(c, set)]
    /\ priv' = [priv EXCEPT ![c] =
                  AfterSave(p, IF both THEN "interacts" ELSE choice)]
    /\ Send(c, SetMessages(set) \o <<SaveMessage(p, choice)>>
               \o (IF both THEN <<Message("InteractRequest")>> ELSE <<>>))

\* The "save" signal, emitted for p, and what is left to do after it.
SaveHandler(c, p, choice, set) ==
    /\ properties' = [properties EXCEPT ![c] = Replaced(c, set)]
    /\ priv' = [priv EXCEPT ![c] = AfterSave(p, choice)]
    /\ Send(c, SetMessages(set) \o <<SaveMessage(p, choice)>>)

\* client_save_yourself_callback(): a save that begins.
SaveYourself(c, choice, set) ==
    LET m == NextMessage(c) IN
    /\ Gets(c, "SaveYourself")
    /\ priv[c].state = "IDLE"
    /\ ~(priv[c].ignore_next_save /\ m = InitialSave)
    /\ SaveHandler(c, [priv[c] EXCEPT !.state = "SAVING",
                                      !.in_shutdown = m.shutdown,
                                      !.errors_only = m.style # "Any"],
                   choice, set)
    /\ UNCHANGED <<connection, link, application>>

\* The one that only confirms the connection is answered and no more.
SaveYourselfInitial(c) ==
    /\ Gets(c, "SaveYourself")
    /\ priv[c].state = "IDLE"
    /\ priv[c].ignore_next_save /\ NextMessage(c) = InitialSave
    /\ priv' = [priv EXCEPT ![c].ignore_next_save = FALSE]
    /\ Send(c, <<Message("SaveYourselfDone")>>)
    /\ UNCHANGED <<connection, link, properties, application>>

\* One that comes during a save is ignored.
SaveYourselfIgnored(c) ==
    /\ Gets(c, "SaveYourself")
    /\ priv[c].state # "IDLE"
    /\ UNCHANGED <<priv, connection, link, toSM, properties, application>>

\* client_save_phase_2_callback().
SavePhase2(c, choice, set) ==
    /\ Gets(c, "SaveYourselfPhase2")
    /\ priv[c].state = "PHASE2_REQUESTED"
    /\ SaveHandler(c, [priv[c] EXCEPT !.state = "SAVING_PHASE2"], choice, set)
    /\ UNCHANGED <<connection, link, application>>

SavePhase2Ignored(c) ==
    /\ Gets(c, "SaveYourselfPhase2")
    /\ priv[c].state # "PHASE2_REQUESTED"
    /\ UNCHANGED <<priv, connection, link, toSM, properties, application>>

\* Whatever is still up is for an earlier save.
Stale(c) == IF dialogs[c] = {} THEN {} ELSE {"stale"}

\* client_interact_callback().  The signal is declared with one argument and
\* emitted with two: the handler takes the client, which is not NULL, for
\* errors_only.
Interact(c) ==
    /\ Gets(c, "Interact")
    /\ IF priv[c].state \in Interacting
       THEN /\ priv' = [priv EXCEPT ![c].interaction_granted = TRUE]
            /\ told' = [told EXCEPT ![c] = TRUE]
            /\ dialogs' = [dialogs EXCEPT ![c] = Stale(c) \cup {"current"}]
       ELSE UNCHANGED <<priv, told, dialogs>>
    /\ UNCHANGED <<connection, link, toSM, properties>>

\* Mutant: only an interaction is ended.
ShutdownCancelledInteracting(c) ==
    /\ Gets(c, "ShutdownCancelled")
    /\ IF priv[c].state \in Interacting
       THEN /\ priv' = [priv EXCEPT ![c] = EndSave(@)]
            /\ Send(c, <<Message("SaveYourselfDone")>>)
            /\ dialogs' = [dialogs EXCEPT ![c] = Stale(c)]
       ELSE UNCHANGED <<priv, toSM, dialogs>>
    /\ UNCHANGED <<connection, link, properties, told>>

\* client_shutdown_cancelled_callback(): the save ends, and the application,
\* which may be interacting, is not told.
ShutdownCancelled(c) ==
    /\ Gets(c, "ShutdownCancelled")
    /\ priv' = [priv EXCEPT ![c] = EndSave(@)]
    /\ Send(c, IF priv[c].state = "IDLE" THEN <<>>
               ELSE <<Message("SaveYourselfDone")>>)
    /\ dialogs' = [dialogs EXCEPT ![c] =
                     IF priv[c].state = "IDLE" THEN @ ELSE Stale(c)]
    /\ UNCHANGED <<connection, link, properties, told>>

\* client_save_complete_callback().
SaveComplete(c) ==
    /\ Gets(c, "SaveComplete")
    /\ UNCHANGED <<priv, connection, link, toSM, properties, application>>

\* Mutant: disconnecting comes first, and is refused during a save.
DieDuringSave(c) ==
    /\ Gets(c, "Die")
    /\ Disconnect(c, priv[c])
    /\ dialogs' = [dialogs EXCEPT ![c] = {}]
    /\ UNCHANGED <<link, properties, told>>

\* client_die_callback(): the application ends, and any save without an answer.
Die(c) ==
    /\ Gets(c, "Die")
    /\ Disconnect(c, EndSave(priv[c]))
    /\ dialogs' = [dialogs EXCEPT ![c] = {}]
    /\ UNCHANGED <<link, properties, told>>

-----------------------------------------------------------------------------
(* What the application calls.                                             *)

\* Mutant: a pending request is enough.
MayBeDoneEarly(c) == priv[c].state \in Interacting

\* gsm_client_interaction_done(): only for an interaction that was granted.
MayBeDone(c) ==
    priv[c].interaction_granted /\ priv[c].state \in Interacting

\* A dialog is over: interaction_done() ends the save, which need not be the
\* one the dialog was for.
InteractionDone(c, d) ==
    /\ c \in connection \cap link
    /\ d \in dialogs[c]
    /\ dialogs' = [dialogs EXCEPT ![c] = @ \ {d}]
    /\ IF MayBeDone(c)
       THEN /\ priv' = [priv EXCEPT ![c] = EndSave(@)]
            /\ Send(c, <<Message("InteractDone"),
                         Message("SaveYourselfDone")>>)
       ELSE UNCHANGED <<priv, toSM>>
    /\ UNCHANGED <<connection, link, toClient, properties, told>>

\* gsm_client_request_save(), _global_session_save() and _logout(): refused
\* during a save.
RequestSave(c) ==
    /\ c \in connection \cap link
    /\ priv[c].state = "IDLE"
    /\ toSM[c] = <<>>
    /\ Send(c, <<Message("RequestSave")>>)
    /\ UNCHANGED <<priv, connection, link, toClient, properties, application>>

\* gsm_client_set_*_property() at any time, connected or not.
SetProperty(c, prop) ==
    /\ c \notin connection \/ c \in link
    /\ prop \in Settings
    /\ FindByName(properties[c], prop.name) # prop
    /\ properties' = [properties EXCEPT ![c] = Replaced(c, <<prop>>)]
    /\ IF c \in connection THEN Send(c, SetMessages(<<prop>>))
       ELSE UNCHANGED toSM
    /\ UNCHANGED <<priv, connection, link, toClient, application>>

-----------------------------------------------------------------------------
\* gsm_client_set_priority() lets 0 to 100 through; gsm_client_get_priority()
\* takes 100 for none.
PriorityName == "_GSM_Priority"

SetPriority(list, priority) ==
    IF priority \in 0..100
    THEN Replace(list, NewProp(PriorityName, CARD8, priority)) ELSE list

GetPriority(list) ==
    LET found == FindTyped(list, PriorityName, CARD8) IN
    IF found = {} \/ \E v \in found : v > 99 THEN 50
    ELSE CHOOSE v \in found : TRUE

Handlings == {<<>>} \cup {<<prop>> : prop \in Settings}

Handles(c) ==
    \/ \E choice \in HandlerChoices, set \in Handlings :
          SaveYourself(c, choice, set) \/ SavePhase2(c, choice, set)
    \/ SaveYourselfInitial(c)
    \/ SaveYourselfIgnored(c)
    \/ SavePhase2Ignored(c)
    \/ Interact(c)
    \/ ShutdownCancelled(c)
    \/ SaveComplete(c)
    \/ Die(c)

Calls(c) ==
    \/ \E d \in dialogs[c] : InteractionDone(c, d)
    \/ Leaves(c)
    \/ LinkFails(c)

\* What a busy application calls as well.
MoreCalls(c) == RequestSave(c) \/ \E prop \in Settings : SetProperty(c, prop)
=============================================================================
